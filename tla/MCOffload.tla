----------------------------- MODULE MCOffload -----------------------------
(* Model values of the TLC runs of Offload. *)
EXTENDS Offload, TLC

CONSTANT k1

OneResource == {k1}
AllEnabled == {}
TaskTokens == [t \in Tasks |-> 1]

AnyWiring == BOOLEAN
Wired == {TRUE}

PipelineFaults == {"status", "delete", "crash", "foreign"}
ServiceFaults == {"addGet", "stale", "crash"}
DeleteFails == {"delete"}
NoFaults == {}

Symmetry == Permutations(Replicas) \cup Permutations(Msgs)
=============================================================================
