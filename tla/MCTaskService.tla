--------------------------- MODULE MCTaskService ---------------------------
(* Model values of the TLC runs of TaskService. *)
EXTENDS TaskService, TLC

Symmetry == Permutations(Replicas) \cup Permutations(Tasks) \cup Permutations(Msgs)

AllFaults == FaultKinds

NoFaults == {}

(* Faults a running event loop recovers from. *)
TransientFaults == {"status", "send", "delete", "crash"}
=============================================================================
