------------------------------ MODULE Delivery ------------------------------
(***************************************************************************)
(* What bfo promises a client, abstractly: a task it accepted is queued    *)
(* until a provider holds a batch for it.  It may be queued, submitted and *)
(* settled any number of times: delivery is at least once, never at most   *)
(* once.  Offload implements this.                                         *)
(***************************************************************************)
EXTENDS Naturals

CONSTANT Tasks

VARIABLES
    queued,     \* tasks with a message in the queue
    accepted,   \* tasks whose PUT was answered 200
    batches     \* batches[t]: batches the providers hold for t

vars == <<queued, accepted, batches>>

TypeOK ==
    /\ queued \subseteq Tasks
    /\ accepted \subseteq Tasks
    /\ batches \in [Tasks -> Nat]

Init ==
    /\ queued = {}
    /\ accepted = {}
    /\ batches = [t \in Tasks |-> 0]

(* The client is told, or not, that its task is in the queue. *)
Send(t) ==
    /\ queued' = queued \cup {t}
    /\ accepted' \in {accepted, accepted \cup {t}}
    /\ UNCHANGED batches

(* A queued task goes to a provider, or one that went there before does again. *)
Submit(t) ==
    /\ t \in queued \/ batches[t] > 0
    /\ batches' = [batches EXCEPT ![t] = @ + 1]
    /\ UNCHANGED <<queued, accepted>>

(* Only a submitted task leaves the queue. *)
Settle(t) ==
    /\ batches[t] > 0
    /\ queued' = queued \ {t}
    /\ UNCHANGED <<accepted, batches>>

Next == \E t \in Tasks : Send(t) \/ Submit(t) \/ Settle(t)

Spec == Init /\ [][Next]_vars

(* The promise. *)
AtLeastOnce == \A t \in accepted : t \in queued \/ batches[t] > 0
=============================================================================
