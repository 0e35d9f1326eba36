--------------------------- MODULE ResourceLedger ---------------------------
(***************************************************************************)
(* Replicas of ResourceDispatch that take turns implement SlotLedger: the  *)
(* read, test, second read and write of a row amount to one atomic         *)
(* reservation.                                                            *)
(***************************************************************************)
EXTENDS ResourceDispatch

Amounts == {Tokens[t] : t \in Tasks}

NoHold == NoKey

ASSUME NoHoldAssumption == NoHold \notin [key : Resources, amount : Amounts]

(* The reservation a call has in hand, from the put that made it to the put
   that takes it back or the answer that confirms it. *)
Holding(r) ==
    IF pc[r] \in {"creating", "rollingback"}
    THEN [key |-> key[r], amount |-> Tokens[task[r]]]
    ELSE NoHold

(* A put that reports an error and the end of the process cut a call off;
   a provider that refuses does not. *)
Leaks == Faults \cap {"put", "crash"} # {}

(* A start-up whose read of a row fails writes the initial row over it. *)
Resets == "addGet" \in Faults

Ledger == INSTANCE SlotLedger WITH
    Limit <- MaxConcurrentBatches,
    used  <- [k \in Resources |-> Count(k)],
    load  <- [k \in Resources |-> Load(k)],
    hold  <- [r \in Replicas |-> Holding(r)]

(* Every step of a replica is a step of the ledger or invisible in it: slots
   and tokens are taken within the limit, given back by exactly what was taken,
   lost only where a put fails or the process dies, and forgotten only where a
   start-up resets the row. *)
ImplementsLedger == Ledger!Spec
=============================================================================
