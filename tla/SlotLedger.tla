----------------------------- MODULE SlotLedger -----------------------------
(***************************************************************************)
(* What the counters of a resource promise, abstractly: a ledger in which  *)
(* a caller reserves a slot in one step, never beyond the limit, and then  *)
(* confirms a batch in that slot or gives the slot back.  A slot whose     *)
(* caller is cut off leaks: it stays used with no batch behind it.  A       *)
(* resource may forget what it counted, while no caller holds a slot.      *)
(*                                                                         *)
(* The ledger makes its promises to any number of replicas.  ResourceLedger*)
(* shows that a replica of ResourceDispatch by itself implements it, and   *)
(* several do while they take turns.                                       *)
(***************************************************************************)
EXTENDS Integers, FiniteSets

CONSTANTS
    Replicas, Resources,
    Amounts,    \* the token amounts a reservation may be for
    Limit,      \* slots of a resource
    Leaks,      \* whether a caller may be cut off
    Resets,     \* whether the counters of a resource may start again from zero
    NoHold

VARIABLES
    used,       \* used[k]: slots of k that are taken
    load,       \* load[k]: tokens of those slots
    hold,       \* hold[r]: the reservation r has in hand
    confirmed,  \* confirmed[k]: batches in slots of k
    booked      \* booked[k]: tokens of those batches

vars == <<used, load, hold, confirmed, booked>>

Hold == [key : Resources, amount : Amounts]

TypeOK ==
    /\ used \in [Resources -> Nat]
    /\ load \in [Resources -> Int]
    /\ hold \in [Replicas -> Hold \cup {NoHold}]
    /\ confirmed \in [Resources -> Nat]
    /\ booked \in [Resources -> Int]

Init ==
    /\ used = [k \in Resources |-> 0]
    /\ load = [k \in Resources |-> 0]
    /\ hold = [r \in Replicas |-> NoHold]
    /\ confirmed = [k \in Resources |-> 0]
    /\ booked = [k \in Resources |-> 0]

(* One more slot of k is used, for n tokens. *)
Take(k, n) ==
    /\ used[k] < Limit
    /\ used' = [used EXCEPT ![k] = @ + 1]
    /\ load' = [load EXCEPT ![k] = @ + n]

Reserve(r, k, n) ==
    /\ hold[r] = NoHold
    /\ Take(k, n)
    /\ hold' = [hold EXCEPT ![r] = [key |-> k, amount |-> n]]
    /\ UNCHANGED <<confirmed, booked>>

Confirm(r) ==
    LET h == hold[r]
    IN  /\ h # NoHold
        /\ confirmed' = [confirmed EXCEPT ![h.key] = @ + 1]
        /\ booked' = [booked EXCEPT ![h.key] = @ + h.amount]
        /\ hold' = [hold EXCEPT ![r] = NoHold]
        /\ UNCHANGED <<used, load>>

Release(r) ==
    LET h == hold[r]
    IN  /\ h # NoHold
        /\ used' = [used EXCEPT ![h.key] = @ - 1]
        /\ load' = [load EXCEPT ![h.key] = @ - h.amount]
        /\ hold' = [hold EXCEPT ![r] = NoHold]
        /\ UNCHANGED <<confirmed, booked>>

(* A caller is cut off: with its reservation written but not in its hands, or
   with the reservation in hand. *)
Leak(r) ==
    /\ Leaks
    /\ \/ /\ \E k \in Resources, n \in Amounts : Take(k, n)
          /\ hold[r] = NoHold
          /\ UNCHANGED hold
       \/ /\ hold[r] # NoHold
          /\ hold' = [hold EXCEPT ![r] = NoHold]
          /\ UNCHANGED <<used, load>>
    /\ UNCHANGED <<confirmed, booked>>

(* A resource of which no caller holds a slot forgets what it counted. *)
Forget(k) ==
    /\ Resets
    /\ \A r \in Replicas : hold[r] = NoHold \/ hold[r].key # k
    /\ used' = [used EXCEPT ![k] = 0]
    /\ load' = [load EXCEPT ![k] = 0]
    /\ UNCHANGED <<hold, confirmed, booked>>

Next ==
    \/ \E r \in Replicas :
          \/ \E k \in Resources, n \in Amounts : Reserve(r, k, n)
          \/ Confirm(r)
          \/ Release(r)
          \/ Leak(r)
    \/ \E k \in Resources : Forget(k)

Spec == Init /\ [][Next]_vars

-----------------------------------------------------------------------------
Holders(k) == {r \in Replicas : hold[r] # NoHold /\ hold[r].key = k}

(* The reservations in hand are never more than the slots in use, nor those more
   than the limit; and unless a count was forgotten, the confirmed batches have
   slots of their own besides. *)
Bounded ==
    \A k \in Resources :
        /\ Cardinality(Holders(k)) <= used[k]
        /\ used[k] <= Limit
        /\ ~Resets => confirmed[k] + Cardinality(Holders(k)) <= used[k]

(* When no caller is cut off and no count forgotten, no slot is used for
   nothing. *)
Balanced ==
    \A k \in Resources : used[k] = confirmed[k] + Cardinality(Holders(k))
=============================================================================
