-------------------------- MODULE SlotLedgerProofs --------------------------
(***************************************************************************)
(* Proofs about SlotLedger, for any finite set of replicas and any limit.  *)
(***************************************************************************)
EXTENDS SlotLedger, FiniteSetTheorems, TLAPS

(* What the constants have to be. *)
Sane ==
    /\ IsFiniteSet(Replicas)
    /\ Amounts \subseteq Int
    /\ Limit \in Nat
    /\ NoHold \notin Hold

LInv == TypeOK /\ Bounded

(* No slot of k is held by more replicas than there are. *)
LEMMA HoldersFinite ==
    ASSUME Sane, NEW k
    PROVE  IsFiniteSet(Holders(k)) /\ Cardinality(Holders(k)) \in Nat
<1>1. Holders(k) \subseteq Replicas
      BY DEF Holders
<1> QED BY <1>1, FS_Subset, FS_CardinalityType DEF Sane

(* Taking a reservation in hand adds its replica to the holders of its key. *)
LEMMA HoldTaken ==
    ASSUME Sane, TypeOK, NEW r \in Replicas, NEW k \in Resources, NEW n \in Amounts,
           hold[r] = NoHold, hold' = [hold EXCEPT ![r] = [key |-> k, amount |-> n]],
           NEW i \in Resources
    PROVE  Cardinality(Holders(i))' = Cardinality(Holders(i)) + (IF i = k THEN 1 ELSE 0)
<1>1. /\ hold'[r] # NoHold /\ hold'[r].key = k
      /\ \A q \in Replicas \ {r} : hold'[q] = hold[q]
      BY DEF TypeOK, Sane, Hold
<1>2. CASE i = k
      <2>1. Holders(i)' = Holders(i) \cup {r} /\ r \notin Holders(i)
            BY <1>1, <1>2 DEF Holders
      <2> QED BY <1>2, <2>1, HoldersFinite, FS_AddElement
<1>3. CASE i # k
      <2>1. Holders(i)' = Holders(i)
            BY <1>1, <1>3 DEF Holders
      <2> QED BY <1>3, <2>1, HoldersFinite
<1> QED BY <1>2, <1>3

(* Letting go of it takes the replica away again. *)
LEMMA HoldDropped ==
    ASSUME Sane, TypeOK, NEW r \in Replicas, hold[r] # NoHold,
           hold' = [hold EXCEPT ![r] = NoHold], NEW i \in Resources
    PROVE  Cardinality(Holders(i))' =
               Cardinality(Holders(i)) - (IF i = hold[r].key THEN 1 ELSE 0)
<1>1. hold'[r] = NoHold /\ \A q \in Replicas \ {r} : hold'[q] = hold[q]
      BY DEF TypeOK
<1>2. CASE i = hold[r].key
      <2>1. Holders(i)' = Holders(i) \ {r} /\ r \in Holders(i)
            BY <1>1, <1>2 DEF Holders
      <2> QED BY <1>2, <2>1, HoldersFinite, FS_RemoveElement
<1>3. CASE i # hold[r].key
      <2>1. Holders(i)' = Holders(i)
            BY <1>1, <1>3 DEF Holders
      <2> QED BY <1>3, <2>1, HoldersFinite
<1> QED BY <1>2, <1>3

LEMMA InitLInv ==
    ASSUME Sane
    PROVE  Init => LInv /\ Balanced
<1> SUFFICES ASSUME Init
             PROVE  TypeOK /\ Bounded /\ Balanced
    BY DEF LInv
<1>1. \A k \in Resources : Cardinality(Holders(k)) = 0
      <2> SUFFICES ASSUME NEW k \in Resources
                   PROVE  Holders(k) = {}
          BY FS_EmptySet
      <2> QED BY DEF Holders, Init
<1> QED BY <1>1 DEF Init, TypeOK, Bounded, Balanced, Sane

(* Each step of the ledger, entry by entry. *)
LEMMA StepLInv ==
    ASSUME Sane
    PROVE  /\ LInv /\ [Next]_vars => LInv'
           /\ ~Leaks /\ ~Resets /\ LInv /\ Balanced /\ [Next]_vars => Balanced'
<1> SUFFICES ASSUME LInv, [Next]_vars
             PROVE  LInv' /\ (~Leaks /\ ~Resets /\ Balanced => Balanced')
    OBVIOUS
<1> USE DEF LInv, TypeOK, Sane
<1>h. \A k \in Resources : Cardinality(Holders(k)) \in Nat
      BY HoldersFinite
<1>1. ASSUME NEW r \in Replicas, NEW k \in Resources, NEW n \in Amounts, Reserve(r, k, n)
      PROVE  LInv' /\ (Balanced => Balanced')
      <2>1. TypeOK'
            BY <1>1 DEF Reserve, Take, Hold
      <2>2. \A i \in Resources : Cardinality(Holders(i))' =
                Cardinality(Holders(i)) + (IF i = k THEN 1 ELSE 0)
            BY <1>1, HoldTaken DEF Reserve
      <2>3. \A i \in Resources : /\ used'[i] = used[i] + (IF i = k THEN 1 ELSE 0)
                                 /\ i = k => used[i] < Limit
                                 /\ confirmed'[i] = confirmed[i]
            BY <1>1 DEF Reserve, Take
      <2> QED BY <1>h, <2>1, <2>2, <2>3 DEF Bounded, Balanced
<1>2. ASSUME NEW r \in Replicas, Confirm(r) \/ Release(r)
      PROVE  LInv' /\ (Balanced => Balanced')
      <2> DEFINE k == hold[r].key
      <2>1. hold[r] # NoHold /\ k \in Resources /\ hold[r].amount \in Int
            BY <1>2 DEF Confirm, Release, Hold
      <2>t. hold' \in [Replicas -> Hold \cup {NoHold}]
            BY <1>2 DEF Confirm, Release
      <2>2. \A i \in Resources : Cardinality(Holders(i))' =
                Cardinality(Holders(i)) - (IF i = k THEN 1 ELSE 0)
            BY <1>2, <2>1, HoldDropped DEF Confirm, Release
      <2>3. r \in Holders(k)
            BY <2>1 DEF Holders
      <2>4. Cardinality(Holders(k)) >= 1
            BY <2>3, <1>h, <2>1, HoldersFinite, FS_EmptySet
      <2>5. CASE Confirm(r)
            <3>1. TypeOK'
                  <4>1. confirmed' \in [Resources -> Nat] /\ booked' \in [Resources -> Int]
                        BY <2>1, <2>5 DEF Confirm
                  <4> QED BY <2>t, <2>5, <4>1 DEF Confirm
            <3>2. \A i \in Resources :
                      /\ confirmed'[i] = confirmed[i] + (IF i = k THEN 1 ELSE 0)
                      /\ used'[i] = used[i]
                  BY <2>1, <2>5 DEF Confirm
            <3> QED BY <1>h, <2>2, <3>1, <3>2 DEF Bounded, Balanced
      <2>6. CASE Release(r)
            <3>1. \A i \in Resources :
                      /\ used'[i] = used[i] - (IF i = k THEN 1 ELSE 0)
                      /\ confirmed'[i] = confirmed[i]
                  BY <2>1, <2>6 DEF Release
            <3>2. used[k] - 1 \in Nat
                  BY <1>h, <2>1, <2>4 DEF Bounded
            <3>3. TypeOK'
                  <4>1. used' \in [Resources -> Nat] /\ load' \in [Resources -> Int]
                        BY <2>1, <2>6, <3>2 DEF Release
                  <4> QED BY <2>t, <2>6, <4>1 DEF Release
            <3> QED BY <1>h, <2>2, <3>1, <3>3 DEF Bounded, Balanced
      <2> QED BY <1>2, <2>5, <2>6
<1>3. ASSUME NEW r \in Replicas, Leak(r)
      PROVE  LInv' /\ Leaks
      <2>1. ASSUME NEW k \in Resources, NEW n \in Amounts, Take(k, n), UNCHANGED hold
            PROVE  LInv'
            <3>1. TypeOK'
                  BY <1>3, <2>1 DEF Leak, Take, Hold
            <3>2. Holders(k)' = Holders(k) /\ \A i \in Resources : Holders(i)' = Holders(i)
                  BY <2>1 DEF Holders
            <3>3. \A i \in Resources : /\ used'[i] = used[i] + (IF i = k THEN 1 ELSE 0)
                                       /\ i = k => used[i] < Limit
                                       /\ confirmed'[i] = confirmed[i]
                  BY <1>3, <2>1 DEF Leak, Take
            <3> QED BY <1>h, <3>1, <3>2, <3>3 DEF Bounded
      <2>2. CASE /\ hold[r] # NoHold
                 /\ hold' = [hold EXCEPT ![r] = NoHold]
                 /\ UNCHANGED <<used, load>>
            <3>1. TypeOK'
                  BY <1>3, <2>2 DEF Leak, Hold
            <3>2. \A i \in Resources : Cardinality(Holders(i))' =
                      Cardinality(Holders(i)) - (IF i = hold[r].key THEN 1 ELSE 0)
                  BY <2>2, HoldDropped
            <3> QED BY <1>3, <1>h, <2>2, <3>1, <3>2 DEF Leak, Bounded
      <2> QED BY <1>3, <2>1, <2>2 DEF Leak
<1>4. CASE UNCHANGED vars
      BY <1>4 DEF vars, Bounded, Balanced, Holders
<1>5. ASSUME NEW k \in Resources, Forget(k)
      PROVE  LInv' /\ Resets
      <2>1. Holders(k) = {} /\ \A i \in Resources : Holders(i)' = Holders(i)
            BY <1>5 DEF Forget, Holders
      <2>2. Cardinality(Holders(k)) = 0
            BY <2>1, FS_EmptySet
      <2>3. \A i \in Resources : used'[i] = IF i = k THEN 0 ELSE used[i]
            BY <1>5 DEF Forget
      <2>4. TypeOK'
            BY <1>5 DEF Forget
      <2> QED BY <1>5, <1>h, <2>1, <2>2, <2>3, <2>4 DEF Forget, Bounded
<1> QED BY <1>1, <1>2, <1>3, <1>4, <1>5 DEF Next

(* The reservations in hand never exceed the slots in use, nor those the limit,
   for any number of replicas; with the batches besides, unless a count is
   forgotten. *)
THEOREM LedgerBounded ==
    ASSUME Sane
    PROVE  Spec => []Bounded
<1>1. LInv => Bounded
      BY DEF LInv
<1>2. LInv /\ [Next]_vars => LInv'
      BY StepLInv
<1>3. Init => LInv
      BY InitLInv
<1> QED BY <1>1, <1>2, <1>3, PTL DEF Spec

(* Where nobody is cut off and no count forgotten, the slots in use are exactly
   those of the batches and the reservations in hand. *)
THEOREM LedgerBalanced ==
    ASSUME Sane, ~Leaks, ~Resets
    PROVE  Spec => []Balanced
<1>1. LInv /\ Balanced /\ [Next]_vars => (LInv /\ Balanced)'
      BY StepLInv
<1>2. Init => LInv /\ Balanced
      BY InitLInv
<1> QED BY <1>1, <1>2, PTL DEF Spec
=============================================================================
