------------------------ MODULE ResourceLedgerProofs ------------------------
(***************************************************************************)
(* Proof that a replica of ResourceDispatch by itself implements           *)
(* SlotLedger, for any resources, tasks and limits and any faults but      *)
(* stale reads; as in the second part of ResourceDispatchProofs, the steps *)
(* use only that nobody else is at its row.                                *)
(***************************************************************************)
EXTENDS ResourceLedger, ResourceDispatchProofs

(* What is proved of the ledger, with the mapping of ResourceLedger. *)
Promises == INSTANCE SlotLedgerProofs WITH
    Limit <- MaxConcurrentBatches,
    used  <- [k \in Resources |-> Count(k)],
    load  <- [k \in Resources |-> Load(k)],
    hold  <- [r \in Replicas |-> Holding(r)]

LEMMA InitLedger == Init => Ledger!Init
BY InitialRowFields, NullsAssumption
DEF Init, Ledger!Init, Count, Load, Holding, InitialRow, NoHold

(* What the ledger sees of the replicas. *)
Seen == <<[k \in Resources |-> Count(k)], [k \in Resources |-> Load(k)],
          [r \in Replicas |-> Holding(r)], confirmed, booked>>

(* A write of the row of k to a, l tokens moves one entry of the counters. *)
LEMMA PutSeen ==
    ASSUME TypeOK, NEW k \in Resources, table[k] # NoRow, NEW row \in Row,
           table' = [table EXCEPT ![k] = row]
    PROVE  /\ [i \in Resources |-> Count(i)]' =
                  [[i \in Resources |-> Count(i)] EXCEPT ![k] = row.active]
           /\ [i \in Resources |-> Load(i)]' =
                  [[i \in Resources |-> Load(i)] EXCEPT ![k] = row.load]
BY NullsAssumption DEF TypeOK, Count, Load

(* A step of r moves its own reservation only. *)
LEMMA HoldingStays ==
    ASSUME TypeOK, NEW r \in Replicas, CallNext(r) \/ Crash(r)
    PROVE  [i \in Replicas |-> Holding(i)]' =
               [[i \in Replicas |-> Holding(i)] EXCEPT ![r] = Holding(r)']
<1>1. \A s \in Replicas : s # r => Holding(s)' = Holding(s)
      BY OthersStay DEF Holding
<1> HIDE DEF Holding
<1> QED BY <1>1

(* The initial row is written only after a read that failed. *)
ResetOnly == \A r \in Replicas : pc[r] = "initPut" => Resets

LEMMA StepResetOnly == TypeOK /\ ResetOnly /\ [Next]_vars => ResetOnly'
<1> SUFFICES ASSUME TypeOK, ResetOnly, [Next]_vars, NEW s \in Replicas, pc'[s] = "initPut"
             PROVE  Resets
    BY DEF ResetOnly, Resets
<1>1. CASE UNCHANGED vars
      BY <1>1 DEF ResetOnly, vars, callVars
<1>2. ASSUME NEW r \in Replicas, CallNext(r) \/ Crash(r)
      PROVE  Resets
      <2>1. CASE s = r
            BY <1>2, <2>1 DEF CallNext, StartInit, AddResource, InitializeState,
               TryProcessTask, CheckResource, ReadState, WriteState, CreateBatch, RollBack,
               Return, Crash, Adding, Finding, Die, Goto, TypeOK, Resets
      <2>2. CASE s # r
            BY <1>2, <2>2, OthersStay DEF ResetOnly
      <2> QED BY <2>1, <2>2
<1> QED BY <1>1, <1>2 DEF Next

LEMMA StepLedger ==
    ASSUME Fresh
    PROVE  KnownInv /\ ResetOnly /\ [TurnsNext]_vars => [Ledger!Next]_(Ledger!vars)
<1> SUFFICES ASSUME KnownInv, ResetOnly, [TurnsNext]_vars
             PROVE  (\E r \in Replicas :
                        \/ \E k \in Resources, n \in Amounts : Ledger!Reserve(r, k, n)
                        \/ Ledger!Confirm(r) \/ Ledger!Release(r) \/ Ledger!Leak(r))
                    \/ (\E k \in Resources : Ledger!Forget(k))
                    \/ UNCHANGED Seen
    BY DEF Ledger!Next, Ledger!vars, Seen
<1>u. CASE UNCHANGED vars
      BY <1>u DEF vars, tableVars, callVars, history, Seen, Count, Load, Holding
<1> SUFFICES ASSUME NEW r \in Replicas, CallNext(r) \/ Crash(r)
             PROVE  (\E i \in Replicas :
                        \/ \E k \in Resources, n \in Amounts : Ledger!Reserve(i, k, n)
                        \/ Ledger!Confirm(i) \/ Ledger!Release(i) \/ Ledger!Leak(i))
                    \/ (\E k \in Resources : Ledger!Forget(k))
                    \/ UNCHANGED Seen
    BY <1>u DEF TurnsNext, Next
<1> USE NullsAssumption, LimitsAssumption
<1>a. /\ TypeOK /\ CallOK /\ RowKnown /\ TakeTurns
      /\ pc[r] \in {"reserving", "writing", "creating", "rollingback"} =>
             key[r] \in Resources /\ task[r] \in Tasks
      /\ pc[r] = "initPut" => key[r] \in Resources /\ Resets
      BY DEF KnownInv, TurnsInv, IInv, CallOK, ResetOnly
<1> DEFINE n == Tokens[task[r]]
           h == [key |-> key[r], amount |-> n]
           hold == [i \in Replicas |-> Holding(i)]
<1>b. hold[r] = Holding(r) /\ hold' = [hold EXCEPT ![r] = Holding(r)']
      BY <1>a, HoldingStays
<1>c. Holding(r)' = Holding(r) => hold' = hold
      BY <1>b
<1> HIDE DEF hold
<1>1. CASE StartInit(r) \/ AddResource(r) \/ (\E t \in Tasks : TryProcessTask(r, t))
           \/ CheckResource(r) \/ ReadState(r) \/ Return(r)
      <2>1. UNCHANGED <<table, confirmed, booked>>
            /\ Holding(r) = NoHold /\ Holding(r)' = NoHold
            BY <1>1, <1>a DEF StartInit, AddResource, TryProcessTask, CheckResource, ReadState,
               Return, Adding, Finding, Die, Goto, tableVars, history, Holding, TypeOK
      <2> QED BY <1>c, <2>1 DEF Seen, Count, Load, hold
<1>2. CASE InitializeState(r)
      <2>1. /\ pc[r] = "initPut" /\ key[r] \in Resources /\ Resets
            /\ UNCHANGED <<confirmed, booked>>
            /\ Holding(r) = NoHold /\ Holding(r)' = NoHold
            BY <1>2, <1>a DEF InitializeState, Adding, Die, Goto, history, Holding, TypeOK
      <2>2. hold' = hold
            BY <1>c, <2>1
      <2>3. CASE Put(key[r], InitialRow)
            <3>1. /\ [k \in Resources |-> Count(k)]' =
                         [[k \in Resources |-> Count(k)] EXCEPT ![key[r]] = 0]
                  /\ [k \in Resources |-> Load(k)]' =
                         [[k \in Resources |-> Load(k)] EXCEPT ![key[r]] = 0]
                  BY <2>1, <2>3, <1>a, InitialRowFields DEF Put, TypeOK, Count, Load, InitialRow
            <3>2. ASSUME NEW s \in Replicas
                  PROVE  hold[s] = NoHold \/ hold[s].key # key[r]
                  <4>1. CASE pc[s] \in {"creating", "rollingback"}
                        <5>1. key[s] # key[r]
                              BY <2>1, <4>1, <1>a DEF TakeTurns, Owning, Dispatching
                        <5>2. Holding(s).key = key[s]
                              BY <4>1 DEF Holding
                        <5> QED BY <5>1, <5>2 DEF hold
                  <4>2. CASE pc[s] \notin {"creating", "rollingback"}
                        BY <4>2 DEF hold, Holding
                  <4> QED BY <4>1, <4>2
            <3>3. Ledger!Forget(key[r])
                  BY <2>1, <2>2, <3>1, <3>2 DEF Ledger!Forget, hold
            <3> QED BY <2>1, <3>3
      <2>4. CASE UNCHANGED tableVars
            BY <2>1, <2>2, <2>4 DEF Seen, Count, Load, tableVars, hold
      <2> QED BY <1>2, <2>3, <2>4 DEF InitializeState, PutFails
<1>3. CASE WriteState(r)
      <2>1. /\ key[r] \in Resources /\ task[r] \in Tasks /\ n \in Amounts
            /\ table[key[r]] \in Row
            /\ snap[r] = Reserved(table[key[r]], task[r])
            BY <1>3, <1>a DEF WriteState, RowKnown, TypeOK, Amounts
      <2>2. /\ snap[r] \in Row /\ snap[r].active = Count(key[r]) + 1
            /\ snap[r].load = Load(key[r]) + n
            /\ Count(key[r]) < MaxConcurrentBatches
            <3>1. snap[r].active <= MaxConcurrentBatches
                  BY <1>3 DEF KnownInv, TurnsInv, SlotKnown, WriteState
            <3>2. table[key[r]] # NoRow /\ table[key[r]].active \in Int
                  BY <2>1 DEF Row
            <3> QED BY <2>1, <3>1, <3>2, RowFields DEF Reserved, Count, Load
      <2>3. Holding(r) = NoHold /\ UNCHANGED <<key, task, confirmed, booked>>
            BY <1>3 DEF WriteState, Holding, history
      <2>4. ASSUME Put(key[r], snap[r])
            PROVE  Ledger!Take(key[r], n)
            <3>1. table[key[r]] # NoRow /\ table' = [table EXCEPT ![key[r]] = snap[r]]
                  BY <2>1, <2>4 DEF Put
            <3>2. /\ [k \in Resources |-> Count(k)]' =
                         [[k \in Resources |-> Count(k)] EXCEPT ![key[r]] = snap[r].active]
                  /\ [k \in Resources |-> Load(k)]' =
                         [[k \in Resources |-> Load(k)] EXCEPT ![key[r]] = snap[r].load]
                  BY <2>1, <2>2, <3>1, <1>a, PutSeen
            <3> QED BY <2>1, <2>2, <3>2 DEF Ledger!Take
      <2>5. CASE Put(key[r], snap[r]) /\ Goto(r, "creating")
            <3>1. Holding(r)' = h
                  BY <2>3, <2>5, <1>a DEF Goto, Holding, TypeOK
            <3>2. hold[r] = NoHold /\ hold' = [hold EXCEPT ![r] = h]
                  BY <1>b, <2>3, <3>1
            <3>3. Ledger!Reserve(r, key[r], n)
                  BY <2>3, <2>4, <2>5, <3>2 DEF Ledger!Reserve, hold
            <3> QED BY <2>1, <3>3
      <2>6. CASE PutFails(key[r], snap[r]) /\ Goto(r, "failed")
            <3>1. Holding(r)' = NoHold
                  BY <2>6, <1>a DEF Goto, Holding, TypeOK
            <3>2. hold[r] = NoHold /\ hold' = hold
                  BY <1>b, <1>c, <2>3, <3>1
            <3>3. CASE Put(key[r], snap[r])
                  <4>1. Ledger!Leak(r)
                        BY <2>1, <2>3, <2>4, <2>6, <3>2, <3>3
                        DEF Ledger!Leak, Leaks, PutFails, hold
                  <4> QED BY <4>1
            <3>4. CASE UNCHANGED tableVars
                  BY <2>3, <3>2, <3>4 DEF Seen, Count, Load, tableVars, hold
            <3> QED BY <2>6, <3>3, <3>4 DEF PutFails
      <2> QED BY <1>3, <2>5, <2>6 DEF WriteState
<1>4. CASE CreateBatch(r)
      <2>1. /\ key[r] \in Resources /\ n \in Amounts
            /\ UNCHANGED <<table, key, task>> /\ Holding(r) = h
            BY <1>4, <1>a DEF CreateBatch, tableVars, Holding, Amounts
      <2>2. h # NoHold
            BY <2>1, NoHoldAssumption
      <2>3. CASE /\ confirmed' = [confirmed EXCEPT ![key[r]] = @ + 1]
                 /\ booked' = [booked EXCEPT ![key[r]] = @ + n]
                 /\ Goto(r, "succeeded")
            <3>1. Holding(r)' = NoHold
                  BY <2>3, <1>a DEF Goto, Holding, TypeOK
            <3>2. /\ hold[r] = h /\ hold' = [hold EXCEPT ![r] = NoHold]
                  /\ h.key = key[r] /\ h.amount = n
                  BY <1>b, <2>1, <3>1
            <3>3. UNCHANGED <<[k \in Resources |-> Count(k)], [k \in Resources |-> Load(k)]>>
                  BY <2>1 DEF Count, Load
            <3>4. Ledger!Confirm(r)
                  <4> HIDE DEF h, n
                  <4> QED BY <2>2, <2>3, <3>2, <3>3 DEF Ledger!Confirm, hold
            <3> QED BY <3>4
      <2>4. CASE Goto(r, "rollingback") /\ UNCHANGED <<confirmed, booked>>
            <3>1. Holding(r)' = h
                  BY <2>1, <2>4, <1>a DEF Goto, Holding, TypeOK
            <3> QED BY <1>c, <2>1, <2>4, <3>1 DEF Seen, Count, Load, hold
      <2> QED BY <1>4, <2>3, <2>4 DEF CreateBatch
<1>5. CASE RollBack(r)
      <2> DEFINE row == Released(snap[r], task[r])
      <2>1. /\ key[r] \in Resources /\ task[r] \in Tasks /\ n \in Amounts
            /\ table[key[r]] \in Row /\ table[key[r]] = snap[r]
            BY <1>5, <1>a DEF RollBack, RowKnown, TypeOK, Amounts, CallOK
      <2>2. /\ row \in Row /\ row.active = Count(key[r]) - 1
            /\ row.load = Load(key[r]) - n
            BY <2>1, RowFields DEF Released, Count, Load
      <2>3. /\ Holding(r) = h /\ h # NoHold
            /\ UNCHANGED <<key, task, confirmed, booked>>
            BY <1>5, <2>1, NoHoldAssumption DEF RollBack, Holding, history
      <2>4. Holding(r)' = NoHold
            BY <1>5, <1>a DEF RollBack, Goto, Holding, TypeOK
      <2>5. /\ hold[r] = h /\ hold' = [hold EXCEPT ![r] = NoHold]
            /\ h.key = key[r] /\ h.amount = n
            BY <1>b, <2>3, <2>4
      <2>6. CASE Put(key[r], row)
            <3>1. /\ [k \in Resources |-> Count(k)]' =
                         [[k \in Resources |-> Count(k)] EXCEPT ![key[r]] = @ - 1]
                  /\ [k \in Resources |-> Load(k)]' =
                         [[k \in Resources |-> Load(k)] EXCEPT ![key[r]] = @ - n]
                  <4> HIDE DEF row
                  <4>1. table[key[r]] # NoRow /\ table' = [table EXCEPT ![key[r]] = row]
                        BY <2>1, <2>6 DEF Put
                  <4>2. /\ [k \in Resources |-> Count(k)]' =
                               [[k \in Resources |-> Count(k)] EXCEPT ![key[r]] = row.active]
                        /\ [k \in Resources |-> Load(k)]' =
                               [[k \in Resources |-> Load(k)] EXCEPT ![key[r]] = row.load]
                        BY <2>1, <2>2, <4>1, <1>a, PutSeen
                  <4> QED BY <2>1, <2>2, <4>2
            <3>2. Ledger!Release(r)
                  <4> HIDE DEF h, n
                  <4> QED BY <2>3, <2>5, <3>1 DEF Ledger!Release, hold
            <3> QED BY <3>2
      <2>7. CASE "put" \in Faults /\ UNCHANGED tableVars
            <3>1. Ledger!Leak(r)
                  <4> HIDE DEF h, n
                  <4> QED BY <2>3, <2>5, <2>7 DEF Ledger!Leak, Leaks, Count, Load, tableVars, hold
            <3> QED BY <3>1
      <2> QED BY <1>5, <2>6, <2>7 DEF RollBack, PutFails
<1>6. CASE Crash(r)
      <2>1. /\ "crash" \in Faults /\ UNCHANGED <<table, confirmed, booked>>
            /\ Holding(r)' = NoHold
            BY <1>6, <1>a DEF Crash, Die, Goto, tableVars, history, Holding, TypeOK
      <2>2. CASE Holding(r) = NoHold
            BY <1>c, <2>1, <2>2 DEF Seen, Count, Load, hold
      <2>3. CASE Holding(r) # NoHold
            <3>1. Ledger!Leak(r)
                  BY <1>b, <2>1, <2>3 DEF Ledger!Leak, Leaks, Count, Load, hold
            <3> QED BY <3>1
      <2> QED BY <2>2, <2>3
<1> QED
    BY <1>1, <1>2, <1>3, <1>4, <1>5, <1>6 DEF CallNext

LEMMA Implements ==
    ASSUME Fresh
    PROVE  TurnsSpec => ImplementsLedger
<1>1. KnownInv /\ ResetOnly /\ [TurnsNext]_vars => [Ledger!Next]_(Ledger!vars)
      BY StepLedger
<1>2. KnownInv /\ ResetOnly /\ [TurnsNext]_vars => ResetOnly'
      BY StepResetOnly DEF KnownInv, TurnsInv, IInv, TurnsNext
<1>3. Init => ResetOnly
      BY DEF Init, ResetOnly
<1> QED BY <1>1, <1>2, <1>3, KnownInvariance, InitLedger, PTL
        DEF TurnsSpec, TurnsNext, ImplementsLedger, Ledger!Spec

-----------------------------------------------------------------------------
(* The mapped ledger is the one SlotLedgerProofs is about. *)
LEMMA SameLedger == ImplementsLedger => Promises!Spec
<1>1. Ledger!Init => Promises!Init
      BY DEF Ledger!Init, Promises!Init
<1>2. [Ledger!Next]_(Ledger!vars) => [Promises!Next]_(Promises!vars)
      BY DEF Ledger!Next, Ledger!vars, Ledger!Reserve, Ledger!Confirm, Ledger!Release,
         Ledger!Leak, Ledger!Take, Ledger!Forget, Promises!Next, Promises!vars, Promises!Reserve,
         Promises!Confirm, Promises!Release, Promises!Leak, Promises!Take,
         Promises!Forget
<1> QED BY <1>1, <1>2, PTL DEF ImplementsLedger, Ledger!Spec, Promises!Spec

LEMMA LedgerSane ==
    ASSUME IsFiniteSet(Replicas)
    PROVE  Promises!Sane
<1>1. Amounts \subseteq Int
      BY LimitsAssumption DEF Amounts
<1>2. NoHold \notin Promises!Hold
      BY NoHoldAssumption DEF Promises!Hold
<1>3. Promises!IsFiniteSet(Replicas)
      BY DEF IsFiniteSet, Promises!IsFiniteSet
<1> QED BY <1>1, <1>2, <1>3, LimitsAssumption DEF Promises!Sane

(* A single replica implements the ledger of slots. *)
THEOREM AloneImplements ==
    ASSUME Solo, Fresh
    PROVE  Spec => ImplementsLedger
BY SoloTakesTurns, Implements, PTL

(* The promise of the ledger, inherited by the rows of a single replica: the
   call about to make a batch fits the slots in use, and these the limit; unless
   start-ups may reset rows, so do the batches confirmed before. *)
THEOREM SlotsBounded ==
    ASSUME Solo, Fresh
    PROVE  Spec => []Promises!Bounded
<1>1. IsFiniteSet(Replicas)
      BY FS_Singleton DEF Solo
<1>2. Promises!Spec => []Promises!Bounded
      BY <1>1, LedgerSane, Promises!LedgerBounded
<1> QED BY <1>2, AloneImplements, SameLedger, PTL
=============================================================================
