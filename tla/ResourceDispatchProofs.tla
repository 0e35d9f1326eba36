----------------------- MODULE ResourceDispatchProofs -----------------------
(***************************************************************************)
(* Proofs about ResourceDispatch, for any replicas, resources, tasks,      *)
(* limits and bound on the calls.                                          *)
(*                                                                         *)
(* The first part holds under every fault and however the replicas         *)
(* interleave.  The second is about a single replica whose reads return    *)
(* its latest write; its lemmas use no more of a single replica than that  *)
(* nobody else is at the row it is working on (TakeTurns).                 *)
(***************************************************************************)
EXTENDS ResourceDispatch, FiniteSetTheorems, TLAPS

(* What a call has in hand at each of its steps. *)
CallOK ==
    \A r \in Replicas :
        /\ pc[r] = "initPut" => key[r] \in Resources
        /\ pc[r] = "finding" => task[r] \in Tasks
        /\ pc[r] \in {"reserving", "writing", "creating", "rollingback"} =>
               key[r] \in Resources /\ task[r] \in Tasks
        /\ pc[r] \in {"writing", "creating", "rollingback"} =>
               snap[r] \in Row /\ snap[r].active >= 1

(* The rows a read may return, the stale ones included, count from zero up. *)
RowsNonNegative ==
    \A k \in Resources : /\ table[k] # NoRow => table[k].active >= 0
                         /\ old[k] # NoRow => old[k].active >= 0

IInv == TypeOK /\ CallOK /\ RowsNonNegative

LEMMA RowFields ==
    ASSUME NEW row \in Row, NEW t \in Tasks
    PROVE  /\ Reserved(row, t) \in Row
           /\ Reserved(row, t).active = row.active + 1
           /\ Reserved(row, t).version = row.version + 1
           /\ Released(row, t) \in Row
           /\ Released(row, t).active = row.active - 1
           /\ Released(row, t).version = row.version + 1
BY LimitsAssumption DEF Row, Reserved, Released

LEMMA InitialRowFields == InitialRow \in Row /\ InitialRow.active = 0
BY DEF InitialRow, Row

(* A put of a row with a count from zero up keeps the table in order. *)
LEMMA PutRow ==
    ASSUME TypeOK, RowsNonNegative, NEW k \in Resources, NEW row \in Row, row.active >= 0,
           Put(k, row) \/ UNCHANGED tableVars
    PROVE  /\ table' \in [Resources -> Row \cup {NoRow}]
           /\ old' \in [Resources -> Row \cup {NoRow}]
           /\ RowsNonNegative'
BY NullsAssumption DEF TypeOK, RowsNonNegative, Put, tableVars

LEMMA InitIInv == Init => IInv
BY InitialRowFields, NullsAssumption, LimitsAssumption
DEF Init, IInv, TypeOK, CallOK, RowsNonNegative, Steps

LEMMA StepIInv == IInv /\ [Next]_vars => IInv'
<1> SUFFICES ASSUME IInv, [Next]_vars
             PROVE  IInv'
    OBVIOUS
<1> USE NullsAssumption
<1> USE DEF IInv, TypeOK, CallOK, Steps
<1>1. ASSUME NEW r \in Replicas, StartInit(r) \/ AddResource(r)
      PROVE  IInv'
      <2>1. UNCHANGED <<tableVars, calls, history>>
            BY <1>1 DEF StartInit, AddResource
      <2>2. RowsNonNegative'
            BY <2>1 DEF RowsNonNegative, tableVars
      <2>3. CASE StartInit(r)
            BY <2>1, <2>2, <2>3 DEF StartInit, Adding, Goto, tableVars, history
      <2>4. CASE AddResource(r)
            BY <2>1, <2>2, <2>4 DEF AddResource, Adding, Die, Goto, tableVars, history
      <2> QED BY <1>1, <2>3, <2>4
<1>2. ASSUME NEW r \in Replicas, InitializeState(r)
      PROVE  IInv'
      <2>1. key[r] \in Resources /\ (Put(key[r], InitialRow) \/ UNCHANGED tableVars)
            BY <1>2 DEF InitializeState, PutFails
      <2>2. /\ table' \in [Resources -> Row \cup {NoRow}]
            /\ old' \in [Resources -> Row \cup {NoRow}]
            /\ RowsNonNegative'
            BY <2>1, PutRow, InitialRowFields
      <2> QED BY <1>2, <2>2 DEF InitializeState, Adding, Die, Goto, history
<1>3. ASSUME NEW r \in Replicas, NEW t \in Tasks, TryProcessTask(r, t)
      PROVE  IInv'
      BY <1>3, LimitsAssumption
      DEF TryProcessTask, Finding, Enabled, Goto, tableVars, history, RowsNonNegative
<1>4. ASSUME NEW r \in Replicas, CheckResource(r)
      PROVE  IInv'
      BY <1>4 DEF CheckResource, Finding, Goto, tableVars, history, RowsNonNegative
<1>5. ASSUME NEW r \in Replicas, ReadState(r)
      PROVE  IInv'
      <2>1. key[r] \in Resources /\ task[r] \in Tasks
            BY <1>5 DEF ReadState
      <2>2. UNCHANGED <<tableVars, calls, history>>
            BY <1>5 DEF ReadState
      <2>3. RowsNonNegative'
            BY <2>2 DEF RowsNonNegative, tableVars
      <2>4. ASSUME NEW row \in Readable(key[r]) \ {NoRow},
                   snap' = [snap EXCEPT ![r] = Reserved(row, task[r])],
                   Goto(r, "writing"), UNCHANGED <<todo, key, task>>
            PROVE  IInv'
            <3>1. row \in Row /\ row.active >= 0
                  BY <2>1 DEF Readable, RowsNonNegative
            <3>2. Reserved(row, task[r]) \in Row /\ Reserved(row, task[r]).active >= 1
                  BY <2>1, <3>1, RowFields DEF Row
            <3> QED BY <2>1, <2>2, <2>3, <2>4, <3>2 DEF Goto, tableVars, history
      <2>5. CASE Die(r)
            BY <2>2, <2>3, <2>5 DEF Die, Goto, tableVars, history
      <2>6. CASE Goto(r, "failed") /\ UNCHANGED <<todo, key, task, snap>>
            BY <2>2, <2>3, <2>6 DEF Goto, tableVars, history
      <2> QED BY <1>5, <2>4, <2>5, <2>6 DEF ReadState
<1>6. ASSUME NEW r \in Replicas, WriteState(r)
      PROVE  IInv'
      <2>1. /\ key[r] \in Resources /\ snap[r] \in Row /\ snap[r].active >= 0
            /\ Put(key[r], snap[r]) \/ UNCHANGED tableVars
            BY <1>6 DEF WriteState, PutFails, Row
      <2>2. /\ table' \in [Resources -> Row \cup {NoRow}]
            /\ old' \in [Resources -> Row \cup {NoRow}]
            /\ RowsNonNegative'
            BY <2>1, PutRow
      <2> QED BY <1>6, <2>2 DEF WriteState, Goto, history
<1>7. ASSUME NEW r \in Replicas, CreateBatch(r)
      PROVE  IInv'
      <2>1. key[r] \in Resources /\ task[r] \in Tasks /\ Tokens[task[r]] \in Int
            BY <1>7, LimitsAssumption DEF CreateBatch
      <2>2. RowsNonNegative'
            BY <1>7 DEF CreateBatch, RowsNonNegative, tableVars
      <2>3. created' \in [Tasks -> Nat]
            BY <1>7, <2>1 DEF CreateBatch
      <2>4. confirmed' \in [Resources -> Nat] /\ booked' \in [Resources -> Int]
            BY <1>7, <2>1 DEF CreateBatch
      <2> QED BY <1>7, <2>1, <2>2, <2>3, <2>4 DEF CreateBatch, Goto, tableVars
<1>8. ASSUME NEW r \in Replicas, RollBack(r)
      PROVE  IInv'
      <2> DEFINE row == Released(snap[r], task[r])
      <2>1. key[r] \in Resources /\ row \in Row /\ row.active >= 0
            BY <1>8, RowFields DEF RollBack, Row
      <2>2. Put(key[r], row) \/ UNCHANGED tableVars
            BY <1>8 DEF RollBack, PutFails
      <2>3. /\ table' \in [Resources -> Row \cup {NoRow}]
            /\ old' \in [Resources -> Row \cup {NoRow}]
            /\ RowsNonNegative'
            BY <2>1, <2>2, PutRow
      <2> QED BY <1>8, <2>3 DEF RollBack, Goto, history
<1>9. ASSUME NEW r \in Replicas, Return(r) \/ Crash(r)
      PROVE  IInv'
      BY <1>9 DEF Return, Crash, Die, Goto, tableVars, history, RowsNonNegative
<1>10. CASE UNCHANGED vars
       BY <1>10 DEF vars, tableVars, callVars, history, RowsNonNegative
<1> QED
    BY <1>1, <1>2, <1>3, <1>4, <1>5, <1>6, <1>7, <1>8, <1>9, <1>10 DEF Next, CallNext

THEOREM Invariance == Spec => []IInv
BY InitIInv, StepIInv, PTL DEF Spec

(* Type correctness of the resource service. *)
THEOREM TypeCorrect == Spec => []TypeOK
<1>1. IInv => TypeOK
      BY DEF IInv
<1> QED BY <1>1, Invariance, PTL

(* No interleaving, stale read, reset or failure makes ActiveBatches negative:
   a call that rolls back wrote a count of at least one itself. *)
THEOREM NeverNegative == Spec => []CountersNonNegative
<1>1. IInv => CountersNonNegative
      BY DEF IInv, RowsNonNegative, CountersNonNegative, Count
<1> QED BY <1>1, Invariance, PTL

-----------------------------------------------------------------------------
(* A step of one replica is invisible in the calls of the others ... *)
LEMMA OthersStay ==
    ASSUME TypeOK, NEW r \in Replicas, CallNext(r) \/ Crash(r), NEW s \in Replicas, s # r
    PROVE  pc'[s] = pc[s] /\ key'[s] = key[s] /\ task'[s] = task[s] /\ snap'[s] = snap[s]
<1> USE DEF TypeOK, Goto, Die
<1>1. CASE StartInit(r) \/ AddResource(r) \/ InitializeState(r)
      BY <1>1 DEF StartInit, AddResource, InitializeState
<1>2. CASE (\E t \in Tasks : TryProcessTask(r, t)) \/ CheckResource(r) \/ ReadState(r)
      BY <1>2 DEF TryProcessTask, CheckResource, ReadState
<1>3. CASE WriteState(r) \/ CreateBatch(r) \/ RollBack(r) \/ Return(r) \/ Crash(r)
      BY <1>3 DEF WriteState, CreateBatch, RollBack, Return, Crash
<1> QED BY <1>1, <1>2, <1>3 DEF CallNext

(* ... and writes at most the row of its own key, and there only what the call
   has in hand. *)
LEMMA RowsStay ==
    ASSUME TypeOK, NEW r \in Replicas, CallNext(r) \/ Crash(r), NEW k \in Resources
    PROVE  /\ old'[k] \in {old[k], table[k]}
           /\ \/ table'[k] = table[k]
              \/ /\ key[r] = k
                 /\ \/ pc[r] = "initPut" /\ table'[k] = InitialRow
                    \/ pc[r] = "writing" /\ table'[k] = snap[r]
                    \/ pc[r] = "rollingback" /\ table'[k] = Released(snap[r], task[r])
<1> DEFINE Wrote(row) == /\ old'[k] \in {old[k], table[k]}
                         /\ table'[k] = table[k] \/ (key[r] = k /\ table'[k] = row)
<1>0. ASSUME NEW row, Put(key[r], row) \/ PutFails(key[r], row)
      PROVE  Wrote(row)
      BY <1>0 DEF TypeOK, Put, PutFails, tableVars
<1>1. CASE InitializeState(r)
      BY <1>0, <1>1 DEF InitializeState
<1>2. CASE WriteState(r)
      BY <1>0, <1>2 DEF WriteState
<1>3. CASE RollBack(r)
      BY <1>0, <1>3 DEF RollBack
<1>4. CASE UNCHANGED tableVars
      BY <1>4 DEF tableVars
<1> QED BY <1>1, <1>2, <1>3, <1>4 DEF CallNext, StartInit, AddResource, TryProcessTask,
        CheckResource, ReadState, CreateBatch, Return, Crash

-----------------------------------------------------------------------------
(* The batch size limit, tested once when a resource is found, holds for the task
   of the call from then on. *)
FitInv ==
    /\ IInv
    /\ \A r \in Replicas : pc[r] \in Dispatching => Fits(task[r])
    /\ \A t \in Tasks : created[t] > 0 => Fits(t)

LEMMA InitFitInv == Init => FitInv
BY InitIInv DEF Init, FitInv, Dispatching

LEMMA StepFitInv == FitInv /\ [Next]_vars => FitInv'
<1> SUFFICES ASSUME FitInv, [Next]_vars
             PROVE  /\ \A r \in Replicas : pc'[r] \in Dispatching => Fits(task'[r])
                    /\ \A t \in Tasks : created'[t] > 0 => Fits(t)
    BY StepIInv DEF FitInv, Fits, Dispatching
<1> USE NullsAssumption
<1> USE DEF FitInv, IInv, TypeOK, Dispatching
<1>1. ASSUME NEW r \in Replicas,
             StartInit(r) \/ AddResource(r) \/ InitializeState(r) \/ Return(r) \/ Crash(r)
             \/ (\E t \in Tasks : TryProcessTask(r, t))
      PROVE  pc'[r] \notin Dispatching /\ UNCHANGED created
      BY <1>1 DEF StartInit, AddResource, InitializeState, Return, Crash, TryProcessTask,
         Adding, Finding, Die, Goto, history
<1>2. ASSUME NEW r \in Replicas, CheckResource(r)
      PROVE  (pc'[r] \in Dispatching => Fits(task'[r])) /\ UNCHANGED created
      BY <1>2 DEF CheckResource, Finding, Suits, Goto, history
<1>3. ASSUME NEW r \in Replicas, ReadState(r)
      PROVE  /\ pc[r] \in Dispatching
             /\ pc'[r] \in Dispatching => task'[r] = task[r]
             /\ UNCHANGED created
      BY <1>3 DEF ReadState, Die, Goto, history
<1>4. ASSUME NEW r \in Replicas, WriteState(r) \/ RollBack(r)
      PROVE  pc[r] \in Dispatching /\ UNCHANGED <<task, created>>
      BY <1>4 DEF WriteState, RollBack, history
<1>5. ASSUME NEW r \in Replicas, CreateBatch(r)
      PROVE  /\ pc[r] \in Dispatching /\ UNCHANGED task
             /\ \A t \in Tasks : created'[t] > 0 => created[t] > 0 \/ t = task[r]
      BY <1>5 DEF CreateBatch
<1>6. ASSUME NEW r \in Replicas, CallNext(r) \/ Crash(r)
      PROVE  \A q \in Replicas \ {r} : pc'[q] = pc[q] /\ task'[q] = task[q]
      BY <1>6, OthersStay
<1>7. CASE UNCHANGED vars
      BY <1>7 DEF vars, callVars, history
<1> QED BY <1>1, <1>2, <1>3, <1>4, <1>5, <1>6, <1>7 DEF Next, CallNext

-----------------------------------------------------------------------------
(* A row that claims no more tokens than its batches could hold, in the table or
   as a read may return it, and what a call will write, and write back. *)
Plausible(row) == row # NoRow => row.load <= row.active * MaxTokensPerBatch

LoadInv ==
    /\ FitInv
    /\ \A k \in Resources : Plausible(table[k]) /\ Plausible(old[k])
    /\ \A r \in Replicas : pc[r] \in {"writing", "creating", "rollingback"} =>
          Plausible(Released(snap[r], task[r]))

(* A row that is plausible without one fitting task is plausible with it. *)
LEMMA OneMoreFits ==
    ASSUME NEW row \in Row, NEW t \in Tasks, Fits(t), Plausible(Released(row, t))
    PROVE  Plausible(row)
<1>1. row.active \in Int /\ row.load \in Int /\ Tokens[t] \in Int /\ MaxTokensPerBatch \in Int
      BY LimitsAssumption DEF Row
<1>2. row.load - Tokens[t] <= (row.active - 1) * MaxTokensPerBatch
      BY RowFields, NullsAssumption DEF Plausible, Released
<1>3. (row.active - 1) * MaxTokensPerBatch = row.active * MaxTokensPerBatch - MaxTokensPerBatch
      BY <1>1
<1>4. row.active * MaxTokensPerBatch \in Int
      BY <1>1
<1> HIDE DEF Plausible
<1>5. row.load <= row.active * MaxTokensPerBatch
      BY <1>1, <1>2, <1>3, <1>4 DEF Fits
<1> QED BY <1>5 DEF Plausible

(* What a call adds to the row it read, it takes back. *)
LEMMA ReleasedReserved ==
    ASSUME NEW row \in Row, NEW t \in Tasks, Plausible(row)
    PROVE  Plausible(Released(Reserved(row, t), t))
<1>1. row.active \in Int /\ row.load \in Int /\ Tokens[t] \in Int
      BY LimitsAssumption DEF Row
<1>2. /\ Released(Reserved(row, t), t).active = row.active
      /\ Released(Reserved(row, t), t).load = row.load
      BY <1>1 DEF Released, Reserved
<1>3. row # NoRow
      BY NullsAssumption
<1> QED BY <1>2, <1>3 DEF Plausible

LEMMA InitLoadInv == Init => LoadInv
<1>1. Plausible(NoRow) /\ Plausible(InitialRow)
      BY LimitsAssumption DEF Plausible, InitialRow
<1> QED BY <1>1, InitFitInv DEF Init, LoadInv

LEMMA StepLoadInv == LoadInv /\ [Next]_vars => LoadInv'
<1> SUFFICES ASSUME LoadInv, [Next]_vars
             PROVE  /\ \A k \in Resources : Plausible(table'[k]) /\ Plausible(old'[k])
                    /\ \A r \in Replicas : pc'[r] \in {"writing", "creating", "rollingback"} =>
                          Plausible(Released(snap'[r], task'[r]))
    BY StepFitInv DEF LoadInv, Plausible, Released
<1> DEFINE Kept(r) == pc'[r] \in {"writing", "creating", "rollingback"} =>
                         Plausible(Released(snap'[r], task'[r]))
<1>a. TypeOK /\ CallOK
      BY DEF LoadInv, FitInv, IInv
<1>1. CASE UNCHANGED vars
      BY <1>1 DEF LoadInv, vars, tableVars, callVars
<1>2. ASSUME NEW r \in Replicas, CallNext(r) \/ Crash(r), NEW k \in Resources
      PROVE  Plausible(table'[k]) /\ Plausible(old'[k])
      <2>1. Plausible(table[k]) /\ Plausible(old[k]) /\ Plausible(InitialRow)
            BY LimitsAssumption DEF LoadInv, Plausible, InitialRow
      <2>2. pc[r] = "writing" => Plausible(snap[r])
            BY <1>a, OneMoreFits DEF CallOK, LoadInv, FitInv, Dispatching
      <2>3. pc[r] = "rollingback" => Plausible(Released(snap[r], task[r]))
            BY DEF LoadInv
      <2> QED BY <1>2, <1>a, <2>1, <2>2, <2>3, RowsStay
<1>3. ASSUME NEW r \in Replicas, ReadState(r), pc'[r] = "writing"
      PROVE  Kept(r)
      <2>1. PICK row \in Readable(key[r]) \ {NoRow} :
               snap' = [snap EXCEPT ![r] = Reserved(row, task[r])] /\ UNCHANGED task
            BY <1>3, <1>a DEF ReadState, Die, Goto, TypeOK
      <2>2. row \in Row /\ Plausible(row) /\ task[r] \in Tasks
            BY <1>3, <1>a, <2>1 DEF ReadState, Readable, CallOK, TypeOK, LoadInv
      <2>3. snap'[r] = Reserved(row, task[r]) /\ task'[r] = task[r]
            BY <1>a, <2>1 DEF TypeOK
      <2> QED BY <2>2, <2>3, ReleasedReserved
<1>4. ASSUME NEW r \in Replicas, CallNext(r) \/ Crash(r)
      PROVE  Kept(r)
      <2>1. CASE pc[r] \in {"writing", "creating", "rollingback"}
            <3>1. pc'[r] \in {"down", "idle", "failed", "succeeded"} \/ UNCHANGED <<snap, task>>
                  BY <1>4, <1>a, <2>1 DEF CallNext, StartInit, AddResource, InitializeState,
                     TryProcessTask, CheckResource, ReadState, WriteState, CreateBatch, RollBack,
                     Return, Crash, Die, Goto, TypeOK
            <3> QED BY <2>1, <3>1 DEF LoadInv
      <2>2. CASE pc[r] \notin {"writing", "creating", "rollingback"}
            <3>1. \/ pc'[r] \notin {"writing", "creating", "rollingback"}
                  \/ ReadState(r) /\ pc'[r] = "writing"
                  BY <1>4, <1>a, <2>2 DEF CallNext, StartInit, AddResource, InitializeState,
                     TryProcessTask, CheckResource, ReadState, WriteState, CreateBatch, RollBack,
                     Return, Crash, Adding, Finding, Die, Goto, TypeOK
            <3> QED BY <1>3, <3>1
      <2> QED BY <2>1, <2>2
<1>5. ASSUME NEW r \in Replicas, CallNext(r) \/ Crash(r), NEW s \in Replicas
      PROVE  Kept(s)
      <2>1. CASE s # r
            BY <1>5, <1>a, <2>1, OthersStay DEF LoadInv
      <2> QED BY <1>4, <1>5, <2>1
<1> QED BY <1>1, <1>2, <1>5 DEF Next

(* However the reads and writes of the replicas overlap, the two counters of a
   row stay together: a write replaces both by what one call saw of both. *)
THEOREM LoadBounded == Spec => []LoadWithinSlots
<1>1. LoadInv => LoadWithinSlots
      <2> SUFFICES ASSUME LoadInv, NEW k \in Resources
                   PROVE  Load(k) <= Count(k) * MaxTokensPerBatch
          BY DEF LoadWithinSlots
      <2>1. CASE table[k] = NoRow
            BY <2>1, LimitsAssumption DEF Load, Count
      <2>2. CASE table[k] # NoRow
            BY <2>2 DEF LoadInv, Plausible, Load, Count
      <2> QED BY <2>1, <2>2
<1> QED BY <1>1, InitLoadInv, StepLoadInv, PTL DEF Spec

-----------------------------------------------------------------------------
(* Each batch, made or about to be made, has a call of its own. *)
Counted == \A t \in Tasks : created[t] + Cardinality(Pending(t)) <= calls[t]

(* A step of r changes the number of pending calls by its own. *)
LEMMA PendingCount ==
    ASSUME IsFiniteSet(Replicas), NEW t, NEW r \in Replicas,
           \A s \in Replicas \ {r} : s \in Pending(t)' <=> s \in Pending(t)
    PROVE  /\ Cardinality(Pending(t)) \in Nat /\ Cardinality(Pending(t))' \in Nat
           /\ r \in Pending(t) /\ r \notin Pending(t)' =>
                  Cardinality(Pending(t))' = Cardinality(Pending(t)) - 1
           /\ r \notin Pending(t) /\ r \in Pending(t)' =>
                  Cardinality(Pending(t))' = Cardinality(Pending(t)) + 1
           /\ (r \in Pending(t) <=> r \in Pending(t)') =>
                  Cardinality(Pending(t))' = Cardinality(Pending(t))
<1>1. Pending(t) \subseteq Replicas /\ Pending(t)' \subseteq Replicas
      BY DEF Pending
<1>2. IsFiniteSet(Pending(t)) /\ IsFiniteSet(Pending(t)')
      BY <1>1, FS_Subset
<1>3. Cardinality(Pending(t)) \in Nat /\ Cardinality(Pending(t)') \in Nat
      BY <1>2, FS_CardinalityType
<1>4. CASE r \in Pending(t) /\ r \notin Pending(t)'
      <2>1. Pending(t)' = Pending(t) \ {r}
            BY <1>1, <1>4
      <2> QED BY <1>2, <1>3, <1>4, <2>1, FS_RemoveElement
<1>5. CASE r \notin Pending(t) /\ r \in Pending(t)'
      <2>1. Pending(t)' = Pending(t) \cup {r}
            BY <1>1, <1>5
      <2> QED BY <1>2, <1>3, <1>5, <2>1, FS_AddElement
<1>6. CASE r \in Pending(t) <=> r \in Pending(t)'
      <2>1. Pending(t)' = Pending(t)
            BY <1>1, <1>6
      <2> QED BY <1>3, <1>6, <2>1
<1> QED BY <1>3, <1>4, <1>5, <1>6

LEMMA InitCounted == Init => Counted
<1> SUFFICES ASSUME Init, NEW t \in Tasks
             PROVE  created[t] + Cardinality(Pending(t)) <= calls[t]
    BY DEF Counted
<1>1. Pending(t) = {}
      BY DEF Init, Pending
<1> QED BY <1>1, FS_EmptySet DEF Init

LEMMA StepCounted ==
    ASSUME IsFiniteSet(Replicas)
    PROVE  IInv /\ Counted /\ [Next]_vars => Counted'
<1> SUFFICES ASSUME IInv, Counted, [Next]_vars, NEW t \in Tasks
             PROVE  created'[t] + Cardinality(Pending(t))' <= calls'[t]
    BY DEF Counted
<1> USE NullsAssumption
<1> USE DEF IInv, TypeOK, Pending
<1> DEFINE n == Cardinality(Pending(t))
           Goal == created'[t] + n' <= calls'[t]
<1>0. /\ created[t] \in Nat /\ calls[t] \in Nat
      /\ created[t] + n <= calls[t]
      BY LimitsAssumption DEF Counted
<1>1. CASE UNCHANGED vars
      <2>1. Pending(t)' = Pending(t)
            BY <1>1 DEF vars, callVars
      <2> QED BY <1>0, <1>1, <2>1 DEF vars, history
<1>2. ASSUME NEW r \in Replicas, CallNext(r) \/ Crash(r)
      PROVE  Goal
      <2>1. \A s \in Replicas \ {r} : s \in Pending(t)' <=> s \in Pending(t)
            BY <1>2, OthersStay
      <2>2. /\ n \in Nat /\ n' \in Nat
            /\ r \in Pending(t) /\ r \notin Pending(t)' => n' = n - 1
            /\ r \notin Pending(t) /\ r \in Pending(t)' => n' = n + 1
            /\ (r \in Pending(t) <=> r \in Pending(t)') => n' = n
            BY <2>1, PendingCount
      <2> HIDE DEF n
      <2>3. CASE UNCHANGED <<created, calls>> /\ (r \in Pending(t)' => r \in Pending(t))
            BY <1>0, <2>2, <2>3
      <2>4. CASE StartInit(r) \/ AddResource(r) \/ InitializeState(r)
            <3>1. pc'[r] \in {"down", "idle", "adding", "initPut"} /\ UNCHANGED <<created, calls>>
                  BY <2>4 DEF StartInit, AddResource, InitializeState, Adding, Die, Goto, history
            <3> QED BY <2>3, <3>1
      <2>5. ASSUME NEW i \in Tasks, TryProcessTask(r, i)
            PROVE  Goal
            <3>1. /\ r \notin Pending(t) /\ created'[t] = created[t]
                  /\ task'[r] = i
                  /\ calls'[t] = calls[t] + (IF i = t THEN 1 ELSE 0)
                  BY <1>0, <2>5 DEF TryProcessTask, Goto, history
            <3>2. r \in Pending(t)' => i = t
                  BY <3>1
            <3> QED BY <1>0, <2>2, <3>1, <3>2
      <2>6. CASE CheckResource(r) \/ ReadState(r) \/ WriteState(r)
            <3>1. pc[r] \in {"finding", "reserving", "writing"} /\ UNCHANGED <<created, calls>>
                  BY <2>6 DEF CheckResource, ReadState, WriteState, history
            <3>2. pc'[r] = "down" \/ UNCHANGED task
                  BY <2>6 DEF CheckResource, ReadState, WriteState, Die, Goto
            <3> QED BY <2>3, <3>1, <3>2
      <2>7. CASE CreateBatch(r)
            <3>1. /\ pc[r] = "creating" /\ pc'[r] \notin {"finding", "reserving", "writing", "creating"}
                  /\ created'[t] \in {created[t], created[t] + 1}
                  /\ created'[t] # created[t] => task[r] = t
                  /\ UNCHANGED calls
                  BY <2>7 DEF CreateBatch, Goto
            <3>2. r \notin Pending(t)' /\ (created'[t] # created[t] => r \in Pending(t))
                  BY <3>1
            <3> QED BY <1>0, <2>2, <3>1, <3>2
      <2>8. CASE RollBack(r) \/ Return(r) \/ Crash(r)
            <3>1. pc'[r] \in {"down", "idle", "failed"} /\ UNCHANGED <<created, calls>>
                  BY <2>8 DEF RollBack, Return, Crash, Die, Goto, history
            <3> QED BY <2>3, <3>1
      <2> QED BY <1>2, <2>4, <2>5, <2>6, <2>7, <2>8 DEF CallNext
<1> QED BY <1>1, <1>2 DEF Next

(* No batch without a call of its own, and none that does not fit, whatever the
   other replicas and the faults do between the test and the submission. *)
THEOREM BatchesCounted ==
    ASSUME IsFiniteSet(Replicas)
    PROVE  Spec => []OneBatchPerCall
<1>1. FitInv /\ Counted => OneBatchPerCall
      BY DEF FitInv, Counted, OneBatchPerCall
<1>2. FitInv /\ Counted /\ [Next]_vars => (FitInv /\ Counted)'
      BY StepFitInv, StepCounted DEF FitInv
<1> QED BY <1>1, <1>2, InitFitInv, InitCounted, PTL DEF Spec

-----------------------------------------------------------------------------
(* Reads return the row as it last was. *)
Fresh == "stale" \notin Faults

TurnsNext == Next /\ TakeTurns'

(* What a call knows of its row and of what it will write there: the row has a
   slot until the call counts itself in, and never more than the limit then. *)
SlotKnown ==
    \A r \in Replicas :
        /\ pc[r] = "reserving" => table[key[r]] # NoRow /\ HasSlot(table[key[r]])
        /\ pc[r] \in {"writing", "creating", "rollingback"} =>
               snap[r].active <= MaxConcurrentBatches

TurnsInv == IInv /\ TakeTurns /\ LimitRespected /\ SlotKnown

(* A call's row is touched by no other. *)
LEMMA RowUndisturbed ==
    ASSUME TypeOK, CallOK, TakeTurns, NEW r \in Replicas, CallNext(r) \/ Crash(r),
           NEW s \in Replicas, s # r, pc[s] \in Dispatching
    PROVE  table'[key[s]] = table[key[s]]
<1>1. key[s] \in Resources
      BY DEF CallOK, Dispatching
<1>2. pc[r] \in Owning => key[r] # key[s]
      BY DEF TakeTurns, Owning
<1> QED BY <1>1, <1>2, RowsStay DEF Owning, Dispatching

LEMMA InitTurnsInv == Init => TurnsInv
BY InitIInv, LimitsAssumption, NullsAssumption, InitialRowFields
DEF Init, TurnsInv, TakeTurns, Owning, Dispatching, LimitRespected, SlotKnown, Count

LEMMA StepTurnsInv ==
    ASSUME Fresh
    PROVE  TurnsInv /\ [TurnsNext]_vars => TurnsInv'
<1> SUFFICES ASSUME TurnsInv, [TurnsNext]_vars
             PROVE  TakeTurns' /\ LimitRespected' /\ SlotKnown'
    BY StepIInv DEF TurnsInv, TurnsNext
<1>1. CASE UNCHANGED vars
      BY <1>1 DEF TurnsInv, TakeTurns, LimitRespected, SlotKnown, HasSlot, Count,
         vars, tableVars, callVars
<1>2. CASE TurnsNext
      <2> USE NullsAssumption, LimitsAssumption
      <2>a. TypeOK /\ CallOK /\ TakeTurns /\ SlotKnown /\ TakeTurns'
            BY <1>2 DEF TurnsInv, IInv, TurnsNext
      <2>1. PICK r \in Replicas : CallNext(r) \/ Crash(r)
            BY <1>2 DEF TurnsNext, Next
      <2>2. LimitRespected'
            <3> SUFFICES ASSUME NEW k \in Resources
                         PROVE  Count(k)' <= MaxConcurrentBatches
                BY DEF LimitRespected
            <3>1. Count(k) <= MaxConcurrentBatches
                  BY DEF TurnsInv, LimitRespected
            <3>2. CASE table'[k] = table[k]
                  BY <3>1, <3>2 DEF Count
            <3>3. CASE table'[k] = InitialRow
                  BY <3>3, InitialRowFields DEF Count
            <3>4. CASE pc[r] = "writing" /\ table'[k] = snap[r]
                  BY <2>a, <3>4 DEF Count, SlotKnown
            <3>5. CASE pc[r] = "rollingback" /\ table'[k] = Released(snap[r], task[r])
                  <4>1. /\ snap[r] \in Row /\ task[r] \in Tasks
                        /\ snap[r].active <= MaxConcurrentBatches
                        BY <2>a, <3>5 DEF CallOK, SlotKnown
                  <4>2. Released(snap[r], task[r]).active <= MaxConcurrentBatches
                        BY <4>1, RowFields DEF Row
                  <4> QED BY <3>5, <4>2 DEF Count
            <3> QED BY <2>1, <2>a, <3>2, <3>3, <3>4, <3>5, RowsStay
      <2>3. ASSUME NEW s \in Replicas, s # r, pc'[s] \in Dispatching
            PROVE  /\ pc'[s] = "reserving" =>
                          table'[key'[s]] # NoRow /\ HasSlot(table'[key'[s]])
                   /\ pc'[s] # "reserving" => snap'[s].active <= MaxConcurrentBatches
            <3>1. /\ pc'[s] = pc[s] /\ key'[s] = key[s] /\ snap'[s] = snap[s]
                  /\ table'[key[s]] = table[key[s]]
                  BY <2>1, <2>a, <2>3, OthersStay, RowUndisturbed
            <3> QED BY <2>a, <2>3, <3>1 DEF SlotKnown, HasSlot, Dispatching
      <2>4. pc'[r] = "reserving" => table'[key'[r]] # NoRow /\ HasSlot(table'[key'[r]])
            <3> SUFFICES ASSUME pc'[r] = "reserving"
                         PROVE  table'[key'[r]] # NoRow /\ HasSlot(table'[key'[r]])
                OBVIOUS
            <3>1. CheckResource(r)
                  BY <2>1, <2>a DEF CallNext, StartInit, AddResource, InitializeState,
                     TryProcessTask, ReadState, WriteState, CreateBatch, RollBack, Return, Crash,
                     Adding, Finding, Die, Goto, TypeOK
            <3> QED BY <2>a, <3>1 DEF CheckResource, Finding, Goto, Readable, Fresh, Suits,
                    tableVars, TypeOK
      <2>5. pc'[r] = "writing" => snap'[r].active <= MaxConcurrentBatches
            <3> SUFFICES ASSUME pc'[r] = "writing"
                         PROVE  snap'[r].active <= MaxConcurrentBatches
                OBVIOUS
            <3>1. ReadState(r)
                  BY <2>1, <2>a DEF CallNext, StartInit, AddResource, InitializeState,
                     TryProcessTask, CheckResource, WriteState, CreateBatch, RollBack, Return,
                     Crash, Adding, Finding, Die, Goto, TypeOK
            <3>2. snap'[r] = Reserved(table[key[r]], task[r])
                  BY <2>a, <3>1 DEF ReadState, Readable, Fresh, Die, Goto, TypeOK
            <3>3. /\ table[key[r]] \in Row /\ task[r] \in Tasks
                  /\ table[key[r]].active < MaxConcurrentBatches
                  BY <2>a, <3>1 DEF ReadState, CallOK, SlotKnown, HasSlot, TypeOK
            <3> QED BY <3>2, <3>3, RowFields DEF Row
      <2>6. pc'[r] \in {"creating", "rollingback"} => snap'[r].active <= MaxConcurrentBatches
            <3> SUFFICES ASSUME pc'[r] \in {"creating", "rollingback"}
                         PROVE  snap'[r].active <= MaxConcurrentBatches
                OBVIOUS
            <3>1. pc[r] \in {"writing", "creating"} /\ UNCHANGED snap
                  BY <2>1, <2>a DEF CallNext, StartInit, AddResource, InitializeState,
                     TryProcessTask, CheckResource, ReadState, WriteState, CreateBatch, RollBack,
                     Return, Crash, Adding, Finding, Die, Goto, TypeOK
            <3> QED BY <2>a, <3>1 DEF SlotKnown
      <2> QED BY <2>a, <2>2, <2>3, <2>4, <2>5, <2>6 DEF SlotKnown, Dispatching, HasSlot
<1> QED BY <1>1, <1>2

LEMMA TurnsInvariance ==
    ASSUME Fresh
    PROVE  TurnsSpec => []TurnsInv
<1>1. TurnsInv /\ [TurnsNext]_vars => TurnsInv'
      BY StepTurnsInv
<1> QED BY <1>1, InitTurnsInv, PTL DEF TurnsSpec, TurnsNext

-----------------------------------------------------------------------------
(* The row a call read or wrote is still the row of the table. *)
RowKnown ==
    \A r \in Replicas :
        /\ pc[r] = "writing" => /\ table[key[r]] # NoRow
                               /\ snap[r] = Reserved(table[key[r]], task[r])
        /\ pc[r] \in {"creating", "rollingback"} => table[key[r]] = snap[r]

KnownInv == TurnsInv /\ RowKnown

LEMMA InitKnownInv == Init => KnownInv
BY InitTurnsInv DEF Init, KnownInv, RowKnown

LEMMA StepKnownInv ==
    ASSUME Fresh
    PROVE  KnownInv /\ [TurnsNext]_vars => KnownInv'
<1> SUFFICES ASSUME KnownInv, [TurnsNext]_vars
             PROVE  RowKnown'
    BY StepTurnsInv DEF KnownInv
<1>1. CASE UNCHANGED vars
      BY <1>1 DEF KnownInv, RowKnown, Reserved, vars, tableVars, callVars
<1>2. CASE TurnsNext
      <2> USE NullsAssumption, LimitsAssumption
      <2>a. TypeOK /\ CallOK /\ TakeTurns /\ RowKnown
            BY <1>2 DEF KnownInv, TurnsInv, IInv, TurnsNext
      <2>1. PICK r \in Replicas : CallNext(r) \/ Crash(r)
            BY <1>2 DEF TurnsNext, Next
      <2> DEFINE Known(s) == /\ pc[s] = "writing" =>
                                   /\ table[key[s]] # NoRow
                                   /\ snap[s] = Reserved(table[key[s]], task[s])
                             /\ pc[s] \in {"creating", "rollingback"} => table[key[s]] = snap[s]
      <2>2. ASSUME NEW s \in Replicas, s # r
            PROVE  Known(s)'
            <3>1. /\ pc'[s] = pc[s] /\ key'[s] = key[s] /\ task'[s] = task[s] /\ snap'[s] = snap[s]
                  /\ pc[s] \in Dispatching => table'[key[s]] = table[key[s]]
                  BY <2>1, <2>a, <2>2, OthersStay, RowUndisturbed
            <3> QED BY <2>a, <3>1 DEF RowKnown, Dispatching, Reserved
      <2>3. ASSUME ReadState(r)
            PROVE  Known(r)'
            BY <2>3, <2>a DEF ReadState, Readable, Fresh, Die, Goto, tableVars, TypeOK, Reserved
      <2>4. ASSUME WriteState(r)
            PROVE  Known(r)'
            BY <2>4, <2>a DEF WriteState, Put, Goto, TypeOK, CallOK
      <2>5. ASSUME CreateBatch(r)
            PROVE  Known(r)'
            BY <2>5, <2>a DEF CreateBatch, Goto, tableVars, TypeOK, RowKnown
      <2>6. ASSUME ~(ReadState(r) \/ WriteState(r) \/ CreateBatch(r))
            PROVE  Known(r)'
            <3>1. pc'[r] \notin {"writing", "creating", "rollingback"}
                  BY <2>1, <2>6, <2>a DEF CallNext, StartInit, AddResource, InitializeState,
                     TryProcessTask, CheckResource, RollBack, Return, Crash, Adding, Finding,
                     Die, Goto, TypeOK
            <3> QED BY <3>1
      <2>7. Known(r)'
            BY <2>3, <2>4, <2>5, <2>6
      <2> QED BY <2>2, <2>7 DEF RowKnown
<1> QED BY <1>1, <1>2

LEMMA KnownInvariance ==
    ASSUME Fresh
    PROVE  TurnsSpec => []KnownInv
<1>1. KnownInv /\ [TurnsNext]_vars => KnownInv'
      BY StepKnownInv
<1> QED BY <1>1, InitKnownInv, PTL DEF TurnsSpec, TurnsNext

-----------------------------------------------------------------------------
(* A single replica takes turns with nobody. *)
Solo == \E r : Replicas = {r}

LEMMA SoloTakesTurns ==
    ASSUME Solo
    PROVE  Spec => TurnsSpec
<1>1. TakeTurns'
      BY DEF Solo, TakeTurns
<1>2. [Next]_vars => [Next /\ TakeTurns']_vars
      BY <1>1
<1> QED BY <1>2, PTL DEF Spec, TurnsSpec

(* A single replica never counts beyond the limit, even when start-ups reset rows:
   SlotKnown carries the test of FindBestAvailableResource over the second read
   to the write. *)
THEOREM AloneInBounds ==
    ASSUME Solo, Fresh
    PROVE  Spec => []LimitRespected
<1>1. TurnsInv => LimitRespected
      BY DEF TurnsInv
<1> QED BY <1>1, SoloTakesTurns, TurnsInvariance, PTL

(* A single replica always knows the row it is working on. *)
LEMMA AloneKnows ==
    ASSUME Solo, Fresh
    PROVE  Spec => []KnownInv
BY SoloTakesTurns, KnownInvariance, PTL
=============================================================================
