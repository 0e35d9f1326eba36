-------------------------- MODULE ResourceDispatch --------------------------
(***************************************************************************)
(* The resource service of pkg/api/business/resources: AddResource at      *)
(* start-up, then TryProcessTask, one call at a time per replica (the      *)
(* event loop is sequential).  The ResourceInstanceState rows live in a    *)
(* DynamoDB table that all replicas share and that is read and written     *)
(* with no condition; between any two calls other replicas may act.        *)
(***************************************************************************)
EXTENDS Integers, FiniteSets

CONSTANTS
    Replicas,
    Resources,             \* the keys of the resources section of config.json
    Disabled,              \* those with "disabled": true
    Tasks,
    Tokens,                \* Tokens[t]: EstimatedInputTokens + MaxTokens of t
    MaxConcurrentBatches,  \* limits of every row, as AddResource writes them
    MaxTokensPerBatch,
    MaxCalls,              \* BOUND: calls of TryProcessTask for a task
    Faults,                \* the kinds of fault the environment may inject
    NoRow, NoKey, NoTask

(* Fault kinds: "get" and "addGet" make GetItem fail (the latter while
   resources are added); "put" and "create" make the call fail with its effect
   applied or not; "stale" lets GetItem, which does not ask for a consistent
   read, return the row as it was before the last write; "config" starts a
   process with a resource whose provider is not registered; "crash" ends a
   process. *)
FaultKinds == {"get", "addGet", "put", "create", "stale", "config", "crash"}

Row == [active : Int, load : Int, version : Int]

ASSUME FaultsAssumption == Faults \subseteq FaultKinds

ASSUME LimitsAssumption ==
    /\ MaxConcurrentBatches \in Nat \ {0}
    /\ MaxTokensPerBatch \in Nat
    /\ MaxCalls \in Nat
    /\ Tokens \in [Tasks -> Int]

ASSUME KeysAssumption == Disabled \subseteq Resources

ASSUME NullsAssumption == NoRow \notin Row /\ NoKey \notin Resources /\ NoTask \notin Tasks

VARIABLES
    table,      \* table[k]: the ResourceInstanceState row of k
    old,        \* old[k]: the row of k before the last write to it
    pc,         \* pc[r]: where replica r is in its current call
    todo,       \* todo[r]: resources its current range loop has not visited
    key,        \* key[r]: the resource chosen or being added
    task,       \* task[r]: the argument of TryProcessTask
    snap,       \* snap[r]: currentState, as DispatchTask last wrote it
    calls,      \* calls[t]: calls of TryProcessTask for t so far
    created,    \* history: created[t], batches the provider holds for t
    confirmed,  \* history: confirmed[k], batches k's provider confirmed
    booked      \* history: booked[k], tokens of those batches

tableVars == <<table, old>>
callVars == <<pc, todo, key, task, snap>>
history == <<created, confirmed, booked>>
vars == <<tableVars, callVars, calls, history>>

Steps == {"down", "adding", "initPut", "idle", "finding", "reserving", "writing",
          "creating", "rollingback", "succeeded", "failed"}

TypeOK ==
    /\ table \in [Resources -> Row \cup {NoRow}]
    /\ old \in [Resources -> Row \cup {NoRow}]
    /\ pc \in [Replicas -> Steps]
    /\ todo \in [Replicas -> SUBSET Resources]
    /\ key \in [Replicas -> Resources \cup {NoKey}]
    /\ task \in [Replicas -> Tasks \cup {NoTask}]
    /\ snap \in [Replicas -> Row \cup {NoRow}]
    /\ calls \in [Tasks -> 0..MaxCalls]
    /\ created \in [Tasks -> Nat]
    /\ confirmed \in [Resources -> Nat]
    /\ booked \in [Resources -> Int]

(* What AddResource writes for a resource it takes to be new. *)
InitialRow == [active |-> 0, load |-> 0, version |-> 1]

(* The table may be fresh or hold rows from an earlier deployment. *)
Init ==
    /\ table \in [Resources -> {NoRow, InitialRow}]
    /\ old = table
    /\ pc = [r \in Replicas |-> "down"]
    /\ todo = [r \in Replicas |-> {}]
    /\ key = [r \in Replicas |-> NoKey]
    /\ task = [r \in Replicas |-> NoTask]
    /\ snap = [r \in Replicas |-> NoRow]
    /\ calls = [t \in Tasks |-> 0]
    /\ created = [t \in Tasks |-> 0]
    /\ confirmed = [k \in Resources |-> 0]
    /\ booked = [k \in Resources |-> 0]

-----------------------------------------------------------------------------
(* The store *)

(* GetResourceInstanceState: the rows it may return.  NoRow stands for the
   (nil, nil) that a missing item gives. *)
Readable(k) == {table[k]} \cup (IF "stale" \in Faults THEN {old[k]} ELSE {})

(* PutResourceInstanceState: an upsert of the whole item, with no condition on
   the version it replaces. *)
Put(k, row) ==
    /\ table' = [table EXCEPT ![k] = row]
    /\ old' = [old EXCEPT ![k] = table[k]]

(* A put that reports an error may have been applied. *)
PutFails(k, row) == "put" \in Faults /\ (Put(k, row) \/ UNCHANGED tableVars)

Goto(r, step) == pc' = [pc EXCEPT ![r] = step]

(* The process is gone, with everything the call held. *)
Die(r) ==
    /\ Goto(r, "down")
    /\ todo' = [todo EXCEPT ![r] = {}]
    /\ key' = [key EXCEPT ![r] = NoKey]
    /\ task' = [task EXCEPT ![r] = NoTask]
    /\ snap' = [snap EXCEPT ![r] = NoRow]

-----------------------------------------------------------------------------
(* Init and AddResource *)

Adding(S) == IF S = {} THEN "idle" ELSE "adding"

StartInit(r) ==
    /\ pc[r] = "down"
    /\ todo' = [todo EXCEPT ![r] = Resources]
    /\ Goto(r, Adding(Resources))
    /\ UNCHANGED <<tableVars, key, task, snap, calls, history>>

(* AddResource up to its GetResourceInstanceState.  A disabled resource is
   skipped; an unregistered provider fails Init and ends the process.  Whatever
   the call returns without an error, a missing row too, is taken for a row that
   is there; an error is taken for a missing row. *)
AddResource(r) ==
    /\ pc[r] = "adding"
    /\ \E k \in todo[r] :
          \/ /\ todo' = [todo EXCEPT ![r] = @ \ {k}]
             /\ Goto(r, Adding(todo[r] \ {k}))
             /\ UNCHANGED <<key, task, snap>>
          \/ /\ k \notin Disabled /\ "config" \in Faults
             /\ Die(r)
          \/ /\ k \notin Disabled /\ "addGet" \in Faults
             /\ todo' = [todo EXCEPT ![r] = @ \ {k}]
             /\ key' = [key EXCEPT ![r] = k]
             /\ Goto(r, "initPut")
             /\ UNCHANGED <<task, snap>>
    /\ UNCHANGED <<tableVars, calls, history>>

(* The put of the initial state; its error fails Init and ends the process. *)
InitializeState(r) ==
    /\ pc[r] = "initPut"
    /\ \/ /\ Put(key[r], InitialRow)
          /\ key' = [key EXCEPT ![r] = NoKey]
          /\ Goto(r, Adding(todo[r]))
          /\ UNCHANGED <<todo, task, snap>>
       \/ /\ PutFails(key[r], InitialRow)
          /\ Die(r)
    /\ UNCHANGED <<calls, history>>

-----------------------------------------------------------------------------
(* FindBestAvailableResource *)

Enabled == Resources \ Disabled

Finding(S) == IF S = {} THEN "failed" ELSE "finding"

TryProcessTask(r, t) ==
    /\ pc[r] = "idle"
    /\ calls[t] < MaxCalls
    /\ calls' = [calls EXCEPT ![t] = @ + 1]
    /\ task' = [task EXCEPT ![r] = t]
    /\ todo' = [todo EXCEPT ![r] = Enabled]
    /\ Goto(r, Finding(Enabled))
    /\ UNCHANGED <<tableVars, key, snap, history>>

(* The tests a resource has to pass: its row exists, the task fits its batch
   size and it has a concurrency slot left. *)
Fits(t) == Tokens[t] <= MaxTokensPerBatch

(* Mutant of HasSlot: off by one. *)
HasSlotOrIsFull(row) == row.active <= MaxConcurrentBatches

HasSlot(row) == row.active < MaxConcurrentBatches

Suits(row, t) == row # NoRow /\ Fits(t) /\ HasSlot(row)

(* One round of the range over s.resources, a map: any order.  The first
   resource that suits is taken. *)
CheckResource(r) ==
    /\ pc[r] = "finding"
    /\ \E k \in todo[r] :
          \/ /\ \E row \in Readable(k) : Suits(row, task[r])
             /\ key' = [key EXCEPT ![r] = k]
             /\ todo' = [todo EXCEPT ![r] = {}]
             /\ Goto(r, "reserving")
          \/ /\ "get" \in Faults \/ \E row \in Readable(k) : ~Suits(row, task[r])
             /\ todo' = [todo EXCEPT ![r] = @ \ {k}]
             /\ Goto(r, Finding(todo[r] \ {k}))
             /\ UNCHANGED key
    /\ UNCHANGED <<tableVars, task, snap, calls, history>>

-----------------------------------------------------------------------------
(* DispatchTask *)

Reserved(row, t) == [active  |-> row.active + 1,
                     load    |-> row.load + Tokens[t],
                     version |-> row.version + 1]

(* Mutant of Released: the token load is not taken back. *)
ReleasedSlotOnly(row, t) == [row EXCEPT !.active = @ - 1, !.version = @ + 1]

Released(row, t) == [active  |-> row.active - 1,
                     load    |-> row.load - Tokens[t],
                     version |-> row.version + 1]

(* The row is read once more and changed in memory; the limits are not tested
   again.  A row that is gone is a nil pointer, whose use panics. *)
ReadState(r) ==
    /\ pc[r] = "reserving"
    /\ \/ \E row \in Readable(key[r]) \ {NoRow} :
             /\ snap' = [snap EXCEPT ![r] = Reserved(row, task[r])]
             /\ Goto(r, "writing")
             /\ UNCHANGED <<todo, key, task>>
       \/ /\ NoRow \in Readable(key[r])
          /\ Die(r)
       \/ /\ "get" \in Faults
          /\ Goto(r, "failed")
          /\ UNCHANGED <<todo, key, task, snap>>
    /\ UNCHANGED <<tableVars, calls, history>>

(* Mutant of WriteState: the error of the put is only logged. *)
WriteStateUnchecked(r) ==
    /\ pc[r] = "writing"
    /\ Put(key[r], snap[r]) \/ PutFails(key[r], snap[r])
    /\ Goto(r, "creating")
    /\ UNCHANGED <<todo, key, task, snap, calls, history>>

WriteState(r) ==
    /\ pc[r] = "writing"
    /\ \/ Put(key[r], snap[r]) /\ Goto(r, "creating")
       \/ PutFails(key[r], snap[r]) /\ Goto(r, "failed")
    /\ UNCHANGED <<todo, key, task, snap, calls, history>>

(* Mutant of CreateBatch: a call that reports an error is made again. *)
CreateBatchRetried(r) ==
    LET t == task[r]
        oneMore == [created EXCEPT ![t] = @ + 1]
    IN  /\ pc[r] = "creating"
        /\ \/ created' = oneMore /\ Goto(r, "succeeded")
           \/ "create" \in Faults /\ created' = oneMore /\ UNCHANGED pc
        /\ UNCHANGED <<tableVars, todo, key, task, snap, calls, confirmed, booked>>

(* The provider makes one more batch for t, or it refuses, or its answer is
   lost or unreadable and the caller sees an error for a batch that exists. *)
CreateBatch(r) ==
    LET k == key[r]
        t == task[r]
        oneMore == [created EXCEPT ![t] = @ + 1]
    IN  /\ pc[r] = "creating"
        /\ \/ /\ created' = oneMore
              /\ confirmed' = [confirmed EXCEPT ![k] = @ + 1]
              /\ booked' = [booked EXCEPT ![k] = @ + Tokens[t]]
              /\ Goto(r, "succeeded")
           \/ /\ created' \in {created} \cup (IF "create" \in Faults THEN {oneMore} ELSE {})
              /\ Goto(r, "rollingback")
              /\ UNCHANGED <<confirmed, booked>>
        /\ UNCHANGED <<tableVars, todo, key, task, snap, calls>>

(* Mutant of RollBack: an error of CreateBatch returns at once. *)
RollBackSkipped(r) ==
    /\ pc[r] = "rollingback"
    /\ Goto(r, "failed")
    /\ UNCHANGED <<tableVars, todo, key, task, snap, calls, history>>

(* Mutant of RollBack: the row is read afresh instead of written back. *)
RollBackRereads(r) ==
    /\ pc[r] = "rollingback"
    /\ Put(key[r], Released(table[key[r]], task[r]))
    /\ Goto(r, "failed")
    /\ UNCHANGED <<todo, key, task, snap, calls, history>>

(* The rollback writes back what this call wrote, less its own share; an error
   of that put is only logged. *)
RollBack(r) ==
    LET row == Released(snap[r], task[r])
    IN  /\ pc[r] = "rollingback"
        /\ Put(key[r], row) \/ PutFails(key[r], row)
        /\ Goto(r, "failed")
        /\ UNCHANGED <<todo, key, task, snap, calls, history>>

(* Mutant of Return: the task of the finished call is kept as its resource. *)
ReturnSwapped(r) ==
    /\ pc[r] \in {"succeeded", "failed"}
    /\ Goto(r, "idle")
    /\ key' = [key EXCEPT ![r] = NoTask]
    /\ task' = [task EXCEPT ![r] = NoTask]
    /\ snap' = [snap EXCEPT ![r] = NoRow]
    /\ UNCHANGED <<tableVars, todo, calls, history>>

(* TryProcessTask returns to the event loop. *)
Return(r) ==
    /\ pc[r] \in {"succeeded", "failed"}
    /\ Goto(r, "idle")
    /\ key' = [key EXCEPT ![r] = NoKey]
    /\ task' = [task EXCEPT ![r] = NoTask]
    /\ snap' = [snap EXCEPT ![r] = NoRow]
    /\ UNCHANGED <<tableVars, todo, calls, history>>

Crash(r) ==
    /\ "crash" \in Faults
    /\ pc[r] # "down"
    /\ Die(r)
    /\ UNCHANGED <<tableVars, calls, history>>

-----------------------------------------------------------------------------
CallNext(r) ==
    \/ StartInit(r) \/ AddResource(r) \/ InitializeState(r)
    \/ \E t \in Tasks : TryProcessTask(r, t)
    \/ CheckResource(r) \/ ReadState(r) \/ WriteState(r)
    \/ CreateBatch(r) \/ RollBack(r) \/ Return(r)

Next == \E r \in Replicas : CallNext(r) \/ Crash(r)

Spec == Init /\ [][Next]_vars

-----------------------------------------------------------------------------
(* From the test that chose its resource to the end of DispatchTask, a call
   takes the row of that resource to be its own, and so does AddResource from
   its read to its put.  Nothing in the code makes sure of it: a single replica
   meets it by itself, several replicas do not. *)
Dispatching == {"reserving", "writing", "creating", "rollingback"}

Owning == Dispatching \cup {"initPut"}

TakeTurns ==
    \A r, s \in Replicas :
        r # s /\ pc[r] \in Owning /\ pc[s] \in Owning => key[r] # key[s]

TurnsSpec == Init /\ [][Next /\ TakeTurns']_vars

-----------------------------------------------------------------------------
(* The slots of k that calls under way hold, and the row's own counters. *)
Reservations(k) == {r \in Replicas : pc[r] \in {"creating", "rollingback"} /\ key[r] = k}

Count(k) == IF table[k] = NoRow THEN 0 ELSE table[k].active

Load(k) == IF table[k] = NoRow THEN 0 ELSE table[k].load

(* ActiveBatches never falls below zero, however the reads and writes of
   several replicas overlap and whatever a restarting replica resets: the
   rollback of DispatchTask takes back no more than its own call added. *)
CountersNonNegative ==
    \A k \in Resources : Count(k) >= 0

(* A batch that a call has made or may be making for a task was counted against
   a call for that task, and the task has a batch's size: refusals, lost
   answers, crashes and retries by another replica never make two batches of
   one call, nor any batch of a task that does not fit. *)
Pending(t) == {r \in Replicas :
                  /\ pc[r] \in {"finding", "reserving", "writing", "creating"}
                  /\ task[r] = t}

OneBatchPerCall ==
    \A t \in Tasks : /\ created[t] > 0 => Fits(t)
                     /\ created[t] + Cardinality(Pending(t)) <= calls[t]

(* A row's two counters belong together, however the reads and writes of several
   replicas overlap: an update may be lost, but the tokens a row shows are never
   more than the batches it shows could hold, for every write puts one call's
   view of both counters in place of both. *)
LoadWithinSlots ==
    \A k \in Resources : Load(k) <= Count(k) * MaxTokensPerBatch

(* With no faults, a row counts no fewer slots than there are batches confirmed
   and calls that create one or take back their slot.  Only batches whose answer
   came are counted here: SlotAccount also counts those whose answer is lost. *)
SlotsCovered ==
    \A k \in Resources : confirmed[k] + Cardinality(Reservations(k)) <= Count(k)

(* No row counts more than MaxConcurrentBatches, although the row is read a
   second time and written later than the limit was tested. *)
LimitRespected ==
    \A k \in Resources : Count(k) <= MaxConcurrentBatches

(* Of replicas that take turns, with no faults but refusals of the provider, the
   row is the exact account of the batches confirmed and being created: the
   rollback undoes the reservation, and only that. *)
ExactAccounting ==
    \A k \in Resources :
        LET held == Reservations(k)
        IN  /\ Count(k) = confirmed[k] + Cardinality(held)
            /\ \A r \in held : Load(k) = booked[k] + Tokens[task[r]]
            /\ held = {} => Load(k) = booked[k]

(* What AddResource's comment says: "Initialize resource state if not present".
   A replica that is up has a row for each of its resources ... *)
RowsInitialized ==
    \A r \in Replicas : pc[r] \notin {"down", "adding", "initPut"} =>
        \A k \in Enabled : table[k] # NoRow

(* ... and a row that is present is not initialised again. *)
InitialisesOnlyMissing ==
    [][\A r \in Replicas :
          pc[r] = "initPut" /\ pc'[r] # "initPut" /\ table[key[r]] # NoRow =>
              table' = table]_vars
=============================================================================
