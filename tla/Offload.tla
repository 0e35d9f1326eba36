------------------------------- MODULE Offload -------------------------------
(***************************************************************************)
(* The whole of a serve process at work: the task pipeline of TaskService  *)
(* whose processFn is AppContext.Tick's, which calls TryProcessTask of the *)
(* resource service of ResourceDispatch, inside the event loop.            *)
(*                                                                         *)
(* The replica r of both modules is one process: it starts, serves and     *)
(* dies once.  Every action joins an action of one module with an action   *)
(* of the other, or with a step that leaves the other's variables alone.   *)
(***************************************************************************)
EXTENDS TaskService, Integers

CONSTANTS
    Resources, Disabled, MaxConcurrentBatches, MaxTokensPerBatch, MaxCalls, Tokens,
    CallFaults,         \* the faults of ResourceDispatch
    NoRow, NoKey, NoTask,
    Wirings             \* whether AppContext.Init makes a resource service

VARIABLES table, old, pc, todo, key, task, snap, calls, created, confirmed, booked

(* The variables of the service that outlive a process, and all of them. *)
storedVars == <<table, old, calls, created, confirmed, booked>>
serviceVars == <<storedVars, pc, todo, key, task, snap>>
offloadVars == <<vars, serviceVars>>

ASSUME WiringsAssumption == Wirings \subseteq BOOLEAN

R == INSTANCE ResourceDispatch WITH Faults <- CallFaults

OffloadInit == Init /\ R!Init

-----------------------------------------------------------------------------
(* AppContext.Init *)

(* With the service wired, its rows are read before the loop starts. *)
InitResources(r) ==
    /\ TRUE \in Wirings
    /\ loop[r] = "down"
    /\ R!StartInit(r) \/ R!AddResource(r) \/ R!InitializeState(r)
    /\ UNCHANGED vars

(* The loop starts when Init is done, or has no resource service to make. *)
Serve(r) ==
    /\ \/ pc[r] = "idle"
       \/ pc[r] = "down" /\ FALSE \in Wirings
    /\ Start(r)
    /\ UNCHANGED serviceVars

-----------------------------------------------------------------------------
(* Tick *)

Receive(r) == PickTaskFromQueue(r) /\ UNCHANGED serviceVars

(* The nil task of the body null ends the process, resource service and all. *)
TakeRecord(r) ==
    /\ StartRecord(r)
    /\ IF loop'[r] = "down"
       THEN R!Die(r) /\ UNCHANGED storedVars
       ELSE UNCHANGED serviceVars

(* Mutant of Call: the task is given to a goroutine and the loop goes on. *)
CallAsync(r) ==
    /\ loop[r] = "processing"
    /\ R!TryProcessTask(r, body[current[r]])
    /\ EndRecord(r)
    /\ UNCHANGED <<status, queueVars, handlers, acked, disposed>>

(* processFn calls TryProcessTask with the task of the record. *)
Call(r) ==
    /\ loop[r] = "processing"
    /\ R!TryProcessTask(r, body[current[r]])
    /\ UNCHANGED vars

(* The process ends by a panic: both of its halves are gone. *)
Panic(r) ==
    /\ Die(r)
    /\ R!Die(r)
    /\ UNCHANGED <<status, queueVars, acked, disposed, storedVars>>

(* Mutant of CallNil: with no service wired a record is done with at once. *)
CallNilSkipped(r) ==
    /\ loop[r] = "processing"
    /\ pc[r] = "down"
    /\ ProcessFnReturns(r, "Success", FALSE)
    /\ UNCHANGED serviceVars

(* With no service wired, the call is one of a method of a nil pointer. *)
CallNil(r) ==
    /\ loop[r] = "processing"
    /\ pc[r] = "down"
    /\ Panic(r)

(* A step of TryProcessTask.  The read of a row that is gone panics. *)
CallStep(r) ==
    \/ /\ R!CheckResource(r) \/ R!WriteState(r) \/ R!CreateBatch(r) \/ R!RollBack(r)
       /\ UNCHANGED vars
    \/ /\ R!ReadState(r)
       /\ IF pc'[r] = "down"
          THEN Die(r) /\ UNCHANGED <<status, queueVars, acked, disposed>>
          ELSE UNCHANGED vars

(* Mutant of TryProcessTaskReturns: the error is dropped, the result kept. *)
TryProcessTaskErrorDropped(r) ==
    /\ R!Return(r)
    /\ ProcessFnReturns(r, IF pc[r] = "succeeded" THEN "Success" ELSE "SystemPermanentlyFailed",
                        FALSE)

(* processFn turns any error of the call, a full resource too, into
   SystemPermanentlyFailed with that error; the loop looks at the error first. *)
TryProcessTaskReturns(r) ==
    /\ R!Return(r)
    /\ \/ pc[r] = "succeeded" /\ ProcessFnReturns(r, "Success", FALSE)
       \/ pc[r] = "failed" /\ ProcessFnReturns(r, "SystemPermanentlyFailed", TRUE)

Delete(r) == DeleteTaskFromQueue(r) /\ UNCHANGED serviceVars

TickNext(r) ==
    \/ Receive(r) \/ TakeRecord(r) \/ Call(r) \/ CallNil(r)
    \/ CallStep(r) \/ TryProcessTaskReturns(r) \/ Delete(r)

-----------------------------------------------------------------------------
(* A crash while the process serves, or while it is still in Init. *)
Kill(r) ==
    \/ "crash" \in Faults /\ loop[r] # "down" /\ Panic(r)
    \/ loop[r] = "down" /\ R!Crash(r) /\ UNCHANGED vars

Elsewhere ==
    /\ HandlerNext \/ ForeignMessage \/ (\E m \in Msgs : VisibilityTimeout(m))
    /\ UNCHANGED serviceVars

OffloadNext ==
    \/ Elsewhere
    \/ \E r \in Replicas : InitResources(r) \/ Serve(r) \/ TickNext(r) \/ Kill(r)

OffloadSpec == OffloadInit /\ [][OffloadNext]_offloadVars

-----------------------------------------------------------------------------
(* The types of both parts, and that a call of the resource service runs only
   inside processFn, for the task of the record at hand. *)
OffloadTypeOK ==
    /\ TypeOK /\ R!TypeOK
    /\ \A r \in Replicas :
          task[r] # NoTask => loop[r] = "processing" /\ task[r] = body[current[r]]

(* The queue as a client sees it: Delivery with the messages forgotten. *)
Promise == INSTANCE Delivery WITH
    queued   <- {t \in Tasks : \E m \in Msgs : /\ body[m] = t
                                               /\ place[m] \in {"visible", "inflight"}},
    accepted <- acked,
    batches  <- created

(* Whatever fails, and with the resource service wired or not, a task leaves the
   queue only when a provider holds a batch for it. *)
DeliversAtLeastOnce == Promise!Spec

(* The loop deletes a message, or means to, only when a provider holds a batch
   for its task: no error, no full resource, no panic and no shortage of rows in
   TryProcessTask ever looks like a success to PickUpNextAvailableTask. *)
DisposedIsSubmitted ==
    \A m \in disposed : body[m] \in Tasks => created[body[m]] > 0

(* No batch is made for a task of which the store has no row: what a provider
   works on, a reader of the statuses can find, however often the row's put
   failed, the message was delivered and the process died in between. *)
SubmittedHasStatus == \A t \in Tasks : created[t] > 0 => status[t] # "none"

(* "Idempotency in task processing is crucial", says service.go where the delete
   after a hand-off fails.  A redelivered task is not submitted again. *)
AtMostOneBatch == \A t \in Tasks : created[t] <= 1
=============================================================================
