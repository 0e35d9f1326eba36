--------------------------- MODULE OffloadProofs ---------------------------
(***************************************************************************)
(* Proofs about Offload, for any replicas, tasks, messages, resources and  *)
(* limits, whether or not the resource service is wired.  What is assumed  *)
(* besides the constants of both parts being what their modules say is     *)
(* Crashes: a process may end at any time.                                 *)
(*                                                                         *)
(* The argument has two layers.  Bodies is an invariant of the pipeline    *)
(* alone: a record that reached processFn carries a task.  Coupled ties a  *)
(* call of the resource service to the record it is made for, so that the  *)
(* "succeeded" it returns vouches for that record and for no other.        *)
(***************************************************************************)
EXTENDS Offload, TaskServiceProofs

(* A process may end at any time, in either half of the model. *)
Crashes == "crash" \in Faults /\ "crash" \in CallFaults

Sent(m) == place[m] # "unsent"

(* What was sent has a body, and what the loop took up carries a task. *)
Bodies ==
    /\ \A m \in Msgs : Sent(m) => body[m] # NoBody
    /\ \A m \in disposed : Sent(m)
    /\ \A r \in Replicas :
          /\ \A m \in batch[r] : Sent(m) /\ body[m] # Malformed
          /\ loop[r] \in {"processing", "deleting"} =>
                Sent(current[r]) /\ body[current[r]] \in Tasks

(* No step of the pipeline unsends a message or changes what it carries. *)
LEMMA SentStays ==
    ASSUME IInv, [Next]_vars, NEW m \in Msgs, Sent(m)
    PROVE  Sent(m)' /\ body'[m] = body[m]
<1> USE DEF IInv, TypeOK, Sent
<1> DEFINE Goal == place'[m] # "unsent" /\ body'[m] = body[m]
<1>1. ASSUME NEW b, Store(b)
      PROVE  Goal
      BY <1>1 DEF Store, Unsent
<1>2. ASSUME HandlerNext
      PROVE  Goal
      BY <1>1, <1>2 DEF HandlerNext, ReceiveRequest, PutTaskStatus, EnqueueTask, queueVars
<1>3. ASSUME EnvironmentNext
      PROVE  Goal
      BY <1>1, <1>3 DEF EnvironmentNext, VisibilityTimeout, Start, Crash, ForeignMessage, queueVars
<1>4. ASSUME NEW r \in Replicas, LoopNext(r)
      PROVE  Goal
      BY <1>4 DEF LoopNext, PickTaskFromQueue, StartRecord, ProcessFnReturns,
         DeleteTaskFromQueue, DeleteMessage, queueVars
<1>5. CASE UNCHANGED vars
      BY <1>5 DEF vars, queueVars
<1> QED BY <1>2, <1>3, <1>4, <1>5 DEF Next

(* Only a send makes a message sent, and it gives the message a body. *)
LEMMA SentWithBody ==
    ASSUME IInv, Bodies, [Next]_vars, NEW m \in Msgs, ~Sent(m), Sent(m)'
    PROVE  body'[m] # NoBody
<1> USE NullsAssumption
<1> USE DEF IInv, TypeOK, Sent
<1>1. ASSUME NEW b \in Tasks \cup {Malformed, NullBody}, Store(b)
      PROVE  body'[m] # NoBody
      BY <1>1 DEF Store, Unsent
<1>2. ASSUME HandlerNext
      PROVE  body'[m] # NoBody
      <2>1. ASSUME NEW h \in handlers, EnqueueTask(h)
            PROVE  body'[m] # NoBody
            BY <1>1, <2>1 DEF EnqueueTask, Handler, queueVars
      <2> QED BY <1>2, <2>1 DEF HandlerNext, ReceiveRequest, PutTaskStatus, queueVars
<1>3. ASSUME EnvironmentNext
      PROVE  body'[m] # NoBody
      BY <1>1, <1>3 DEF EnvironmentNext, VisibilityTimeout, Start, Crash, ForeignMessage, queueVars
<1>4. ASSUME NEW r \in Replicas, PickTaskFromQueue(r)
      PROVE  FALSE
      BY <1>4 DEF PickTaskFromQueue, Visible
<1>5. ASSUME NEW r \in Replicas, DeleteTaskFromQueue(r)
      PROVE  FALSE
      BY <1>5 DEF DeleteTaskFromQueue, DeleteMessage, Bodies
<1> QED BY <1>2, <1>3, <1>4, <1>5 DEF Next, LoopNext, StartRecord, ProcessFnReturns, vars, queueVars

LEMMA InitBodies == Init => Bodies
BY DEF Init, Bodies, Sent

LEMMA StepBodies ==
    ASSUME IInv, Bodies, [Next]_vars
    PROVE  Bodies'
<1> USE NullsAssumption
<1> USE DEF IInv, TypeOK, Bodies, RecordHeld
<1> DEFINE Stays == \A m \in Msgs : Sent(m) => Sent(m)' /\ body'[m] = body[m]
           Loops == \A r \in Replicas :
                       /\ \A m \in batch[r] : Sent(m) /\ body[m] # Malformed
                       /\ loop[r] \in {"processing", "deleting"} =>
                             Sent(current[r]) /\ body[current[r]] \in Tasks
<1>1. Stays
      BY SentStays
<1>2. \A m \in Msgs : Sent(m)' => body'[m] # NoBody
      BY <1>1, SentWithBody
<1>3. (\A m \in disposed : Sent(m))'
      <2>1. disposed' \subseteq disposed \cup {m \in Msgs : Sent(m)}
            BY DEF Next, HandlerNext, EnvironmentNext, LoopNext, ReceiveRequest, PutTaskStatus,
               EnqueueTask, VisibilityTimeout, Start, Crash, ForeignMessage, PickTaskFromQueue,
               StartRecord, ProcessFnReturns, DeleteTaskFromQueue, vars
      <2> QED BY <1>1, <2>1
<1>4. ASSUME UNCHANGED loopVars
      PROVE  Loops'
      BY <1>1, <1>4 DEF loopVars
<1>5. ASSUME NEW r \in Replicas, PickTaskFromQueue(r)
      PROVE  Loops'
      <2>1. PICK S \in SUBSET Visible :
               /\ \/ /\ \A m \in S : body[m] # Malformed
                     /\ batch' = [batch EXCEPT ![r] = S]
                  \/ UNCHANGED batch
               /\ loop' \in {[loop EXCEPT ![r] = RangeOver(S)], [loop EXCEPT ![r] = "stopped"]}
               /\ UNCHANGED <<current, body>>
            BY <1>5 DEF PickTaskFromQueue
      <2>2. \A m \in S : m \in Msgs /\ Sent(m)
            BY DEF Visible, Sent
      <2>3. \A i \in Replicas : \A m \in batch'[i] : m \in Msgs /\ Sent(m) /\ body[m] # Malformed
            BY <2>1, <2>2
      <2>4. \A i \in Replicas : loop'[i] \in {"processing", "deleting"} => loop'[i] = loop[i]
            BY <2>1 DEF RangeOver
      <2> QED BY <1>1, <2>1, <2>3, <2>4
<1>6. ASSUME NEW r \in Replicas, StartRecord(r)
      PROVE  Loops'
      <2>1. CASE Die(r)
            BY <1>1, <2>1 DEF Die
      <2>2. CASE \E m \in batch[r] : /\ body[m] # NullBody
                                     /\ current' = [current EXCEPT ![r] = m]
                                     /\ batch' = [batch EXCEPT ![r] = @ \ {m}]
                                     /\ loop' = [loop EXCEPT ![r] = "processing"]
            <3>1. PICK m \in batch[r] : /\ body[m] # NullBody
                                        /\ current' = [current EXCEPT ![r] = m]
                                        /\ batch' = [batch EXCEPT ![r] = @ \ {m}]
                                        /\ loop' = [loop EXCEPT ![r] = "processing"]
                  BY <2>2
            <3>2. m \in Msgs /\ Sent(m) /\ body[m] \in Tasks
                  BY <3>1
            <3> QED BY <1>1, <3>1, <3>2
      <2> QED BY <1>6, <2>1, <2>2 DEF StartRecord
<1>7. ASSUME NEW r \in Replicas, EndRecord(r)
      PROVE  Loops'
      BY <1>1, <1>7 DEF EndRecord, RangeOver
<1>8. ASSUME NEW r \in Replicas, NEW result \in TaskResult, NEW failed \in BOOLEAN,
             ProcessFnReturns(r, result, failed)
      PROVE  Loops'
      <2>1. CASE loop[r] = "processing" /\ loop' = [loop EXCEPT ![r] = "deleting"]
                 /\ UNCHANGED <<batch, current>>
            BY <1>1, <2>1
      <2> QED BY <1>7, <1>8, <2>1 DEF ProcessFnReturns
<1>9. ASSUME NEW r \in Replicas, Start(r) \/ Crash(r)
      PROVE  Loops'
      BY <1>1, <1>9 DEF Start, Crash, Die
<1>10. Loops'
      BY <1>4, <1>5, <1>6, <1>7, <1>8, <1>9
      DEF Next, HandlerNext, EnvironmentNext, LoopNext, ReceiveRequest, PutTaskStatus, EnqueueTask,
          VisibilityTimeout, ForeignMessage, DeleteTaskFromQueue, vars
<1> QED BY <1>2, <1>3, <1>10

-----------------------------------------------------------------------------
(* The steps from the call of TryProcessTask to its return. *)
CallSteps == {"finding", "reserving", "writing", "creating", "rollingback", "succeeded", "failed"}

CallTypes ==
    /\ pc \in [Replicas -> R!Steps]
    /\ task \in [Replicas -> Tasks \cup {NoTask}]
    /\ todo \in [Replicas -> SUBSET Resources]
    /\ key \in [Replicas -> Resources \cup {NoKey}]
    /\ snap = [r \in Replicas |-> snap[r]]
    /\ created \in [Tasks -> Nat]

(* A call belongs to the record its loop is processing. *)
InCall ==
    \A r \in Replicas :
        /\ pc[r] \in CallSteps => task[r] \in Tasks
        /\ task[r] # NoTask => /\ pc[r] \in CallSteps
                               /\ loop[r] = "processing" /\ task[r] = body[current[r]]

(* A call that succeeded made a batch. *)
Made == \A r \in Replicas : pc[r] = "succeeded" => created[task[r]] > 0

(* A process that is gone holds nothing of a call. *)
DownIsClear ==
    \A r \in Replicas :
        pc[r] = "down" => todo[r] = {} /\ key[r] = NoKey /\ task[r] = NoTask /\ snap[r] = NoRow

Coupled ==
    /\ CallTypes
    /\ InCall
    /\ Made
    /\ DownIsClear
    /\ DisposedIsSubmitted

OInv == IInv /\ Bodies /\ Coupled

(* The process function of a composed step is one the pipeline allows for, and a
   panic in the resource service is a crash of the pipeline's process. *)
LEMMA PipelineStep ==
    ASSUME Crashes, R!NullsAssumption, Coupled, [OffloadNext]_offloadVars
    PROVE  [Next]_vars
<1>1. ASSUME NEW r \in Replicas, R!ReadState(r)
      PROVE  loop[r] # "down"
      BY <1>1 DEF R!ReadState, R!NullsAssumption, Coupled, InCall, CallSteps
<1>2. ASSUME NEW r \in Replicas, TickNext(r)
      PROVE  [Next]_vars
      <2>1. CASE Receive(r) \/ TakeRecord(r) \/ Delete(r)
            BY <2>1 DEF Receive, TakeRecord, Delete, Next, LoopNext
      <2>2. CASE Call(r)
            BY <2>2 DEF Call
      <2>3. CASE CallNil(r)
            BY <2>3 DEF CallNil, Panic, Crashes, Crash, Next, EnvironmentNext
      <2>4. CASE CallStep(r)
            BY <1>1, <2>4 DEF CallStep, Crashes, Crash, Next, EnvironmentNext
      <2>5. CASE TryProcessTaskReturns(r)
            BY <2>5 DEF TryProcessTaskReturns, TaskResult, Next, LoopNext
      <2> QED BY <1>2, <2>1, <2>2, <2>3, <2>4, <2>5 DEF TickNext
<1>3. ASSUME NEW r \in Replicas, InitResources(r) \/ Serve(r) \/ Kill(r)
      PROVE  [Next]_vars
      BY <1>3 DEF InitResources, Serve, Kill, Panic, Crash, Next, EnvironmentNext
<1>4. CASE Elsewhere
      BY <1>4 DEF Elsewhere, Next, EnvironmentNext
<1>5. CASE UNCHANGED offloadVars
      BY <1>5 DEF offloadVars
<1> QED BY <1>2, <1>3, <1>4, <1>5 DEF OffloadNext

(* Die on a process that is already down changes nothing. *)
LEMMA DieDown ==
    ASSUME CallTypes, DownIsClear, NEW r \in Replicas, pc[r] = "down", R!Die(r)
    PROVE  UNCHANGED <<pc, todo, key, task, snap>>
BY DEF CallTypes, DownIsClear, R!Die, R!Goto

(* What the composed steps are to the resource service. *)
LEMMA ServiceStep ==
    ASSUME Crashes, Coupled, IInv, Bodies, [OffloadNext]_offloadVars
    PROVE  [R!Next]_(R!vars)
<1> USE DEF R!vars, R!tableVars, R!callVars, R!history
<1>1. ASSUME UNCHANGED serviceVars
      PROVE  UNCHANGED R!vars
      BY <1>1 DEF serviceVars, storedVars
<1>2. ASSUME NEW r \in Replicas, R!Die(r), UNCHANGED storedVars
      PROVE  [R!Next]_(R!vars)
      <2>1. CASE pc[r] = "down"
            BY <1>2, <2>1, DieDown DEF Coupled, storedVars
      <2>2. CASE pc[r] # "down"
            <3>1. R!Crash(r)
                  BY <1>2, <2>2 DEF R!Crash, Crashes, storedVars
            <3> QED BY <3>1 DEF R!Next
      <2> QED BY <2>1, <2>2
<1>3. ASSUME NEW r \in Replicas, TickNext(r)
      PROVE  [R!Next]_(R!vars)
      <2>1. CASE Receive(r) \/ Delete(r)
            BY <1>1, <2>1 DEF Receive, Delete
      <2>2. CASE TakeRecord(r)
            BY <1>1, <1>2, <2>2 DEF TakeRecord
      <2>3. CASE Call(r)
            <3>1. body[current[r]] \in Tasks
                  BY <2>3 DEF Call, Bodies
            <3> QED BY <2>3, <3>1 DEF Call, R!Next, R!CallNext
      <2>4. CASE CallNil(r)
            BY <1>2, <2>4 DEF CallNil, Panic
      <2>5. CASE CallStep(r)
            BY <2>5 DEF CallStep, R!Next, R!CallNext
      <2>6. CASE TryProcessTaskReturns(r)
            BY <2>6 DEF TryProcessTaskReturns, R!Next, R!CallNext
      <2> QED BY <1>3, <2>1, <2>2, <2>3, <2>4, <2>5, <2>6 DEF TickNext
<1>4. ASSUME NEW r \in Replicas, InitResources(r) \/ Serve(r)
      PROVE  [R!Next]_(R!vars)
      BY <1>1, <1>4 DEF InitResources, Serve, R!Next, R!CallNext
<1>5. ASSUME NEW r \in Replicas, Kill(r)
      PROVE  [R!Next]_(R!vars)
      BY <1>2, <1>5 DEF Kill, Panic, R!Next
<1>6. CASE Elsewhere \/ UNCHANGED offloadVars
      BY <1>1, <1>6 DEF Elsewhere, offloadVars
<1> QED BY <1>3, <1>4, <1>5, <1>6 DEF OffloadNext

(* What the steps of the service keep by themselves. *)
LEMMA ServiceKeeps ==
    ASSUME CallTypes, InCall, Made, DownIsClear, [R!Next]_(R!vars)
    PROVE  /\ CallTypes' /\ Made' /\ DownIsClear'
           /\ \A t \in Tasks : created'[t] >= created[t]
<1> USE DEF CallTypes, InCall, Made, DownIsClear, CallSteps, R!Steps, R!Goto, R!tableVars, R!history
<1> DEFINE Goal == /\ CallTypes' /\ Made' /\ DownIsClear'
                   /\ \A t \in Tasks : created'[t] >= created[t]
<1>1. CASE UNCHANGED R!vars
      BY <1>1 DEF R!vars, R!callVars
<1>2. ASSUME NEW r \in Replicas, R!Die(r), UNCHANGED created
      PROVE  Goal
      <2>1. CallTypes'
            BY <1>2 DEF R!Die
      <2>2. DownIsClear'
            BY <1>2 DEF R!Die
      <2>3. Made'
            BY <1>2 DEF R!Die
      <2> QED BY <1>2, <2>1, <2>2, <2>3
<1>3. ASSUME NEW r \in Replicas, R!StartInit(r)
      PROVE  Goal
      BY <1>3 DEF R!StartInit, R!Adding
<1>4. ASSUME NEW r \in Replicas, R!AddResource(r)
      PROVE  Goal
      BY <1>2, <1>4 DEF R!AddResource, R!Adding
<1>5. ASSUME NEW r \in Replicas, R!InitializeState(r)
      PROVE  Goal
      BY <1>2, <1>5 DEF R!InitializeState, R!Adding
<1>6. ASSUME NEW r \in Replicas, NEW t \in Tasks, R!TryProcessTask(r, t)
      PROVE  Goal
      BY <1>6 DEF R!TryProcessTask, R!Finding, R!Enabled
<1>7. ASSUME NEW r \in Replicas, R!CheckResource(r)
      PROVE  Goal
      BY <1>7 DEF R!CheckResource, R!Finding
<1>8. ASSUME NEW r \in Replicas, R!ReadState(r)
      PROVE  Goal
      BY <1>2, <1>8 DEF R!ReadState
<1>9. ASSUME NEW r \in Replicas, R!WriteState(r) \/ R!RollBack(r)
      PROVE  Goal
      BY <1>9 DEF R!WriteState, R!RollBack
<1>10. ASSUME NEW r \in Replicas, R!CreateBatch(r)
       PROVE  Goal
      <2>1. /\ task[r] \in Tasks
            /\ pc' \in {[pc EXCEPT ![r] = "succeeded"], [pc EXCEPT ![r] = "rollingback"]}
            /\ created' \in {created, [created EXCEPT ![task[r]] = @ + 1]}
            /\ pc' = [pc EXCEPT ![r] = "succeeded"] =>
                  created' = [created EXCEPT ![task[r]] = @ + 1]
            /\ UNCHANGED <<todo, key, task, snap>>
            BY <1>10 DEF R!CreateBatch
      <2>2. CallTypes' /\ DownIsClear' /\ \A t \in Tasks : created'[t] >= created[t]
            BY <2>1
      <2>3. Made'
            <3> SUFFICES ASSUME NEW i \in Replicas, pc'[i] = "succeeded"
                         PROVE  created'[task[i]] > 0
                BY <2>1
            <3>1. CASE i = r
                  BY <2>1, <3>1
            <3>2. CASE i # r
                  <4>1. pc[i] = "succeeded" /\ task[i] \in Tasks /\ created[task[i]] > 0
                        BY <2>1, <3>2
                  <4> QED BY <2>2, <4>1
            <3> QED BY <3>1, <3>2
      <2> QED BY <2>2, <2>3
<1>11. ASSUME NEW r \in Replicas, R!Return(r)
       PROVE  Goal
       BY <1>11 DEF R!Return
<1>12. ASSUME NEW r \in Replicas, R!Crash(r)
       PROVE  Goal
       BY <1>2, <1>12 DEF R!Crash
<1> QED
    BY <1>1, <1>3, <1>4, <1>5, <1>6, <1>7, <1>8, <1>9, <1>10, <1>11, <1>12
    DEF R!Next, R!CallNext

(* A call stays with its record: the loop waits for it. *)
LEMMA InCallStep ==
    ASSUME Crashes, R!NullsAssumption, OInv, [OffloadNext]_offloadVars
    PROVE  InCall'
<1> USE R!NullsAssumption DEF R!NullsAssumption
<1> USE DEF OInv, Coupled, CallTypes, InCall, CallSteps, R!Steps, R!Goto, R!tableVars, R!history
<1>0. IInv /\ TypeOK /\ [Next]_vars
      BY PipelineStep DEF IInv
<1>1. \A i \in Replicas : task[i] # NoTask => body'[current[i]] = body[current[i]]
      <2> SUFFICES ASSUME NEW i \in Replicas, task[i] # NoTask
                   PROVE  body'[current[i]] = body[current[i]]
          OBVIOUS
      <2>1. current[i] \in Msgs /\ Sent(current[i])
            BY <1>0 DEF IInv, RecordHeld, Bodies
      <2> QED BY <1>0, <2>1, SentStays
<1>2. ASSUME NEW r \in Replicas, task[r] = NoTask, UNCHANGED <<pc, task>>,
             \A i \in Replicas \ {r} : loop'[i] = loop[i] /\ current'[i] = current[i]
      PROVE  InCall'
      BY <1>1, <1>2
<1>3. ASSUME UNCHANGED <<pc, task, loopVars>>
      PROVE  InCall'
      BY <1>1, <1>3 DEF loopVars
<1>4. ASSUME NEW r \in Replicas, R!Die(r),
             \A i \in Replicas \ {r} : loop'[i] = loop[i] /\ current'[i] = current[i]
      PROVE  InCall'
      BY <1>1, <1>4 DEF R!Die
<1>5. ASSUME NEW r \in Replicas, Die(r)
      PROVE  \A i \in Replicas \ {r} : loop'[i] = loop[i] /\ current'[i] = current[i]
      BY <1>0, <1>5 DEF TypeOK, Die
<1>6. ASSUME NEW r \in Replicas, EndRecord(r)
      PROVE  \A i \in Replicas \ {r} : loop'[i] = loop[i] /\ current'[i] = current[i]
      BY <1>0, <1>6 DEF TypeOK, EndRecord
<1>7. ASSUME NEW r \in Replicas, InitResources(r)
      PROVE  InCall'
      <2>1. task[r] = NoTask /\ UNCHANGED <<loopVars, body>>
            BY <1>7 DEF InitResources, vars, queueVars
      <2>2. CASE R!Die(r)
            BY <1>4, <2>1, <2>2 DEF loopVars
      <2> QED BY <1>7, <2>1, <2>2 DEF InitResources, R!StartInit, R!AddResource,
             R!InitializeState, R!Adding, loopVars
<1>8. ASSUME NEW r \in Replicas, Serve(r)
      PROVE  InCall'
      <2>1. task[r] = NoTask
            BY <1>8 DEF Serve, Start
      <2> QED BY <1>0, <1>2, <1>8, <2>1 DEF Serve, Start, serviceVars, TypeOK
<1>9. ASSUME NEW r \in Replicas, Receive(r)
      PROVE  InCall'
      <2>1. /\ task[r] = NoTask
            /\ \A i \in Replicas \ {r} : loop'[i] = loop[i] /\ current'[i] = current[i]
            BY <1>0, <1>9 DEF Receive, PickTaskFromQueue, TypeOK
      <2> QED BY <1>2, <1>9, <2>1 DEF Receive, serviceVars
<1>10. ASSUME NEW r \in Replicas, TakeRecord(r)
       PROVE  InCall'
      <2>1. task[r] = NoTask
            BY <1>10 DEF TakeRecord, StartRecord
      <2>2. \A i \in Replicas \ {r} : loop'[i] = loop[i] /\ current'[i] = current[i]
            BY <1>0, <1>5, <1>10 DEF TakeRecord, StartRecord, TypeOK
      <2> QED BY <1>2, <1>4, <1>10, <2>1, <2>2 DEF TakeRecord, serviceVars
<1>11. ASSUME NEW r \in Replicas, Call(r)
       PROVE  InCall'
      <2>1. body[current[r]] \in Tasks /\ UNCHANGED <<loop, current, body>>
            BY <1>11 DEF Call, Bodies, vars, loopVars, queueVars
      <2> QED BY <1>11, <2>1 DEF Call, R!TryProcessTask, R!Finding
<1>12. ASSUME NEW r \in Replicas, Panic(r)
       PROVE  InCall'
       BY <1>4, <1>5, <1>12 DEF Panic
<1>13. ASSUME NEW r \in Replicas, CallStep(r)
       PROVE  InCall'
      <2>1. CASE R!ReadState(r) /\ pc'[r] = "down"
            BY <1>4, <1>5, <1>13, <2>1 DEF CallStep, R!ReadState, R!CheckResource, R!WriteState,
               R!CreateBatch, R!RollBack
      <2>2. CASE ~(R!ReadState(r) /\ pc'[r] = "down")
            <3>1. /\ UNCHANGED <<loop, current, body, task>>
                  /\ pc[r] \in CallSteps
                  /\ \E step \in CallSteps : pc' = [pc EXCEPT ![r] = step]
                  BY <1>13, <2>2 DEF CallStep, R!ReadState, R!CheckResource, R!Finding,
                     R!WriteState, R!CreateBatch, R!RollBack, R!Die, vars, loopVars, queueVars
            <3> QED BY <3>1
      <2> QED BY <2>1, <2>2
<1>14. ASSUME NEW r \in Replicas, TryProcessTaskReturns(r)
       PROVE  InCall'
      <2>1. \A i \in Replicas \ {r} : loop'[i] = loop[i] /\ current'[i] = current[i]
            <3>1. PICK result \in TaskResult, failed \in BOOLEAN : ProcessFnReturns(r, result, failed)
                  BY <1>14 DEF TryProcessTaskReturns, TaskResult
            <3>2. CASE loop' = [loop EXCEPT ![r] = "deleting"] /\ UNCHANGED current
                  BY <1>0, <3>2 DEF TypeOK
            <3> QED BY <1>6, <3>1, <3>2 DEF ProcessFnReturns
      <2>2. /\ pc' = [pc EXCEPT ![r] = "idle"]
            /\ task' = [task EXCEPT ![r] = NoTask]
            BY <1>14 DEF TryProcessTaskReturns, R!Return
      <2> QED BY <1>1, <2>1, <2>2
<1>15. ASSUME NEW r \in Replicas, Delete(r)
       PROVE  InCall'
      <2>1. /\ task[r] = NoTask
            /\ \A i \in Replicas \ {r} : loop'[i] = loop[i] /\ current'[i] = current[i]
            BY <1>6, <1>15 DEF Delete, DeleteTaskFromQueue
      <2> QED BY <1>2, <1>15, <2>1 DEF Delete, serviceVars
<1>16. ASSUME NEW r \in Replicas, Kill(r)
       PROVE  InCall'
      <2>1. CASE R!Crash(r) /\ UNCHANGED vars
            BY <1>4, <2>1 DEF R!Crash, vars, loopVars
      <2> QED BY <1>12, <1>16, <2>1 DEF Kill
<1>17. CASE Elsewhere \/ UNCHANGED offloadVars
       BY <1>3, <1>17 DEF Elsewhere, HandlerNext, ReceiveRequest, PutTaskStatus, EnqueueTask,
          ForeignMessage, VisibilityTimeout, offloadVars, vars, serviceVars
<1> QED
    BY <1>7, <1>8, <1>9, <1>10, <1>11, <1>12, <1>13, <1>14, <1>15, <1>16, <1>17
    DEF OffloadNext, TickNext, CallNil

(* A message is disposed of for a batch that its own call made. *)
LEMMA DisposedStep ==
    ASSUME Crashes, R!NullsAssumption, OInv, [OffloadNext]_offloadVars
    PROVE  DisposedIsSubmitted'
<1>0. [Next]_vars /\ [R!Next]_(R!vars) /\ IInv /\ Bodies /\ Coupled
      BY PipelineStep, ServiceStep DEF OInv
<1>1. \A t \in Tasks : created[t] \in Nat /\ created'[t] \in Nat /\ created'[t] >= created[t]
      BY <1>0, ServiceKeeps DEF Coupled, CallTypes
<1>2. \A m \in disposed : m \in Msgs /\ body'[m] = body[m]
      BY <1>0, SentStays DEF Bodies, IInv, TypeOK
<1>3. ASSUME NEW r \in Replicas, TryProcessTaskReturns(r)
      PROVE  DisposedIsSubmitted'
      <2>1. CASE pc[r] = "succeeded" /\ ProcessFnReturns(r, "Success", FALSE)
            <3>1. /\ disposed' \subseteq disposed \cup {current[r]}
                  /\ UNCHANGED body
                  BY <2>1 DEF ProcessFnReturns, queueVars
            <3>2. /\ task[r] \in Tasks /\ created[task[r]] > 0
                  /\ task[r] # NoTask
                  BY <1>0, <2>1 DEF Coupled, InCall, Made, CallSteps, R!NullsAssumption
            <3>3. task[r] = body[current[r]]
                  BY <1>0, <3>2 DEF Coupled, InCall
            <3> QED BY <1>0, <1>1, <3>1, <3>2, <3>3 DEF Coupled, DisposedIsSubmitted
      <2>2. CASE ProcessFnReturns(r, "SystemPermanentlyFailed", TRUE)
            <3>1. UNCHANGED <<disposed, body>>
                  BY <2>2 DEF ProcessFnReturns, queueVars
            <3> QED BY <1>0, <1>1, <3>1 DEF Coupled, DisposedIsSubmitted
      <2> QED BY <1>3, <2>1, <2>2 DEF TryProcessTaskReturns
<1>4. ASSUME UNCHANGED disposed
      PROVE  DisposedIsSubmitted'
      BY <1>0, <1>1, <1>2, <1>4 DEF Coupled, DisposedIsSubmitted
<1>5. ASSUME NEW r \in Replicas, CallStep(r)
      PROVE  UNCHANGED disposed
      BY <1>5 DEF CallStep, vars
<1>6. ASSUME NEW r \in Replicas,
             InitResources(r) \/ Serve(r) \/ Receive(r) \/ TakeRecord(r) \/ Call(r)
                 \/ CallNil(r) \/ Delete(r) \/ Kill(r)
      PROVE  UNCHANGED disposed
      BY <1>6 DEF InitResources, Serve, Start, Receive, PickTaskFromQueue, TakeRecord, StartRecord,
         Call, CallNil, Panic, Delete, DeleteTaskFromQueue, Kill, vars
<1>7. CASE Elsewhere \/ UNCHANGED offloadVars
      BY <1>4, <1>7 DEF Elsewhere, HandlerNext, ReceiveRequest, PutTaskStatus, EnqueueTask,
         ForeignMessage, VisibilityTimeout, offloadVars, vars
<1> QED BY <1>3, <1>4, <1>5, <1>6, <1>7 DEF OffloadNext, TickNext

LEMMA InitOInv == OffloadInit /\ R!NullsAssumption => OInv
<1> SUFFICES ASSUME OffloadInit, R!NullsAssumption
             PROVE  OInv
    OBVIOUS
<1>1. IInv /\ Bodies
      BY InitIInv, InitBodies DEF OffloadInit
<1>2. Coupled
      BY DEF OffloadInit, Init, R!Init, R!Steps, R!NullsAssumption, Coupled, CallTypes, InCall,
         CallSteps, Made, DownIsClear, DisposedIsSubmitted
<1> QED BY <1>1, <1>2 DEF OInv

LEMMA StepOInv ==
    ASSUME Crashes, R!NullsAssumption
    PROVE  OInv /\ [OffloadNext]_offloadVars => OInv'
<1> SUFFICES ASSUME OInv, [OffloadNext]_offloadVars
             PROVE  OInv'
    OBVIOUS
<1>1. [Next]_vars /\ [R!Next]_(R!vars)
      BY PipelineStep, ServiceStep DEF OInv
<1>2. IInv' /\ Bodies'
      BY <1>1, StepIInv, StepBodies DEF OInv
<1>3. CallTypes' /\ Made' /\ DownIsClear'
      BY <1>1, ServiceKeeps DEF OInv, Coupled
<1>4. InCall' /\ DisposedIsSubmitted'
      BY InCallStep, DisposedStep
<1> QED BY <1>2, <1>3, <1>4 DEF OInv, Coupled

-----------------------------------------------------------------------------
(* The composition is the pipeline of TaskService: all that is proved of it
   holds with the resource service behind processFn, wired or not. *)
THEOREM PipelineInside ==
    ASSUME Crashes, R!NullsAssumption
    PROVE  OffloadSpec => Spec
<1>1. OffloadInit => Init
      BY DEF OffloadInit
<1>2. OInv /\ [OffloadNext]_offloadVars => [Next]_vars
      BY PipelineStep DEF OInv
<1> QED BY <1>1, <1>2, InitOInv, StepOInv, PTL DEF OffloadSpec, Spec

(* It is the service of ResourceDispatch as well: the event loop calls it one
   task at a time, and a panic of the loop is a crash of the call. *)
THEOREM ServiceInside ==
    ASSUME Crashes, R!NullsAssumption
    PROVE  OffloadSpec => R!Spec
<1>1. OffloadInit => R!Init
      BY DEF OffloadInit
<1>2. OInv /\ [OffloadNext]_offloadVars => [R!Next]_(R!vars)
      BY ServiceStep DEF OInv
<1> QED BY <1>1, <1>2, InitOInv, StepOInv, PTL DEF OffloadSpec, R!Spec

(* What is proved of ResourceDispatch, for this instance of it. *)
RP == INSTANCE ResourceDispatchProofs WITH Faults <- CallFaults

(* The constants of the service are what its modules ask for. *)
ServiceConstants ==
    /\ R!FaultsAssumption /\ R!LimitsAssumption /\ R!KeysAssumption /\ R!NullsAssumption

LEMMA InstanceConstants ==
    ASSUME ServiceConstants
    PROVE  /\ RP!FaultsAssumption /\ RP!LimitsAssumption /\ RP!KeysAssumption
           /\ RP!NullsAssumption
<1>1. RP!FaultsAssumption
      BY DEF ServiceConstants, R!FaultsAssumption, RP!FaultsAssumption, R!FaultKinds, RP!FaultKinds
<1>2. RP!LimitsAssumption /\ RP!KeysAssumption
      BY DEF ServiceConstants, R!LimitsAssumption, RP!LimitsAssumption, R!KeysAssumption,
         RP!KeysAssumption
<1>3. RP!NullsAssumption
      BY DEF ServiceConstants, R!NullsAssumption, RP!NullsAssumption, R!Row, RP!Row
<1> QED BY <1>1, <1>2, <1>3

(* The two instances of the service are the same specification. *)
LEMMA SameService == R!Spec => RP!Spec
<1>1. R!Init => RP!Init
      BY DEF R!Init, RP!Init, R!InitialRow, RP!InitialRow
<1>2. [R!Next]_(R!vars) => [RP!Next]_(RP!vars)
      BY Zenon
      DEF R!vars, RP!vars, R!tableVars, RP!tableVars, R!callVars, RP!callVars, R!history,
          RP!history, R!Row, RP!Row, R!InitialRow, RP!InitialRow, R!Readable,
          RP!Readable, R!Put, RP!Put, R!PutFails, RP!PutFails, R!Goto, RP!Goto, R!Die,
          RP!Die, R!Adding, RP!Adding, R!StartInit, RP!StartInit, R!AddResource,
          RP!AddResource, R!InitializeState, RP!InitializeState, R!Enabled, RP!Enabled,
          R!Finding, RP!Finding, R!TryProcessTask, RP!TryProcessTask, R!Fits, RP!Fits,
          R!HasSlot, RP!HasSlot, R!Suits, RP!Suits, R!CheckResource, RP!CheckResource,
          R!Reserved, RP!Reserved, R!Released, RP!Released, R!ReadState, RP!ReadState,
          R!WriteState, RP!WriteState, R!CreateBatch, RP!CreateBatch, R!RollBack,
          RP!RollBack, R!Return, RP!Return, R!Crash, RP!Crash, R!CallNext, RP!CallNext,
          R!Next, RP!Next
<1> QED BY <1>1, <1>2, PTL DEF R!Spec, RP!Spec

(* So do they count alike: each carries its own copy of FiniteSets. *)
LEMMA SameSize ==
    ASSUME NEW S
    PROVE  /\ RP!Cardinality(S) = R!Cardinality(S)
           /\ IsFiniteSet(S) => RP!IsFiniteSet(S)
<1>1. RP!Cardinality(S) = R!Cardinality(S)
      BY DEF RP!Cardinality, R!Cardinality
<1>2. IsFiniteSet(S) => RP!IsFiniteSet(S)
      BY DEF IsFiniteSet, RP!IsFiniteSet
<1> QED BY <1>1, <1>2

(* Types of both parts, and of their joint: the pipeline's are IInv's, the call
   belongs to the record at hand by InCall, and the service's are the theorem of
   ResourceDispatchProofs about this instance, given its assumptions. *)
THEOREM OffloadTypeCorrect ==
    ASSUME Crashes, ServiceConstants
    PROVE  OffloadSpec => []OffloadTypeOK
<1>0. R!NullsAssumption
      BY DEF ServiceConstants
<1>1. RP!Spec => []RP!TypeOK
      BY InstanceConstants, RP!TypeCorrect
<1>2. RP!TypeOK => R!TypeOK
      BY DEF R!TypeOK, RP!TypeOK, R!Row, RP!Row, R!Steps, RP!Steps
<1>3. OInv /\ R!TypeOK => OffloadTypeOK
      BY DEF OInv, IInv, OffloadTypeOK, Coupled, InCall
<1>4. OInv /\ [OffloadNext]_offloadVars => OInv'
      BY <1>0, StepOInv
<1>5. OffloadInit => OInv
      BY <1>0, InitOInv
<1>6. OffloadSpec => R!Spec
      BY <1>0, ServiceInside
<1> QED BY <1>1, <1>2, <1>3, <1>4, <1>5, <1>6, SameService, PTL DEF OffloadSpec

-----------------------------------------------------------------------------
(* What the service keeps behind the queue, under every fault and however the
   processes interleave: no count falls below zero and no row claims more tokens
   than its batches could hold, though a panic of the loop cuts a call off. *)
THEOREM RowsKeptBehindQueue ==
    ASSUME Crashes, ServiceConstants
    PROVE  OffloadSpec => [](R!CountersNonNegative /\ R!LoadWithinSlots)
<1>1. OffloadSpec => R!Spec
      BY ServiceInside DEF ServiceConstants
<1>2. RP!Spec => []RP!CountersNonNegative
      BY InstanceConstants, RP!NeverNegative
<1>3. RP!Spec => []RP!LoadWithinSlots
      BY InstanceConstants, RP!LoadBounded
<1>4. RP!CountersNonNegative /\ RP!LoadWithinSlots => R!CountersNonNegative /\ R!LoadWithinSlots
      BY DEF R!CountersNonNegative, RP!CountersNonNegative, R!LoadWithinSlots, RP!LoadWithinSlots,
         R!Count, RP!Count, R!Load, RP!Load
<1> QED BY <1>1, <1>2, <1>3, <1>4, SameService, PTL

(* Nor does a redelivery by the queue make a batch without a call of its own, or
   one of a task that does not fit. *)
THEOREM CountedBehindQueue ==
    ASSUME Crashes, ServiceConstants, IsFiniteSet(Replicas)
    PROVE  OffloadSpec => []R!OneBatchPerCall
<1>1. OffloadSpec => R!Spec
      BY ServiceInside DEF ServiceConstants
<1>2. RP!Spec => []RP!OneBatchPerCall
      BY InstanceConstants, SameSize, RP!BatchesCounted
<1>3. RP!OneBatchPerCall => R!OneBatchPerCall
      BY SameSize DEF R!OneBatchPerCall, RP!OneBatchPerCall, R!Pending, RP!Pending, R!Fits, RP!Fits
<1> QED BY <1>1, <1>2, <1>3, SameService, PTL

-----------------------------------------------------------------------------
(* A status row, once written, stays. *)
LEMMA StatusStays ==
    ASSUME TypeOK, [Next]_vars, NEW t \in Tasks, status[t] # "none"
    PROVE  status'[t] # "none"
<1>1. ASSUME NEW i, UpsertStatus(i)
      PROVE  status'[t] # "none"
      BY <1>1 DEF TypeOK, UpsertStatus
<1>2. ASSUME HandlerNext
      PROVE  status'[t] # "none"
      BY <1>1, <1>2 DEF HandlerNext, ReceiveRequest, PutTaskStatus, EnqueueTask
<1>3. ASSUME EnvironmentNext
      PROVE  UNCHANGED status
      BY <1>3 DEF EnvironmentNext, VisibilityTimeout, Start, Crash, ForeignMessage
<1>4. ASSUME NEW r \in Replicas, LoopNext(r)
      PROVE  UNCHANGED status
      BY <1>4 DEF LoopNext, PickTaskFromQueue, StartRecord, ProcessFnReturns, DeleteTaskFromQueue,
         UpdateTaskStatus
<1> QED BY <1>2, <1>3, <1>4 DEF Next, vars

(* A batch is of the task that the loop is processing, whose message was sent
   after its row was written: two invariants of the pipeline and one of the
   joint keep a provider from working on a task nobody can look up. *)
THEOREM SubmittedIsKnown ==
    ASSUME Crashes, R!NullsAssumption
    PROVE  OffloadSpec => []SubmittedHasStatus
<1>1. OffloadInit => SubmittedHasStatus
      BY DEF OffloadInit, R!Init, SubmittedHasStatus
<1>2. ASSUME OInv, SubmittedHasStatus, [OffloadNext]_offloadVars
      PROVE  SubmittedHasStatus'
      <2>0. [Next]_vars /\ [R!Next]_(R!vars) /\ TypeOK
            BY <1>2, PipelineStep, ServiceStep DEF OInv, IInv
      <2>1. ASSUME NEW t \in Tasks, created[t] > 0 \/ status[t] # "none"
            PROVE  status'[t] # "none"
            BY <1>2, <2>0, <2>1, StatusStays DEF SubmittedHasStatus
      <2>2. CASE created' = created
            BY <2>1, <2>2 DEF SubmittedHasStatus
      <2>3. ASSUME NEW r \in Replicas, R!CreateBatch(r), NEW t \in Tasks, created'[t] > 0
            PROVE  status'[t] # "none"
            <3>1. created'[t] # created[t] => t = task[r]
                  BY <1>2, <2>3 DEF R!CreateBatch, OInv, Coupled, CallTypes
            <3>2. task[r] \in Tasks /\ task[r] = body[current[r]] /\ current[r] \in Msgs
                  BY <1>2, <2>3 DEF R!CreateBatch, R!NullsAssumption, OInv, IInv, RecordHeld,
                     Coupled, InCall, CallSteps
            <3>3. status[task[r]] # "none"
                  BY <1>2, <3>2 DEF OInv, IInv, StatusRowPrecedesMessage
            <3> QED BY <2>1, <2>3, <3>1, <3>3
      <2>4. \A r \in Replicas : R!CreateBatch(r) => SubmittedHasStatus'
            BY <2>3 DEF SubmittedHasStatus
      <2> QED BY <2>0, <2>2, <2>4 DEF R!Next, R!CallNext, R!vars, R!history, R!StartInit,
              R!AddResource, R!InitializeState, R!TryProcessTask, R!CheckResource, R!ReadState,
              R!WriteState, R!RollBack, R!Return, R!Crash
<1>3. OInv /\ SubmittedHasStatus /\ [OffloadNext]_offloadVars => SubmittedHasStatus'
      BY <1>2
<1> QED BY <1>1, <1>3, InitOInv, StepOInv, PTL DEF OffloadSpec

(* Nothing but a batch at a provider lets the loop delete a task. *)
THEOREM DisposesSubmitted ==
    ASSUME Crashes, R!NullsAssumption
    PROVE  OffloadSpec => []DisposedIsSubmitted
<1>1. OInv => DisposedIsSubmitted
      BY DEF OInv, Coupled
<1> QED BY <1>1, InitOInv, StepOInv, PTL DEF OffloadSpec

-----------------------------------------------------------------------------
(* The messages that carry t and are in the queue. *)
InQueue(m) == place[m] \in {"visible", "inflight"}

Queued == {t \in Tasks : \E m \in Msgs : body[m] = t /\ InQueue(m)}

(* The queue as Delivery sees it changes with the place of a message, or with
   a message that is sent. *)
LEMMA StoreQueues ==
    ASSUME IInv, NEW b \in Tasks \cup {Malformed, NullBody}, Store(b)
    PROVE  Queued' = Queued \cup (Tasks \cap {b})
<1> USE NullsAssumption DEF IInv, TypeOK, InQueue, Queued
<1>1. PICK n \in Msgs : /\ place[n] = "unsent"
                        /\ place' = [place EXCEPT ![n] = "visible"]
                        /\ body' = [body EXCEPT ![n] = b]
      BY DEF Store, Unsent
<1>2. \A m \in Msgs \ {n} : (InQueue(m) <=> InQueue(m)') /\ body'[m] = body[m]
      BY <1>1
<1>3. ~InQueue(n) /\ InQueue(n)' /\ body'[n] = b
      BY <1>1
<1> QED BY <1>2, <1>3

LEMMA SameQueue ==
    ASSUME UNCHANGED body, \A m \in Msgs : InQueue(m)' <=> InQueue(m)
    PROVE  Queued' = Queued
BY DEF Queued

LEMMA DeleteQueues ==
    ASSUME IInv, NEW n \in Msgs, UNCHANGED body, place' = [place EXCEPT ![n] = "deleted"]
    PROVE  Queued' = Queued \/ Queued' = Queued \ {body[n]}
<1>1. \A m \in Msgs \ {n} : InQueue(m)' <=> InQueue(m)
      BY DEF InQueue, IInv, TypeOK
<1>2. ~InQueue(n)'
      BY DEF InQueue, IInv, TypeOK
<1>3. \A t \in Tasks : t \in Queued' => t \in Queued
      BY <1>1, <1>2 DEF Queued
<1>4. \A t \in Tasks : t # body[n] /\ t \in Queued => t \in Queued'
      BY <1>1 DEF Queued
<1>5. Queued \subseteq Tasks /\ Queued' \subseteq Tasks
      BY DEF Queued
<1>6. ASSUME NEW A, NEW B, NEW t, B \subseteq A, A \ {t} \subseteq B
      PROVE  B = A \/ B = A \ {t}
      BY <1>6
<1>7. Queued' \subseteq Queued /\ Queued \ {body[n]} \subseteq Queued'
      BY <1>3, <1>4, <1>5
<1> QED BY <1>6, <1>7

(* What the pipeline's steps are to a client. *)
LEMMA QueueDelivers ==
    ASSUME OInv, [Next]_vars, UNCHANGED created
    PROVE  [Promise!Next]_(Promise!vars)
<1> USE DEF OInv, IInv, TypeOK, Promise!vars, Queued, InQueue
<1>1. ASSUME Queued' = Queued, UNCHANGED acked
      PROVE  UNCHANGED Promise!vars
      BY <1>1
<1>2. ASSUME NEW h \in handlers, EnqueueTask(h)
      PROVE  [Promise!Next]_(Promise!vars)
      <2>1. h.task \in Tasks
            BY DEF Handler
      <2>2. CASE Store(h.task)
            <3>1. Queued' = Queued \cup {h.task}
                  BY <2>1, <2>2, StoreQueues
            <3>2. acked' \in {acked, acked \cup {h.task}}
                  BY <1>2 DEF EnqueueTask
            <3>3. Promise!Send(h.task)
                  BY <3>1, <3>2 DEF Promise!Send
            <3> QED BY <2>1, <3>3 DEF Promise!Next
      <2>3. CASE UNCHANGED queueVars /\ UNCHANGED acked
            BY <1>1, <2>3 DEF queueVars
      <2> QED BY <1>2, <2>2, <2>3 DEF EnqueueTask
<1>3. ASSUME ForeignMessage
      PROVE  [Promise!Next]_(Promise!vars)
      <2>1. PICK b \in {Malformed, NullBody} : Store(b)
            BY <1>3 DEF ForeignMessage
      <2>2. Queued' = Queued
            BY <2>1, StoreQueues, NullsAssumption
      <2> QED BY <1>1, <1>3, <2>2 DEF ForeignMessage
<1>4. ASSUME NEW r \in Replicas, PickTaskFromQueue(r)
      PROVE  [Promise!Next]_(Promise!vars)
      <2>1. \A m \in Msgs : InQueue(m)' <=> InQueue(m)
            BY <1>4 DEF PickTaskFromQueue, Visible
      <2> QED BY <1>1, <1>4, <2>1, SameQueue DEF PickTaskFromQueue
<1>5. ASSUME NEW m \in Msgs, VisibilityTimeout(m)
      PROVE  [Promise!Next]_(Promise!vars)
      <2>1. \A n \in Msgs : InQueue(n)' <=> InQueue(n)
            BY <1>5 DEF VisibilityTimeout
      <2> QED BY <1>1, <1>5, <2>1, SameQueue DEF VisibilityTimeout
<1>6. ASSUME NEW r \in Replicas, DeleteTaskFromQueue(r)
      PROVE  [Promise!Next]_(Promise!vars)
      <2> DEFINE n == current[r]
                 t == body[n]
      <2>1. n \in disposed /\ n \in Msgs /\ t \in Tasks /\ created[t] > 0
            BY <1>6 DEF DeleteTaskFromQueue, DeletesDisposed, Bodies, Coupled, DisposedIsSubmitted
      <2>2. UNCHANGED <<body, acked>>
            BY <1>6 DEF DeleteTaskFromQueue
      <2>3. CASE UNCHANGED place
            BY <1>1, <2>2, <2>3, SameQueue
      <2>4. CASE place' = [place EXCEPT ![n] = "deleted"]
            <3>1. Queued' = Queued \/ Queued' = Queued \ {t}
                  BY <2>1, <2>2, <2>4, DeleteQueues
            <3>2. CASE Queued' = Queued \ {t}
                  <4>1. PICK i \in Tasks : i = t
                        BY <2>1
                  <4>2. Promise!Settle(i)
                        BY <2>1, <2>2, <3>2, <4>1 DEF Promise!Settle
                  <4> QED BY <4>2 DEF Promise!Next
            <3> QED BY <1>1, <2>2, <3>1, <3>2
      <2> QED BY <1>6, <2>3, <2>4 DEF DeleteTaskFromQueue, DeleteMessage
<1>7. ASSUME UNCHANGED <<place, body, acked>>
      PROVE  [Promise!Next]_(Promise!vars)
      BY <1>1, <1>7
<1> QED
    BY <1>2, <1>3, <1>4, <1>5, <1>6, <1>7
    DEF Next, HandlerNext, EnvironmentNext, LoopNext, ReceiveRequest, PutTaskStatus, StartRecord,
        ProcessFnReturns, Start, Crash, vars, queueVars

(* A batch is made for a task that is in the queue, or had a batch before. *)
LEMMA BatchDelivers ==
    ASSUME OInv, R!NullsAssumption, NEW r \in Replicas, R!CreateBatch(r), UNCHANGED vars
    PROVE  [Promise!Next]_(Promise!vars)
<1> DEFINE t == task[r]
           n == current[r]
<1>1. /\ t \in Tasks
      /\ created' = created \/ created' = [created EXCEPT ![t] = @ + 1]
      BY DEF R!CreateBatch, OInv, Coupled, InCall, CallSteps
<1>2. ASSUME t # NoTask
      PROVE  t \in Queued \/ created[t] > 0
      <2>1. loop[r] = "processing" /\ body[n] = t
            BY <1>2 DEF OInv, Coupled, InCall
      <2>2. n \in Msgs /\ Sent(n)
            BY <2>1 DEF OInv, IInv, RecordHeld, Bodies
      <2>3. InQueue(n) \/ n \in disposed
            BY <2>2 DEF OInv, IInv, TypeOK, GoneIsDisposed, Sent, InQueue
      <2> QED BY <1>1, <2>1, <2>2, <2>3 DEF Queued, OInv, Coupled, DisposedIsSubmitted
<1>3. UNCHANGED <<acked, Queued>>
      BY DEF vars, queueVars, Queued, InQueue
<1>4. CASE created' = [created EXCEPT ![t] = @ + 1] /\ t # NoTask
      <2>1. Promise!Submit(t)
            BY <1>2, <1>3, <1>4 DEF Promise!Submit, Queued, InQueue
      <2> QED BY <1>1, <2>1 DEF Promise!Next
<1>5. CASE created' = created
      BY <1>3, <1>5 DEF Promise!vars, Queued, InQueue
<1> QED BY <1>1, <1>4, <1>5 DEF R!NullsAssumption

(* The composition implements Delivery: whatever fails, with the service wired
   or not, a task leaves the queue only when a provider holds a batch for it. *)
THEOREM Delivers ==
    ASSUME Crashes, R!NullsAssumption
    PROVE  OffloadSpec => DeliversAtLeastOnce
<1>1. OffloadInit => Promise!Init
      BY NullsAssumption DEF OffloadInit, Init, R!Init, Promise!Init
<1>2. ASSUME OInv, [OffloadNext]_offloadVars
      PROVE  [Promise!Next]_(Promise!vars)
      <2>1. [Next]_vars
            BY <1>2, PipelineStep DEF OInv
      <2>2. CASE UNCHANGED created
            BY <1>2, <2>1, <2>2, QueueDelivers
      <2>3. CASE created' # created
            <3>1. PICK r \in Replicas : R!CreateBatch(r) /\ UNCHANGED vars
                  BY <1>2, <2>3 DEF OffloadNext, Elsewhere, InitResources, Serve, TickNext, Kill,
                     Receive, TakeRecord, Call, CallNil, Panic, CallStep, TryProcessTaskReturns,
                     Delete, serviceVars, storedVars, offloadVars, R!StartInit, R!AddResource,
                     R!InitializeState, R!TryProcessTask, R!CheckResource, R!ReadState,
                     R!WriteState, R!RollBack, R!Return, R!Crash, R!history
            <3> QED BY <1>2, <3>1, BatchDelivers
      <2> QED BY <2>2, <2>3
<1>3. OInv /\ [OffloadNext]_offloadVars => [Promise!Next]_(Promise!vars)
      BY <1>2
<1> QED BY <1>1, <1>3, InitOInv, StepOInv, PTL DEF OffloadSpec, DeliversAtLeastOnce, Promise!Spec

(* The promise itself, which any implementation of Delivery inherits: a task
   whose PUT was answered 200 is queued, or a provider holds a batch for it. *)
THEOREM AcceptedIsDelivered ==
    ASSUME Crashes, R!NullsAssumption
    PROVE  OffloadSpec => []Promise!AtLeastOnce
<1> DEFINE Inv == Promise!TypeOK /\ Promise!AtLeastOnce
<1>1. Promise!Init => Inv
      BY DEF Promise!Init, Promise!TypeOK, Promise!AtLeastOnce
<1>2. Inv /\ [Promise!Next]_(Promise!vars) => Inv'
      <2> SUFFICES ASSUME Inv, [Promise!Next]_(Promise!vars)
                   PROVE  Inv'
          OBVIOUS
      <2> USE DEF Promise!TypeOK, Promise!AtLeastOnce
      <2>1. ASSUME NEW t \in Tasks, Promise!Send(t)
            PROVE  Inv'
            BY <2>1 DEF Promise!Send
      <2>2. ASSUME NEW t \in Tasks, Promise!Submit(t)
            PROVE  Inv'
            BY <2>2 DEF Promise!Submit
      <2>3. ASSUME NEW t \in Tasks, Promise!Settle(t)
            PROVE  Inv'
            BY <2>3 DEF Promise!Settle
      <2>4. CASE UNCHANGED Promise!vars
            BY <2>4 DEF Promise!vars
      <2> QED BY <2>1, <2>2, <2>3, <2>4 DEF Promise!Next
<1>3. Inv => Promise!AtLeastOnce
      OBVIOUS
<1> QED BY <1>1, <1>2, <1>3, Delivers, PTL DEF DeliversAtLeastOnce, Promise!Spec
=============================================================================
