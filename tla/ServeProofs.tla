---------------------------- MODULE ServeProofs ----------------------------
(***************************************************************************)
(* Proofs about Startup and Serve, for any set of replicas and buckets and *)
(* any bounds on faults and errors.  UpMeansProvisioned is not inductive:  *)
(* each step of Init has to carry what the steps before it found or made.  *)
(* AnsweredBucketStored needs that rows are in a table that can be used,   *)
(* for which the table has to stay usable.                                 *)
(***************************************************************************)
EXTENDS Serve, TLAPS

(* What Init has established when a replica is at each of its calls. *)
Provisioned ==
    \A r \in Replicas :
        /\ pc[r] \in {"describeTable", "createTable", "waiting", "up"} => queue
        /\ pc[r] \in {"waiting", "up"} => table # "absent"

IInv == TypeOK /\ Provisioned

LEMMA InitIInv == Init => IInv
BY FaultsAssumption DEF Init, IInv, TypeOK, Provisioned

LEMMA StepIInv == IInv /\ [Next]_vars => IInv'
<1> SUFFICES ASSUME IInv, [Next]_vars
             PROVE  IInv'
    OBVIOUS
<1> USE FaultsAssumption
<1> USE DEF IInv, TypeOK, Provisioned, Goto, Fails
<1>1. CASE TableBecomesActive
      BY <1>1 DEF TableBecomesActive
<1>2. ASSUME NEW r \in Replicas, Start(r)
      PROVE  IInv'
      BY <1>2 DEF Start
<1>3. ASSUME NEW r \in Replicas, GetQueueUrl(r)
      PROVE  IInv'
      BY <1>3 DEF GetQueueUrl
<1>4. ASSUME NEW r \in Replicas, CreateQueue(r)
      PROVE  IInv'
      <2>1. CASE /\ queue' = TRUE /\ UNCHANGED <<table, faults>>
                 /\ pc' = [pc EXCEPT ![r] = "describeTable"]
            BY <2>1
      <2>2. CASE /\ queue' = TRUE /\ Fails(r) /\ UNCHANGED table
            BY <2>2
      <2>3. CASE UNCHANGED queue /\ Fails(r) /\ UNCHANGED table
            BY <2>3
      <2> QED BY <1>4, <2>1, <2>2, <2>3 DEF CreateQueue
<1>5. ASSUME NEW r \in Replicas, DescribeTable(r)
      PROVE  IInv'
      BY <1>5 DEF DescribeTable
<1>6. ASSUME NEW r \in Replicas, CreateTable(r)
      PROVE  IInv'
      <2>1. table' \in {table, "creating"} /\ (table # "absent" => table' = table)
            BY <1>6 DEF CreateTable
      <2>2. CASE pc' = [pc EXCEPT ![r] = "waiting"] /\ table' = "creating" /\ UNCHANGED faults
            BY <1>6, <2>1, <2>2 DEF CreateTable
      <2>3. CASE pc' = [pc EXCEPT ![r] = "down"]
            BY <1>6, <2>1, <2>3 DEF CreateTable
      <2> QED BY <1>6, <2>2, <2>3 DEF CreateTable
<1>7. ASSUME NEW r \in Replicas, WaitForTable(r)
      PROVE  IInv'
      BY <1>7 DEF WaitForTable
<1>8. ASSUME NEW r \in Replicas, Crash(r)
      PROVE  IInv'
      BY <1>8 DEF Crash
<1>9. CASE UNCHANGED vars
      BY <1>9 DEF vars
<1> QED BY <1>1, <1>2, <1>3, <1>4, <1>5, <1>6, <1>7, <1>8, <1>9 DEF Next, InitNext

(* A replica that is up has its queue and its table, however many replicas
   start, fail and restart together. *)
THEOREM UpIsProvisioned == Spec => []UpMeansProvisioned
<1>1. IInv => UpMeansProvisioned
      BY DEF IInv, Provisioned, UpMeansProvisioned
<1> QED BY <1>1, InitIInv, StepIInv, PTL DEF Spec

-----------------------------------------------------------------------------
(* What Serve does to the variables of Startup is a step of it or none. *)
LEMMA ServeStep == [ServeNext]_serveVars => [Next]_vars
<1> SUFFICES ASSUME [ServeNext]_serveVars
             PROVE  [Next]_vars
    OBVIOUS
<1>1. CASE TableBecomesActive
      BY <1>1 DEF Next
<1>2. ASSUME NEW r \in Replicas, Boot(r) \/ Killed(r)
      PROVE  Next
      BY <1>2 DEF Boot, Killed, Next
<1>3. ASSUME NEW r \in Replicas, Signal(r) \/ Exit(r) \/ HttpNext(r) \/ LoopNext(r)
      PROVE  UNCHANGED vars
      BY <1>3 DEF Signal, Exit, HttpNext, HttpRun, Cleanup, LoopNext, Select, Receive
<1>4. ASSUME NEW r \in Replicas, NEW b \in Buckets, RequestBucket(r, b)
      PROVE  UNCHANGED vars
      BY <1>4 DEF RequestBucket
<1>5. ASSUME NEW q \in requests, UpdateTaskBucket(q)
      PROVE  UNCHANGED vars
      BY <1>5 DEF UpdateTaskBucket, UpsertTaskBucket, UpsertTaskBucketFails
<1>6. CASE UNCHANGED serveVars
      BY <1>6 DEF serveVars
<1> QED BY <1>1, <1>2, <1>3, <1>4, <1>5, <1>6 DEF ServeNext

(* Serving and stopping do not interfere with the race of the start-ups: what
   holds of Startup holds of the processes that serve. *)
THEOREM StartupInside == ServeSpec => Spec
<1>1. ServeInit => Init
      BY DEF ServeInit
<1> QED BY <1>1, ServeStep, PTL DEF ServeSpec, Spec

(* The two theorems together: a replica that is up has its queue and table. *)
THEOREM ServesProvisioned == ServeSpec => []UpMeansProvisioned
BY StartupInside, UpIsProvisioned, PTL

-----------------------------------------------------------------------------
ServeTypes ==
    /\ server \in [Replicas -> {"none", "starting", "serving", "failed", "closed"}]
    /\ eloop \in [Replicas -> {"none", "ticking", "receiving", "returned", "failed"}]
    /\ cancelled \in [Replicas -> BOOLEAN]
    /\ ended \in [Replicas -> {"no", "exited", "panicked"}]
    /\ errors \in 0..MaxErrors
    /\ requests \subseteq [at : Replicas, bucket : Buckets]
    /\ stored \subseteq Buckets
    /\ answered \subseteq Buckets

SInv ==
    /\ ServeTypes
    /\ AnsweredBucketStored

LEMMA InitSInv == ServeInit => SInv
BY ErrorsAssumption DEF ServeInit, SInv, ServeTypes, AnsweredBucketStored

(* A table that can be used stays so. *)
LEMMA ActiveStays ==
    ASSUME [Next]_vars, table = "active"
    PROVE  table' = "active"
BY DEF Next, InitNext, vars, TableBecomesActive, Crash, Start, GetQueueUrl, CreateQueue,
   DescribeTable, CreateTable, WaitForTable

LEMMA StepSInv == SInv /\ [ServeNext]_serveVars => SInv'
<1> SUFFICES ASSUME SInv, [ServeNext]_serveVars
             PROVE  SInv'
    OBVIOUS
<1> USE ErrorsAssumption
<1> USE DEF SInv, ServeTypes, AnsweredBucketStored, processVars, bucketVars
<1>0. table = "active" => table' = "active"
      BY ServeStep, ActiveStays
<1>1. CASE UNCHANGED <<processVars, errors, bucketVars>>
      BY <1>0, <1>1
<1>2. ASSUME NEW r \in Replicas, Boot(r)
      PROVE  SInv'
      BY <1>0, <1>2 DEF Boot
<1>3. ASSUME NEW r \in Replicas, Signal(r)
      PROVE  SInv'
      BY <1>0, <1>3 DEF Signal
<1>4. ASSUME NEW r \in Replicas, Exit(r)
      PROVE  SInv'
      BY <1>0, <1>4 DEF Exit, Ends
<1>5. ASSUME NEW r \in Replicas, Killed(r)
      PROVE  SInv'
      BY <1>0, <1>5 DEF Killed, Ends
<1>6. ASSUME NEW r \in Replicas, HttpRun(r)
      PROVE  SInv'
      BY <1>0, <1>6 DEF HttpRun, CallFails
<1>7. ASSUME NEW r \in Replicas, Cleanup(r)
      PROVE  SInv'
      BY <1>0, <1>7 DEF Cleanup, Ends
<1>8. ASSUME NEW r \in Replicas, Select(r)
      PROVE  SInv'
      BY <1>0, <1>8 DEF Select
<1>9. ASSUME NEW r \in Replicas, Receive(r)
      PROVE  SInv'
      <2>1. CASE /\ eloop' = [eloop EXCEPT ![r] = "ticking"]
                 /\ UNCHANGED <<cancelled, errors, ended, bucketVars>>
            BY <1>0, <1>9, <2>1 DEF Receive
      <2>2. CASE LoopFails(r) /\ CallFails /\ UNCHANGED <<ended, bucketVars>>
            <3>1. errors' \in 0..MaxErrors
                  BY <2>2 DEF CallFails
            <3>2. cancelled' \in [Replicas -> BOOLEAN]
                  <4>1. [cancelled EXCEPT ![r] = TRUE] \in [Replicas -> BOOLEAN]
                        BY Zenon
                  <4> QED BY <2>2, <4>1, Zenon DEF LoopFails
            <3>3. eloop' = [eloop EXCEPT ![r] = "failed"]
                  BY <2>2 DEF LoopFails
            <3> QED BY <1>0, <1>9, <2>2, <3>1, <3>2, <3>3 DEF Receive
      <2>3. CASE Ends(r, "panicked") /\ UNCHANGED <<eloop, cancelled, errors>>
            BY <1>0, <1>9, <2>3 DEF Receive, Ends
      <2> QED BY <1>9, <2>1, <2>2, <2>3 DEF Receive
<1>10. ASSUME NEW r \in Replicas, NEW b \in Buckets, RequestBucket(r, b)
       PROVE  SInv'
       BY <1>0, <1>10 DEF RequestBucket
<1>11. ASSUME NEW q \in requests, UpdateTaskBucket(q)
       PROVE  SInv'
       BY <1>0, <1>11 DEF UpdateTaskBucket, UpsertTaskBucket, UpsertTaskBucketFails, CallFails
<1> QED
    BY <1>1, <1>2, <1>3, <1>4, <1>5, <1>6, <1>7, <1>8, <1>9, <1>10, <1>11
    DEF ServeNext, HttpNext, LoopNext, serveVars

(* Types of the whole module: those of Startup and its own. *)
THEOREM ServeTypeCorrect == ServeSpec => []ServeTypeOK
<1>1. ServeInit => Init
      BY DEF ServeInit
<1>2. IInv /\ SInv => ServeTypeOK
      BY DEF IInv, SInv, ServeTypes, ServeTypeOK
<1> QED BY <1>1, <1>2, ServeStep, InitIInv, StepIInv, InitSInv, StepSInv, PTL DEF ServeSpec

(* What was answered 200 is stored, in whatever state of the table. *)
THEOREM AnsweredIsStored == ServeSpec => []AnsweredBucketStored
<1>1. SInv => AnsweredBucketStored
      BY DEF SInv
<1> QED BY <1>1, InitSInv, StepSInv, PTL DEF ServeSpec
=============================================================================
