------------------------------ MODULE Startup ------------------------------
(***************************************************************************)
(* AppContext.Init on several replicas at once.  The replicas share the    *)
(* task queue and the task_buckets table and each creates what it does not *)
(* find: SqsQueue.Init runs CreateQueueIfNotExists, then Repository.Init   *)
(* runs EnsureTableExists.  An error ends the process (main panics) and    *)
(* the container is started again (compose.yml: unless-stopped).           *)
(***************************************************************************)
EXTENDS Naturals

CONSTANTS
    Replicas,
    MaxFaults    \* BOUND: failing calls and crashes in one behaviour

ASSUME FaultsAssumption == MaxFaults \in Nat

VARIABLES
    queue,    \* the task queue exists
    table,    \* the TableStatus of task_buckets, "absent" if there is none
    pc,       \* pc[r]: the next call of replica r
    faults    \* faults so far

vars == <<queue, table, pc, faults>>

TypeOK ==
    /\ queue \in BOOLEAN
    /\ table \in {"absent", "creating", "active"}
    /\ pc \in [Replicas -> {"down", "getQueueUrl", "createQueue", "describeTable",
                            "createTable", "waiting", "up"}]
    /\ faults \in 0..MaxFaults

(* A fresh account, or what an earlier deployment left. *)
Init ==
    /\ queue \in BOOLEAN
    /\ table \in {"absent", "active"}
    /\ pc = [r \in Replicas |-> "down"]
    /\ faults = 0

Goto(r, step) == pc' = [pc EXCEPT ![r] = step]

(* One more fault: main panics, or the process is killed. *)
Fails(r) ==
    /\ faults < MaxFaults
    /\ faults' = faults + 1
    /\ Goto(r, "down")

(* DynamoDbStore.Init: loading the configuration of the SDK may fail. *)
Start(r) ==
    /\ pc[r] = "down"
    /\ \/ Goto(r, "getQueueUrl") /\ UNCHANGED faults
       \/ Fails(r)
    /\ UNCHANGED <<queue, table>>

-----------------------------------------------------------------------------
(* CreateQueueIfNotExists *)

(* Mutant of GetQueueUrl: the error for a missing queue is not recognised. *)
GetQueueUrlStrict(r) ==
    /\ pc[r] = "getQueueUrl"
    /\ \/ queue /\ Goto(r, "describeTable") /\ UNCHANGED faults
       \/ ~queue /\ Goto(r, "down") /\ UNCHANGED faults
       \/ Fails(r)
    /\ UNCHANGED <<queue, table>>

GetQueueUrl(r) ==
    /\ pc[r] = "getQueueUrl"
    /\ \/ queue /\ Goto(r, "describeTable") /\ UNCHANGED faults
       \/ ~queue /\ Goto(r, "createQueue") /\ UNCHANGED faults
       \/ Fails(r)
    /\ UNCHANGED <<queue, table>>

(* Creating a queue that another replica has created meanwhile gives its URL. *)
CreateQueue(r) ==
    /\ pc[r] = "createQueue"
    /\ \/ queue' = TRUE /\ Goto(r, "describeTable") /\ UNCHANGED faults
       \/ Fails(r) /\ (queue' = TRUE \/ UNCHANGED queue)
    /\ UNCHANGED table

-----------------------------------------------------------------------------
(* EnsureTableExists *)

(* Mutant of DescribeTable: any error but not-found is taken for a table. *)
DescribeTableLenient(r) ==
    /\ pc[r] = "describeTable"
    /\ \/ table # "absent" /\ Goto(r, "up") /\ UNCHANGED faults
       \/ table = "absent" /\ Goto(r, "createTable") /\ UNCHANGED faults
       \/ faults < MaxFaults /\ faults' = faults + 1 /\ Goto(r, "up")
    /\ UNCHANGED <<queue, table>>

(* A table that is still being created is one that exists. *)
DescribeTable(r) ==
    /\ pc[r] = "describeTable"
    /\ \/ table # "absent" /\ Goto(r, "up") /\ UNCHANGED faults
       \/ table = "absent" /\ Goto(r, "createTable") /\ UNCHANGED faults
       \/ Fails(r)
    /\ UNCHANGED <<queue, table>>

(* A table that another replica has created since is an error. *)
CreateTable(r) ==
    /\ pc[r] = "createTable"
    /\ \/ table = "absent" /\ table' = "creating" /\ Goto(r, "waiting") /\ UNCHANGED faults
       \/ table # "absent" /\ Goto(r, "down") /\ UNCHANGED <<table, faults>>
       \/ Fails(r) /\ (UNCHANGED table \/ (table = "absent" /\ table' = "creating"))
    /\ UNCHANGED queue

(* Mutant of WaitForTable: a result that the code has no step for. *)
WaitForTableDone(r) ==
    /\ pc[r] = "waiting"
    /\ table = "active" /\ Goto(r, "active")
    /\ UNCHANGED <<queue, table, faults>>

(* NewTableExistsWaiter: until the table is active, or two minutes have gone
   by without that. *)
WaitForTable(r) ==
    /\ pc[r] = "waiting"
    /\ \/ table = "active" /\ Goto(r, "up") /\ UNCHANGED faults
       \/ Fails(r)
    /\ UNCHANGED <<queue, table>>

-----------------------------------------------------------------------------
TableBecomesActive ==
    /\ table = "creating"
    /\ table' = "active"
    /\ UNCHANGED <<queue, pc, faults>>

Crash(r) ==
    /\ pc[r] # "down"
    /\ Fails(r)
    /\ UNCHANGED <<queue, table>>

InitNext(r) ==
    \/ Start(r) \/ GetQueueUrl(r) \/ CreateQueue(r)
    \/ DescribeTable(r) \/ CreateTable(r) \/ WaitForTable(r)

Next == TableBecomesActive \/ \E r \in Replicas : InitNext(r) \/ Crash(r)

Spec == Init /\ [][Next]_vars

(* A replica that is down is started again and runs on; a table being created
   becomes active. *)
Fairness == WF_vars(TableBecomesActive) /\ \A r \in Replicas : WF_vars(InitNext(r))

FairSpec == Spec /\ Fairness

-----------------------------------------------------------------------------
(* A replica that serves requests and ticks finds its queue and its table,
   whichever replica created them and whatever failed on the way. *)
UpMeansProvisioned ==
    \A r \in Replicas : pc[r] = "up" => queue /\ table # "absent"

(* The race to create the table settles: the replicas that lost it fail, are
   started again and come up, and so does the one whose wait timed out. *)
AllUpAtLast == <>[](table = "active" /\ \A r \in Replicas : pc[r] = "up")
=============================================================================
