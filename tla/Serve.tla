------------------------------- MODULE Serve -------------------------------
(***************************************************************************)
(* The life of cmd/serve.  When AppContext.Init has succeeded (Startup),   *)
(* main starts two goroutines under one context, the HTTP server and the   *)
(* event loop, waits until the context is cancelled, and waits for both.   *)
(* What the loop does with a message is in TaskService; here a tick is one *)
(* long poll that may be under way when the context is cancelled.  The     *)
(* HTTP requests that need a table are PUTs of a task bucket's schema.     *)
(*                                                                         *)
(* In this module pc[r] = "up" says that Init of the process succeeded.    *)
(* A crash of a process that ended is its container being started anew.    *)
(***************************************************************************)
EXTENDS Startup

CONSTANTS
    Buckets,      \* task bucket ids
    MaxErrors     \* BOUND: calls that fail after Init in one behaviour

ASSUME ErrorsAssumption == MaxErrors \in Nat

VARIABLES
    server,      \* server[r]: the goroutine "http-server"
    eloop,       \* eloop[r]: the goroutine "event-loop"
    cancelled,   \* cancelled[r]: process.Ctx is done
    ended,       \* ended[r]: whether and how main ended after Init
    errors,      \* calls that failed so far
    requests,    \* PUTs of a bucket that are being served
    stored,      \* the rows of task_buckets
    answered     \* history: buckets a PUT of which was answered 200

processVars == <<server, eloop, cancelled, ended>>
bucketVars == <<requests, stored, answered>>
serveVars == <<vars, processVars, errors, bucketVars>>

ServeTypeOK ==
    /\ TypeOK
    /\ server \in [Replicas -> {"none", "starting", "serving", "failed", "closed"}]
    /\ eloop \in [Replicas -> {"none", "ticking", "receiving", "returned", "failed"}]
    /\ cancelled \in [Replicas -> BOOLEAN]
    /\ ended \in [Replicas -> {"no", "exited", "panicked"}]
    /\ errors \in 0..MaxErrors
    /\ requests \subseteq [at : Replicas, bucket : Buckets]
    /\ stored \subseteq Buckets
    /\ answered \subseteq Buckets

(* The rows of an earlier deployment are there when its table is. *)
ServeInit ==
    /\ Init
    /\ server = [r \in Replicas |-> "none"]
    /\ eloop = [r \in Replicas |-> "none"]
    /\ cancelled = [r \in Replicas |-> FALSE]
    /\ ended = [r \in Replicas |-> "no"]
    /\ errors = 0
    /\ requests = {}
    /\ stored = {}
    /\ answered = {}

(* One more call fails. *)
CallFails == errors < MaxErrors /\ errors' = errors + 1

Running(r) == pc[r] = "up" /\ ended[r] = "no"

-----------------------------------------------------------------------------
(* main *)

(* A step of Init; the last one is followed by the two StartGoroutine. *)
Boot(r) ==
    /\ InitNext(r)
    /\ IF pc'[r] = "up"
       THEN /\ server' = [server EXCEPT ![r] = "starting"]
            /\ eloop' = [eloop EXCEPT ![r] = "ticking"]
            /\ UNCHANGED <<cancelled, ended>>
       ELSE UNCHANGED processVars
    /\ UNCHANGED <<errors, bucketVars>>

(* The process receives a signal. *)
Signal(r) ==
    /\ Running(r)
    /\ cancelled' = [cancelled EXCEPT ![r] = TRUE]
    /\ UNCHANGED <<vars, server, eloop, ended, errors, bucketVars>>

(* main ends, and what is left of the requests with it. *)
Ends(r, how) ==
    /\ ended' = [ended EXCEPT ![r] = how]
    /\ requests' = {q \in requests : q.at # r}
    /\ UNCHANGED <<stored, answered>>

(* Wait and Shutdown: the context is done and both goroutines have returned. *)
Exit(r) ==
    /\ Running(r) /\ cancelled[r]
    /\ server[r] = "closed" /\ eloop[r] \in {"returned", "failed"}
    /\ Ends(r, "exited")
    /\ UNCHANGED <<vars, server, eloop, cancelled, errors>>

Killed(r) ==
    /\ Crash(r)
    /\ server' = [server EXCEPT ![r] = "none"]
    /\ eloop' = [eloop EXCEPT ![r] = "none"]
    /\ cancelled' = [cancelled EXCEPT ![r] = FALSE]
    /\ Ends(r, "no")
    /\ UNCHANGED errors

-----------------------------------------------------------------------------
(* The goroutine "http-server" *)

(* http.Run listens, or fails; its error is logged and the goroutine goes on. *)
HttpRun(r) ==
    /\ Running(r) /\ server[r] = "starting"
    /\ \/ server' = [server EXCEPT ![r] = "serving"] /\ UNCHANGED errors
       \/ server' = [server EXCEPT ![r] = "failed"] /\ CallFails
    /\ UNCHANGED <<vars, eloop, cancelled, ended, bucketVars>>

(* The context is done: the deferred cleanup runs.  That of a server that did
   not start is nil, and calling it panics. *)
Cleanup(r) ==
    /\ Running(r) /\ cancelled[r]
    /\ \/ /\ server[r] = "serving"
          /\ server' = [server EXCEPT ![r] = "closed"]
          /\ UNCHANGED <<ended, bucketVars>>
       \/ /\ server[r] = "failed"
          /\ Ends(r, "panicked")
          /\ UNCHANGED server
    /\ UNCHANGED <<vars, eloop, cancelled, errors>>

-----------------------------------------------------------------------------
(* The goroutine "event-loop" *)

(* Mutant of Select: the loop does not look at the context. *)
SelectBlind(r) ==
    /\ Running(r) /\ eloop[r] = "ticking"
    /\ eloop' = [eloop EXCEPT ![r] = "receiving"]
    /\ UNCHANGED <<vars, server, cancelled, ended, errors, bucketVars>>

(* The select of the loop prefers a context that is done to another tick. *)
Select(r) ==
    /\ Running(r) /\ eloop[r] = "ticking"
    /\ eloop' = [eloop EXCEPT ![r] = IF cancelled[r] THEN "returned" ELSE "receiving"]
    /\ UNCHANGED <<vars, server, cancelled, ended, errors, bucketVars>>

(* The loop ends with the error; what processfx makes of it is its own affair. *)
LoopFails(r) ==
    /\ eloop' = [eloop EXCEPT ![r] = "failed"]
    /\ cancelled' \in {cancelled, [cancelled EXCEPT ![r] = TRUE]}

(* The long poll ends with what it found, which is worked off; or because the
   context is done, which ReceiveMessages takes for an empty answer; or with an
   error, of the call or of a body, that Tick returns.  A record that was found
   may end the process instead: Tick calls the resource service, which is nil
   where Init makes none, and a body null is a nil task.  Nothing recovers. *)
Receive(r) ==
    /\ Running(r) /\ eloop[r] = "receiving"
    /\ \/ eloop' = [eloop EXCEPT ![r] = "ticking"] /\ UNCHANGED <<cancelled, errors, ended, bucketVars>>
       \/ LoopFails(r) /\ CallFails /\ UNCHANGED <<ended, bucketVars>>
       \/ Ends(r, "panicked") /\ UNCHANGED <<eloop, cancelled, errors>>
    /\ UNCHANGED <<vars, server>>

-----------------------------------------------------------------------------
(* PUT /api/{bucket}/schema *)

RequestBucket(r, b) ==
    /\ Running(r) /\ server[r] = "serving"
    /\ requests' = requests \cup {[at |-> r, bucket |-> b]}
    /\ UNCHANGED <<vars, processVars, errors, stored, answered>>

(* The put of the row: DynamoDB refuses one into a table that is still being
   created, and one that reports an error may have been applied. *)
UpsertTaskBucket(b) ==
    /\ table = "active"
    /\ stored' = stored \cup {b}
    /\ UNCHANGED errors

UpsertTaskBucketFails(b) ==
    \/ table # "active" /\ UNCHANGED <<stored, errors>>
    \/ /\ table = "active" /\ CallFails
       /\ stored' \in {stored, stored \cup {b}}

(* Mutant of UpdateTaskBucket: the error is logged and the answer is 200. *)
UpdateTaskBucketUnchecked(q) ==
    /\ requests' = requests \ {q}
    /\ answered' = answered \cup {q.bucket}
    /\ UpsertTaskBucket(q.bucket) \/ UpsertTaskBucketFails(q.bucket)
    /\ UNCHANGED <<vars, processVars>>

(* The answer is 200 when the row was put, and 500 when not. *)
UpdateTaskBucket(q) ==
    /\ requests' = requests \ {q}
    /\ \/ UpsertTaskBucket(q.bucket) /\ answered' = answered \cup {q.bucket}
       \/ UpsertTaskBucketFails(q.bucket) /\ UNCHANGED answered
    /\ UNCHANGED <<vars, processVars>>

-----------------------------------------------------------------------------
HttpNext(r) == HttpRun(r) \/ Cleanup(r)

LoopNext(r) == Select(r) \/ Receive(r)

ServeNext ==
    \/ TableBecomesActive /\ UNCHANGED <<processVars, errors, bucketVars>>
    \/ \E r \in Replicas :
          \/ Boot(r) \/ Signal(r) \/ Exit(r) \/ Killed(r)
          \/ HttpNext(r) \/ LoopNext(r)
          \/ \E b \in Buckets : RequestBucket(r, b)
    \/ \E q \in requests : UpdateTaskBucket(q)

ServeSpec == ServeInit /\ [][ServeNext]_serveVars

(* Both goroutines and main go on as long as they can; a long poll ends after
   WaitTimeSeconds; the rest is the fairness of Startup. *)
ServeFairSpec ==
    /\ ServeSpec
    /\ WF_serveVars(TableBecomesActive /\ UNCHANGED <<processVars, errors, bucketVars>>)
    /\ \A r \in Replicas : /\ WF_serveVars(Boot(r))
                           /\ WF_serveVars(HttpNext(r))
                           /\ WF_serveVars(LoopNext(r))
                           /\ WF_serveVars(Exit(r))

-----------------------------------------------------------------------------
(* A PUT that was answered 200 has its row, in a table that can be used: a
   replica that came up while another was still creating the table, and took
   that for good, refuses the PUTs it cannot store. *)
AnsweredBucketStored == answered # {} => answered \subseteq stored /\ table = "active"

(* A process that is told to stop does, by the exit or by a panic: the loop sees
   the context done, the HTTP goroutine runs its cleanup, and main has nobody
   left to wait for. *)
ShutdownEnds ==
    \A r \in Replicas : cancelled[r] ~> ended[r] # "no" \/ ~cancelled[r]
=============================================================================
