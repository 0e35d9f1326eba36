---------------------------- MODULE SlotAccount ----------------------------
(***************************************************************************)
(* What became of every slot and token that ResourceDispatch counts.  The  *)
(* steps are its own; history variables add where the counters of a row    *)
(* and the batches that the provider really holds part: a batch whose      *)
(* answer was lost exists, and the rollback gives its slot back; a put     *)
(* that reports an error and a crash leave a slot with no batch in it; a   *)
(* start-up that resets a row forgets what it counted.                     *)
(***************************************************************************)
EXTENDS ResourceLedger

VARIABLES
    placed,     \* placed[k]: the batches k's provider holds, answered or not
    unheard,    \* the calls that roll back although their batch exists
    freed,      \* freed[k]: slots given back although their batch exists
    forgotten,  \* forgotten[k]: slots that a start-up reset
    leaked      \* leaked[k]: slots taken with no batch and no call for them

account == <<placed, unheard, freed, forgotten, leaked>>

(* Slots are accounted with their tokens, as the rows count them. *)
Nothing == [active |-> 0, load |-> 0]

Slot(t) == [active |-> 1, load |-> Tokens[t]]

Plus(a, b) == [active |-> a.active + b.active, load |-> a.load + b.load]

Counters(k) == [active |-> Count(k), load |-> Load(k)]

AccountInit ==
    /\ Init
    /\ placed = [k \in Resources |-> Nothing]
    /\ unheard = {}
    /\ freed = [k \in Resources |-> Nothing]
    /\ forgotten = [k \in Resources |-> Nothing]
    /\ leaked = [k \in Resources |-> Nothing]

(* The slot of r's call, entered in one of the accounts of its resource. *)
Entered(f, r, if) ==
    IF if THEN [f EXCEPT ![key[r]] = Plus(@, Slot(task[r]))] ELSE f

-----------------------------------------------------------------------------
(* The put of the initial state, applied over a row that counts something. *)
InitializeStateNoted(r) ==
    /\ InitializeState(r)
    /\ forgotten' = IF table' = table THEN forgotten
                    ELSE [forgotten EXCEPT ![key[r]] = Plus(@, Counters(key[r]))]
    /\ UNCHANGED <<placed, unheard, freed, leaked>>

(* The put of a reservation that was applied and reports an error: the call
   ends, its slot stays. *)
WriteStateNoted(r) ==
    /\ WriteState(r)
    /\ leaked' = Entered(leaked, r, pc'[r] = "failed" /\ table' # table)
    /\ UNCHANGED <<placed, unheard, freed, forgotten>>

(* CreateBatch made its batch, and the caller hears of it or not. *)
CreateBatchNoted(r) ==
    LET made == created' # created
    IN  /\ CreateBatch(r)
        /\ placed' = Entered(placed, r, made)
        /\ unheard' = IF made /\ pc'[r] = "rollingback" THEN unheard \cup {r} ELSE unheard
        /\ UNCHANGED <<freed, forgotten, leaked>>

(* A rollback that is applied takes back the slot of a batch, if there is one;
   one whose put fails unapplied leaves a slot, unless a batch is in it. *)
RollBackNoted(r) ==
    LET applied == table' # table
    IN  /\ RollBack(r)
        /\ freed' = Entered(freed, r, applied /\ r \in unheard)
        /\ leaked' = Entered(leaked, r, "put" \in Faults /\ ~applied /\ r \notin unheard)
        /\ unheard' = unheard \ {r}
        /\ UNCHANGED <<placed, forgotten>>

(* A crash between the reservation and its end. *)
CrashNoted(r) ==
    /\ Crash(r)
    /\ leaked' = Entered(leaked, r, pc[r] \in {"creating", "rollingback"} /\ r \notin unheard)
    /\ unheard' = unheard \ {r}
    /\ UNCHANGED <<placed, freed, forgotten>>

(* The steps that move no slot. *)
Aside(r) ==
    /\ \/ StartInit(r) \/ AddResource(r) \/ \E t \in Tasks : TryProcessTask(r, t)
       \/ CheckResource(r) \/ ReadState(r) \/ Return(r)
    /\ UNCHANGED account

AccountNext ==
    \E r \in Replicas :
        \/ InitializeStateNoted(r) \/ WriteStateNoted(r) \/ CreateBatchNoted(r)
        \/ RollBackNoted(r) \/ CrashNoted(r) \/ Aside(r)

AccountSpec == AccountInit /\ [][AccountNext]_<<vars, account>>

-----------------------------------------------------------------------------
(* The row of a single replica counts a slot, with its tokens, for each batch
   the provider holds, for the call in hand and for each leak, and lacks only
   the slots that a rollback gave back after a lost answer and those a start-up
   reset.  So a count is too high only by a put that fails or a crash, too low
   only by a lost answer or a reset, and whatever sequence of calls, refusals,
   failures and restarts led there, by exactly the slots of those. *)
SlotsAccounted ==
    \A k \in Resources :
        LET open  == Reservations(k) \ unheard
            seen  == Plus(Plus(Counters(k), freed[k]), forgotten[k])
            spent == Plus(placed[k], leaked[k])
        IN  /\ open = {} => seen = spent
            /\ \A r \in open : seen = Plus(spent, Slot(task[r]))
=============================================================================
