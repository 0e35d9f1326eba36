------------------------- MODULE SlotAccountProofs -------------------------
(***************************************************************************)
(* Proof of the account of a single replica, for any resources, tasks,     *)
(* limits and bound on the calls, and any faults but stale reads.          *)
(***************************************************************************)
EXTENDS SlotAccount, ResourceDispatchProofs

Sums == [active : Int, load : Int]

AccountTypes ==
    /\ placed \in [Resources -> Sums]
    /\ freed \in [Resources -> Sums]
    /\ forgotten \in [Resources -> Sums]
    /\ leaked \in [Resources -> Sums]

UnheardRollBack == \A r \in unheard : r \in Replicas /\ pc[r] = "rollingback"

(* The account of k in numbers, as the call of r has a slot of k in hand. *)
InHand(r, k) ==
    /\ pc[r] \in {"creating", "rollingback"}
    /\ key[r] = k
    /\ r \notin unheard

Even(r, k) ==
    /\ Count(k) + freed[k].active + forgotten[k].active =
           placed[k].active + leaked[k].active + (IF InHand(r, k) THEN 1 ELSE 0)
    /\ Load(k) + freed[k].load + forgotten[k].load =
           placed[k].load + leaked[k].load + (IF InHand(r, k) THEN Tokens[task[r]] ELSE 0)

AccountInv ==
    /\ AccountTypes
    /\ UnheardRollBack
    /\ \A r \in Replicas, k \in Resources : Even(r, k)

LEMMA PlusFields ==
    ASSUME NEW a \in Sums, NEW b \in Sums
    PROVE  /\ Plus(a, b) \in Sums
           /\ Plus(a, b).active = a.active + b.active
           /\ Plus(a, b).load = a.load + b.load
BY DEF Sums, Plus

LEMMA SlotFields ==
    ASSUME NEW t \in Tasks
    PROVE  Slot(t) \in Sums /\ Slot(t).active = 1 /\ Slot(t).load = Tokens[t]
BY LimitsAssumption DEF Slot, Sums

LEMMA CountersFields ==
    ASSUME TypeOK, NEW k \in Resources
    PROVE  /\ Counters(k) \in Sums
           /\ Counters(k).active = Count(k) /\ Counters(k).load = Load(k)
           /\ Count(k) \in Int /\ Load(k) \in Int
<1>1. Count(k) \in Int /\ Load(k) \in Int
      BY DEF TypeOK, Count, Load, Row
<1> QED BY <1>1 DEF Counters, Sums

(* An entry adds one slot to the account of the call's resource. *)
LEMMA EnteredFields ==
    ASSUME NEW f \in [Resources -> Sums], NEW r, NEW if \in BOOLEAN,
           if => key[r] \in Resources /\ task[r] \in Tasks
    PROVE  /\ Entered(f, r, if) \in [Resources -> Sums]
           /\ \A k \in Resources :
                 /\ Entered(f, r, if)[k].active = f[k].active + (IF if /\ key[r] = k THEN 1 ELSE 0)
                 /\ Entered(f, r, if)[k].load =
                        f[k].load + (IF if /\ key[r] = k THEN Tokens[task[r]] ELSE 0)
<1>1. \A k \in Resources : f[k].active \in Int /\ f[k].load \in Int
      BY DEF Sums
<1>2. CASE ~if
      BY <1>1, <1>2 DEF Entered
<1>3. CASE if
      <2> DEFINE n == Plus(f[key[r]], Slot(task[r]))
      <2>1. key[r] \in Resources /\ task[r] \in Tasks
            BY <1>3
      <2>2. /\ n \in Sums /\ n.active = f[key[r]].active + 1
            /\ n.load = f[key[r]].load + Tokens[task[r]]
            BY <2>1, PlusFields, SlotFields
      <2>3. Entered(f, r, if) = [f EXCEPT ![key[r]] = n]
            BY <1>3 DEF Entered
      <2> HIDE DEF n, Sums
      <2>4. Entered(f, r, if) \in [Resources -> Sums]
            BY <2>1, <2>2, <2>3
      <2>5. \A k \in Resources : Entered(f, r, if)[k] = IF key[r] = k THEN n ELSE f[k]
            BY <2>1, <2>3
      <2>6. ASSUME NEW k \in Resources
            PROVE  /\ Entered(f, r, if)[k].active =
                          f[k].active + (IF if /\ key[r] = k THEN 1 ELSE 0)
                   /\ Entered(f, r, if)[k].load =
                          f[k].load + (IF if /\ key[r] = k THEN Tokens[task[r]] ELSE 0)
            <3>1. CASE key[r] = k
                  BY <1>3, <2>2, <2>5, <3>1
            <3>2. CASE key[r] # k
                  BY <1>1, <2>5, <3>2
            <3> QED BY <3>1, <3>2
      <2> QED BY <2>4, <2>6
<1> QED BY <1>2, <1>3

LEMMA InitAccountInv == AccountInit => AccountInv
<1> SUFFICES ASSUME AccountInit
             PROVE  AccountInv
    OBVIOUS
<1>1. Nothing \in Sums /\ Nothing.active = 0 /\ Nothing.load = 0
      BY DEF Nothing, Sums
<1>2. \A k \in Resources : Count(k) = 0 /\ Load(k) = 0
      BY NullsAssumption DEF AccountInit, Init, Count, Load, InitialRow
<1>3. \A r \in Replicas, k \in Resources : ~InHand(r, k)
      BY DEF AccountInit, Init, InHand
<1>4. \A k \in Resources : /\ placed[k] = Nothing /\ freed[k] = Nothing
                          /\ forgotten[k] = Nothing /\ leaked[k] = Nothing
      BY DEF AccountInit
<1>5. \A r \in Replicas, k \in Resources : Even(r, k)
      <2> HIDE DEF Nothing
      <2> QED BY <1>1, <1>2, <1>3, <1>4 DEF Even
<1>6. AccountTypes /\ UnheardRollBack
      <2> HIDE DEF Nothing
      <2> QED BY <1>1 DEF AccountInit, AccountTypes, UnheardRollBack
<1> QED BY <1>5, <1>6 DEF AccountInv

(* A put of a row moves the counters of that row only. *)
LEMMA PutCounters ==
    ASSUME TypeOK, NEW i \in Resources, NEW row \in Row, Put(i, row), NEW k \in Resources
    PROVE  /\ Count(k)' = IF i = k THEN row.active ELSE Count(k)
           /\ Load(k)' = IF i = k THEN row.load ELSE Load(k)
BY NullsAssumption DEF TypeOK, Put, Count, Load

LEMMA StepAccountInv ==
    ASSUME Solo
    PROVE  KnownInv /\ AccountInv /\ [AccountNext]_<<vars, account>> => AccountInv'
<1> SUFFICES ASSUME KnownInv, AccountInv, [AccountNext]_<<vars, account>>,
                    NEW r, Replicas = {r}
             PROVE  /\ AccountTypes' /\ UnheardRollBack'
                    /\ \A k \in Resources : Even(r, k)'
    BY DEF Solo, AccountInv
<1> USE NullsAssumption, LimitsAssumption
<1>a. /\ TypeOK /\ CallOK /\ RowKnown
      /\ AccountTypes /\ UnheardRollBack
      /\ r \in Replicas /\ \A k \in Resources : Even(r, k)
      BY DEF KnownInv, TurnsInv, IInv, AccountInv
<1>b. \A k \in Resources :
          /\ Count(k) \in Int /\ Load(k) \in Int
          /\ placed[k].active \in Int /\ placed[k].load \in Int
          /\ freed[k].active \in Int /\ freed[k].load \in Int
          /\ forgotten[k].active \in Int /\ forgotten[k].load \in Int
          /\ leaked[k].active \in Int /\ leaked[k].load \in Int
      BY <1>a, CountersFields DEF AccountTypes, Sums
<1>c. pc[r] # "rollingback" => unheard = {}
      BY <1>a DEF UnheardRollBack
<1>d. unheard \subseteq {r}
      BY DEF AccountInv, UnheardRollBack
<1>1. CASE UNCHANGED <<vars, account>>
      <2>1. AccountTypes' /\ UnheardRollBack'
            BY <1>1, <1>a DEF account, vars, callVars, AccountTypes, UnheardRollBack
      <2> QED BY <1>1, <1>a, <2>1 DEF account, vars, tableVars, callVars, Even, InHand, Count, Load
<1>2. CASE Aside(r)
      <2>1. /\ UNCHANGED <<table, placed, unheard, freed, forgotten, leaked>>
            /\ pc[r] \notin {"creating", "rollingback"}
            /\ pc'[r] \notin {"creating", "rollingback"}
            BY <1>2, <1>a DEF Aside, account, StartInit, AddResource, TryProcessTask,
               CheckResource, ReadState, Return, Adding, Finding, Die, Goto, tableVars, TypeOK
      <2>2. AccountTypes' /\ UnheardRollBack'
            BY <1>a, <1>c, <2>1 DEF AccountTypes, UnheardRollBack
      <2>3. ASSUME NEW k \in Resources
            PROVE  Even(r, k)'
            <3>1. ~InHand(r, k) /\ ~InHand(r, k)' /\ Count(k)' = Count(k) /\ Load(k)' = Load(k)
                  BY <2>1 DEF InHand, Count, Load
            <3> QED BY <1>a, <2>1, <3>1 DEF Even
      <2> QED BY <2>2, <2>3
<1>3. CASE InitializeStateNoted(r)
      <2>1. /\ UNCHANGED <<placed, unheard, freed, leaked>> /\ unheard = {}
            /\ key[r] \in Resources
            /\ pc[r] = "initPut" /\ pc'[r] \notin {"creating", "rollingback"}
            /\ Put(key[r], InitialRow) \/ UNCHANGED table
            BY <1>3, <1>a, <1>c DEF InitializeStateNoted, InitializeState, PutFails, CallOK,
               Adding, Die, Goto, tableVars, TypeOK
      <2>2. UnheardRollBack'
            BY <2>1 DEF UnheardRollBack
      <2> DEFINE n == Plus(forgotten[key[r]], Counters(key[r]))
      <2>3. /\ n \in Sums
            /\ n.active = forgotten[key[r]].active + Count(key[r])
            /\ n.load = forgotten[key[r]].load + Load(key[r])
            BY <1>a, <2>1, PlusFields, CountersFields DEF AccountTypes
      <2>4. \A k \in Resources : ~InHand(r, k) /\ ~InHand(r, k)'
            BY <2>1 DEF InHand
      <2>5. CASE UNCHANGED table
            <3>1. UNCHANGED forgotten
                  BY <1>3, <2>5 DEF InitializeStateNoted
            <3>2. \A k \in Resources : Count(k)' = Count(k) /\ Load(k)' = Load(k)
                  BY <2>5 DEF Count, Load
            <3> QED BY <1>a, <2>1, <2>2, <2>4, <3>1, <3>2 DEF AccountTypes, Even
      <2>6. CASE table' # table /\ Put(key[r], InitialRow)
            <3>1. forgotten' = [forgotten EXCEPT ![key[r]] = n]
                  BY <1>3, <2>6 DEF InitializeStateNoted
            <3>2. \A k \in Resources :
                      /\ Count(k)' = IF key[r] = k THEN 0 ELSE Count(k)
                      /\ Load(k)' = IF key[r] = k THEN 0 ELSE Load(k)
                  <4>1. InitialRow.active = 0 /\ InitialRow.load = 0 /\ InitialRow \in Row
                        BY DEF InitialRow, Row
                  <4> QED BY <1>a, <2>1, <2>6, <4>1, PutCounters
            <3> HIDE DEF n
            <3>3. AccountTypes'
                  BY <1>a, <2>1, <2>3, <3>1 DEF AccountTypes
            <3>4. ASSUME NEW k \in Resources
                  PROVE  Even(r, k)'
                  <4>1. forgotten'[k] = IF key[r] = k THEN n ELSE forgotten[k]
                        BY <1>a, <2>1, <3>1 DEF AccountTypes
                  <4>2. CASE key[r] = k
                        BY <1>a, <1>b, <2>1, <2>3, <2>4, <3>2, <4>1, <4>2 DEF Even
                  <4>3. CASE key[r] # k
                        BY <1>a, <2>1, <2>4, <3>2, <4>1, <4>3 DEF Even
                  <4> QED BY <4>2, <4>3
            <3> QED BY <2>2, <3>3, <3>4
      <2> QED BY <2>1, <2>5, <2>6
<1> DEFINE t == task[r]
           n == Tokens[task[r]]
<1>4. CASE WriteStateNoted(r)
      <2> DEFINE lost == pc'[r] = "failed" /\ table' # table
      <2>1. /\ UNCHANGED <<placed, unheard, freed, forgotten, key, task>> /\ unheard = {}
            /\ key[r] \in Resources /\ t \in Tasks /\ n \in Int
            /\ pc[r] = "writing" /\ pc'[r] \in {"creating", "failed"}
            /\ Put(key[r], snap[r]) \/ (UNCHANGED table /\ pc'[r] = "failed")
            /\ leaked' = Entered(leaked, r, lost)
            BY <1>4, <1>a, <1>c DEF WriteStateNoted, WriteState, PutFails, CallOK,
               Goto, tableVars, TypeOK
      <2>2. UnheardRollBack'
            BY <2>1 DEF UnheardRollBack
      <2>3. /\ AccountTypes'
            /\ \A k \in Resources :
                  /\ leaked'[k].active = leaked[k].active + (IF lost /\ key[r] = k THEN 1 ELSE 0)
                  /\ leaked'[k].load = leaked[k].load + (IF lost /\ key[r] = k THEN n ELSE 0)
            <3>1. lost \in BOOLEAN
                  OBVIOUS
            <3> HIDE DEF lost
            <3> QED BY <1>a, <2>1, <3>1, EnteredFields DEF AccountTypes
      <2>4. \A k \in Resources :
                /\ ~InHand(r, k)
                /\ InHand(r, k)' <=> pc'[r] = "creating" /\ key[r] = k
                /\ task'[r] = task[r]
            BY <2>1 DEF InHand
      <2>5. CASE UNCHANGED table /\ pc'[r] = "failed"
            <3>1. \A k \in Resources : Count(k)' = Count(k) /\ Load(k)' = Load(k)
                  BY <2>5 DEF Count, Load
            <3>2. ~lost
                  BY <2>5
            <3> HIDE DEF lost, n
            <3> QED BY <1>a, <1>b, <2>1, <2>2, <2>3, <2>4, <2>5, <3>1, <3>2 DEF Even
      <2>6. CASE Put(key[r], snap[r])
            <3>1. /\ table[key[r]] \in Row /\ snap[r] \in Row
                  /\ snap[r] = Reserved(table[key[r]], t)
                  BY <1>a, <2>1 DEF RowKnown, CallOK, TypeOK
            <3>2. /\ Count(key[r]) = table[key[r]].active /\ Load(key[r]) = table[key[r]].load
                  /\ snap[r].active = Count(key[r]) + 1 /\ snap[r].load = Load(key[r]) + n
                  BY <2>1, <3>1, RowFields DEF Count, Load, Reserved
            <3>3. \A k \in Resources :
                      /\ Count(k)' = IF key[r] = k THEN Count(k) + 1 ELSE Count(k)
                      /\ Load(k)' = IF key[r] = k THEN Load(k) + n ELSE Load(k)
                  BY <1>a, <2>1, <2>6, <3>1, <3>2, PutCounters
            <3>4. table' # table
                  BY <1>b, <2>1, <3>3 DEF Count
            <3>5. lost <=> pc'[r] # "creating"
                  BY <2>1, <3>4
            <3> HIDE DEF lost, n
            <3>6. ASSUME NEW k \in Resources
                  PROVE  Even(r, k)'
                  <4>1. CASE key[r] = k
                        BY <1>a, <1>b, <2>1, <2>3, <2>4, <3>3, <3>5, <4>1 DEF Even, n
                  <4>2. CASE key[r] # k
                        BY <1>a, <1>b, <2>1, <2>3, <2>4, <3>3, <3>5, <4>2 DEF Even
                  <4> QED BY <4>1, <4>2
            <3> QED BY <2>2, <2>3, <3>6
      <2> QED BY <2>1, <2>5, <2>6
<1>5. CASE CreateBatchNoted(r)
      <2> DEFINE made == created' # created
      <2>1. /\ UNCHANGED <<table, freed, forgotten, leaked, key, task>> /\ unheard = {}
            /\ key[r] \in Resources /\ t \in Tasks /\ n \in Int
            /\ pc[r] = "creating" /\ pc'[r] \in {"succeeded", "rollingback"}
            /\ pc'[r] = "succeeded" => created' = [created EXCEPT ![t] = @ + 1]
            /\ placed' = Entered(placed, r, made)
            /\ unheard' = IF made /\ pc'[r] = "rollingback" THEN {r} ELSE {}
            BY <1>5, <1>a, <1>c DEF CreateBatchNoted, CreateBatch, CallOK, Goto, tableVars, TypeOK
      <2>2. pc'[r] = "succeeded" => made
            BY <1>a, <2>1 DEF TypeOK
      <2>3. UnheardRollBack'
            BY <2>1 DEF UnheardRollBack
      <2>4. /\ AccountTypes'
            /\ \A k \in Resources :
                  /\ placed'[k].active = placed[k].active + (IF made /\ key[r] = k THEN 1 ELSE 0)
                  /\ placed'[k].load = placed[k].load + (IF made /\ key[r] = k THEN n ELSE 0)
            <3>1. made \in BOOLEAN
                  OBVIOUS
            <3> HIDE DEF made
            <3> QED BY <1>a, <2>1, <3>1, EnteredFields DEF AccountTypes
      <2>5. \A k \in Resources :
                /\ InHand(r, k) <=> key[r] = k
                /\ InHand(r, k)' <=> ~made /\ key[r] = k
                /\ task'[r] = task[r]
                /\ Count(k)' = Count(k) /\ Load(k)' = Load(k)
            BY <2>1, <2>2 DEF InHand, Count, Load
      <2> HIDE DEF made, n
      <2>6. ASSUME NEW k \in Resources
            PROVE  Even(r, k)'
            <3>1. CASE key[r] = k
                  BY <1>a, <1>b, <2>1, <2>4, <2>5, <3>1 DEF Even, n
            <3>2. CASE key[r] # k
                  BY <1>a, <1>b, <2>1, <2>4, <2>5, <3>2 DEF Even
            <3> QED BY <3>1, <3>2
      <2> QED BY <2>3, <2>4, <2>6
<1>6. CASE RollBackNoted(r)
      <2> DEFINE row == Released(snap[r], task[r])
                 out == table' # table /\ r \in unheard
                 lost == "put" \in Faults /\ ~(table' # table) /\ r \notin unheard
      <2>1. /\ UNCHANGED <<placed, forgotten, key, task>> /\ unheard' = {}
            /\ key[r] \in Resources /\ t \in Tasks /\ n \in Int
            /\ pc[r] = "rollingback" /\ pc'[r] = "failed"
            /\ snap[r] \in Row /\ table[key[r]] = snap[r]
            /\ Put(key[r], row) \/ ("put" \in Faults /\ UNCHANGED table)
            /\ freed' = Entered(freed, r, out)
            /\ leaked' = Entered(leaked, r, lost)
            BY <1>6, <1>a, <1>d DEF RollBackNoted, RollBack, PutFails, CallOK, RowKnown,
               Goto, tableVars, TypeOK
      <2>2. UnheardRollBack'
            BY <2>1 DEF UnheardRollBack
      <2>3. /\ freed' \in [Resources -> Sums] /\ leaked' \in [Resources -> Sums]
            /\ \A k \in Resources :
                  /\ freed'[k].active = freed[k].active + (IF out /\ key[r] = k THEN 1 ELSE 0)
                  /\ freed'[k].load = freed[k].load + (IF out /\ key[r] = k THEN n ELSE 0)
                  /\ leaked'[k].active = leaked[k].active + (IF lost /\ key[r] = k THEN 1 ELSE 0)
                  /\ leaked'[k].load = leaked[k].load + (IF lost /\ key[r] = k THEN n ELSE 0)
            <3>1. out \in BOOLEAN /\ lost \in BOOLEAN
                  OBVIOUS
            <3> HIDE DEF out, lost
            <3> QED BY <1>a, <2>1, <3>1, EnteredFields DEF AccountTypes
      <2>4. AccountTypes'
            BY <1>a, <2>1, <2>3 DEF AccountTypes
      <2>5. \A k \in Resources :
                /\ InHand(r, k) <=> r \notin unheard /\ key[r] = k
                /\ ~InHand(r, k)'
            BY <2>1 DEF InHand
      <2>6. CASE Put(key[r], row)
            <3>1. /\ row \in Row
                  /\ row.active = Count(key[r]) - 1 /\ row.load = Load(key[r]) - n
                  BY <2>1, RowFields DEF Released, Count, Load
            <3>2. \A k \in Resources :
                      /\ Count(k)' = IF key[r] = k THEN Count(k) - 1 ELSE Count(k)
                      /\ Load(k)' = IF key[r] = k THEN Load(k) - n ELSE Load(k)
                  <4> HIDE DEF row
                  <4> QED BY <1>a, <2>1, <2>6, <3>1, PutCounters
            <3>3. table' # table
                  BY <1>b, <2>1, <3>2 DEF Count
            <3>4. (out <=> r \in unheard) /\ ~lost
                  BY <3>3
            <3> HIDE DEF out, lost, row, n
            <3>5. ASSUME NEW k \in Resources
                  PROVE  Even(r, k)'
                  <4>1. CASE key[r] = k
                        <5>1. /\ Count(k) + freed[k].active + forgotten[k].active =
                                     placed[k].active + leaked[k].active
                                     + (IF r \in unheard THEN 0 ELSE 1)
                              /\ Load(k) + freed[k].load + forgotten[k].load =
                                     placed[k].load + leaked[k].load
                                     + (IF r \in unheard THEN 0 ELSE n)
                              BY <1>a, <2>5, <4>1 DEF Even, n
                        <5>2. /\ Count(k)' = Count(k) - 1 /\ Load(k)' = Load(k) - n
                              /\ freed'[k].active = freed[k].active + (IF r \in unheard THEN 1 ELSE 0)
                              /\ freed'[k].load = freed[k].load + (IF r \in unheard THEN n ELSE 0)
                              /\ leaked'[k].active = leaked[k].active + 0
                              /\ leaked'[k].load = leaked[k].load + 0
                              /\ ~InHand(r, k)'
                              BY <2>3, <2>5, <3>2, <3>4, <4>1
                        <5> HIDE DEF InHand
                        <5> QED BY <1>b, <2>1, <5>1, <5>2 DEF Even
                  <4>2. CASE key[r] # k
                        BY <1>a, <1>b, <2>1, <2>3, <2>5, <3>2, <3>4, <4>2 DEF Even
                  <4> QED BY <4>1, <4>2
            <3> QED BY <2>2, <2>4, <3>5
      <2>7. CASE "put" \in Faults /\ UNCHANGED table
            <3>1. \A k \in Resources : Count(k)' = Count(k) /\ Load(k)' = Load(k)
                  BY <2>7 DEF Count, Load
            <3>2. ~out /\ (lost <=> r \notin unheard)
                  BY <2>7
            <3> HIDE DEF out, lost, row, n
            <3>3. ASSUME NEW k \in Resources
                  PROVE  Even(r, k)'
                  <4>1. CASE key[r] = k
                        BY <1>a, <1>b, <2>1, <2>3, <2>5, <3>1, <3>2, <4>1 DEF Even, n
                  <4>2. CASE key[r] # k
                        BY <1>a, <1>b, <2>1, <2>3, <2>5, <3>1, <3>2, <4>2 DEF Even
                  <4> QED BY <4>1, <4>2
            <3> QED BY <2>2, <2>4, <3>3
      <2> QED BY <2>1, <2>6, <2>7
<1>7. CASE CrashNoted(r)
      <2> DEFINE lost == pc[r] \in {"creating", "rollingback"} /\ r \notin unheard
      <2>1. /\ UNCHANGED <<table, placed, freed, forgotten>> /\ unheard' = {}
            /\ pc'[r] = "down"
            /\ lost => key[r] \in Resources /\ t \in Tasks
            /\ leaked' = Entered(leaked, r, lost)
            BY <1>7, <1>a, <1>d DEF CrashNoted, Crash, CallOK, Die, Goto, tableVars, TypeOK
      <2>2. UnheardRollBack'
            BY <2>1 DEF UnheardRollBack
      <2>3. /\ AccountTypes'
            /\ \A k \in Resources :
                  /\ leaked'[k].active = leaked[k].active + (IF lost /\ key[r] = k THEN 1 ELSE 0)
                  /\ leaked'[k].load = leaked[k].load + (IF lost /\ key[r] = k THEN n ELSE 0)
            <3>1. lost \in BOOLEAN
                  OBVIOUS
            <3> HIDE DEF lost
            <3> QED BY <1>a, <2>1, <3>1, EnteredFields DEF AccountTypes
      <2>4. \A k \in Resources :
                /\ InHand(r, k) <=> lost /\ key[r] = k
                /\ ~InHand(r, k)'
                /\ Count(k)' = Count(k) /\ Load(k)' = Load(k)
            BY <2>1 DEF InHand, Count, Load
      <2> HIDE DEF lost
      <2>5. ASSUME NEW k \in Resources
            PROVE  Even(r, k)'
            <3>1. CASE lost /\ key[r] = k
                  <4>1. n \in Int
                        BY <2>1, <3>1
                  <4> HIDE DEF n
                  <4>2. /\ Count(k) + freed[k].active + forgotten[k].active =
                               placed[k].active + leaked[k].active + 1
                        /\ Load(k) + freed[k].load + forgotten[k].load =
                               placed[k].load + leaked[k].load + n
                        BY <1>a, <2>4, <3>1 DEF Even, n
                  <4>3. /\ Count(k)' = Count(k) /\ Load(k)' = Load(k)
                        /\ leaked'[k].active = leaked[k].active + 1
                        /\ leaked'[k].load = leaked[k].load + n
                        /\ ~InHand(r, k)'
                        BY <2>3, <2>4, <3>1
                  <4> HIDE DEF InHand
                  <4> QED BY <1>b, <2>1, <4>1, <4>2, <4>3 DEF Even
            <3>2. CASE ~(lost /\ key[r] = k)
                  BY <1>a, <1>b, <2>1, <2>3, <2>4, <3>2 DEF Even
            <3> QED BY <3>1, <3>2
      <2> QED BY <2>2, <2>3, <2>5
<1> QED BY <1>1, <1>2, <1>3, <1>4, <1>5, <1>6, <1>7 DEF AccountNext

-----------------------------------------------------------------------------
(* Balanced numbers are balanced records. *)
LEMMA EvenAccounts ==
    ASSUME Solo, KnownInv, AccountInv
    PROVE  SlotsAccounted
<1> SUFFICES ASSUME NEW r, Replicas = {r}, NEW k \in Resources
             PROVE  LET open  == Reservations(k) \ unheard
                        seen  == Plus(Plus(Counters(k), freed[k]), forgotten[k])
                        spent == Plus(placed[k], leaked[k])
                    IN  /\ open = {} => seen = spent
                        /\ \A s \in open : seen = Plus(spent, Slot(task[s]))
    BY DEF Solo, SlotsAccounted
<1> DEFINE open  == Reservations(k) \ unheard
           seen  == Plus(Plus(Counters(k), freed[k]), forgotten[k])
           spent == Plus(placed[k], leaked[k])
<1>1. TypeOK /\ CallOK /\ AccountTypes /\ Even(r, k)
      BY DEF KnownInv, TurnsInv, IInv, AccountInv
<1>2. /\ Counters(k) \in Sums
      /\ Counters(k).active = Count(k) /\ Counters(k).load = Load(k)
      /\ placed[k] \in Sums /\ freed[k] \in Sums /\ forgotten[k] \in Sums /\ leaked[k] \in Sums
      BY <1>1, CountersFields DEF AccountTypes
<1>3. /\ seen \in Sums
      /\ seen.active = Count(k) + freed[k].active + forgotten[k].active
      /\ seen.load = Load(k) + freed[k].load + forgotten[k].load
      BY <1>2, PlusFields
<1>4. /\ spent \in Sums
      /\ spent.active = placed[k].active + leaked[k].active
      /\ spent.load = placed[k].load + leaked[k].load
      BY <1>2, PlusFields
<1>5. \A a, b \in Sums : a.active = b.active /\ a.load = b.load => a = b
      BY DEF Sums
<1>6. IF InHand(r, k) THEN open = {r} ELSE open = {}
      BY DEF InHand, Reservations
<1>7. /\ Count(k) \in Int /\ freed[k].active \in Int /\ forgotten[k].active \in Int
      /\ Load(k) \in Int /\ freed[k].load \in Int /\ forgotten[k].load \in Int
      /\ placed[k].active \in Int /\ leaked[k].active \in Int
      /\ placed[k].load \in Int /\ leaked[k].load \in Int
      BY <1>1, <1>2, CountersFields DEF Sums
<1> DEFINE Goal == /\ open = {} => seen = spent
                   /\ \A s \in open : seen = Plus(spent, Slot(task[s]))
<1> HIDE DEF seen, spent, open
<1>8. ASSUME ~InHand(r, k)
      PROVE  Goal
      <2>1. seen.active = spent.active /\ seen.load = spent.load
            BY <1>1, <1>3, <1>4, <1>7, <1>8 DEF Even, InHand
      <2> QED BY <1>3, <1>4, <1>5, <1>6, <1>8, <2>1
<1>9. ASSUME InHand(r, k)
      PROVE  Goal
      <2>1. task[r] \in Tasks
            BY <1>1, <1>9 DEF InHand, CallOK
      <2>2. Slot(task[r]) \in Sums /\ Slot(task[r]).active = 1 /\ Slot(task[r]).load = Tokens[task[r]]
            BY <2>1, SlotFields
      <2>3. /\ Plus(spent, Slot(task[r])) \in Sums
            /\ Plus(spent, Slot(task[r])).active = spent.active + 1
            /\ Plus(spent, Slot(task[r])).load = spent.load + Tokens[task[r]]
            BY <1>4, <2>2, PlusFields
      <2>4. /\ seen.active = Plus(spent, Slot(task[r])).active
            /\ seen.load = Plus(spent, Slot(task[r])).load
            BY <1>1, <1>3, <1>4, <1>9, <2>3 DEF Even, InHand
      <2>5. seen = Plus(spent, Slot(task[r]))
            BY <1>3, <1>5, <2>3, <2>4
      <2> QED BY <1>6, <1>9, <2>5
<1> QED BY <1>8, <1>9 DEF seen, spent, open

(* The history variables watch the service and leave it as it is. *)
LEMMA AccountInside == AccountSpec => Spec
<1>1. AccountInit => Init
      BY DEF AccountInit
<1>2. [AccountNext]_<<vars, account>> => [Next]_vars
      BY DEF AccountNext, InitializeStateNoted, WriteStateNoted, CreateBatchNoted,
         RollBackNoted, CrashNoted, Aside, Next, CallNext
<1> QED BY <1>1, <1>2, PTL DEF AccountSpec, Spec

(* The row of a single replica accounts for its slots and tokens, after any calls,
   refusals, lost answers, failing reads and puts, crashes and resets. *)
THEOREM AloneAccounted ==
    ASSUME Solo, Fresh
    PROVE  AccountSpec => []SlotsAccounted
<1>1. AccountSpec => []KnownInv
      BY AccountInside, AloneKnows, PTL
<1>2. KnownInv /\ AccountInv /\ [AccountNext]_<<vars, account>> => AccountInv'
      BY StepAccountInv
<1>3. KnownInv /\ AccountInv => SlotsAccounted
      BY EvenAccounts
<1> QED BY <1>1, <1>2, <1>3, InitAccountInv, PTL DEF AccountSpec
=============================================================================
