-------------------------- MODULE ReconcilerProofs --------------------------
(***************************************************************************)
(* Proofs about Reconciler, for every set of tasks, passes and requests    *)
(* and for every bound.                                                    *)
(***************************************************************************)
EXTENDS Reconciler, TLAPS

Keys == {"push", "record"} \X App \X Stream
IInv == TypeOK /\ InFlight

-----------------------------------------------------------------------------
(* A task's list and key are well formed. *)
LEMMA KeyType ==
  ASSUME NEW t \in Task
  PROVE  ListOf(t) \in List /\ Key(t) \in Keys
BY TaskAssumption DEF ListOf, List, Key, Keys

LEMMA KeysOfType ==
  ASSUME NEW R \in SUBSET Row
  PROVE  KeysOf(R) \subseteq Keys
<1> SUFFICES ASSUME NEW r \in R PROVE Key(r.task) \in Keys
  BY DEF KeysOf
<1> QED BY KeyType DEF Row

(* What a walk makes of a well-formed pass: it is well formed again, works *)
(* from the same snapshot unless it has ended, and touches no other pass.  *)
PassOK(ps) ==
  /\ ps \in PassState
  /\ ps.left \subseteq ps.snap
  /\ ps.at = "starting" => ps.row \in ps.snap

PassesOK ==
  /\ pass \in [Pass -> PassState]
  /\ \A p \in Pass : PassOK(pass[p])

LEMMA WalkType ==
  ASSUME TypeOK, NEW p \in Pass, NEW ps \in PassState, ps.left \subseteq ps.snap,
         NEW err \in SUBSET Keys, Walk(p, ps, err)
  PROVE  /\ \E new : /\ pass' = [pass EXCEPT ![p] = new]
                     /\ PassOK(new)
                     /\ new.snap = ps.snap \/ new.snap = {}
         /\ erroring' \subseteq Keys
<1> USE DEF PassState
<1>1. CASE WalkToStart(p, ps, err)
  <2>1. PICK m \in Missing(ps) :
          /\ pass' = [pass EXCEPT ![p] =
                        [ps EXCEPT !.at = "starting", !.row = m,
                                   !.left = {r \in ps.left : r.id > m.id}]]
          /\ erroring' = err \ KeysOf({r \in ps.left : r.id < m.id})
    BY <1>1 DEF WalkToStart
  <2> DEFINE new == [ps EXCEPT !.at = "starting", !.row = m,
                               !.left = {r \in ps.left : r.id > m.id}]
  <2>2. m \in ps.snap /\ m \in Row
    BY DEF Missing
  <2>3. PassOK(new) /\ new.snap = ps.snap
    BY <2>2 DEF PassOK
  <2> QED BY <2>1, <2>3
<1>2. CASE WalkToList(p, ps, err)
  <2>1. PICK l \in Upcoming(ps) :
          pass' = [pass EXCEPT ![p] =
                     [ps EXCEPT !.at = "listing", !.app = l[2], !.row = None,
                                !.todo = @ \ {l}, !.actual = {},
                                !.left = {r \in ps.snap : ListOf(r.task) = l}]]
    BY <1>2 DEF WalkToList
  <2> DEFINE new == [ps EXCEPT !.at = "listing", !.app = l[2], !.row = None,
                               !.todo = @ \ {l}, !.actual = {},
                               !.left = {r \in ps.snap : ListOf(r.task) = l}]
  <2>2. l[2] \in App
    BY DEF Upcoming, List
  <2>3. PassOK(new) /\ new.snap = ps.snap
    BY <2>2 DEF PassOK
  <2>4. erroring' \subseteq Keys
    BY <1>2 DEF WalkToList
  <2> QED BY <2>1, <2>3, <2>4
<1>3. CASE WalkToEnd(p, ps, err)
  <2>1. PassOK(IdlePass) /\ IdlePass.snap = {}
    BY DEF PassOK, IdlePass
  <2> QED BY <1>3, <2>1 DEF WalkToEnd
<1> QED BY <1>1, <1>2, <1>3 DEF Walk

-----------------------------------------------------------------------------
(* One step keeps the types and the shape of what is in flight. *)
LEMMA IInvStep ==
  ASSUME IInv, [Next]_vars
  PROVE  IInv'
<1> USE DEF IInv, TypeOK, InFlight, PassesOK, PassOK
<1>2. ASSUME NEW p \in Pass, NEW ps \in PassState, ps.left \subseteq ps.snap,
             NEW err \in SUBSET Keys, Walk(p, ps, err)
      PROVE  PassesOK' /\ erroring' \subseteq Keys
  <2>1. PICK new : /\ pass' = [pass EXCEPT ![p] = new]
                   /\ PassOK(new)
    BY <1>2, WalkType
  <2> QED BY <1>2, <2>1, WalkType
<1>3. ASSUME NEW p \in Pass, BeginPass(p)
      PROVE  \E ps \in PassState, err \in SUBSET Keys :
               ps.left \subseteq ps.snap /\ Walk(p, ps, err)
  <2> DEFINE ps == [IdlePass EXCEPT !.snap = rows, !.todo = {ListOf(r.task) : r \in rows}]
  <2>1. ps \in PassState /\ ps.left \subseteq ps.snap
    <3>1. {ListOf(r.task) : r \in rows} \subseteq List
      BY KeyType DEF Row
    <3>2. IdlePass \in PassState /\ IdlePass.left = {}
      BY DEF IdlePass, PassState
    <3> QED BY <3>1, <3>2 DEF IdlePass, PassState
  <2> QED BY <1>3, <2>1 DEF BeginPass, Keys
<1>4. ASSUME NEW p \in Pass, pass[p].at = "starting"
      PROVE  /\ pass[p].row \in Row
             /\ pass[p].row.task \in Task
             /\ erroring \cup {Key(pass[p].row.task)} \in SUBSET Keys
  <2>1. pass[p].row \in Row
    BY <1>4 DEF PassState
  <2> QED BY <2>1, KeyType DEF Row, Keys
<1>5. ASSUME NEW p \in Pass, ConsoleBoots(p) \/ TimerFires(p) \/ Reconnect(p)
      PROVE  IInv'
  BY <1>5, <1>2, <1>3 DEF ConsoleBoots, TimerFires, Reconnect, Keys
<1>6. ASSUME NEW p \in Pass, PassStep(p)
      PROVE  IInv'
  <2>1. CASE ListAnswered(p)
    <3> DEFINE ps == [pass[p] EXCEPT !.actual = {t \in Task : live[t] # None}]
    <3>1. ps \in PassState /\ ps.left \subseteq ps.snap
      BY DEF PassState
    <3> QED BY <2>1, <3>1, <1>2 DEF ListAnswered, Keys
  <2>2. CASE ListFailed(p)
    <3> DEFINE ps == [pass[p] EXCEPT !.left = {}]
    <3>1. ps \in PassState /\ ps.left \subseteq ps.snap
      BY DEF PassState
    <3>2. faults' \in Nat
      BY <2>2 DEF ListFailed, Fault
    <3>3. Walk(p, ps, erroring) /\ erroring \in SUBSET Keys
      BY <2>2 DEF ListFailed, Keys
    <3>4. PassesOK' /\ erroring' \subseteq Keys
      BY <3>1, <3>3, <1>2
    <3> QED BY <2>2, <3>2, <3>4 DEF ListFailed, Keys
  <2>3. CASE RestartAccepted(p)
    <3>1. live' \in [Task -> Config \cup {None}]
      BY <2>3, <1>4 DEF RestartAccepted, Row
    <3> QED BY <2>3, <3>1, <1>2 DEF RestartAccepted, Keys
  <2>4. CASE RestartRejected(p)
    <3>1. Walk(p, pass[p], erroring \cup {Key(pass[p].row.task)})
      BY <2>4 DEF RestartRejected
    <3>2. erroring \cup {Key(pass[p].row.task)} \in SUBSET Keys
      BY <2>4, <1>4 DEF RestartRejected
    <3>3. PassesOK' /\ erroring' \subseteq Keys
      BY <3>1, <3>2, <1>2
    <3> QED BY <2>4, <3>3 DEF RestartRejected, Keys
  <2>5. CASE RestartFails(p)
    <3>1. live' \in [Task -> Config \cup {None}]
      BY <2>5, <1>4 DEF RestartFails, Row
    <3>2. Walk(p, pass[p], erroring \cup {Key(pass[p].row.task)})
      BY <2>5 DEF RestartFails
    <3>3. erroring \cup {Key(pass[p].row.task)} \in SUBSET Keys
      BY <2>5, <1>4 DEF RestartFails
    <3>4. PassesOK' /\ erroring' \subseteq Keys
      BY <3>2, <3>3, <1>2
    <3>5. faults' \in Nat
      BY <2>5 DEF RestartFails, Fault
    <3> QED BY <2>5, <3>1, <3>4, <3>5 DEF RestartFails, Keys
  <2> QED BY <1>6, <2>1, <2>2, <2>3, <2>4, <2>5 DEF PassStep
<1>7. CASE Disconnect
  BY <1>7 DEF Disconnect
<1>8. ASSUME NEW q \in Req, NEW t \in Task, NEW c \in Config,
             SubmitStart(q, t, c)
      PROVE  IInv'
  BY <1>8 DEF SubmitStart, ReqState
<1>9. ASSUME NEW q \in Req, NEW t \in Task, SubmitStop(q, t)
      PROVE  IInv'
  BY <1>9 DEF SubmitStop, ReqState
<1>10. ASSUME NEW q \in Req, ReqStep(q)
       PROVE  IInv'
  <2>1. IdleReq \in ReqState
    BY DEF IdleReq, ReqState
  <2>2. CASE OmeAccepts(q)
    BY <2>2 DEF OmeAccepts, ReqState
  <2>3. CASE OmeRejects(q)
    BY <2>3, <2>1 DEF OmeRejects, IdleReq
  <2>4. CASE AnswerLost(q)
    BY <2>4, <2>1 DEF AnswerLost, IdleReq, Fault, ReqState
  <2>5. CASE RecordStart(q)
    <3>1. rows' \subseteq Row
      BY <2>5 DEF RecordStart, Row
    <3> QED BY <2>5, <2>1, <3>1 DEF RecordStart, IdleReq
  <2>6. CASE RecordStop(q)
    BY <2>6, <2>1 DEF RecordStop, IdleReq
  <2> QED BY <1>10, <2>2, <2>3, <2>4, <2>5, <2>6 DEF ReqStep
<1>11. CASE OmeStops
  <2>1. live' \in [Task -> Config \cup {None}] /\ faults' \in Nat
    BY <1>11 DEF OmeStops, Fault
  <2> QED BY <1>11, <2>1 DEF OmeStops
<1>12. CASE OmeBoots
  BY <1>12 DEF OmeBoots
<1>13. CASE ConsoleStops
  <2>1. pass' \in [Pass -> PassState] /\ req' \in [Req -> ReqState] /\ faults' \in Nat
    BY <1>13 DEF ConsoleStops, Fault, IdlePass, IdleReq, PassState, ReqState
  <2>2. InFlight'
    BY <1>13 DEF ConsoleStops, IdlePass, IdleReq
  <2> QED BY <1>13, <2>1, <2>2 DEF ConsoleStops
<1>14. CASE UNCHANGED vars
  BY <1>14 DEF vars
<1> QED
  BY <1>5, <1>6, <1>7, <1>8, <1>9, <1>10, <1>11, <1>12, <1>13, <1>14 DEF Next

(* TypeOK is not inductive alone: the row a pass restarts is a row only    *)
(* because it is in the snapshot, which is what InFlight adds.             *)
THEOREM TypesAndFlight == Spec => [](TypeOK /\ InFlight)
<1>1. Init => IInv
  <2> SUFFICES ASSUME Init PROVE IInv
    OBVIOUS
  <2>1. TypeOK
    BY BoundAssumption DEF Init, TypeOK, IdlePass, IdleReq, PassState, ReqState
  <2> QED BY <2>1 DEF Init, IInv, InFlight, IdlePass, IdleReq
<1>2. IInv /\ [Next]_vars => IInv'
  BY IInvStep
<1> QED BY <1>1, <1>2, PTL DEF Spec, IInv

-----------------------------------------------------------------------------
(* The refinement.  A pass may only turn to jobs it already had, or to the *)
(* rows it has just read.                                                  *)
LEMMA WalkHeals ==
  ASSUME IInv, NEW p \in Pass, NEW ps \in PassState, ps.left \subseteq ps.snap,
         NEW err \in SUBSET Keys, Walk(p, ps, err)
  PROVE  Healing' \subseteq Healing \cup Jobs(ps.snap)
<1>1. PICK new : /\ pass' = [pass EXCEPT ![p] = new]
                 /\ PassOK(new)
                 /\ new.snap = ps.snap \/ new.snap = {}
  BY WalkType DEF IInv
<1>2. Jobs({}) = {}
  BY DEF Jobs
<1>3. \A x \in Pass : Jobs(pass'[x].snap) \subseteq Healing \cup Jobs(ps.snap)
  <2> TAKE x \in Pass
  <2>1. CASE x = p
    BY <1>1, <1>2, <2>1 DEF IInv, TypeOK
  <2>2. CASE x # p
    BY <1>1, <2>2 DEF IInv, TypeOK, Healing
  <2> QED BY <2>1, <2>2
<1> QED BY <1>3 DEF Healing

(* Adding a job to OME's table, or emptying one entry of it. *)
LEMMA RunningAfter ==
  ASSUME TypeOK, NEW t \in Task, NEW c \in Config \cup {None},
         live' = [live EXCEPT ![t] = c]
  PROVE  /\ c = None => Running' = Promise!Without(Running, t)
         /\ c # None /\ live[t] = None => Running' = Running \cup {<<t, c>>}
<1> USE TaskAssumption DEF TypeOK
<1>1. \A j \in Task \X Config : j[1] \in Task /\ j[2] \in Config /\ j = <<j[1], j[2]>>
  OBVIOUS
<1>2. \A j \in Task \X Config : live'[j[1]] = IF j[1] = t THEN c ELSE live[j[1]]
  BY <1>1
<1>3. ASSUME c = None PROVE Running' = Promise!Without(Running, t)
  BY <1>1, <1>2, <1>3 DEF Running, Promise!Without
<1>4. ASSUME c # None, live[t] = None PROVE Running' = Running \cup {<<t, c>>}
  BY <1>1, <1>2, <1>4 DEF Running
<1> QED BY <1>3, <1>4

LEMMA BusyIffLive ==
  ASSUME TypeOK, NEW t \in Task
  PROVE  Promise!Busy(t) <=> live[t] # None
BY TaskAssumption DEF TypeOK, Running, Promise!Busy

(* A restart is a Heal: the row is one of the pass's snapshot. *)
LEMMA RestartHeals ==
  ASSUME IInv, NEW p \in Pass, pass[p].at = "starting",
         live[pass[p].row.task] = None,
         live' = [live EXCEPT ![pass[p].row.task] = pass[p].row.cfg],
         Healing' \subseteq Healing, UNCHANGED <<rows, req>>
  PROVE  Promise!Next
<1> DEFINE t == pass[p].row.task
           c == pass[p].row.cfg
<1>1. /\ pass[p].row \in pass[p].snap /\ pass[p].row \in Row
      /\ t \in Task /\ c \in Config /\ c # None
  BY TaskAssumption DEF IInv, InFlight, TypeOK, PassState, Row
<1>2. <<t, c>> \in Healing
  BY <1>1 DEF Healing, Jobs
<1>3. Running' = Running \cup {<<t, c>>} /\ ~Promise!Busy(t)
  BY <1>1, RunningAfter, BusyIffLive DEF IInv
<1>4. UNCHANGED <<Jobs(rows), Accepted, Dismissed>>
  BY DEF Accepted, Dismissed, Answered
<1>5. Promise!Heal(t, c)
  BY <1>2, <1>3, <1>4 DEF Promise!Heal
<1> QED BY <1>1, <1>5 DEF Promise!Next

(* Every other walk is a Consult. *)
LEMMA WalkConsults ==
  ASSUME Healing' \subseteq Healing \cup Jobs(rows), UNCHANGED <<rows, live, req>>
  PROVE  Promise!Next
<1>1. UNCHANGED <<Jobs(rows), Running, Accepted, Dismissed>>
  BY DEF Running, Accepted, Dismissed, Answered
<1> QED BY <1>1 DEF Promise!Next, Promise!Consult

LEMMA PassKeepsPromise ==
  ASSUME IInv, NEW p \in Pass,
         ConsoleBoots(p) \/ TimerFires(p) \/ Reconnect(p) \/ PassStep(p)
  PROVE  Promise!Next
<1> USE DEF IInv
<1>1. pass[p] \in PassState /\ pass[p].left \subseteq pass[p].snap
      /\ Jobs(pass[p].snap) \subseteq Healing /\ erroring \in SUBSET Keys
  BY DEF TypeOK, InFlight, Healing, Keys
<1>2. CASE ConsoleBoots(p) \/ TimerFires(p) \/ Reconnect(p)
  <2> DEFINE ps == [IdlePass EXCEPT !.snap = rows, !.todo = {ListOf(r.task) : r \in rows}]
  <2>1. {ListOf(r.task) : r \in rows} \subseteq List /\ rows \subseteq Row
    BY KeyType DEF Row, TypeOK
  <2>2. ps \in PassState /\ ps.left \subseteq ps.snap /\ ps.snap = rows
    BY <2>1 DEF IdlePass, PassState
  <2>3. Walk(p, ps, erroring) /\ UNCHANGED <<rows, live, req>>
    BY <1>2 DEF ConsoleBoots, TimerFires, Reconnect, BeginPass
  <2> HIDE DEF ps
  <2>4. Healing' \subseteq Healing \cup Jobs(rows)
    BY <1>1, <2>2, <2>3, WalkHeals
  <2> QED BY <2>3, <2>4, WalkConsults
<1>3. CASE ListAnswered(p) \/ ListFailed(p)
  <2>1. PICK ps \in PassState :
          /\ ps.left \subseteq ps.snap /\ ps.snap = pass[p].snap
          /\ Walk(p, ps, erroring)
    <3>1. CASE ListAnswered(p)
      <4> DEFINE ps == [pass[p] EXCEPT !.actual = {t \in Task : live[t] # None}]
      <4>1. ps \in PassState /\ ps.left \subseteq ps.snap /\ ps.snap = pass[p].snap
        BY <1>1 DEF PassState
      <4> QED BY <3>1, <4>1 DEF ListAnswered
    <3>2. CASE ListFailed(p)
      <4> DEFINE ps == [pass[p] EXCEPT !.left = {}]
      <4>1. ps \in PassState /\ ps.left \subseteq ps.snap /\ ps.snap = pass[p].snap
        BY <1>1 DEF PassState
      <4> QED BY <3>2, <4>1 DEF ListFailed
    <3> QED BY <1>3, <3>1, <3>2
  <2>2. Healing' \subseteq Healing
    BY <1>1, <2>1, WalkHeals
  <2> QED BY <1>3, <2>2, WalkConsults DEF ListAnswered, ListFailed
<1>4. CASE RestartAccepted(p) \/ RestartRejected(p) \/ RestartFails(p)
  <2>1. pass[p].at = "starting"
    BY <1>4 DEF RestartAccepted, RestartRejected, RestartFails
  <2>2. {Key(pass[p].row.task)} \subseteq Keys
    BY <2>1, KeyType DEF InFlight, TypeOK, PassState, Row
  <2>3. \E err \in SUBSET Keys : Walk(p, pass[p], err)
    <3>1. erroring \ {Key(pass[p].row.task)} \in SUBSET Keys
          /\ erroring \cup {Key(pass[p].row.task)} \in SUBSET Keys
      BY <1>1, <2>2
    <3> QED BY <1>4, <3>1 DEF RestartAccepted, RestartRejected, RestartFails
  <2>4. Healing' \subseteq Healing
    BY <1>1, <2>3, WalkHeals
  <2>5. UNCHANGED <<rows, req>>
    BY <1>4 DEF RestartAccepted, RestartRejected, RestartFails
  <2>6. \/ UNCHANGED live
        \/ /\ live[pass[p].row.task] = None
           /\ live' = [live EXCEPT ![pass[p].row.task] = pass[p].row.cfg]
    BY <1>4 DEF RestartAccepted, RestartRejected, RestartFails
  <2> QED BY <2>1, <2>4, <2>5, <2>6, WalkConsults, RestartHeals
<1> QED BY <1>2, <1>3, <1>4 DEF PassStep

(* An operator's request: OME's answer is a Start or a Stop, writing it    *)
(* down is a Record or a Forget.                                           *)
LEMMA AnswerKeepsPromise ==
  ASSUME IInv, NEW q \in Req, OmeAccepts(q) \/ AnswerLost(q)
  PROVE  Promise!Next
<1> DEFINE t == req[q].task
           c == req[q].cfg
<1> USE DEF IInv
<1>1. /\ t \in Task /\ req[q] \in ReqState
      /\ c \in IF req[q].kind = "start" THEN Config ELSE {None}
      /\ OmeCan(req[q]) /\ live' = [live EXCEPT ![t] = c]
      /\ UNCHANGED <<rows, pass>>
  BY DEF OmeAccepts, AnswerLost, InFlight, TypeOK
<1>2. UNCHANGED <<Jobs(rows), Healing>>
  BY <1>1 DEF Healing
<1>3. CASE req[q].kind = "start"
  <2>1. Running' = Running \cup {<<t, c>>} /\ ~Promise!Busy(t) /\ c \in Config
    BY <1>1, <1>3, RunningAfter, BusyIffLive, TaskAssumption DEF OmeCan
  <2>2. Accepted' \in {Accepted, Accepted \cup {<<t, c>>}} /\ UNCHANGED Dismissed
    <3>1. CASE OmeAccepts(q)
      BY <1>3, <3>1 DEF OmeAccepts, Accepted, Dismissed, Answered, TypeOK, ReqState
    <3>2. CASE AnswerLost(q)
      BY <1>3, <3>2 DEF AnswerLost, Accepted, Dismissed, Answered, TypeOK, IdleReq
    <3> QED BY <3>1, <3>2
  <2>3. Promise!Start(t, c)
    BY <1>2, <2>1, <2>2 DEF Promise!Start
  <2> QED BY <1>1, <2>1, <2>3 DEF Promise!Next
<1>4. CASE req[q].kind = "stop"
  <2>1. Running' = Promise!Without(Running, t) /\ Promise!Busy(t)
    BY <1>1, <1>4, RunningAfter, BusyIffLive DEF OmeCan
  <2>2. Dismissed' \in {Dismissed, Dismissed \cup {t}} /\ UNCHANGED Accepted
    <3>1. CASE OmeAccepts(q)
      BY <1>4, <3>1 DEF OmeAccepts, Accepted, Dismissed, Answered, TypeOK, ReqState
    <3>2. CASE AnswerLost(q)
      BY <1>4, <3>2 DEF AnswerLost, Accepted, Dismissed, Answered, TypeOK, IdleReq
    <3> QED BY <3>1, <3>2
  <2>3. Promise!Stop(t)
    BY <1>2, <2>1, <2>2 DEF Promise!Stop
  <2> QED BY <1>1, <2>3 DEF Promise!Next
<1> QED BY <1>1, <1>3, <1>4 DEF ReqState

LEMMA RecordKeepsPromise ==
  ASSUME IInv, NEW q \in Req, RecordStart(q) \/ RecordStop(q)
  PROVE  Promise!Next
<1> DEFINE t == req[q].task
           c == req[q].cfg
<1> USE DEF IInv
<1>1. /\ t \in Task /\ req[q] \in ReqState
      /\ c \in IF req[q].kind = "start" THEN Config ELSE {None}
      /\ req' = [req EXCEPT ![q] = IdleReq]
      /\ UNCHANGED <<live, pass>>
  BY DEF RecordStart, RecordStop, InFlight, TypeOK
<1>2. UNCHANGED <<Running, Healing>>
  BY <1>1 DEF Healing, Running
<1>3. \A kind : Answered(kind)' = Answered(kind) \ {q}
  BY <1>1 DEF Answered, TypeOK, IdleReq
<1>4. \A x \in Req \ {q} : req'[x] = req[x]
  BY <1>1 DEF TypeOK
<1>5. CASE RecordStart(q)
  <2>1. Jobs(rows)' = Jobs(rows) \cup {<<t, c>>}
    <3> DEFINE new == [id |-> nextId, task |-> t, cfg |-> c]
    <3>1. rows' = rows \cup {new} /\ new.task = t /\ new.cfg = c
      BY <1>5 DEF RecordStart
    <3> HIDE DEF new
    <3> QED BY <3>1 DEF Jobs
  <2>2. q \in Answered("start") /\ q \notin Answered("stop")
    BY <1>5 DEF RecordStart, Answered
  <2>3. <<t, c>> \in Accepted /\ UNCHANGED Dismissed
    BY <1>3, <1>4, <2>2 DEF Accepted, Dismissed, Answered
  <2>4. Accepted' \in {Accepted, Accepted \ {<<t, c>>}}
    <3> DEFINE A == Answered("start")
    <3>1. Accepted' = {<<req[x].task, req[x].cfg>> : x \in A \ {q}}
      BY <1>3, <1>4 DEF Accepted, Answered
    <3>2. Accepted = {<<req[x].task, req[x].cfg>> : x \in A \ {q}} \cup {<<t, c>>}
      BY <2>2 DEF Accepted
    <3> QED BY <3>1, <3>2
  <2>5. Promise!Record(t, c)
    BY <1>2, <2>1, <2>3, <2>4 DEF Promise!Record
  <2> QED BY <1>1, <1>5, <2>5 DEF Promise!Next, RecordStart
<1>6. CASE RecordStop(q)
  <2>1. Jobs(rows)' = Promise!Without(Jobs(rows), t)
    BY <1>6 DEF RecordStop, Jobs, Promise!Without
  <2>2. q \in Answered("stop") /\ q \notin Answered("start")
    BY <1>6 DEF RecordStop, Answered
  <2>3. t \in Dismissed /\ UNCHANGED Accepted
    BY <1>3, <1>4, <2>2 DEF Accepted, Dismissed, Answered
  <2>4. Dismissed' \in {Dismissed, Dismissed \ {t}}
    <3> DEFINE A == Answered("stop")
    <3>1. Dismissed' = {req[x].task : x \in A \ {q}}
      BY <1>3, <1>4 DEF Dismissed, Answered
    <3>2. Dismissed = {req[x].task : x \in A \ {q}} \cup {t}
      BY <2>2 DEF Dismissed
    <3> QED BY <3>1, <3>2
  <2>5. Promise!Forget(t)
    BY <1>2, <2>1, <2>3, <2>4 DEF Promise!Forget
  <2> QED BY <1>1, <2>5 DEF Promise!Next
<1> QED BY <1>5, <1>6

(* Submitting a request, and having one rejected, change nothing that the  *)
(* abstract specification sees.                                            *)
LEMMA SilentRequest ==
  ASSUME IInv, NEW q \in Req, NEW r, r.at # "ok", req[q].at # "ok",
         req' = [req EXCEPT ![q] = r], UNCHANGED <<rows, live, pass>>
  PROVE  UNCHANGED Promise!vars
<1>1. \A kind : Answered(kind)' = Answered(kind) /\ q \notin Answered(kind)
  BY DEF IInv, TypeOK, Answered
<1>2. \A x \in Req \ {q} : req'[x] = req[x]
  BY DEF IInv, TypeOK
<1>3. UNCHANGED <<Accepted, Dismissed>>
  BY <1>1, <1>2 DEF Accepted, Dismissed, Answered
<1>4. UNCHANGED <<Jobs(rows), Running, Healing>>
  BY DEF Running, Healing
<1> QED BY <1>3, <1>4 DEF Promise!vars

LEMMA StepKeepsPromise ==
  ASSUME IInv, [Next]_vars
  PROVE  [Promise!Next]_(Promise!vars)
<1>1. ASSUME NEW p \in Pass,
             ConsoleBoots(p) \/ TimerFires(p) \/ Reconnect(p) \/ PassStep(p)
      PROVE  Promise!Next
  BY <1>1, PassKeepsPromise
<1>2. ASSUME UNCHANGED <<rows, live, req, pass>>
      PROVE  UNCHANGED Promise!vars
  BY <1>2 DEF Promise!vars, Running, Accepted, Dismissed, Answered, Healing
<1>3. CASE Disconnect \/ OmeBoots \/ UNCHANGED vars
  BY <1>2, <1>3 DEF Disconnect, OmeBoots, vars
<1>4. ASSUME NEW q \in Req, NEW t \in Task, SubmitStop(q, t)
      PROVE  UNCHANGED Promise!vars
  BY <1>4, SilentRequest DEF SubmitStop
<1>5. ASSUME NEW q \in Req, NEW t \in Task, NEW c \in Config, SubmitStart(q, t, c)
      PROVE  UNCHANGED Promise!vars
  BY <1>5, SilentRequest DEF SubmitStart
<1>6. ASSUME NEW q \in Req, ReqStep(q)
      PROVE  Promise!Next \/ UNCHANGED Promise!vars
  <2>1. CASE OmeRejects(q)
    BY <2>1, SilentRequest DEF OmeRejects, IdleReq
  <2> QED BY <1>6, <2>1, AnswerKeepsPromise, RecordKeepsPromise DEF ReqStep
<1>7. CASE OmeStops
  <2>1. Running' = {}
    BY <1>7, TaskAssumption DEF OmeStops, Running
  <2>2. UNCHANGED <<Jobs(rows), Accepted, Dismissed, Healing>>
    BY <1>7 DEF OmeStops, Accepted, Dismissed, Answered, Healing
  <2> QED BY <2>1, <2>2 DEF Promise!Next, Promise!OmeLosesTasks
<1>8. CASE ConsoleStops
  <2>1. Accepted' = {} /\ Dismissed' = {}
    BY <1>8 DEF ConsoleStops, Accepted, Dismissed, Answered, IdleReq
  <2>2. Healing' = {}
    BY <1>8 DEF ConsoleStops, Healing, Jobs, IdlePass
  <2>3. UNCHANGED <<Jobs(rows), Running>>
    BY <1>8 DEF ConsoleStops, Running
  <2> QED BY <2>1, <2>2, <2>3 DEF Promise!Next, Promise!ConsoleCrash
<1> QED
  BY <1>1, <1>3, <1>4, <1>5, <1>6, <1>7, <1>8 DEF Next

(* The handlers and the passes implement the abstract promise: a desire is *)
(* written only after OME accepted a start, erased only after OME carried  *)
(* out a stop, and a pass restarts only jobs that were desired when it     *)
(* read the rows - however many passes and requests overlap, and whatever  *)
(* restarts and lost answers come between.                                 *)
THEOREM ImplementsPromise == Spec => KeepsPromise
<1>1. Init => Promise!Init
  <2> SUFFICES ASSUME Init PROVE Promise!Init
    OBVIOUS
  <2>1. Jobs(rows) = {} /\ Healing = {}
    BY DEF Init, Jobs, Healing, IdlePass
  <2>2. Accepted = {} /\ Dismissed = {}
    BY DEF Init, Accepted, Dismissed, Answered, IdleReq
  <2>3. Running = {}
    BY TaskAssumption DEF Init, Running
  <2> QED BY <2>1, <2>2, <2>3 DEF Promise!Init
<1>2. IInv /\ [Next]_vars => [Promise!Next]_(Promise!vars)
  BY StepKeepsPromise
<1> QED BY <1>1, <1>2, TypesAndFlight, PTL DEF Spec, KeepsPromise, Promise!Spec, IInv

-----------------------------------------------------------------------------
(* With a single operator, and as long as nothing fails, the database is   *)
(* never ahead of OME.  An accepted start must still be running when its   *)
(* row is inserted, which is what a second operator's stop would break.    *)
GapInv ==
  faults = 0 =>
    /\ NoGap
    /\ \A q \in Answered("start") : live[req[q].task] # None

THEOREM SingleOperatorNoGap ==
  ASSUME \A x, y \in Req : x = y
  PROVE  Spec => []NoGap
<1>1. Init => GapInv
  BY DEF Init, GapInv, NoGap, Desired, Answered, IdleReq
<1>2. IInv /\ GapInv /\ [Next]_vars => GapInv'
  <2> SUFFICES ASSUME IInv, GapInv, [Next]_vars, faults' = 0
               PROVE  /\ NoGap'
                      /\ \A q \in Answered("start")' : live'[req'[q].task] # None
    BY DEF GapInv
  <2> USE DEF IInv, TypeOK
  <2>1. faults = 0 /\ ~Fault /\ ~OmeStops /\ ~ConsoleStops
    <3>1. faults \in Nat /\ ~Fault
      BY DEF Fault
    <3> QED BY <3>1 DEF Next, vars, OmeStops, ConsoleStops, Disconnect, OmeBoots,
              ConsoleBoots, TimerFires, Reconnect, PassStep, ListAnswered, ListFailed,
              RestartAccepted, RestartRejected, RestartFails, SubmitStop, SubmitStart,
              ReqStep, OmeAccepts, OmeRejects, AnswerLost, RecordStart, RecordStop
  <2>2. NoGap /\ \A q \in Answered("start") : live[req[q].task] # None
    BY <2>1 DEF GapInv
  <2>3. ASSUME UNCHANGED <<rows, req>>, \A t \in Task : live[t] # None => live'[t] # None
        PROVE  /\ NoGap'
               /\ \A q \in Answered("start")' : live'[req'[q].task] # None
    BY <2>1, <2>2, <2>3 DEF NoGap, Desired, Dismissed, Answered, InFlight
  <2>4. ASSUME NEW p \in Pass,
               ConsoleBoots(p) \/ TimerFires(p) \/ Reconnect(p) \/ PassStep(p)
        PROVE  UNCHANGED <<rows, req>> /\ \A t \in Task : live[t] # None => live'[t] # None
    <3>1. CASE RestartAccepted(p)
      <4>1. pass[p].row \in Row
        BY <3>1 DEF RestartAccepted, InFlight, PassState
      <4> QED BY <3>1, <4>1, TaskAssumption DEF RestartAccepted, Row
    <3> QED BY <2>1, <2>4, <3>1 DEF ConsoleBoots, TimerFires, Reconnect, PassStep,
              ListAnswered, ListFailed, RestartRejected, RestartFails
  <2>5. CASE Disconnect \/ OmeBoots \/ UNCHANGED vars
    BY <2>3, <2>5 DEF Disconnect, OmeBoots, vars
  <2>6. ASSUME NEW q \in Req, NEW t \in Task,
               SubmitStop(q, t) \/ \E c \in Config : SubmitStart(q, t, c)
        PROVE  /\ NoGap'
               /\ \A x \in Answered("start")' : live'[req'[x].task] # None
    BY <2>1, <2>2, <2>6 DEF SubmitStop, SubmitStart, NoGap, Desired, Dismissed, Answered
  <2>7. ASSUME NEW q \in Req, ReqStep(q)
        PROVE  /\ NoGap'
               /\ \A x \in Answered("start")' : live'[req'[x].task] # None
    <3>1. req[q].at # "idle" => req[q].task \in Task
                                /\ req[q].cfg \in IF req[q].kind = "start"
                                                   THEN Config ELSE {None}
      BY DEF InFlight
    <3>2. \A x \in Req : x = q
      OBVIOUS
    <3>3. CASE OmeAccepts(q)
      BY <2>1, <2>2, <3>1, <3>2, <3>3, TaskAssumption
      DEF OmeAccepts, OmeCan, NoGap, Desired, Dismissed, Answered, ReqState
    <3>4. CASE OmeRejects(q)
      BY <2>1, <2>2, <3>4 DEF OmeRejects, IdleReq, NoGap, Desired, Dismissed, Answered
    <3>5. CASE RecordStart(q)
      BY <2>1, <2>2, <3>1, <3>2, <3>5
      DEF RecordStart, IdleReq, NoGap, Desired, Dismissed, Answered
    <3>6. CASE RecordStop(q)
      BY <2>1, <2>2, <3>1, <3>2, <3>6
      DEF RecordStop, IdleReq, NoGap, Desired, Dismissed, Answered
    <3> QED BY <2>1, <2>7, <3>3, <3>4, <3>5, <3>6 DEF ReqStep, AnswerLost
  <2> QED BY <2>1, <2>3, <2>4, <2>5, <2>6, <2>7 DEF Next
<1>3. IInv /\ GapInv => NoGap
  BY DEF GapInv, NoGap
<1> QED BY <1>1, <1>2, <1>3, TypesAndFlight, PTL DEF Spec, IInv
=============================================================================
