----------------------------- MODULE Reconciler -----------------------------
(***************************************************************************)
(* Push and record tasks: the start and stop handlers, the table of        *)
(* desired tasks in the console's database, OME's own task table, and the  *)
(* reconcile passes that restart what OME has lost.                        *)
(*                                                                         *)
(* Every await of the code is a point where another handler, another pass  *)
(* or OME itself may run, so each call to OME is a step of its own: what   *)
(* precedes it was computed when the previous answer came.  Nothing keeps  *)
(* two passes apart (boot, timer and reconnect each start one), hence a    *)
(* set of passes.  Audit rows and console messages are left out.           *)
(***************************************************************************)
EXTENDS Naturals, FiniteSets

CONSTANTS
  Task,        \* task ids, of pushes and records together
  App,         \* "vhost/app" names
  Stream,      \* stream names
  Config,      \* what a task carries besides its id (url, protocol, file path)
  KindOf,      \* Task -> {"push", "record"}
  AppOf,       \* Task -> App
  StreamOf,    \* Task -> Stream
  Pass,        \* slots for reconcile passes that overlap
  Req,         \* slots for operator requests that overlap
  None,
  MaxRows,     \* bound: no start is submitted after this many insertions
  MaxFaults    \* bound: restarts, refusals and lost answers

ASSUME TaskAssumption ==
  /\ KindOf \in [Task -> {"push", "record"}]
  /\ AppOf \in [Task -> App]
  /\ StreamOf \in [Task -> Stream]
  /\ None \notin Config /\ None \notin App
ASSUME BoundAssumption == MaxRows \in Nat /\ MaxFaults \in Nat

VARIABLES
  rows,        \* enabled rows of desired_push_tasks and desired_record_tasks
  nextId,      \* the tables' next row id
  live,        \* OME's task table: task -> its configuration, or None
  omeUp,
  consoleUp,
  lastApiOk,   \* the reconciler's copy of the last snapshot's apiOk
  erroring,    \* keys whose failure has been logged
  pass,
  req,
  faults

vars == <<rows, nextId, live, omeUp, consoleUp, lastApiOk, erroring, pass, req,
          faults>>

-----------------------------------------------------------------------------
(* A disabled row is never read again, so only enabled rows are kept.      *)

Row == [id : Nat, task : Task, cfg : Config]

List == {"push", "record"} \X App       \* what one listPushes/listRecords returns
ListOf(t) == <<KindOf[t], AppOf[t]>>

\* Mutant: two applications share a key.
KeyWithoutApp(t) == <<KindOf[t], StreamOf[t]>>
\* The key under which a failure is remembered: it names the stream, not the id.
Key(t) == <<KindOf[t], AppOf[t], StreamOf[t]>>
KeysOf(R) == {Key(r.task) : r \in R}

Desired(t) == \E r \in rows : r.task = t

IdleReq == [at |-> "idle", kind |-> "start", task |-> None, cfg |-> None]
IdlePass == [at |-> "idle", snap |-> {}, todo |-> {}, app |-> None,
             left |-> {}, actual |-> {}, row |-> None]

-----------------------------------------------------------------------------
(* The walk of a pass from one answer of OME to its next call.             *)

\* Rows of the current list still to be visited that OME did not list.
Missing(ps) == {r \in ps.left : r.task \notin ps.actual}

\* The next list: the records of this app after its pushes, then another app.
\* The order of the apps is left open.
Upcoming(ps) ==
  IF <<"record", ps.app>> \in ps.todo
  THEN {<<"record", ps.app>>}
  ELSE {l \in ps.todo : l[1] = "push" \/ <<"push", l[2]>> \notin ps.todo}

\* Skip over the rows that OME lists, up to the first one it does not list.
WalkToStart(p, ps, err) ==
  \E m \in Missing(ps) :
    /\ \A r \in Missing(ps) : m.id <= r.id
    /\ pass' = [pass EXCEPT ![p] =
                  [ps EXCEPT !.at = "starting", !.row = m,
                             !.left = {r \in ps.left : r.id > m.id}]]
    /\ erroring' = err \ KeysOf({r \in ps.left : r.id < m.id})

\* Call OME for the next list.
WalkToList(p, ps, err) ==
  /\ Missing(ps) = {}
  /\ \E l \in Upcoming(ps) :
       pass' = [pass EXCEPT ![p] =
                  [ps EXCEPT !.at = "listing", !.app = l[2], !.row = None,
                             !.todo = @ \ {l}, !.actual = {},
                             !.left = {r \in ps.snap : ListOf(r.task) = l}]]
  /\ erroring' = err \ KeysOf(ps.left)

\* Mutant: keys of tasks no longer desired are kept.
WalkToEndKeeping(p, ps, err) ==
  /\ Missing(ps) = {} /\ ps.todo = {}
  /\ pass' = [pass EXCEPT ![p] = IdlePass]
  /\ erroring' = err \ KeysOf(ps.left)

\* The end of a pass drops the keys its own snapshot of the rows does not hold.
WalkToEnd(p, ps, err) ==
  /\ Missing(ps) = {} /\ ps.todo = {}
  /\ pass' = [pass EXCEPT ![p] = IdlePass]
  /\ erroring' = (err \ KeysOf(ps.left)) \cap KeysOf(ps.snap)

Walk(p, ps, err) ==
  WalkToStart(p, ps, err) \/ WalkToList(p, ps, err) \/ WalkToEnd(p, ps, err)

\* The rows are read once, before the first call to OME.
BeginPass(p) ==
  /\ pass[p].at = "idle"
  /\ Walk(p, [IdlePass EXCEPT !.snap = rows,
                              !.todo = {ListOf(r.task) : r \in rows}], erroring)

-----------------------------------------------------------------------------
(* Initially nothing has been started and the console is not up yet.       *)

Init ==
  /\ rows = {} /\ nextId = 1
  /\ live = [t \in Task |-> None]
  /\ omeUp \in BOOLEAN
  /\ consoleUp = FALSE /\ lastApiOk = FALSE
  /\ erroring = {}
  /\ pass = [p \in Pass |-> IdlePass]
  /\ req = [q \in Req |-> IdleReq]
  /\ faults = 0

Fault == faults < MaxFaults /\ faults' = faults + 1

-----------------------------------------------------------------------------
(* What starts a pass: boot, the 30 s timer, an OME reconnect.             *)

ConsoleBoots(p) ==
  /\ ~consoleUp
  /\ consoleUp' = TRUE
  /\ BeginPass(p)
  /\ UNCHANGED <<rows, nextId, live, omeUp, lastApiOk, req, faults>>

\* Mutant: the timer leaves everything to the reconnect.
TimerFiresOffline(p) ==
  /\ consoleUp /\ ~lastApiOk
  /\ BeginPass(p)
  /\ UNCHANGED <<rows, nextId, live, omeUp, consoleUp, lastApiOk, req, faults>>

TimerFires(p) ==
  /\ consoleUp
  /\ BeginPass(p)
  /\ UNCHANGED <<rows, nextId, live, omeUp, consoleUp, lastApiOk, req, faults>>

\* A snapshot of the poller says that OME answers, the one before that it did
\* not.  Snapshots come late: neither need be true any more.
Reconnect(p) ==
  /\ consoleUp /\ ~lastApiOk
  /\ lastApiOk' = TRUE
  /\ BeginPass(p)
  /\ UNCHANGED <<rows, nextId, live, omeUp, consoleUp, req, faults>>

Disconnect ==
  /\ consoleUp /\ lastApiOk
  /\ lastApiOk' = FALSE
  /\ UNCHANGED <<rows, nextId, live, omeUp, consoleUp, erroring, pass, req, faults>>

-----------------------------------------------------------------------------
(* OME answers a pass.                                                     *)


ListAnswered(p) ==
  LET ps == pass[p] IN
  /\ ps.at = "listing" /\ omeUp
  /\ Walk(p, [ps EXCEPT !.actual = {t \in Task : live[t] # None}], erroring)
  /\ UNCHANGED <<rows, nextId, live, omeUp, consoleUp, lastApiOk, req, faults>>

\* A list that fails is skipped, with all its rows.
ListFailed(p) ==
  LET ps == pass[p] IN
  /\ ps.at = "listing"
  /\ IF omeUp THEN Fault ELSE UNCHANGED faults
  /\ Walk(p, [ps EXCEPT !.left = {}], erroring)
  /\ UNCHANGED <<rows, nextId, live, omeUp, consoleUp, lastApiOk, req>>

RestartAccepted(p) ==
  LET ps == pass[p] IN
  /\ ps.at = "starting" /\ omeUp /\ live[ps.row.task] = None
  /\ live' = [live EXCEPT ![ps.row.task] = ps.row.cfg]
  /\ Walk(p, ps, erroring \ {Key(ps.row.task)})
  /\ UNCHANGED <<rows, nextId, omeUp, consoleUp, lastApiOk, req, faults>>

\* OME is away, or the id is taken.
RestartRejected(p) ==
  LET ps == pass[p] IN
  /\ ps.at = "starting" /\ (~omeUp \/ live[ps.row.task] # None)
  /\ Walk(p, ps, erroring \cup {Key(ps.row.task)})
  /\ UNCHANGED <<rows, nextId, live, omeUp, consoleUp, lastApiOk, req, faults>>

\* OME refuses the task, or starts it and the answer is lost.
RestartFails(p) ==
  LET ps == pass[p] IN
  /\ ps.at = "starting" /\ omeUp /\ live[ps.row.task] = None /\ Fault
  /\ \/ UNCHANGED live
     \/ live' = [live EXCEPT ![ps.row.task] = ps.row.cfg]
  /\ Walk(p, ps, erroring \cup {Key(ps.row.task)})
  /\ UNCHANGED <<rows, nextId, omeUp, consoleUp, lastApiOk, req>>

-----------------------------------------------------------------------------
(* An operator's start: call OME, and only then insert the row.            *)

SubmitStart(q, t, c) ==
  /\ consoleUp /\ req[q].at = "idle"
  /\ nextId <= MaxRows
  /\ req' = [req EXCEPT ![q] = [at |-> "sent", kind |-> "start", task |-> t, cfg |-> c]]
  /\ UNCHANGED <<rows, nextId, live, omeUp, consoleUp, lastApiOk, erroring, pass, faults>>

SubmitStop(q, t) ==
  /\ consoleUp /\ req[q].at = "idle"
  /\ req' = [req EXCEPT ![q] = [at |-> "sent", kind |-> "stop", task |-> t, cfg |-> None]]
  /\ UNCHANGED <<rows, nextId, live, omeUp, consoleUp, lastApiOk, erroring, pass, faults>>

\* OME's half of startPush, startRecord, stopPush and stopRecord.
OmeCan(r) ==
  omeUp /\ IF r.kind = "start" THEN live[r.task] = None ELSE live[r.task] # None

OmeAccepts(q) ==
  /\ req[q].at = "sent" /\ OmeCan(req[q])
  /\ live' = [live EXCEPT ![req[q].task] = req[q].cfg]     \* None for a stop
  /\ req' = [req EXCEPT ![q].at = "ok"]
  /\ UNCHANGED <<rows, nextId, omeUp, consoleUp, lastApiOk, erroring, pass, faults>>

\* The handler turns an error of OME into a response and writes nothing.
OmeRejects(q) ==
  /\ req[q].at = "sent" /\ ~OmeCan(req[q])
  /\ req' = [req EXCEPT ![q] = IdleReq]
  /\ UNCHANGED <<rows, nextId, live, omeUp, consoleUp, lastApiOk, erroring, pass, faults>>

\* OME does what it is asked and the answer is lost: an error for the handler.
AnswerLost(q) ==
  /\ req[q].at = "sent" /\ OmeCan(req[q]) /\ Fault
  /\ live' = [live EXCEPT ![req[q].task] = req[q].cfg]
  /\ req' = [req EXCEPT ![q] = IdleReq]
  /\ UNCHANGED <<rows, nextId, omeUp, consoleUp, lastApiOk, erroring, pass>>

\* Mutant: the row is inserted before OME has answered.
RecordStartEarly(q) ==
  /\ req[q].at \in {"sent", "ok"} /\ req[q].kind = "start"
  /\ rows' = rows \cup {[id |-> nextId, task |-> req[q].task, cfg |-> req[q].cfg]}
  /\ nextId' = nextId + 1
  /\ req' = [req EXCEPT ![q] = IdleReq]
  /\ UNCHANGED <<live, omeUp, consoleUp, lastApiOk, erroring, pass, faults>>

\* upsertDesiredPush and upsertDesiredRecord insert: an id may get a second row.
RecordStart(q) ==
  /\ req[q].at = "ok" /\ req[q].kind = "start"
  /\ rows' = rows \cup {[id |-> nextId, task |-> req[q].task, cfg |-> req[q].cfg]}
  /\ nextId' = nextId + 1
  /\ req' = [req EXCEPT ![q] = IdleReq]
  /\ UNCHANGED <<live, omeUp, consoleUp, lastApiOk, erroring, pass, faults>>

\* Mutant: a stop leaves the rows enabled.
RecordStopKeeping(q) ==
  /\ req[q].at = "ok" /\ req[q].kind = "stop"
  /\ req' = [req EXCEPT ![q] = IdleReq]
  /\ UNCHANGED <<rows, nextId, live, omeUp, consoleUp, lastApiOk, erroring, pass, faults>>

\* removeDesired disables every enabled row with the id.
RecordStop(q) ==
  /\ req[q].at = "ok" /\ req[q].kind = "stop"
  /\ rows' = {r \in rows : r.task # req[q].task}
  /\ req' = [req EXCEPT ![q] = IdleReq]
  /\ UNCHANGED <<nextId, live, omeUp, consoleUp, lastApiOk, erroring, pass, faults>>

-----------------------------------------------------------------------------
(* OME keeps no task over a restart; the console keeps only its database.  *)

OmeStops ==
  /\ omeUp /\ Fault
  /\ omeUp' = FALSE
  /\ live' = [t \in Task |-> None]
  /\ UNCHANGED <<rows, nextId, consoleUp, lastApiOk, erroring, pass, req>>

OmeBoots ==
  /\ ~omeUp
  /\ omeUp' = TRUE
  /\ UNCHANGED <<rows, nextId, live, consoleUp, lastApiOk, erroring, pass, req, faults>>

ConsoleStops ==
  /\ consoleUp /\ Fault
  /\ consoleUp' = FALSE /\ lastApiOk' = FALSE
  /\ erroring' = {}
  /\ pass' = [p \in Pass |-> IdlePass]
  /\ req' = [q \in Req |-> IdleReq]
  /\ UNCHANGED <<rows, nextId, live, omeUp>>

-----------------------------------------------------------------------------
PassStep(p) ==
  \/ ListAnswered(p) \/ ListFailed(p)
  \/ RestartAccepted(p) \/ RestartRejected(p) \/ RestartFails(p)

ReqStep(q) ==
  \/ OmeAccepts(q) \/ OmeRejects(q) \/ AnswerLost(q)
  \/ RecordStart(q) \/ RecordStop(q)

Next ==
  \/ \E p \in Pass : ConsoleBoots(p) \/ TimerFires(p) \/ Reconnect(p) \/ PassStep(p)
  \/ Disconnect
  \/ \E q \in Req, t \in Task :
       SubmitStop(q, t) \/ \E c \in Config : SubmitStart(q, t, c)
  \/ \E q \in Req : ReqStep(q)
  \/ OmeStops \/ OmeBoots \/ ConsoleStops

Spec == Init /\ [][Next]_vars

(* setInterval keeps firing while the console is up; a call to OME is      *)
(* answered or fails; the process manager restarts OME and the console.    *)
Fairness ==
  /\ \A p \in Pass : WF_vars(PassStep(p))
  /\ \A q \in Req : WF_vars(ReqStep(q))
  /\ WF_vars(\E p \in Pass : TimerFires(p))
  /\ WF_vars(\E p \in Pass : ConsoleBoots(p))
  /\ WF_vars(OmeBoots)

FairSpec == Spec /\ Fairness

-----------------------------------------------------------------------------
(* Type correctness of the whole state: the tables, the passes and the     *)
(* requests in flight.                                                     *)
PassState ==
  [at : {"idle", "listing", "starting"}, snap : SUBSET Row, todo : SUBSET List,
   app : App \cup {None}, left : SUBSET Row, actual : SUBSET Task,
   row : Row \cup {None}]

ReqState ==
  [at : {"idle", "sent", "ok"}, kind : {"start", "stop"},
   task : Task \cup {None}, cfg : Config \cup {None}]

TypeOK ==
  /\ rows \subseteq Row
  /\ nextId \in Nat
  /\ live \in [Task -> Config \cup {None}]
  /\ omeUp \in BOOLEAN /\ consoleUp \in BOOLEAN /\ lastApiOk \in BOOLEAN
  /\ erroring \subseteq ({"push", "record"} \X App \X Stream)
  /\ pass \in [Pass -> PassState]
  /\ req \in [Req -> ReqState]
  /\ faults \in Nat

(* A pass restarts only rows of the snapshot it took when it began, and a  *)
(* request in flight is for a task: what every step of the walk relies on. *)
InFlight ==
  /\ \A p \in Pass :
       /\ pass[p].left \subseteq pass[p].snap
       /\ pass[p].at = "starting" => pass[p].row \in pass[p].snap
  /\ \A q \in Req : req[q].at # "idle" =>
       /\ req[q].task \in Task
       /\ req[q].cfg \in IF req[q].kind = "start" THEN Config ELSE {None}

(* The handlers and the passes implement DesiredTasks: a desire is written *)
(* only after OME accepted a start, erased only after OME carried out a    *)
(* stop, and a restart repeats a job that was desired when its pass began. *)
Jobs(R) == {<<r.task, r.cfg>> : r \in R}
Running == {j \in Task \X Config : live[j[1]] = j[2]}
Answered(kind) == {q \in Req : req[q].at = "ok" /\ req[q].kind = kind}
Accepted == {<<req[q].task, req[q].cfg>> : q \in Answered("start")}
Dismissed == {req[q].task : q \in Answered("stop")}
Healing == UNION {Jobs(pass[p].snap) : p \in Pass}

Promise ==
  INSTANCE DesiredTasks WITH
    desired <- Jobs(rows), running <- Running, accepted <- Accepted,
    dismissed <- Dismissed, healing <- Healing
KeepsPromise == Promise!Spec

(* With one operator request at a time and no fault, a desired task runs   *)
(* in OME unless its stop has been carried out and is about to be written, *)
(* whatever the passes do: the database is never ahead of OME.             *)
NoGap ==
  faults = 0 =>
    \A t \in Task : Desired(t) =>
      \/ live[t] # None
      \/ t \in Dismissed

-----------------------------------------------------------------------------
(* Once faults are over, a task that stays desired is running for good:    *)
(* the timer's passes restart it, however often OME or the console was     *)
(* restarted before.                                                       *)
DesiredIsHealed ==
  \A t \in Task : <>[]Desired(t) => <>[](live[t] # None)

(* A failure that is over is forgotten: when all that is desired keeps     *)
(* running, no key stays marked as failing, false alarms of two passes     *)
(* that raced to restart one task included.                                *)
AlarmsClear ==
  <>[](\A t \in Task : Desired(t) => live[t] # None) => <>[](erroring = {})

-----------------------------------------------------------------------------
(* An explicit stop stands: a pass starts no task whose row a stop has     *)
(* disabled.                                                               *)
StopIsHonoured ==
  [][\A p \in Pass :
       (pass[p].at = "starting" /\ pass'[p] # pass[p] /\ live' # live)
         => Desired(pass[p].row.task)]_vars

(* What is re-applied after an OME restart is what was last configured: a  *)
(* pass restarts no row when its snapshot holds a newer row of the task.   *)
LatestIsApplied ==
  [][\A p \in Pass :
       (pass[p].at = "starting" /\ pass'[p] # pass[p] /\ live' # live)
         => \A r \in pass[p].snap :
              r.task = pass[p].row.task => r.id <= pass[p].row.id]_vars

(* The flag of a failing task stands until that task has recovered: while  *)
(* the console is up, a key is dropped only if the desired tasks it stands *)
(* for are running.                                                        *)
FlagStands ==
  [][consoleUp' =>
       \A k \in erroring \ erroring' :
         \A t \in Task : (Desired(t) /\ Key(t) = k) => live'[t] # None]_vars

=============================================================================
