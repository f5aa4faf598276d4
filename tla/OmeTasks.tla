------------------------------- MODULE OmeTasks -------------------------------
(***************************************************************************)
(* What the pages about push and record tasks share: OME's table of tasks, *)
(* the routes that list, start and stop (api/push, api/record), and the    *)
(* tab of one operator, which shows one page at a time.  The rows of       *)
(* desired tasks and the reconciler are the module Reconciler; here they   *)
(* are among those who change OME's table.                                 *)
(*                                                                         *)
(* A page that is left throws its state away, but the calls it has made    *)
(* are carried out all the same: their answers find nobody (mine = FALSE). *)
(***************************************************************************)
EXTENDS Calls

CONSTANTS
  Apps,         \* the applications of Server.xml, as <<vhost, app>> pairs
  FirstApp,     \* the first one OME lists
  Ids,          \* task ids; also the names of the streams
  Urls,         \* push addresses (a record task has one of its own)
  Pages,        \* the pages the operator goes to: "push", "record", "add"
  None,
  MaxCalls,     \* bound: calls of the tab under way at once
  MaxFaults,    \* bound: calls refused without cause, or lost
  MaxChanges    \* bound: what others change, pages opened, applications picked

ASSUME TasksAssumption ==
  /\ FirstApp \in Apps
  /\ None \notin Apps \cup Ids \cup Urls
  /\ MaxCalls \in Nat \ {0} /\ MaxFaults \in Nat /\ MaxChanges \in Nat

VARIABLES
  ome,        \* OME's tasks
  dumps,      \* HLS dumps that OME runs
  live,       \* streams with an output: <<app, name>>
  page,       \* the page the tab shows
  calls,      \* the calls it has made
  faults, changes

vars == <<ome, dumps, live, page, calls, faults, changes>>
engine == <<ome, dumps, live>>

Kinds == {"push", "record"}
\* A record task has no address.
Task  == [kind : {"push"}, app : Apps, id : Ids, url : Urls]
           \cup [kind : {"record"}, app : Apps, id : Ids, url : {None}]

\* OME knows a task by its kind, application and id.
SameTask(t, u) == t.kind = u.kind /\ t.app = u.app /\ t.id = u.id
TasksOf(kind, app) == {t \in ome : t.kind = kind /\ t.app = app}

(***************************************************************************)
(* The routes.  A call's arg holds the task it is about; app is the        *)
(* application the request names.                                          *)
(***************************************************************************)
ListTasks(c) ==
  /\ Is(c, "sent", "list")
  /\ calls' = Done(calls, c, [c.arg EXCEPT !.rows = TasksOf(c.arg.kind, c.arg.app)])
  /\ UNCHANGED <<engine, page, faults, changes>>

\* The route asks for the address of a push.  OME refuses an id that it has; the
\* route passes the refusal on.
StartTask(c) ==
  /\ Is(c, "sent", "start")
  /\ IF c.arg.task \notin Task \/ \E t \in ome : SameTask(t, c.arg.task)
     THEN calls' = Denied(calls, c) /\ UNCHANGED ome
     ELSE /\ calls' = Done(calls, c, [c.arg EXCEPT !.got = @ \cup {c.arg.task}])
          /\ ome' = ome \cup {c.arg.task}
  /\ UNCHANGED <<dumps, live, page, faults, changes>>

\* The stop names a task by its id alone, and is refused when OME has none.
StopTask(c) ==
  LET hit == {t \in ome : SameTask(t, [c.arg.task EXCEPT !.app = c.arg.app])} IN
  /\ Is(c, "sent", "stop")
  /\ calls' = IF hit = {} THEN Denied(calls, c) ELSE Done(calls, c, c.arg)
  /\ ome' = ome \ hit
  /\ UNCHANGED <<dumps, live, page, faults, changes>>

\* The proxy refuses, or OME answers nothing: no task is changed.
Refuse(c) ==
  /\ c.st = "sent"
  /\ faults < MaxFaults
  /\ calls' = Denied(calls, c)
  /\ faults' = faults + 1
  /\ UNCHANGED <<engine, page, changes>>

\* Other operators, the reconciler, a restart of OME, publishers and the
\* profiles of their outputs.
OthersChange ==
  /\ changes < MaxChanges
  /\ changes' = changes + 1
  /\ \/ \E t \in Task : /\ ~\E u \in ome : SameTask(t, u)
                        /\ ome' = ome \cup {t}
                        /\ UNCHANGED <<dumps, live>>
     \/ \E t \in ome : ome' = ome \ {t} /\ UNCHANGED <<dumps, live>>
     \/ \E o \in Apps \X Ids :
          /\ o \notin live
          /\ live' = live \cup {o}
          /\ UNCHANGED <<ome, dumps>>
     \/ \E o \in live :
          /\ live' = live \ {o}
          /\ dumps' = {d \in dumps : d.out # o}
          /\ UNCHANGED ome
  /\ UNCHANGED <<page, calls, faults>>

(***************************************************************************)
(* The tab                                                                 *)
(***************************************************************************)
On(name) == page.at = name

Clicks(call) ==
  /\ Cardinality(calls) < MaxCalls
  /\ calls' = calls \cup {call}
  /\ UNCHANGED <<engine, faults, changes>>

\* An answer for the page; it, and what fetch throws when there is none, is
\* for the page that asked.
Arrives(c, shown) ==
  /\ c.arg.mine
  /\ calls' = calls \ {c}
  /\ page' = shown
  /\ UNCHANGED <<engine, faults, changes>>

Lost(c, shown) ==
  /\ faults < MaxFaults
  /\ faults' = faults + 1
  /\ calls' = calls \ {c}
  /\ page' = IF c.arg.mine THEN shown ELSE page
  /\ UNCHANGED <<engine, changes>>

Shows(shown) ==
  /\ page' = shown
  /\ UNCHANGED <<engine, calls, faults, changes>>

\* Polls of a page that is left, or of an application that is left, are
\* cancelled; whatever else is under way goes on without the page.
WithoutPolls == {c \in calls : c.kind # "list"}
Abandoned == {[c EXCEPT !.arg.mine = FALSE] : c \in WithoutPolls}

\* A dump is the page's own until the page is left, or the answer to its start
\* is lost: that it is running is then known to nobody.
Disowned(D) == {[d EXCEPT !.mine = FALSE] : d \in D}

\* The operator goes to a page: another one, or this one afresh.
Open(fresh) ==
  /\ fresh.at \in Pages
  /\ changes < MaxChanges
  /\ changes' = changes + 1
  /\ page' = fresh
  /\ calls' = Abandoned
  /\ dumps' = Disowned(dumps)
  /\ UNCHANGED <<ome, live, faults>>

\* The answer of api/apps, which may never come: the first one is selected.
AppsArrive ==
  /\ page.app = None
  /\ Shows([page EXCEPT !.app = FirstApp])

Select(a) ==
  /\ page.app # None /\ a # page.app
  /\ changes < MaxChanges
  /\ changes' = changes + 1
  /\ page' = [page EXCEPT !.app = a]
  /\ calls' = WithoutPolls
  /\ UNCHANGED <<engine, faults>>
===============================================================================
