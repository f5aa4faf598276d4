------------------------------- MODULE TaskList -------------------------------
(***************************************************************************)
(* The list of tasks with its form and its dialog, which push/page.tsx and *)
(* rec/page.tsx have in common: a page named kind shows the tasks of that  *)
(* kind.                                                                   *)
(***************************************************************************)
EXTENDS OmeTasks

FreshList(kind) ==
  [at |-> kind, app |-> None, list |-> {}, error |-> FALSE, form |-> FALSE,
   submitting |-> FALSE, ask |-> None]

\* Mutant: no poll while an error is shown.
PollWhileWell(kind) ==
  /\ On(kind) /\ page.app # None /\ ~page.error
  /\ Clicks(Sent("list", [mine |-> TRUE, kind |-> kind, app |-> page.app, rows |-> {}]))
  /\ UNCHANGED page
\* Every 5 s, and at once when an application is selected.
Poll(kind) ==
  /\ On(kind) /\ page.app # None
  /\ Clicks(Sent("list", [mine |-> TRUE, kind |-> kind, app |-> page.app, rows |-> {}]))
  /\ UNCHANGED page

\* An error hides the list and does not change it.
ListArrives(kind, c) ==
  /\ On(kind)
  /\ \/ Is(c, "ok", "list")
        /\ Arrives(c, [page EXCEPT !.list = c.arg.rows, !.error = FALSE])
     \/ Is(c, "refused", "list") /\ Arrives(c, [page EXCEPT !.error = TRUE])

ToggleForm(kind) ==
  /\ On(kind)
  /\ Shows([page EXCEPT !.form = ~@])

\* The button is disabled while a start is under way; the selection is not.
Start(kind, id, url) ==
  /\ On(kind) /\ page.form /\ page.app # None /\ ~page.submitting
  /\ Cardinality(calls) < MaxCalls
  /\ calls' = calls \cup {Sent("start",
       [mine |-> TRUE, then |-> None, got |-> {},
        task |-> [kind |-> kind, app |-> page.app, id |-> id, url |-> url]])}
  /\ page' = [page EXCEPT !.submitting = TRUE]
  /\ UNCHANGED <<engine, faults, changes>>

\* The task is put on the list, whichever application is selected by now.
Started(kind, c) ==
  /\ On(kind)
  /\ \/ Is(c, "ok", "start")
        /\ Arrives(c, [page EXCEPT !.list = @ \cup {c.arg.task}, !.form = FALSE,
                                   !.submitting = FALSE])
     \/ Is(c, "refused", "start") /\ Arrives(c, [page EXCEPT !.submitting = FALSE])

AskStop(kind, t) ==
  /\ On(kind) /\ ~page.error
  /\ page.ask = None /\ t \in page.list
  /\ Shows([page EXCEPT !.ask = t])

CancelStop(kind) ==
  /\ On(kind) /\ page.ask # None
  /\ Shows([page EXCEPT !.ask = None])

\* Mutant: the request names the selected application, as the link to the
\* stream's drawer does.
StopInSelectedApp(kind) ==
  /\ On(kind) /\ page.ask # None
  /\ Clicks(Sent("stop", [mine |-> TRUE, task |-> page.ask, app |-> page.app]))
  /\ UNCHANGED page
\* The dialog stays until the answer comes, and can be confirmed again.
Stop(kind) ==
  /\ On(kind) /\ page.ask # None
  /\ Clicks(Sent("stop", [mine |-> TRUE, task |-> page.ask, app |-> page.ask.app]))
  /\ UNCHANGED page

\* The rows of that id go, those of another application included; the dialog
\* of the moment closes.
Stopped(kind, c) ==
  /\ On(kind)
  /\ \/ Is(c, "ok", "stop")
        /\ Arrives(c, [page EXCEPT !.list = {t \in @ : t.id # c.arg.task.id}, !.ask = None])
     \/ Is(c, "refused", "stop") /\ Arrives(c, [page EXCEPT !.ask = None])

\* A call or its answer is lost.
ListLost(kind, c) ==
  /\ On(kind)
  /\ \/ c.kind = "list" /\ Lost(c, [page EXCEPT !.error = TRUE])
     \/ c.kind = "start" /\ Lost(c, [page EXCEPT !.submitting = FALSE])
     \/ c.kind = "stop" /\ Lost(c, [page EXCEPT !.ask = None])
===============================================================================
