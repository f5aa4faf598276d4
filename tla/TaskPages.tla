------------------------------- MODULE TaskPages -------------------------------
(***************************************************************************)
(* The pages of push targets, recordings and new inputs in one tab, on one *)
(* OME that others change too.                                             *)
(***************************************************************************)
EXTENDS RecordPage, AddInput

FreshPush        == FreshList("push")
OpenPush         == Open(FreshPush)
StartPush(i, u)  == Start("push", i, u)
SubmitRecord(i)  == StartRecord(i, None)

Init ==
  /\ ome = {} /\ dumps = {} /\ live = {}
  /\ page = FreshPush
  /\ calls = {}
  /\ faults = 0 /\ changes = 0

Serve(c) ==
  \/ ListTasks(c) \/ StartTask(c) \/ StopTask(c)
  \/ StartHlsDump(c) \/ StopHlsDump(c) \/ ConcludeHlsLive(c)

\* An answer whose page is gone.
Unheard(c) ==
  /\ ~c.arg.mine /\ c.st # "sent"
  /\ ~(IsQueue(c) /\ c.st = "ok" /\ c.arg.then.todo = "push")
  /\ calls' = calls \ {c}
  /\ UNCHANGED <<engine, page, faults, changes>>

Arrive(c) ==
  \/ ListArrives("push", c) \/ Started("push", c) \/ Stopped("push", c)
  \/ RecordsArrive(c) \/ RecordStarted(c) \/ RecordStopped(c) \/ HlsAnswered(c)
  \/ RecordQueued(c) \/ InputQueued(c) \/ InputRefused(c)
  \/ Unheard(c)

Fails(c) ==
  Refuse(c) \/ ListLost("push", c) \/ RecordLost(c) \/ HlsLost(c) \/ InputLost(c)

PushPageSteps ==
  \/ OpenPush \/ Poll("push") \/ ToggleForm("push") \/ CancelStop("push") \/ Stop("push")
  \/ \E i \in Ids, u \in Urls : StartPush(i, u)
  \/ On("push") /\ \E t \in page.list : AskStop("push", t)

RecordPageSteps ==
  \/ OpenRecord \/ PollRecords \/ ToggleRecordForm \/ CancelStopRecord \/ StopRecord
  \/ \E i \in Ids : SubmitRecord(i)
  \/ On("record") /\ \E t \in page.list : AskStopRecord(t)
  \/ \E o \in Apps \X Ids : \/ Choose(o) \/ StopDump(o) \/ Conclude(o)
                            \/ \E id \in 1..MaxDumps : StartDump(o, id)

InputPageSteps ==
  \/ OpenInput \/ InputApps \/ IngestArrives \/ IngestFails
  \/ \E a \in Apps : PickApp(a)
  \/ \E s \in Ids \cup {None} : TypeStream(s)
  \/ \E f \in Form : Create(f)
  \/ AnotherInput

Next ==
  \/ PushPageSteps \/ RecordPageSteps \/ InputPageSteps
  \/ page.at # "add" /\ (AppsArrive \/ \E a \in Apps : Select(a))
  \/ \E c \in calls : Serve(c) \/ Arrive(c) \/ Fails(c)
  \/ OthersChange

\* The timer of a page fires, the routes answer and the answers arrive.  The
\* timer asks for strong fairness only because MaxCalls can hold a poll back.
Fairness ==
  /\ SF_vars(Poll("push") \/ PollRecords)
  /\ WF_vars(\E c \in OfKind(calls, "list") : Serve(c))
  /\ WF_vars(\E c \in OfKind(calls, "list") : Arrive(c))
  /\ WF_vars(\E c \in WithoutPolls : Serve(c) \/ Arrive(c))

Spec == Init /\ [][Next]_vars /\ Fairness

(***************************************************************************)
(* Properties                                                              *)
(***************************************************************************)
ListPage == page.at \in Kinds
HasDump(id) == \E d \in dumps : d.id = id

\* Types; OME has one task of an id, and a dump only where there is an output; a
\* button is disabled exactly while a call of its page is under way.
TypeOK ==
  /\ ome \subseteq Task /\ \A t, u \in ome : SameTask(t, u) => t = u
  /\ live \subseteq Apps \X Ids
  /\ \A d \in dumps : d.id \in 1..MaxDumps /\ d.out \in live /\ d.mine \in BOOLEAN
  /\ faults \in 0..MaxFaults /\ changes \in 0..MaxChanges
  /\ Cardinality(calls) <= MaxCalls
  /\ page.app \in Apps \cup {None}
  /\ ListPage => page.list \subseteq Task /\ page.ask \in Task \cup {None}
  /\ page.submitting <=> \E c \in calls : c.arg.mine /\ c.kind = "start"
  /\ page.at = "record" =>
       (page.busy <=> \E c \in calls : c.arg.mine /\ c.kind \in {"dump", "undump", "conclude"})

\* However polls, starts, stops and failures overlapped and applications were
\* switched, once OME's tasks stay as they are a page that stays open ends up
\* showing those of the application that is selected (the poll of push/page.tsx
\* and rec/page.tsx).
ListCatchesUp ==
  <>[][ome' = ome]_vars =>
    <>[](ListPage /\ page.app # None =>
           ~page.error /\ page.list = TasksOf(page.at, page.app))

\* A stop never reaches a task of another application than the one whose task
\* the dialog showed, even if the selection has changed since the list came.
StopHitsNamed ==
  [][\A c \in calls : StopTask(c) => \A t \in ome \ ome' : SameTask(t, c.arg.task)]_vars

\* "is set up" appears only when OME has accepted every task that the form asked
\* for at the click, whatever was edited meanwhile and whatever failed.
DoneIsQueued == page.at = "add" /\ page.done.on => page.done.wanted = page.done.got


\* A dump that OME runs for a page that is still there is the one its button
\* stops, or is about to be, or being, told to it: no second start hides one.
DumpIsOnButton ==
  \A d \in dumps : d.mine =>
    \/ page.dump = d.id
    \/ \E c \in calls : c.kind = "dump" /\ c.arg.id = d.id

\* What the page says when it is done is about the stream whose tasks it queued.
DoneNamesIt ==
  page.at = "add" /\ page.done.on =>
    \A t \in page.done.got : <<t.app, t.id>> = IngestKey

\* What the dialog says: that it stops this stream to that address.
StopsWhatItShowed ==
  [][\A c \in calls : StopTask(c) => ome \ ome' \subseteq {c.arg.task}]_vars

\* While the button says "Stop dump" there is something for it to stop.
DumpCanBeStopped ==
  page.at = "record" /\ page.dump # None /\ ~page.busy => HasDump(page.dump)
===============================================================================
