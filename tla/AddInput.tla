------------------------------- MODULE AddInput -------------------------------
(***************************************************************************)
(* addinput/page.tsx: names a stream, shows where to send it, and queues a *)
(* record task and a push task for it, one after the other.  What is       *)
(* queued is what the form said at the click; the form stays editable.     *)
(***************************************************************************)
EXTENDS OmeTasks

NoPush  == [todo |-> "nothing"]
NoUrl   == [todo |-> "refuse"]       \* the push URL is missing
NotDone == [on |-> FALSE]

FreshInput ==
  [at |-> "add", app |-> None, stream |-> None,
   fetching |-> None, info |-> None, submitting |-> FALSE, done |-> NotDone]

OpenInput == Open(FreshInput)

\* The key of the form; None while it is incomplete.
KeyOf(app, stream) == IF None \in {app, stream} THEN None ELSE <<app, stream>>
IngestKey == KeyOf(page.app, page.stream)

\* A change of the application or the stream cancels the request for the
\* address and makes the next one.
Refetch(shown) == [shown EXCEPT !.fetching = KeyOf(shown.app, shown.stream)]

InputApps ==
  /\ On("add") /\ page.app = None
  /\ Shows(Refetch([page EXCEPT !.app = FirstApp]))

Editing == On("add") /\ ~page.done.on

PickApp(a) ==
  /\ Editing /\ page.app # None /\ a # page.app
  /\ changes < MaxChanges
  /\ changes' = changes + 1
  /\ page' = Refetch([page EXCEPT !.app = a])
  /\ UNCHANGED <<engine, calls, faults>>

TypeStream(s) ==
  /\ Editing /\ s # page.stream
  /\ Shows(Refetch([page EXCEPT !.stream = s]))

\* The answer carries the key it was asked for, and may be an error.
IngestArrives ==
  /\ On("add") /\ page.fetching # None
  /\ Shows([page EXCEPT !.info = page.fetching, !.fetching = None])

IngestFails ==
  /\ On("add") /\ page.fetching # None
  /\ faults < MaxFaults
  /\ faults' = faults + 1
  /\ page' = [page EXCEPT !.fetching = None]
  /\ UNCHANGED <<engine, calls, changes>>

\* The address that is shown: the one fetched, if it is still that of the form.
ShownUrl == IF page.info = IngestKey THEN page.info ELSE None

\* The rest of the form, which nothing but the click reads: whether to record,
\* whether to push, and where to (None: not filled in).
Form == [record : BOOLEAN, push : BOOLEAN, url : Urls \cup {None}]

Planned(kind, url) == [kind |-> kind, app |-> page.app, id |-> page.stream, url |-> url]
RecordPlan    == Planned("record", None)
PushPlan(f)   == Planned("push", f.url)

\* What follows the recording, and what the click is to bring about.
PushPart(f) == CASE ~f.push -> NoPush
                 [] f.push /\ f.url = None -> NoUrl
                 [] OTHER -> [todo |-> "push", task |-> PushPlan(f)]
Wanted(f) == (IF f.record THEN {RecordPlan} ELSE {}) \cup (IF f.push THEN {PushPlan(f)} ELSE {})

Queue(f, task, then) ==
  /\ Cardinality(calls) < MaxCalls
  /\ calls' = calls \cup {Sent("start", [mine |-> TRUE, task |-> task, then |-> then,
                                         got |-> {}, wanted |-> Wanted(f)])}
  /\ page' = [page EXCEPT !.submitting = TRUE]

\* The address of the push is looked at only when the recording is queued.
Create(f) ==
  /\ Editing /\ IngestKey # None /\ ~page.submitting
  /\ \/ f.record /\ Queue(f, RecordPlan, PushPart(f))
     \/ ~f.record /\ PushPart(f).todo = "push" /\ Queue(f, PushPlan(f), NoPush)
     \/ /\ ~f.record /\ PushPart(f) = NoPush
        /\ page' = [page EXCEPT !.done = [on |-> TRUE, wanted |-> {}, got |-> {}]]
        /\ UNCHANGED calls
  /\ UNCHANGED <<engine, faults, changes>>

IsQueue(c) == c.kind = "start" /\ "wanted" \in DOMAIN c.arg

\* Mutant: a refused recording does not end the click.
RecordQueuedAnyway(c) ==
  /\ IsQueue(c) /\ c.st \in {"ok", "refused"} /\ c.arg.then.todo = "push"
  /\ calls' = (calls \ {c}) \cup
       {Sent("start", [c.arg EXCEPT !.task = c.arg.then.task, !.then = NoPush])}
  /\ UNCHANGED <<engine, page, faults, changes>>
\* The click goes on when the recording is queued, even without its page.
RecordQueued(c) ==
  /\ IsQueue(c) /\ c.st = "ok" /\ c.arg.then.todo = "push"
  /\ calls' = (calls \ {c}) \cup
       {Sent("start", [c.arg EXCEPT !.task = c.arg.then.task, !.then = NoPush])}
  /\ UNCHANGED <<engine, page, faults, changes>>

InputQueued(c) ==
  /\ IsQueue(c) /\ c.st = "ok" /\ c.arg.then.todo # "push"
  /\ Arrives(c,
       [page EXCEPT !.submitting = FALSE,
                    !.done = IF c.arg.then = NoUrl THEN NotDone
                             ELSE [on |-> TRUE, wanted |-> c.arg.wanted, got |-> c.arg.got]])

\* Mutant: the early return skips the end of the click.
InputRefusedHangs(c) ==
  /\ IsQueue(c) /\ c.st = "refused"
  /\ Arrives(c, page)
InputRefused(c) ==
  /\ IsQueue(c) /\ c.st = "refused"
  /\ Arrives(c, [page EXCEPT !.submitting = FALSE])

InputLost(c) ==
  /\ IsQueue(c)
  /\ Lost(c, [page EXCEPT !.submitting = FALSE])

\* What was fetched stays, and so does the error.
AnotherInput ==
  /\ On("add") /\ page.done.on
  /\ Shows(Refetch([page EXCEPT !.stream = None, !.done = NotDone]))
===============================================================================
