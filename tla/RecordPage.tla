------------------------------ MODULE RecordPage ------------------------------
(***************************************************************************)
(* rec/page.tsx: the list of record tasks, and below it the tools for the  *)
(* HLS output of a stream.  OME lists no dumps: what the page knows of a   *)
(* dump is the id it gave to the one it started.                           *)
(***************************************************************************)
EXTENDS TaskList

CONSTANT MaxDumps   \* bound: dump ids

ASSUME DumpsAssumption == MaxDumps \in Nat /\ None \notin 1..MaxDumps

FreshRecord ==
  [at |-> "record", app |-> None, list |-> {}, error |-> FALSE, form |-> FALSE,
   submitting |-> FALSE, ask |-> None,
   chosen |-> None, dump |-> None, busy |-> FALSE]

OpenRecord         == Open(FreshRecord)
PollRecords        == Poll("record")
RecordsArrive(c)   == ListArrives("record", c)
ToggleRecordForm   == ToggleForm("record")
StartRecord(i, u)  == Start("record", i, u)
RecordStarted(c)   == Started("record", c)
AskStopRecord(t)   == AskStop("record", t)
CancelStopRecord   == CancelStop("record")
StopRecord         == Stop("record")
RecordStopped(c)   == Stopped("record", c)
RecordLost(c)      == ListLost("record", c)

(***************************************************************************)
(* OME and the routes of api/hls-dump                                      *)
(***************************************************************************)
StartHlsDump(c) ==
  /\ Is(c, "sent", "dump")
  /\ IF c.arg.out \in live
     THEN /\ dumps' = dumps \cup {[id |-> c.arg.id, out |-> c.arg.out, mine |-> c.arg.mine]}
          /\ calls' = Done(calls, c, c.arg)
     ELSE calls' = Denied(calls, c) /\ UNCHANGED dumps
  /\ UNCHANGED <<ome, live, page, faults, changes>>

\* OME looks for the id among the dumps of the stream that is named.
StopHlsDump(c) ==
  LET hit == {d \in dumps : d.id = c.arg.id /\ d.out = c.arg.out} IN
  /\ Is(c, "sent", "undump")
  /\ dumps' = dumps \ hit
  /\ calls' = IF hit = {} THEN Denied(calls, c) ELSE Done(calls, c, c.arg)
  /\ UNCHANGED <<ome, live, page, faults, changes>>

ConcludeHlsLive(c) ==
  /\ Is(c, "sent", "conclude")
  /\ calls' = IF c.arg.out \in live THEN Done(calls, c, c.arg) ELSE Denied(calls, c)
  /\ UNCHANGED <<engine, page, faults, changes>>

(***************************************************************************)
(* The tools                                                               *)
(***************************************************************************)
Outputs(app) == {o \in live : o[1] = app}

\* The stream that was picked, or else the first one that is live: which one
\* that is changes with the live feed.
SelectedHls ==
  IF page.app = None THEN {}
  ELSE IF page.chosen # None THEN {<<page.app, page.chosen>>}
  ELSE Outputs(page.app)

Choose(o) ==
  /\ On("record") /\ page.app # None
  /\ o \in Outputs(page.app) /\ page.chosen # o[2]
  /\ Shows([page EXCEPT !.chosen = o[2]])

\* The id holds the time in milliseconds: it is nobody else's.
FreshDump(id) ==
  /\ \A d \in dumps : d.id # id
  /\ \A c \in calls : c.kind \in {"dump", "undump"} => c.arg.id # id

\* Mutant: the buttons stay enabled while a call is under way.
UseAtAnyTime(call) ==
  /\ On("record")
  /\ Cardinality(calls) < MaxCalls
  /\ calls' = calls \cup {call}
  /\ page' = [page EXCEPT !.busy = TRUE]
  /\ UNCHANGED <<engine, faults, changes>>
Use(call) ==
  /\ On("record") /\ ~page.busy
  /\ Cardinality(calls) < MaxCalls
  /\ calls' = calls \cup {call}
  /\ page' = [page EXCEPT !.busy = TRUE]
  /\ UNCHANGED <<engine, faults, changes>>

StartDump(o, id) ==
  /\ On("record") /\ page.dump = None
  /\ o \in SelectedHls /\ FreshDump(id)
  /\ Use(Sent("dump", [mine |-> TRUE, out |-> o, id |-> id]))

\* The stream is the one selected now, not the one the dump was started on.
StopDump(o) ==
  /\ On("record") /\ page.dump # None
  /\ o \in SelectedHls
  /\ Use(Sent("undump", [mine |-> TRUE, out |-> o, id |-> page.dump]))

Conclude(o) ==
  /\ On("record") /\ o \in SelectedHls
  /\ Use(Sent("conclude", [mine |-> TRUE, out |-> o]))

HlsAnswered(c) ==
  /\ On("record")
  /\ \/ Is(c, "ok", "dump") /\ Arrives(c, [page EXCEPT !.dump = c.arg.id, !.busy = FALSE])
     \/ Is(c, "ok", "undump") /\ Arrives(c, [page EXCEPT !.dump = None, !.busy = FALSE])
     \/ Is(c, "ok", "conclude") /\ Arrives(c, [page EXCEPT !.busy = FALSE])
     \/ /\ c.st = "refused" /\ c.kind \in {"dump", "undump", "conclude"}
        /\ Arrives(c, [page EXCEPT !.busy = FALSE])

\* No catch: fetch throws, and the button is enabled again.
HlsLost(c) ==
  /\ On("record") /\ c.kind \in {"dump", "undump", "conclude"}
  /\ c.arg.mine
  /\ faults < MaxFaults
  /\ faults' = faults + 1
  /\ calls' = calls \ {c}
  /\ page' = [page EXCEPT !.busy = FALSE]
  /\ dumps' = IF c.kind = "dump" THEN Disowned(dumps) ELSE dumps
  /\ UNCHANGED <<ome, live, changes>>
===============================================================================
