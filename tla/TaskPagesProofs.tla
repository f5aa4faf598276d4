--------------------------- MODULE TaskPagesProofs ---------------------------
(***************************************************************************)
(* Proofs about TaskPages, for any number of applications, ids, addresses, *)
(* dumps and calls under way.                                              *)
(***************************************************************************)
EXTENDS TaskPages, FiniteSetTheorems, TLAPS

(* The types of what a page, a call and OME hold.                          *)

Maybe(S) == S \cup {None}
Dump == [id : 1..MaxDumps, out : Apps \X Ids, mine : BOOLEAN]
\* What a form may ask for; a push without an address is no task.
Plan == Task \cup [kind : {"push"}, app : Apps, id : Ids, url : {None}]

ListState(kind) ==
  [at : {kind}, app : Maybe(Apps), list : SUBSET Task, error : BOOLEAN, form : BOOLEAN,
   submitting : BOOLEAN, ask : Maybe(Task)]
RecordState ==
  [at : {"record"}, app : Maybe(Apps), list : SUBSET Task, error : BOOLEAN, form : BOOLEAN,
   submitting : BOOLEAN, ask : Maybe(Task),
   chosen : Maybe(Ids), dump : Maybe(1..MaxDumps), busy : BOOLEAN]
InputState ==
  [at : {"add"}, app : Maybe(Apps), stream : Maybe(Ids), fetching : Maybe(Apps \X Ids),
   info : Maybe(Apps \X Ids), submitting : BOOLEAN,
   done : {NotDone} \cup [on : {TRUE}, wanted : SUBSET Plan, got : SUBSET Plan]]
PageState == ListState("push") \cup RecordState \cup InputState

Stage == {"sent", "ok", "refused"}
Tool == {"dump", "undump", "conclude"}
Call(kinds, args) == [st : Stage, kind : kinds, arg : args]
PollCall == Call({"list"}, [mine : BOOLEAN, kind : Kinds, app : Apps, rows : SUBSET Task])
StartCall ==
  Call({"start"}, [mine : BOOLEAN, then : {None}, got : SUBSET Task, task : Task])
Then == {NoPush, NoUrl} \cup [todo : {"push"}, task : Plan]
QueueCall ==
  Call({"start"}, [mine : BOOLEAN, task : Plan, then : Then, got : SUBSET Plan,
                   wanted : SUBSET Plan])
StopCall == Call({"stop"}, [mine : BOOLEAN, task : Task, app : Apps])
DumpCall == Call({"dump", "undump"}, [mine : BOOLEAN, out : Apps \X Ids, id : 1..MaxDumps])
ConcludeCall == Call({"conclude"}, [mine : BOOLEAN, out : Apps \X Ids])
CallState == PollCall \cup StartCall \cup QueueCall \cup StopCall \cup DumpCall \cup ConcludeCall

(* The invariant.                                                          *)

\* Calls of one page are under way on that page only.
AtHome(c) == c.arg.mine => /\ IsQueue(c) => On("add")
                           /\ c.kind \in Tool => On("record")

\* What the click of a queue has still to bring about.
Left(c) ==
  (IF c.st = "ok" THEN {} ELSE {c.arg.task})
    \cup (IF c.arg.then.todo = "push" THEN {c.arg.then.task} ELSE {})
AddsUp(c) ==
  IsQueue(c) /\ c.arg.then # NoUrl => c.arg.wanted = c.arg.got \cup Left(c)

NamesItsApp(c) == c.kind = "stop" => c.arg.app = c.arg.task.app

CallOK(c) == c \in CallState /\ AtHome(c) /\ AddsUp(c) /\ NamesItsApp(c)

\* A button is disabled exactly while a call of its page is under way, so that
\* there is one at a time.
Guarded(C, disabled) ==
  /\ disabled <=> \E c \in C : c.arg.mine
  /\ \A b, c \in C : b.arg.mine /\ c.arg.mine => b = c

Starts(C) == OfKind(C, "start")
Tools(C)  == {c \in C : c.kind \in Tool}
Button    == IF On("record") THEN page.dump ELSE None

\* An id names one dump: of OME, of a call that starts it, or on the button.
OneDump(C, D, b) ==
  /\ \A d, e \in D : d.id = e.id => d = e
  /\ \A c \in C : c.kind = "dump" =>
       /\ c.st # "ok" => \A d \in D : d.id # c.arg.id
       /\ \A x \in C : x.kind \in {"dump", "undump"} /\ x.arg.id = c.arg.id => x = c
       /\ c.arg.id # b
       /\ c.arg.mine => b = None
  /\ \A c \in C : c.kind = "undump" =>
       /\ c.st = "ok" => \A d \in D : d.id # c.arg.id
       /\ c.arg.mine => c.arg.id = b
  /\ \A d \in D : d.mine =>
       \/ b = d.id
       \/ \E c \in C : c.kind = "dump" /\ c.st = "ok" /\ c.arg.mine /\ c.arg.id = d.id

EngineOK ==
  /\ ome \subseteq Task /\ \A t, u \in ome : SameTask(t, u) => t = u
  /\ live \subseteq Apps \X Ids
  /\ dumps \subseteq Dump /\ \A d \in dumps : d.out \in live
  /\ faults \in 0..MaxFaults /\ changes \in 0..MaxChanges
WorldOK == EngineOK /\ IsFiniteSet(calls) /\ Cardinality(calls) <= MaxCalls

Inv ==
  /\ WorldOK
  /\ page \in PageState /\ DoneIsQueued
  /\ \A c \in calls : CallOK(c)
  /\ Guarded(Starts(calls), page.submitting)
  /\ On("record") => Guarded(Tools(calls), page.busy)
  /\ OneDump(Tools(calls), dumps, Button)

-----------------------------------------------------------------------------
(* What the types say.                                                     *)

LEMMA CallShapes ==
  ASSUME NEW c \in CallState
  PROVE  /\ c = [st |-> c.st, kind |-> c.kind, arg |-> c.arg] /\ c.st \in Stage
         /\ c.arg.mine \in BOOLEAN
         /\ c.kind = "list" => c \in PollCall
         /\ c.kind = "start" /\ ~IsQueue(c) => c \in StartCall
         /\ IsQueue(c) <=> c \in QueueCall
         /\ IsQueue(c) => c.kind = "start"
         /\ c.kind = "stop" => c \in StopCall
         /\ c.kind \in {"dump", "undump"} => c \in DumpCall
         /\ c.kind = "conclude" => c \in ConcludeCall
         /\ c.kind \in {"list", "start", "stop", "dump", "undump", "conclude"}
<1>1. CASE c \in PollCall
  BY <1>1 DEF PollCall, Call, StartCall, QueueCall, StopCall, DumpCall, ConcludeCall, IsQueue, Stage
<1>2. CASE c \in StartCall
  BY <1>2 DEF PollCall, Call, StartCall, QueueCall, StopCall, DumpCall, ConcludeCall, IsQueue, Stage
<1>3. CASE c \in QueueCall
  BY <1>3 DEF PollCall, Call, StartCall, QueueCall, StopCall, DumpCall, ConcludeCall, IsQueue, Stage
<1>4. CASE c \in StopCall
  BY <1>4 DEF PollCall, Call, StartCall, QueueCall, StopCall, DumpCall, ConcludeCall, IsQueue, Stage
<1>5. CASE c \in DumpCall
  BY <1>5 DEF PollCall, Call, StartCall, QueueCall, StopCall, DumpCall, ConcludeCall, IsQueue, Stage
<1>6. CASE c \in ConcludeCall
  BY <1>6 DEF PollCall, Call, StartCall, QueueCall, StopCall, DumpCall, ConcludeCall, IsQueue, Stage
<1> QED
  BY <1>1, <1>2, <1>3, <1>4, <1>5, <1>6 DEF CallState

LEMMA PageShapes ==
  ASSUME NEW p \in PageState
  PROVE  /\ p.at \in {"push", "record", "add"} /\ p.app \in Maybe(Apps)
         /\ p.submitting \in BOOLEAN
         /\ p.at = "push" => p \in ListState("push")
         /\ p.at = "record" => p \in RecordState
         /\ p.at = "add" => p \in InputState
<1>1. CASE p \in ListState("push")
  BY <1>1 DEF ListState
<1>2. CASE p \in RecordState
  BY <1>2 DEF RecordState
<1>3. CASE p \in InputState
  BY <1>3 DEF InputState
<1> QED
  BY <1>1, <1>2, <1>3 DEF PageState

LEMMA Tasks ==
  /\ \A t \in Task : /\ t.kind \in Kinds /\ t.app \in Apps /\ t.id \in Ids
                     /\ t.url \in Maybe(Urls)
                     /\ t = [kind |-> t.kind, app |-> t.app, id |-> t.id, url |-> t.url]
  /\ Task \subseteq Plan
  /\ None \notin Ids \cup Apps \cup Urls /\ None \notin 1..MaxDumps
BY TasksAssumption, DumpsAssumption DEF Task, Plan, Maybe, Kinds

-----------------------------------------------------------------------------
(* What becomes of the calls.                                              *)

LEMMA MovedSize ==
  ASSUME IsFiniteSet(calls), Cardinality(calls) <= MaxCalls, NEW c \in calls, NEW n
  PROVE  /\ IsFiniteSet((calls \ {c}) \cup {n})
         /\ Cardinality((calls \ {c}) \cup {n}) <= MaxCalls
<1>1. IsFiniteSet(calls \ {c}) /\ Cardinality(calls \ {c}) = Cardinality(calls) - 1
  BY FS_RemoveElement
<1>2. /\ IsFiniteSet((calls \ {c}) \cup {n})
      /\ Cardinality((calls \ {c}) \cup {n})
           = IF n \in calls \ {c} THEN Cardinality(calls \ {c}) ELSE Cardinality(calls \ {c}) + 1
  BY <1>1, FS_AddElement
<1>3. Cardinality(calls) \in Nat /\ MaxCalls \in Nat
  BY FS_CardinalityType, TasksAssumption
<1> QED
  BY <1>1, <1>2, <1>3

LEMMA AddedSize ==
  ASSUME IsFiniteSet(calls), Cardinality(calls) < MaxCalls, NEW n
  PROVE  /\ IsFiniteSet(calls \cup {n}) /\ Cardinality(calls \cup {n}) <= MaxCalls
<1>1. /\ IsFiniteSet(calls \cup {n})
      /\ Cardinality(calls \cup {n})
           = IF n \in calls THEN Cardinality(calls) ELSE Cardinality(calls) + 1
  BY FS_AddElement
<1>2. Cardinality(calls) \in Nat /\ MaxCalls \in Nat
  BY FS_CardinalityType, TasksAssumption
<1> QED
  BY <1>1, <1>2

LEMMA FewerSize ==
  ASSUME IsFiniteSet(calls), Cardinality(calls) <= MaxCalls, NEW C \in SUBSET calls
  PROVE  IsFiniteSet(C) /\ Cardinality(C) <= MaxCalls
<1>1. IsFiniteSet(C) /\ Cardinality(C) <= Cardinality(calls)
  BY FS_Subset
<1>2. Cardinality(calls) \in Nat /\ Cardinality(C) \in Nat /\ MaxCalls \in Nat
  BY <1>1, FS_CardinalityType, TasksAssumption
<1> QED
  BY <1>1, <1>2

LEMMA AbandonedSize ==
  ASSUME IsFiniteSet(calls), Cardinality(calls) <= MaxCalls
  PROVE  IsFiniteSet(Abandoned) /\ Cardinality(Abandoned) <= MaxCalls
<1>1. WithoutPolls \in SUBSET calls
  BY DEF WithoutPolls
<1>2. IsFiniteSet(WithoutPolls) /\ Cardinality(WithoutPolls) <= MaxCalls
  BY <1>1, FewerSize
<1> DEFINE f == [c \in WithoutPolls |-> [c EXCEPT !.arg.mine = FALSE]]
<1>3. f \in Surjection(WithoutPolls, Abandoned)
  BY DEF Abandoned, Surjection
<1> HIDE DEF f
<1>4. IsFiniteSet(Abandoned) /\ Cardinality(Abandoned) <= Cardinality(WithoutPolls)
  BY <1>2, <1>3, FS_Surjection
<1>5. Cardinality(Abandoned) \in Nat /\ Cardinality(WithoutPolls) \in Nat /\ MaxCalls \in Nat
  BY <1>2, <1>4, FS_CardinalityType, TasksAssumption
<1> QED
  BY <1>2, <1>4, <1>5

\* The starts and the tools among the calls, when one is added.
LEMMA AddedParts ==
  ASSUME NEW C, NEW n
  PROVE  /\ n.kind = "start" => /\ Starts(C \cup {n}) = Starts(C) \cup {n}
                                /\ Tools(C \cup {n}) = Tools(C)
         /\ n.kind \in Tool => /\ Starts(C \cup {n}) = Starts(C)
                               /\ Tools(C \cup {n}) = Tools(C) \cup {n}
         /\ n.kind \notin Tool \cup {"start"}
              => Starts(C \cup {n}) = Starts(C) /\ Tools(C \cup {n}) = Tools(C)
BY DEF Starts, Tools, OfKind, Tool

LEMMA GuardedMoved ==
  ASSUME NEW C, NEW c \in C, NEW n, n.arg.mine = c.arg.mine, NEW b, Guarded(C, b)
  PROVE  Guarded((C \ {c}) \cup {n}, b)
BY DEF Guarded

LEMMA GuardedRemoved ==
  ASSUME NEW C, NEW c \in C, NEW b, Guarded(C, b)
  PROVE  Guarded(C \ {c}, IF c.arg.mine THEN FALSE ELSE b)
BY DEF Guarded

LEMMA GuardedAdded ==
  ASSUME NEW C, NEW n, n.arg.mine, Guarded(C, FALSE)
  PROVE  Guarded(C \cup {n}, TRUE)
BY DEF Guarded

-----------------------------------------------------------------------------
(* What becomes of the dumps, their calls and the button.                  *)

\* A call that is refused, or that is no call about a dump, changes nothing.
LEMMA OneDumpKept ==
  ASSUME NEW C, NEW D, NEW b, OneDump(C, D, b), NEW c \in C,
         NEW n, n.kind = c.kind, n.arg = c.arg,
         c.kind = "conclude" \/ (c.st = "sent" /\ n.st = "refused")
  PROVE  OneDump((C \ {c}) \cup {n}, D, b)
<1> DEFINE E == (C \ {c}) \cup {n}
<1>1. ASSUME NEW x \in E, x.kind = "dump"
      PROVE  /\ x.st # "ok" => \A d \in D : d.id # x.arg.id
             /\ \A y \in E : y.kind \in {"dump", "undump"} /\ y.arg.id = x.arg.id => y = x
             /\ x.arg.id # b
             /\ x.arg.mine => b = None
  BY <1>1 DEF OneDump
<1>2. ASSUME NEW x \in E, x.kind = "undump"
      PROVE  /\ x.st = "ok" => \A d \in D : d.id # x.arg.id
             /\ x.arg.mine => x.arg.id = b
  BY <1>2 DEF OneDump
<1>3. ASSUME NEW d \in D, d.mine
      PROVE  \/ b = d.id
             \/ \E x \in E : x.kind = "dump" /\ x.st = "ok" /\ x.arg.mine /\ x.arg.id = d.id
  BY <1>3 DEF OneDump
<1>4. \A d, e \in D : d.id = e.id => d = e
  BY DEF OneDump
<1> QED
  BY <1>1, <1>2, <1>3, <1>4 DEF OneDump

LEMMA OneDumpStarted ==
  ASSUME NEW C, NEW D, NEW b, OneDump(C, D, b), NEW c \in C, Is(c, "sent", "dump"),
         NEW n, Is(n, "ok", "dump"), n.arg = c.arg,
         NEW d, d.id = c.arg.id, d.mine = c.arg.mine
  PROVE  OneDump((C \ {c}) \cup {n}, D \cup {d}, b)
<1> DEFINE E == (C \ {c}) \cup {n}
<1>0. /\ \A e \in D : e.id # d.id
      /\ \A y \in C : y.kind \in {"dump", "undump"} /\ y.arg.id = c.arg.id => y = c
  BY DEF OneDump, Is
<1>1. ASSUME NEW x \in E, x.kind = "dump"
      PROVE  /\ x.st # "ok" => \A e \in D \cup {d} : e.id # x.arg.id
             /\ \A y \in E : y.kind \in {"dump", "undump"} /\ y.arg.id = x.arg.id => y = x
             /\ x.arg.id # b
             /\ x.arg.mine => b = None
  BY <1>0, <1>1 DEF OneDump, Is
<1>2. ASSUME NEW x \in E, x.kind = "undump"
      PROVE  /\ x.st = "ok" => \A e \in D \cup {d} : e.id # x.arg.id
             /\ x.arg.mine => x.arg.id = b
  BY <1>0, <1>2 DEF OneDump, Is
<1>3. ASSUME NEW e \in D \cup {d}, e.mine
      PROVE  \/ b = e.id
             \/ \E x \in E : x.kind = "dump" /\ x.st = "ok" /\ x.arg.mine /\ x.arg.id = e.id
  BY <1>3 DEF OneDump, Is
<1>4. \A e, f \in D \cup {d} : e.id = f.id => e = f
  BY <1>0 DEF OneDump
<1> QED
  BY <1>1, <1>2, <1>3, <1>4 DEF OneDump

LEMMA OneDumpStopped ==
  ASSUME NEW C, NEW D, NEW b, OneDump(C, D, b), NEW c \in C, Is(c, "sent", "undump"),
         NEW n, Is(n, "ok", "undump"), n.arg = c.arg,
         NEW hit \in SUBSET D, hit # {}, \A d \in hit : d.id = c.arg.id
  PROVE  OneDump((C \ {c}) \cup {n}, D \ hit, b)
<1> DEFINE E == (C \ {c}) \cup {n}
<1>1. ASSUME NEW x \in E, x.kind = "dump"
      PROVE  /\ x.st # "ok" => \A d \in D \ hit : d.id # x.arg.id
             /\ \A y \in E : y.kind \in {"dump", "undump"} /\ y.arg.id = x.arg.id => y = x
             /\ x.arg.id # b
             /\ x.arg.mine => b = None
  BY <1>1 DEF OneDump, Is
<1>2. ASSUME NEW x \in E, x.kind = "undump"
      PROVE  /\ x.st = "ok" => \A d \in D \ hit : d.id # x.arg.id
             /\ x.arg.mine => x.arg.id = b
  BY <1>2 DEF OneDump, Is
<1>3. ASSUME NEW d \in D \ hit, d.mine
      PROVE  \/ b = d.id
             \/ \E x \in E : x.kind = "dump" /\ x.st = "ok" /\ x.arg.mine /\ x.arg.id = d.id
  BY <1>3 DEF OneDump, Is
<1>4. \A d, e \in D \ hit : d.id = e.id => d = e
  BY DEF OneDump
<1> QED
  BY <1>1, <1>2, <1>3, <1>4 DEF OneDump

\* A call ends that is not the start of a dump of this page.
LEMMA OneDumpEnded ==
  ASSUME NEW C, NEW D, NEW b, OneDump(C, D, b), NEW c \in C,
         c.kind = "dump" => c.st # "ok" \/ ~c.arg.mine
  PROVE  OneDump(C \ {c}, D, b)
BY DEF OneDump

\* The answer to a start or a stop of this page comes.
LEMMA OneDumpShown ==
  ASSUME NEW C, NEW D, NEW b, OneDump(C, D, b), NEW c \in C, Is(c, "ok", "dump"), c.arg.mine,
         \A d \in D : d.id # None,
         \A x, y \in C : x.arg.mine /\ y.arg.mine => x = y
  PROVE  OneDump(C \ {c}, D, c.arg.id)
BY DEF OneDump, Is

LEMMA OneDumpGone ==
  ASSUME NEW C, NEW D, NEW b, OneDump(C, D, b), NEW c \in C, Is(c, "ok", "undump"), c.arg.mine,
         \A x \in C : x.kind \in {"dump", "undump"} => x.arg.id # None,
         \A x, y \in C : x.arg.mine /\ y.arg.mine => x = y
  PROVE  OneDump(C \ {c}, D, None)
BY DEF OneDump, Is

\* The page makes a call.
LEMMA OneDumpAsked ==
  ASSUME NEW C, NEW D, NEW b, OneDump(C, D, b), NEW n, n.st = "sent",
         n.kind = "dump" => /\ b = None /\ n.arg.id # None
                            /\ \A d \in D : d.id # n.arg.id
                            /\ \A x \in C : x.kind \in {"dump", "undump"} => x.arg.id # n.arg.id,
         n.kind = "undump" => b # None /\ n.arg.id = b
  PROVE  OneDump(C \cup {n}, D, b)
BY DEF OneDump

LEMMA OneDumpFewer ==
  ASSUME NEW C, NEW D, NEW b, OneDump(C, D, b), NEW G \in SUBSET D
  PROVE  OneDump(C, G, b)
BY DEF OneDump

\* The dumps are disowned, when the page is left and when the answer is lost.
LEMMA Disown ==
  ASSUME EngineOK, NEW C, NEW b, OneDump(C, dumps, b)
  PROVE  /\ Disowned(dumps) \subseteq Dump /\ \A d \in Disowned(dumps) : d.out \in live
         /\ OneDump(C, Disowned(dumps), b)
         /\ \A g \in Disowned(dumps) : ~g.mine
<1>1. /\ dumps \subseteq Dump
      /\ \A d \in dumps : d.out \in live /\ \A e \in dumps : d.id = e.id => d = e
  BY DEF EngineOK, OneDump
<1>2. \A g \in Disowned(dumps) : \E d \in dumps :
        /\ g = [d EXCEPT !.mine = FALSE] /\ g \in Dump /\ ~g.mine /\ g.out = d.out /\ g.id = d.id
  BY <1>1 DEF Disowned, Dump
<1>3. ASSUME NEW g \in Disowned(dumps), NEW h \in Disowned(dumps), g.id = h.id
      PROVE  g = h
  <2>1. PICK d \in dumps : g = [d EXCEPT !.mine = FALSE] /\ g.id = d.id
    BY <1>2
  <2>2. PICK e \in dumps : h = [e EXCEPT !.mine = FALSE] /\ h.id = e.id
    BY <1>2
  <2>3. d = e
    BY <1>1, <1>3, <2>1, <2>2
  <2> QED
    BY <2>1, <2>2, <2>3
<1>4. \A g \in Disowned(dumps) : ~g.mine /\ \E d \in dumps : g.id = d.id
  BY <1>2
<1>5. OneDump(C, Disowned(dumps), b)
  BY <1>3, <1>4 DEF OneDump
<1> QED
  BY <1>1, <1>2, <1>4, <1>5

LEMMA OneDumpLeft ==
  ASSUME NEW C, NEW D, NEW b, OneDump(C, D, b), NEW E,
         \A e \in E : ~e.arg.mine,
         \A e \in E : e.kind \in {"dump", "undump"} =>
           \E c \in C : /\ e = [c EXCEPT !.arg.mine = FALSE] /\ e.kind = c.kind /\ e.st = c.st
                        /\ e.arg.id = c.arg.id /\ e.arg.id # None,
         \A d \in D : ~d.mine
  PROVE  OneDump(E, D, None)
<1>1. ASSUME NEW x \in E, x.kind = "dump", NEW y \in E, y.kind \in {"dump", "undump"},
             y.arg.id = x.arg.id
      PROVE  y = x
  <2>1. PICK c \in C : /\ x = [c EXCEPT !.arg.mine = FALSE] /\ x.kind = c.kind
                       /\ x.arg.id = c.arg.id
    BY <1>1
  <2>2. PICK e \in C : /\ y = [e EXCEPT !.arg.mine = FALSE] /\ y.kind = e.kind
                       /\ y.arg.id = e.arg.id
    BY <1>1
  <2>3. c = e
    BY <1>1, <2>1, <2>2 DEF OneDump
  <2> QED
    BY <2>1, <2>2, <2>3
<1>2. ASSUME NEW x \in E, x.kind = "dump"
      PROVE  /\ x.st # "ok" => \A d \in D : d.id # x.arg.id
             /\ x.arg.id # None
  BY <1>2 DEF OneDump
<1>3. ASSUME NEW x \in E, x.kind = "undump", x.st = "ok"
      PROVE  \A d \in D : d.id # x.arg.id
  BY <1>3 DEF OneDump
<1>4. \A d, e \in D : d.id = e.id => d = e
  BY DEF OneDump
<1> QED
  BY <1>1, <1>2, <1>3, <1>4 DEF OneDump

-----------------------------------------------------------------------------
(* The invariant holds at first, and every step keeps it.                  *)

LEMMA InvInit == Init => Inv
<1> SUFFICES ASSUME Init PROVE Inv
  OBVIOUS
<1>1. WorldOK
  <2>1. IsFiniteSet(calls) /\ Cardinality(calls) = 0
    BY FS_EmptySet DEF Init
  <2> QED
    BY <2>1, TasksAssumption DEF Init, WorldOK, EngineOK
<1>2. page \in ListState("push")
  BY DEF Init, FreshPush, FreshList, ListState, Maybe
<1>3. page \in PageState /\ DoneIsQueued
  BY <1>2 DEF Init, FreshPush, FreshList, PageState, DoneIsQueued
<1>4. Starts(calls) = {} /\ Tools(calls) = {}
  BY DEF Init, Starts, Tools, OfKind
<1>5. Guarded(Starts(calls), page.submitting)
  BY <1>4 DEF Init, Guarded, FreshPush, FreshList
<1>6. ~On("record") /\ \A c \in calls : CallOK(c)
  BY DEF Init, On, FreshPush, FreshList
<1>7. OneDump(Tools(calls), dumps, Button)
  BY <1>4 DEF Init, OneDump
<1> QED
  BY <1>1, <1>3, <1>5, <1>6, <1>7 DEF Inv

\* A call is no less right while the tab stays on its page.
LEMMA CallStays ==
  ASSUME NEW c, CallOK(c), page'.at = page.at
  PROVE  CallOK(c)'
BY DEF CallOK, AtHome, AddsUp, NamesItsApp, On, Left

\* Steps that change what a page shows, and no more.
LEMMA PageOnly ==
  ASSUME Inv, UNCHANGED <<ome, dumps, live, calls>>,
         page' \in PageState, page'.at = page.at, page'.submitting = page.submitting,
         On("record") => page'.busy = page.busy /\ page'.dump = page.dump,
         DoneIsQueued', faults' \in 0..MaxFaults, changes' \in 0..MaxChanges
  PROVE  Inv'
<1>1. WorldOK'
  BY DEF Inv, WorldOK, EngineOK
<1>2. \A c \in calls' : CallOK(c)'
  <2> SUFFICES ASSUME NEW c \in calls' PROVE CallOK(c)'
    OBVIOUS
  <2> QED
    BY CallStays DEF Inv
<1>3. On("record")' <=> On("record")
  BY DEF On
<1>4. Button' = Button
  BY <1>3 DEF Button
<1>5. Guarded(Starts(calls), page.submitting)'
  BY DEF Inv, Starts, OfKind, Guarded
<1>6. On("record")' => Guarded(Tools(calls), page.busy)'
  BY <1>3 DEF Inv, Tools, Guarded
<1>7. OneDump(Tools(calls), dumps, Button)'
  BY <1>4 DEF Inv, Tools, OneDump
<1> QED
  BY <1>1, <1>2, <1>5, <1>6, <1>7 DEF Inv

\* What a page of tasks shows changes within its types.
Alike(p, q, submitting) ==
  /\ q \in PageState /\ q.at = p.at /\ q.submitting = submitting
  /\ p.at = "record" => q.dump = p.dump /\ q.busy = p.busy

LEMMA ListEdits ==
  ASSUME NEW p \in PageState, p.at \in Kinds
  PROVE  /\ \A b \in BOOLEAN : /\ Alike(p, [p EXCEPT !.error = b], p.submitting)
                               /\ Alike(p, [p EXCEPT !.form = b], p.submitting)
                               /\ Alike(p, [p EXCEPT !.submitting = b], b)
         /\ \A ask \in Maybe(Task) : Alike(p, [p EXCEPT !.ask = ask], p.submitting)
         /\ \A app \in Apps : Alike(p, [p EXCEPT !.app = app], p.submitting)
         /\ \A list \in SUBSET Task :
              /\ Alike(p, [p EXCEPT !.list = list, !.error = FALSE], p.submitting)
              /\ Alike(p, [p EXCEPT !.list = list, !.ask = None], p.submitting)
              /\ Alike(p, [p EXCEPT !.list = list, !.form = FALSE, !.submitting = FALSE], FALSE)
<1>1. CASE p \in ListState("push")
  <2>1. \A q \in ListState("push") : q \in PageState /\ q.at = p.at
    BY <1>1 DEF PageState, ListState
  <2>2. \A b \in BOOLEAN : Alike(p, [p EXCEPT !.error = b], p.submitting)
    BY <1>1, <2>1 DEF Alike, ListState, Maybe
  <2>3. \A b \in BOOLEAN : Alike(p, [p EXCEPT !.form = b], p.submitting)
    BY <1>1, <2>1 DEF Alike, ListState, Maybe
  <2>4. \A b \in BOOLEAN : Alike(p, [p EXCEPT !.submitting = b], b)
    BY <1>1, <2>1 DEF Alike, ListState, Maybe
  <2>5. \A ask \in Maybe(Task) : Alike(p, [p EXCEPT !.ask = ask], p.submitting)
    BY <1>1, <2>1 DEF Alike, ListState, Maybe
  <2>6. \A app \in Apps : Alike(p, [p EXCEPT !.app = app], p.submitting)
    BY <1>1, <2>1 DEF Alike, ListState, Maybe
  <2>7. \A l \in SUBSET Task : Alike(p, [p EXCEPT !.list = l, !.error = FALSE], p.submitting)
    BY <1>1, <2>1 DEF Alike, ListState, Maybe
  <2>8. \A l \in SUBSET Task : Alike(p, [p EXCEPT !.list = l, !.ask = None], p.submitting)
    BY <1>1, <2>1 DEF Alike, ListState, Maybe
  <2>9. \A l \in SUBSET Task : Alike(p, [p EXCEPT !.list = l, !.form = FALSE, !.submitting = FALSE], FALSE)
    BY <1>1, <2>1 DEF Alike, ListState, Maybe
  <2> QED
    BY <2>2, <2>3, <2>4, <2>5, <2>6, <2>7, <2>8, <2>9
<1>2. CASE p \in RecordState
  <2>1. \A q \in RecordState : q \in PageState /\ q.at = p.at
    BY <1>2 DEF PageState, RecordState
  <2>2. \A b \in BOOLEAN : Alike(p, [p EXCEPT !.error = b], p.submitting)
    BY <1>2, <2>1 DEF Alike, RecordState, Maybe
  <2>3. \A b \in BOOLEAN : Alike(p, [p EXCEPT !.form = b], p.submitting)
    BY <1>2, <2>1 DEF Alike, RecordState, Maybe
  <2>4. \A b \in BOOLEAN : Alike(p, [p EXCEPT !.submitting = b], b)
    BY <1>2, <2>1 DEF Alike, RecordState, Maybe
  <2>5. \A ask \in Maybe(Task) : Alike(p, [p EXCEPT !.ask = ask], p.submitting)
    BY <1>2, <2>1 DEF Alike, RecordState, Maybe
  <2>6. \A app \in Apps : Alike(p, [p EXCEPT !.app = app], p.submitting)
    BY <1>2, <2>1 DEF Alike, RecordState, Maybe
  <2>7. \A l \in SUBSET Task : Alike(p, [p EXCEPT !.list = l, !.error = FALSE], p.submitting)
    BY <1>2, <2>1 DEF Alike, RecordState, Maybe
  <2>8. \A l \in SUBSET Task : Alike(p, [p EXCEPT !.list = l, !.ask = None], p.submitting)
    BY <1>2, <2>1 DEF Alike, RecordState, Maybe
  <2>9. \A l \in SUBSET Task : Alike(p, [p EXCEPT !.list = l, !.form = FALSE, !.submitting = FALSE], FALSE)
    BY <1>2, <2>1 DEF Alike, RecordState, Maybe
  <2> QED
    BY <2>2, <2>3, <2>4, <2>5, <2>6, <2>7, <2>8, <2>9
<1> QED
  BY <1>1, <1>2, PageShapes DEF Kinds

LEMMA Shown ==
  ASSUME Inv, page.at \in Kinds, UNCHANGED <<ome, dumps, live, calls>>,
         Alike(page, page', page.submitting),
         faults' \in 0..MaxFaults, changes' \in 0..MaxChanges
  PROVE  Inv'
BY PageOnly DEF Alike, On, DoneIsQueued, Kinds

LEMMA ListSteps ==
  ASSUME Inv, NEW kind \in Kinds,
         \/ ToggleForm(kind) \/ CancelStop(kind)
         \/ On(kind) /\ \E t \in page.list : AskStop(kind, t)
         \/ page.at # "add" /\ AppsArrive
  PROVE  Inv'
<1>1. page.at \in Kinds /\ page \in PageState /\ page.list \subseteq Task /\ page.form \in BOOLEAN
  BY PageShapes DEF Inv, On, ListState, RecordState, ToggleForm, CancelStop, Kinds
<1>2. faults \in 0..MaxFaults /\ changes \in 0..MaxChanges
  BY DEF Inv, WorldOK, EngineOK
<1>3. UNCHANGED <<ome, dumps, live, calls, faults, changes>>
  BY DEF ToggleForm, CancelStop, AskStop, AppsArrive, Shows, engine
<1>4. Alike(page, page', page.submitting)
  <2>1. CASE ToggleForm(kind)
    BY <1>1, <2>1, ListEdits DEF ToggleForm, Shows
  <2>2. CASE CancelStop(kind)
    BY <1>1, <2>2, ListEdits DEF CancelStop, Shows, Maybe
  <2>3. ASSUME NEW t \in page.list, AskStop(kind, t)
        PROVE  Alike(page, page', page.submitting)
    BY <1>1, <2>3, ListEdits DEF AskStop, Shows, Maybe
  <2>4. CASE page.at # "add" /\ AppsArrive
    BY <1>1, <2>4, ListEdits, TasksAssumption DEF AppsArrive, Shows
  <2> QED
    BY <2>1, <2>2, <2>3, <2>4
<1> QED
  BY <1>1, <1>2, <1>3, <1>4, Shown

LEMMA ChooseStep ==
  ASSUME Inv, NEW o \in Apps \X Ids, Choose(o)
  PROVE  Inv'
<1>1. page \in RecordState
  BY PageShapes DEF Inv, Choose, On
<1>2. page' = [page EXCEPT !.chosen = o[2]] /\ o[2] \in Ids
  BY DEF Choose, Shows
<1>3. /\ page' \in RecordState /\ page'.at = "record" /\ page'.submitting = page.submitting
      /\ page'.busy = page.busy /\ page'.dump = page.dump
  BY <1>1, <1>2 DEF RecordState, Maybe
<1>4. UNCHANGED <<ome, dumps, live, calls, faults, changes>>
  BY DEF Choose, Shows, engine
<1>5. faults' \in 0..MaxFaults /\ changes' \in 0..MaxChanges
  BY <1>4 DEF Inv, WorldOK, EngineOK
<1>6. page.at = "record"
  BY DEF Choose, On
<1> QED
  BY <1>3, <1>4, <1>5, <1>6, PageOnly DEF PageState, DoneIsQueued, On

\* The same for the page of a new input.
LEMMA InputEdits ==
  ASSUME NEW p \in InputState
  PROVE  /\ \A app \in Apps :
              /\ Refetch([p EXCEPT !.app = app]) \in InputState
              /\ Refetch([p EXCEPT !.app = app]).submitting = p.submitting
              /\ Refetch([p EXCEPT !.app = app]).done = p.done
         /\ \A stream \in Maybe(Ids) :
              /\ Refetch([p EXCEPT !.stream = stream]) \in InputState
              /\ Refetch([p EXCEPT !.stream = stream]).submitting = p.submitting
              /\ Refetch([p EXCEPT !.stream = stream]).done = p.done
         /\ Refetch([p EXCEPT !.stream = None, !.done = NotDone]) \in InputState
         /\ Refetch([p EXCEPT !.stream = None, !.done = NotDone]).submitting = p.submitting
         /\ Refetch([p EXCEPT !.stream = None, !.done = NotDone]).done = NotDone
<1>1. p.app \in Maybe(Apps) /\ p.stream \in Maybe(Ids)
  BY DEF InputState
<1>2. \A a \in Maybe(Apps), s \in Maybe(Ids) : KeyOf(a, s) \in Maybe(Apps \X Ids)
  BY DEF KeyOf, Maybe
<1>3. Apps \subseteq Maybe(Apps) /\ None \in Maybe(Ids)
  BY DEF Maybe
<1> HIDE DEF KeyOf
<1> QED
  BY <1>1, <1>2, <1>3 DEF Refetch, InputState

LEMMA InputSteps ==
  ASSUME Inv,
         \/ InputApps \/ IngestArrives \/ IngestFails
         \/ \E a \in Apps : PickApp(a)
         \/ \E s \in Ids \cup {None} : TypeStream(s)
         \/ AnotherInput
  PROVE  Inv'
<1>1. page \in InputState /\ page.at = "add"
  BY PageShapes DEF Inv, On, InputApps, IngestArrives, IngestFails, PickApp, TypeStream,
     AnotherInput, Editing
<1>2. faults \in 0..MaxFaults /\ changes \in 0..MaxChanges
  BY DEF Inv, WorldOK, EngineOK
<1>3. DoneIsQueued
  BY DEF Inv
<1> SUFFICES /\ page' \in InputState /\ page'.submitting = page.submitting
             /\ page'.done \in {page.done, NotDone}
             /\ UNCHANGED <<ome, dumps, live, calls>>
             /\ faults' \in 0..MaxFaults /\ changes' \in 0..MaxChanges
  <2>1. page'.at = "add"
    BY DEF InputState
  <2>2. DoneIsQueued'
    BY <1>1, <1>3 DEF DoneIsQueued, NotDone
  <2> QED
    BY <1>1, <2>1, <2>2, PageOnly DEF PageState, On
<1>4. CASE InputApps
  BY <1>1, <1>2, <1>4, InputEdits, TasksAssumption DEF InputApps, Shows, engine, Maybe
<1>5. CASE IngestArrives
  BY <1>1, <1>2, <1>5 DEF IngestArrives, Shows, engine, InputState, Maybe
<1>6. CASE IngestFails
  <2>1. /\ page' = [page EXCEPT !.fetching = None] /\ UNCHANGED <<ome, dumps, live, calls, changes>>
        /\ faults' = faults + 1 /\ faults < MaxFaults
    BY <1>6 DEF IngestFails, engine
  <2>2. page' \in InputState /\ page'.submitting = page.submitting /\ page'.done = page.done
    BY <1>1, <2>1 DEF InputState, Maybe
  <2>3. faults' \in 0..MaxFaults
    BY <1>2, <2>1, TasksAssumption
  <2> QED
    BY <1>2, <2>1, <2>2, <2>3
<1>7. ASSUME NEW a \in Apps, PickApp(a)
      PROVE  /\ page' \in InputState /\ page'.submitting = page.submitting
             /\ page'.done = page.done
             /\ UNCHANGED <<ome, dumps, live, calls>>
             /\ faults' \in 0..MaxFaults /\ changes' \in 0..MaxChanges
  <2>1. page' = Refetch([page EXCEPT !.app = a]) /\ changes' = changes + 1
        /\ changes < MaxChanges /\ UNCHANGED <<ome, dumps, live, calls, faults>>
    BY <1>7 DEF PickApp, engine
  <2>2. changes' \in 0..MaxChanges
    BY <1>2, <2>1, TasksAssumption
  <2>3. page' \in InputState /\ page'.submitting = page.submitting /\ page'.done = page.done
    BY <1>1, <2>1, InputEdits DEF Maybe
  <2> QED
    BY <1>2, <2>1, <2>2, <2>3
<1>8. ASSUME NEW s \in Ids \cup {None}, TypeStream(s)
      PROVE  /\ page' \in InputState /\ page'.submitting = page.submitting
             /\ page'.done = page.done
             /\ UNCHANGED <<ome, dumps, live, calls>>
             /\ faults' \in 0..MaxFaults /\ changes' \in 0..MaxChanges
  <2>1. page' = Refetch([page EXCEPT !.stream = s]) /\ s \in Maybe(Ids)
        /\ UNCHANGED <<ome, dumps, live, calls, faults, changes>>
    BY <1>8 DEF TypeStream, Shows, engine, Maybe
  <2> QED
    BY <1>1, <1>2, <2>1, InputEdits, TasksAssumption
<1>9. CASE AnotherInput
  BY <1>1, <1>2, <1>9, InputEdits, TasksAssumption DEF AnotherInput, Shows, engine, Maybe
<1> QED
  BY <1>4, <1>5, <1>6, <1>7, <1>8, <1>9

\* The page makes a call, and disables the button for it.
LEMMA CallMade ==
  ASSUME Inv, UNCHANGED <<ome, dumps, live, faults, changes>>,
         page' \in PageState, page'.at = page.at, DoneIsQueued',
         NEW n, calls' = calls \cup {n}, Cardinality(calls) < MaxCalls,
         CallOK(n)', n.st = "sent", n.arg.mine,
         IF n.kind = "start" THEN ~page.submitting /\ page'.submitting
                             ELSE page'.submitting = page.submitting,
         On("record") => /\ page'.dump = page.dump
                         /\ IF n.kind \in Tool THEN ~page.busy /\ page'.busy
                                               ELSE page'.busy = page.busy,
         n.kind = "dump" => Button = None /\ FreshDump(n.arg.id),
         n.kind = "undump" => Button # None /\ n.arg.id = Button
  PROVE  Inv'
<1>0. On("record")' <=> On("record")
  BY DEF On
<1>1. WorldOK'
  BY AddedSize DEF Inv, WorldOK, EngineOK
<1>2. \A c \in calls' : CallOK(c)'
  <2> SUFFICES ASSUME NEW c \in calls, CallOK(c) PROVE CallOK(c)'
    BY DEF Inv
  <2> QED
    BY CallStays
<1>3. n \in CallState
  BY DEF CallOK
<1>4. Guarded(Starts(calls'), page'.submitting)
  <2>1. CASE n.kind = "start"
    <3>1. page.submitting = FALSE /\ page'.submitting = TRUE
      BY <2>1, PageShapes DEF Inv
    <3>2. Guarded(Starts(calls), FALSE)
      BY <3>1 DEF Inv
    <3>3. Starts(calls') = Starts(calls) \cup {n}
      BY <2>1, AddedParts
    <3>4. Guarded(Starts(calls) \cup {n}, TRUE)
      BY <3>2, GuardedAdded
    <3> QED
      BY <3>1, <3>3, <3>4
  <2>2. CASE n.kind # "start"
    BY <2>2, AddedParts DEF Inv, Tool
  <2> QED
    BY <2>1, <2>2
<1>5. ASSUME On("record") PROVE Guarded(Tools(calls'), page'.busy)
  <2>1. page.busy \in BOOLEAN /\ page'.busy \in BOOLEAN /\ Guarded(Tools(calls), page.busy)
    BY <1>0, <1>5, PageShapes DEF Inv, On, RecordState
  <2>2. CASE n.kind \in Tool
    <3>1. page.busy = FALSE /\ page'.busy = TRUE
      BY <1>5, <2>1, <2>2
    <3>2. Tools(calls') = Tools(calls) \cup {n}
      BY <2>2, AddedParts
    <3>3. Guarded(Tools(calls) \cup {n}, TRUE)
      BY <2>1, <3>1, GuardedAdded
    <3> QED
      BY <3>1, <3>2, <3>3
  <2>3. CASE n.kind \notin Tool
    BY <1>5, <2>1, <2>3, AddedParts DEF Tool
  <2> QED
    BY <2>2, <2>3
<1>6. Button' = Button
  BY <1>0 DEF Button
<1>7. OneDump(Tools(calls'), dumps, Button)
  <2>1. CASE n.kind \in Tool
    <3>1. Tools(calls') = Tools(calls) \cup {n} /\ OneDump(Tools(calls), dumps, Button)
      BY <2>1, AddedParts DEF Inv
    <3>2. n.kind = "dump" =>
            /\ Button = None /\ n.arg.id # None
            /\ \A d \in dumps : d.id # n.arg.id
            /\ \A x \in Tools(calls) : x.kind \in {"dump", "undump"} => x.arg.id # n.arg.id
      BY <1>3, CallShapes, Tasks DEF FreshDump, Tools, DumpCall, Call
    <3>3. OneDump(Tools(calls) \cup {n}, dumps, Button)
      BY <3>1, <3>2, OneDumpAsked
    <3> QED
      BY <3>1, <3>3
  <2>2. CASE n.kind \notin Tool
    BY <2>2, AddedParts DEF Inv, Tool
  <2> QED
    BY <2>1, <2>2
<1>8. Starts(calls)' = Starts(calls') /\ Tools(calls)' = Tools(calls')
  BY DEF Starts, Tools, OfKind
<1>9. Guarded(Starts(calls), page.submitting)'
  BY <1>4, <1>8 DEF Guarded
<1>10. On("record")' => Guarded(Tools(calls), page.busy)'
  BY <1>0, <1>5, <1>8 DEF Guarded
<1>11. OneDump(Tools(calls), dumps, Button)'
  BY <1>6, <1>7, <1>8 DEF OneDump
<1> QED
  BY <1>1, <1>2, <1>9, <1>10, <1>11 DEF Inv

LEMMA PollStep ==
  ASSUME Inv, NEW kind \in Kinds, Poll(kind)
  PROVE  Inv'
<1> PICK n : n = Sent("list", [mine |-> TRUE, kind |-> kind, app |-> page.app, rows |-> {}])
  OBVIOUS
<1>1. /\ UNCHANGED <<ome, dumps, live, faults, changes, page>>
      /\ calls' = calls \cup {n} /\ Cardinality(calls) < MaxCalls /\ page.app # None
  BY DEF Poll, Clicks, engine
<1>2. n \in PollCall
  BY <1>1, PageShapes DEF Inv, Maybe, PollCall, Call, Stage, Sent
<1>3. n.kind = "list" /\ n.st = "sent" /\ n.arg.mine
  BY DEF Sent
<1>4. n \in CallState
  BY <1>2 DEF CallState
<1>5. CallOK(n)'
  BY <1>3, <1>4, CallShapes DEF CallOK, AtHome, AddsUp, NamesItsApp, Tool
<1>6. page' \in PageState /\ DoneIsQueued'
  BY <1>1 DEF Inv, DoneIsQueued
<1> QED
  BY <1>1, <1>3, <1>5, <1>6, CallMade DEF Tool

LEMMA StopStep ==
  ASSUME Inv, NEW kind \in Kinds, Stop(kind)
  PROVE  Inv'
<1> PICK n : n = Sent("stop", [mine |-> TRUE, task |-> page.ask, app |-> page.ask.app])
  OBVIOUS
<1>1. /\ UNCHANGED <<ome, dumps, live, faults, changes, page>>
      /\ calls' = calls \cup {n} /\ Cardinality(calls) < MaxCalls
      /\ page.at = kind /\ page.ask # None
  BY DEF Stop, Clicks, engine, On
<1>2. page.ask \in Task /\ page.ask.app \in Apps
  BY <1>1, PageShapes, Tasks DEF Inv, ListState, RecordState, Maybe, Kinds
<1>3. n.kind = "stop" /\ n.st = "sent" /\ n.arg.mine /\ n.arg.app = n.arg.task.app
  BY DEF Sent
<1>4. n \in StopCall
  BY <1>2 DEF StopCall, Call, Stage, Sent
<1>5. n \in CallState
  BY <1>4 DEF CallState
<1>6. CallOK(n)'
  BY <1>3, <1>5, CallShapes DEF CallOK, AtHome, AddsUp, NamesItsApp, Tool
<1>7. page' \in PageState /\ DoneIsQueued'
  BY <1>1 DEF Inv, DoneIsQueued
<1> QED
  BY <1>1, <1>3, <1>6, <1>7, CallMade DEF Tool

LEMMA StartStep ==
  ASSUME Inv, NEW kind \in Kinds, NEW id \in Ids, NEW url,
         kind = "push" => url \in Urls, kind = "record" => url = None, Start(kind, id, url)
  PROVE  Inv'
<1> PICK task : task = [kind |-> kind, app |-> page.app, id |-> id, url |-> url]
  OBVIOUS
<1> PICK n : n = Sent("start", [mine |-> TRUE, then |-> None, got |-> {}, task |-> task])
  OBVIOUS
<1>1. /\ UNCHANGED <<ome, dumps, live, faults, changes>>
      /\ calls' = calls \cup {n} /\ Cardinality(calls) < MaxCalls
      /\ page.at = kind /\ page.app # None /\ ~page.submitting
      /\ page' = [page EXCEPT !.submitting = TRUE]
  BY DEF Start, engine, On
<1>2. page \in PageState /\ page.app \in Apps
  BY <1>1, PageShapes DEF Inv, Maybe
<1>3. task \in Task
  BY <1>2 DEF Task, Kinds
<1>4. n.kind = "start" /\ n.st = "sent" /\ n.arg.mine /\ n \in StartCall
  BY <1>3 DEF StartCall, Call, Stage, Sent
<1>5. ~IsQueue(n)
  BY DEF IsQueue, Sent
<1>6. n \in CallState
  BY <1>4 DEF CallState
<1>7. CallOK(n)'
  BY <1>4, <1>5, <1>6 DEF CallOK, AtHome, AddsUp, NamesItsApp, Tool
<1>8. Alike(page, page', TRUE)
  BY <1>1, <1>2, ListEdits
<1>9. page' \in PageState /\ page'.at = page.at /\ page'.submitting
      /\ (On("record") => page'.dump = page.dump /\ page'.busy = page.busy)
  BY <1>8 DEF Alike, On
<1>10. DoneIsQueued'
  BY <1>1, <1>9 DEF DoneIsQueued, Kinds
<1> QED
  BY <1>1, <1>4, <1>7, <1>9, <1>10, CallMade DEF Tool

LEMMA UseStep ==
  ASSUME Inv, NEW o \in Apps \X Ids,
         StopDump(o) \/ Conclude(o) \/ \E id \in 1..MaxDumps : StartDump(o, id)
  PROVE  Inv'
<1>1. page \in RecordState /\ page.at = "record" /\ Button = page.dump
  BY PageShapes DEF Inv, StopDump, Conclude, StartDump, On, Button
<1>2. /\ [page EXCEPT !.busy = TRUE] \in RecordState
      /\ [page EXCEPT !.busy = TRUE].at = "record"
      /\ [page EXCEPT !.busy = TRUE].submitting = page.submitting
      /\ [page EXCEPT !.busy = TRUE].busy = TRUE
      /\ [page EXCEPT !.busy = TRUE].dump = page.dump
  BY <1>1 DEF RecordState
<1>3. ASSUME NEW n \in DumpCall \cup ConcludeCall, Use(n), n.st = "sent", n.arg.mine,
             n.kind = "dump" => Button = None /\ FreshDump(n.arg.id),
             n.kind = "undump" => Button # None /\ n.arg.id = Button
      PROVE  Inv'
  <2>1. /\ UNCHANGED <<ome, dumps, live, faults, changes>> /\ ~page.busy
        /\ calls' = calls \cup {n} /\ Cardinality(calls) < MaxCalls
        /\ page' = [page EXCEPT !.busy = TRUE]
    BY <1>3 DEF Use, engine
  <2>2. n.kind \in Tool
    BY DEF DumpCall, ConcludeCall, Call, Tool
  <2>3. n \in CallState /\ ~IsQueue(n)
    BY <2>2 DEF CallState, IsQueue, Tool
  <2>4. page' \in PageState /\ DoneIsQueued' /\ page'.at = page.at
    BY <1>1, <1>2, <2>1 DEF PageState, DoneIsQueued
  <2>5. CallOK(n)'
    BY <2>2, <2>3, <2>4, <1>1 DEF CallOK, AtHome, AddsUp, NamesItsApp, Tool, On
  <2>6. n.kind # "start"
    BY <2>2 DEF Tool
  <2> QED
    BY <1>1, <1>2, <1>3, <2>1, <2>2, <2>4, <2>5, <2>6, CallMade
<1>4. ASSUME NEW id \in 1..MaxDumps, StartDump(o, id) PROVE Inv'
  <2> DEFINE n == Sent("dump", [mine |-> TRUE, out |-> o, id |-> id])
  <2>1. n \in DumpCall /\ n.st = "sent" /\ n.arg.mine /\ n.kind = "dump" /\ n.arg.id = id
    BY DEF DumpCall, Call, Stage, Sent
  <2>2. Use(n) /\ Button = None /\ FreshDump(id)
    BY <1>1, <1>4 DEF StartDump
  <2> HIDE DEF n
  <2> QED
    BY <1>3, <2>1, <2>2
<1>5. CASE StopDump(o)
  <2> DEFINE n == Sent("undump", [mine |-> TRUE, out |-> o, id |-> page.dump])
  <2>1. Use(n) /\ page.dump # None
    BY <1>5 DEF StopDump
  <2>2. page.dump \in 1..MaxDumps
    BY <1>1, <2>1 DEF RecordState, Maybe
  <2>3. n \in DumpCall /\ n.st = "sent" /\ n.arg.mine /\ n.kind = "undump" /\ n.arg.id = page.dump
    BY <2>2 DEF DumpCall, Call, Stage, Sent
  <2> HIDE DEF n
  <2> QED
    BY <1>1, <1>3, <2>1, <2>3
<1>6. CASE Conclude(o)
  <2> DEFINE n == Sent("conclude", [mine |-> TRUE, out |-> o])
  <2>1. Use(n)
    BY <1>6 DEF Conclude
  <2>2. n \in ConcludeCall /\ n.st = "sent" /\ n.arg.mine /\ n.kind = "conclude"
    BY DEF ConcludeCall, Call, Stage, Sent
  <2> HIDE DEF n
  <2> QED
    BY <1>3, <2>1, <2>2
<1> QED
  BY <1>4, <1>5, <1>6

LEMMA PlansOK ==
  ASSUME page.app \in Apps, page.stream \in Ids, NEW f \in Form
  PROVE  /\ RecordPlan \in Plan /\ PushPlan(f) \in Plan /\ Wanted(f) \in SUBSET Plan
         /\ PushPart(f) \in Then
         /\ PushPart(f) = NoPush => Wanted(f) = IF f.record THEN {RecordPlan} ELSE {}
         /\ PushPart(f).todo = "push" => /\ PushPart(f).task = PushPlan(f)
                                         /\ f.push
         /\ PushPart(f) = NoPush \/ PushPart(f) = NoUrl \/ PushPart(f).todo = "push"
         /\ NoPush.todo # "push" /\ NoUrl.todo # "push" /\ NoPush # NoUrl
<1>1. f.url \in Urls \cup {None} /\ f.push \in BOOLEAN /\ f.record \in BOOLEAN
  BY DEF Form
<1>2. RecordPlan \in Plan /\ PushPlan(f) \in Plan
  BY <1>1 DEF RecordPlan, PushPlan, Planned, Plan, Task
<1>3. Wanted(f) \in SUBSET Plan
  BY <1>2 DEF Wanted
<1> HIDE DEF RecordPlan, PushPlan
<1>4. CASE ~f.push
  BY <1>1, <1>2, <1>3, <1>4 DEF PushPart, Then, NoPush, NoUrl, Wanted
<1>5. CASE f.push /\ f.url = None
  BY <1>1, <1>2, <1>3, <1>5 DEF PushPart, Then, NoPush, NoUrl, Wanted
<1>6. CASE f.push /\ f.url # None
  <2>1. PushPart(f) = [todo |-> "push", task |-> PushPlan(f)]
    BY <1>6 DEF PushPart
  <2> QED
    BY <1>2, <1>3, <1>6, <2>1 DEF Then, NoPush, NoUrl
<1> QED
  BY <1>1, <1>4, <1>5, <1>6

LEMMA CreateStep ==
  ASSUME Inv, NEW f \in Form, Create(f)
  PROVE  Inv'
<1>1. /\ page \in InputState /\ page.at = "add" /\ page.submitting = FALSE /\ ~page.done.on
      /\ UNCHANGED <<ome, dumps, live, faults, changes>>
  <2>1. page.at = "add" /\ ~page.submitting /\ ~page.done.on
    BY DEF Create, Editing, On
  <2>2. page \in InputState /\ page.submitting \in BOOLEAN
    BY <2>1, PageShapes DEF Inv
  <2> QED
    BY <2>1, <2>2 DEF Create, engine
<1>2. page.app \in Apps /\ page.stream \in Ids
  BY <1>1 DEF Create, IngestKey, KeyOf, InputState, Maybe
<1>3. ASSUME NEW task \in Plan, NEW then \in Then, Queue(f, task, then),
             then # NoUrl =>
               Wanted(f) = {task} \cup (IF then.todo = "push" THEN {then.task} ELSE {})
      PROVE  Inv'
  <2> PICK n : n = Sent("start", [mine |-> TRUE, task |-> task, then |-> then,
                                  got |-> {}, wanted |-> Wanted(f)])
    OBVIOUS
  <2>1. /\ calls' = calls \cup {n} /\ Cardinality(calls) < MaxCalls
        /\ page' = [page EXCEPT !.submitting = TRUE]
    BY <1>3 DEF Queue
  <2>2. Wanted(f) \in SUBSET Plan
    BY <1>2, PlansOK
  <2>3. n \in QueueCall /\ n.kind = "start" /\ n.st = "sent" /\ n.arg.mine
    BY <2>2 DEF QueueCall, Call, Stage, Sent
  <2>4. page' \in InputState /\ page'.at = "add" /\ page'.submitting = TRUE /\ page'.done = page.done
    BY <1>1, <2>1 DEF InputState
  <2>5. AddsUp(n)
    BY <1>3 DEF AddsUp, Left, Sent
  <2>6. CallOK(n)'
    BY <2>3, <2>4, <2>5 DEF CallOK, AtHome, AddsUp, NamesItsApp, Tool, On, CallState, Left
  <2>7. page' \in PageState /\ DoneIsQueued' /\ ~On("record")
    BY <1>1, <2>4 DEF PageState, DoneIsQueued, On
  <2> QED
    BY <1>1, <2>1, <2>3, <2>4, <2>6, <2>7, CallMade
<1>4. CASE f.record /\ Queue(f, RecordPlan, PushPart(f))
  <2>1. PushPart(f) # NoUrl =>
          Wanted(f) = {RecordPlan} \cup
            (IF PushPart(f).todo = "push" THEN {PushPart(f).task} ELSE {})
    BY <1>2, <1>4, PlansOK DEF Wanted
  <2> QED
    BY <1>2, <1>3, <1>4, <2>1, PlansOK
<1>5. CASE ~f.record /\ PushPart(f).todo = "push" /\ Queue(f, PushPlan(f), NoPush)
  <2>1. Wanted(f) = {PushPlan(f)} /\ NoPush \in Then /\ NoPush.todo # "push"
    BY <1>2, <1>5, PlansOK DEF Wanted, Then, NoPush
  <2> QED
    BY <1>2, <1>3, <1>5, <2>1, PlansOK
<1>6. CASE /\ page' = [page EXCEPT !.done = [on |-> TRUE, wanted |-> {}, got |-> {}]]
           /\ UNCHANGED calls
  <2>1. /\ page' \in InputState /\ page'.at = "add" /\ page'.submitting = page.submitting
        /\ page'.done.wanted = page'.done.got
    BY <1>1, <1>6 DEF InputState
  <2>2. faults' \in 0..MaxFaults /\ changes' \in 0..MaxChanges
    BY <1>1 DEF Inv, WorldOK, EngineOK
  <2> QED
    BY <1>1, <1>6, <2>1, <2>2, PageOnly DEF PageState, DoneIsQueued, On
<1> QED
  BY <1>4, <1>5, <1>6 DEF Create

\* The polls go when another application is selected.
LEMMA SelectStep ==
  ASSUME Inv, page.at # "add", NEW a \in Apps, Select(a)
  PROVE  Inv'
<1>1. page \in PageState /\ page.at \in Kinds
  BY PageShapes DEF Inv, Kinds
<1>2. /\ page' = [page EXCEPT !.app = a] /\ calls' = WithoutPolls
      /\ UNCHANGED <<ome, dumps, live, faults>> /\ changes' = changes + 1 /\ changes < MaxChanges
  BY DEF Select, engine
<1>3. Alike(page, page', page.submitting)
  BY <1>1, <1>2, ListEdits
<1>4. calls' \subseteq calls /\ Starts(calls') = Starts(calls) /\ Tools(calls') = Tools(calls)
  BY <1>2 DEF WithoutPolls, Starts, Tools, OfKind, Tool
<1>5. WorldOK'
  <2>1. IsFiniteSet(calls') /\ Cardinality(calls') <= MaxCalls
    BY <1>4, FewerSize DEF Inv, WorldOK, EngineOK
  <2>2. changes' \in 0..MaxChanges
    BY <1>2, TasksAssumption DEF Inv, WorldOK, EngineOK
  <2> QED
    BY <1>2, <2>1, <2>2 DEF Inv, WorldOK, EngineOK
<1>6. \A c \in calls' : CallOK(c)'
  <2> SUFFICES ASSUME NEW c \in calls' PROVE CallOK(c)'
    OBVIOUS
  <2> QED
    BY <1>3, <1>4, CallStays DEF Inv, Alike
<1>7. page' \in PageState /\ DoneIsQueued'
  BY <1>1, <1>3 DEF Alike, DoneIsQueued, Kinds
<1>8. Starts(calls)' = Starts(calls) /\ Tools(calls)' = Tools(calls)
  BY <1>4 DEF Starts, Tools, OfKind
<1>9. Guarded(Starts(calls), page.submitting)'
  BY <1>3, <1>8 DEF Inv, Guarded, Alike
<1>10. On("record")' => Guarded(Tools(calls), page.busy)'
  BY <1>3, <1>8 DEF Inv, Guarded, Alike, On
<1>11. Button' = Button
  BY <1>3 DEF Button, Alike, On
<1>12. OneDump(Tools(calls), dumps, Button)'
  BY <1>2, <1>8, <1>11 DEF Inv, OneDump
<1> QED
  BY <1>5, <1>6, <1>7, <1>9, <1>10, <1>12 DEF Inv

\* Whatever others do, OME has one task of an id, and dumps only where there is an output.
LEMMA OthersStep ==
  ASSUME Inv, OthersChange
  PROVE  Inv'
<1>1. /\ UNCHANGED <<page, calls, faults>> /\ changes' = changes + 1 /\ changes < MaxChanges
      /\ dumps' \subseteq dumps
  BY DEF OthersChange
<1>2. WorldOK'
  <2>1. changes' \in 0..MaxChanges
    BY <1>1, TasksAssumption DEF Inv, WorldOK, EngineOK
  <2>2. ome' \subseteq Task /\ \A t, u \in ome' : SameTask(t, u) => t = u
    BY DEF OthersChange, Inv, WorldOK, EngineOK, SameTask
  <2>3. live' \subseteq Apps \X Ids /\ \A d \in dumps' : d.out \in live'
    BY DEF OthersChange, Inv, WorldOK, EngineOK
  <2> QED
    BY <1>1, <2>1, <2>2, <2>3 DEF Inv, WorldOK, EngineOK
<1>3. OneDump(Tools(calls), dumps', Button)
  BY <1>1, OneDumpFewer DEF Inv
<1>4. OneDump(Tools(calls), dumps, Button)'
  BY <1>1, <1>3 DEF OneDump, Tools, Button, On
<1>5. \A c \in calls' : CallOK(c)'
  <2> SUFFICES ASSUME NEW c \in calls' PROVE CallOK(c)'
    OBVIOUS
  <2> QED
    BY <1>1, CallStays DEF Inv
<1>6. page' \in PageState /\ DoneIsQueued'
  BY <1>1 DEF Inv, DoneIsQueued
<1>7. Guarded(Starts(calls), page.submitting)' /\ (On("record")' => Guarded(Tools(calls), page.busy)')
  BY <1>1 DEF Inv, Guarded, Starts, Tools, OfKind, On
<1> QED
  BY <1>2, <1>4, <1>5, <1>6, <1>7 DEF Inv

\* A call moves on, or another one takes its place.
LEMMA CallMoved ==
  ASSUME Inv, UNCHANGED page, EngineOK', NEW c \in calls, NEW n, CallOK(n),
         n.kind = c.kind, n.arg.mine = c.arg.mine,
         calls' = (calls \ {c}) \cup {n},
         IF c.kind \in Tool THEN OneDump((Tools(calls) \ {c}) \cup {n}, dumps', Button)
                            ELSE dumps' = dumps
  PROVE  Inv'
<1>1. WorldOK'
  BY MovedSize DEF Inv, WorldOK
<1>2. \A x \in calls' : CallOK(x)'
  <2> SUFFICES ASSUME NEW x \in calls' PROVE CallOK(x)'
    OBVIOUS
  <2> QED
    BY CallStays DEF Inv
<1>3. /\ c.kind = "start" => c \in Starts(calls) /\ Starts(calls') = (Starts(calls) \ {c}) \cup {n}
      /\ c.kind # "start" => Starts(calls') = Starts(calls)
      /\ c.kind \in Tool => c \in Tools(calls) /\ Tools(calls') = (Tools(calls) \ {c}) \cup {n}
      /\ c.kind \notin Tool => Tools(calls') = Tools(calls)
  BY DEF Starts, Tools, OfKind, Tool
<1>4. ASSUME NEW C, NEW b, c \in C, Guarded(C, b) PROVE Guarded((C \ {c}) \cup {n}, b)
  BY <1>4, GuardedMoved
<1>5. Guarded(Starts(calls'), page.submitting)
  BY <1>3, <1>4 DEF Inv
<1>6. On("record") => Guarded(Tools(calls'), page.busy)
  BY <1>3, <1>4 DEF Inv
<1>7. OneDump(Tools(calls'), dumps', Button)
  BY <1>3 DEF Inv
<1>8. Starts(calls)' = Starts(calls') /\ Tools(calls)' = Tools(calls')
  BY DEF Starts, Tools, OfKind
<1>9. Guarded(Starts(calls), page.submitting)'
  BY <1>5, <1>8 DEF Guarded
<1>10. On("record")' => Guarded(Tools(calls), page.busy)'
  BY <1>6, <1>8 DEF Guarded, On
<1>11. OneDump(Tools(calls), dumps, Button)'
  BY <1>7, <1>8 DEF OneDump, Button, On
<1>12. page' \in PageState /\ DoneIsQueued'
  BY DEF Inv, DoneIsQueued
<1> QED
  BY <1>1, <1>2, <1>9, <1>10, <1>11, <1>12 DEF Inv

\* A call that is refused, or that is carried out and answers with no more than
\* that, is as right as it was.
LEMMA AnswerOK ==
  ASSUME NEW c, CallOK(c), c.st = "sent", NEW st \in {"ok", "refused"},
         c.kind = "start" => st = "refused",
         NEW n, n = [st |-> st, kind |-> c.kind, arg |-> c.arg]
  PROVE  CallOK(n)
<1>1. c \in CallState /\ (IsQueue(n) <=> IsQueue(c))
  BY DEF CallOK, IsQueue
<1>2. n \in CallState
  BY <1>1 DEF CallState, PollCall, StartCall, QueueCall, StopCall, DumpCall, ConcludeCall, Call, Stage
<1>3. AddsUp(n)
  <2> SUFFICES ASSUME IsQueue(c) PROVE AddsUp(n)
    BY <1>1 DEF AddsUp
  <2> QED
    BY CallShapes DEF CallOK, AddsUp, Left
<1>4. AtHome(n) /\ NamesItsApp(n)
  BY <1>1 DEF CallOK, AtHome, NamesItsApp
<1> QED
  BY <1>2, <1>3, <1>4 DEF CallOK

LEMMA RefuseStep ==
  ASSUME Inv, NEW c \in calls, Refuse(c)
  PROVE  Inv'
<1> PICK n : n = [st |-> "refused", kind |-> c.kind, arg |-> c.arg]
  OBVIOUS
<1>1. /\ UNCHANGED <<ome, dumps, live, page, changes>> /\ c.st = "sent"
      /\ calls' = (calls \ {c}) \cup {n} /\ faults' = faults + 1 /\ faults < MaxFaults
  BY DEF Refuse, engine, Denied, Moved
<1>2. EngineOK'
  BY <1>1, TasksAssumption DEF Inv, WorldOK, EngineOK
<1>3. CallOK(n)
  BY <1>1, AnswerOK DEF Inv
<1>4. c.kind \in Tool => OneDump((Tools(calls) \ {c}) \cup {n}, dumps', Button)
  BY <1>1, OneDumpKept DEF Inv, Tools
<1> QED
  BY <1>1, <1>2, <1>3, <1>4, CallMoved

LEMMA ListStep ==
  ASSUME Inv, NEW c \in calls, ListTasks(c)
  PROVE  Inv'
<1> PICK n : n = [st |-> "ok", kind |-> "list",
                  arg |-> [c.arg EXCEPT !.rows = TasksOf(c.arg.kind, c.arg.app)]]
  OBVIOUS
<1>1. /\ UNCHANGED <<ome, dumps, live, page, faults, changes>> /\ c.st = "sent" /\ c.kind = "list"
      /\ calls' = (calls \ {c}) \cup {n}
  BY DEF ListTasks, engine, Is, Done, Moved
<1>2. EngineOK'
  BY <1>1 DEF Inv, WorldOK, EngineOK
<1>3. c \in PollCall
  BY <1>1, CallShapes DEF Inv, CallOK
<1>4. TasksOf(c.arg.kind, c.arg.app) \subseteq Task
  BY DEF Inv, WorldOK, EngineOK, TasksOf
<1>5. n \in PollCall /\ n.arg.mine = c.arg.mine
  BY <1>3, <1>4 DEF PollCall, Call, Stage
<1>6. CallOK(n)
  BY <1>5 DEF CallOK, CallState, AtHome, AddsUp, NamesItsApp, IsQueue, Tool
<1> QED
  BY <1>1, <1>2, <1>5, <1>6, CallMoved DEF Tool

LEMMA StartTaskStep ==
  ASSUME Inv, NEW c \in calls, StartTask(c)
  PROVE  Inv'
<1>1. /\ UNCHANGED <<dumps, live, page, faults, changes>> /\ c.st = "sent" /\ c.kind = "start"
      /\ CallOK(c)
  BY DEF StartTask, Is, Inv
<1>2. CASE /\ calls' = Denied(calls, c)
           /\ UNCHANGED ome
  <2> PICK n : n = [st |-> "refused", kind |-> c.kind, arg |-> c.arg]
    OBVIOUS
  <2>1. calls' = (calls \ {c}) \cup {n}
    BY <1>2 DEF Denied, Moved
  <2>2. EngineOK'
    BY <1>1, <1>2 DEF Inv, WorldOK, EngineOK
  <2>3. CallOK(n)
    BY <1>1, AnswerOK
  <2> QED
    BY <1>1, <2>1, <2>2, <2>3, CallMoved DEF Tool
<1>3. CASE /\ c.arg.task \in Task /\ ~\E t \in ome : SameTask(t, c.arg.task)
           /\ calls' = Done(calls, c, [c.arg EXCEPT !.got = @ \cup {c.arg.task}])
           /\ ome' = ome \cup {c.arg.task}
  <2> PICK n : n = [st |-> "ok", kind |-> c.kind,
                    arg |-> [c.arg EXCEPT !.got = @ \cup {c.arg.task}]]
    OBVIOUS
  <2>1. calls' = (calls \ {c}) \cup {n}
    BY <1>3 DEF Done, Moved
  <2>2. EngineOK'
    <3>1. \A t, u \in ome' : SameTask(t, u) => t = u
      BY <1>3 DEF Inv, WorldOK, EngineOK, SameTask
    <3> QED
      BY <1>1, <1>3, <3>1 DEF Inv, WorldOK, EngineOK
  <2>3. CASE ~IsQueue(c)
    <3>1. c \in StartCall
      BY <1>1, <2>3, CallShapes DEF CallOK
    <3>2. n \in StartCall /\ n.arg.mine = c.arg.mine /\ ~IsQueue(n)
      BY <1>1, <1>3, <2>3, <3>1 DEF StartCall, Call, Stage, IsQueue
    <3>3. CallOK(n)
      BY <1>1, <3>2 DEF CallOK, CallState, AtHome, AddsUp, NamesItsApp, Tool
    <3> QED
      BY <1>1, <2>1, <2>2, <3>2, <3>3, CallMoved DEF Tool
  <2>4. CASE IsQueue(c)
    <3>1. c \in QueueCall /\ AddsUp(c) /\ AtHome(c) /\ c.arg.task \in Plan
      BY <1>1, <1>3, <2>4, CallShapes, Tasks DEF CallOK
    <3>2. /\ n \in QueueCall /\ n.arg.mine = c.arg.mine /\ n.st = "ok" /\ n.kind = "start"
          /\ n.arg.got = c.arg.got \cup {c.arg.task} /\ n.arg.then = c.arg.then
          /\ n.arg.wanted = c.arg.wanted
      BY <1>1, <3>1 DEF QueueCall, Call, Stage
    <3>3. AddsUp(n)
      BY <1>1, <2>4, <3>1, <3>2 DEF AddsUp, Left
    <3>4. CallOK(n)
      BY <2>4, <3>1, <3>2, <3>3 DEF CallOK, CallState, AtHome, NamesItsApp, Tool
    <3> QED
      BY <1>1, <2>1, <2>2, <3>2, <3>4, CallMoved DEF Tool
  <2> QED
    BY <2>3, <2>4
<1> QED
  BY <1>2, <1>3 DEF StartTask

LEMMA StopTaskStep ==
  ASSUME Inv, NEW c \in calls, StopTask(c)
  PROVE  Inv'
<1>1. /\ UNCHANGED <<dumps, live, page, faults, changes>> /\ ome' \subseteq ome
      /\ c.st = "sent" /\ c.kind = "stop" /\ CallOK(c)
      /\ calls' = Denied(calls, c) \/ calls' = Done(calls, c, c.arg)
  BY DEF StopTask, Is, Inv
<1>2. PICK st \in {"ok", "refused"} :
        calls' = (calls \ {c}) \cup {[st |-> st, kind |-> c.kind, arg |-> c.arg]}
  BY <1>1 DEF Denied, Done, Moved
<1> PICK n : n = [st |-> st, kind |-> c.kind, arg |-> c.arg]
  OBVIOUS
<1>3. EngineOK'
  BY <1>1 DEF Inv, WorldOK, EngineOK
<1>4. CallOK(n)
  BY <1>1, AnswerOK
<1> QED
  BY <1>1, <1>2, <1>3, <1>4, CallMoved DEF Tool

LEMMA ConcludeStep ==
  ASSUME Inv, NEW c \in calls, ConcludeHlsLive(c)
  PROVE  Inv'
<1>1. /\ UNCHANGED <<ome, dumps, live, page, faults, changes>>
      /\ c.st = "sent" /\ c.kind = "conclude" /\ CallOK(c)
      /\ calls' = Denied(calls, c) \/ calls' = Done(calls, c, c.arg)
  BY DEF ConcludeHlsLive, Is, Inv, engine
<1>2. PICK st \in {"ok", "refused"} :
        calls' = (calls \ {c}) \cup {[st |-> st, kind |-> c.kind, arg |-> c.arg]}
  BY <1>1 DEF Denied, Done, Moved
<1> PICK n : n = [st |-> st, kind |-> c.kind, arg |-> c.arg]
  OBVIOUS
<1>3. EngineOK'
  BY <1>1 DEF Inv, WorldOK, EngineOK
<1>4. CallOK(n)
  BY <1>1, AnswerOK
<1>5. OneDump((Tools(calls) \ {c}) \cup {n}, dumps', Button)
  BY <1>1, OneDumpKept DEF Inv, Tools, Tool
<1> QED
  BY <1>1, <1>2, <1>3, <1>4, <1>5, CallMoved

LEMMA StartDumpStep ==
  ASSUME Inv, NEW c \in calls, StartHlsDump(c)
  PROVE  Inv'
<1>1. /\ UNCHANGED <<ome, live, page, faults, changes>>
      /\ c.st = "sent" /\ c.kind = "dump" /\ CallOK(c) /\ c \in Tools(calls) /\ c.kind \in Tool
  BY DEF StartHlsDump, Is, Inv, Tools, Tool
<1>2. CASE calls' = Denied(calls, c) /\ UNCHANGED dumps
  <2> PICK n : n = [st |-> "refused", kind |-> c.kind, arg |-> c.arg]
    OBVIOUS
  <2>1. calls' = (calls \ {c}) \cup {n}
    BY <1>2 DEF Denied, Moved
  <2>2. EngineOK'
    BY <1>1, <1>2 DEF Inv, WorldOK, EngineOK
  <2>3. CallOK(n)
    BY <1>1, AnswerOK
  <2>4. OneDump((Tools(calls) \ {c}) \cup {n}, dumps', Button)
    BY <1>1, <1>2, OneDumpKept DEF Inv
  <2> QED
    BY <1>1, <2>1, <2>2, <2>3, <2>4, CallMoved
<1>3. CASE /\ c.arg.out \in live
           /\ dumps' = dumps \cup {[id |-> c.arg.id, out |-> c.arg.out, mine |-> c.arg.mine]}
           /\ calls' = Done(calls, c, c.arg)
  <2> PICK n : n = [st |-> "ok", kind |-> c.kind, arg |-> c.arg]
    OBVIOUS
  <2> PICK d : d = [id |-> c.arg.id, out |-> c.arg.out, mine |-> c.arg.mine]
    OBVIOUS
  <2>1. calls' = (calls \ {c}) \cup {n} /\ dumps' = dumps \cup {d}
    BY <1>3 DEF Done, Moved
  <2>2. d \in Dump /\ d.out \in live
    <3>1. c \in DumpCall
      BY <1>1, CallShapes DEF CallOK
    <3> QED
      BY <1>3, <3>1 DEF DumpCall, Call, Dump
  <2>3. EngineOK'
    BY <1>1, <2>1, <2>2 DEF Inv, WorldOK, EngineOK
  <2>4. CallOK(n)
    BY <1>1, AnswerOK
  <2>5. OneDump((Tools(calls) \ {c}) \cup {n}, dumps \cup {d}, Button)
    BY <1>1, OneDumpStarted DEF Inv, Is
  <2> QED
    BY <1>1, <2>1, <2>3, <2>4, <2>5, CallMoved
<1> QED
  BY <1>2, <1>3 DEF StartHlsDump

LEMMA StopDumpStep ==
  ASSUME Inv, NEW c \in calls, StopHlsDump(c)
  PROVE  Inv'
<1> DEFINE hit == {d \in dumps : d.id = c.arg.id /\ d.out = c.arg.out}
<1>1. /\ UNCHANGED <<ome, live, page, faults, changes>> /\ dumps' = dumps \ hit
      /\ c.st = "sent" /\ c.kind = "undump" /\ CallOK(c) /\ c \in Tools(calls) /\ c.kind \in Tool
      /\ calls' = IF hit = {} THEN Denied(calls, c) ELSE Done(calls, c, c.arg)
  BY DEF StopHlsDump, Is, Inv, Tools, Tool
<1>2. EngineOK'
  BY <1>1 DEF Inv, WorldOK, EngineOK
<1>3. CASE hit = {}
  <2> PICK n : n = [st |-> "refused", kind |-> c.kind, arg |-> c.arg]
    OBVIOUS
  <2>1. calls' = (calls \ {c}) \cup {n} /\ dumps' = dumps
    BY <1>1, <1>3 DEF Denied, Moved
  <2>2. CallOK(n)
    BY <1>1, AnswerOK
  <2>3. OneDump((Tools(calls) \ {c}) \cup {n}, dumps, Button)
    BY <1>1, OneDumpKept DEF Inv
  <2> QED
    BY <1>1, <1>2, <2>1, <2>2, <2>3, CallMoved
<1>4. CASE hit # {}
  <2> PICK n : n = [st |-> "ok", kind |-> c.kind, arg |-> c.arg]
    OBVIOUS
  <2>1. calls' = (calls \ {c}) \cup {n}
    BY <1>1, <1>4 DEF Done, Moved
  <2>2. CallOK(n)
    BY <1>1, AnswerOK
  <2>3. \A d \in hit : d.id = c.arg.id
    OBVIOUS
  <2> HIDE DEF hit
  <2>4. hit \in SUBSET dumps
    BY DEF hit
  <2>5. OneDump((Tools(calls) \ {c}) \cup {n}, dumps \ hit, Button)
    BY <1>1, <1>4, <2>3, <2>4, OneDumpStopped DEF Inv, Is
  <2> QED
    BY <1>1, <1>2, <2>1, <2>2, <2>5, CallMoved
<1> QED
  BY <1>3, <1>4

LEMMA QueueGoesOn ==
  ASSUME Inv, NEW c \in calls, RecordQueued(c)
  PROVE  Inv'
<1> PICK n : n = Sent("start", [c.arg EXCEPT !.task = c.arg.then.task, !.then = NoPush])
  OBVIOUS
<1>1. /\ UNCHANGED <<ome, dumps, live, page, faults, changes>>
      /\ IsQueue(c) /\ c.st = "ok" /\ c.arg.then.todo = "push" /\ CallOK(c)
      /\ calls' = (calls \ {c}) \cup {n}
  BY DEF RecordQueued, engine, Inv
<1>2. EngineOK'
  BY <1>1 DEF Inv, WorldOK, EngineOK
<1>3. c \in QueueCall /\ AddsUp(c) /\ AtHome(c) /\ c.kind = "start"
  BY <1>1, CallShapes DEF CallOK
<1>4. c.arg.then.task \in Plan /\ NoPush \in Then /\ c.arg.then # NoUrl /\ NoPush.todo # "push"
  BY <1>1, <1>3 DEF QueueCall, Call, Then, NoPush, NoUrl
<1>5. /\ n \in QueueCall /\ n.kind = "start" /\ n.st = "sent"
      /\ n.arg.mine = c.arg.mine /\ n.arg.got = c.arg.got /\ n.arg.wanted = c.arg.wanted
      /\ n.arg.task = c.arg.then.task /\ n.arg.then = NoPush
  BY <1>3, <1>4 DEF QueueCall, Call, Stage, Sent
<1>6. AddsUp(n)
  BY <1>1, <1>3, <1>4, <1>5 DEF AddsUp, Left
<1>7. CallOK(n)
  BY <1>1, <1>3, <1>5, <1>6 DEF CallOK, CallState, AtHome, NamesItsApp, Tool
<1> QED
  BY <1>1, <1>2, <1>3, <1>5, <1>7, CallMoved DEF Tool

\* A call ends, and the button it disabled is enabled again.
LEMMA CallEnded ==
  ASSUME Inv, EngineOK', NEW c \in calls, calls' = calls \ {c},
         page' \in PageState, page'.at = page.at, DoneIsQueued',
         page'.submitting = IF c.kind = "start" /\ c.arg.mine THEN FALSE ELSE page.submitting,
         On("record") =>
           page'.busy = IF c.kind \in Tool /\ c.arg.mine THEN FALSE ELSE page.busy,
         OneDump(Tools(calls) \ {c}, dumps', Button')
  PROVE  Inv'
<1>0. On("record")' <=> On("record")
  BY DEF On
<1>1. WorldOK'
  BY FewerSize DEF Inv, WorldOK
<1>2. \A x \in calls' : CallOK(x)'
  <2> SUFFICES ASSUME NEW x \in calls' PROVE CallOK(x)'
    OBVIOUS
  <2> QED
    BY CallStays DEF Inv
<1>3. /\ Starts(calls') = Starts(calls) \ {c} /\ Tools(calls') = Tools(calls) \ {c}
      /\ c.kind = "start" <=> c \in Starts(calls)
      /\ c.kind \in Tool <=> c \in Tools(calls)
  BY DEF Starts, Tools, OfKind
<1>4. Guarded(Starts(calls'), page'.submitting)
  <2>1. Guarded(Starts(calls), page.submitting) /\ page.submitting \in BOOLEAN
    BY PageShapes DEF Inv
  <2>2. CASE c \in Starts(calls)
    <3>1. page'.submitting = IF c.arg.mine THEN FALSE ELSE page.submitting
      BY <1>3, <2>2
    <3>2. Guarded(Starts(calls) \ {c}, IF c.arg.mine THEN FALSE ELSE page.submitting)
      BY <2>1, <2>2, GuardedRemoved
    <3> QED
      BY <1>3, <3>1, <3>2
  <2>3. CASE c \notin Starts(calls)
    <3>1. Starts(calls') = Starts(calls) /\ page'.submitting = page.submitting
      BY <1>3, <2>3
    <3> QED
      BY <2>1, <3>1
  <2> QED
    BY <2>2, <2>3
<1>5. ASSUME On("record") PROVE Guarded(Tools(calls'), page'.busy)
  <2>1. Guarded(Tools(calls), page.busy) /\ page.busy \in BOOLEAN
    BY <1>5, PageShapes DEF Inv, On, RecordState
  <2>2. CASE c \in Tools(calls)
    <3>1. page'.busy = IF c.arg.mine THEN FALSE ELSE page.busy
      BY <1>3, <1>5, <2>2
    <3>2. Guarded(Tools(calls) \ {c}, IF c.arg.mine THEN FALSE ELSE page.busy)
      BY <2>1, <2>2, GuardedRemoved
    <3> QED
      BY <1>3, <3>1, <3>2
  <2>3. CASE c \notin Tools(calls)
    <3>1. Tools(calls') = Tools(calls) /\ page'.busy = page.busy
      BY <1>3, <1>5, <2>3
    <3> QED
      BY <2>1, <3>1
  <2> QED
    BY <2>2, <2>3
<1>6. Starts(calls)' = Starts(calls') /\ Tools(calls)' = Tools(calls')
  BY DEF Starts, Tools, OfKind
<1>7. Guarded(Starts(calls), page.submitting)'
  BY <1>4, <1>6 DEF Guarded
<1>8. On("record")' => Guarded(Tools(calls), page.busy)'
  BY <1>0, <1>5, <1>6 DEF Guarded
<1>9. OneDump(Tools(calls), dumps, Button)'
  BY <1>3, <1>6 DEF OneDump
<1> QED
  BY <1>1, <1>2, <1>7, <1>8, <1>9 DEF Inv

LEMMA EndedUnheard ==
  ASSUME Inv, NEW c \in calls, ~c.arg.mine, calls' = calls \ {c},
         UNCHANGED <<ome, dumps, live, page, changes>>, faults' \in 0..MaxFaults
  PROVE  Inv'
<1>1. EngineOK'
  BY DEF Inv, WorldOK, EngineOK
<1>2. page' \in PageState /\ DoneIsQueued' /\ Button' = Button
  BY DEF Inv, DoneIsQueued, Button, On
<1>3. OneDump(Tools(calls) \ {c}, dumps', Button')
  <2>1. CASE c \in Tools(calls)
    BY <1>2, <2>1, OneDumpEnded DEF Inv
  <2>2. CASE c \notin Tools(calls)
    <3>1. Tools(calls) \ {c} = Tools(calls)
      BY <2>2
    <3> QED
      BY <1>2, <3>1 DEF Inv
  <2> QED
    BY <2>1, <2>2
<1> QED
  BY <1>1, <1>2, <1>3, CallEnded

\* The end of a call of a page of tasks about its list.
LEMMA ListEnded ==
  ASSUME Inv, page.at \in Kinds, NEW c \in calls, c.kind \in {"list", "start", "stop"},
         c.arg.mine, calls' = calls \ {c}, UNCHANGED <<ome, dumps, live, changes>>,
         faults' \in 0..MaxFaults,
         Alike(page, page', IF c.kind = "start" THEN FALSE ELSE page.submitting)
  PROVE  Inv'
<1>1. EngineOK'
  BY DEF Inv, WorldOK, EngineOK
<1>2. page' \in PageState /\ page'.at = page.at /\ DoneIsQueued' /\ Button' = Button
  BY DEF Alike, DoneIsQueued, Button, On, Kinds
<1>3. Tools(calls) \ {c} = Tools(calls)
  BY DEF Tools, Tool
<1>4. OneDump(Tools(calls) \ {c}, dumps', Button')
  BY <1>2, <1>3 DEF Inv
<1> QED
  BY <1>1, <1>2, <1>4, CallEnded DEF Alike, On, Tool

LEMMA ListAnswers ==
  ASSUME Inv, NEW kind \in Kinds, NEW c \in calls,
         ListArrives(kind, c) \/ Started(kind, c) \/ Stopped(kind, c)
  PROVE  Inv'
<1>1. page.at = kind /\ page \in PageState /\ page.list \in SUBSET Task
  BY PageShapes DEF Inv, ListArrives, Started, Stopped, On, ListState, RecordState, Kinds
<1>2. /\ c.arg.mine /\ calls' = calls \ {c} /\ c.kind \in {"list", "start", "stop"}
      /\ UNCHANGED <<ome, dumps, live, faults, changes>> /\ CallOK(c)
  BY DEF ListArrives, Started, Stopped, Arrives, Is, engine, Inv
<1>3. faults' \in 0..MaxFaults
  BY <1>2 DEF Inv, WorldOK, EngineOK
<1> SUFFICES Alike(page, page', IF c.kind = "start" THEN FALSE ELSE page.submitting)
  BY <1>1, <1>2, <1>3, ListEnded
<1>4. CASE ListArrives(kind, c)
  <2>1. c.kind = "list"
    BY <1>4 DEF ListArrives, Is
  <2>2. CASE Is(c, "ok", "list") /\ Arrives(c, [page EXCEPT !.list = c.arg.rows, !.error = FALSE])
    <3>1. c.arg.rows \in SUBSET Task
      BY <1>2, <2>1, CallShapes DEF CallOK, PollCall, Call
    <3> QED
      BY <1>1, <2>1, <2>2, <3>1, ListEdits DEF Arrives
  <2>3. CASE Arrives(c, [page EXCEPT !.error = TRUE])
    BY <1>1, <2>1, <2>3, ListEdits DEF Arrives
  <2> QED
    BY <1>4, <2>2, <2>3 DEF ListArrives
<1>5. CASE Started(kind, c)
  <2>1. c.kind = "start"
    BY <1>5 DEF Started, Is
  <2>2. CASE Arrives(c, [page EXCEPT !.list = @ \cup {c.arg.task}, !.form = FALSE,
                                     !.submitting = FALSE])
    <3>1. ~IsQueue(c)
      BY <1>1, <1>2 DEF CallOK, AtHome, On, Kinds
    <3>2. c.arg.task \in Task
      BY <1>2, <2>1, <3>1, CallShapes DEF CallOK, StartCall, Call
    <3>3. page.list \cup {c.arg.task} \in SUBSET Task
      BY <1>1, <3>2
    <3> QED
      BY <1>1, <2>1, <2>2, <3>3, ListEdits DEF Arrives
  <2>3. CASE Arrives(c, [page EXCEPT !.submitting = FALSE])
    BY <1>1, <2>1, <2>3, ListEdits DEF Arrives
  <2> QED
    BY <1>5, <2>2, <2>3 DEF Started
<1>6. CASE Stopped(kind, c)
  <2>1. c.kind = "stop"
    BY <1>6 DEF Stopped, Is
  <2>2. CASE Arrives(c, [page EXCEPT !.list = {t \in @ : t.id # c.arg.task.id}, !.ask = None])
    <3>1. {t \in page.list : t.id # c.arg.task.id} \in SUBSET Task
      BY <1>1
    <3> QED
      BY <1>1, <2>1, <2>2, <3>1, ListEdits DEF Arrives
  <2>3. CASE Arrives(c, [page EXCEPT !.ask = None])
    BY <1>1, <2>1, <2>3, ListEdits DEF Arrives, Maybe
  <2> QED
    BY <1>6, <2>2, <2>3 DEF Stopped
<1> QED
  BY <1>4, <1>5, <1>6

LEMMA ListLosses ==
  ASSUME Inv, NEW kind \in Kinds, NEW c \in calls, ListLost(kind, c)
  PROVE  Inv'
<1>1. page.at = kind /\ page \in PageState
  BY DEF Inv, ListLost, On
<1>2. /\ calls' = calls \ {c} /\ c.kind \in {"list", "start", "stop"}
      /\ UNCHANGED <<ome, dumps, live, changes>> /\ faults' = faults + 1 /\ faults < MaxFaults
      /\ ~c.arg.mine => page' = page
  BY DEF ListLost, Lost, engine
<1>3. faults' \in 0..MaxFaults
  BY <1>2, TasksAssumption DEF Inv, WorldOK, EngineOK
<1>4. CASE ~c.arg.mine
  BY <1>2, <1>3, <1>4, EndedUnheard
<1>5. CASE c.arg.mine
  <2>1. CASE c.kind = "list" /\ Lost(c, [page EXCEPT !.error = TRUE])
    BY <1>1, <1>2, <1>3, <1>5, <2>1, ListEdits, ListEnded DEF Lost
  <2>2. CASE c.kind = "start" /\ Lost(c, [page EXCEPT !.submitting = FALSE])
    BY <1>1, <1>2, <1>3, <1>5, <2>2, ListEdits, ListEnded DEF Lost
  <2>3. CASE c.kind = "stop" /\ Lost(c, [page EXCEPT !.ask = None])
    BY <1>1, <1>2, <1>3, <1>5, <2>3, ListEdits, ListEnded DEF Lost, Maybe
  <2> QED
    BY <2>1, <2>2, <2>3 DEF ListLost
<1> QED
  BY <1>4, <1>5

\* The answers and losses of the tools.
LEMMA ToolAnswers ==
  ASSUME Inv, NEW c \in calls, HlsAnswered(c)
  PROVE  Inv'
<1>1. /\ page.at = "record" /\ page \in RecordState /\ Guarded(Tools(calls), page.busy)
      /\ Button = page.dump
  BY PageShapes DEF Inv, HlsAnswered, On, Button
<1>2. /\ c.arg.mine /\ calls' = calls \ {c} /\ c.kind \in Tool /\ c \in Tools(calls)
      /\ UNCHANGED <<ome, dumps, live, faults, changes>> /\ CallOK(c)
  BY DEF HlsAnswered, Arrives, Is, engine, Inv, Tool, Tools
<1>3. EngineOK'
  BY <1>2 DEF Inv, WorldOK, EngineOK
<1>4. ASSUME NEW dump \in Maybe(1..MaxDumps),
             page' = [page EXCEPT !.dump = dump, !.busy = FALSE] \/
               (page' = [page EXCEPT !.busy = FALSE] /\ dump = page.dump),
             OneDump(Tools(calls) \ {c}, dumps, dump)
      PROVE  Inv'
  <2>1. /\ page' \in RecordState /\ page'.at = "record" /\ page'.submitting = page.submitting
        /\ page'.busy = FALSE /\ page'.dump = dump
    BY <1>1, <1>4 DEF RecordState
  <2>2. page' \in PageState /\ DoneIsQueued' /\ Button' = dump
    BY <2>1 DEF PageState, DoneIsQueued, Button, On
  <2> QED
    BY <1>1, <1>2, <1>3, <1>4, <2>1, <2>2, CallEnded DEF Tool
<1>5. \A x \in Tools(calls) : x.kind \in {"dump", "undump"} => x.arg.id \in 1..MaxDumps
  BY CallShapes DEF Inv, CallOK, Tools, DumpCall, Call
<1>6. \A x, y \in Tools(calls) : x.arg.mine /\ y.arg.mine => x = y
  BY <1>1 DEF Guarded
<1>7. OneDump(Tools(calls), dumps, page.dump) /\ page.dump \in Maybe(1..MaxDumps)
  BY <1>1 DEF Inv, RecordState
<1>8. CASE Is(c, "ok", "dump") /\ page' = [page EXCEPT !.dump = c.arg.id, !.busy = FALSE]
  <2>1. \A d \in dumps : d.id # None
    BY Tasks DEF Inv, WorldOK, EngineOK, Dump
  <2>2. OneDump(Tools(calls) \ {c}, dumps, c.arg.id)
    BY <1>2, <1>6, <1>7, <1>8, <2>1, OneDumpShown
  <2>3. c.arg.id \in Maybe(1..MaxDumps)
    BY <1>2, <1>5, <1>8 DEF Is, Maybe
  <2> QED
    BY <1>4, <1>8, <2>2, <2>3
<1>9. CASE Is(c, "ok", "undump") /\ page' = [page EXCEPT !.dump = None, !.busy = FALSE]
  <2>1. \A x \in Tools(calls) : x.kind \in {"dump", "undump"} => x.arg.id # None
    BY <1>5, Tasks
  <2>2. OneDump(Tools(calls) \ {c}, dumps, None)
    BY <1>2, <1>6, <1>7, <1>9, <2>1, OneDumpGone
  <2>3. None \in Maybe(1..MaxDumps)
    BY DEF Maybe
  <2> QED
    BY <1>4, <1>9, <2>2, <2>3
<1>10. CASE ~Is(c, "ok", "dump") /\ page' = [page EXCEPT !.busy = FALSE]
  <2>1. c.kind = "dump" => c.st # "ok"
    BY <1>10 DEF Is
  <2>2. OneDump(Tools(calls) \ {c}, dumps, page.dump)
    BY <1>2, <1>7, <2>1, OneDumpEnded
  <2> QED
    BY <1>4, <1>7, <1>10, <2>2
<1> QED
  BY <1>8, <1>9, <1>10 DEF HlsAnswered, Arrives, Is

LEMMA ToolLosses ==
  ASSUME Inv, NEW c \in calls, HlsLost(c)
  PROVE  Inv'
<1>1. /\ page.at = "record" /\ page \in RecordState /\ Button = page.dump
  BY PageShapes DEF Inv, HlsLost, On, Button
<1>2. /\ c.arg.mine /\ calls' = calls \ {c} /\ c.kind \in Tool /\ c \in Tools(calls)
      /\ UNCHANGED <<ome, live, changes>> /\ faults' = faults + 1 /\ faults < MaxFaults
      /\ page' = [page EXCEPT !.busy = FALSE]
      /\ dumps' = IF c.kind = "dump" THEN Disowned(dumps) ELSE dumps
  BY DEF HlsLost, Tool, Tools
<1>3. /\ page' \in RecordState /\ page'.at = "record" /\ page'.submitting = page.submitting
      /\ page'.busy = FALSE /\ page'.dump = page.dump
  BY <1>1, <1>2 DEF RecordState
<1>4. page' \in PageState /\ DoneIsQueued' /\ Button' = page.dump
  BY <1>3 DEF PageState, DoneIsQueued, Button, On
<1>5. OneDump(Tools(calls), dumps, page.dump) /\ EngineOK
  BY <1>1 DEF Inv, WorldOK
<1>6. /\ Disowned(dumps) \subseteq Dump /\ \A d \in Disowned(dumps) : d.out \in live
      /\ OneDump(Tools(calls), Disowned(dumps), page.dump)
      /\ \A g \in Disowned(dumps) : ~g.mine
  BY <1>5, Disown
<1>7. EngineOK'
  <2>1. faults' \in 0..MaxFaults
    BY <1>2, <1>5, TasksAssumption DEF EngineOK
  <2>2. dumps' \subseteq Dump /\ \A d \in dumps' : d.out \in live
    BY <1>2, <1>5, <1>6 DEF EngineOK
  <2> QED
    BY <1>2, <1>5, <2>1, <2>2 DEF EngineOK
<1>8. OneDump(Tools(calls) \ {c}, dumps', page.dump)
  <2>1. CASE c.kind = "dump"
    <3>1. dumps' = Disowned(dumps)
      BY <1>2, <2>1
    <3> HIDE DEF Disowned
    <3> QED
      BY <1>6, <3>1 DEF OneDump
  <2>2. CASE c.kind # "dump"
    BY <1>2, <1>5, <2>2, OneDumpEnded
  <2> QED
    BY <2>1, <2>2
<1> QED
  BY <1>1, <1>2, <1>3, <1>4, <1>7, <1>8, CallEnded DEF Tool

\* The end of a click on the page of a new input.
LEMMA ClickEnds ==
  ASSUME Inv, NEW c \in calls, InputQueued(c) \/ InputRefused(c) \/ InputLost(c)
  PROVE  Inv'
<1>1. /\ calls' = calls \ {c} /\ UNCHANGED <<ome, dumps, live, changes>>
      /\ IsQueue(c) /\ CallOK(c) /\ c.kind = "start" /\ c \in QueueCall
  <2>1. IsQueue(c) /\ CallOK(c)
    BY DEF InputQueued, InputRefused, InputLost, Inv
  <2>2. c.kind = "start" /\ c \in QueueCall
    BY <2>1, CallShapes DEF CallOK
  <2> QED
    BY <2>1, <2>2 DEF InputQueued, InputRefused, InputLost, Arrives, Lost, engine
<1>2. faults' \in 0..MaxFaults
  BY TasksAssumption DEF InputQueued, InputRefused, InputLost, Arrives, Lost, Inv, WorldOK, EngineOK
<1>3. CASE ~c.arg.mine
  <2>1. page' = page
    BY <1>3 DEF InputQueued, InputRefused, InputLost, Arrives, Lost
  <2> QED
    BY <1>1, <1>2, <1>3, <2>1, EndedUnheard
<1>4. CASE c.arg.mine
  <2>1. page.at = "add" /\ page \in InputState
    BY <1>1, <1>4, PageShapes DEF CallOK, AtHome, On, Inv
  <2>2. EngineOK'
    BY <1>1, <1>2 DEF Inv, WorldOK, EngineOK
  <2>3. OneDump(Tools(calls) \ {c}, dumps', None)
    <3>1. Tools(calls) \ {c} = Tools(calls) /\ Button = None
      BY <1>1, <2>1 DEF Tools, Tool, Button, On
    <3> QED
      BY <1>1, <3>1 DEF Inv
  <2> SUFFICES page' \in InputState /\ page'.submitting = FALSE /\ DoneIsQueued'
    <3>1. page' \in PageState /\ page'.at = "add" /\ Button' = None
      BY DEF InputState, PageState, Button, On
    <3> QED
      BY <1>1, <1>4, <2>1, <2>2, <2>3, <3>1, CallEnded DEF On
  <2>4. ASSUME page' = [page EXCEPT !.submitting = FALSE]
        PROVE  page' \in InputState /\ page'.submitting = FALSE /\ DoneIsQueued'
    <3>1. page' \in InputState /\ page'.submitting = FALSE /\ page'.done = page.done
      BY <2>1, <2>4 DEF InputState
    <3> QED
      BY <2>1, <3>1 DEF Inv, DoneIsQueued
  <2>5. ASSUME InputQueued(c)
        PROVE  page' \in InputState /\ page'.submitting = FALSE /\ DoneIsQueued'
    <3>1. c.st = "ok" /\ c.arg.then.todo # "push" /\ AddsUp(c)
      BY <1>1, <2>5 DEF InputQueued, CallOK
    <3>2. c.arg.then = NoUrl \/ c.arg.wanted = c.arg.got
      BY <1>1, <3>1 DEF AddsUp, Left
    <3>3. PICK done : done = IF c.arg.then = NoUrl THEN NotDone
                       ELSE [on |-> TRUE, wanted |-> c.arg.wanted, got |-> c.arg.got]
      OBVIOUS
    <3>4. page' = [page EXCEPT !.submitting = FALSE, !.done = done]
      BY <2>5, <3>3 DEF InputQueued, Arrives
    <3>5. c.arg.wanted \in SUBSET Plan /\ c.arg.got \in SUBSET Plan
      BY <1>1 DEF QueueCall, Call
    <3>6. done \in {NotDone} \cup [on : {TRUE}, wanted : SUBSET Plan, got : SUBSET Plan]
      BY <3>3, <3>5
    <3>7. done.on => done.wanted = done.got
      BY <3>2, <3>3 DEF NotDone
    <3>8. page' \in InputState /\ page'.submitting = FALSE /\ page'.done = done
      BY <2>1, <3>4, <3>6 DEF InputState
    <3> QED
      BY <3>7, <3>8 DEF DoneIsQueued
  <2> QED
    BY <1>4, <2>4, <2>5 DEF InputRefused, InputLost, Arrives, Lost
<1> QED
  BY <1>3, <1>4, CallShapes, <1>1 DEF CallOK

\* A page is left: what is under way goes on without it.
LEMMA AbandonedCall ==
  ASSUME NEW c, CallOK(c), c.kind # "list", NEW n, n = [c EXCEPT !.arg.mine = FALSE]
  PROVE  /\ n \in CallState /\ AddsUp(n) /\ NamesItsApp(n) /\ n.arg.mine = FALSE
         /\ n.kind = c.kind /\ n.st = c.st
         /\ c.kind \in {"dump", "undump"} => n.arg.id = c.arg.id /\ n.arg.id # None
<1>0. c \in CallState /\ AddsUp(c) /\ NamesItsApp(c)
  BY DEF CallOK
<1>1. CASE c \in StartCall
  BY <1>0, <1>1 DEF StartCall, Call, Stage, CallState, AddsUp, IsQueue, NamesItsApp
<1>2. CASE c \in QueueCall
  <2>1. /\ n \in QueueCall /\ n.arg.mine = FALSE /\ n.kind = c.kind /\ n.st = c.st
        /\ n.arg.got = c.arg.got /\ n.arg.wanted = c.arg.wanted
        /\ n.arg.task = c.arg.task /\ n.arg.then = c.arg.then
    BY <1>2 DEF QueueCall, Call, Stage
  <2>2. AddsUp(n)
    BY <1>0, <1>2, <2>1, CallShapes DEF AddsUp, Left
  <2> QED
    BY <1>2, <2>1, <2>2 DEF CallState, NamesItsApp, QueueCall, Call
<1>3. CASE c \in StopCall
  BY <1>0, <1>3 DEF StopCall, Call, Stage, CallState, AddsUp, IsQueue, NamesItsApp
<1>4. CASE c \in DumpCall
  BY <1>0, <1>4, Tasks DEF DumpCall, Call, Stage, CallState, AddsUp, IsQueue, NamesItsApp
<1>5. CASE c \in ConcludeCall
  BY <1>0, <1>5 DEF ConcludeCall, Call, Stage, CallState, AddsUp, IsQueue, NamesItsApp
<1> QED
  BY <1>0, <1>1, <1>2, <1>3, <1>4, <1>5 DEF CallState, PollCall, Call

LEMMA OpenStep ==
  ASSUME Inv, OpenPush \/ OpenRecord \/ OpenInput
  PROVE  Inv'
<1>1. /\ page' \in PageState /\ page'.submitting = FALSE /\ DoneIsQueued'
      /\ page'.at = "record" => page'.busy = FALSE /\ page'.dump = None
  <2>1. page' \in {FreshPush, FreshRecord, FreshInput}
    BY DEF OpenPush, OpenRecord, OpenInput, Open
  <2>2. FreshPush \in ListState("push") /\ FreshPush.submitting = FALSE /\ FreshPush.at = "push"
    BY DEF FreshPush, FreshList, ListState, Maybe
  <2>3. FreshRecord \in RecordState /\ FreshRecord.submitting = FALSE /\ FreshRecord.at = "record"
        /\ FreshRecord.busy = FALSE /\ FreshRecord.dump = None
    BY DEF FreshRecord, RecordState, Maybe
  <2>4. FreshInput \in InputState /\ FreshInput.submitting = FALSE /\ FreshInput.done.on = FALSE
    BY DEF FreshInput, InputState, Maybe, NotDone
  <2>5. CASE page' = FreshPush
    BY <2>2, <2>5 DEF PageState, DoneIsQueued
  <2>6. CASE page' = FreshRecord
    BY <2>3, <2>6 DEF PageState, DoneIsQueued
  <2>7. CASE page' = FreshInput
    BY <2>4, <2>7 DEF PageState, DoneIsQueued, InputState
  <2> QED
    BY <2>1, <2>5, <2>6, <2>7
<1>2. /\ UNCHANGED <<ome, live, faults>> /\ changes' = changes + 1 /\ changes < MaxChanges
      /\ calls' = Abandoned /\ dumps' = Disowned(dumps)
  BY DEF OpenPush, OpenRecord, OpenInput, Open
<1>3. EngineOK /\ OneDump(Tools(calls), dumps, Button)
  BY DEF Inv, WorldOK
<1>4. /\ dumps' \subseteq Dump /\ \A d \in dumps' : d.out \in live
      /\ OneDump(Tools(calls), dumps', Button)
      /\ \A d \in dumps' : ~d.mine
  BY <1>2, <1>3, Disown
<1>5. WorldOK'
  <2>1. changes' \in 0..MaxChanges
    BY <1>2, <1>3, TasksAssumption DEF EngineOK
  <2>2. EngineOK'
    BY <1>2, <1>3, <1>4, <2>1 DEF EngineOK
  <2>3. IsFiniteSet(calls') /\ Cardinality(calls') <= MaxCalls
    BY <1>2, AbandonedSize DEF Inv, WorldOK
  <2> QED
    BY <2>2, <2>3 DEF WorldOK
<1>6. \A n \in calls' : \E c \in calls :
        /\ n = [c EXCEPT !.arg.mine = FALSE] /\ n \in CallState /\ AddsUp(n) /\ NamesItsApp(n)
        /\ n.arg.mine = FALSE /\ n.kind = c.kind /\ n.st = c.st
        /\ c.kind \in {"dump", "undump"} => n.arg.id = c.arg.id /\ n.arg.id # None
  <2> SUFFICES ASSUME NEW n \in calls'
               PROVE  \E c \in calls :
                 /\ n = [c EXCEPT !.arg.mine = FALSE] /\ n \in CallState /\ AddsUp(n)
                 /\ NamesItsApp(n) /\ n.arg.mine = FALSE /\ n.kind = c.kind /\ n.st = c.st
                 /\ c.kind \in {"dump", "undump"} => n.arg.id = c.arg.id /\ n.arg.id # None
    OBVIOUS
  <2>1. PICK c \in calls : c.kind # "list" /\ n = [c EXCEPT !.arg.mine = FALSE]
    BY <1>2 DEF Abandoned, WithoutPolls
  <2>2. CallOK(c)
    BY DEF Inv
  <2> QED
    BY <2>1, <2>2, AbandonedCall
<1>7. \A n \in calls' : CallOK(n)'
  <2> SUFFICES ASSUME NEW n \in calls' PROVE CallOK(n)'
    OBVIOUS
  <2>1. n \in CallState /\ AddsUp(n) /\ NamesItsApp(n) /\ n.arg.mine = FALSE
    BY <1>6
  <2> QED
    BY <2>1 DEF CallOK, AtHome, AddsUp, Left, NamesItsApp
<1>8. Guarded(Starts(calls'), FALSE) /\ Guarded(Tools(calls'), FALSE)
  <2>1. \A n \in calls' : ~n.arg.mine
    BY <1>6
  <2> QED
    BY <2>1 DEF Guarded, Starts, Tools, OfKind
<1>9. OneDump(Tools(calls'), dumps', None)
  <2>1. \A e \in Tools(calls') : ~e.arg.mine
    BY <1>6 DEF Tools
  <2>2. ASSUME NEW e \in Tools(calls'), e.kind \in {"dump", "undump"}
        PROVE  \E c \in Tools(calls) :
                 /\ e = [c EXCEPT !.arg.mine = FALSE] /\ e.kind = c.kind /\ e.st = c.st
                 /\ e.arg.id = c.arg.id /\ e.arg.id # None
    <3>1. e \in calls' /\ e.kind \in Tool
      BY DEF Tools
    <3>2. PICK c \in calls : /\ e = [c EXCEPT !.arg.mine = FALSE] /\ e.kind = c.kind /\ e.st = c.st
                             /\ e.arg.id = c.arg.id /\ e.arg.id # None
      BY <1>6, <2>2, <3>1
    <3>3. c \in Tools(calls)
      BY <3>1, <3>2 DEF Tools
    <3> QED
      BY <3>2, <3>3
  <2> QED
    BY <1>4, <2>1, <2>2, OneDumpLeft
<1>10. Starts(calls)' = Starts(calls') /\ Tools(calls)' = Tools(calls')
  BY DEF Starts, Tools, OfKind
<1>11. Button' = None
  BY <1>1 DEF Button, On
<1>12. Guarded(Starts(calls), page.submitting)'
  BY <1>1, <1>8, <1>10 DEF Guarded
<1>13. On("record")' => Guarded(Tools(calls), page.busy)'
  BY <1>1, <1>8, <1>10 DEF Guarded, On
<1>14. OneDump(Tools(calls), dumps, Button)'
  BY <1>9, <1>10, <1>11 DEF OneDump
<1> QED
  BY <1>1, <1>5, <1>7, <1>12, <1>13, <1>14 DEF Inv

LEMMA InvNext ==
  ASSUME Inv, [Next]_vars
  PROVE  Inv'
<1>0. "push" \in Kinds /\ "record" \in Kinds
  BY DEF Kinds
<1>1. CASE PushPageSteps
  <2>1. CASE OpenPush
    BY <2>1, OpenStep
  <2>2. CASE Poll("push")
    BY <1>0, <2>2, PollStep
  <2>3. CASE \/ ToggleForm("push") \/ CancelStop("push")
             \/ On("push") /\ \E t \in page.list : AskStop("push", t)
    BY <1>0, <2>3, ListSteps
  <2>4. CASE Stop("push")
    BY <1>0, <2>4, StopStep
  <2>5. ASSUME NEW i \in Ids, NEW u \in Urls, StartPush(i, u) PROVE Inv'
    BY <1>0, <2>5, StartStep DEF StartPush
  <2> QED
    BY <1>1, <2>1, <2>2, <2>3, <2>4, <2>5 DEF PushPageSteps
<1>2. CASE RecordPageSteps
  <2>1. CASE OpenRecord
    BY <2>1, OpenStep
  <2>2. CASE PollRecords
    BY <1>0, <2>2, PollStep DEF PollRecords
  <2>3. CASE \/ ToggleRecordForm \/ CancelStopRecord
             \/ On("record") /\ \E t \in page.list : AskStopRecord(t)
    BY <1>0, <2>3, ListSteps DEF ToggleRecordForm, CancelStopRecord, AskStopRecord
  <2>4. CASE StopRecord
    BY <1>0, <2>4, StopStep DEF StopRecord
  <2>5. ASSUME NEW i \in Ids, SubmitRecord(i) PROVE Inv'
    BY <1>0, <2>5, StartStep DEF SubmitRecord, StartRecord
  <2>6. ASSUME NEW o \in Apps \X Ids, Choose(o) PROVE Inv'
    BY <2>6, ChooseStep
  <2>7. ASSUME NEW o \in Apps \X Ids,
               StopDump(o) \/ Conclude(o) \/ \E id \in 1..MaxDumps : StartDump(o, id)
        PROVE  Inv'
    BY <2>7, UseStep
  <2> QED
    BY <1>2, <2>1, <2>2, <2>3, <2>4, <2>5, <2>6, <2>7 DEF RecordPageSteps
<1>3. CASE InputPageSteps
  <2>1. CASE OpenInput
    BY <2>1, OpenStep
  <2>2. ASSUME NEW f \in Form, Create(f) PROVE Inv'
    BY <2>2, CreateStep
  <2> QED
    BY <1>3, <2>1, <2>2, InputSteps DEF InputPageSteps
<1>4. CASE page.at # "add" /\ AppsArrive
  BY <1>0, <1>4, ListSteps
<1>5. ASSUME NEW a \in Apps, page.at # "add", Select(a) PROVE Inv'
  BY <1>5, SelectStep
<1>6. ASSUME NEW c \in calls, Serve(c) PROVE Inv'
  BY <1>6, ListStep, StartTaskStep, StopTaskStep, StartDumpStep, StopDumpStep, ConcludeStep
     DEF Serve
<1>7. ASSUME NEW c \in calls, Arrive(c) PROVE Inv'
  <2>1. CASE \/ ListArrives("push", c) \/ Started("push", c) \/ Stopped("push", c)
             \/ RecordsArrive(c) \/ RecordStarted(c) \/ RecordStopped(c)
    BY <1>0, <2>1, ListAnswers DEF RecordsArrive, RecordStarted, RecordStopped
  <2>2. CASE HlsAnswered(c)
    BY <2>2, ToolAnswers
  <2>3. CASE RecordQueued(c)
    BY <2>3, QueueGoesOn
  <2>4. CASE InputQueued(c) \/ InputRefused(c)
    BY <2>4, ClickEnds
  <2>5. CASE Unheard(c)
    <3>1. ~c.arg.mine /\ calls' = calls \ {c} /\ UNCHANGED <<ome, dumps, live, page, faults, changes>>
      BY <2>5 DEF Unheard, engine
    <3>2. faults' \in 0..MaxFaults
      BY <3>1 DEF Inv, WorldOK, EngineOK
    <3> QED
      BY <3>1, <3>2, EndedUnheard
  <2> QED
    BY <1>7, <2>1, <2>2, <2>3, <2>4, <2>5 DEF Arrive
<1>8. ASSUME NEW c \in calls, Fails(c) PROVE Inv'
  <2>1. CASE ListLost("push", c) \/ RecordLost(c)
    BY <1>0, <2>1, ListLosses DEF RecordLost
  <2>2. CASE Refuse(c) \/ HlsLost(c) \/ InputLost(c)
    BY <2>2, RefuseStep, ToolLosses, ClickEnds
  <2> QED
    BY <1>8, <2>1, <2>2 DEF Fails
<1>9. CASE OthersChange
  BY <1>9, OthersStep
<1>10. CASE UNCHANGED vars
  <2>1. Inv' = Inv
    BY <1>10 DEF vars, Inv, WorldOK, EngineOK, DoneIsQueued, CallOK, AtHome, AddsUp, Left,
       NamesItsApp, On, Guarded, Starts, Tools, OfKind, OneDump, Button
  <2> QED
    BY <2>1
<1> QED
  BY <1>1, <1>2, <1>3, <1>4, <1>5, <1>6, <1>7, <1>8, <1>9, <1>10 DEF Next

LEMMA InvHolds == Spec => []Inv
<1>1. Inv /\ [Next]_vars => Inv'
  BY InvNext
<1> QED
  BY <1>1, InvInit, PTL DEF Spec

-----------------------------------------------------------------------------
(* What it gives.                                                          *)

\* Types; OME has one task of an id, and a dump only where there is an output; a
\* button is disabled exactly while a call of its page is under way.
THEOREM TypesHold == Spec => []TypeOK
<1>1. Inv => TypeOK
  <2> SUFFICES ASSUME Inv PROVE TypeOK
    OBVIOUS
  <2>1. /\ ome \subseteq Task /\ \A t, u \in ome : SameTask(t, u) => t = u
        /\ live \subseteq Apps \X Ids
        /\ \A d \in dumps : d.id \in 1..MaxDumps /\ d.out \in live /\ d.mine \in BOOLEAN
        /\ faults \in 0..MaxFaults /\ changes \in 0..MaxChanges
        /\ Cardinality(calls) <= MaxCalls
    BY DEF Inv, WorldOK, EngineOK, Dump
  <2>2. /\ page.app \in Apps \cup {None}
        /\ ListPage => page.list \subseteq Task /\ page.ask \in Task \cup {None}
    BY PageShapes DEF Inv, ListPage, Kinds, ListState, RecordState, Maybe
  <2>3. page.submitting <=> \E c \in calls : c.arg.mine /\ c.kind = "start"
    BY DEF Inv, Guarded, Starts, OfKind
  <2>4. page.at = "record" =>
          (page.busy <=> \E c \in calls : c.arg.mine /\ c.kind \in {"dump", "undump", "conclude"})
    BY DEF Inv, Guarded, Tools, Tool, On
  <2> QED
    BY <2>1, <2>2, <2>3, <2>4 DEF TypeOK
<1> QED
  BY <1>1, InvHolds, PTL

\* "is set up" appears only when OME has accepted every task that the form asked
\* for at the click, whatever was edited meanwhile and whatever failed.
THEOREM SetUpMeansQueued == Spec => []DoneIsQueued
<1>1. Inv => DoneIsQueued
  BY DEF Inv
<1> QED
  BY <1>1, InvHolds, PTL

\* A dump that OME runs for a page that is still there is the one its button
\* stops, or is about to be, or being, told to it: no second start hides one.
THEOREM NoDumpIsHidden == Spec => []DumpIsOnButton
<1>1. Inv => DumpIsOnButton
  <2> SUFFICES ASSUME Inv, NEW d \in dumps, d.mine
               PROVE  page.dump = d.id \/ \E c \in calls : c.kind = "dump" /\ c.arg.id = d.id
    BY DEF DumpIsOnButton
  <2>1. \/ Button = d.id
        \/ \E c \in Tools(calls) : c.kind = "dump" /\ c.arg.id = d.id
    BY DEF Inv, OneDump
  <2>2. Button = d.id => page.dump = d.id
    BY Tasks DEF Button, Inv, WorldOK, EngineOK, Dump
  <2> QED
    BY <2>1, <2>2 DEF Tools
<1> QED
  BY <1>1, InvHolds, PTL

\* A stop never reaches a task of another application than the one whose task
\* the dialog showed, even if the selection has changed since the list came.
THEOREM StopsReachTheNamed == Spec => StopHitsNamed
<1>1. Inv => (\A c \in calls : StopTask(c) => \A t \in ome \ ome' : SameTask(t, c.arg.task))
  <2> SUFFICES ASSUME Inv, NEW c \in calls, StopTask(c), NEW t \in ome \ ome'
               PROVE  SameTask(t, c.arg.task)
    OBVIOUS
  <2>1. c \in StopCall /\ c.arg.app = c.arg.task.app
    BY CallShapes DEF Inv, CallOK, NamesItsApp, StopTask, Is
  <2>2. c.arg.task \in Task
    BY <2>1 DEF StopCall, Call
  <2>3. [c.arg.task EXCEPT !.app = c.arg.app] = c.arg.task
    BY <2>1, <2>2 DEF Task
  <2> QED
    BY <2>3 DEF StopTask
<1> QED
  BY <1>1, InvHolds, PTL DEF StopHitsNamed
===============================================================================
