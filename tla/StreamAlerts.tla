---------------------------- MODULE StreamAlerts ----------------------------
(***************************************************************************)
(* evaluateSnapshot: every snapshot of the poller starts an evaluation of  *)
(* the stream rules.  An evaluation runs without interruption until it     *)
(* sends an e-mail; while it waits for the mail server the next snapshots  *)
(* start evaluations of their own over the same candidates.                *)
(*                                                                         *)
(* "cpu" is the evaluation the single thread is executing; it is handed    *)
(* back only at an await that really waits.  The routes of a rule are one  *)
(* mail; a mail that fails changes nothing but the audit log.              *)
(*                                                                         *)
(* Snapshots come at any distance: the poller emits none when it could not *)
(* list the streams, and two polls that overlap may emit in the same tick. *)
(* An evaluation takes its time from the clock, not from the snapshots.    *)
(*                                                                         *)
(* The rest is history, for the properties: "told" and "repeated" record   *)
(* what the audit log says of each alert, "waited" whether an evaluation   *)
(* has ever waited for a mail, "holding" how long before the newest        *)
(* snapshot the first one of the unbroken row that shows the condition of  *)
(* a bitrate rule was emitted, Never if the newest does not show it.       *)
(***************************************************************************)
EXTENDS Candidates, Sequences

CONSTANTS
  Streams,     \* the streams, in the order a snapshot lists them
  Readings,    \* what a snapshot may say of a stream
  Gone,        \* ... or that it is not there
  Eval,        \* slots for evaluations that overlap
  Nobody,
  Mailable,    \* the rules that operators route to e-mail
  Loads,       \* what a snapshot may say of the load: is it high
  Duration,    \* rule -> ticks its condition must last
  Gaps,        \* ticks there may be from one snapshot to the next
  MaxAge       \* bound: ticks a mail may take

Stream == {Streams[i] : i \in DOMAIN Streams}
StreamRules == <<"bitrate-high", "bitrate-low", "fps-drop">>
StreamRule == {StreamRules[i] : i \in DOMAIN StreamRules}
BitrateRule == {"bitrate-high", "bitrate-low"}
OldAge == MaxAge + Duration["bitrate-high"] + Duration["bitrate-low"]

ASSUME StreamAssumption ==
  /\ Streams \in Seq(Stream)
  /\ \A reading \in Readings : reading.fps \in Nat
  /\ Nobody \notin Eval
  /\ Mailable \subseteq StreamRule /\ Loads \subseteq BOOLEAN
  /\ Duration \in [StreamRule -> Nat] /\ MaxAge \in Nat /\ Gaps \subseteq Nat

VARIABLES
  cand,        \* rule -> stream -> candidate
  server,      \* server-load is firing
  baseline,    \* fpsBaseline: stream -> frame rate, 0 for none
  routes,      \* the rules with an enabled route that sends e-mail
  eval, cpu,
  told, repeated, waited, holding

log == <<told, repeated, waited>>
vars == <<cand, server, baseline, routes, eval, cpu, log, holding>>

Snapshot == [streams : [Stream -> Readings \cup {Gone}], load : Loads]
NoSnapshot == [streams |-> [s \in Stream |-> Gone], load |-> FALSE]
\* A check still to be made, as positions in Streams and StreamRules; the rules
\* swept so far, AllSwept for all of them; and a candidate that the sweep of a
\* rule holds: "live" while it is the one in the map, and after that whether it
\* was firing when another evaluation took it out.
Position == (DOMAIN Streams) \X (DOMAIN StreamRules)
AllSwept == Len(StreamRules) + 1
Dead == [s : Stream, firing : {"live", "yes", "no"}, notified : BOOLEAN]
EvalState ==
  [at : {"idle", "run", "mail"}, age : 0 .. MaxAge, snap : Snapshot \cup {NoSnapshot},
   todo : SUBSET Position, sweep : 1 .. AllSwept, dead : SUBSET Dead]
IdleEval == [at |-> "idle", age |-> 0, snap |-> NoSnapshot, todo |-> {},
             sweep |-> AllSwept, dead |-> {}]

Init ==
  /\ cand = [r \in StreamRule |-> [s \in Stream |-> Absent]]
  /\ server = FALSE
  /\ baseline = [s \in Stream |-> 0]
  /\ eval = [e \in Eval |-> IdleEval]
  /\ cpu = Nobody
  /\ told = [r \in StreamRule |-> [s \in Stream |-> "resolved"]]
  /\ repeated = FALSE /\ waited = FALSE
  /\ routes \in SUBSET Mailable
  /\ holding = [r \in BitrateRule |-> [s \in Stream |-> Never]]

-----------------------------------------------------------------------------
(* What an evaluation has to do.                                           *)

\* Every rule of every live stream.
Checks(snap) == {p \in Position : snap.streams[Streams[p[1]]] # Gone}

\* Stream by stream, and the rules of a stream in their order.
Before(p, q) == p[1] < q[1] \/ (p[1] = q[1] /\ p[2] < q[2])

\* The frame rate is checked only when there is one.
Applies(r, reading) == (r = "fps-drop") => reading.fps > 0

Holds(r, reading, base) ==
  CASE r = "bitrate-high" -> reading.rate = "high"
    [] r = "bitrate-low"  -> reading.rate = "low"
    [] r = "fps-drop"     -> reading.fps * 10 < base * 9

\* A bitrate rule's condition for a stream, in a snapshot.
HoldsIn(r, s, snap) ==
  snap.streams[s] # Gone /\ Holds(r, snap.streams[s], 0)

\* A notification is logged at once; the evaluation then waits for the mail.
Notify(e, r, s, what, next) ==
  /\ told' = [told EXCEPT ![r][s] = what]
  /\ repeated' = (repeated \/ told[r][s] = what)
  /\ waited' = (waited \/ r \in routes)
  /\ eval' = [eval EXCEPT ![e] = [next EXCEPT !.at = IF r \in routes THEN "mail" ELSE "run"]]
  /\ cpu' = IF r \in routes THEN Nobody ELSE e

GoOn(e, next) ==
  /\ eval' = [eval EXCEPT ![e] = next]
  /\ UNCHANGED <<cpu, log>>

-----------------------------------------------------------------------------
\* The poller emits a snapshot, "gap" ticks after the one before: a poll that
\* could not list the streams emits nothing.  The evaluation reads the clock.
Emit(e, snap, gap) ==
  /\ cpu = Nobody /\ eval[e].at = "idle"
  /\ \A x \in Eval : eval[x].at # "idle" => eval[x].age + gap <= MaxAge
  /\ cpu' = e
  /\ eval' = [x \in Eval |->
                IF x = e THEN [at |-> "run", age |-> 0, snap |-> snap,
                               todo |-> Checks(snap), sweep |-> 1, dead |-> {}]
                ELSE IF eval[x].at = "idle" THEN eval[x]
                ELSE [eval[x] EXCEPT !.age = @ + gap]]
  /\ cand' = [r \in StreamRule |-> [s \in Stream |-> AgedBy(cand[r][s], gap, OldAge)]]
  /\ holding' = [r \in BitrateRule |-> [s \in Stream |->
                  IF ~HoldsIn(r, s, snap) THEN Never
                  ELSE IF holding[r][s] = Never THEN 0
                  ELSE Later(holding[r][s], gap, OldAge)]]
  /\ UNCHANGED <<server, baseline, log, routes>>

\* The mail server answers, or the attempt fails.
MailDone(e) ==
  /\ cpu = Nobody /\ eval[e].at = "mail"
  /\ cpu' = e
  /\ eval' = [eval EXCEPT ![e].at = "run"]
  /\ UNCHANGED <<cand, server, baseline, log, routes, holding>>

\* One call of checkCandidate, for the next stream and rule.
Check(e) ==
  /\ cpu = e
  /\ \E p \in eval[e].todo :
       LET ev == eval[e]
           s == Streams[p[1]]
           r == StreamRules[p[2]]
           reading == ev.snap.streams[s]
           base == IF baseline[s] = 0 THEN reading.fps ELSE baseline[s]
           c == OrFresh(cand[r][s])
           isTrue == Holds(r, reading, base)
           next == [ev EXCEPT !.todo = @ \ {p}]
       IN /\ \A q \in ev.todo \ {p} : Before(p, q)
          /\ IF Applies(r, reading)
             THEN /\ baseline' = [baseline EXCEPT ![s] = IF r = "fps-drop" THEN base ELSE @]
                  /\ cand' = [cand EXCEPT ![r][s] = Checked(c, isTrue, Duration[r], ev.age)]
                  /\ IF Fires(c, isTrue, Duration[r], ev.age) THEN Notify(e, r, s, "fired", next)
                     ELSE IF Resolves(c, isTrue) THEN Notify(e, r, s, "resolved", next)
                     ELSE GoOn(e, next)
             ELSE GoOn(e, next) /\ UNCHANGED <<cand, baseline>>
  /\ UNCHANGED <<server, routes, holding>>

\* The candidates of the next rule whose stream is not in the snapshot.  The
\* evaluation holds the candidates themselves, not their keys: "firing" is
\* "live" while the candidate is still the one in the map, and otherwise what
\* it was when another evaluation took it out.
Gather(e) ==
  LET ev == eval[e]
      r == StreamRules[ev.sweep]
      gone == {s \in Stream : ev.snap.streams[s] = Gone /\ cand[r][s] # Absent}
  IN /\ cpu = e /\ ev.todo = {} /\ ev.dead = {} /\ ev.sweep < AllSwept
     /\ GoOn(e, IF gone = {} THEN [ev EXCEPT !.sweep = @ + 1]
                ELSE [ev EXCEPT !.dead = {[s |-> s, firing |-> "live", notified |-> FALSE] :
                                            s \in gone}])
     /\ UNCHANGED <<cand, server, baseline, routes, holding>>

StillFiring(r, d) ==
  IF d.firing = "live" THEN IsFiring(cand[r][d.s]) ELSE d.firing = "yes"

\* Another evaluation's reference to the candidate of the k-th rule outlives it.
Detach(evs, k, s) ==
  [x \in Eval |-> [evs[x] EXCEPT !.dead =
     {IF evs[x].sweep = k /\ d.s = s /\ d.firing = "live"
      THEN [d EXCEPT !.firing = IF IsFiring(cand[StreamRules[k]][s]) THEN "yes" ELSE "no"]
      ELSE d : d \in @}]]

\* The candidate d is dealt with; after the last one of a rule, on to the next.
Dropped(ev, d) ==
  [ev EXCEPT !.dead = @ \ {d}, !.sweep = IF ev.dead = {d} THEN @ + 1 ELSE @]

\* Mutant: a candidate is dropped without telling that it has resolved.
SweepSilently(e) ==
  LET ev == eval[e] IN
  /\ cpu = e
  /\ UNCHANGED <<server, baseline, routes, holding>>
  /\ \E d \in ev.dead :
       /\ cand' = [cand EXCEPT ![StreamRules[ev.sweep]][d.s] = Absent]
       /\ GoOn(e, Dropped(ev, d))

\* Mutant: a candidate whose end was announced is not dropped.
SweepKeeping(e) ==
  LET ev == eval[e]
      r == StreamRules[ev.sweep]
  IN /\ cpu = e
     /\ UNCHANGED <<server, baseline, routes, holding>>
     /\ \E d \in ev.dead :
          IF StillFiring(r, d)
          THEN Notify(e, r, d.s, "resolved", Dropped(ev, d)) /\ UNCHANGED cand
          ELSE /\ cand' = [cand EXCEPT ![r][d.s] = Absent]
               /\ eval' = [Detach(eval, ev.sweep, d.s) EXCEPT ![e] = Dropped(ev, d)]
               /\ UNCHANGED <<cpu, log>>

\* Resolve a gone stream's alert first, wait for the mail, then delete.
Sweep(e) ==
  LET ev == eval[e]
      r == StreamRules[ev.sweep]
  IN /\ cpu = e
     /\ UNCHANGED <<server, baseline, routes, holding>>
     /\ \E d \in ev.dead :
        /\ \A x \in ev.dead : x.notified => x = d
        /\ IF StillFiring(r, d) /\ ~d.notified
           THEN /\ Notify(e, r, d.s, "resolved",
                          [ev EXCEPT !.dead = (@ \ {d}) \cup {[d EXCEPT !.notified = TRUE]}])
                /\ UNCHANGED cand
           ELSE /\ cand' = [cand EXCEPT ![r][d.s] = Absent]
                /\ eval' = [Detach(eval, ev.sweep, d.s) EXCEPT ![e] = Dropped(ev, d)]
                /\ UNCHANGED <<cpu, log>>

\* Mutant: the baselines of gone streams stay.
FinishKeeping(e) ==
  LET ev == eval[e] IN
  /\ cpu = e /\ ev.todo = {} /\ ev.sweep = AllSwept
  /\ server' = ev.snap.load
  /\ eval' = [eval EXCEPT ![e] = IdleEval]
  /\ cpu' = Nobody
  /\ UNCHANGED <<cand, baseline, log, routes, holding>>

\* Drop the baselines of gone streams, check the load and end.  The duration
\* of server-load is 0, so it fires whenever the load is high; its mail is the
\* last thing an evaluation does and nothing waits for it.
Finish(e) ==
  LET ev == eval[e] IN
  /\ cpu = e /\ ev.todo = {} /\ ev.sweep = AllSwept
  /\ baseline' = [s \in Stream |-> IF ev.snap.streams[s] = Gone THEN 0 ELSE baseline[s]]
  /\ server' = ev.snap.load
  /\ eval' = [eval EXCEPT ![e] = IdleEval]
  /\ cpu' = Nobody
  /\ UNCHANGED <<cand, log, routes, holding>>

\* An operator adds the e-mail route of a rule, or deletes it.
RouteChanges(r) ==
  /\ cpu = Nobody
  /\ routes' = IF r \in routes THEN routes \ {r} ELSE routes \cup {r}
  /\ UNCHANGED <<cand, server, baseline, eval, cpu, log, holding>>

-----------------------------------------------------------------------------
EvalStep(e) == Check(e) \/ Gather(e) \/ Sweep(e) \/ Finish(e)
Next ==
  \/ \E e \in Eval :
       \/ \E snap \in Snapshot, gap \in Gaps : Emit(e, snap, gap)
       \/ MailDone(e)
       \/ EvalStep(e)
  \/ \E r \in Mailable : RouteChanges(r)

Spec == Init /\ [][Next]_vars

\* Snapshots keep coming and time passes between them, what runs goes on, and
\* a mail attempt ends and its evaluation gets its turn, however many snapshots
\* come meanwhile.
Fairness ==
  /\ SF_vars(\E e \in Eval, snap \in Snapshot, gap \in Gaps \ {0} : Emit(e, snap, gap))
  /\ \A e \in Eval : SF_vars(MailDone(e)) /\ WF_vars(EvalStep(e))
FairSpec == Spec /\ Fairness

-----------------------------------------------------------------------------
\* Types, and what ties the variables: the evaluation that runs is the one
\* the thread executes, it checks live streams only and sweeps once it has
\* checked, and a firing candidate has a time since when.
TypeOK ==
  /\ cand \in [StreamRule -> [Stream -> Candidate(OldAge) \cup {Absent}]]
  /\ server \in BOOLEAN
  /\ baseline \in [Stream -> Nat]
  /\ told \in [StreamRule -> [Stream -> {"fired", "resolved"}]]
  /\ repeated \in BOOLEAN /\ waited \in BOOLEAN
  /\ routes \subseteq Mailable
  /\ holding \in [BitrateRule -> [Stream -> (0 .. OldAge) \cup {Never}]]
  /\ cpu \in Eval \cup {Nobody} /\ eval \in [Eval -> EvalState]
  /\ \A e \in Eval :
       /\ eval[e].at = "run" <=> cpu = e
       /\ eval[e].at = "idle" => eval[e].dead = {}
       /\ eval[e].dead # {} => eval[e].todo = {} /\ eval[e].sweep < AllSwept
       /\ eval[e].todo \subseteq Checks(eval[e].snap)
  /\ \A r \in StreamRule, s \in Stream :
       IsFiring(cand[r][s]) => cand[r][s].since # Never

\* No evaluation is under way.
AtRest == \A e \in Eval : eval[e].at = "idle"

\* Between evaluations the log says what the candidates say: every fire has had
\* its resolve unless it still fires.
Matching ==
  AtRest => \A r \in StreamRule, s \in Stream :
              told[r][s] = "fired" <=> IsFiring(cand[r][s])

\* As long as no evaluation has waited for a mail this is so, and the operator is
\* told of every fire and of every resolve once: the log never says "fired" or
\* "resolved" of an alert twice in a row.
ToldMatches == ~waited => ~repeated /\ Matching

\* An alert the console shows as firing is one the operator was told of and
\* not told the end of, except while an evaluation that has announced the
\* end waits to drop the candidate.
FiringWasTold ==
  \A r \in StreamRule, s \in Stream :
    IsFiring(cand[r][s]) =>
      \/ told[r][s] = "fired"
      \/ \E e \in Eval : \E d \in eval[e].dead :
            StreamRules[eval[e].sweep] = r /\ d.s = s /\ d.notified

\* "since" is "when the condition became continuously true": the snapshot of
\* that moment and all since have shown it, the one before it had not.
Exact(r, s) == OrFresh(cand[r][s]).since = holding[r][s]

Continuous == AtRest => \A r \in BitrateRule, s \in Stream : Exact(r, s)

SinceIsContinuous == ~waited => Continuous

\* As long as no evaluation has waited, the bitrate rules keep the promise of
\* AlertPromise: each alert is told as fired exactly when all snapshots have
\* shown its condition for its duration by the clock, however few they are,
\* and as resolved exactly when one does not, before the next snapshot.
BitrateAlert == BitrateRule \X Stream
BitrateLasting == [a \in BitrateAlert |-> Duration[a[1]]]
BitrateTold == [a \in BitrateAlert |-> told[a[1]][a[2]]]
BitrateHolding == [a \in BitrateAlert |-> holding[a[1]][a[2]]]
Promise == INSTANCE AlertPromise WITH
  Alert <- BitrateAlert, Lasting <- BitrateLasting, Longest <- OldAge,
  told <- BitrateTold, holding <- BitrateHolding
KeepsPromise == Promise!PromiseSpec

\* As long as no evaluation has waited: while a stream has a candidate its
\* frame rate is measured against one and the same baseline, so that a drop
\* cannot resolve by becoming the baseline; and between evaluations a stream has
\* a baseline as long as it has the candidate, so that a stream that comes back is
\* not measured against what it was before.
BaselineStands ==
  [][~waited' => \A s \in Stream :
       /\ cand["fps-drop"][s] # Absent /\ cand'["fps-drop"][s] # Absent
            => baseline'[s] = baseline[s]
       /\ AtRest' => (baseline'[s] # 0 <=> cand'["fps-drop"][s] # Absent)]_vars

\* The log never says the same of an alert twice in a row.
ToldOnce == ~repeated

\* A bitrate condition that every snapshot shows from some moment on fires,
\* whatever evaluations overlap and however long their mails take.
LastingConditionFires ==
  \A r \in BitrateRule, s \in Stream :
    <>[](\A e \in Eval : eval[e].at # "idle" => HoldsIn(r, s, eval[e].snap))
      => <>[]IsFiring(cand[r][s])
=============================================================================
