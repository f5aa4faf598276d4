---------------------------- MODULE SnapshotProofs ----------------------------
(***************************************************************************)
(* Proofs about the way of a snapshot: the poller that publishes it and    *)
(* keeps the histories, for any number of overlapping polls (StatsPoller,  *)
(* at the end), and the evaluation of its streams, for any number of       *)
(* streams and evaluations, any durations, any distances between snapshots *)
(* and any bound on the age of a mail (StreamAlerts).                      *)
(*                                                                         *)
(* That an alert which fires was told needs nothing but the types.  The    *)
(* rest holds as long as nobody has waited for a mail.  An evaluation then *)
(* keeps the thread from its snapshot to its end: no other holds anything, *)
(* what the log says differs from what the candidates say only for a       *)
(* stream whose end was Announced, and a candidate whose time does not     *)
(* agree with the snapshots is one that the evaluation Owes a check, or a  *)
(* removal.  When it ends nothing is owed, so that the next snapshot finds *)
(* every alert told: this is what AlertPromise asks for.                   *)
(***************************************************************************)
EXTENDS StreamAlerts, StatsPoller, FiniteSetTheorems, WellFoundedInduction, TLAPS

\* The end of the alert of r and s was told, its candidate is still there.
Announced(r, s) ==
  \E e \in Eval : \E d \in eval[e].dead :
    StreamRules[eval[e].sweep] = r /\ d.s = s /\ d.notified

Agreed(r, s) == told[r][s] = "fired" <=> IsFiring(cand[r][s]) /\ ~Announced(r, s)

\* What is held is what is in the map, once.
Held(D) == /\ \A d \in D : d.firing = "live"
           /\ \A c, d \in D : c.s = d.s => c = d

Quiet ==
  ~waited =>
    /\ ~repeated
    /\ \A e \in Eval : eval[e].at # "mail" /\ eval[e].age = 0 /\ Held(eval[e].dead)
    /\ \A r \in StreamRule, s \in Stream : Agreed(r, s)

\* The candidate holds since when the snapshots do, and fires if that is long ago.
Fine(r, s) ==
  LET c == OrFresh(cand[r][s])
  IN /\ holding[r][s] = c.since
     /\ c.since # Never => c.firing \/ c.since < Duration[r]

\* An evaluation will still drop the candidate or check it, and a check of a
\* condition that holds will start its time or let it run on.
Owes(ev, r, s) ==
  \/ ev.snap.streams[s] = Gone
  \/ /\ \E p \in ev.todo : Streams[p[1]] = s /\ StreamRules[p[2]] = r
     /\ HoldsIn(r, s, ev.snap) =>
          LET c == OrFresh(cand[r][s])
          IN holding[r][s] = IF c.since = Never THEN 0 ELSE c.since

\* What is left of the rules that were swept: no candidate of a gone stream.
SweptTo(ev) ==
  /\ \A d \in ev.dead : ev.snap.streams[d.s] = Gone
  /\ \A s \in Stream, k \in DOMAIN StreamRules :
       ev.snap.streams[s] = Gone /\ cand[StreamRules[k]][s] # Absent
         => k > ev.sweep \/ (k = ev.sweep /\ (ev.dead = {} \/ \E d \in ev.dead : d.s = s))

\* The snapshot of an evaluation is the newest.
Noted(ev) ==
  \A r \in BitrateRule, s \in Stream : HoldsIn(r, s, ev.snap) <=> holding[r][s] # Never

\* The baseline is that of a stream without a candidate.
Adrift(s) == baseline[s] # 0 /\ cand["fps-drop"][s] = Absent

Steady ==
  ~waited =>
    /\ \A s \in Stream : cand["fps-drop"][s] # Absent => baseline[s] # 0
    /\ \A s \in Stream :
         Adrift(s) => \E e \in Eval : eval[e].at = "run" /\ eval[e].snap.streams[s] = Gone
    /\ \A e \in Eval : eval[e].at = "run" => SweptTo(eval[e]) /\ Noted(eval[e])
    /\ \A r \in BitrateRule, s \in Stream :
         Fine(r, s) \/ \E e \in Eval : eval[e].at = "run" /\ Owes(eval[e], r, s)

Inv == TypeOK /\ FiringWasTold /\ Quiet /\ Steady

\* The conditions of TypeOK on one evaluation.
Fit(ev) ==
  /\ ev.at = "idle" => ev.dead = {}
  /\ ev.dead # {} => ev.todo = {} /\ ev.sweep < AllSwept
  /\ ev.todo \subseteq Checks(ev.snap)

OrAbsent == Candidate(OldAge) \cup {Absent}

-----------------------------------------------------------------------------
(* The constants, and what the operators on candidates do.                 *)

LEMMA Rules ==
  /\ DOMAIN StreamRules = 1 .. 3 /\ AllSwept = 4
  /\ StreamRule = {"bitrate-high", "bitrate-low", "fps-drop"} /\ BitrateRule \subseteq StreamRule
  /\ StreamRules[3] = "fps-drop"
  /\ \A r \in StreamRule : \E k \in DOMAIN StreamRules : StreamRules[k] = r
  /\ \A k \in DOMAIN StreamRules : StreamRules[k] \in StreamRule
BY DEF StreamRules, StreamRule, BitrateRule, AllSwept

LEMMA Ages ==
  /\ OldAge \in Nat /\ MaxAge \in Nat /\ MaxAge <= OldAge
  /\ \A r \in StreamRule : Duration[r] \in Nat
BY Rules, StreamAssumption DEF OldAge

\* No candidate is a record.
LEMMA AbsentIsNone == Absent \notin Candidate(OldAge) /\ Never \notin Nat
BY CandidateAssumption, Ages DEF Candidate

\* What a check leaves: the rule is firing after it as the notification says,
\* and its since is that of before, the time of the check, or never.
LEMMA CheckLeaves ==
  ASSUME NEW c \in Candidate(OldAge), NEW b \in BOOLEAN, NEW d \in Nat, NEW a \in 0 .. MaxAge
  PROVE  /\ Checked(c, b, d, a) \in Candidate(OldAge)
         /\ Checked(c, b, d, a).firing => Checked(c, b, d, a).since # Never
         /\ Fires(c, b, d, a) => Checked(c, b, d, a).firing /\ ~c.firing
         /\ ~Fires(c, b, d, a) /\ Resolves(c, b) => ~Checked(c, b, d, a).firing /\ c.firing
         /\ ~Fires(c, b, d, a) /\ ~Resolves(c, b) => Checked(c, b, d, a).firing = c.firing
         /\ Checked(c, b, d, a).since # Never
              => b /\ Checked(c, b, d, a).since = IF c.since = Never THEN a ELSE c.since
         /\ b => /\ Checked(c, b, d, a).since # Never
                 /\ Checked(c, b, d, a).firing \/ Checked(c, b, d, a).since < a + d
<1>1. a \in 0 .. OldAge /\ a # Never
  BY Ages, AbsentIsNone
<1>2. /\ Since(c, b, a) \in (0 .. OldAge) \cup {Never} /\ (b <=> Since(c, b, a) # Never)
      /\ b => Since(c, b, a) = IF c.since = Never THEN a ELSE c.since
  BY <1>1 DEF Since, Candidate
<1>3. c.firing \in BOOLEAN
  BY DEF Candidate
<1>4. b => Checked(c, b, d, a).firing \/ Checked(c, b, d, a).since < a + d
  <2>1. Checked(c, b, d, a).since = Since(c, b, a)
    BY DEF Checked
  <2>2. b /\ (c.firing \/ Since(c, b, a) >= a + d) => Checked(c, b, d, a).firing
    BY <1>3, Zenon DEF Checked, Fires
  <2>3. b => Since(c, b, a) >= a + d \/ Since(c, b, a) < a + d
    <3>1. \A x \in 0 .. OldAge, y \in 0 .. MaxAge : x >= y + d \/ x < y + d
      BY Ages
    <3>2. b => Since(c, b, a) \in 0 .. OldAge
      BY <1>2
    <3> QED
      BY <3>1, <3>2
  <2> QED
    BY <2>1, <2>2, <2>3
<1> QED
  BY <1>2, <1>3, <1>4 DEF Checked, Candidate, Fires, Resolves

LEMMA FreshOrNot ==
  ASSUME NEW c \in OrAbsent
  PROVE  /\ OrFresh(c) \in Candidate(OldAge) /\ (OrFresh(c).firing <=> IsFiring(c))
         /\ OrFresh(c).since # Never => c # Absent /\ OrFresh(c).since = c.since
         /\ OrFresh(c) = IF c = Absent THEN [since |-> Never, firing |-> FALSE] ELSE c
BY AbsentIsNone DEF OrAbsent, OrFresh, IsFiring, Fresh, Candidate

LEMMA LaterIsAge ==
  ASSUME NEW n \in 0 .. OldAge, NEW gap \in Gaps
  PROVE  Later(n, gap, OldAge) \in 0 .. OldAge /\ Later(n, gap, OldAge) # Never
<1>1. gap \in Nat
  BY StreamAssumption
<1> QED
  BY <1>1, Ages, AbsentIsNone DEF Later

LEMMA TickKeeps ==
  ASSUME NEW c \in OrAbsent, NEW gap \in Gaps
  PROVE  /\ AgedBy(c, gap, OldAge) \in OrAbsent
         /\ AgedBy(c, gap, OldAge) = Absent <=> c = Absent
         /\ IsFiring(AgedBy(c, gap, OldAge)) <=> IsFiring(c)
         /\ c # Absent => (AgedBy(c, gap, OldAge).since = Never <=> c.since = Never)
         /\ c # Absent /\ c.since # Never
              => AgedBy(c, gap, OldAge).since = Later(c.since, gap, OldAge)
<1>1. CASE c # Absent /\ c.since # Never
  <2> PICK n : n = Later(c.since, gap, OldAge)
    OBVIOUS
  <2>1. n \in 0 .. OldAge /\ n # Never
    BY <1>1, LaterIsAge DEF OrAbsent, Candidate
  <2>2. AgedBy(c, gap, OldAge) = [c EXCEPT !.since = n] /\ c \in Candidate(OldAge)
    BY <1>1 DEF AgedBy, OrAbsent
  <2>3. /\ [c EXCEPT !.since = n] \in Candidate(OldAge)
        /\ [c EXCEPT !.since = n].firing = c.firing
        /\ [c EXCEPT !.since = n].since = n
    BY <2>1, <2>2 DEF Candidate
  <2> QED
    BY <1>1, <2>1, <2>2, <2>3, AbsentIsNone DEF IsFiring, OrAbsent
<1> QED
  BY <1>1 DEF AgedBy

\* The time of a condition that goes on, some ticks later.
LEMMA TickAges ==
  ASSUME NEW c \in OrAbsent, NEW gap \in Gaps
  PROVE  /\ OrFresh(c).since \in (0 .. OldAge) \cup {Never}
         /\ OrFresh(AgedBy(c, gap, OldAge)).since =
              IF OrFresh(c).since = Never THEN Never
              ELSE Later(OrFresh(c).since, gap, OldAge)
<1>1. CASE c = Absent
  BY <1>1, TickKeeps DEF OrFresh, Fresh
<1>2. CASE c # Absent
  <2>1. c \in Candidate(OldAge) /\ OrFresh(c) = c
    BY <1>2 DEF OrFresh, OrAbsent
  <2>2. OrFresh(AgedBy(c, gap, OldAge)) = AgedBy(c, gap, OldAge)
    BY <1>2, TickKeeps DEF OrFresh
  <2> QED
    BY <1>2, <2>1, <2>2, TickKeeps DEF Candidate
<1> QED
  BY <1>1, <1>2

\* One entry of a table by rule and stream.
LEMMA EntrySet ==
  ASSUME NEW S, NEW f \in [StreamRule -> [Stream -> S]],
         NEW r \in StreamRule, NEW s \in Stream, NEW v \in S
  PROVE  /\ [f EXCEPT ![r][s] = v] \in [StreamRule -> [Stream -> S]]
         /\ [f EXCEPT ![r][s] = v][r][s] = v
         /\ \A q \in StreamRule, t \in Stream :
              q # r \/ t # s => [f EXCEPT ![r][s] = v][q][t] = f[q][t]
OBVIOUS

LEMMA HoldsOrNot ==
  ASSUME NEW r \in StreamRule, NEW reading, NEW b
  PROVE  Holds(r, reading, b) \in BOOLEAN
<1>1. CASE r = "bitrate-high"
  BY <1>1 DEF Holds
<1>2. CASE r = "bitrate-low"
  BY <1>2 DEF Holds
<1>3. CASE r = "fps-drop"
  BY <1>3 DEF Holds
<1> QED
  BY <1>1, <1>2, <1>3, Rules

\* The condition of a bitrate rule does not depend on the baseline.
LEMMA BitrateHolds ==
  ASSUME NEW r \in BitrateRule, NEW reading, NEW b, NEW c
  PROVE  Holds(r, reading, b) <=> Holds(r, reading, c)
BY DEF BitrateRule, Holds

-----------------------------------------------------------------------------
\* A step of one evaluation that leaves the others alone keeps the types.
LEMMA OneMoves ==
  ASSUME TypeOK, NEW e \in Eval, cpu \in {e, Nobody}, NEW ev \in EvalState, Fit(ev),
         eval' = [eval EXCEPT ![e] = ev],
         \/ ev.at = "run" /\ cpu' = e
         \/ ev.at # "run" /\ cpu' = Nobody,
         cand' \in [StreamRule -> [Stream -> OrAbsent]],
         told' \in [StreamRule -> [Stream -> {"fired", "resolved"}]],
         repeated' \in BOOLEAN, waited' \in BOOLEAN, server' \in BOOLEAN,
         baseline' \in [Stream -> Nat], routes' = routes, holding' = holding,
         \A r \in StreamRule, s \in Stream : IsFiring(cand'[r][s]) => cand'[r][s].since # Never
  PROVE  TypeOK' /\ eval'[e] = ev /\ \A x \in Eval \ {e} : eval'[x] = eval[x]
<1>1. /\ eval' \in [Eval -> EvalState] /\ eval'[e] = ev
      /\ \A x \in Eval \ {e} : eval'[x] = eval[x]
  BY DEF TypeOK
<1>2. cpu' \in Eval \cup {Nobody} /\ \A x \in Eval : eval'[x].at = "run" <=> cpu' = x
  BY <1>1, StreamAssumption DEF TypeOK
<1>3. \A x \in Eval : Fit(eval'[x])
  BY <1>1 DEF Fit, TypeOK
<1> QED
  BY <1>1, <1>2, <1>3 DEF Fit, TypeOK, OrAbsent

\* As long as nobody has waited, only the evaluation that runs holds anything.
LEMMA Alone ==
  ASSUME Inv, ~waited, NEW e \in Eval, cpu = e
  PROVE  \A x \in Eval \ {e} : eval[x].at = "idle" /\ eval[x].dead = {}
<1>1. \A x \in Eval : eval[x].at \in {"idle", "run", "mail"}
  BY DEF Inv, TypeOK, EvalState
<1> QED
  BY <1>1 DEF Inv, Quiet, TypeOK

\* What the evaluation that runs has to show after its step.
LEMMA RunsOn ==
  ASSUME TypeOK', NEW e \in Eval, cpu' = e,
         \A s \in Stream : cand'["fps-drop"][s] # Absent => baseline'[s] # 0,
         \A s \in Stream : Adrift(s)' => eval'[e].snap.streams[s] = Gone,
         SweptTo(eval[e])', Noted(eval[e])',
         \A r \in BitrateRule, s \in Stream : Fine(r, s)' \/ Owes(eval[e], r, s)'
  PROVE  Steady'
<1>1. \A x \in Eval : eval'[x].at = "run" <=> x = e
  BY DEF TypeOK
<1> QED
  BY <1>1 DEF Steady

-----------------------------------------------------------------------------
\* A mail was answered, a route was added or deleted, or nothing happened.
LEMMA OthersKeep ==
  ASSUME Inv, (\E e \in Eval : MailDone(e)) \/ (\E r \in Mailable : RouteChanges(r))
              \/ UNCHANGED vars
  PROVE  Inv'
<1> USE DEF Inv
<1>1. CASE \E e \in Eval : MailDone(e)
  <2>1. PICK e \in Eval : MailDone(e)
    BY <1>1
  <2>2. /\ eval[e] \in EvalState /\ Fit(eval[e]) /\ cpu = Nobody /\ cpu' = e
        /\ eval[e].at = "mail" /\ UNCHANGED <<cand, server, baseline, log, routes, holding>>
    BY <2>1 DEF MailDone, TypeOK, Fit
  <2> PICK ev : ev = [eval[e] EXCEPT !.at = "run"]
    OBVIOUS
  <2>3. /\ ev \in EvalState /\ Fit(ev) /\ ev.at = "run" /\ ev.dead = eval[e].dead
        /\ ev.sweep = eval[e].sweep
    BY <2>2 DEF EvalState, Fit
  <2>4. eval' = [eval EXCEPT ![e] = ev]
    BY <2>1 DEF MailDone
  <2>5. TypeOK' /\ eval'[e] = ev /\ \A x \in Eval \ {e} : eval'[x] = eval[x]
    <3>1. /\ cand' \in [StreamRule -> [Stream -> OrAbsent]]
          /\ told' \in [StreamRule -> [Stream -> {"fired", "resolved"}]]
          /\ repeated' \in BOOLEAN /\ waited' \in BOOLEAN /\ server' \in BOOLEAN
          /\ baseline' \in [Stream -> Nat] /\ routes' = routes /\ holding' = holding
          /\ \A r \in StreamRule, s \in Stream :
               IsFiring(cand'[r][s]) => cand'[r][s].since # Never
      BY <2>2 DEF TypeOK, OrAbsent, log
    <3> QED
      BY <2>2, <2>3, <2>4, <3>1, OneMoves
  <2>6. FiringWasTold'
    <3>1. \A x \in Eval : eval'[x].dead = eval[x].dead /\ eval'[x].sweep = eval[x].sweep
      BY <2>3, <2>5
    <3> QED
      BY <2>2, <3>1 DEF FiringWasTold, log
  <2>7. waited'
    BY <2>2 DEF Quiet, log
  <2> QED
    BY <2>5, <2>6, <2>7 DEF Quiet, Steady
<1>2. CASE (\E r \in Mailable : RouteChanges(r)) \/ UNCHANGED vars
  <2>1. UNCHANGED <<cand, server, baseline, eval, cpu, log, holding>> /\ routes' \subseteq Mailable
    BY <1>2 DEF RouteChanges, vars, TypeOK
  <2>2. TypeOK'
    BY <2>1 DEF TypeOK, log
  <2>3. FiringWasTold'
    BY <2>1 DEF FiringWasTold, log
  <2>4. Quiet'
    BY <2>1 DEF Quiet, Agreed, Announced, log
  <2>5. Steady'
    BY <2>1 DEF Steady, SweptTo, Noted, Fine, Owes, Adrift, log
  <2> QED
    BY <2>2, <2>3, <2>4, <2>5
<1> QED
  BY <1>1, <1>2

\* The sweep of a rule begins, or has nothing to do.
LEMMA GatherKeeps ==
  ASSUME Inv, NEW e \in Eval, Gather(e)
  PROVE  Inv'
<1> USE DEF Inv
<1> PICK r : r = StreamRules[eval[e].sweep]
  OBVIOUS
<1>a. PICK gone : gone = {s \in Stream : eval[e].snap.streams[s] = Gone /\ cand[r][s] # Absent}
  OBVIOUS
<1>b. PICK D : D = {[s |-> s, firing |-> "live", notified |-> FALSE] : s \in gone}
  OBVIOUS
<1>0. /\ eval[e] \in EvalState /\ Fit(eval[e]) /\ cpu = e /\ eval[e].at = "run"
      /\ eval[e].todo = {} /\ eval[e].dead = {} /\ eval[e].sweep \in 1 .. 3
      /\ UNCHANGED <<cand, server, baseline, routes, holding, cpu, told, repeated, waited>>
  BY Rules DEF Gather, GoOn, log, TypeOK, Fit, EvalState
<1>1. /\ D \in SUBSET Dead /\ Held(D)
      /\ \A d \in D : ~d.notified /\ d.s \in gone
      /\ \A s \in gone : \E d \in D : d.s = s
  <2>1. \A s \in Stream : LET d == [s |-> s, firing |-> "live", notified |-> FALSE]
                          IN d \in Dead /\ d.firing = "live" /\ ~d.notified /\ d.s = s
    BY DEF Dead
  <2>0. \A s \in gone : s \in Stream
    BY <1>a
  <2>2. \A d \in D : /\ d \in Dead /\ d.firing = "live" /\ ~d.notified /\ d.s \in gone
                    /\ d = [s |-> d.s, firing |-> "live", notified |-> FALSE]
    <3> TAKE d \in D
    <3>1. PICK s \in gone : d = [s |-> s, firing |-> "live", notified |-> FALSE]
      BY <1>b
    <3> QED
      BY <2>0, <2>1, <3>1
  <2>3. \A s \in gone : \E d \in D : d.s = s
    BY <1>b, <2>0, <2>1
  <2>4. \A c, d \in D : c.s = d.s => c = d
    BY <2>2, Zenon
  <2> QED
    BY <2>2, <2>3, <2>4 DEF Held
<1>2. PICK ev \in EvalState :
        /\ eval' = [eval EXCEPT ![e] = ev] /\ Fit(ev)
        /\ ev.at = "run" /\ ev.age = eval[e].age /\ ev.snap = eval[e].snap /\ ev.todo = {}
        /\ \/ gone = {} /\ ev.dead = {} /\ ev.sweep = eval[e].sweep + 1
           \/ gone # {} /\ ev.dead = D /\ ev.sweep = eval[e].sweep
  <2>1. CASE gone = {}
    <3> PICK ev : ev = [eval[e] EXCEPT !.sweep = eval[e].sweep + 1]
      OBVIOUS
    <3>1. eval' = [eval EXCEPT ![e] = ev]
      BY <1>a, <2>1 DEF Gather, GoOn
    <3>2. ev \in EvalState /\ Fit(ev)
      BY <1>0, Rules DEF EvalState, Fit
    <3> QED
      BY <1>0, <2>1, <3>1, <3>2 DEF EvalState
  <2>2. CASE gone # {}
    <3> PICK ev : ev = [eval[e] EXCEPT !.dead = D]
      OBVIOUS
    <3>1. eval' = [eval EXCEPT ![e] = ev]
      BY <1>a, <1>b, <2>2 DEF Gather, GoOn
    <3>2. ev \in EvalState /\ Fit(ev)
      BY <1>0, <1>1, Rules DEF EvalState, Fit
    <3> QED
      BY <1>0, <2>2, <3>1, <3>2 DEF EvalState
  <2> QED
    BY <2>1, <2>2
<1>3. TypeOK' /\ eval'[e] = ev /\ \A x \in Eval \ {e} : eval'[x] = eval[x]
  <2>1. /\ cand' \in [StreamRule -> [Stream -> OrAbsent]]
        /\ told' \in [StreamRule -> [Stream -> {"fired", "resolved"}]]
        /\ repeated' \in BOOLEAN /\ waited' \in BOOLEAN /\ server' \in BOOLEAN
        /\ baseline' \in [Stream -> Nat] /\ routes' = routes /\ holding' = holding
        /\ \A q \in StreamRule, s \in Stream :
             IsFiring(cand'[q][s]) => cand'[q][s].since # Never
    BY <1>0 DEF TypeOK, OrAbsent
  <2> QED
    BY <1>0, <1>2, <2>1, OneMoves
<1>4. FiringWasTold'
  BY <1>0, <1>3 DEF FiringWasTold
<1>5. \A q, s : Announced(q, s)' <=> Announced(q, s)
  <2>1. \A d \in ev.dead : ~d.notified
    BY <1>1, <1>2
  <2> QED
    BY <1>0, <1>3, <2>1 DEF Announced
<1>6. Quiet'
  <2>1. Held(ev.dead)
    BY <1>1, <1>2 DEF Held
  <2> QED
    BY <1>0, <1>2, <1>3, <1>5, <2>1 DEF Quiet, Agreed
<1>7. Steady'
  <2> SUFFICES ASSUME ~waited PROVE Steady'
    BY <1>0 DEF Steady
  <2>1. SweptTo(eval[e]) /\ Noted(eval[e])
    BY <1>0 DEF Steady
  <2>2. SweptTo(eval[e])'
    <3> SUFFICES ASSUME NEW s \in Stream, NEW k \in DOMAIN StreamRules,
                        eval[e].snap.streams[s] = Gone, cand[StreamRules[k]][s] # Absent
                 PROVE  \/ k > ev.sweep
                        \/ k = ev.sweep /\ (ev.dead = {} \/ \E d \in ev.dead : d.s = s)
      <4>1. \A d \in ev.dead : ev.snap.streams[d.s] = Gone
        BY <1>1, <1>2, <1>a
      <4> QED
        BY <1>0, <1>2, <1>3, <4>1 DEF SweptTo
    <3>1. k >= eval[e].sweep /\ k \in 1 .. 3
      BY <1>0, <2>1, Rules DEF SweptTo
    <3>2. k = eval[e].sweep => s \in gone
      BY <1>a
    <3> QED
      BY <1>0, <1>1, <1>2, <3>1, <3>2
  <2>3. Noted(eval[e])'
    BY <1>0, <1>2, <1>3, <2>1 DEF Noted
  <2>4. \A q \in BitrateRule, s \in Stream : Fine(q, s)' \/ Owes(eval[e], q, s)'
    <3>1. \A q \in BitrateRule, s \in Stream : Fine(q, s) \/ Owes(eval[e], q, s)
      BY <1>0 DEF Steady, TypeOK
    <3> QED
      BY <1>0, <1>2, <1>3, <3>1 DEF Fine, Owes
  <2>5. \A s \in Stream : cand'["fps-drop"][s] # Absent => baseline'[s] # 0
    BY <1>0 DEF Steady
  <2>6. \A s \in Stream : Adrift(s)' => eval'[e].snap.streams[s] = Gone
    BY <1>0, <1>2, <1>3 DEF Steady, Adrift, TypeOK
  <2> QED
    BY <1>0, <1>3, <2>2, <2>3, <2>4, <2>5, <2>6, RunsOn
<1> QED
  BY <1>3, <1>4, <1>6, <1>7

\* When an evaluation ends, no stream that its snapshot lacks has a candidate.
LEMMA NoneLeft ==
  ASSUME Inv, NEW e \in Eval, Finish(e), ~waited, NEW r \in StreamRule, NEW s \in Stream,
         eval[e].snap.streams[s] = Gone
  PROVE  cand[r][s] = Absent
<1>1. eval[e].at = "run" /\ eval[e].sweep = 4
  BY Rules DEF Finish, Inv, TypeOK
<1>2. PICK k \in DOMAIN StreamRules : StreamRules[k] = r
  BY Rules
<1>3. ~(k > 4) /\ ~(k = 4)
  BY Rules
<1> QED
  BY <1>1, <1>2, <1>3 DEF Inv, Steady, SweptTo

\* An evaluation ends: it owes nothing any more.
LEMMA FinishKeeps ==
  ASSUME Inv, NEW e \in Eval, Finish(e)
  PROVE  Inv'
<1> USE DEF Inv
<1>0. /\ eval[e] \in EvalState /\ Fit(eval[e]) /\ cpu = e /\ eval[e].at = "run"
      /\ eval[e].todo = {} /\ eval[e].dead = {} /\ eval[e].sweep = 4
      /\ UNCHANGED <<cand, routes, holding, told, repeated, waited>>
      /\ cpu' = Nobody /\ eval' = [eval EXCEPT ![e] = IdleEval]
  BY Rules DEF Finish, log, TypeOK, Fit, EvalState
<1>1. /\ IdleEval \in EvalState /\ Fit(IdleEval) /\ IdleEval.at = "idle" /\ IdleEval.age = 0
      /\ IdleEval.dead = {} /\ IdleEval.todo = {}
  BY Ages, Rules DEF IdleEval, EvalState, Fit
<1>2. server' \in BOOLEAN
  <2>1. eval[e].snap \in Snapshot \/ eval[e].snap = NoSnapshot
    BY <1>0 DEF EvalState
  <2>2. CASE eval[e].snap \in Snapshot
    <3>1. eval[e].snap.load \in Loads
      BY <2>2 DEF Snapshot
    <3> QED
      BY <3>1, StreamAssumption, Zenon DEF Finish
  <2>3. CASE eval[e].snap = NoSnapshot
    <3>1. eval[e].snap.load = FALSE
      BY <2>3 DEF NoSnapshot
    <3> QED
      BY <3>1, Zenon DEF Finish
  <2> QED
    BY <2>1, <2>2, <2>3
<1>3. /\ baseline' \in [Stream -> Nat]
      /\ \A s \in Stream :
           baseline'[s] = IF eval[e].snap.streams[s] = Gone THEN 0 ELSE baseline[s]
  BY DEF Finish, TypeOK
<1>4. TypeOK' /\ eval'[e] = IdleEval /\ \A x \in Eval \ {e} : eval'[x] = eval[x]
  <2>1. /\ cand' \in [StreamRule -> [Stream -> OrAbsent]]
        /\ told' \in [StreamRule -> [Stream -> {"fired", "resolved"}]]
        /\ repeated' \in BOOLEAN /\ waited' \in BOOLEAN /\ routes' = routes /\ holding' = holding
        /\ \A r \in StreamRule, s \in Stream :
             IsFiring(cand'[r][s]) => cand'[r][s].since # Never
    BY <1>0 DEF TypeOK, OrAbsent
  <2> HIDE DEF IdleEval
  <2> QED
    BY <1>0, <1>1, <1>2, <1>3, <2>1, OneMoves
<1>5. FiringWasTold'
  BY <1>0, <1>4 DEF FiringWasTold
<1>6. \A r, s : Announced(r, s)' <=> Announced(r, s)
  BY <1>0, <1>1, <1>4 DEF Announced
<1>7. Quiet'
  <2>1. Held(IdleEval.dead)
    BY <1>1 DEF Held
  <2> QED
    BY <1>0, <1>1, <1>4, <1>6, <2>1 DEF Quiet, Agreed
<1>8. Steady'
  <2> SUFFICES ASSUME ~waited PROVE Steady'
    BY <1>0 DEF Steady
  <2>1. \A x \in Eval : eval'[x].at # "run"
    BY <1>0, <1>4, StreamAssumption DEF TypeOK
  <2>2. ASSUME NEW r \in BitrateRule, NEW s \in Stream
        PROVE  Fine(r, s)'
    <3>1. Fine(r, s) \/ Owes(eval[e], r, s)
      BY <1>0 DEF Steady, TypeOK
    <3>2. CASE Fine(r, s)
      BY <1>0, <3>2 DEF Fine
    <3>3. CASE Owes(eval[e], r, s)
      <4>1. eval[e].snap.streams[s] = Gone /\ r \in StreamRule
        BY <1>0, <3>3, Rules DEF Owes
      <4>2. cand[r][s] = Absent
        BY <4>1, NoneLeft
      <4>3. holding[r][s] = Never
        BY <1>0, <4>1 DEF HoldsIn, Steady, Noted
      <4> QED
        BY <1>0, <4>2, <4>3 DEF Fine, OrFresh, Fresh
    <3> QED
      BY <3>1, <3>2, <3>3
  <2>3. ASSUME NEW s \in Stream, cand["fps-drop"][s] # Absent
        PROVE  baseline'[s] # 0
    <3>1. eval[e].snap.streams[s] # Gone
      BY <2>3, NoneLeft, Rules
    <3> QED
      BY <1>3, <2>3, <3>1 DEF Steady
  <2>4. \A s \in Stream : ~Adrift(s)'
    BY <1>0, <1>3 DEF Steady, Adrift, TypeOK
  <2> QED
    BY <1>0, <2>1, <2>2, <2>3, <2>4 DEF Steady
<1> QED
  BY <1>4, <1>5, <1>7, <1>8

\* What a check looks at, and what it does.
CheckOf(e, p, r, s, reading, base, c, isTrue, dur, age, next) ==
  /\ r = StreamRules[p[2]] /\ s = Streams[p[1]] /\ p \in Position
  /\ reading = eval[e].snap.streams[s] /\ reading # Gone /\ reading.fps \in Nat
  /\ base = IF baseline[s] = 0 THEN reading.fps ELSE baseline[s]
  /\ c = OrFresh(cand[r][s]) /\ isTrue = Holds(r, reading, base)
  /\ dur = Duration[r] /\ age = eval[e].age /\ next = [eval[e] EXCEPT !.todo = @ \ {p}]
  /\ \/ /\ Applies(r, reading)
        /\ baseline' = [baseline EXCEPT ![s] = IF r = "fps-drop" THEN base ELSE @]
        /\ cand' = [cand EXCEPT ![r][s] = Checked(c, isTrue, dur, age)]
        /\ \/ Fires(c, isTrue, dur, age) /\ Notify(e, r, s, "fired", next)
           \/ /\ ~Fires(c, isTrue, dur, age) /\ Resolves(c, isTrue)
              /\ Notify(e, r, s, "resolved", next)
           \/ ~Fires(c, isTrue, dur, age) /\ ~Resolves(c, isTrue) /\ GoOn(e, next)
     \/ ~Applies(r, reading) /\ GoOn(e, next) /\ UNCHANGED <<cand, baseline>>

LEMMA CheckIs ==
  ASSUME Inv, NEW e \in Eval, Check(e)
  PROVE  \E p \in eval[e].todo, r \in StreamRule, s \in Stream, reading \in Readings, base \in Nat :
         \E c, isTrue, dur, age, next :
           CheckOf(e, p, r, s, reading, base, c, isTrue, dur, age, next)
<1> USE DEF Inv
<1>0. /\ eval[e] \in EvalState /\ Fit(eval[e]) /\ cpu = e /\ eval[e].at = "run"
      /\ UNCHANGED <<server, routes, holding>>
  BY DEF TypeOK, Fit, Check
<1> DEFINE Reading(p) == eval[e].snap.streams[Streams[p[1]]]
           Base(p) == IF baseline[Streams[p[1]]] = 0 THEN Reading(p).fps
                      ELSE baseline[Streams[p[1]]]
           Before1(p) == OrFresh(cand[StreamRules[p[2]]][Streams[p[1]]])
           True1(p) == Holds(StreamRules[p[2]], Reading(p), Base(p))
           Next1(p) == [eval[e] EXCEPT !.todo = @ \ {p}]
<1>1. PICK p \in eval[e].todo :
        IF Applies(StreamRules[p[2]], Reading(p))
        THEN /\ baseline' = [baseline EXCEPT ![Streams[p[1]]] =
                               IF StreamRules[p[2]] = "fps-drop" THEN Base(p) ELSE @]
             /\ cand' = [cand EXCEPT ![StreamRules[p[2]]][Streams[p[1]]] =
                           Checked(Before1(p), True1(p), Duration[StreamRules[p[2]]], eval[e].age)]
             /\ IF Fires(Before1(p), True1(p), Duration[StreamRules[p[2]]], eval[e].age)
                THEN Notify(e, StreamRules[p[2]], Streams[p[1]], "fired", Next1(p))
                ELSE IF Resolves(Before1(p), True1(p))
                THEN Notify(e, StreamRules[p[2]], Streams[p[1]], "resolved", Next1(p))
                ELSE GoOn(e, Next1(p))
        ELSE GoOn(e, Next1(p)) /\ UNCHANGED <<cand, baseline>>
  BY Zenon DEF Check
<1>a. PICK r, s : r = StreamRules[p[2]] /\ s = Streams[p[1]]
  OBVIOUS
<1>b. PICK reading, base :
       /\ reading = eval[e].snap.streams[s]
       /\ base = IF baseline[s] = 0 THEN reading.fps ELSE baseline[s]
  OBVIOUS
<1>2. /\ r \in StreamRule /\ s \in Stream /\ p \in Position
      /\ reading # Gone /\ reading \in Readings /\ reading.fps \in Nat /\ base \in Nat
  <2>1. p \in Position /\ eval[e].snap.streams[Streams[p[1]]] # Gone
    BY <1>0 DEF Fit, Checks
  <2>2. r \in StreamRule /\ s \in Stream
    BY <1>a, <2>1 DEF Position, StreamRule, Stream
  <2>3. eval[e].snap \in Snapshot
    BY <1>0, <1>a, <2>1, <2>2 DEF EvalState, NoSnapshot
  <2>4. reading \in Readings
    BY <1>a, <1>b, <2>1, <2>2, <2>3 DEF Snapshot
  <2> QED
    BY <1>a, <1>b, <2>1, <2>2, <2>4, StreamAssumption DEF TypeOK
<1>c. PICK c, isTrue, dur, age, next :
       /\ c = OrFresh(cand[r][s]) /\ isTrue = Holds(r, reading, base)
       /\ dur = Duration[r] /\ age = eval[e].age /\ next = [eval[e] EXCEPT !.todo = @ \ {p}]
  OBVIOUS
<1>3. \/ /\ Applies(r, reading)
         /\ baseline' = [baseline EXCEPT ![s] = IF r = "fps-drop" THEN base ELSE @]
         /\ cand' = [cand EXCEPT ![r][s] = Checked(c, isTrue, dur, age)]
         /\ \/ Fires(c, isTrue, dur, age) /\ Notify(e, r, s, "fired", next)
            \/ /\ ~Fires(c, isTrue, dur, age) /\ Resolves(c, isTrue)
               /\ Notify(e, r, s, "resolved", next)
            \/ ~Fires(c, isTrue, dur, age) /\ ~Resolves(c, isTrue) /\ GoOn(e, next)
      \/ ~Applies(r, reading) /\ GoOn(e, next) /\ UNCHANGED <<cand, baseline>>
  BY <1>1, <1>a, <1>b, <1>c, Zenon
<1> HIDE DEF Reading, Base, Before1, True1, Next1
<1>4. CheckOf(e, p, r, s, reading, base, c, isTrue, dur, age, next)
  BY <1>2, <1>3, <1>a, <1>b, <1>c DEF CheckOf
<1> QED
  BY <1>2, <1>4

\* A rule of a live stream is checked.
LEMMA CheckKeeps ==
  ASSUME Inv, NEW e \in Eval, Check(e)
  PROVE  Inv'
<1> USE DEF Inv
<1>0. /\ eval[e] \in EvalState /\ Fit(eval[e]) /\ cpu = e /\ eval[e].at = "run"
      /\ UNCHANGED <<server, routes, holding>>
  BY DEF TypeOK, Fit, Check
<1>1. PICK p \in eval[e].todo, r \in StreamRule, s \in Stream, reading \in Readings, base \in Nat :
        \E c, isTrue, dur, age, next :
          CheckOf(e, p, r, s, reading, base, c, isTrue, dur, age, next)
  BY CheckIs
<1>d. PICK c, isTrue, dur, age, next :
        CheckOf(e, p, r, s, reading, base, c, isTrue, dur, age, next)
  BY <1>1
<1>a. r = StreamRules[p[2]] /\ s = Streams[p[1]]
  BY <1>d DEF CheckOf
<1>b. /\ reading = eval[e].snap.streams[s]
      /\ base = IF baseline[s] = 0 THEN reading.fps ELSE baseline[s]
  BY <1>d DEF CheckOf
<1>2. /\ r \in StreamRule /\ s \in Stream /\ p \in Position
      /\ reading # Gone /\ reading \in Readings /\ reading.fps \in Nat /\ base \in Nat
  BY <1>d DEF CheckOf
<1>c. /\ c = OrFresh(cand[r][s]) /\ isTrue = Holds(r, reading, base)
      /\ dur = Duration[r] /\ age = eval[e].age /\ next = [eval[e] EXCEPT !.todo = @ \ {p}]
  BY <1>d DEF CheckOf
<1>3. \/ /\ Applies(r, reading)
         /\ baseline' = [baseline EXCEPT ![s] = IF r = "fps-drop" THEN base ELSE @]
         /\ cand' = [cand EXCEPT ![r][s] = Checked(c, isTrue, dur, age)]
         /\ \/ Fires(c, isTrue, dur, age) /\ Notify(e, r, s, "fired", next)
            \/ /\ ~Fires(c, isTrue, dur, age) /\ Resolves(c, isTrue)
               /\ Notify(e, r, s, "resolved", next)
            \/ ~Fires(c, isTrue, dur, age) /\ ~Resolves(c, isTrue) /\ GoOn(e, next)
      \/ ~Applies(r, reading) /\ GoOn(e, next) /\ UNCHANGED <<cand, baseline>>
  BY <1>d, Zenon DEF CheckOf
<1>4. /\ next \in EvalState /\ next.at = "run" /\ next.age = eval[e].age
      /\ next.snap = eval[e].snap /\ next.todo = eval[e].todo \ {p}
      /\ next.sweep = eval[e].sweep /\ next.dead = {} /\ eval[e].dead = {} /\ Fit(next)
  BY <1>0, <1>c DEF EvalState, Fit
<1>5. /\ isTrue \in BOOLEAN /\ dur \in Nat /\ age \in 0 .. MaxAge
      /\ c \in Candidate(OldAge) /\ (c.firing <=> IsFiring(cand[r][s]))
      /\ c.since # Never => cand[r][s] # Absent /\ c.since = cand[r][s].since
  <2>1. isTrue \in BOOLEAN
    BY <1>2, <1>c, HoldsOrNot
  <2>2. cand[r][s] \in OrAbsent
    BY <1>2 DEF TypeOK, OrAbsent
  <2>3. dur \in Nat /\ age \in 0 .. MaxAge
    BY <1>0, <1>2, <1>c, Ages DEF EvalState
  <2> QED
    BY <1>c, <2>1, <2>2, <2>3, FreshOrNot
<1>e. PICK new : new = Checked(c, isTrue, dur, age)
  OBVIOUS
<1>6. /\ new \in Candidate(OldAge) /\ new # Absent /\ (new.firing => new.since # Never)
      /\ Fires(c, isTrue, dur, age) => new.firing /\ ~c.firing
      /\ ~Fires(c, isTrue, dur, age) /\ Resolves(c, isTrue) => ~new.firing /\ c.firing
      /\ ~Fires(c, isTrue, dur, age) /\ ~Resolves(c, isTrue) => new.firing = c.firing
      /\ new.since # Never => isTrue /\ new.since = IF c.since = Never THEN age ELSE c.since
      /\ isTrue => new.since # Never /\ (new.firing \/ new.since < age + dur)
      /\ IsFiring(new) <=> new.firing
  <2>1. new # Absent
    BY <1>5, <1>e, CheckLeaves, AbsentIsNone
  <2> QED
    BY <1>5, <1>e, <2>1, CheckLeaves DEF IsFiring
\* The candidate, and what is said of it.
<1>7. /\ cand' \in [StreamRule -> [Stream -> OrAbsent]]
      /\ \A q \in StreamRule, t \in Stream : q # r \/ t # s => cand'[q][t] = cand[q][t]
      /\ \/ ~Applies(r, reading) /\ cand' = cand
         \/ Applies(r, reading) /\ cand'[r][s] = new
  <2>1. cand \in [StreamRule -> [Stream -> OrAbsent]] /\ new \in OrAbsent
    BY <1>6 DEF TypeOK, OrAbsent
  <2>2. CASE cand' = [cand EXCEPT ![r][s] = new] /\ Applies(r, reading)
    BY <1>2, <2>1, <2>2, EntrySet
  <2>3. CASE cand' = cand /\ ~Applies(r, reading)
    BY <2>1, <2>3
  <2> QED
    BY <1>3, <1>e, <2>2, <2>3
<1>8. \A q \in StreamRule, t \in Stream : IsFiring(cand'[q][t]) => cand'[q][t].since # Never
  BY <1>6, <1>7 DEF TypeOK
<1>9. /\ told' \in [StreamRule -> [Stream -> {"fired", "resolved"}]]
      /\ \A q \in StreamRule, t \in Stream : q # r \/ t # s => told'[q][t] = told[q][t]
      /\ \/ /\ IsFiring(cand'[r][s]) <=> IsFiring(cand[r][s])
            /\ told'[r][s] = told[r][s] /\ repeated' = repeated
         \/ /\ IsFiring(cand'[r][s]) /\ ~IsFiring(cand[r][s])
            /\ told'[r][s] = "fired" /\ repeated' = (repeated \/ told[r][s] = "fired")
         \/ /\ ~IsFiring(cand'[r][s]) /\ IsFiring(cand[r][s])
            /\ told'[r][s] = "resolved" /\ repeated' = (repeated \/ told[r][s] = "resolved")
  <2>1. told \in [StreamRule -> [Stream -> {"fired", "resolved"}]]
    BY DEF TypeOK
  <2>2. CASE ~Applies(r, reading)
    BY <1>3, <1>7, <2>1, <2>2 DEF GoOn, log
  <2>3. CASE Applies(r, reading) /\ Fires(c, isTrue, dur, age)
    <3>1. Notify(e, r, s, "fired", next)
      BY <1>3, <2>3, Zenon
    <3> QED
      BY <1>2, <1>5, <1>6, <1>7, <2>1, <2>3, <3>1, EntrySet DEF Notify
  <2>4. CASE Applies(r, reading) /\ ~Fires(c, isTrue, dur, age) /\ Resolves(c, isTrue)
    <3>1. Notify(e, r, s, "resolved", next)
      BY <1>3, <2>4, Zenon
    <3> QED
      BY <1>2, <1>5, <1>6, <1>7, <2>1, <2>4, <3>1, EntrySet DEF Notify
  <2>5. CASE Applies(r, reading) /\ ~Fires(c, isTrue, dur, age) /\ ~Resolves(c, isTrue)
    <3>1. GoOn(e, next)
      BY <1>3, <2>5, Zenon
    <3> QED
      BY <1>5, <1>6, <1>7, <2>1, <2>5, <3>1 DEF GoOn, log
  <2> QED
    BY <2>2, <2>3, <2>4, <2>5
<1>10. PICK ev \in EvalState :
         /\ eval' = [eval EXCEPT ![e] = ev] /\ Fit(ev)
         /\ ev.age = eval[e].age /\ ev.snap = eval[e].snap /\ ev.todo = eval[e].todo \ {p}
         /\ ev.sweep = eval[e].sweep /\ ev.dead = {}
         /\ \/ ev.at = "run" /\ cpu' = e
            \/ ev.at = "mail" /\ cpu' = Nobody /\ waited'
  <2>1. CASE GoOn(e, next)
    BY <1>0, <1>4, <2>1 DEF GoOn
  <2>2. CASE \E what : Notify(e, r, s, what, next)
    <3>1. PICK a \in {"mail", "run"} :
            /\ eval' = [eval EXCEPT ![e] = [next EXCEPT !.at = a]]
            /\ \/ a = "run" /\ cpu' = e
               \/ a = "mail" /\ cpu' = Nobody /\ waited'
      BY <2>2 DEF Notify
    <3> PICK ev : ev = [next EXCEPT !.at = a]
      OBVIOUS
    <3>2. /\ ev \in EvalState /\ ev.at = a /\ ev.age = next.age /\ ev.snap = next.snap
          /\ ev.todo = next.todo /\ ev.sweep = next.sweep /\ ev.dead = next.dead
      BY <1>4 DEF EvalState
    <3>3. Fit(ev)
      BY <1>4, <3>2, <3>1 DEF Fit
    <3> QED
      BY <1>4, <3>1, <3>2, <3>3
  <2> QED
    BY <1>3, <2>1, <2>2
<1>11. repeated' \in BOOLEAN /\ waited' \in BOOLEAN /\ (waited => waited')
  <2>1. repeated \in BOOLEAN /\ waited \in BOOLEAN
    BY DEF TypeOK
  <2> QED
    BY <1>3, <2>1, Zenon DEF Notify, GoOn, log
<1>12. /\ baseline' \in [Stream -> Nat]
       /\ \A t \in Stream : t # s \/ r # "fps-drop" => baseline'[t] = baseline[t]
       /\ r = "fps-drop" /\ Applies(r, reading) => baseline'[s] # 0
       /\ ~Applies(r, reading) => baseline' = baseline
  <2>1. baseline \in [Stream -> Nat]
    BY DEF TypeOK
  <2>2. CASE Applies(r, reading)
    <3>1. baseline' = [baseline EXCEPT ![s] = IF r = "fps-drop" THEN base ELSE baseline[s]]
      BY <1>3, <2>2
    <3>2. r = "fps-drop" => base # 0
      BY <1>2, <1>b, <2>2 DEF Applies
    <3> QED
      BY <1>2, <2>1, <2>2, <3>1, <3>2
  <2>3. CASE ~Applies(r, reading)
    BY <1>3, <2>1, <2>3 DEF Applies
  <2> QED
    BY <2>2, <2>3
<1>13. TypeOK' /\ eval'[e] = ev /\ \A x \in Eval \ {e} : eval'[x] = eval[x]
  <2>1. server' \in BOOLEAN /\ routes' = routes /\ holding' = holding /\ cpu \in {e, Nobody}
    BY <1>0 DEF TypeOK
  <2>2. \/ ev.at = "run" /\ cpu' = e
        \/ ev.at # "run" /\ cpu' = Nobody
    BY <1>10
  <2> QED
    BY <1>7, <1>8, <1>9, <1>10, <1>11, <1>12, <2>1, <2>2, OneMoves
<1>14. FiringWasTold'
  <2> SUFFICES ASSUME NEW q \in StreamRule, NEW t \in Stream, IsFiring(cand'[q][t]),
                      told'[q][t] # "fired"
               PROVE  Announced(q, t)'
    BY DEF FiringWasTold, Announced
  <2>1. IsFiring(cand[q][t]) /\ told[q][t] = told'[q][t]
    BY <1>7, <1>9
  <2>2. PICK x \in Eval : \E d \in eval[x].dead :
          StreamRules[eval[x].sweep] = q /\ d.s = t /\ d.notified
    BY <2>1 DEF FiringWasTold
  <2>3. x # e
    BY <1>4, <2>2
  <2> QED
    BY <1>13, <2>2, <2>3 DEF Announced
<1>15. Quiet'
  <2> SUFFICES ASSUME ~waited'
               PROVE  /\ ~repeated'
                      /\ \A x \in Eval : /\ eval'[x].at # "mail" /\ eval'[x].age = 0
                                         /\ Held(eval'[x].dead)
                      /\ \A q \in StreamRule, t \in Stream : Agreed(q, t)'
    BY DEF Quiet
  <2>1. ~waited /\ ev.at = "run"
    BY <1>10, <1>11
  <2>2. \A x \in Eval : eval[x].dead = {} /\ eval'[x].dead = {}
    BY <1>0, <1>4, <1>10, <1>13, <2>1, Alone
  <2>3. \A x \in Eval : eval'[x].at # "mail" /\ eval'[x].age = 0
    BY <1>10, <1>13, <2>1 DEF Quiet
  <2>4. \A q, t : ~Announced(q, t) /\ ~Announced(q, t)'
    BY <2>2 DEF Announced
  <2>5. /\ ~repeated
        /\ \A q \in StreamRule, t \in Stream : told[q][t] = "fired" <=> IsFiring(cand[q][t])
    BY <2>1, <2>4 DEF Quiet, Agreed
  <2>6. told[r][s] \in {"fired", "resolved"}
    BY <1>2 DEF TypeOK
  <2>7. ~repeated'
    BY <1>2, <1>9, <2>5, <2>6
  <2>8. \A q \in StreamRule, t \in Stream : told'[q][t] = "fired" <=> IsFiring(cand'[q][t])
    BY <1>2, <1>7, <1>9, <2>5
  <2> QED
    BY <2>2, <2>3, <2>4, <2>7, <2>8 DEF Held, Agreed
<1>16. Steady'
  <2> SUFFICES ASSUME ~waited' PROVE Steady'
    BY DEF Steady
  <2>1. ~waited /\ ev.at = "run" /\ cpu' = e /\ age = 0
    BY <1>10, <1>11, <1>c DEF Quiet
  <2>2. SweptTo(eval[e]) /\ Noted(eval[e])
    BY <1>0, <2>1 DEF Steady
  <2>3. SweptTo(eval[e])'
    <3> SUFFICES ASSUME NEW t \in Stream, NEW k \in DOMAIN StreamRules,
                        eval[e].snap.streams[t] = Gone, cand'[StreamRules[k]][t] # Absent
                 PROVE  k > eval[e].sweep \/ k = eval[e].sweep
      BY <1>4, <1>10, <1>13 DEF SweptTo
    <3>1. t # s
      BY <1>2, <1>b
    <3>2. cand[StreamRules[k]][t] # Absent
      BY <1>7, <3>1, Rules
    <3> QED
      BY <2>2, <3>2 DEF SweptTo
  <2>4. Noted(eval[e])'
    BY <1>0, <1>10, <1>13, <2>2 DEF Noted
  <2>5. ASSUME NEW q \in BitrateRule, NEW t \in Stream
        PROVE  Fine(q, t)' \/ Owes(eval[e], q, t)'
    <3>1. Fine(q, t) \/ Owes(eval[e], q, t)
      BY <1>0, <2>1 DEF Steady, TypeOK
    <3>2. q \in StreamRule
      BY Rules
    <3>3. CASE q # r \/ t # s
      <4>1. cand'[q][t] = cand[q][t]
        BY <1>7, <3>2, <3>3
      <4>2. Fine(q, t)' <=> Fine(q, t)
        BY <1>0, <4>1 DEF Fine
      <4>3. Owes(eval[e], q, t)' <=> Owes(eval[e], q, t)
        BY <1>0, <1>10, <1>13, <1>a, <3>3, <4>1 DEF Owes
      <4> QED
        BY <3>1, <4>2, <4>3
    <3>4. CASE q = r /\ t = s
      <4>1. Applies(r, reading) /\ cand'[r][s] = new
        BY <1>7, <3>4 DEF Applies, BitrateRule
      <4>2. HoldsIn(r, s, eval[e].snap) <=> isTrue
        BY <1>2, <1>b, <1>c, <3>4, BitrateHolds DEF HoldsIn
      <4>3. isTrue <=> holding[r][s] # Never
        BY <1>2, <2>2, <3>4, <4>2 DEF Noted
      <4>4. isTrue => holding[r][s] = IF c.since = Never THEN 0 ELSE c.since
        <5>1. c = OrFresh(cand[r][s]) /\ eval[e].snap.streams[s] # Gone
          BY <1>2, <1>b, <1>c
        <5> QED
          BY <3>1, <3>4, <4>2, <4>3, <5>1 DEF Fine, Owes
      <4>5. holding[r][s] = new.since
        BY <1>6, <2>1, <4>3, <4>4
      <4>6. new.since # Never => new.firing \/ new.since < Duration[r]
        BY <1>5, <1>6, <1>c, <2>1
      <4> QED
        BY <1>0, <1>6, <3>4, <4>1, <4>5, <4>6 DEF Fine, OrFresh
    <3> QED
      BY <3>3, <3>4
  <2>6. ASSUME NEW t \in Stream, cand'["fps-drop"][t] # Absent
        PROVE  baseline'[t] # 0
    <3>1. CASE t = s /\ r = "fps-drop" /\ Applies(r, reading)
      BY <1>12, <3>1
    <3>2. CASE ~(t = s /\ r = "fps-drop" /\ Applies(r, reading))
      <4>1. cand'["fps-drop"][t] = cand["fps-drop"][t] /\ baseline'[t] = baseline[t]
        BY <1>7, <1>12, <3>2, Rules
      <4> QED
        BY <2>1, <2>6, <4>1 DEF Steady
    <3> QED
      BY <3>1, <3>2
  <2>7. ASSUME NEW t \in Stream, Adrift(t)'
        PROVE  eval'[e].snap.streams[t] = Gone
    <3>1. cand'["fps-drop"][t] = cand["fps-drop"][t] /\ baseline'[t] = baseline[t]
      BY <1>6, <1>7, <1>12, <2>7, AbsentIsNone, Rules DEF Adrift
    <3>2. eval[e].snap.streams[t] = Gone
      BY <1>0, <2>1, <2>7, <3>1 DEF Steady, Adrift, TypeOK
    <3> QED
      BY <1>10, <1>13, <3>2
  <2> QED
    BY <1>13, <2>1, <2>3, <2>4, <2>5, <2>6, <2>7, RunsOn
<1> QED
  BY <1>13, <1>14, <1>15, <1>16

\* What a sweep does to tell an end.
Tells(e, r, d) ==
  /\ Notify(e, r, d.s, "resolved",
            [eval[e] EXCEPT !.dead = (@ \ {d}) \cup {[d EXCEPT !.notified = TRUE]}])
  /\ UNCHANGED <<cand, server, baseline, routes, holding>>

\* The end of a gone stream's alert is told: it is Announced now.
LEMMA TellKeeps ==
  ASSUME Inv, NEW e \in Eval, NEW r, r = StreamRules[eval[e].sweep],
         NEW d \in eval[e].dead, cpu = e, StillFiring(r, d), ~d.notified,
         Tells(e, r, d)
  PROVE  Inv'
<1> USE DEF Inv
<1>a. PICK D : D = eval[e].dead
  OBVIOUS
<1>b. PICK told1 : told1 = [d EXCEPT !.notified = TRUE]
  OBVIOUS
<1>c. PICK E : E = (D \ {d}) \cup {told1}
  OBVIOUS
<1>d. PICK next : next = [eval[e] EXCEPT !.dead = E]
  OBVIOUS
<1>0. /\ eval[e] \in EvalState /\ Fit(eval[e]) /\ cpu = e /\ eval[e].at = "run"
      /\ eval[e].todo = {} /\ eval[e].sweep \in 1 .. 3 /\ D \subseteq Dead /\ d \in D
      /\ d \in Dead /\ d.s \in Stream /\ r \in StreamRule
  BY <1>a, Rules DEF TypeOK, Fit, EvalState, Dead
<1>u. UNCHANGED <<cand, server, baseline, routes, holding>>
  BY DEF Tells
<1>1. told1 \in Dead /\ told1.s = d.s /\ told1.notified /\ told1.firing = d.firing
  BY <1>0, <1>b DEF Dead
<1>2. E \subseteq Dead /\ told1 \in E /\ \A x \in E : x = told1 \/ x \in D
  BY <1>0, <1>1, <1>c
<1>3. /\ next \in EvalState /\ next.at = "run" /\ next.age = eval[e].age
      /\ next.snap = eval[e].snap /\ next.todo = {} /\ next.sweep = eval[e].sweep
      /\ next.dead = E /\ Fit(next)
  BY <1>0, <1>2, <1>d, Rules DEF EvalState, Fit
<1>4. Notify(e, r, d.s, "resolved", next)
  BY <1>a, <1>b, <1>c, <1>d, Zenon DEF Tells
<1>5. PICK ev \in EvalState :
        /\ eval' = [eval EXCEPT ![e] = ev] /\ Fit(ev)
        /\ ev.age = eval[e].age /\ ev.snap = eval[e].snap /\ ev.todo = {}
        /\ ev.sweep = eval[e].sweep /\ ev.dead = E
        /\ \/ ev.at = "run" /\ cpu' = e
           \/ ev.at = "mail" /\ cpu' = Nobody /\ waited'
  <2>1. PICK a \in {"mail", "run"} :
          /\ eval' = [eval EXCEPT ![e] = [next EXCEPT !.at = a]]
          /\ \/ a = "run" /\ cpu' = e
             \/ a = "mail" /\ cpu' = Nobody /\ waited'
    BY <1>4 DEF Notify
  <2> PICK ev : ev = [next EXCEPT !.at = a]
    OBVIOUS
  <2>2. /\ ev \in EvalState /\ ev.at = a /\ ev.age = next.age /\ ev.snap = next.snap
        /\ ev.todo = next.todo /\ ev.sweep = next.sweep /\ ev.dead = next.dead
    BY <1>3 DEF EvalState
  <2>3. Fit(ev)
    BY <1>3, <2>2, <2>1 DEF Fit
  <2> QED
    BY <1>3, <2>1, <2>2, <2>3
<1>6. /\ told' \in [StreamRule -> [Stream -> {"fired", "resolved"}]]
      /\ told'[r][d.s] = "resolved"
      /\ \A q \in StreamRule, t \in Stream : q # r \/ t # d.s => told'[q][t] = told[q][t]
      /\ repeated' = (repeated \/ told[r][d.s] = "resolved")
      /\ repeated' \in BOOLEAN /\ waited' \in BOOLEAN /\ (waited => waited')
  <2>1. told \in [StreamRule -> [Stream -> {"fired", "resolved"}]]
    BY DEF TypeOK
  <2>2. repeated \in BOOLEAN /\ waited \in BOOLEAN
    BY DEF TypeOK
  <2>3. repeated' \in BOOLEAN /\ waited' \in BOOLEAN /\ (waited => waited')
    BY <1>4, <2>2, Zenon DEF Notify
  <2>4. told' = [told EXCEPT ![r][d.s] = "resolved"]
    BY <1>4 DEF Notify
  <2>5. repeated' = (repeated \/ told[r][d.s] = "resolved")
    BY <1>4 DEF Notify
  <2>6. PICK s \in Stream : s = d.s
    BY <1>0
  <2>7. r \in StreamRule /\ told' = [told EXCEPT ![r][s] = "resolved"]
    BY <1>0, <2>4, <2>6
  <2>8. /\ told' \in [StreamRule -> [Stream -> {"fired", "resolved"}]]
        /\ told'[r][s] = "resolved"
        /\ \A q \in StreamRule, t \in Stream : q # r \/ t # s => told'[q][t] = told[q][t]
    BY <2>1, <2>7
  <2> QED
    BY <2>3, <2>5, <2>6, <2>8
<1>7. TypeOK' /\ eval'[e] = ev /\ \A x \in Eval \ {e} : eval'[x] = eval[x]
  <2>1. /\ cand' \in [StreamRule -> [Stream -> OrAbsent]] /\ server' \in BOOLEAN
        /\ baseline' \in [Stream -> Nat] /\ routes' = routes /\ holding' = holding
        /\ \A q \in StreamRule, s \in Stream :
             IsFiring(cand'[q][s]) => cand'[q][s].since # Never
    BY <1>u DEF TypeOK, OrAbsent
  <2>2. \/ ev.at = "run" /\ cpu' = e
        \/ ev.at # "run" /\ cpu' = Nobody
    BY <1>5
  <2> QED
    BY <1>0, <1>5, <1>6, <2>1, <2>2, OneMoves
<1>8. \A q, t : Announced(q, t)' <=> (q = r /\ t = d.s) \/ Announced(q, t)
  <2>1. \A t : (\E x \in E : x.s = t /\ x.notified)
                <=> t = d.s \/ \E x \in D : x.s = t /\ x.notified
    BY <1>0, <1>1, <1>c
  <2> QED
    BY <1>5, <1>7, <1>a, <2>1 DEF Announced
<1>9. FiringWasTold'
  <2>1. \A q \in StreamRule, t \in Stream :
          IsFiring(cand[q][t]) => told[q][t] = "fired" \/ Announced(q, t)
    BY Zenon DEF FiringWasTold, Announced
  <2>2. \A q \in StreamRule, t \in Stream :
          IsFiring(cand'[q][t]) => told'[q][t] = "fired" \/ Announced(q, t)'
    BY <1>u, <1>6, <1>8, <2>1
  <2> QED
    BY <2>2, Zenon DEF FiringWasTold, Announced
<1>10. Quiet'
  <2> SUFFICES ASSUME ~waited'
               PROVE  /\ ~repeated'
                      /\ \A x \in Eval : /\ eval'[x].at # "mail" /\ eval'[x].age = 0
                                         /\ Held(eval'[x].dead)
                      /\ \A q \in StreamRule, t \in Stream : Agreed(q, t)'
    BY DEF Quiet
  <2>1. ~waited /\ ev.at = "run" /\ Held(D)
    BY <1>5, <1>6, <1>a DEF Quiet
  <2>2. \A x \in Eval \ {e} : eval[x].dead = {}
    BY <1>0, <2>1, Alone
  <2>3. Held(E)
    BY <1>0, <1>1, <1>c, <2>1 DEF Held
  <2>4. \A x \in Eval : eval'[x].at # "mail" /\ eval'[x].age = 0 /\ Held(eval'[x].dead)
    BY <1>5, <1>7, <2>1, <2>3 DEF Quiet
  <2>5. IsFiring(cand[r][d.s]) /\ ~Announced(r, d.s)
    <3>1. d.firing = "live" /\ \A x \in D : x.s = d.s => x = d
      BY <1>0, <2>1 DEF Held
    <3>2. IsFiring(cand[r][d.s])
      BY <3>1 DEF StillFiring
    <3> QED
      BY <1>a, <2>2, <3>1, <3>2 DEF Announced
  <2>6. ~repeated /\ told[r][d.s] = "fired"
    BY <1>0, <2>1, <2>5 DEF Quiet, Agreed
  <2>7. \A q \in StreamRule, t \in Stream : Agreed(q, t)'
    <3>1. \A q \in StreamRule, t \in Stream : Agreed(q, t)
      BY <2>1 DEF Quiet
    <3> QED
      BY <1>u, <1>6, <1>8, <3>1 DEF Agreed
  <2> QED
    BY <1>6, <2>4, <2>6, <2>7
<1>11. Steady'
  <2> SUFFICES ASSUME ~waited' PROVE Steady'
    BY DEF Steady
  <2>1. ~waited /\ cpu' = e
    BY <1>5, <1>6
  <2>2. SweptTo(eval[e]) /\ Noted(eval[e])
    BY <1>0, <2>1 DEF Steady
  <2>3. SweptTo(eval[e])'
    <3>1. \A t : (\E x \in D : x.s = t) => \E x \in E : x.s = t
      BY <1>1, <1>c
    <3>2. D # {}
      BY <1>0
    <3>3. \A x \in E : eval[e].snap.streams[x.s] = Gone
      BY <1>0, <1>1, <1>2, <1>a, <2>2 DEF SweptTo
    <3> QED
      BY <1>u, <1>5, <1>7, <1>a, <2>2, <3>1, <3>2, <3>3 DEF SweptTo
  <2>4. Noted(eval[e])'
    BY <1>u, <1>5, <1>7, <2>2 DEF Noted
  <2>5. \A q \in BitrateRule, t \in Stream : Fine(q, t)' \/ Owes(eval[e], q, t)'
    <3>1. \A q \in BitrateRule, t \in Stream : Fine(q, t) \/ Owes(eval[e], q, t)
      BY <1>0, <2>1 DEF Steady, TypeOK
    <3> QED
      BY <1>u, <1>0, <1>5, <1>7, <3>1 DEF Fine, Owes
  <2>6. \A t \in Stream : cand'["fps-drop"][t] # Absent => baseline'[t] # 0
    BY <1>u, <2>1 DEF Steady
  <2>7. \A t \in Stream : Adrift(t)' => eval'[e].snap.streams[t] = Gone
    BY <1>u, <1>0, <1>5, <1>7, <2>1 DEF Steady, Adrift, TypeOK
  <2> QED
    BY <1>7, <2>1, <2>3, <2>4, <2>5, <2>6, <2>7, RunsOn
<1> QED
  BY <1>7, <1>9, <1>10, <1>11

\* What a sweep does to drop a candidate.
Drops(e, r, d) ==
  /\ cand' = [cand EXCEPT ![r][d.s] = Absent]
  /\ eval' = [Detach(eval, eval[e].sweep, d.s) EXCEPT ![e] = Dropped(eval[e], d)]
  /\ UNCHANGED <<cpu, log, server, baseline, routes, holding>>

\* A candidate is dropped: its end was told before, or it was not firing.
LEMMA DropKeeps ==
  ASSUME Inv, NEW e \in Eval, NEW r, r = StreamRules[eval[e].sweep],
         NEW d \in eval[e].dead, cpu = e, ~(StillFiring(r, d) /\ ~d.notified),
         Drops(e, r, d)
  PROVE  Inv'
<1> USE DEF Inv
<1>a. PICK D : D = eval[e].dead
  OBVIOUS
<1>b. PICK ev : ev = Dropped(eval[e], d)
  OBVIOUS
<1>0. /\ eval[e] \in EvalState /\ Fit(eval[e]) /\ cpu = e /\ eval[e].at = "run"
      /\ eval[e].todo = {} /\ eval[e].sweep \in 1 .. 3 /\ D \subseteq Dead /\ d \in D
      /\ d \in Dead /\ d.s \in Stream /\ r \in StreamRule
      /\ UNCHANGED <<cpu, told, repeated, waited, server, baseline, routes, holding>>
  BY <1>a, Rules DEF Drops, TypeOK, Fit, EvalState, Dead, log
<1>1. /\ ev \in EvalState /\ Fit(ev) /\ ev.at = "run" /\ ev.age = eval[e].age
      /\ ev.snap = eval[e].snap /\ ev.todo = {} /\ ev.dead = D \ {d}
      /\ \/ D = {d} /\ ev.sweep = eval[e].sweep + 1
         \/ D # {d} /\ ev.sweep = eval[e].sweep
  <2> PICK n : n = IF D = {d} THEN eval[e].sweep + 1 ELSE eval[e].sweep
    OBVIOUS
  <2>1. n \in 1 .. AllSwept /\ (D # {d} => n < AllSwept) /\ D \ {d} \in SUBSET Dead
    BY <1>0, Rules
  <2>2. ev = [eval[e] EXCEPT !.dead = D \ {d}, !.sweep = n]
    BY <1>a, <1>b DEF Dropped
  <2>3. D \ {d} # {} => D # {d}
    OBVIOUS
  <2> QED
    BY <1>0, <2>1, <2>2, <2>3 DEF EvalState, Fit
<1>f. PICK f \in {"yes", "no"} : f = IF IsFiring(cand[r][d.s]) THEN "yes" ELSE "no"
  OBVIOUS
<1> DEFINE F(x) == {IF eval[x].sweep = eval[e].sweep /\ c.s = d.s /\ c.firing = "live"
                    THEN [c EXCEPT !.firing = f] ELSE c : c \in eval[x].dead}
           G(x) == IF x = e THEN ev ELSE [eval[x] EXCEPT !.dead = F(x)]
<1>2. eval' = [x \in Eval |-> G(x)]
  <2>1. Detach(eval, eval[e].sweep, d.s) = [x \in Eval |-> [eval[x] EXCEPT !.dead = F(x)]]
    BY <1>f DEF Detach
  <2>2. eval' = [Detach(eval, eval[e].sweep, d.s) EXCEPT ![e] = ev]
    BY <1>b DEF Drops
  <2> HIDE DEF F
  <2> QED
    BY <2>1, <2>2
<1>3. ASSUME NEW x \in Eval
      PROVE  /\ eval[x] \in EvalState /\ Fit(eval[x])
             /\ F(x) \subseteq Dead
             /\ \A c \in F(x) : \E b \in eval[x].dead : c.s = b.s /\ c.notified = b.notified
             /\ \A b \in eval[x].dead : \E c \in F(x) : c.s = b.s /\ c.notified = b.notified
  <2>1. eval[x] \in EvalState /\ Fit(eval[x])
    BY DEF TypeOK, Fit
  <2>2. \A c \in eval[x].dead :
          /\ [c EXCEPT !.firing = f] \in Dead /\ c \in Dead
          /\ [c EXCEPT !.firing = f].s = c.s /\ [c EXCEPT !.firing = f].notified = c.notified
    BY <2>1 DEF EvalState, Dead
  <2>3. F(x) \subseteq Dead
    BY <2>2
  <2> QED
    BY <2>1, <2>2, <2>3
<1>4. ASSUME NEW x \in Eval, x # e
      PROVE  /\ eval'[x] \in EvalState /\ Fit(eval'[x]) /\ eval'[x].at = eval[x].at
             /\ eval'[x].age = eval[x].age /\ eval'[x].sweep = eval[x].sweep
             /\ eval'[x].dead = F(x)
  <2>a. PICK X : X = F(x)
    OBVIOUS
  <2>1. /\ X \in SUBSET Dead /\ \A c \in X : \E b \in eval[x].dead : c.s = b.s
        /\ eval[x] \in EvalState /\ Fit(eval[x])
    <3> HIDE DEF F
    <3> QED
      BY <1>3, <2>a
  <2>2. eval'[x] = [eval[x] EXCEPT !.dead = X]
    BY <1>2, <1>4, <2>a
  <2> HIDE DEF F
  <2> QED
    BY <2>1, <2>2, <2>a DEF EvalState, Fit
<1>5. eval'[e] = ev
  BY <1>2
<1>6. /\ cand' \in [StreamRule -> [Stream -> OrAbsent]] /\ cand'[r][d.s] = Absent
      /\ \A q \in StreamRule, t \in Stream : q # r \/ t # d.s => cand'[q][t] = cand[q][t]
  <2>1. cand \in [StreamRule -> [Stream -> OrAbsent]] /\ Absent \in OrAbsent
    BY DEF TypeOK, OrAbsent
  <2> QED
    BY <1>0, <2>1, EntrySet DEF Drops
<1>7. TypeOK'
  <2>1. eval' \in [Eval -> EvalState]
    <3>1. \A x \in Eval : G(x) = eval'[x]
      BY <1>2
    <3>2. \A x \in Eval : eval'[x] \in EvalState
      BY <1>1, <1>4, <1>5
    <3> HIDE DEF G
    <3> QED
      BY <1>2, <3>1, <3>2
  <2>2. \A x \in Eval : (eval'[x].at = "run" <=> cpu' = x) /\ Fit(eval'[x])
    <3>1. \A x \in Eval : eval[x].at = "run" <=> cpu = x
      BY DEF TypeOK
    <3>2. ASSUME NEW x \in Eval, x # e
          PROVE  (eval'[x].at = "run" <=> cpu' = x) /\ Fit(eval'[x])
      BY <1>0, <1>4, <3>1, <3>2
    <3>3. (eval'[e].at = "run" <=> cpu' = e) /\ Fit(eval'[e])
      BY <1>0, <1>1, <1>5
    <3> QED
      BY <3>2, <3>3
  <2>3. \A q \in StreamRule, t \in Stream : IsFiring(cand'[q][t]) => cand'[q][t].since # Never
    BY <1>6 DEF TypeOK, IsFiring
  <2>4. /\ told' \in [StreamRule -> [Stream -> {"fired", "resolved"}]]
        /\ repeated' \in BOOLEAN /\ waited' \in BOOLEAN /\ server' \in BOOLEAN
        /\ baseline' \in [Stream -> Nat] /\ routes' \subseteq Mailable
        /\ holding' \in [BitrateRule -> [Stream -> (0 .. OldAge) \cup {Never}]] /\ cpu' \in Eval \cup {Nobody}
    BY <1>0 DEF TypeOK
  <2> QED
    BY <1>6, <2>1, <2>2, <2>3, <2>4 DEF TypeOK, Fit, OrAbsent
<1> HIDE DEF F, G
<1>8. FiringWasTold'
  <2> SUFFICES ASSUME NEW q \in StreamRule, NEW t \in Stream, IsFiring(cand'[q][t]),
                      told'[q][t] # "fired"
               PROVE  \E x \in Eval : \E c \in eval'[x].dead :
                        StreamRules[eval'[x].sweep] = q /\ c.s = t /\ c.notified
    BY DEF FiringWasTold
  <2>1. (q # r \/ t # d.s) /\ cand'[q][t] = cand[q][t]
    BY <1>6 DEF IsFiring
  <2>2. PICK x \in Eval : \E b \in eval[x].dead :
          StreamRules[eval[x].sweep] = q /\ b.s = t /\ b.notified
    BY <1>0, <2>1 DEF FiringWasTold
  <2>3. CASE x = e
    <3>1. PICK b \in D : StreamRules[eval[e].sweep] = q /\ b.s = t /\ b.notified
      BY <1>a, <2>2, <2>3
    <3>2. b # d /\ b \in ev.dead /\ ev.sweep = eval[e].sweep
      BY <1>1, <2>1, <3>1
    <3> QED
      BY <1>5, <3>1, <3>2
  <2>4. CASE x # e
    <3>1. PICK b \in eval[x].dead : StreamRules[eval[x].sweep] = q /\ b.s = t /\ b.notified
      BY <2>2
    <3>2. PICK c \in F(x) : c.s = t /\ c.notified
      BY <1>3, <3>1
    <3> QED
      BY <1>4, <2>4, <3>1, <3>2
  <2> QED
    BY <2>3, <2>4
<1>9. ASSUME ~waited
      PROVE  /\ Held(D) /\ \A x \in Eval \ {e} : eval[x].dead = {} /\ eval'[x].dead = {}
             /\ \A q, t : Announced(q, t) <=> q = r /\ \E c \in D : c.s = t /\ c.notified
             /\ ~repeated /\ told[r][d.s] # "fired"
  <2>1. Held(D)
    BY <1>9, <1>a DEF Quiet
  <2>2. \A x \in Eval \ {e} : eval[x].dead = {} /\ eval'[x].dead = {}
    BY <1>0, <1>3, <1>4, <1>9, Alone
  <2>3. \A q, t : Announced(q, t) <=> q = r /\ \E c \in D : c.s = t /\ c.notified
    BY <1>a, <2>2 DEF Announced
  <2>4. ~(IsFiring(cand[r][d.s]) /\ ~Announced(r, d.s))
    <3>1. d.firing = "live"
      BY <1>0, <2>1 DEF Held
    <3> QED
      BY <1>0, <2>3, <3>1 DEF StillFiring
  <2> QED
    BY <1>0, <1>9, <2>1, <2>2, <2>3, <2>4 DEF Quiet, Agreed
<1>10. Quiet'
  <2> SUFFICES ASSUME ~waited
               PROVE  /\ ~repeated'
                      /\ \A x \in Eval : /\ eval'[x].at # "mail" /\ eval'[x].age = 0
                                         /\ Held(eval'[x].dead)
                      /\ \A q \in StreamRule, t \in Stream : Agreed(q, t)'
    BY <1>0 DEF Quiet
  <2>1. Held(D \ {d}) /\ Held({})
    BY <1>9 DEF Held
  <2>2. \A x \in Eval : eval'[x].at # "mail" /\ eval'[x].age = 0 /\ Held(eval'[x].dead)
    <3>1. \A x \in Eval : eval[x].at # "mail" /\ eval[x].age = 0
      BY DEF Quiet
    <3>2. ASSUME NEW x \in Eval, x # e
          PROVE  eval'[x].at # "mail" /\ eval'[x].age = 0 /\ Held(eval'[x].dead)
      <4>1. eval'[x].dead = {} /\ eval'[x].at = eval[x].at /\ eval'[x].age = eval[x].age
        BY <1>4, <1>9, <3>2
      <4> QED
        BY <2>1, <3>1, <4>1
    <3>3. ev.at # "mail" /\ ev.age = 0 /\ Held(ev.dead)
      BY <1>1, <2>1, <3>1
    <3> QED
      BY <1>5, <3>2, <3>3
  <2>3. ASSUME NEW q \in StreamRule, NEW t \in Stream, q # r \/ t # d.s
        PROVE  Announced(q, t)' <=> Announced(q, t)
    <3>1. Announced(q, t)'
            <=> \E c \in D \ {d} : StreamRules[ev.sweep] = q /\ c.s = t /\ c.notified
      BY <1>1, <1>5, <1>9 DEF Announced
    <3>2. Announced(q, t) <=> q = r /\ \E c \in D : c.s = t /\ c.notified
      BY <1>9
    <3>3. D = {d} \/ StreamRules[ev.sweep] = r
      BY <1>1
    <3> QED
      BY <2>3, <3>1, <3>2, <3>3
  <2>4. \A q \in StreamRule, t \in Stream : Agreed(q, t)'
    <3> SUFFICES ASSUME NEW q \in StreamRule, NEW t \in Stream PROVE Agreed(q, t)'
      OBVIOUS
    <3>1. CASE q # r \/ t # d.s
      BY <1>0, <1>6, <2>3, <3>1 DEF Quiet, Agreed
    <3>2. CASE q = r /\ t = d.s
      BY <1>0, <1>6, <1>9, <3>2 DEF Agreed, IsFiring
    <3> QED
      BY <3>1, <3>2
  <2> QED
    BY <1>0, <1>9, <2>2, <2>4
<1>11. Steady'
  <2> SUFFICES ASSUME ~waited PROVE Steady'
    BY <1>0 DEF Steady
  <2>1. SweptTo(eval[e]) /\ Noted(eval[e])
    BY <1>0 DEF Steady
  <2>2. SweptTo(eval[e])'
    <3> SUFFICES ASSUME NEW t \in Stream, NEW k \in DOMAIN StreamRules,
                        ev.snap.streams[t] = Gone, cand'[StreamRules[k]][t] # Absent
                 PROVE  \/ k > ev.sweep
                        \/ k = ev.sweep /\ (ev.dead = {} \/ \E c \in ev.dead : c.s = t)
      BY <1>1, <1>5, <1>a, <2>1 DEF SweptTo
    <3>1. /\ StreamRules[k] # r \/ t # d.s
          /\ cand[StreamRules[k]][t] # Absent /\ k \in 1 .. 3
      BY <1>6, Rules
    <3>2. k > eval[e].sweep \/ (k = eval[e].sweep /\ \E c \in D : c.s = t)
      BY <1>0, <1>1, <1>a, <2>1, <3>1 DEF SweptTo
    <3> QED
      BY <1>0, <1>1, <3>1, <3>2
  <2>3. Noted(eval[e])'
    BY <1>0, <1>1, <1>5, <2>1 DEF Noted
  <2>4. \A q \in BitrateRule, t \in Stream : Fine(q, t)' \/ Owes(eval[e], q, t)'
    <3> SUFFICES ASSUME NEW q \in BitrateRule, NEW t \in Stream
                 PROVE  Fine(q, t)' \/ Owes(eval[e], q, t)'
      OBVIOUS
    <3>1. Fine(q, t) \/ Owes(eval[e], q, t)
      BY <1>0 DEF Steady, TypeOK
    <3>2. CASE eval[e].snap.streams[t] = Gone
      BY <1>1, <1>5, <3>2 DEF Owes
    <3>3. CASE eval[e].snap.streams[t] # Gone
      <4>1. t # d.s
        BY <1>0, <1>a, <2>1, <3>3 DEF SweptTo
      <4>2. cand'[q][t] = cand[q][t]
        BY <1>6, <4>1, Rules
      <4>3. Fine(q, t) => Fine(q, t)'
        BY <1>0, <4>2 DEF Fine
      <4>4. Owes(eval[e], q, t) => Owes(eval[e], q, t)'
        BY <1>0, <1>1, <1>5, <4>2 DEF Owes
      <4> QED
        BY <3>1, <4>3, <4>4
    <3> QED
      BY <3>2, <3>3
  <2>5. \A t \in Stream : cand'["fps-drop"][t] # Absent => baseline'[t] # 0
    BY <1>0, <1>6, Rules DEF Steady
  <2>6. ASSUME NEW t \in Stream, Adrift(t)'
        PROVE  eval'[e].snap.streams[t] = Gone
    <3>1. CASE Adrift(t)
      BY <1>0, <1>1, <1>5, <3>1 DEF Steady, TypeOK
    <3>2. CASE ~Adrift(t)
      <4>1. t = d.s
        BY <1>0, <1>6, <2>6, <3>2, Rules DEF Adrift
      <4> QED
        BY <1>0, <1>1, <1>5, <1>a, <2>1, <4>1 DEF SweptTo
    <3> QED
      BY <3>1, <3>2
  <2> QED
    BY <1>0, <1>7, <2>2, <2>3, <2>4, <2>5, <2>6, RunsOn
<1> QED
  BY <1>7, <1>8, <1>10, <1>11

LEMMA SweepKeeps ==
  ASSUME Inv, NEW e \in Eval, Sweep(e)
  PROVE  Inv'
<1> PICK r : r = StreamRules[eval[e].sweep]
  OBVIOUS
<1>1. PICK d \in eval[e].dead :
        IF StillFiring(r, d) /\ ~d.notified
        THEN /\ Notify(e, r, d.s, "resolved",
                       [eval[e] EXCEPT !.dead = (@ \ {d}) \cup {[d EXCEPT !.notified = TRUE]}])
             /\ UNCHANGED cand
        ELSE /\ cand' = [cand EXCEPT ![r][d.s] = Absent]
             /\ eval' = [Detach(eval, eval[e].sweep, d.s) EXCEPT ![e] = Dropped(eval[e], d)]
             /\ UNCHANGED <<cpu, log>>
  BY DEF Sweep
<1>2. cpu = e /\ UNCHANGED <<server, baseline, routes, holding>>
  BY DEF Sweep
<1>3. CASE StillFiring(r, d) /\ ~d.notified
  BY <1>1, <1>2, <1>3, TellKeeps DEF Tells
<1>4. CASE ~(StillFiring(r, d) /\ ~d.notified)
  BY <1>1, <1>2, <1>4, DropKeeps DEF Drops
<1> QED
  BY <1>3, <1>4

\* A snapshot: every candidate grows older, and one evaluation begins.
LEMMA EmitKeeps ==
  ASSUME Inv, NEW e \in Eval, NEW snap \in Snapshot, NEW gap \in Gaps, Emit(e, snap, gap)
  PROVE  Inv'
<1> USE DEF Inv
<1>a. PICK ev : ev = [at |-> "run", age |-> 0, snap |-> snap, todo |-> Checks(snap),
                     sweep |-> 1, dead |-> {}]
  OBVIOUS
<1>0. /\ cpu = Nobody /\ cpu' = e /\ eval[e].at = "idle" /\ eval[e].dead = {}
      /\ \A x \in Eval : eval[x] \in EvalState /\ Fit(eval[x]) /\ eval[x].at # "run"
      /\ UNCHANGED <<server, baseline, routes, told, repeated, waited>>
  BY StreamAssumption DEF Emit, TypeOK, Fit, log
<1>1. /\ ev \in EvalState /\ Fit(ev) /\ ev.at = "run" /\ ev.age = 0 /\ ev.snap = snap
      /\ ev.todo = Checks(snap) /\ ev.sweep = 1 /\ ev.dead = {}
  <2>1. Checks(snap) \subseteq Position /\ 1 \in 1 .. AllSwept /\ 0 \in 0 .. MaxAge
    BY Rules, Ages DEF Checks
  <2> QED
    BY <1>a, <2>1 DEF EvalState, Fit
<1>2. eval'[e] = ev
  BY <1>a DEF Emit
<1>3. ASSUME NEW x \in Eval, x # e
      PROVE  /\ eval'[x] \in EvalState /\ Fit(eval'[x]) /\ eval'[x].at = eval[x].at
             /\ eval'[x].dead = eval[x].dead /\ eval'[x].sweep = eval[x].sweep
             /\ eval[x].at = "idle" => eval'[x] = eval[x]
  <2>1. CASE eval[x].at = "idle"
    BY <1>0, <1>3, <2>1 DEF Emit
  <2>2. CASE eval[x].at # "idle"
    <3>1. eval'[x] = [eval[x] EXCEPT !.age = eval[x].age + gap]
      BY <1>3, <2>2 DEF Emit
    <3>2. eval[x].age + gap \in 0 .. MaxAge
      <4>1. eval[x].age + gap <= MaxAge /\ gap \in Nat
        BY <2>2, StreamAssumption DEF Emit
      <4> QED
        BY <1>0, <4>1, Ages DEF EvalState
    <3> QED
      BY <1>0, <2>2, <3>1, <3>2 DEF EvalState, Fit
  <2> QED
    BY <2>1, <2>2
<1>4. /\ cand' \in [StreamRule -> [Stream -> OrAbsent]]
      /\ \A r \in StreamRule, s \in Stream :
           /\ cand[r][s] \in OrAbsent /\ cand'[r][s] = AgedBy(cand[r][s], gap, OldAge)
           /\ cand'[r][s] = Absent <=> cand[r][s] = Absent
           /\ IsFiring(cand'[r][s]) <=> IsFiring(cand[r][s])
           /\ IsFiring(cand'[r][s]) => cand'[r][s].since # Never
  <2>1. cand' = [r \in StreamRule |-> [s \in Stream |-> AgedBy(cand[r][s], gap, OldAge)]]
    BY DEF Emit
  <2>2. \A r \in StreamRule, s \in Stream :
          cand[r][s] \in OrAbsent /\ cand'[r][s] = AgedBy(cand[r][s], gap, OldAge)
    BY <2>1 DEF TypeOK, OrAbsent
  <2>3. \A r \in StreamRule, s \in Stream : AgedBy(cand[r][s], gap, OldAge) \in OrAbsent
    BY <2>2, TickKeeps
  <2>4. cand' \in [StreamRule -> [Stream -> OrAbsent]]
    BY <2>1, <2>3
  <2>5. \A r \in StreamRule, s \in Stream :
           /\ cand'[r][s] = Absent <=> cand[r][s] = Absent
           /\ IsFiring(cand'[r][s]) <=> IsFiring(cand[r][s])
    BY <2>2, TickKeeps
  <2>6. ASSUME NEW r \in StreamRule, NEW s \in Stream, IsFiring(cand'[r][s])
        PROVE  cand'[r][s].since # Never
    <3>1. IsFiring(cand[r][s]) /\ cand[r][s] # Absent /\ cand[r][s].since # Never
      BY <2>5, <2>6 DEF TypeOK, IsFiring
    <3> QED
      BY <2>2, <3>1, TickKeeps
  <2> QED
    BY <2>2, <2>4, <2>5, <2>6
<1>5. /\ holding' \in [BitrateRule -> [Stream -> (0 .. OldAge) \cup {Never}]]
      /\ \A r \in BitrateRule, s \in Stream :
           holding'[r][s] = IF ~HoldsIn(r, s, snap) THEN Never
                            ELSE IF holding[r][s] = Never THEN 0
                            ELSE Later(holding[r][s], gap, OldAge)
  <2> DEFINE U(r, s) == IF ~HoldsIn(r, s, snap) THEN Never
                        ELSE IF holding[r][s] = Never THEN 0
                        ELSE Later(holding[r][s], gap, OldAge)
  <2>1. holding' = [r \in BitrateRule |-> [s \in Stream |-> U(r, s)]]
    BY DEF Emit
  <2>2. \A r \in BitrateRule, s \in Stream :
          U(r, s) \in (0 .. OldAge) \cup {Never}
    <3>1. \A r \in BitrateRule, s \in Stream : holding[r][s] \in (0 .. OldAge) \cup {Never}
      BY DEF TypeOK
    <3> QED
      BY <3>1, LaterIsAge, Ages
  <2>3. \A r \in BitrateRule, s \in Stream : holding'[r][s] = U(r, s)
    BY <2>1
  <2>4. holding' \in [BitrateRule -> [Stream -> (0 .. OldAge) \cup {Never}]]
    <3> HIDE DEF U
    <3> QED
      BY <2>1, <2>2
  <2> QED
    BY <2>2, <2>3, <2>4
<1>6. TypeOK'
  <2>1. eval' \in [Eval -> EvalState]
    <3>1. \A x \in Eval : eval'[x] \in EvalState
      BY <1>1, <1>2, <1>3
    <3>2. eval' = [x \in Eval |-> eval'[x]]
      BY DEF Emit
    <3> QED
      BY <3>1, <3>2
  <2>2. \A x \in Eval : (eval'[x].at = "run" <=> cpu' = x) /\ Fit(eval'[x])
    BY <1>0, <1>1, <1>2, <1>3
  <2>3. /\ told' \in [StreamRule -> [Stream -> {"fired", "resolved"}]]
        /\ repeated' \in BOOLEAN /\ waited' \in BOOLEAN /\ server' \in BOOLEAN
        /\ baseline' \in [Stream -> Nat] /\ routes' \subseteq Mailable
        /\ cpu' \in Eval \cup {Nobody}
    BY <1>0 DEF TypeOK
  <2> QED
    BY <1>4, <1>5, <2>1, <2>2, <2>3 DEF TypeOK, Fit, OrAbsent
<1>7. \A x \in Eval : eval'[x].dead = eval[x].dead
                      /\ (eval[x].dead # {} => eval'[x].sweep = eval[x].sweep)
  BY <1>0, <1>1, <1>2, <1>3
<1>8. \A r, s : Announced(r, s)' <=> Announced(r, s)
  BY <1>7 DEF Announced
<1>9. FiringWasTold'
  <2> SUFFICES ASSUME NEW r \in StreamRule, NEW s \in Stream, IsFiring(cand'[r][s]),
                      told'[r][s] # "fired"
               PROVE  Announced(r, s)'
    BY DEF FiringWasTold, Announced
  <2>1. IsFiring(cand[r][s]) /\ told[r][s] # "fired"
    BY <1>0, <1>4
  <2>2. Announced(r, s)
    BY <2>1 DEF FiringWasTold, Announced
  <2> QED
    BY <1>8, <2>2
<1>10. ASSUME ~waited, NEW x \in Eval
       PROVE  eval[x].at = "idle" /\ eval[x].age = 0 /\ Held(eval[x].dead)
  BY <1>0, <1>10 DEF Quiet, EvalState
<1>11. Quiet'
  <2> SUFFICES ASSUME ~waited
               PROVE  /\ ~repeated'
                      /\ \A x \in Eval : /\ eval'[x].at # "mail" /\ eval'[x].age = 0
                                         /\ Held(eval'[x].dead)
                      /\ \A r \in StreamRule, s \in Stream : Agreed(r, s)'
    BY <1>0 DEF Quiet
  <2>1. \A x \in Eval : eval'[x].at # "mail" /\ eval'[x].age = 0
    BY <1>1, <1>2, <1>3, <1>10
  <2>2. \A x \in Eval : Held(eval'[x].dead)
    BY <1>7, <1>10
  <2>3. \A r \in StreamRule, s \in Stream : Agreed(r, s)'
    BY <1>0, <1>4, <1>8 DEF Quiet, Agreed
  <2> QED
    BY <1>0, <2>1, <2>2, <2>3 DEF Quiet
<1>12. Steady'
  <2> SUFFICES ASSUME ~waited PROVE Steady'
    BY <1>0 DEF Steady
  <2>1. SweptTo(eval[e])'
    <3>1. \A k \in DOMAIN StreamRules : k > 1 \/ k = 1
      BY Rules
    <3> QED
      BY <1>1, <1>2, <3>1 DEF SweptTo
  <2>2. Noted(eval[e])'
    <3>1. ASSUME NEW r \in BitrateRule, NEW s \in Stream
          PROVE  HoldsIn(r, s, snap) <=> holding'[r][s] # Never
      <4>1. holding[r][s] \in (0 .. OldAge) \cup {Never} /\ 0 # Never
        BY AbsentIsNone DEF TypeOK
      <4> QED
        BY <1>5, <4>1, LaterIsAge
    <3> QED
      BY <1>1, <1>2, <3>1 DEF Noted
  <2>3. ASSUME NEW r \in BitrateRule, NEW s \in Stream
        PROVE  Fine(r, s)' \/ Owes(eval[e], r, s)'
    <3>1. CASE snap.streams[s] = Gone
      BY <1>1, <1>2, <3>1 DEF Owes
    <3>2. CASE snap.streams[s] # Gone
      <4>1. PICK i \in DOMAIN Streams : Streams[i] = s
        BY DEF Stream
      <4>2. PICK k \in DOMAIN StreamRules : StreamRules[k] = r
        BY Rules
      <4> PICK p : p = <<i, k>>
        OBVIOUS
      <4>3. p \in Checks(snap) /\ Streams[p[1]] = s /\ StreamRules[p[2]] = r
        BY <3>2, <4>1, <4>2 DEF Checks, Position
      <4>4. ASSUME HoldsIn(r, s, snap)
            PROVE  holding'[r][s] = IF OrFresh(cand'[r][s]).since = Never THEN 0
                                    ELSE OrFresh(cand'[r][s]).since
        <5>1. Fine(r, s)
          BY <1>0 DEF Steady
        <5>2. /\ r \in StreamRule /\ cand[r][s] \in OrAbsent
              /\ cand'[r][s] = AgedBy(cand[r][s], gap, OldAge)
          BY <1>4, Rules
        <5>3. /\ OrFresh(cand[r][s]).since \in (0 .. OldAge) \cup {Never}
              /\ OrFresh(cand'[r][s]).since =
                   IF OrFresh(cand[r][s]).since = Never THEN Never
                   ELSE Later(OrFresh(cand[r][s]).since, gap, OldAge)
          BY <5>2, TickAges
        <5>4. /\ holding[r][s] = OrFresh(cand[r][s]).since
              /\ holding'[r][s] = IF holding[r][s] = Never THEN 0
                                  ELSE Later(holding[r][s], gap, OldAge)
          BY <1>5, <4>4, <5>1 DEF Fine
        <5> QED
          BY <5>3, <5>4, LaterIsAge
      <4> QED
        BY <1>1, <1>2, <4>3, <4>4 DEF Owes
    <3> QED
      BY <3>1, <3>2
  <2>4. \A s \in Stream : cand'["fps-drop"][s] # Absent => baseline'[s] # 0
    BY <1>0, <1>4, Rules DEF Steady
  <2>5. \A s \in Stream : ~Adrift(s)'
    BY <1>0, <1>4, Rules DEF Steady, Adrift
  <2> QED
    BY <1>0, <1>6, <2>1, <2>2, <2>3, <2>4, <2>5, RunsOn
<1> QED
  BY <1>6, <1>9, <1>11, <1>12

-----------------------------------------------------------------------------
LEMMA InitInv == Init => Inv
<1> SUFFICES ASSUME Init PROVE Inv
  OBVIOUS
<1>1. /\ IdleEval \in EvalState /\ Fit(IdleEval) /\ IdleEval.at = "idle" /\ IdleEval.age = 0
      /\ IdleEval.dead = {} /\ IdleEval.todo = {}
  BY Ages, Rules DEF IdleEval, EvalState, Fit
<1>2. /\ eval \in [Eval -> EvalState] /\ cpu = Nobody
      /\ \A e \in Eval : eval[e] = IdleEval
  BY <1>1 DEF Init
<1>3. \A r \in StreamRule, s \in Stream :
        cand[r][s] = Absent /\ ~IsFiring(cand[r][s]) /\ told[r][s] = "resolved"
  BY DEF Init, IsFiring
<1>4. TypeOK
  <2>1. /\ cand \in [StreamRule -> [Stream -> OrAbsent]]
        /\ told \in [StreamRule -> [Stream -> {"fired", "resolved"}]]
        /\ baseline \in [Stream -> Nat] /\ routes \subseteq Mailable
    BY DEF Init, OrAbsent
  <2>2. holding \in [BitrateRule -> [Stream -> (0 .. OldAge) \cup {Never}]]
    BY Ages DEF Init
  <2>3. server \in BOOLEAN /\ repeated \in BOOLEAN /\ waited \in BOOLEAN
    BY Zenon DEF Init
  <2>4. \A e \in Eval : (eval[e].at = "run" <=> cpu = e) /\ Fit(eval[e])
    BY <1>1, <1>2, StreamAssumption
  <2> QED
    BY <1>2, <1>3, <2>1, <2>2, <2>3, <2>4 DEF TypeOK, Fit, OrAbsent
<1>5. FiringWasTold
  BY <1>3 DEF FiringWasTold
<1>6. Quiet
  <2>1. ~repeated
    BY DEF Init
  <2> HIDE DEF IdleEval
  <2> QED
    BY <1>1, <1>2, <1>3, <2>1 DEF Quiet, Held, Agreed
<1>7. Steady
  <2> HIDE DEF IdleEval
  <2> QED
    BY <1>1, <1>2, <1>3, Rules DEF Steady, Adrift, Fine, OrFresh, Fresh, Init
<1> QED
  BY <1>4, <1>5, <1>6, <1>7 DEF Inv

LEMMA StepInv == Inv /\ [Next]_vars => Inv'
<1> SUFFICES ASSUME Inv, [Next]_vars PROVE Inv'
  OBVIOUS
<1>1. CASE \E e \in Eval : \E snap \in Snapshot, gap \in Gaps : Emit(e, snap, gap)
  BY <1>1, EmitKeeps
<1>2. CASE \E e \in Eval : EvalStep(e)
  BY <1>2, CheckKeeps, GatherKeeps, SweepKeeps, FinishKeeps DEF EvalStep
<1>3. CASE \/ \E e \in Eval : MailDone(e)
           \/ \E r \in Mailable : RouteChanges(r)
           \/ UNCHANGED vars
  BY <1>3, OthersKeep
<1> QED
  BY <1>1, <1>2, <1>3 DEF Next

\* Every state has the types of TypeOK: among them, the evaluation that runs is
\* the one the thread executes, and it sweeps only when it has checked.
THEOREM TypesHold == Spec => []TypeOK
<1>1. Inv => TypeOK
  BY DEF Inv
<1> QED
  BY <1>1, InitInv, StepInv, PTL DEF Spec

\* However many evaluations overlap and however long their mails take, an alert
\* that the console shows as firing was told, and its end was not, except while
\* the evaluation that told the end has still to drop the candidate.
THEOREM FiringWasAlwaysTold == Spec => []FiringWasTold
<1>1. Inv => FiringWasTold
  BY DEF Inv
<1> QED
  BY <1>1, InitInv, StepInv, PTL DEF Spec

\* As long as no evaluation has waited for a mail, every fire and every end of an
\* alert is told once, and between evaluations the log says what the candidates say.
THEOREM ToldOnceAndTruly == Spec => []ToldMatches
<1>1. Inv => ToldMatches
  <2> SUFFICES ASSUME Inv, ~waited PROVE ~repeated /\ Matching
    BY DEF ToldMatches
  <2>1. ASSUME AtRest
        PROVE  \A r, s : ~Announced(r, s)
    BY <2>1 DEF Inv, TypeOK, AtRest, Announced
  <2> QED
    BY <2>1 DEF Inv, Quiet, Agreed, Matching
<1> QED
  BY <1>1, InitInv, StepInv, PTL DEF Spec

\* As long as no evaluation has waited, "since" is when the condition became
\* true without a break: the time, by the clock, of the first snapshot of those in
\* a row, up to the newest, that have all shown it.
THEOREM SinceMeansSince == Spec => []SinceIsContinuous
<1>1. Inv => SinceIsContinuous
  <2> SUFFICES ASSUME Inv, ~waited, AtRest, NEW r \in BitrateRule, NEW s \in Stream
               PROVE  Fine(r, s)
    BY DEF SinceIsContinuous, Continuous, Exact, Fine
  <2>1. \A e \in Eval : eval[e].at # "run"
    BY DEF AtRest
  <2> QED
    BY <2>1 DEF Inv, Steady
<1> QED
  BY <1>1, InitInv, StepInv, PTL DEF Spec

\* As long as no evaluation has waited, the frame rate of a stream that has a
\* candidate is measured against one and the same baseline, and at rest no
\* baseline outlives the candidate.
THEOREM OneBaseline == Spec => BaselineStands
<1>1. ASSUME Inv, Inv', [Next]_vars
      PROVE  [~waited' => \A s \in Stream :
                /\ cand["fps-drop"][s] # Absent /\ cand'["fps-drop"][s] # Absent
                     => baseline'[s] = baseline[s]
                /\ AtRest' => (baseline'[s] # 0 <=> cand'["fps-drop"][s] # Absent)]_vars
  <2>a. ASSUME ~waited', AtRest', NEW s \in Stream
        PROVE  baseline'[s] # 0 <=> cand'["fps-drop"][s] # Absent
    BY <1>1, <2>a DEF Inv, Steady, Adrift, AtRest
  <2> SUFFICES ASSUME Next, ~waited', NEW s \in Stream,
                      cand["fps-drop"][s] # Absent, cand'["fps-drop"][s] # Absent
               PROVE  baseline'[s] = baseline[s]
    BY <1>1, <2>a
  <2>1. CASE \E e \in Eval : Check(e)
    <3>1. PICK e \in Eval : Check(e)
      BY <2>1
    <3>2. ~waited
      BY <3>1 DEF Check, Notify, GoOn, log
    <3>3. baseline[s] # 0 /\ baseline \in [Stream -> Nat]
      BY <1>1, <3>2 DEF Inv, Steady, TypeOK
    <3> QED
      BY <3>1, <3>3 DEF Check
  <2>2. CASE \E e \in Eval : Finish(e)
    <3>1. PICK e \in Eval : Finish(e)
      BY <2>2
    <3>2. ~waited
      BY <3>1 DEF Finish, log
    <3>3. eval[e].snap.streams[s] # Gone
      BY <1>1, <3>1, <3>2, NoneLeft, Rules
    <3> QED
      BY <3>1, <3>3 DEF Finish
  <2>3. CASE ~ \E e \in Eval : Check(e) \/ Finish(e)
    BY <2>3 DEF Next, Emit, MailDone, EvalStep, Gather, Sweep, RouteChanges
  <2> QED
    BY <2>1, <2>2, <2>3
<1> QED
  BY <1>1, InitInv, StepInv, PTL DEF Spec, BaselineStands

-----------------------------------------------------------------------------
(* The bitrate rules keep the promise of AlertPromise.                     *)

\* What a check tells is due.
LEMMA CheckTells ==
  ASSUME Inv, ~waited, NEW e \in Eval, Check(e)
  PROVE  \/ told' = told
         \/ \E r \in StreamRule, s \in Stream :
              \/ /\ told' = [told EXCEPT ![r][s] = "fired"] /\ told[r][s] = "resolved"
                 /\ r \in BitrateRule => holding[r][s] # Never /\ holding[r][s] >= Duration[r]
              \/ /\ told' = [told EXCEPT ![r][s] = "resolved"] /\ told[r][s] = "fired"
                 /\ r \in BitrateRule => holding[r][s] = Never
<1> USE DEF Inv
<1>0. eval[e] \in EvalState /\ cpu = e /\ eval[e].at = "run" /\ eval[e].dead = {}
  BY DEF TypeOK, Check
<1>1. PICK p \in eval[e].todo, r \in StreamRule, s \in Stream, reading \in Readings, base \in Nat :
        \E c, isTrue, dur, age, next :
          CheckOf(e, p, r, s, reading, base, c, isTrue, dur, age, next)
  BY CheckIs
<1>2. PICK c, isTrue, dur, age, next :
        CheckOf(e, p, r, s, reading, base, c, isTrue, dur, age, next)
  BY <1>1
<1>3. /\ c = OrFresh(cand[r][s]) /\ isTrue = Holds(r, reading, base) /\ dur = Duration[r]
      /\ reading = eval[e].snap.streams[s] /\ reading # Gone /\ age = 0
      /\ isTrue \in BOOLEAN /\ dur \in Nat /\ c.since \in (0 .. OldAge) \cup {Never}
      /\ c.firing <=> IsFiring(cand[r][s])
  <2>1. cand[r][s] \in OrAbsent
    BY DEF TypeOK, OrAbsent
  <2>2. c = OrFresh(cand[r][s]) /\ isTrue = Holds(r, reading, base) /\ dur = Duration[r]
    BY <1>2 DEF CheckOf
  <2>3. reading = eval[e].snap.streams[s] /\ reading # Gone /\ age = 0
    BY <1>2 DEF CheckOf, Quiet
  <2>4. c \in Candidate(OldAge) /\ (c.firing <=> IsFiring(cand[r][s]))
    BY <2>1, <2>2, FreshOrNot
  <2> QED
    BY <2>2, <2>3, <2>4, HoldsOrNot, Ages DEF Candidate
<1>4. told[r][s] = "fired" <=> IsFiring(cand[r][s])
  BY <1>0, Alone DEF Quiet, Agreed, Announced
<1>5. told[r][s] \in {"fired", "resolved"}
  BY DEF TypeOK
<1>6. ASSUME r \in BitrateRule
      PROVE  /\ isTrue <=> holding[r][s] # Never
             /\ isTrue => holding[r][s] = IF c.since = Never THEN 0 ELSE c.since
  <2>1. HoldsIn(r, s, eval[e].snap) <=> isTrue
    BY <1>3, <1>6, BitrateHolds DEF HoldsIn
  <2>2. Noted(eval[e]) /\ (Fine(r, s) \/ Owes(eval[e], r, s))
    BY <1>0, <1>6 DEF Steady, TypeOK
  <2>3. isTrue <=> holding[r][s] # Never
    BY <1>6, <2>1, <2>2 DEF Noted
  <2> QED
    BY <1>3, <2>1, <2>2, <2>3 DEF Fine, Owes
<1>7. CASE Fires(c, isTrue, dur, age) /\ Notify(e, r, s, "fired", next)
  <2>1. told' = [told EXCEPT ![r][s] = "fired"] /\ told[r][s] = "resolved"
    BY <1>3, <1>4, <1>5, <1>7 DEF Notify, Fires
  <2>2. ASSUME r \in BitrateRule PROVE holding[r][s] # Never /\ holding[r][s] >= Duration[r]
    <3>1. isTrue /\ (IF c.since = Never THEN 0 ELSE c.since) >= 0 + dur
      BY <1>3, <1>7 DEF Fires, Since
    <3> QED
      BY <1>3, <1>6, <2>2, <3>1
  <2> QED
    BY <2>1, <2>2
<1>8. CASE Resolves(c, isTrue) /\ Notify(e, r, s, "resolved", next)
  <2>1. told' = [told EXCEPT ![r][s] = "resolved"] /\ told[r][s] = "fired"
    BY <1>3, <1>4, <1>8 DEF Notify, Resolves
  <2>2. r \in BitrateRule => holding[r][s] = Never
    BY <1>3, <1>6, <1>8 DEF Resolves
  <2> QED
    BY <2>1, <2>2
<1>9. CASE GoOn(e, next)
  BY <1>9 DEF GoOn, log
<1> QED
  BY <1>2, <1>7, <1>8, <1>9, Zenon DEF CheckOf

\* What a sweep tells is over.
LEMMA SweepTells ==
  ASSUME Inv, ~waited, NEW e \in Eval, Sweep(e)
  PROVE  \/ told' = told
         \/ \E r \in StreamRule, s \in Stream :
              /\ told' = [told EXCEPT ![r][s] = "resolved"] /\ told[r][s] = "fired"
              /\ r \in BitrateRule => holding[r][s] = Never
<1> USE DEF Inv
<1>1. PICK r : r = StreamRules[eval[e].sweep]
  OBVIOUS
<1>2. PICK d \in eval[e].dead :
        \/ StillFiring(r, d) /\ ~d.notified /\ \E next : Notify(e, r, d.s, "resolved", next)
        \/ UNCHANGED log
  BY <1>1, Zenon DEF Sweep
<1>3. CASE UNCHANGED log
  BY <1>3 DEF log
<1>4. CASE StillFiring(r, d) /\ ~d.notified /\ \E next : Notify(e, r, d.s, "resolved", next)
  <2>1. /\ eval[e] \in EvalState /\ Fit(eval[e]) /\ cpu = e /\ eval[e].at = "run"
        /\ r \in StreamRule /\ d \in Dead /\ d.s \in Stream
    BY <1>1, Rules DEF Sweep, TypeOK, Fit, EvalState, Dead
  <2>2. told' = [told EXCEPT ![r][d.s] = "resolved"]
    BY <1>4 DEF Notify
  <2>3. d.firing = "live" /\ \A x \in eval[e].dead : x.s = d.s => x = d
    BY DEF Quiet, Held
  <2>4. IsFiring(cand[r][d.s]) /\ ~Announced(r, d.s)
    <3>1. \A x \in Eval \ {e} : eval[x].dead = {}
      BY <2>1, Alone
    <3> QED
      BY <1>4, <2>3, <3>1 DEF StillFiring, Announced
  <2>5. told[r][d.s] = "fired"
    BY <2>1, <2>4 DEF Quiet, Agreed
  <2>6. ASSUME r \in BitrateRule PROVE holding[r][d.s] = Never
    <3>1. Noted(eval[e]) /\ eval[e].snap.streams[d.s] = Gone
      BY <2>1 DEF Steady, SweptTo
    <3> QED
      BY <2>1, <2>6, <3>1 DEF Noted, HoldsIn
  <2> QED
    BY <2>1, <2>2, <2>5, <2>6
<1> QED
  BY <1>2, <1>3, <1>4

\* What the log says of one alert, as seen by the promise.
LEMMA OneTold ==
  ASSUME Inv, NEW r \in StreamRule, NEW s \in Stream, NEW what \in {"fired", "resolved"},
         told' = [told EXCEPT ![r][s] = what]
  PROVE  /\ r \notin BitrateRule => BitrateTold' = BitrateTold
         /\ r \in BitrateRule =>
              /\ <<r, s>> \in BitrateAlert
              /\ BitrateTold' = [BitrateTold EXCEPT ![<<r, s>>] = what]
<1>1. told \in [StreamRule -> [Stream -> {"fired", "resolved"}]]
  BY DEF Inv, TypeOK
<1>2. /\ told'[r][s] = what
      /\ \A q \in StreamRule, t \in Stream : q # r \/ t # s => told'[q][t] = told[q][t]
  BY <1>1, EntrySet
<1>3. \A a \in BitrateAlert : a = <<a[1], a[2]>> /\ a[1] \in BitrateRule /\ a[1] \in StreamRule /\ a[2] \in Stream
  BY Rules DEF BitrateAlert
<1>4. CASE r \notin BitrateRule
  <2>1. \A a \in BitrateAlert : told'[a[1]][a[2]] = told[a[1]][a[2]]
    BY <1>2, <1>3, <1>4
  <2> QED
    BY <1>4, <2>1 DEF BitrateTold
<1>5. CASE r \in BitrateRule
  <2>1. <<r, s>> \in BitrateAlert
    BY <1>5 DEF BitrateAlert
  <2>2. \A a \in BitrateAlert : told'[a[1]][a[2]] = IF a = <<r, s>> THEN what ELSE told[a[1]][a[2]]
    BY <1>2, <1>3
  <2>3. BitrateTold' = [BitrateTold EXCEPT ![<<r, s>>] = what]
    BY <2>1, <2>2 DEF BitrateTold
  <2> QED
    BY <1>5, <2>1, <2>3
<1> QED
  BY <1>4, <1>5

\* Between evaluations nothing is due, and nothing over is left.
LEMMA AllTold ==
  ASSUME Inv, ~waited, cpu = Nobody, NEW a \in BitrateAlert
  PROVE  ~Promise!Due(a) /\ ~Promise!Over(a)
<1> USE DEF Inv
<1> PICK r, s : r = a[1] /\ s = a[2]
  OBVIOUS
<1>1. /\ r \in BitrateRule /\ r \in StreamRule /\ s \in Stream
      /\ BitrateTold[a] = told[r][s] /\ BitrateHolding[a] = holding[r][s]
      /\ BitrateLasting[a] = Duration[r]
  BY Rules DEF BitrateAlert, BitrateTold, BitrateHolding, BitrateLasting
<1>2. \A e \in Eval : eval[e].at = "idle" /\ eval[e].dead = {}
  <2>1. \A e \in Eval : eval[e].at \in {"idle", "run", "mail"} /\ eval[e].at # "run"
    BY StreamAssumption DEF TypeOK, EvalState
  <2> QED
    BY <2>1 DEF Quiet, TypeOK
<1>3. Fine(r, s) /\ (told[r][s] = "fired" <=> IsFiring(cand[r][s]))
  BY <1>1, <1>2 DEF Steady, Quiet, Agreed, Announced
<1>4. cand[r][s] \in OrAbsent /\ (IsFiring(cand[r][s]) => cand[r][s].since # Never)
  BY <1>1 DEF TypeOK, OrAbsent
<1> PICK c : c = OrFresh(cand[r][s])
  OBVIOUS
<1>5. /\ c.since \in (0 .. OldAge) \cup {Never} /\ (c.firing <=> IsFiring(cand[r][s]))
      /\ c.firing => c.since # Never
  BY <1>4, FreshOrNot DEF Candidate, OrFresh, IsFiring
<1>6. /\ holding[r][s] = c.since
      /\ c.since # Never => c.firing \/ c.since < Duration[r]
  BY <1>3 DEF Fine
<1>7. told[r][s] = "resolved" /\ holding[r][s] # Never => ~(holding[r][s] >= Duration[r])
  BY <1>1, <1>3, <1>5, <1>6, Ages
<1>8. told[r][s] = "fired" => holding[r][s] # Never
  BY <1>3, <1>5, <1>6
<1> QED
  BY <1>1, <1>7, <1>8 DEF Promise!Due, Promise!Over

\* One step of the evaluations is one of the promise, or none.
LEMMA PromiseStep ==
  ASSUME Inv, ~waited, [Next]_vars
  PROVE  [Promise!PromiseNext]_(Promise!promiseVars)
<1>1. ASSUME NEW e \in Eval, NEW snap \in Snapshot, NEW gap \in Gaps, Emit(e, snap, gap)
      PROVE  Promise!Look
  <2>1. \A a \in BitrateAlert : ~Promise!Due(a) /\ ~Promise!Over(a)
    BY <1>1, AllTold DEF Emit
  <2> PICK shown : shown = {a \in BitrateAlert : HoldsIn(a[1], a[2], snap)}
    OBVIOUS
  <2>2. BitrateHolding' = [a \in BitrateAlert |->
          IF a \notin shown THEN Never
          ELSE IF BitrateHolding[a] = Never THEN 0 ELSE Promise!Ticks(BitrateHolding[a], gap)]
    <3>1. \A r \in BitrateRule, s \in Stream :
            holding'[r][s] = IF ~HoldsIn(r, s, snap) THEN Never
                             ELSE IF holding[r][s] = Never THEN 0
                             ELSE Promise!Ticks(holding[r][s], gap)
      BY <1>1 DEF Emit, Later, Promise!Ticks
    <3>2. \A a \in BitrateAlert : a[1] \in BitrateRule /\ a[2] \in Stream
      BY DEF BitrateAlert
    <3>3. \A a \in BitrateAlert : holding'[a[1]][a[2]] =
            IF a \notin shown THEN Never
            ELSE IF BitrateHolding[a] = Never THEN 0 ELSE Promise!Ticks(BitrateHolding[a], gap)
      BY <3>1, <3>2 DEF BitrateHolding
    <3> QED
      BY <3>3 DEF BitrateHolding
  <2>3. BitrateTold' = BitrateTold
    BY <1>1 DEF Emit, log, BitrateTold
  <2>4. shown \in SUBSET BitrateAlert
    OBVIOUS
  <2> QED
    BY <2>1, <2>2, <2>3, <2>4 DEF Promise!Look
<1>2. ASSUME UNCHANGED holding,
             NEW r \in StreamRule, NEW s \in Stream,
             \/ /\ told' = [told EXCEPT ![r][s] = "fired"] /\ told[r][s] = "resolved"
                /\ r \in BitrateRule => holding[r][s] # Never /\ holding[r][s] >= Duration[r]
             \/ /\ told' = [told EXCEPT ![r][s] = "resolved"] /\ told[r][s] = "fired"
                /\ r \in BitrateRule => holding[r][s] = Never
      PROVE  [Promise!PromiseNext]_(Promise!promiseVars)
  <2>1. BitrateHolding' = BitrateHolding
    BY <1>2 DEF BitrateHolding
  <2>2. CASE r \notin BitrateRule
    <3>1. BitrateTold' = BitrateTold
      BY <1>2, <2>2, OneTold
    <3> QED
      BY <2>1, <3>1 DEF Promise!promiseVars
  <2>3. CASE r \in BitrateRule
    <3> PICK a : a = <<r, s>>
      OBVIOUS
    <3>1. /\ a \in BitrateAlert /\ BitrateTold[a] = told[r][s]
          /\ BitrateHolding[a] = holding[r][s] /\ BitrateLasting[a] = Duration[r]
      BY <2>3 DEF BitrateAlert, BitrateTold, BitrateHolding, BitrateLasting
    <3>2. \/ Promise!Due(a) /\ BitrateTold' = [BitrateTold EXCEPT ![a] = "fired"]
          \/ Promise!Over(a) /\ BitrateTold' = [BitrateTold EXCEPT ![a] = "resolved"]
      BY <1>2, <2>3, <3>1, OneTold DEF Promise!Due, Promise!Over
    <3> QED
      BY <2>1, <3>1, <3>2 DEF Promise!Fire, Promise!Resolve, Promise!PromiseNext
  <2> QED
    BY <2>2, <2>3
<1>3. ASSUME UNCHANGED <<told, holding>>
      PROVE  [Promise!PromiseNext]_(Promise!promiseVars)
  BY <1>3 DEF Promise!promiseVars, BitrateTold, BitrateHolding
<1>4. CASE \E e \in Eval : Check(e) \/ Sweep(e)
  <2>1. UNCHANGED holding
    BY <1>4 DEF Check, Sweep
  <2> QED
    BY <1>2, <1>3, <1>4, <2>1, CheckTells, SweepTells
<1>5. CASE \/ \E e \in Eval : MailDone(e) \/ Gather(e) \/ Finish(e)
           \/ \E r \in Mailable : RouteChanges(r)
           \/ UNCHANGED vars
  BY <1>3, <1>5 DEF MailDone, Gather, GoOn, Finish, RouteChanges, vars, log
<1> QED
  BY <1>1, <1>4, <1>5 DEF Next, EvalStep, Promise!PromiseNext

\* As long as no evaluation has waited for a mail, what the operator is told of the
\* bitrate rules is what AlertPromise allows: every alert fires exactly when its
\* condition has lasted by the clock, however far apart the snapshots that show
\* it are, ends exactly when one does not show it, and both are told before the
\* next snapshot.
THEOREM KeepsAlertPromise == Spec => KeepsPromise
<1>1. Init => Promise!PromiseInit
  <2> SUFFICES ASSUME Init PROVE Promise!PromiseInit
    OBVIOUS
  <2>1. ASSUME NEW a \in BitrateAlert
        PROVE  told[a[1]][a[2]] = "resolved" /\ holding[a[1]][a[2]] = Never
    BY <2>1, Rules DEF Init, BitrateAlert
  <2>2. BitrateTold = [a \in BitrateAlert |-> "resolved"]
    BY <2>1 DEF BitrateTold
  <2>3. BitrateHolding = [a \in BitrateAlert |-> Never]
    BY <2>1 DEF BitrateHolding
  <2> QED
    BY <2>2, <2>3 DEF Promise!PromiseInit
<1>2. Inv /\ [Next]_vars => [waited \/ Promise!PromiseNext]_(Promise!promiseVars)
  BY PromiseStep
<1> QED
  BY <1>1, <1>2, InitInv, StepInv, PTL DEF Spec, KeepsPromise, Promise!PromiseSpec

-----------------------------------------------------------------------------
(* The poller.                                                             *)

PollerInv == PollsOK /\ StaleIsEarned

LEMMA AgesBounded ==
  /\ Old \in Nat /\ MaxPollAge < Old
  /\ \A a \in 0 .. Old : Older(a) \in 0 .. Old
BY PollerAssumption DEF Old, Older

LEMMA PollsOKStep ==
  ASSUME PollsOK, [PollerNext]_pollerVars
  PROVE  PollsOK'
<1> USE PollerAssumption, AgesBounded DEF PollsOK, env
<1>1. ASSUME NEW p \in Poll, Tick(p) PROVE PollsOK'
  <2>1. ASSUME NEW x \in Poll PROVE poll'[x] \in PollState
    <3>1. CASE x = p
      BY <1>1, <3>1 DEF Tick, IdlePoll, PollState
    <3>2. CASE x # p /\ poll[x].at = "idle"
      BY <1>1, <3>2 DEF Tick
    <3>3. CASE x # p /\ poll[x].at # "idle"
      <4>1. poll[x] \in PollState /\ poll[x].age < MaxPollAge
        BY <1>1, <3>3 DEF Tick
      <4>2. poll'[x] = [poll[x] EXCEPT !.age = @ + 1]
        BY <1>1, <3>3 DEF Tick
      <4> QED BY <4>1, <4>2 DEF PollState
    <3> QED BY <3>1, <3>2, <3>3
  <2>2. poll' \in [Poll -> PollState]
    BY <1>1, <2>1 DEF Tick
  <2> QED BY <1>1, <2>2 DEF Tick
<1>2. ASSUME NEW p \in Poll, VersionAnswered(p) PROVE PollsOK'
  BY <1>2 DEF VersionAnswered, PollState
<1>3. ASSUME NEW p \in Poll, VersionFailed(p) PROVE PollsOK'
  BY <1>3 DEF VersionFailed, Publish, Ends, IdlePoll, PollState
<1>4. ASSUME NEW p \in Poll, ListFailed(p) PROVE PollsOK'
  <2>1. poll' \in [Poll -> PollState]
    BY <1>4 DEF ListFailed, Ends, IdlePoll, PollState
  <2>2. fails' \in 0 .. StaleAfter
    BY <1>4 DEF ListFailed, Least
  <2>3. latest' \in [age : 0 .. Old, apiOk : BOOLEAN, stale : BOOLEAN, streams : SUBSET OmeStreams]
    <3>1. (latest.stale \/ fails + 1 >= StaleAfter) \in BOOLEAN
      OBVIOUS
    <3> QED BY <1>4, <3>1 DEF ListFailed
  <2> QED BY <1>4, <2>1, <2>2, <2>3 DEF ListFailed
<1>5. ASSUME NEW p \in Poll, TotalsAnswered(p) PROVE PollsOK'
  BY <1>5 DEF TotalsAnswered, Publish, Ends, IdlePoll, PollState
<1>6. CASE UNCHANGED pollerVars \/ Ome
  BY <1>6 DEF pollerVars, Ome
<1>7. ASSUME NEW p \in Poll, ListAnswered(p) PROVE PollsOK'
  <2>1. poll' \in [Poll -> PollState]
    <3> DEFINE new == [poll[p] EXCEPT !.at = IF published = {} THEN "totals" ELSE "detail",
                                      !.refs = published, !.todo = published]
    <3>1. new \in PollState
      BY DEF PollState
    <3>2. poll' = [poll EXCEPT ![p] = new]
      BY <1>7 DEF ListAnswered
    <3> HIDE DEF new
    <3> QED BY <3>1, <3>2
  <2> QED BY <1>7, <2>1 DEF ListAnswered
<1>8. ASSUME NEW p \in Poll, NEW s \in OmeStreams, DetailAnswered(p, s) PROVE PollsOK'
  <2>1. poll' \in [Poll -> PollState]
    <3>1. PICK new : /\ poll' = [poll EXCEPT ![p] = new]
                     /\ new \in PollState
      <4> DEFINE left == poll[p].todo \ {s}
                 got == IF s \in published /\ api THEN poll[p].got \cup {s} ELSE poll[p].got
                 new == [poll[p] EXCEPT !.at = IF left = {} THEN "totals" ELSE "detail",
                                        !.todo = left, !.got = got]
      <4>1. left \subseteq OmeStreams /\ got \subseteq OmeStreams
        BY DEF PollState
      <4>2. new \in PollState
        <5> HIDE DEF left, got
        <5> QED BY <4>1 DEF PollState
      <4>3. poll' = [poll EXCEPT ![p] = new]
        BY <1>8 DEF DetailAnswered
      <4> HIDE DEF new
      <4> QED BY <4>2, <4>3
    <3> QED BY <3>1
  <2> QED BY <1>8, <2>1 DEF DetailAnswered
<1> QED
  BY <1>1, <1>2, <1>3, <1>4, <1>5, <1>6, <1>7, <1>8 DEF PollerNext, PollStep

(* The mark survives a step, or is cleared, or the poll that is about to   *)
(* clear it is on its way.                                                 *)
LEMMA StaleIsEarnedStep ==
  ASSUME PollsOK, StaleIsEarned, [PollerNext]_pollerVars
  PROVE  StaleIsEarned'
<1> USE PollerAssumption DEF PollsOK, StaleIsEarned, env
<1>1. ASSUME NEW p \in Poll, Tick(p) PROVE StaleIsEarned'
  BY <1>1 DEF Tick
<1>2. ASSUME NEW p \in Poll, VersionAnswered(p) PROVE StaleIsEarned'
  BY <1>2 DEF VersionAnswered
<1>3. ASSUME NEW p \in Poll, VersionFailed(p) PROVE StaleIsEarned'
  BY <1>3 DEF VersionFailed, Publish
<1>4. ASSUME NEW p \in Poll, ListAnswered(p) PROVE StaleIsEarned'
  BY <1>4 DEF ListAnswered
<1>5. ASSUME NEW p \in Poll, ListFailed(p) PROVE StaleIsEarned'
  <2>1. CASE fails + 1 >= StaleAfter
    BY <1>5, <2>1 DEF ListFailed, Least
  <2>2. CASE fails + 1 < StaleAfter
    <3>1. latest'.stale = latest.stale /\ fails # StaleAfter
      BY <1>5, <2>2 DEF ListFailed
    <3>2. \A x \in Poll : poll[x].at \in {"detail", "totals"} => poll'[x] = poll[x]
      BY <1>5 DEF ListFailed, Ends
    <3> QED BY <3>1, <3>2
  <2> QED BY <2>1, <2>2
<1>6. ASSUME NEW p \in Poll, NEW s \in OmeStreams, DetailAnswered(p, s) PROVE StaleIsEarned'
  BY <1>6 DEF DetailAnswered
<1>7. ASSUME NEW p \in Poll, TotalsAnswered(p) PROVE StaleIsEarned'
  BY <1>7 DEF TotalsAnswered, Publish
<1>8. CASE UNCHANGED pollerVars \/ Ome
  BY <1>8 DEF pollerVars, Ome
<1> QED
  BY <1>1, <1>2, <1>3, <1>4, <1>5, <1>6, <1>7, <1>8 DEF PollerNext, PollStep

(* Whatever the number of overlapping polls and the threshold: a snapshot  *)
(* is marked stale only after StaleAfter failures in a row, unless a list  *)
(* has just succeeded and its poll has yet to publish.                     *)
THEOREM StaleMarkEarned == PollerSpec => []StaleIsEarned
<1>1. PollerInit => PollerInv
  BY PollerAssumption, AgesBounded
  DEF PollerInit, PollerInv, PollsOK, StaleIsEarned, IdlePoll, PollState
<1>2. PollerInv /\ [PollerNext]_pollerVars => PollerInv'
  BY PollsOKStep, StaleIsEarnedStep DEF PollerInv
<1> QED BY <1>1, <1>2, PTL DEF PollerSpec, PollerInv
-----------------------------------------------------------------------------
(* The histories.                                                          *)

\* A set of numbers with something in it has a least one.
LEMMA LeastOne ==
  ASSUME NEW S \in SUBSET Nat, S # {}
  PROVE  \E n \in S : \A m \in S : n <= m
<1>1. IsWellFoundedOn({ss \in Nat \X Nat : ss[1] < ss[2]}, Nat)
  BY NatLessThanWellFounded, Zenon DEF OpToRel
<1>2. PICK x \in S : \A y \in S : ~(<<y, x>> \in {ss \in Nat \X Nat : ss[1] < ss[2]})
  BY <1>1, WFMin, Zenon
<1>3. ASSUME NEW y \in S, y < x PROVE FALSE
  <2>1. <<y, x>> \in Nat \X Nat
    OBVIOUS
  <2>2. <<y, x>> \in {ss \in Nat \X Nat : ss[1] < ss[2]}
    BY <1>3, <2>1
  <2> QED
    BY <1>2, <2>2
<1> QED
  BY <1>3

Sample == 0 .. Old

\* The samples of k are picked from the first n of h, none of them twice.
Picked(k, h, n) ==
  \E from \in [DOMAIN k -> 1 .. n] :
    /\ \A i \in DOMAIN k : k[i] = h[from[i]]
    /\ \A i, j \in DOMAIN k : from[i] = from[j] => i = j

\* k is what the window, up to age c, keeps of the first n samples of h.
Keeps(k, h, c, n) ==
  /\ k \in Seq(Sample)
  /\ \A i \in DOMAIN k : k[i] <= c
  /\ Picked(k, h, n)

\* One more sample is kept, or cut.
LEMMA KeepsMore ==
  ASSUME NEW h \in Seq(Sample), NEW c \in Nat, NEW n \in 1 .. Len(h), NEW k,
         Keeps(k, h, c, n - 1)
  PROVE  Keeps(IF h[n] <= c THEN Append(k, h[n]) ELSE k, h, c, n)
<1>1. k \in Seq(Sample) /\ h[n] \in Sample /\ n - 1 \in Nat
  BY DEF Keeps
<1>2. PICK from \in [DOMAIN k -> 1 .. n - 1] :
        /\ \A i \in DOMAIN k : k[i] = h[from[i]]
        /\ \A i, j \in DOMAIN k : from[i] = from[j] => i = j
  BY DEF Keeps, Picked
<1>3. CASE ~(h[n] <= c)
  <2>1. from \in [DOMAIN k -> 1 .. n]
    BY <1>1
  <2>2. Picked(k, h, n)
    BY <1>2, <2>1 DEF Picked
  <2> QED
    BY <1>3, <2>2 DEF Keeps
<1>4. CASE h[n] <= c
  <2> DEFINE l == Append(k, h[n])
             more == [i \in DOMAIN l |-> IF i = Len(l) THEN n ELSE from[i]]
  <2>1. /\ l \in Seq(Sample) /\ DOMAIN l = 1 .. Len(k) + 1 /\ Len(l) = Len(k) + 1
        /\ DOMAIN k = 1 .. Len(k) /\ Len(k) \in Nat
        /\ l[Len(k) + 1] = h[n] /\ \A i \in DOMAIN k : l[i] = k[i]
    BY <1>1
  <2> HIDE DEF l
  <2>2. \A i \in DOMAIN l : i = Len(l) \/ (i # Len(l) /\ i \in DOMAIN k)
    BY <2>1
  <2>3. more \in [DOMAIN l -> 1 .. n]
    BY <1>1, <2>2
  <2>4. \A i \in DOMAIN l : l[i] <= c /\ l[i] = h[more[i]]
    BY <1>2, <1>4, <2>1, <2>2 DEF Keeps
  <2>5. ASSUME NEW i \in DOMAIN l, NEW j \in DOMAIN l, more[i] = more[j] PROVE i = j
    BY <1>1, <1>2, <2>2, <2>5
  <2> HIDE DEF more
  <2>6. Picked(l, h, n)
    BY <2>3, <2>4, <2>5 DEF Picked
  <2>7. Keeps(l, h, c, n)
    BY <2>1, <2>4, <2>6 DEF Keeps
  <2> QED
    BY <1>4, <2>7 DEF l
<1> QED
  BY <1>3, <1>4

\* kept is what Kept builds, one sample after the other.
Builds(kept, h, c, m) ==
  /\ kept[0] = << >>
  /\ \A n \in 1 .. m : kept[n] = IF h[n] <= c THEN Append(kept[n - 1], h[n]) ELSE kept[n - 1]

LEMMA BuildsKeeps ==
  ASSUME NEW h \in Seq(Sample), NEW c \in Nat, NEW m \in 0 .. Len(h), NEW kept,
         Builds(kept, h, c, m)
  PROVE  \A n \in 0 .. m : Keeps(kept[n], h, c, n)
<1> DEFINE Bad == {n \in 0 .. m : ~Keeps(kept[n], h, c, n)}
<1> SUFFICES ASSUME Bad # {} PROVE FALSE
  OBVIOUS
<1>1. PICK n \in Bad : \A i \in Bad : n <= i
  <2>1. Bad \in SUBSET Nat
    OBVIOUS
  <2> QED
    BY <2>1, LeastOne
<1>2. CASE n = 0
  <2>1. << >> \in Seq(Sample) /\ DOMAIN << >> = {} /\ << >> \in [{} -> 1 .. 0]
    OBVIOUS
  <2>2. Keeps(<< >>, h, c, 0)
    BY <2>1 DEF Keeps, Picked
  <2> QED
    BY <1>1, <1>2, <2>2 DEF Builds
<1>3. CASE n # 0
  <2>1. n \in 1 .. m /\ n \in 1 .. Len(h) /\ n - 1 \in 0 .. m /\ n - 1 \notin Bad
    BY <1>1, <1>3
  <2>2. Keeps(kept[n - 1], h, c, n - 1)
    BY <2>1
  <2>3. kept[n] = IF h[n] <= c THEN Append(kept[n - 1], h[n]) ELSE kept[n - 1]
    BY <2>1 DEF Builds
  <2> QED
    BY <1>1, <2>1, <2>2, <2>3, KeepsMore
<1> QED
  BY <1>2, <1>3

\* It can be built for every history.
LEMMA CanBuild ==
  ASSUME NEW h \in Seq(Sample), NEW c \in Nat
  PROVE  \E kept \in [0 .. Len(h) -> Seq(Sample)] : Builds(kept, h, c, Len(h))
<1> DEFINE Bad == {n \in 0 .. Len(h) : ~\E kept \in [0 .. n -> Seq(Sample)] : Builds(kept, h, c, n)}
<1> SUFFICES ASSUME Bad # {} PROVE FALSE
  OBVIOUS
<1>1. PICK n \in Bad : \A i \in Bad : n <= i
  <2>1. Bad \in SUBSET Nat
    OBVIOUS
  <2> QED
    BY <2>1, LeastOne
<1>2. CASE n = 0
  <2> DEFINE kept == [i \in 0 .. 0 |-> << >>]
  <2>1. kept \in [0 .. n -> Seq(Sample)] /\ Builds(kept, h, c, n)
    BY <1>2 DEF Builds
  <2> QED
    BY <1>1, <2>1
<1>3. CASE n # 0
  <2>1. n \in 1 .. Len(h) /\ n - 1 \in 0 .. Len(h) /\ n - 1 \notin Bad
    BY <1>1, <1>3
  <2>2. PICK kept \in [0 .. n - 1 -> Seq(Sample)] : Builds(kept, h, c, n - 1)
    BY <2>1
  <2> DEFINE last == IF h[n] <= c THEN Append(kept[n - 1], h[n]) ELSE kept[n - 1]
             more == [i \in 0 .. n |-> IF i = n THEN last ELSE kept[i]]
  <2>3. last \in Seq(Sample)
    <3>1. kept[n - 1] \in Seq(Sample) /\ h[n] \in Sample
      BY <2>1
    <3> QED
      BY <3>1
  <2> HIDE DEF last
  <2>4. more \in [0 .. n -> Seq(Sample)]
    BY <2>1, <2>3
  <2>5. \A i \in 0 .. n - 1 : more[i] = kept[i]
    BY <2>1
  <2>6. more[n] = last
    BY <2>1
  <2> HIDE DEF more
  <2>7. more[0] = << >> /\ n - 1 \in 0 .. n - 1
    <3>1. 0 \in 0 .. n - 1 /\ n - 1 \in 0 .. n - 1
      BY <2>1
    <3> QED
      BY <2>2, <2>5, <3>1 DEF Builds
  <2>8. ASSUME NEW i \in 1 .. n
        PROVE  more[i] = IF h[i] <= c THEN Append(more[i - 1], h[i]) ELSE more[i - 1]
    <3>1. CASE i = n
      BY <2>5, <2>6, <2>7, <3>1 DEF last
    <3>2. CASE i # n
      <4>1. i \in 1 .. n - 1 /\ i \in 0 .. n - 1 /\ i - 1 \in 0 .. n - 1
        BY <3>2
      <4> QED
        BY <2>2, <2>5, <4>1 DEF Builds
    <3> QED
      BY <3>1, <3>2
  <2>9. Builds(more, h, c, n)
    BY <2>7, <2>8 DEF Builds
  <2> QED
    BY <1>1, <2>4, <2>9
<1> QED
  BY <1>2, <1>3

LEMMA KeptKeeps ==
  ASSUME NEW h \in Seq(Sample), NEW age \in Nat
  PROVE  Keeps(Kept(h, age), h, age + Window, Len(h))
<1> DEFINE c == age + Window
           Def(f) == f = [n \in 0 .. Len(h) |->
                            IF n = 0 THEN << >>
                            ELSE IF h[n] <= c THEN Append(f[n - 1], h[n])
                            ELSE f[n - 1]]
           kept == CHOOSE f : Def(f)
<1>1. Len(h) \in Nat /\ c \in Nat
  BY PollerAssumption
<1>2. PICK b \in [0 .. Len(h) -> Seq(Sample)] : Builds(b, h, c, Len(h))
  BY <1>1, CanBuild
<1>3. Def(b)
  <2>1. ASSUME NEW n \in 0 .. Len(h)
        PROVE  b[n] = IF n = 0 THEN << >>
                      ELSE IF h[n] <= c THEN Append(b[n - 1], h[n]) ELSE b[n - 1]
    <3>1. CASE n = 0
      BY <1>2, <3>1 DEF Builds
    <3>2. CASE n # 0
      <4>1. n \in 1 .. Len(h)
        BY <3>2
      <4> QED
        BY <1>2, <3>2, <4>1 DEF Builds
    <3> QED
      BY <3>1, <3>2
  <2> QED
    BY <2>1
<1>4. Def(kept)
  <2> HIDE DEF Def
  <2> QED
    BY <1>3
<1>5. Kept(h, age) = kept[Len(h)]
  BY DEF Kept
<1> HIDE DEF kept
<1>6. Builds(kept, h, c, Len(h))
  <2> HIDE DEF c
  <2>1. \A n \in 0 .. Len(h) :
          kept[n] = IF n = 0 THEN << >>
                    ELSE IF h[n] <= c THEN Append(kept[n - 1], h[n]) ELSE kept[n - 1]
    BY <1>4, Zenon
  <2>2. \A n \in 1 .. Len(h) : n \in 0 .. Len(h) /\ n # 0
    BY <1>1
  <2>3. 0 \in 0 .. Len(h)
    BY <1>1
  <2> QED
    BY <2>1, <2>2, <2>3, Zenon DEF Builds
<1>7. Keeps(kept[Len(h)], h, c, Len(h))
  BY <1>1, <1>6, BuildsKeeps
<1> QED
  BY <1>5, <1>7

(***************************************************************************)
(* Polls and their samples are told apart by their ages: no two polls in   *)
(* flight have one age, no two samples of a history do while ages count,   *)
(* and a poll that may still add a sample has added none.                  *)
(***************************************************************************)
MayAppend(p, s) ==
  \/ poll[p].at \in {"version", "list"}
  \/ poll[p].at = "detail" /\ s \in poll[p].todo

PollsApart ==
  \A p, q \in Poll :
    p # q /\ poll[p].at # "idle" /\ poll[q].at # "idle" => poll[p].age # poll[q].age

\* A history whose samples are told apart, as far as ages count.
Distinct(h) == \A i, j \in DOMAIN h : h[i] = h[j] => i = j \/ h[i] = Old

SamplesApart ==
  /\ history \in [OmeStreams -> Seq(Sample)]
  /\ \A s \in OmeStreams :
       /\ Len(history[s]) <= Old
       /\ Distinct(history[s])
       /\ \A p \in Poll : MayAppend(p, s) => \A i \in DOMAIN history[s] : history[s][i] # poll[p].age

\* As many samples as there are ages that count are the most.
LEMMA DistinctIsBounded ==
  ASSUME NEW h \in Seq(0 .. Old - 1), \A i, j \in DOMAIN h : h[i] = h[j] => i = j
  PROVE  Len(h) <= Old
<1> DEFINE Counted == 0 .. Old - 1
<1> HIDE DEF Counted
<1>0. h \in Seq(Counted)
  BY DEF Counted
<1>1. Len(h) \in Nat /\ Old \in Nat /\ DOMAIN h = 1 .. Len(h) /\ h \in [1 .. Len(h) -> Counted]
  BY <1>0, AgesBounded
<1>2. /\ IsFiniteSet(1 .. Len(h)) /\ Cardinality(1 .. Len(h)) = Len(h)
      /\ IsFiniteSet(Counted) /\ Cardinality(Counted) = Old
  <2>1. 1 \in Int /\ Len(h) \in Int /\ 0 \in Int /\ Old - 1 \in Int
    BY <1>1
  <2>2. /\ IsFiniteSet(1 .. Len(h)) /\ IsFiniteSet(Counted)
        /\ Cardinality(1 .. Len(h)) = IF 1 > Len(h) THEN 0 ELSE Len(h) - 1 + 1
        /\ Cardinality(Counted) = IF 0 > Old - 1 THEN 0 ELSE Old - 1 - 0 + 1
    BY <2>1, FS_Interval, Zenon DEF Counted
  <2> QED
    BY <1>1, <2>2
<1>3. h \in Injection(1 .. Len(h), Counted)
  BY <1>1 DEF Injection, IsInjective
<1> QED
  BY <1>2, <1>3, FS_Injection

\* A poll adds its sample: the history stays told apart, and within the bound.
LEMMA AppendHistoryIsFine ==
  ASSUME NEW h \in Seq(Sample), Distinct(h), NEW age \in 0 .. MaxPollAge,
         \A i \in DOMAIN h : h[i] # age
  PROVE  LET n == AppendHistory(h, age)
         IN /\ n \in Seq(Sample) /\ Len(n) <= Old /\ Distinct(n)
            /\ \A i \in DOMAIN n : n[i] = age \/ \E j \in DOMAIN h : n[i] = h[j]
<1> DEFINE k == Kept(h, age)
           n == Append(k, age)
<1>1. age + Window \in 0 .. Old - 1 /\ age \in 0 .. Old - 1 /\ age \in Nat /\ Old \in Nat
  BY PollerAssumption DEF Old
<1>2. Keeps(k, h, age + Window, Len(h))
  BY <1>1, KeptKeeps
<1> HIDE DEF k
<1>3. k \in Seq(Sample) /\ \A i \in DOMAIN k : k[i] \in 0 .. Old - 1
  <2>1. k \in Seq(Sample) /\ \A i \in DOMAIN k : k[i] <= age + Window
    BY <1>2 DEF Keeps
  <2>2. \A i \in DOMAIN k : k[i] \in Sample
    BY <2>1
  <2> QED
    BY <1>1, <2>1, <2>2 DEF Sample
<1>4. PICK from \in [DOMAIN k -> 1 .. Len(h)] :
        /\ \A i \in DOMAIN k : k[i] = h[from[i]]
        /\ \A i, j \in DOMAIN k : from[i] = from[j] => i = j
  BY <1>2 DEF Keeps, Picked
<1>5. DOMAIN h = 1 .. Len(h) /\ \A i \in DOMAIN k : from[i] \in DOMAIN h
  BY <1>4
<1>6. \A i \in DOMAIN k : k[i] # age
  BY <1>4, <1>5
<1>7. ASSUME NEW i \in DOMAIN k, NEW j \in DOMAIN k, k[i] = k[j] PROVE i = j
  <2>1. k[i] # Old
    BY <1>1, <1>3
  <2> QED
    BY <1>4, <1>5, <1>7, <2>1 DEF Distinct
<1>8. /\ n \in Seq(Sample) /\ DOMAIN n = 1 .. Len(k) + 1 /\ DOMAIN k = 1 .. Len(k) /\ Len(k) \in Nat
      /\ n[Len(k) + 1] = age /\ \A i \in DOMAIN k : n[i] = k[i]
  BY <1>1, <1>3 DEF Sample
<1>9. \A i \in DOMAIN n : i \in DOMAIN k \/ i = Len(k) + 1
  BY <1>8
<1> HIDE DEF n
<1>10. \A i \in DOMAIN n : n[i] \in 0 .. Old - 1
  BY <1>1, <1>3, <1>8, <1>9
<1>11. \A i, j \in DOMAIN n : n[i] = n[j] => i = j
  BY <1>6, <1>7, <1>8, <1>9
<1>12. n \in Seq(0 .. Old - 1)
  <2> DEFINE Counted == 0 .. Old - 1
  <2> HIDE DEF Counted
  <2>1. \A i \in DOMAIN n : n[i] \in Counted
    BY <1>10 DEF Counted
  <2>2. n \in Seq(Counted)
    BY <1>8, <2>1
  <2> QED
    BY <2>2 DEF Counted
<1>13. Len(n) <= Old
  BY <1>11, <1>12, DistinctIsBounded
<1>14. \A i \in DOMAIN n : n[i] = age \/ \E j \in DOMAIN h : n[i] = h[j]
  BY <1>4, <1>5, <1>8, <1>9
<1>15. n = AppendHistory(h, age)
  BY DEF n, k, AppendHistory
<1> QED
  BY <1>8, <1>11, <1>13, <1>14, <1>15 DEF Distinct

\* A step that starts no poll and adds no sample.
LEMMA NothingAdded ==
  ASSUME PollsApart, SamplesApart,
         \A p \in Poll : poll'[p].at # "idle" => poll[p].at # "idle" /\ poll'[p].age = poll[p].age,
         \A p \in Poll, s \in OmeStreams : MayAppend(p, s)' => MayAppend(p, s),
         \E H \in SUBSET OmeStreams :
           history' = [s \in OmeStreams |-> IF s \in H THEN << >> ELSE history[s]]
  PROVE  PollsApart' /\ SamplesApart'
<1>1. PollsApart'
  BY DEF PollsApart
<1>2. /\ history' \in [OmeStreams -> Seq(Sample)]
      /\ \A s \in OmeStreams : history'[s] \in {history[s], << >>}
  BY DEF SamplesApart
<1>3. ASSUME NEW s \in OmeStreams
      PROVE  /\ Len(history'[s]) <= Old
             /\ Distinct(history'[s])
             /\ \A p \in Poll : MayAppend(p, s)' => \A i \in DOMAIN history'[s] : history'[s][i] # poll'[p].age
  <2>1. CASE history'[s] = << >>
    BY <2>1, AgesBounded DEF Distinct
  <2>2. CASE history'[s] = history[s]
    <3>1. ASSUME NEW p \in Poll, MayAppend(p, s)'
          PROVE  MayAppend(p, s) /\ poll'[p].age = poll[p].age
      BY <3>1 DEF MayAppend
    <3> QED
      BY <2>2, <3>1 DEF SamplesApart
  <2> QED
    BY <1>2, <2>1, <2>2
<1> QED
  BY <1>1, <1>2, <1>3 DEF SamplesApart

\* Everything grows older by a tick, and a poll of age 0 starts.
LEMMA TickKeepsApart ==
  ASSUME PollsOK, PollsApart, SamplesApart, NEW p \in Poll, Tick(p)
  PROVE  PollsApart' /\ SamplesApart'
<1> USE AgesBounded DEF PollsOK
<1>1. ASSUME NEW x \in Poll, poll'[x].at # "idle"
      PROVE  /\ poll[x] \in PollState
             /\ x = p => poll'[x].age = 0
             /\ x # p => /\ poll[x].at # "idle" /\ poll'[x] = [poll[x] EXCEPT !.age = @ + 1]
                         /\ poll'[x].age = poll[x].age + 1 /\ poll[x].age + 1 <= MaxPollAge
  <2>1. poll[x] \in PollState
    OBVIOUS
  <2>2. CASE x = p
    BY <2>1, <2>2 DEF Tick, IdlePoll
  <2>3. CASE x # p
    <3>1. poll[x].at # "idle"
      BY <1>1, <2>3 DEF Tick
    <3>2. poll'[x] = [poll[x] EXCEPT !.age = @ + 1]
      BY <2>3, <3>1 DEF Tick
    <3>3. poll[x].age < MaxPollAge
      BY <3>1 DEF Tick
    <3> QED
      BY <2>1, <2>3, <3>1, <3>2, <3>3, PollerAssumption DEF PollState
  <2> QED
    BY <2>2, <2>3
<1>2. PollsApart'
  <2> SUFFICES ASSUME NEW x \in Poll, NEW y \in Poll, x # y, poll'[x].at # "idle", poll'[y].at # "idle"
               PROVE  poll'[x].age # poll'[y].age
    BY DEF PollsApart
  <2>1. poll[x].age \in Nat /\ poll[y].age \in Nat
    BY <1>1 DEF PollState
  <2>2. x # p /\ y # p => poll[x].age # poll[y].age
    BY <1>1 DEF PollsApart
  <2>3. CASE x # p /\ y # p
    <3>1. poll'[x].age = poll[x].age + 1 /\ poll'[y].age = poll[y].age + 1
      BY <1>1, <2>3
    <3> QED
      BY <2>1, <2>2, <2>3, <3>1
  <2>4. CASE x = p
    <3>1. poll'[x].age = 0 /\ poll'[y].age = poll[y].age + 1
      BY <1>1, <2>4
    <3> QED
      BY <2>1, <3>1
  <2>5. CASE y = p
    <3>1. poll'[y].age = 0 /\ poll'[x].age = poll[x].age + 1
      BY <1>1, <2>5
    <3> QED
      BY <2>1, <3>1
  <2> QED
    BY <2>3, <2>4, <2>5
<1>3. ASSUME NEW s \in OmeStreams
      PROVE  /\ history'[s] \in Seq(Sample) /\ Len(history'[s]) <= Old
             /\ Distinct(history'[s])
             /\ \A x \in Poll : MayAppend(x, s)' => \A i \in DOMAIN history'[s] : history'[s][i] # poll'[x].age
  <2> DEFINE h == history[s]
             n == [i \in DOMAIN h |-> Older(h[i])]
  <2>1. h \in Seq(Sample) /\ Len(h) <= Old /\ Distinct(h)
    BY DEF SamplesApart
  <2>2. history'[s] = n
    BY DEF Tick
  <2> HIDE DEF h
  <2>3. Len(h) \in Nat /\ DOMAIN h = 1 .. Len(h) /\ \A i \in DOMAIN h : h[i] \in Sample
    <3>1. \A q \in Seq(Sample) : Len(q) \in Nat /\ DOMAIN q = 1 .. Len(q) /\ \A i \in DOMAIN q : q[i] \in Sample
      <4> HIDE DEF Sample
      <4> QED
        OBVIOUS
    <3> QED
      BY <2>1, <3>1
  <2>4. \A i \in DOMAIN h : /\ n[i] = Older(h[i]) /\ n[i] \in Sample
                            /\ n[i] = h[i] + 1 \/ n[i] = Old
    BY <2>3 DEF n, Sample, Older
  <2>5. DOMAIN n = DOMAIN h
    BY DEF n
  <2> HIDE DEF n
  <2>6. n \in Seq(Sample) /\ Len(n) = Len(h)
    <3>1. n \in [1 .. Len(h) -> Sample]
      BY <2>3, <2>4 DEF n
    <3>2. \A m \in Nat : \A f \in [1 .. m -> Sample] : f \in Seq(Sample) /\ Len(f) = m
      <4> HIDE DEF Sample
      <4> QED
        OBVIOUS
    <3> QED
      BY <2>3, <3>1, <3>2
  <2>7. Distinct(n)
    <3> SUFFICES ASSUME NEW i \in DOMAIN n, NEW j \in DOMAIN n, n[i] = n[j], n[i] # Old
                 PROVE  i = j
      BY DEF Distinct
    <3>1. h[i] = h[j] /\ h[i] # Old
      BY <2>3, <2>4, <2>5 DEF Sample, Older
    <3> QED
      BY <2>1, <2>5, <3>1 DEF Distinct
  <2>8. ASSUME NEW x \in Poll, MayAppend(x, s)', NEW i \in DOMAIN n PROVE n[i] # poll'[x].age
    <3>1. poll'[x].at # "idle"
      BY <2>8 DEF MayAppend
    <3>2. CASE x = p
      <4>1. poll'[x].age = 0
        BY <1>1, <3>1, <3>2
      <4>2. h[i] \in 0 .. Old /\ n[i] = Older(h[i]) /\ 0 < Old
        BY <2>3, <2>4, <2>5, PollerAssumption DEF Sample
      <4> QED
        BY <4>1, <4>2 DEF Older
    <3>3. CASE x # p
      <4>1. MayAppend(x, s)
        <5>1. poll[x] \in PollState /\ poll'[x] = [poll[x] EXCEPT !.age = @ + 1]
          BY <1>1, <3>1, <3>3
        <5>2. poll'[x].at = poll[x].at /\ poll'[x].todo = poll[x].todo
          BY <5>1 DEF PollState
        <5> QED
          BY <2>8, <5>2 DEF MayAppend
      <4>2. h[i] # poll[x].age
        BY <2>5, <4>1 DEF h, SamplesApart
      <4>3. poll[x].age \in Nat /\ poll'[x].age = poll[x].age + 1 /\ poll[x].age + 1 < Old
        <5>1. poll[x].age \in Nat /\ poll'[x].age = poll[x].age + 1 /\ poll[x].age + 1 <= MaxPollAge
          <6>1. /\ poll[x] \in PollState /\ poll'[x].age = poll[x].age + 1
                /\ poll[x].age + 1 <= MaxPollAge
            BY <1>1, <3>1, <3>3
          <6> QED
            BY <6>1 DEF PollState
        <5> QED
          BY <5>1, AgesBounded, PollerAssumption
      <4>4. h[i] \in 0 .. Old /\ n[i] = Older(h[i])
        BY <2>3, <2>4, <2>5 DEF Sample
      <4> QED
        BY <4>2, <4>3, <4>4 DEF Older
    <3> QED
      BY <3>2, <3>3
  <2> QED
    BY <2>1, <2>2, <2>6, <2>7, <2>8
<1>4. history' \in [OmeStreams -> Seq(Sample)]
  BY <1>3 DEF Tick
<1> QED
  BY <1>2, <1>3, <1>4 DEF SamplesApart

\* A poll hears of a stream, and of no other; if it was the last, it cleans up.
LEMMA DetailKeepsApart ==
  ASSUME PollsOK, PollsApart, SamplesApart, NEW p \in Poll, NEW s \in OmeStreams,
         DetailAnswered(p, s)
  PROVE  PollsApart' /\ SamplesApart'
<1>1. /\ poll[p] \in PollState /\ poll[p].at = "detail" /\ s \in poll[p].todo
      /\ poll'[p].age = poll[p].age /\ poll'[p].at # "idle"
      /\ poll'[p].todo = poll[p].todo \ {s}
      /\ poll'[p].at \in {"detail", "totals"}
  BY DEF DetailAnswered, PollsOK, PollState
<1>2. \A x \in Poll : x # p => poll'[x] = poll[x]
  BY DEF DetailAnswered, PollsOK
<1>3. \A x \in Poll : poll'[x].at # "idle" => poll[x].at # "idle" /\ poll'[x].age = poll[x].age
  BY <1>1, <1>2
<1>4. \A x \in Poll, y \in OmeStreams : MayAppend(x, y)' => MayAppend(x, y) /\ ~(x = p /\ y = s)
  BY <1>1, <1>2 DEF MayAppend
<1> DEFINE h == IF s \in published /\ api
                  THEN [history EXCEPT ![s] = AppendHistory(@, poll[p].age)] ELSE history
<1>5. PICK H \in SUBSET OmeStreams : history' = [y \in OmeStreams |-> IF y \in H THEN << >> ELSE h[y]]
  <2> DEFINE H == IF poll[p].todo \ {s} = {} THEN OmeStreams \ poll[p].refs ELSE {}
  <2>1. h = [y \in OmeStreams |-> h[y]]
    BY DEF SamplesApart
  <2>2. history' = IF poll[p].todo \ {s} = {}
                     THEN [y \in OmeStreams |-> IF y \in poll[p].refs THEN h[y] ELSE << >>] ELSE h
    BY DEF DetailAnswered, CleanUp
  <2> HIDE DEF h
  <2>3. history' = [y \in OmeStreams |-> IF y \in H THEN << >> ELSE h[y]]
    BY <2>1, <2>2
  <2>4. H \in SUBSET OmeStreams
    OBVIOUS
  <2> QED
    BY <2>3, <2>4
<1>6. CASE ~(s \in published /\ api)
  <2>1. history' = [y \in OmeStreams |-> IF y \in H THEN << >> ELSE history[y]]
    BY <1>5, <1>6
  <2> QED
    BY <1>3, <1>4, <2>1, NothingAdded
<1>7. CASE s \in published /\ api
  <2> DEFINE age == poll[p].age
  <2>1. /\ history'[s] \in {AppendHistory(history[s], age), << >>}
        /\ \A y \in OmeStreams : y # s => history'[y] \in {history[y], << >>}
    BY <1>5, <1>7 DEF SamplesApart
  <2>2. MayAppend(p, s) /\ age \in 0 .. MaxPollAge
    BY <1>1 DEF MayAppend, PollState
  <2>3. /\ history'[s] \in Seq(Sample) /\ Len(history'[s]) <= Old /\ Distinct(history'[s])
        /\ \A i \in DOMAIN history'[s] : history'[s][i] = age \/ \E j \in DOMAIN history[s] : history'[s][i] = history[s][j]
    <3>1. CASE history'[s] = << >>
      BY <3>1, AgesBounded DEF Distinct
    <3>2. CASE history'[s] = AppendHistory(history[s], age)
      <4>1. /\ history[s] \in Seq(Sample) /\ Distinct(history[s])
            /\ \A i \in DOMAIN history[s] : history[s][i] # age
        BY <2>2 DEF SamplesApart
      <4> HIDE DEF age
      <4> QED
        BY <2>2, <3>2, <4>1, AppendHistoryIsFine
    <3> QED
      BY <2>1, <3>1, <3>2
  <2>4. ASSUME NEW x \in Poll, MayAppend(x, s)'
        PROVE  \A i \in DOMAIN history'[s] : history'[s][i] # poll'[x].age
    <3>1. MayAppend(x, s) /\ x # p /\ poll'[x].age = poll[x].age /\ poll[x].at # "idle"
      BY <1>3, <1>4, <2>4 DEF MayAppend
    <3>2. poll[x].age # age
      BY <1>1, <3>1 DEF PollsApart
    <3>3. \A j \in DOMAIN history[s] : history[s][j] # poll[x].age
      BY <3>1 DEF SamplesApart
    <3> QED
      BY <2>3, <3>1, <3>2, <3>3
  <2>5. ASSUME NEW y \in OmeStreams, y # s
        PROVE  /\ history'[y] \in Seq(Sample) /\ Len(history'[y]) <= Old /\ Distinct(history'[y])
               /\ \A x \in Poll : MayAppend(x, y)' => \A i \in DOMAIN history'[y] : history'[y][i] # poll'[x].age
    <3>1. CASE history'[y] = << >>
      BY <3>1, AgesBounded DEF Distinct
    <3>2. CASE history'[y] = history[y]
      <4>1. \A x \in Poll : MayAppend(x, y)' => MayAppend(x, y) /\ poll'[x].age = poll[x].age
        BY <1>3, <1>4 DEF MayAppend
      <4> QED
        BY <3>2, <4>1 DEF SamplesApart
    <3> QED
      BY <2>1, <2>5, <3>1, <3>2
  <2>6. PollsApart'
    BY <1>3 DEF PollsApart
  <2>7. history' \in [OmeStreams -> Seq(Sample)]
    <3>1. \A y \in OmeStreams : history'[y] \in Seq(Sample)
      BY <2>3, <2>5
    <3> QED
      BY <1>5, <3>1
  <2> QED
    BY <2>3, <2>4, <2>5, <2>6, <2>7 DEF SamplesApart
<1> QED
  BY <1>6, <1>7

LEMMA ApartStep ==
  ASSUME PollsOK, PollsApart, SamplesApart, [PollerNext]_pollerVars
  PROVE  PollsApart' /\ SamplesApart'
<1> DEFINE Cut(new) == \E H \in SUBSET OmeStreams :
             new = [s \in OmeStreams |-> IF s \in H THEN << >> ELSE history[s]]
<1>0. Cut(history) /\ Cut(CleanUp(history, {}))
  <2>1. history = [s \in OmeStreams |-> IF s \in {} THEN << >> ELSE history[s]]
    BY DEF SamplesApart
  <2>2. CleanUp(history, {}) = [s \in OmeStreams |-> IF s \in OmeStreams THEN << >> ELSE history[s]]
    BY DEF CleanUp
  <2>3. {} \in SUBSET OmeStreams /\ OmeStreams \in SUBSET OmeStreams
    OBVIOUS
  <2> QED
    BY <2>1, <2>2, <2>3, Zenon
<1> HIDE DEF Cut
<1>1. CASE \E p \in Poll : Tick(p)
  BY <1>1, TickKeepsApart
<1>2. CASE \E p \in Poll, s \in OmeStreams : DetailAnswered(p, s)
  BY <1>2, DetailKeepsApart
<1>3. ASSUME NEW p \in Poll, VersionAnswered(p) PROVE PollsApart' /\ SamplesApart'
  <2>1. /\ \A x \in Poll : poll'[x].at # "idle" => poll[x].at # "idle" /\ poll'[x].age = poll[x].age
        /\ \A x \in Poll, s \in OmeStreams : MayAppend(x, s)' => MayAppend(x, s)
    BY <1>3 DEF VersionAnswered, PollsOK, PollState, MayAppend
  <2>2. Cut(history')
    BY <1>0, <1>3 DEF VersionAnswered
  <2> QED
    BY <2>1, <2>2, NothingAdded DEF Cut
<1>4. ASSUME NEW p \in Poll, VersionFailed(p) \/ ListFailed(p) \/ TotalsAnswered(p)
      PROVE  PollsApart' /\ SamplesApart'
  <2>1. /\ poll' = [poll EXCEPT ![p] = IdlePoll] /\ history' = history
    BY <1>4 DEF VersionFailed, ListFailed, TotalsAnswered, Ends
  <2>2. /\ \A x \in Poll : poll'[x].at # "idle" => poll[x].at # "idle" /\ poll'[x].age = poll[x].age
        /\ \A x \in Poll, s \in OmeStreams : MayAppend(x, s)' => MayAppend(x, s)
    BY <2>1 DEF PollsOK, IdlePoll, MayAppend
  <2>3. Cut(history')
    BY <1>0, <2>1
  <2> QED
    BY <2>2, <2>3, NothingAdded DEF Cut
<1>5. ASSUME NEW p \in Poll, ListAnswered(p) PROVE PollsApart' /\ SamplesApart'
  <2>1. /\ \A x \in Poll : poll'[x].at # "idle" => poll[x].at # "idle" /\ poll'[x].age = poll[x].age
        /\ \A x \in Poll, s \in OmeStreams : MayAppend(x, s)' => MayAppend(x, s)
    BY <1>5 DEF ListAnswered, PollsOK, PollState, MayAppend
  <2>2. Cut(history')
    BY <1>0, <1>5 DEF ListAnswered
  <2> QED
    BY <2>1, <2>2, NothingAdded DEF Cut
<1>6. CASE UNCHANGED pollerVars \/ Ome
  <2>1. poll' = poll /\ history' = history
    BY <1>6 DEF pollerVars, Ome
  <2>2. Cut(history')
    BY <1>0, <2>1
  <2> QED
    BY <2>1, <2>2, NothingAdded DEF MayAppend, Cut
<1> QED
  BY <1>1, <1>2, <1>3, <1>4, <1>5, <1>6 DEF PollerNext, PollStep

\* However many polls overlap and whatever they find: a history never holds more
\* samples than the window and the longest poll together allow.
THEOREM HistoriesStayBounded == PollerSpec => []PollerTypeOK
<1> DEFINE Inductive == PollsOK /\ PollsApart /\ SamplesApart
<1>1. PollerInit => Inductive
  <2> SUFFICES ASSUME PollerInit PROVE Inductive
    OBVIOUS
  <2>1. PollsOK
    BY PollerAssumption, AgesBounded DEF PollerInit, PollsOK, IdlePoll, PollState
  <2>2. PollsApart /\ SamplesApart
    BY AgesBounded DEF PollerInit, IdlePoll, PollsApart, SamplesApart, MayAppend, Distinct
  <2> QED
    BY <2>1, <2>2
<1>2. Inductive /\ [PollerNext]_pollerVars => Inductive'
  BY PollsOKStep, ApartStep
<1>3. Inductive => PollerTypeOK
  <2> SUFFICES ASSUME PollsOK, SamplesApart PROVE PollerTypeOK
    OBVIOUS
  <2>1. ASSUME NEW s \in OmeStreams, NEW i \in DOMAIN history[s] PROVE history[s][i] \in 0 .. Old
    <3>1. history[s] \in Seq(Sample)
      BY DEF SamplesApart
    <3>2. history[s][i] \in Sample
      BY <3>1
    <3> QED
      BY <3>2 DEF Sample
  <2> QED
    BY <2>1 DEF SamplesApart, PollerTypeOK
<1> QED
  BY <1>1, <1>2, <1>3, PTL DEF PollerSpec

-----------------------------------------------------------------------------
(* What the polls have brought about stays.  SnapshotConverges and         *)
(* FrozenIsMarked say that the poller gets somewhere, which fairness       *)
(* decides, and that no slow poll undoes it, which these states show.      *)

\* The snapshot shows the streams, and so will every poll that is past its list.
Shows(S) ==
  /\ api /\ listing /\ published = S
  /\ latest.apiOk /\ ~latest.stale /\ latest.streams = S /\ fails = 0
  /\ \A p \in Poll :
       poll[p].at \in {"detail", "totals"} =>
         /\ poll[p].got \cup poll[p].todo = S
         /\ poll[p].at = "totals" => poll[p].todo = {}

\* The mark is on the snapshot, and no poll is left that would publish another.
Frozen ==
  /\ api /\ ~listing
  /\ latest.stale /\ fails = StaleAfter
  /\ \A p \in Poll : poll[p].at \notin {"detail", "totals"}

\* A poll has no stream before it has its list.
NothingYet == \A p \in Poll : poll[p].at \in {"version", "list"} => poll[p].got = {}

LEMMA NothingYetStep ==
  ASSUME PollsOK, NothingYet, [PollerNext]_pollerVars
  PROVE  NothingYet'
<1> USE DEF PollsOK, NothingYet
<1>1. ASSUME NEW p \in Poll, Tick(p) PROVE NothingYet'
  BY <1>1 DEF Tick, IdlePoll, PollState
<1>2. ASSUME NEW p \in Poll, VersionAnswered(p) PROVE NothingYet'
  BY <1>2 DEF VersionAnswered, PollState
<1>3. ASSUME NEW p \in Poll, VersionFailed(p) \/ ListFailed(p) \/ TotalsAnswered(p)
      PROVE  NothingYet'
  <2>1. poll' = [poll EXCEPT ![p] = IdlePoll]
    BY <1>3 DEF VersionFailed, ListFailed, TotalsAnswered, Ends
  <2> QED
    BY <2>1 DEF IdlePoll
<1>4. ASSUME NEW p \in Poll, ListAnswered(p) PROVE NothingYet'
  BY <1>4 DEF ListAnswered, PollState
<1>5. ASSUME NEW p \in Poll, NEW s \in OmeStreams, DetailAnswered(p, s) PROVE NothingYet'
  BY <1>5 DEF DetailAnswered, PollState
<1>6. CASE UNCHANGED pollerVars \/ Ome
  BY <1>6 DEF pollerVars, Ome
<1> QED
  BY <1>1, <1>2, <1>3, <1>4, <1>5, <1>6 DEF PollerNext, PollStep

LEMMA ShowsStep ==
  ASSUME NEW S \in SUBSET OmeStreams, PollsOK, NothingYet, Shows(S), env' = env, [PollerNext]_pollerVars
  PROVE  Shows(S)'
<1> USE PollerAssumption DEF PollsOK, Shows, env
<1> DEFINE Late(q) == q.at \in {"detail", "totals"} =>
             q.got \cup q.todo = S /\ (q.at = "totals" => q.todo = {})
<1>0. ASSUME NEW p \in Poll PROVE poll[p] \in PollState /\ Late(poll[p])
  OBVIOUS
<1>1. ASSUME NEW p \in Poll, Tick(p) PROVE Shows(S)'
  <2>1. ASSUME NEW x \in Poll PROVE Late(poll'[x])
    BY <1>0, <1>1 DEF Tick, IdlePoll, PollState
  <2> QED
    BY <1>1, <2>1 DEF Tick
<1>2. ASSUME NEW p \in Poll, VersionAnswered(p) PROVE Shows(S)'
  <2>1. ASSUME NEW x \in Poll PROVE Late(poll'[x])
    BY <1>0, <1>2 DEF VersionAnswered, PollState
  <2> QED
    BY <1>2, <2>1 DEF VersionAnswered
<1>3. ASSUME NEW p \in Poll, ListAnswered(p) PROVE Shows(S)'
  <2> DEFINE new == [poll[p] EXCEPT !.at = IF published = {} THEN "totals" ELSE "detail",
                                    !.refs = published, !.todo = published]
  <2>1. poll' = [poll EXCEPT ![p] = new]
    BY <1>3 DEF ListAnswered
  <2>2. poll[p] \in PollState /\ poll[p].got = {}
    BY <1>0, <1>3 DEF ListAnswered, NothingYet
  <2>3. Late(new)
    BY <2>2 DEF PollState
  <2> HIDE DEF new
  <2>4. ASSUME NEW x \in Poll PROVE Late(poll'[x])
    BY <1>0, <2>1, <2>3
  <2> QED
    BY <1>3, <2>4 DEF ListAnswered
<1>4. ASSUME NEW p \in Poll, NEW s \in OmeStreams, DetailAnswered(p, s) PROVE Shows(S)'
  <2>1. s \in poll[p].todo /\ poll[p].got \cup poll[p].todo = S /\ s \in published
    BY <1>0, <1>4 DEF DetailAnswered
  <2>2. /\ poll' = [poll EXCEPT ![p] = poll'[p]]
        /\ poll'[p].todo = poll[p].todo \ {s} /\ poll'[p].got = poll[p].got \cup {s}
        /\ poll'[p].at = "totals" => poll'[p].todo = {}
    BY <1>0, <1>4, <2>1 DEF DetailAnswered, PollState
  <2>3. ASSUME NEW x \in Poll PROVE Late(poll'[x])
    BY <1>0, <2>1, <2>2
  <2> QED
    BY <1>4, <2>3 DEF DetailAnswered
<1>5. ASSUME NEW p \in Poll, TotalsAnswered(p) PROVE Shows(S)'
  <2>1. poll[p].got = S
    BY <1>0, <1>5 DEF TotalsAnswered
  <2>2. ASSUME NEW x \in Poll PROVE Late(poll'[x])
    BY <1>0, <1>5 DEF TotalsAnswered, Ends, IdlePoll
  <2> QED
    BY <1>5, <2>1, <2>2 DEF TotalsAnswered, Publish
<1>6. ASSUME NEW p \in Poll, VersionFailed(p) \/ ListFailed(p) PROVE FALSE
  BY <1>6 DEF VersionFailed, ListFailed
<1>7. CASE UNCHANGED pollerVars \/ Ome
  BY <1>7 DEF pollerVars, Ome
<1> QED
  BY <1>1, <1>2, <1>3, <1>4, <1>5, <1>6, <1>7 DEF PollerNext, PollStep

LEMMA FrozenStep ==
  ASSUME PollsOK, Frozen, env' = env, [PollerNext]_pollerVars
  PROVE  Frozen'
<1> USE PollerAssumption DEF PollsOK, Frozen, env
<1>1. ASSUME NEW p \in Poll, Tick(p) PROVE Frozen'
  BY <1>1 DEF Tick, IdlePoll, PollState
<1>2. ASSUME NEW p \in Poll, VersionAnswered(p) PROVE Frozen'
  BY <1>2 DEF VersionAnswered, PollState
<1>3. ASSUME NEW p \in Poll, ListFailed(p) PROVE Frozen'
  BY <1>3 DEF ListFailed, Ends, IdlePoll, Least
<1>4. ASSUME NEW p \in Poll,
             \/ VersionFailed(p) \/ ListAnswered(p) \/ TotalsAnswered(p)
             \/ \E s \in OmeStreams : DetailAnswered(p, s)
      PROVE  FALSE
  BY <1>4 DEF VersionFailed, ListAnswered, TotalsAnswered, DetailAnswered
<1>5. CASE UNCHANGED pollerVars \/ Ome
  <2>1. UNCHANGED <<latest, fails, poll, api, listing>>
    BY <1>5 DEF pollerVars, Ome
  <2> QED
    BY <2>1
<1> QED
  BY <1>1, <1>2, <1>3, <1>4, <1>5 DEF PollerNext, PollStep

\* The second half of SnapshotConverges: once the snapshot shows OME's streams and
\* the polls under way have listed the same, no poll takes it back while OME
\* stays as it is, in whatever order they end.
THEOREM ConvergedStays ==
  PollerSpec => [][\A S \in SUBSET OmeStreams : Shows(S) /\ env' = env => Shows(S)']_pollerVars
<1>1. PollerInit => PollsOK /\ NothingYet
  BY PollerAssumption, AgesBounded DEF PollerInit, PollsOK, NothingYet, IdlePoll, PollState
<1>2. PollsOK /\ NothingYet /\ [PollerNext]_pollerVars => (PollsOK /\ NothingYet)'
  BY PollsOKStep, NothingYetStep
<1>3. PollsOK /\ NothingYet /\ [PollerNext]_pollerVars
        => [\A S \in SUBSET OmeStreams : Shows(S) /\ env' = env => Shows(S)']_pollerVars
  BY ShowsStep
<1> QED
  BY <1>1, <1>2, <1>3, PTL DEF PollerSpec

\* The second half of FrozenIsMarked: once a frozen snapshot is marked and no older
\* poll is past its list, the mark stays as long as the lists fail.
THEOREM FrozenMarkStays == PollerSpec => [][Frozen /\ env' = env => Frozen']_pollerVars
<1>1. PollerInit => PollsOK
  BY PollerAssumption, AgesBounded DEF PollerInit, PollsOK, IdlePoll, PollState
<1>2. PollsOK /\ [PollerNext]_pollerVars => PollsOK'
  BY PollsOKStep
<1>3. PollsOK /\ [PollerNext]_pollerVars => [Frozen /\ env' = env => Frozen']_pollerVars
  BY FrozenStep
<1> QED
  BY <1>1, <1>2, <1>3, PTL DEF PollerSpec
===============================================================================
