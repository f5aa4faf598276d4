----------------------------- MODULE Candidates -----------------------------
(***************************************************************************)
(* The candidate of an alert rule for one target: since when its condition *)
(* has been true, and whether it is firing.  Times are ages in ticks, so a *)
(* greater number is an earlier moment.                                    *)
(***************************************************************************)
EXTENDS Naturals

CONSTANTS
  Never,       \* "since" of a condition that is not true
  Absent       \* no candidate

ASSUME CandidateAssumption ==
  Never \notin Nat /\ Absent \notin [since : Nat \cup {Never}, firing : BOOLEAN]

Candidate(maxAge) == [since : (0 .. maxAge) \cup {Never}, firing : BOOLEAN]

Fresh == [since |-> Never, firing |-> FALSE]
OrFresh(c) == IF c = Absent THEN Fresh ELSE c
IsFiring(c) == c # Absent /\ c.firing

\* Mutant: a condition that stops being true does not restart the clock.
SinceKept(c, isTrue, age) ==
  IF c.since = Never /\ isTrue THEN age ELSE c.since

\* Mutant: every evaluation restarts the clock of a condition that is true.
SinceRestarted(c, isTrue, age) ==
  IF isTrue /\ ~c.firing THEN age ELSE IF isTrue THEN c.since ELSE Never

\* Since when, as seen by an evaluation of the given age.
Since(c, isTrue, age) ==
  IF ~isTrue THEN Never ELSE IF c.since = Never THEN age ELSE c.since


Fires(c, isTrue, duration, age) ==
  isTrue /\ ~c.firing /\ Since(c, isTrue, age) >= age + duration

Resolves(c, isTrue) == ~isTrue /\ c.firing


\* The state checkCandidate leaves behind.
Checked(c, isTrue, duration, age) ==
  [since  |-> Since(c, isTrue, age),
   firing |-> isTrue /\ (c.firing \/ Fires(c, isTrue, duration, age))]

\* Some ticks later; ages from maxAge on are not told apart.
Later(age, ticks, maxAge) ==
  IF age + ticks < maxAge THEN age + ticks ELSE maxAge

AgedBy(c, ticks, maxAge) ==
  IF c = Absent \/ c.since = Never THEN c
  ELSE [c EXCEPT !.since = Later(@, ticks, maxAge)]

Aged(c, maxAge) == AgedBy(c, 1, maxAge)
=============================================================================
