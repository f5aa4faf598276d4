----------------------------- MODULE StatsPoller -----------------------------
(***************************************************************************)
(* The poller that asks OME for its streams every 3 s and publishes a      *)
(* snapshot.  Nothing keeps two polls apart: a poll that takes longer than *)
(* the interval overlaps the next, and both write the same shared state.   *)
(*                                                                         *)
(* Time is counted in timer ticks and kept as ages: the age of a poll, of  *)
(* a sample or of the snapshot is the number of ticks since its            *)
(* Date.now().  Bitrates, tracks and throughput totals are left out, and   *)
(* so is the copy of its history that each stream of a snapshot carries.   *)
(* The names of the specification are its own, so that a module can extend *)
(* this one and the one of the evaluator that the snapshots go to.         *)
(***************************************************************************)
EXTENDS Naturals, Sequences

CONSTANTS
  OmeStreams,   \* the streams that OME may have
  Poll,         \* slots for polls that overlap
  StaleAfter,   \* STALE_AFTER_FAILURES
  Window,       \* HISTORY_WINDOW_MS, in ticks
  MaxPollAge    \* bound: ticks a poll may take

ASSUME PollerAssumption ==
  StaleAfter \in Nat \ {0} /\ Window \in Nat /\ MaxPollAge \in Nat

VARIABLES
  latest,       \* the published snapshot
  history,      \* stream -> ages of its samples, in the order of the array
  fails,        \* consecutiveStreamsFailures, counted up to StaleAfter
  poll,         \* polls in flight
  api,          \* OME answers getVersion
  listing,      \* OME answers the calls listAllStreams makes
  published     \* the streams OME has

env == <<api, listing, published>>
pollerVars == <<latest, history, fails, poll, env>>

IdlePoll == [at |-> "idle", age |-> 0, refs |-> {}, todo |-> {}, got |-> {}]

\* Ages beyond this one are not told apart.
Old == Window + MaxPollAge + 1
Older(a) == IF a < Old THEN a + 1 ELSE Old
Least(a, b) == IF a < b THEN a ELSE b

PollerInit ==
  /\ latest = [age |-> Old, apiOk |-> FALSE, stale |-> FALSE, streams |-> {}]
  /\ history = [s \in OmeStreams |-> <<>>]
  /\ fails = 0
  /\ poll = [p \in Poll |-> IdlePoll]
  /\ api \in BOOLEAN /\ listing \in BOOLEAN /\ published \in SUBSET OmeStreams

Publish(p, apiOk, streams) ==
  latest' = [age |-> poll[p].age, apiOk |-> apiOk, stale |-> FALSE, streams |-> streams]

Ends(p) == poll' = [poll EXCEPT ![p] = IdlePoll]

\* Mutant: nothing is ever cut from a history.
AppendUncut(h, age) == Append(h, age)

\* The samples that the window still reaches when one of that age is added.
Kept(h, age) ==
  LET kept[n \in 0 .. Len(h)] ==
        IF n = 0 THEN <<>>
        ELSE IF h[n] <= age + Window THEN Append(kept[n - 1], h[n])
        ELSE kept[n - 1]
  IN kept[Len(h)]

\* appendHistory: cut what is older than the window before the new sample.
AppendHistory(h, age) == Append(Kept(h, age), age)

-----------------------------------------------------------------------------
\* setInterval: a tick passes and another poll starts.
Tick(p) ==
  /\ poll[p].at = "idle"
  /\ \A x \in Poll : poll[x].at # "idle" => poll[x].age < MaxPollAge
  /\ poll' = [x \in Poll |->
                IF x = p THEN [IdlePoll EXCEPT !.at = "version"]
                ELSE IF poll[x].at = "idle" THEN poll[x]
                ELSE [poll[x] EXCEPT !.age = @ + 1]]
  /\ latest' = [latest EXCEPT !.age = Older(@)]
  /\ history' = [s \in OmeStreams |-> [i \in DOMAIN history[s] |-> Older(history[s][i])]]
  /\ UNCHANGED <<fails, env>>

VersionAnswered(p) ==
  /\ poll[p].at = "version" /\ api
  /\ poll' = [poll EXCEPT ![p].at = "list"]
  /\ UNCHANGED <<latest, history, fails, env>>

\* OME is away: the snapshot is emptied and the failures of the list forgotten.
VersionFailed(p) ==
  /\ poll[p].at = "version" /\ ~api
  /\ fails' = 0
  /\ Publish(p, FALSE, {})
  /\ Ends(p)
  /\ UNCHANGED <<history, env>>

\* Drop the history of every stream that the poll's listing did not name.
CleanUp(h, refs) == [s \in OmeStreams |-> IF s \in refs THEN h[s] ELSE <<>>]

ListAnswered(p) ==
  /\ poll[p].at = "list" /\ api /\ listing
  /\ fails' = 0
  /\ poll' = [poll EXCEPT ![p] =
                [@ EXCEPT !.at = IF published = {} THEN "totals" ELSE "detail",
                          !.refs = published, !.todo = published]]
  /\ history' = IF published = {} THEN CleanUp(history, {}) ELSE history
  /\ UNCHANGED <<latest, env>>

\* Mutant: the snapshot is never marked stale.
ListFailedSilently(p) ==
  /\ poll[p].at = "list" /\ ~(api /\ listing)
  /\ fails' = Least(fails + 1, StaleAfter)
  /\ Ends(p)
  /\ UNCHANGED <<latest, history, env>>

\* Mutant: the snapshot is marked stale on the first failure.
ListFailedHastily(p) ==
  /\ poll[p].at = "list" /\ ~(api /\ listing)
  /\ fails' = Least(fails + 1, StaleAfter)
  /\ latest' = [latest EXCEPT !.stale = TRUE]
  /\ Ends(p)
  /\ UNCHANGED <<history, env>>

\* Keep the last snapshot; after enough failures in a row, mark it stale.
ListFailed(p) ==
  /\ poll[p].at = "list" /\ ~(api /\ listing)
  /\ fails' = Least(fails + 1, StaleAfter)
  /\ latest' = [latest EXCEPT !.stale = @ \/ fails + 1 >= StaleAfter]
  /\ Ends(p)
  /\ UNCHANGED <<history, env>>

\* One stream's details arrive, or fail and the stream is skipped this time;
\* after the last one, the histories are cleaned up.
DetailAnswered(p, s) ==
  LET left == poll[p].todo \ {s}
      seen == s \in published /\ api
      h == IF seen THEN [history EXCEPT ![s] = AppendHistory(@, poll[p].age)]
                   ELSE history
  IN /\ poll[p].at = "detail" /\ s \in poll[p].todo
     /\ poll' = [poll EXCEPT ![p] =
                   [@ EXCEPT !.at = IF left = {} THEN "totals" ELSE "detail",
                             !.todo = left,
                             !.got = IF seen THEN poll[p].got \cup {s} ELSE poll[p].got]]
     /\ history' = IF left = {} THEN CleanUp(h, poll[p].refs) ELSE h
     /\ UNCHANGED <<latest, fails, env>>

\* Mutant: a late poll keeps the stale mark of the snapshot it replaces.
TotalsAnsweredKeeping(p) ==
  /\ poll[p].at = "totals"
  /\ latest' = [latest EXCEPT !.age = poll[p].age, !.apiOk = TRUE, !.streams = poll[p].got]
  /\ Ends(p)
  /\ UNCHANGED <<history, fails, env>>

\* The vhost totals arrive (a failed one counts as zero): publish.
TotalsAnswered(p) ==
  /\ poll[p].at = "totals"
  /\ Publish(p, TRUE, poll[p].got)
  /\ Ends(p)
  /\ UNCHANGED <<history, fails, env>>

-----------------------------------------------------------------------------
\* OME comes and goes, its lists fail and recover, streams start and stop.
Ome ==
  /\ \/ api' = ~api /\ UNCHANGED <<listing, published>>
     \/ listing' = ~listing /\ UNCHANGED <<api, published>>
     \/ \E s \in OmeStreams :
          /\ published' = IF s \in published THEN published \ {s} ELSE published \cup {s}
          /\ UNCHANGED <<api, listing>>
  /\ UNCHANGED <<latest, history, fails, poll>>

PollStep(p) ==
  \/ VersionAnswered(p) \/ VersionFailed(p)
  \/ ListAnswered(p) \/ ListFailed(p)
  \/ \E s \in OmeStreams : DetailAnswered(p, s)
  \/ TotalsAnswered(p)

PollerNext ==
  \/ \E p \in Poll : Tick(p) \/ PollStep(p)
  \/ Ome

PollerSpec == PollerInit /\ [][PollerNext]_pollerVars

\* The timer keeps firing; every call is answered or fails.
PollerFairness ==
  /\ WF_pollerVars(\E p \in Poll : Tick(p))
  /\ \A p \in Poll : WF_pollerVars(PollStep(p))
PollerFairSpec == PollerSpec /\ PollerFairness

-----------------------------------------------------------------------------
PollState ==
  [at : {"idle", "version", "list", "detail", "totals"}, age : 0 .. MaxPollAge,
   refs : SUBSET OmeStreams, todo : SUBSET OmeStreams, got : SUBSET OmeStreams]

PollsOK ==
  /\ api \in BOOLEAN /\ listing \in BOOLEAN /\ published \subseteq OmeStreams
  /\ fails \in 0 .. StaleAfter
  /\ poll \in [Poll -> PollState]
  /\ latest \in [age : 0 .. Old, apiOk : BOOLEAN, stale : BOOLEAN, streams : SUBSET OmeStreams]

(* Types, and the bound on a history that the window gives: with one       *)
(* sample a poll, a history never holds more than the window and the       *)
(* slowest poll together allow.                                            *)
PollerTypeOK ==
  /\ PollsOK
  /\ \A s \in OmeStreams :
       /\ Len(history[s]) <= Old
       /\ \A i \in DOMAIN history[s] : history[s][i] \in 0 .. Old

(* The stale mark is earned: the last StaleAfter lists failed, or a list   *)
(* has succeeded and the poll that made it is about to publish.            *)
StaleIsEarned ==
  latest.stale =>
    fails = StaleAfter \/ \E p \in Poll : poll[p].at \in {"detail", "totals"}

(* A frozen snapshot does not stay unmarked: when OME answers but its      *)
(* lists keep failing, the snapshot ends up marked stale and stays so,     *)
(* although an older poll may still publish over the mark.                 *)
FrozenIsMarked == <>[](api /\ ~listing) => <>[]latest.stale

(* When OME is healthy and its streams settle, the snapshot ends up        *)
(* showing exactly them, and no poll that started earlier undoes that.     *)
SnapshotConverges ==
  \A S \in SUBSET OmeStreams :
    <>[](api /\ listing /\ published = S)
      => <>[](latest.apiOk /\ ~latest.stale /\ latest.streams = S)

-----------------------------------------------------------------------------
(* The stale mark is only set while apiOk is true.                         *)
StaleOnlyWhileOk == latest.stale => latest.apiOk

(* The samples of a history are in order, oldest first.                    *)
OldestFirst ==
  \A s \in OmeStreams : \A i, j \in DOMAIN history[s] :
    i < j => history[s][i] >= history[s][j]

(* A failure is not taken for "zero streams": a healthy snapshot with no   *)
(* stream is published only when none of the streams listed is still live. *)
HealthyIsNotBlind ==
  [][\A p \in Poll :
       (poll[p].at = "totals" /\ poll'[p].at = "idle" /\ latest'.streams = {})
         => poll[p].refs \cap published = {}]_pollerVars
=============================================================================
