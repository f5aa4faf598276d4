---------------------------- MODULE AlertPromise ----------------------------
(***************************************************************************)
(* What an operator is promised of the alerts whose condition must last:   *)
(* an alert is told as fired when an unbroken row of snapshots has shown   *)
(* its condition long enough, before the next snapshot comes, and not      *)
(* sooner; its end is told as soon as a snapshot does not show it; and the *)
(* two alternate.  "Long enough" is the time from the first snapshot of    *)
(* the row to the newest, however many there are between: what the stream  *)
(* did while none came is not looked at.  Nothing is promised once a       *)
(* notification has waited for its mail: from then on evaluations overlap. *)
(***************************************************************************)
EXTENDS Naturals

CONSTANTS
  Alert,
  Lasting,     \* alert -> ticks its condition must have lasted
  Longest,     \* ticks beyond which nobody counts
  Gaps,        \* ticks there may be from one snapshot to the next
  Never        \* the newest snapshot does not show it

VARIABLES
  told,        \* alert -> what the log said of it last
  holding,     \* alert -> ticks from the first snapshot in a row that showed it
               \* to the newest, or Never
  waited       \* a notification has waited

promiseVars == <<told, holding>>

PromiseInit ==
  /\ told = [a \in Alert |-> "resolved"]
  /\ holding = [a \in Alert |-> Never]

Due(a) == told[a] = "resolved" /\ holding[a] # Never /\ holding[a] >= Lasting[a]
Over(a) == told[a] = "fired" /\ holding[a] = Never

Ticks(n, gap) == IF n + gap < Longest THEN n + gap ELSE Longest

\* The next snapshot comes when all was told of the one before.
Look ==
  /\ \A a \in Alert : ~Due(a) /\ ~Over(a)
  /\ \E gap \in Gaps, shown \in SUBSET Alert :
       holding' = [a \in Alert |-> IF a \notin shown THEN Never
                                   ELSE IF holding[a] = Never THEN 0
                                   ELSE Ticks(holding[a], gap)]
  /\ UNCHANGED told

Fire(a) == Due(a) /\ told' = [told EXCEPT ![a] = "fired"] /\ UNCHANGED holding
Resolve(a) == Over(a) /\ told' = [told EXCEPT ![a] = "resolved"] /\ UNCHANGED holding

PromiseNext == Look \/ \E a \in Alert : Fire(a) \/ Resolve(a)

PromiseSpec == PromiseInit /\ [][waited \/ PromiseNext]_promiseVars
=============================================================================
