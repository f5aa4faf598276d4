------------------------------ MODULE LoginLock -------------------------------
(***************************************************************************)
(* auth/rateLimit.ts and the handler of the login form that uses it: how   *)
(* often a name may be tried.  The count is kept by name, in memory; the   *)
(* handler looks at the lock first and counts only after it has waited for *)
(* bcrypt, so that several tries of a name can be past the lock at once.   *)
(***************************************************************************)
EXTENDS Integers, FiniteSets, FiniteSetsExt

CONSTANTS
  Names,        \* the names that are followed one by one
  Slots,        \* bound: tries under way at once
  Threshold,    \* MAX_FAILURES_BEFORE_LOCK
  Base, Cap,    \* BASE_LOCK_MS, MAX_LOCK_MS, in ticks
  MaxTracked,   \* MAX_TRACKED_USERNAMES
  MaxTime,      \* bound: ticks
  Nil

ASSUME LockAssumption ==
  /\ Nil \notin Names
  /\ Threshold \in Nat \ {0} /\ MaxTracked \in Nat \ {0} /\ MaxTime \in Nat
  /\ Base \in Nat \ {0} /\ Cap \in Nat /\ Base <= Cap
  /\ IsFiniteSet(Slots)

VARIABLES
  attempts,     \* the store: a function from the names it has to their counts
  others,       \* how many other names it has
  tries,        \* per slot, the try that waits for bcrypt
  now

lockVars == <<attempts, others, tries, now>>

Attempt == [failures : Nat \ {0}, until : Nat]
\* known: the row was there, and the password is its.  here: it was sent by the
\* tab that Gate follows.
Try     == [name : Names, known : BOOLEAN, here : BOOLEAN]

LockInit ==
  /\ attempts = [n \in {} |-> Nil]
  /\ others = 0
  /\ tries = [s \in Slots |-> Nil]
  /\ now = 0

Tracked == DOMAIN attempts

\* No lock is until = 0.
Until(n)  == IF n \in Tracked THEN attempts[n].until ELSE 0
Locked(n) == Until(n) > now

\* The base, doubled i times.
Doubled[i \in Nat] == IF i = 0 THEN Base ELSE 2 * Doubled[i - 1]

\* Mutant: every lock has the same length.
FlatLength(failures) == Base
LockLength(failures) == Min({Doubled[failures - Threshold], Cap})

Failures(store, n) == IF n \in DOMAIN store THEN store[n].failures ELSE 0

\* Mutant: a failure makes a new entry, whose lock is that of its own count.
CountedAnew(store, n) ==
  [failures |-> (Failures(store, n) % Threshold) + 1,
   until |-> IF (Failures(store, n) % Threshold) + 1 = Threshold
             THEN now + LockLength(Threshold) ELSE 0]
Counted(store, n) ==
  LET f == Failures(store, n) + 1 IN
  [failures |-> f,
   until |-> IF f >= Threshold THEN now + LockLength(f) ELSE 0]

\* Mutant: the cap is looked at one entry late.
FullLate == Cardinality(Tracked) + others > MaxTracked
\* The store is full: whoever fails next empties it first.
Full == Cardinality(Tracked) + others >= MaxTracked

Begin(s, t) ==
  /\ tries[s] = Nil
  /\ ~Locked(t.name)
  /\ tries' = [tries EXCEPT ![s] = t]
  /\ UNCHANGED <<attempts, others, now>>

RecordFailure(s) ==
  LET n     == tries[s].name
      store == IF Full THEN [m \in {} |-> Nil] ELSE attempts IN
  /\ attempts' = [m \in DOMAIN store \cup {n} |-> IF m = n THEN Counted(store, n) ELSE store[m]]
  /\ others' = IF Full THEN 0 ELSE others
  /\ tries' = [tries EXCEPT ![s] = Nil]
  /\ UNCHANGED now

RecordSuccess(s) ==
  /\ attempts' = [m \in Tracked \ {tries[s].name} |-> attempts[m]]
  /\ tries' = [tries EXCEPT ![s] = Nil]
  /\ UNCHANGED <<others, now>>

TryFails(s)    == tries[s] # Nil /\ ~tries[s].known /\ RecordFailure(s)
TrySucceeds(s) == tries[s] # Nil /\ tries[s].known /\ RecordSuccess(s)

\* A name that is not followed fails, or gets in.
OtherName ==
  /\ \/ /\ others' = IF Full THEN 1 ELSE others + 1
        /\ attempts' = IF Full THEN [m \in {} |-> Nil] ELSE attempts
     \/ others > 0 /\ others' = others - 1 /\ UNCHANGED attempts
  /\ UNCHANGED <<tries, now>>

\* The console starts anew, with an empty store.
RestartConsole ==
  /\ attempts' = [n \in {} |-> Nil]
  /\ others' = 0
  /\ tries' = [s \in Slots |-> Nil]
  /\ UNCHANGED now

Tick ==
  /\ now < MaxTime
  /\ now' = now + 1
  /\ UNCHANGED <<attempts, others, tries>>

(***************************************************************************)
(* Properties                                                              *)
(***************************************************************************)
LockTypeOK ==
  /\ Tracked \subseteq Names
  /\ \A n \in Tracked : attempts[n] \in Attempt
  /\ others \in 0..MaxTracked
  /\ Cardinality(Tracked) + others <= MaxTracked
  /\ tries \in [Slots -> Try \cup {Nil}]
  /\ now \in 0..MaxTime

\* "escalating from the base by doubling per failure past the threshold"
PromisedLock(i) == Min({Doubled[i], Cap})
\* How long the first k of them last.
LocksSum[k \in Nat] == IF k = 0 THEN 0 ELSE LocksSum[k - 1] + PromisedLock(k - 1)
\* The locks that can be over by now, if each comes right after the last: the i-th
\* one is at least as long as if one failure had led to each.
LocksOver ==
  Max({k \in 0..now : LocksSum[k] <= now})

\* The tries past the lock at once cost no more than one window each: between
\* two locks of a name no more of its tries fail than there are under way.
GuessBudget ==
  \A n \in Tracked :
    attempts[n].failures <= Threshold - 1 + Cardinality(Slots) * (1 + LocksOver)

\* A failure never opens a lock or brings its end nearer, neither its own name's
\* nor another's, in whatever order the tries under way end; only a store that is
\* full forgets them.
LockHolds ==
  [][\A s \in Slots : TryFails(s) /\ ~Full => \A n \in Names : Until(n)' >= Until(n)]_lockVars
===============================================================================
