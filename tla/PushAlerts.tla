----------------------------- MODULE PushAlerts -----------------------------
(***************************************************************************)
(* evaluatePushTasks: a timer starts an evaluation of the push-down rule,  *)
(* which asks OME for the applications and, one after the other, for the   *)
(* push tasks of each.  Nothing waits for the evaluation before: several   *)
(* may be under way, each with its own lists, over the same candidates.    *)
(*                                                                         *)
(* Time, "cpu" and the history variables are as in StreamAlerts.           *)
(***************************************************************************)
EXTENDS Candidates, Sequences, FiniteSets

CONSTANTS
  Task,        \* push tasks, as an application and an id
  Apps,        \* the applications, in the order OME lists them
  AppOf,       \* the application of a task
  Eval, Nobody,
  Mailable,    \* operators route push-down to e-mail
  Duration,    \* ticks a push must be down
  MaxAge,      \* bound: ticks an evaluation may take
  MaxFaults    \* bound: requests that fail

OldAge == MaxAge + Duration
App == {Apps[i] : i \in DOMAIN Apps}

ASSUME PushAssumption ==
  /\ Apps \in Seq(App) /\ AppOf \in [Task -> App]
  /\ Nobody \notin Eval
  /\ Mailable \in BOOLEAN
  /\ Duration \in Nat /\ MaxAge \in Nat /\ MaxFaults \in Nat

VARIABLES
  push,        \* OME: the state of each task, "none" if there is no task
  cand,        \* the candidates of push-down
  routed,      \* push-down has an enabled route that sends e-mail
  eval, cpu,
  told, repeated, waited,
  faults

log == <<told, repeated, waited>>
vars == <<push, cand, routed, eval, cpu, log, faults>>

PushState == {"none", "down", "pushing"}
\* A candidate that the clean-up holds: "live" while it is the one in the map, and
\* whether it was firing after that.
Dead == [t : Task, firing : {"live", "yes", "no"}, notified : BOOLEAN]
EvalState ==
  [at : {"idle", "apps", "pushes", "mail", "run"}, age : 0 .. MaxAge, apps : Seq(App),
   todo : SUBSET [t : Task, down : BOOLEAN], seen : SUBSET Task,
   complete : BOOLEAN, sweeping : BOOLEAN, dead : SUBSET Dead]
IdleEval == [at |-> "idle", age |-> 0, apps |-> <<>>, todo |-> {}, seen |-> {},
             complete |-> TRUE, sweeping |-> FALSE, dead |-> {}]

Init ==
  /\ push = [t \in Task |-> "none"]
  /\ cand = [t \in Task |-> Absent]
  /\ eval = [e \in Eval |-> IdleEval]
  /\ cpu = Nobody
  /\ told = [t \in Task |-> "resolved"]
  /\ repeated = FALSE /\ waited = FALSE
  /\ routed \in {FALSE, Mailable}
  /\ faults = 0

-----------------------------------------------------------------------------
Wait(e, next) == eval' = [eval EXCEPT ![e] = next] /\ cpu' = Nobody
Go(e, next) == eval' = [eval EXCEPT ![e] = [next EXCEPT !.at = "run"]] /\ cpu' = e
SaysNothing == UNCHANGED log

\* A notification is logged at once; the evaluation then waits for the mail.
Notify(e, t, what, next) ==
  /\ told' = [told EXCEPT ![t] = what]
  /\ repeated' = (repeated \/ told[t] = what)
  /\ waited' = (waited \/ routed)
  /\ IF routed THEN Wait(e, [next EXCEPT !.at = "mail"]) ELSE Go(e, next)

Fault == faults < MaxFaults /\ faults' = faults + 1

-----------------------------------------------------------------------------
TimerFires(e) ==
  /\ cpu = Nobody /\ eval[e].at = "idle"
  /\ \A x \in Eval : eval[x].age < MaxAge
  /\ eval' = [x \in Eval |->
                IF x = e THEN [IdleEval EXCEPT !.at = "apps"]
                ELSE IF eval[x].at = "idle" THEN eval[x]
                ELSE [eval[x] EXCEPT !.age = @ + 1]]
  /\ cand' = [t \in Task |-> Aged(cand[t], OldAge)]
  /\ UNCHANGED <<push, routed, cpu, log, faults>>

\* listVhosts and listApps of each vhost.
AppsAnswered(e) ==
  /\ cpu = Nobody /\ eval[e].at = "apps"
  /\ Go(e, [eval[e] EXCEPT !.apps = Apps])
  /\ SaysNothing /\ UNCHANGED <<push, cand, routed, faults>>

\* One of those fails, listApps of a later vhost included, for which the evaluation
\* asks between two applications: it gives up there and cleans nothing up.
AppsFailed(e) ==
  /\ cpu = Nobody /\ eval[e].at \in {"apps", "pushes"} /\ Fault
  /\ Wait(e, IdleEval)
  /\ SaysNothing /\ UNCHANGED <<push, cand, routed>>

PushesAnswered(e) ==
  LET listed == {t \in Task : AppOf[t] = Head(eval[e].apps) /\ push[t] # "none"} IN
  /\ cpu = Nobody /\ eval[e].at = "pushes"
  /\ Go(e, [eval[e] EXCEPT !.todo = {[t |-> t, down |-> push[t] # "pushing"] : t \in listed},
                           !.apps = Tail(@)])
  /\ SaysNothing /\ UNCHANGED <<push, cand, routed, faults>>

\* catch(() => []): the application has no push tasks.
PushesFailed(e) ==
  /\ cpu = Nobody /\ eval[e].at = "pushes" /\ Fault
  /\ Go(e, [eval[e] EXCEPT !.apps = Tail(@), !.complete = FALSE])
  /\ SaysNothing /\ UNCHANGED <<push, cand, routed>>

MailDone(e) ==
  /\ cpu = Nobody /\ eval[e].at = "mail"
  /\ Go(e, eval[e])
  /\ SaysNothing /\ UNCHANGED <<push, cand, routed, faults>>

\* One listed task.
Check(e) ==
  /\ cpu = e
  /\ \E x \in eval[e].todo :
       LET c == OrFresh(cand[x.t])
           age == eval[e].age
           next == [eval[e] EXCEPT !.todo = @ \ {x}, !.seen = @ \cup {x.t}]
       IN /\ cand' = [cand EXCEPT ![x.t] = Checked(c, x.down, Duration, age)]
          /\ IF Fires(c, x.down, Duration, age) THEN Notify(e, x.t, "fired", next)
             ELSE IF Resolves(c, x.down) THEN Notify(e, x.t, "resolved", next)
             ELSE Go(e, next) /\ SaysNothing
  /\ UNCHANGED <<push, routed, faults>>

\* Mutant: an application whose tasks are still to be listed is passed over.
ProceedEarly(e) ==
  LET ev == eval[e] IN
  /\ cpu = e /\ ev.todo = {} /\ ~ev.sweeping
  /\ Go(e, [ev EXCEPT !.sweeping = TRUE,
              !.dead = {[t |-> t, firing |-> "live", notified |-> FALSE] :
                          t \in {t \in Task \ ev.seen : cand[t] # Absent}}])
  /\ SaysNothing /\ UNCHANGED <<push, cand, routed, faults>>

\* On to the next application or, after the last, to the clean-up: of every
\* candidate whose task was not seen.  ("firing" is as in StreamAlerts.)
Proceed(e) ==
  LET ev == eval[e] IN
  /\ cpu = e /\ ev.todo = {} /\ ~ev.sweeping
  /\ IF ev.apps # <<>> THEN Wait(e, [ev EXCEPT !.at = "pushes"])
     ELSE Go(e, [ev EXCEPT !.sweeping = TRUE,
                   !.dead = {[t |-> t, firing |-> "live", notified |-> FALSE] :
                               t \in {t \in Task \ ev.seen : cand[t] # Absent}}])
  /\ SaysNothing /\ UNCHANGED <<push, cand, routed, faults>>

StillFiring(d) ==
  IF d.firing = "live" THEN IsFiring(cand[d.t]) ELSE d.firing = "yes"

Detach(evs, t) ==
  [x \in Eval |-> [evs[x] EXCEPT !.dead =
     {IF d.t = t /\ d.firing = "live"
      THEN [d EXCEPT !.firing = IF IsFiring(cand[t]) THEN "yes" ELSE "no"]
      ELSE d : d \in @}]]

\* Mutant: a candidate is dropped without telling that it has resolved.
SweepSilently(e) ==
  /\ cpu = e /\ SaysNothing /\ UNCHANGED <<cpu, push, routed, faults>>
  /\ \E d \in eval[e].dead :
       /\ cand' = [cand EXCEPT ![d.t] = Absent]
       /\ eval' = [Detach(eval, d.t) EXCEPT ![e] = [eval[e] EXCEPT !.dead = @ \ {d}]]

\* Resolve a gone task's alert first, wait for the mail, then delete.
Sweep(e) ==
  LET ev == eval[e] IN
  /\ cpu = e /\ UNCHANGED <<push, routed, faults>>
  /\ \E d \in ev.dead :
       /\ \A x \in ev.dead : x.notified => x = d
       /\ IF StillFiring(d) /\ ~d.notified
          THEN /\ Notify(e, d.t, "resolved",
                         [ev EXCEPT !.dead = (@ \ {d}) \cup {[d EXCEPT !.notified = TRUE]}])
               /\ UNCHANGED cand
          ELSE /\ cand' = [cand EXCEPT ![d.t] = Absent]
               /\ eval' = [Detach(eval, d.t) EXCEPT ![e] = [ev EXCEPT !.dead = @ \ {d}]]
               /\ SaysNothing /\ UNCHANGED cpu

Finish(e) ==
  /\ cpu = e /\ eval[e].sweeping /\ eval[e].dead = {}
  /\ Wait(e, IdleEval)
  /\ SaysNothing /\ UNCHANGED <<push, cand, routed, faults>>

\* An operator adds the e-mail route of push-down, or deletes it.
RouteChanges ==
  /\ cpu = Nobody /\ Mailable
  /\ routed' = ~routed
  /\ UNCHANGED <<push, cand, eval, cpu, log, faults>>

\* OME: tasks are started and stopped, and lose and find their targets.
Ome ==
  /\ cpu = Nobody
  /\ \E t \in Task, p \in PushState : push[t] # p /\ push' = [push EXCEPT ![t] = p]
  /\ UNCHANGED <<cand, routed, eval, cpu, log, faults>>

-----------------------------------------------------------------------------
EvalStep(e) ==
  \/ AppsAnswered(e) \/ PushesAnswered(e) \/ MailDone(e)
  \/ Check(e) \/ Proceed(e) \/ Sweep(e) \/ Finish(e)

Next ==
  \/ \E e \in Eval : TimerFires(e) \/ AppsFailed(e) \/ PushesFailed(e) \/ EvalStep(e)
  \/ RouteChanges \/ Ome

Spec == Init /\ [][Next]_vars

\* The timer keeps firing and every request and mail is answered or fails.
FairSpec ==
  /\ Spec
  /\ WF_vars(\E e \in Eval : TimerFires(e))
  /\ \A e \in Eval : WF_vars(EvalStep(e))

-----------------------------------------------------------------------------
\* Types, and what ties the variables: the evaluation that runs is the one
\* the thread executes, it sweeps only after its last list, never a task it
\* has seen, and a firing candidate has a time since when.
TypeOK ==
  /\ push \in [Task -> PushState]
  /\ cand \in [Task -> Candidate(OldAge) \cup {Absent}]
  /\ told \in [Task -> {"fired", "resolved"}]
  /\ repeated \in BOOLEAN /\ waited \in BOOLEAN /\ routed \in BOOLEAN
  /\ faults \in 0 .. MaxFaults
  /\ cpu \in Eval \cup {Nobody} /\ eval \in [Eval -> EvalState]
  /\ \A e \in Eval :
       /\ eval[e].at = "run" <=> cpu = e
       /\ eval[e].at = "pushes" => eval[e].apps # <<>>
       /\ eval[e].sweeping => /\ eval[e].todo = {} /\ eval[e].apps = <<>>
                             /\ eval[e].at \in {"run", "mail"}
       /\ \A d \in eval[e].dead : eval[e].sweeping /\ d.t \notin eval[e].seen
  /\ \A t \in Task : IsFiring(cand[t]) => cand[t].since # Never


\* As long as no evaluation has waited for a mail, the log never says "fired" or
\* "resolved" of a task twice in a row, however evaluations with older and newer
\* lists interleave, and outside a clean-up it says what the candidates say.
ToldMatches ==
  ~waited =>
    /\ ~repeated
    /\ (\A e \in Eval : ~eval[e].sweeping) =>
         \A t \in Task : told[t] = "fired" <=> IsFiring(cand[t])

\* A candidate is dropped only by an evaluation that got every list: after a
\* failed request "we don't actually know the real current task list".
CleanupKnowsTasks ==
  [][\A t \in Task : cand[t] # Absent /\ cand'[t] = Absent
       => \E e \in Eval : cpu = e /\ eval[e].complete]_vars

\* A push that stays down comes to fire, and fires until it is up.
DownIsTold ==
  \A t \in Task : <>[](push[t] = "down") => <>[](told[t] = "fired")

\* The alert of a task that is stopped is forgotten, and without mails its
\* end has been told.
StoppedIsForgotten ==
  \A t \in Task :
    <>[](push[t] = "none")
      => <>[](cand[t] = Absent /\ (told[t] = "resolved" \/ waited))
=============================================================================
