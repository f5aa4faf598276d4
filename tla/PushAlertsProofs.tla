-------------------------- MODULE PushAlertsProofs --------------------------
(***************************************************************************)
(* Proofs about PushAlerts for any number of tasks, applications and       *)
(* evaluations.                                                            *)
(*                                                                         *)
(* As long as nobody has waited for a mail, an evaluation that judges or   *)
(* cleans up keeps the thread: no other has anything to clean up, and the  *)
(* candidates it holds are those of the map.  What the log says then       *)
(* differs from what the candidates say only for a task whose end was      *)
(* Announced and whose candidate is about to be dropped.                   *)
(***************************************************************************)
EXTENDS PushAlerts, TLAPS

Announced(t) == \E e \in Eval : \E d \in eval[e].dead : d.t = t /\ d.notified

Agreed(t) == told[t] = "fired" <=> IsFiring(cand[t]) /\ ~Announced(t)

\* What is held is what is in the map, once.
Held(D) == /\ \A d \in D : d.firing = "live"
           /\ \A c, d \in D : c.t = d.t => c = d

Quiet ==
  ~waited =>
    /\ ~repeated
    /\ \A e \in Eval : eval[e].at # "mail" /\ Held(eval[e].dead)
    /\ \A t \in Task : Agreed(t)

Inv == TypeOK /\ Quiet

\* The conditions of TypeOK on one evaluation.
Fit(ev) ==
  /\ ev.at = "pushes" => ev.apps # <<>>
  /\ ev.sweeping => ev.todo = {} /\ ev.apps = <<>> /\ ev.at \in {"run", "mail"}
  /\ \A d \in ev.dead : ev.sweeping /\ d.t \notin ev.seen

-----------------------------------------------------------------------------
\* What a check leaves: the rule is firing after it as the notification says.
LEMMA CheckLeaves ==
  ASSUME NEW c \in Candidate(OldAge), NEW b \in BOOLEAN, NEW a \in 0 .. MaxAge
  PROVE  /\ Checked(c, b, Duration, a) \in Candidate(OldAge)
         /\ Checked(c, b, Duration, a).firing => Checked(c, b, Duration, a).since # Never
         /\ Fires(c, b, Duration, a) => Checked(c, b, Duration, a).firing /\ ~c.firing
         /\ ~Fires(c, b, Duration, a) /\ Resolves(c, b)
              => ~Checked(c, b, Duration, a).firing /\ c.firing
         /\ ~Fires(c, b, Duration, a) /\ ~Resolves(c, b)
              => Checked(c, b, Duration, a).firing = c.firing
<1>1. OldAge \in Nat /\ MaxAge <= OldAge /\ a \in 0 .. OldAge /\ a # Never
  BY PushAssumption, CandidateAssumption DEF OldAge
<1>2. Since(c, b, a) \in (0 .. OldAge) \cup {Never} /\ (b => Since(c, b, a) # Never)
  BY <1>1 DEF Since, Candidate
<1>3. c.firing \in BOOLEAN
  BY DEF Candidate
<1> QED
  BY <1>2, <1>3 DEF Checked, Candidate, Fires, Resolves

\* No candidate is a record.
LEMMA AbsentIsNone == Absent \notin Candidate(OldAge)
BY CandidateAssumption, PushAssumption DEF Candidate, OldAge

LEMMA FreshOrNot ==
  ASSUME NEW c \in Candidate(OldAge) \cup {Absent}
  PROVE  OrFresh(c) \in Candidate(OldAge) /\ (OrFresh(c).firing <=> IsFiring(c))
BY AbsentIsNone DEF OrFresh, IsFiring, Fresh, Candidate

LEMMA TickKeeps ==
  ASSUME NEW c \in Candidate(OldAge) \cup {Absent}
  PROVE  /\ Aged(c, OldAge) \in Candidate(OldAge) \cup {Absent}
         /\ IsFiring(Aged(c, OldAge)) <=> IsFiring(c)
         /\ IsFiring(c) /\ c.since # Never => Aged(c, OldAge).since # Never
<1>1. CASE c # Absent /\ c.since # Never
  <2> PICK n : n = Later(c.since, 1, OldAge)
    OBVIOUS
  <2>1. n \in 0 .. OldAge /\ n # Never
    BY <1>1, PushAssumption, CandidateAssumption DEF Candidate, OldAge, Later
  <2>2. Aged(c, OldAge) = [c EXCEPT !.since = n] /\ c \in Candidate(OldAge)
    BY <1>1 DEF Aged, AgedBy
  <2>3. /\ [c EXCEPT !.since = n] \in Candidate(OldAge)
        /\ [c EXCEPT !.since = n].firing = c.firing
        /\ [c EXCEPT !.since = n].since = n
    BY <2>1, <2>2 DEF Candidate
  <2> QED
    BY <1>1, <2>1, <2>2, <2>3, AbsentIsNone DEF IsFiring
<1> QED
  BY <1>1 DEF Aged, AgedBy

-----------------------------------------------------------------------------
\* A step of one evaluation that leaves the others alone.
LEMMA OneMoves ==
  ASSUME TypeOK, NEW e \in Eval, cpu \in {e, Nobody}, NEW ev \in EvalState, Fit(ev),
         eval' = [eval EXCEPT ![e] = ev],
         \/ ev.at = "run" /\ cpu' = e
         \/ ev.at # "run" /\ cpu' = Nobody,
         push' = push, cand' \in [Task -> Candidate(OldAge) \cup {Absent}],
         told' \in [Task -> {"fired", "resolved"}],
         repeated' \in BOOLEAN, waited' \in BOOLEAN, routed' = routed, faults' \in 0 .. MaxFaults,
         \A t \in Task : IsFiring(cand'[t]) => cand'[t].since # Never
  PROVE  TypeOK' /\ eval'[e] = ev /\ \A x \in Eval \ {e} : eval'[x] = eval[x]
<1>1. /\ eval' \in [Eval -> EvalState] /\ eval'[e] = ev
      /\ \A x \in Eval \ {e} : eval'[x] = eval[x]
  BY DEF TypeOK
<1>2. cpu' \in Eval \cup {Nobody} /\ \A x \in Eval : eval'[x].at = "run" <=> cpu' = x
  BY <1>1, PushAssumption DEF TypeOK
<1>3. \A x \in Eval : Fit(eval'[x])
  BY <1>1 DEF Fit, TypeOK
<1> QED
  BY <1>1, <1>2, <1>3 DEF Fit, TypeOK

\* A step that holds the same candidates, says nothing and lets nobody mail.
LEMMA SaysTheSame ==
  ASSUME Inv, UNCHANGED log, \A t \in Task : IsFiring(cand'[t]) <=> IsFiring(cand[t]),
         \A e \in Eval : /\ eval'[e].dead = eval[e].dead
                         /\ ~waited => eval'[e].at # "mail"
  PROVE  Quiet'
<1>1. \A t \in Task : Announced(t)' <=> Announced(t)
  BY DEF Announced
<1> QED
  BY <1>1 DEF Inv, Quiet, log, Agreed

\* As long as nobody has waited, only the evaluation that runs holds anything.
LEMMA Alone ==
  ASSUME Inv, ~waited, NEW e \in Eval, cpu = e
  PROVE  \A x \in Eval \ {e} : eval[x].dead = {} /\ ~eval[x].sweeping
BY DEF Inv, Quiet, TypeOK, EvalState

-----------------------------------------------------------------------------
\* The steps of an evaluation that neither judge nor clean up.
LEMMA WalkKeeps ==
  ASSUME Inv, NEW e \in Eval,
         \/ AppsAnswered(e) \/ AppsFailed(e) \/ PushesAnswered(e) \/ PushesFailed(e)
         \/ MailDone(e) \/ Proceed(e) \/ Finish(e)
  PROVE  Inv'
<1> USE DEF Inv
<1>0. /\ eval[e] \in EvalState /\ Fit(eval[e]) /\ (eval[e].at = "run" <=> cpu = e)
      /\ IdleEval \in EvalState /\ Fit(IdleEval)
  BY PushAssumption DEF TypeOK, Fit, IdleEval, EvalState
<1>1. ASSUME NEW ev \in EvalState, Fit(ev), eval' = [eval EXCEPT ![e] = ev],
             \/ ev.at = "run" /\ cpu' = e
             \/ ev.at \notin {"run", "mail"} /\ cpu' = Nobody,
             cpu \in {e, Nobody}, ev.dead = eval[e].dead, faults' \in 0 .. MaxFaults,
             UNCHANGED <<push, cand, routed, log>>
      PROVE  Inv'
  <2>1. TypeOK' /\ eval'[e] = ev /\ \A x \in Eval \ {e} : eval'[x] = eval[x]
    <3>1. /\ cand' \in [Task -> Candidate(OldAge) \cup {Absent}]
          /\ told' \in [Task -> {"fired", "resolved"}]
          /\ repeated' \in BOOLEAN /\ waited' \in BOOLEAN /\ push' = push /\ routed' = routed
          /\ \A t \in Task : IsFiring(cand'[t]) => cand'[t].since # Never
      BY <1>1 DEF TypeOK, log
    <3> QED
      BY <1>1, <3>1, OneMoves
  <2>2. \A x \in Eval : eval'[x].dead = eval[x].dead /\ (~waited => eval'[x].at # "mail")
    BY <1>1, <2>1 DEF Quiet
  <2> QED
    BY <1>1, <2>1, <2>2, SaysTheSame
<1>2. \A f : f = faults' => (Fault \/ f = faults => f \in 0 .. MaxFaults)
  BY PushAssumption DEF Fault, TypeOK
<1>3. CASE AppsAnswered(e)
  <2> DEFINE ev == [eval[e] EXCEPT !.apps = Apps, !.at = "run"]
  <2>1. ev \in EvalState /\ Fit(ev) /\ ev.at = "run" /\ ev.dead = eval[e].dead
    BY <1>0, <1>3, PushAssumption DEF AppsAnswered, EvalState, Fit
  <2>2. eval' = [eval EXCEPT ![e] = ev]
    BY <1>3 DEF AppsAnswered, Go
  <2> HIDE DEF ev
  <2> QED
    BY <1>1, <1>2, <1>3, <2>1, <2>2 DEF AppsAnswered, Go, SaysNothing
<1>4. CASE AppsFailed(e)
  <2>1. eval[e].dead = {} /\ IdleEval.dead = {} /\ IdleEval.at = "idle"
    BY <1>0, <1>4 DEF AppsFailed, Fit, IdleEval
  <2> QED
    BY <1>0, <1>1, <1>2, <1>4, <2>1 DEF AppsFailed, Wait, SaysNothing
<1>5. CASE PushesAnswered(e)
  <2> DEFINE listed == {t \in Task : AppOf[t] = Head(eval[e].apps) /\ push[t] # "none"}
             T == {[t |-> t, down |-> push[t] # "pushing"] : t \in listed}
             ev == [eval[e] EXCEPT !.todo = T, !.apps = Tail(eval[e].apps), !.at = "run"]
  <2>1. T \in SUBSET [t : Task, down : BOOLEAN] /\ Tail(eval[e].apps) \in Seq(App)
    <3>1. eval[e].apps \in Seq(App) /\ eval[e].apps # <<>>
      BY <1>0, <1>5 DEF PushesAnswered, EvalState, Fit
    <3>2. \A t \in Task : [t |-> t, down |-> push[t] # "pushing"] \in [t : Task, down : BOOLEAN]
      OBVIOUS
    <3>3. T \in SUBSET [t : Task, down : BOOLEAN]
      BY <3>2, Zenon
    <3> HIDE DEF T
    <3> QED
      BY <3>1, <3>3
  <2>2. eval' = [eval EXCEPT ![e] = ev]
    BY <1>5 DEF PushesAnswered, Go
  <2> HIDE DEF T
  <2>3. ev \in EvalState /\ Fit(ev) /\ ev.at = "run" /\ ev.dead = eval[e].dead
    BY <1>0, <1>5, <2>1 DEF PushesAnswered, EvalState, Fit
  <2> HIDE DEF ev
  <2> QED
    BY <1>1, <1>2, <1>5, <2>2, <2>3 DEF PushesAnswered, Go, SaysNothing
<1>6. CASE PushesFailed(e)
  <2> DEFINE ev == [eval[e] EXCEPT !.apps = Tail(eval[e].apps), !.complete = FALSE, !.at = "run"]
  <2>1. Tail(eval[e].apps) \in Seq(App)
    BY <1>0, <1>6 DEF PushesFailed, EvalState, Fit
  <2>2. eval' = [eval EXCEPT ![e] = ev]
    BY <1>6 DEF PushesFailed, Go
  <2>3. ev \in EvalState /\ Fit(ev) /\ ev.at = "run" /\ ev.dead = eval[e].dead
    BY <1>0, <1>6, <2>1 DEF PushesFailed, EvalState, Fit
  <2> HIDE DEF ev
  <2> QED
    BY <1>1, <1>2, <1>6, <2>2, <2>3 DEF PushesFailed, Go, SaysNothing
<1>7. CASE MailDone(e)
  <2> DEFINE ev == [eval[e] EXCEPT !.at = "run"]
  <2>1. ev \in EvalState /\ Fit(ev) /\ ev.at = "run" /\ ev.dead = eval[e].dead
    BY <1>0, <1>7 DEF MailDone, EvalState, Fit
  <2>2. eval' = [eval EXCEPT ![e] = ev]
    BY <1>7 DEF MailDone, Go
  <2> HIDE DEF ev
  <2> QED
    BY <1>1, <1>2, <1>7, <2>1, <2>2 DEF MailDone, Go, SaysNothing
<1>8. CASE Proceed(e) /\ eval[e].apps # <<>>
  <2> DEFINE ev == [eval[e] EXCEPT !.at = "pushes"]
  <2>1. ev \in EvalState /\ Fit(ev) /\ ev.at = "pushes" /\ ev.dead = eval[e].dead
    BY <1>0, <1>8 DEF Proceed, EvalState, Fit
  <2>2. eval' = [eval EXCEPT ![e] = ev]
    BY <1>8 DEF Proceed, Wait
  <2> HIDE DEF ev
  <2> QED
    BY <1>1, <1>2, <1>8, <2>1, <2>2 DEF Proceed, Wait, SaysNothing
<1>9. CASE Proceed(e) /\ eval[e].apps = <<>>
  <2> DEFINE D == {[t |-> t, firing |-> "live", notified |-> FALSE] :
                     t \in {t \in Task \ eval[e].seen : cand[t] # Absent}}
             ev == [eval[e] EXCEPT !.sweeping = TRUE, !.dead = D, !.at = "run"]
  <2>1. /\ D \in SUBSET Dead /\ Held(D)
        /\ \A d \in D : ~d.notified /\ d.t \notin eval[e].seen
    <3>0. \A t \in Task : LET d == [t |-> t, firing |-> "live", notified |-> FALSE]
                          IN d \in Dead /\ d.firing = "live" /\ ~d.notified /\ d.t = t
      BY DEF Dead
    <3>1. \A d \in D : /\ d \in Dead /\ d.firing = "live" /\ ~d.notified
                      /\ d.t \notin eval[e].seen
                      /\ d = [t |-> d.t, firing |-> "live", notified |-> FALSE]
      <4> TAKE d \in D
      <4>1. PICK t \in Task \ eval[e].seen : d = [t |-> t, firing |-> "live", notified |-> FALSE]
        OBVIOUS
      <4> QED
        BY <3>0, <4>1
    <3> HIDE DEF D
    <3> QED
      BY <3>1 DEF Held
  <2>2. eval' = [eval EXCEPT ![e] = ev]
    BY <1>9 DEF Proceed, Go
  <2> HIDE DEF D
  <2>3. ev \in EvalState /\ Fit(ev) /\ ev.at = "run" /\ ev.dead = D
    BY <1>0, <1>9, <2>1 DEF Proceed, EvalState, Fit
  <2> HIDE DEF ev
  <2>4. TypeOK' /\ eval'[e] = ev /\ \A x \in Eval \ {e} : eval'[x] = eval[x]
    <3>1. /\ cpu' = e /\ cpu = e /\ UNCHANGED <<push, cand, routed, faults, told, repeated, waited>>
      BY <1>9 DEF Proceed, Go, SaysNothing, log
    <3>2. /\ cand' \in [Task -> Candidate(OldAge) \cup {Absent}]
          /\ told' \in [Task -> {"fired", "resolved"}]
          /\ repeated' \in BOOLEAN /\ waited' \in BOOLEAN /\ faults' \in 0 .. MaxFaults
          /\ \A t \in Task : IsFiring(cand'[t]) => cand'[t].since # Never
      BY <3>1 DEF TypeOK
    <3> QED
      BY <2>2, <2>3, <3>1, <3>2, OneMoves
  <2>5. eval[e].dead = {}
    BY <1>0, <1>9 DEF Proceed, Fit
  <2>6. \A t \in Task : Announced(t)' <=> Announced(t)
    BY <2>1, <2>3, <2>4, <2>5 DEF Announced
  <2>7. Quiet'
    BY <1>9, <2>1, <2>3, <2>4, <2>6 DEF Quiet, Agreed, Proceed, SaysNothing, log
  <2> QED
    BY <2>4, <2>7
<1>10. CASE Finish(e)
  <2>1. eval[e].dead = {} /\ IdleEval.dead = {} /\ IdleEval.at = "idle"
    BY <1>10 DEF Finish, IdleEval
  <2> QED
    BY <1>0, <1>1, <1>2, <1>10, <2>1 DEF Finish, Wait, SaysNothing
<1> QED
  BY <1>3, <1>4, <1>5, <1>6, <1>7, <1>8, <1>9, <1>10

\* One listed task is judged.
LEMMA CheckKeeps ==
  ASSUME Inv, NEW e \in Eval, Check(e)
  PROVE  Inv'
<1> USE DEF Inv
<1>0. /\ eval[e] \in EvalState /\ Fit(eval[e]) /\ cpu = e
  BY DEF TypeOK, Fit, Check
<1>1. PICK x \in eval[e].todo :
        LET c == OrFresh(cand[x.t])
            age == eval[e].age
            next == [eval[e] EXCEPT !.todo = @ \ {x}, !.seen = @ \cup {x.t}]
        IN /\ cand' = [cand EXCEPT ![x.t] = Checked(c, x.down, Duration, age)]
           /\ IF Fires(c, x.down, Duration, age) THEN Notify(e, x.t, "fired", next)
              ELSE IF Resolves(c, x.down) THEN Notify(e, x.t, "resolved", next)
              ELSE Go(e, next) /\ SaysNothing
  BY Zenon DEF Check
<1> DEFINE c == OrFresh(cand[x.t])
           age == eval[e].age
           new == Checked(c, x.down, Duration, age)
           next == [eval[e] EXCEPT !.todo = @ \ {x}, !.seen = @ \cup {x.t}]
           fired == Fires(c, x.down, Duration, age)
           resolved == Resolves(c, x.down)
<1>2. x.t \in Task /\ x.down \in BOOLEAN /\ age \in 0 .. MaxAge
  BY <1>0 DEF EvalState
<1>3. c \in Candidate(OldAge) /\ (c.firing <=> IsFiring(cand[x.t]))
  BY <1>2, FreshOrNot DEF TypeOK
<1>4. /\ new \in Candidate(OldAge) /\ (new.firing => new.since # Never)
      /\ fired => new.firing /\ ~c.firing
      /\ ~fired /\ resolved => ~new.firing /\ c.firing
      /\ ~fired /\ ~resolved => new.firing = c.firing
  BY <1>2, <1>3, CheckLeaves
<1>5. cand' = [cand EXCEPT ![x.t] = new]
  BY <1>1
<1>6. \/ fired /\ Notify(e, x.t, "fired", next)
      \/ ~fired /\ resolved /\ Notify(e, x.t, "resolved", next)
      \/ ~fired /\ ~resolved /\ Go(e, next) /\ SaysNothing
  BY <1>1, Zenon
<1>7. eval[e].dead = {} /\ ~eval[e].sweeping
  BY <1>0 DEF Fit
<1>8. /\ next \in EvalState /\ next.dead = {} /\ ~next.sweeping
      /\ \A a \in {"mail", "run"} :
           /\ [next EXCEPT !.at = a] \in EvalState /\ Fit([next EXCEPT !.at = a])
           /\ [next EXCEPT !.at = a].at = a /\ [next EXCEPT !.at = a].dead = {}
  BY <1>0, <1>2, <1>7 DEF EvalState, Fit
<1> HIDE DEF c, age, new, next, fired, resolved
<1>9. IsFiring(new) <=> new.firing
  BY <1>4, AbsentIsNone DEF IsFiring
<1>10. /\ cand' \in [Task -> Candidate(OldAge) \cup {Absent}]
       /\ IsFiring(cand'[x.t]) <=> new.firing
       /\ \A t \in Task \ {x.t} : cand'[t] = cand[t]
       /\ \A t \in Task : IsFiring(cand'[t]) => cand'[t].since # Never
  BY <1>2, <1>4, <1>5, <1>9 DEF TypeOK
<1>11. PICK a \in {"mail", "run"} :
         /\ eval' = [eval EXCEPT ![e] = [next EXCEPT !.at = a]]
         /\ a = "run" => cpu' = e
         /\ a = "mail" => cpu' = Nobody /\ waited'
  BY <1>6 DEF Notify, Go, Wait
<1>12. /\ told' \in [Task -> {"fired", "resolved"}] /\ repeated' \in BOOLEAN /\ waited' \in BOOLEAN
       /\ UNCHANGED <<push, routed, faults>>
  BY <1>2, <1>6 DEF Notify, SaysNothing, log, TypeOK, Check
<1> PICK ev : ev = [next EXCEPT !.at = a]
  OBVIOUS
<1>13. /\ ev \in EvalState /\ Fit(ev) /\ ev.at = a /\ ev.dead = {}
       /\ eval' = [eval EXCEPT ![e] = ev]
  BY <1>8, <1>11
<1>14. TypeOK' /\ eval'[e] = ev /\ \A y \in Eval \ {e} : eval'[y] = eval[y]
  <2>1. cpu \in {e, Nobody} /\ faults' \in 0 .. MaxFaults /\ push' = push /\ routed' = routed
    BY <1>0, <1>12 DEF TypeOK
  <2>2. \/ ev.at = "run" /\ cpu' = e
        \/ ev.at # "run" /\ cpu' = Nobody
    BY <1>11, <1>13
  <2>3. /\ cand' \in [Task -> Candidate(OldAge) \cup {Absent}]
        /\ \A t \in Task : IsFiring(cand'[t]) => cand'[t].since # Never
    BY <1>10
  <2>4. told' \in [Task -> {"fired", "resolved"}] /\ repeated' \in BOOLEAN /\ waited' \in BOOLEAN
    BY <1>12
  <2> QED
    BY <1>13, <2>1, <2>2, <2>3, <2>4, OneMoves
<1>15. Quiet'
  <2> SUFFICES ASSUME ~waited'
               PROVE  /\ ~repeated'
                      /\ \A y \in Eval : eval'[y].at # "mail" /\ Held(eval'[y].dead)
                      /\ \A t \in Task : Agreed(t)'
    BY DEF Quiet
  <2>1. ~waited /\ a = "run"
    BY <1>6, <1>11 DEF Notify, SaysNothing, log, TypeOK
  <2>2. \A y \in Eval : eval[y].dead = {} /\ eval'[y].dead = {} /\ eval'[y].at # "mail"
    BY <1>0, <1>7, <1>13, <1>14, <2>1, Alone DEF Quiet
  <2>3. \A t \in Task : ~Announced(t) /\ ~Announced(t)'
    BY <2>2 DEF Announced
  <2>4. \A t \in Task : told[t] = "fired" <=> IsFiring(cand[t])
    BY <2>1, <2>3 DEF Quiet, Agreed
  <2>5. told[x.t] \in {"fired", "resolved"} /\ ~repeated
    BY <1>2, <2>1 DEF TypeOK, Quiet
  <2>6. ~repeated' /\ (told'[x.t] = "fired" <=> new.firing)
        /\ \A t \in Task \ {x.t} : told'[t] = told[t]
    BY <1>2, <1>3, <1>4, <1>6, <2>4, <2>5 DEF Notify, SaysNothing, log, TypeOK
  <2>7. \A t \in Task : told'[t] = "fired" <=> IsFiring(cand'[t])
    BY <1>10, <2>4, <2>6
  <2> QED
    BY <2>2, <2>3, <2>6, <2>7 DEF Held, Agreed
<1> QED
  BY <1>14, <1>15

\* One candidate is cleaned up.
LEMMA SweepKeeps ==
  ASSUME Inv, NEW e \in Eval, Sweep(e)
  PROVE  Inv'
<1> USE DEF Inv
<1>0. /\ eval[e] \in EvalState /\ Fit(eval[e]) /\ cpu = e /\ eval[e].at = "run"
      /\ UNCHANGED <<push, routed, faults>>
  BY DEF TypeOK, Fit, Sweep
<1> DEFINE D == eval[e].dead
<1>1. PICK d \in D :
        IF StillFiring(d) /\ ~d.notified
        THEN /\ Notify(e, d.t, "resolved",
                       [eval[e] EXCEPT !.dead = (D \ {d}) \cup {[d EXCEPT !.notified = TRUE]}])
             /\ UNCHANGED cand
        ELSE /\ cand' = [cand EXCEPT ![d.t] = Absent]
             /\ eval' = [Detach(eval, d.t) EXCEPT ![e] = [eval[e] EXCEPT !.dead = D \ {d}]]
             /\ SaysNothing /\ UNCHANGED cpu
  BY DEF Sweep
<1>2. d \in Dead /\ d.t \in Task /\ d.t \notin eval[e].seen /\ eval[e].sweeping /\ D \subseteq Dead
  BY <1>0 DEF EvalState, Dead, Fit
<1>3. ~waited =>
        /\ ~repeated /\ Held(D) /\ ~Announced(d.t) = ~d.notified
        /\ told[d.t] = "fired" <=> IsFiring(cand[d.t]) /\ ~d.notified
        /\ StillFiring(d) <=> IsFiring(cand[d.t])
        /\ \A t \in Task : Announced(t) <=> \E c \in D : c.t = t /\ c.notified
  <2> SUFFICES ASSUME ~waited
               PROVE  /\ ~repeated /\ Held(D) /\ ~Announced(d.t) = ~d.notified
                      /\ told[d.t] = "fired" <=> IsFiring(cand[d.t]) /\ ~d.notified
                      /\ StillFiring(d) <=> IsFiring(cand[d.t])
                      /\ \A t \in Task : Announced(t) <=> \E c \in D : c.t = t /\ c.notified
    OBVIOUS
  <2>1. \A x \in Eval \ {e} : eval[x].dead = {}
    BY <1>0, Alone
  <2>2. ~repeated /\ Held(D)
    BY DEF Quiet
  <2>3. \A t \in Task : Announced(t) <=> \E c \in D : c.t = t /\ c.notified
    BY <2>1 DEF Announced
  <2>4. Announced(d.t) <=> d.notified
    BY <1>2, <2>2, <2>3 DEF Held
  <2>5. StillFiring(d) <=> IsFiring(cand[d.t])
    BY <2>2 DEF StillFiring, Held
  <2>6. d.notified \in BOOLEAN
    BY <1>2 DEF Dead
  <2> QED
    BY <1>2, <2>2, <2>3, <2>4, <2>5, <2>6 DEF Quiet, Agreed
<1>4. CASE StillFiring(d) /\ ~d.notified
  <2> DEFINE told1 == [d EXCEPT !.notified = TRUE]
             E == (D \ {d}) \cup {told1}
             next == [eval[e] EXCEPT !.dead = E]
  <2>1. told1 \in Dead /\ told1.t = d.t /\ told1.notified /\ told1.firing = d.firing
    BY <1>2 DEF Dead
  <2>2. Notify(e, d.t, "resolved", next) /\ cand' = cand
    BY <1>1, <1>4
  <2> HIDE DEF told1
  <2>3. E \subseteq Dead /\ \A c \in E : c.t \notin eval[e].seen
    BY <1>0, <1>2, <2>1 DEF Fit
  <2> HIDE DEF E
  <2>4. \A a \in {"mail", "run"} :
           /\ [next EXCEPT !.at = a] \in EvalState /\ Fit([next EXCEPT !.at = a])
           /\ [next EXCEPT !.at = a].at = a /\ [next EXCEPT !.at = a].dead = E
    BY <1>0, <1>2, <2>3 DEF EvalState, Fit
  <2> HIDE DEF next
  <2>5. PICK a \in {"mail", "run"} :
          /\ eval' = [eval EXCEPT ![e] = [next EXCEPT !.at = a]]
          /\ a = "run" => cpu' = e
          /\ a = "mail" => cpu' = Nobody /\ waited'
    BY <2>2 DEF Notify, Go, Wait
  <2> PICK ev : ev = [next EXCEPT !.at = a]
    OBVIOUS
  <2>6. /\ ev \in EvalState /\ Fit(ev) /\ ev.at = a /\ ev.dead = E
        /\ eval' = [eval EXCEPT ![e] = ev]
    BY <2>4, <2>5
  <2>7. TypeOK' /\ eval'[e] = ev /\ \A y \in Eval \ {e} : eval'[y] = eval[y]
    <3>1. /\ told' \in [Task -> {"fired", "resolved"}] /\ repeated' \in BOOLEAN /\ waited' \in BOOLEAN
          /\ cand' \in [Task -> Candidate(OldAge) \cup {Absent}] /\ faults' \in 0 .. MaxFaults
          /\ \A t \in Task : IsFiring(cand'[t]) => cand'[t].since # Never
      BY <1>0, <1>2, <2>2 DEF Notify, TypeOK
    <3>2. cpu \in {e, Nobody} /\ push' = push /\ routed' = routed
      BY <1>0
    <3> QED
      BY <2>5, <2>6, <3>1, <3>2, OneMoves
  <2>8. Quiet'
    <3> SUFFICES ASSUME ~waited'
                 PROVE  /\ ~repeated'
                        /\ \A y \in Eval : eval'[y].at # "mail" /\ Held(eval'[y].dead)
                        /\ \A t \in Task : Agreed(t)'
      BY DEF Quiet
    <3>1. ~waited /\ a = "run"
      BY <2>2, <2>5 DEF Notify, TypeOK
    <3>2. eval'[e].dead = E /\ \A y \in Eval \ {e} : eval'[y].dead = {} /\ eval[y].dead = {}
      BY <1>0, <2>7, <2>6, <3>1, Alone
    <3>3. Held(E)
      BY <1>3, <2>1, <3>1 DEF Held, E
    <3>4. \A y \in Eval : eval'[y].at # "mail" /\ Held(eval'[y].dead)
      BY <2>7, <2>6, <3>1, <3>2, <3>3 DEF Held, Quiet
    <3>5. told[d.t] = "fired" /\ ~repeated
      BY <1>3, <1>4, <3>1
    <3>6. ~repeated' /\ told'[d.t] = "resolved" /\ \A t \in Task \ {d.t} : told'[t] = told[t]
      BY <1>2, <2>2, <3>5 DEF Notify, TypeOK
    <3>7. \A t \in Task : Announced(t)' <=> t = d.t \/ Announced(t)
      <4>1. \A t : (\E c \in E : c.t = t /\ c.notified)
                     <=> t = d.t \/ \E c \in D : c.t = t /\ c.notified
        BY <1>4, <2>1 DEF E
      <4>2. \A t \in Task : Announced(t)' <=> \E c \in E : c.t = t /\ c.notified
        BY <3>2 DEF Announced
      <4> QED
        BY <1>3, <3>1, <4>1, <4>2
    <3>8. \A t \in Task : Agreed(t)'
      BY <2>2, <3>1, <3>6, <3>7 DEF Quiet, Agreed
    <3> QED
      BY <3>4, <3>6, <3>8
  <2> QED
    BY <2>7, <2>8
<1>5. CASE ~(StillFiring(d) /\ ~d.notified)
  <2>1. /\ cand' = [cand EXCEPT ![d.t] = Absent]
        /\ eval' = [Detach(eval, d.t) EXCEPT ![e] = [eval[e] EXCEPT !.dead = D \ {d}]]
        /\ UNCHANGED <<told, repeated, waited, cpu>>
    BY <1>1, <1>5 DEF SaysNothing, log
  <2> DEFINE F(x) == {IF c.t = d.t /\ c.firing = "live"
                      THEN [c EXCEPT !.firing = IF IsFiring(cand[d.t]) THEN "yes" ELSE "no"]
                      ELSE c : c \in eval[x].dead}
  <2>2. ASSUME NEW x \in Eval
        PROVE  /\ eval[x] \in EvalState /\ Fit(eval[x])
               /\ F(x) \subseteq Dead /\ \A c \in F(x) : \E b \in eval[x].dead : c.t = b.t
    <3>1. eval[x] \in EvalState /\ Fit(eval[x])
      BY DEF TypeOK, Fit
    <3>2. \A c \in eval[x].dead : \A f \in {"yes", "no"} :
            [c EXCEPT !.firing = f] \in Dead /\ [c EXCEPT !.firing = f].t = c.t /\ c \in Dead
      BY <3>1 DEF EvalState, Dead
    <3> QED
      BY <3>1, <3>2
  <2> DEFINE S(x) == IF x = e THEN D \ {d} ELSE F(x)
             G(x) == [eval[x] EXCEPT !.dead = S(x)]
  <2>3. eval' = [x \in Eval |-> G(x)]
    BY <2>1 DEF Detach
  <2>4. ASSUME NEW x \in Eval
        PROVE  /\ eval'[x] \in EvalState /\ Fit(eval'[x]) /\ eval'[x].at = eval[x].at
               /\ eval'[x].dead = S(x)
    <3>1. PICK X : X = S(x)
      OBVIOUS
    <3>2. X \in SUBSET Dead /\ \A c \in X : \E b \in eval[x].dead : c.t = b.t
      BY <1>2, <2>2, <3>1
    <3>3. eval'[x] = [eval[x] EXCEPT !.dead = X]
      BY <2>3, <3>1
    <3> HIDE DEF S
    <3> QED
      BY <2>2, <3>1, <3>2, <3>3 DEF EvalState, Fit
  <2>5. /\ cand' \in [Task -> Candidate(OldAge) \cup {Absent}]
        /\ ~IsFiring(cand'[d.t]) /\ \A t \in Task \ {d.t} : cand'[t] = cand[t]
        /\ \A t \in Task : IsFiring(cand'[t]) => cand'[t].since # Never
    BY <1>2, <2>1 DEF TypeOK, IsFiring
  <2>6. TypeOK'
    <3>1. eval' \in [Eval -> EvalState]
      <4>1. \A x \in Eval : G(x) = eval'[x]
        BY <2>3
      <4> HIDE DEF G
      <4> QED
        BY <2>3, <2>4, <4>1
    <3>2. \A x \in Eval : (eval'[x].at = "run" <=> cpu' = x) /\ Fit(eval'[x])
      BY <2>1, <2>4 DEF TypeOK
    <3> QED
      BY <1>0, <2>1, <2>5, <3>1, <3>2 DEF TypeOK, Fit
  <2>7. Quiet'
    <3> SUFFICES ASSUME ~waited'
                 PROVE  /\ ~repeated'
                        /\ \A y \in Eval : eval'[y].at # "mail" /\ Held(eval'[y].dead)
                        /\ \A t \in Task : Agreed(t)'
      BY DEF Quiet
    <3>1. ~waited
      BY <2>1
    <3>2. eval'[e].dead = D \ {d} /\ \A y \in Eval \ {e} : eval'[y].dead = {} /\ eval[y].dead = {}
      <4>1. \A y \in Eval \ {e} : eval[y].dead = {} /\ F(y) = {}
        BY <1>0, <3>1, Alone DEF F
      <4> QED
        BY <2>4, <4>1
    <3>3. Held(D \ {d}) /\ Held({})
      BY <1>3, <3>1 DEF Held
    <3>4. \A y \in Eval : eval'[y].at # "mail" /\ Held(eval'[y].dead)
      BY <2>4, <3>1, <3>2, <3>3 DEF Quiet
    <3>5. told[d.t] # "fired"
      BY <1>3, <1>5, <3>1
    <3>6. \A t \in Task \ {d.t} : Announced(t)' <=> Announced(t)
      <4>1. \A t \in Task : Announced(t)' <=> \E c \in D \ {d} : c.t = t /\ c.notified
        BY <3>2 DEF Announced
      <4> QED
        BY <1>3, <3>1, <4>1
    <3>7. \A t \in Task : Agreed(t)'
      BY <2>1, <2>5, <3>1, <3>5, <3>6 DEF Quiet, Agreed
    <3> QED
      BY <2>1, <3>1, <3>4, <3>7 DEF Quiet
  <2> QED
    BY <2>6, <2>7
<1> QED
  BY <1>4, <1>5

\* The timer, and what OME and operators do.
LEMMA TimerKeeps ==
  ASSUME Inv, NEW e \in Eval, TimerFires(e)
  PROVE  Inv'
<1> USE DEF Inv
<1>0. /\ cpu = Nobody /\ eval[e].at = "idle" /\ \A x \in Eval : eval[x].age < MaxAge
      /\ UNCHANGED <<push, routed, cpu, told, repeated, waited, faults>>
      /\ \A x \in Eval : eval[x] \in EvalState /\ Fit(eval[x])
  BY DEF TimerFires, TypeOK, Fit, log
<1>1. ASSUME NEW x \in Eval
      PROVE  /\ eval'[x] \in EvalState /\ Fit(eval'[x]) /\ eval'[x].dead = eval[x].dead
             /\ eval'[x].at # "run" /\ (eval[x].at # "mail" => eval'[x].at # "mail")
  <2>0. eval[x].at # "run"
    BY <1>0, PushAssumption DEF TypeOK
  <2>1. CASE x = e
    <3>1. eval'[x] = [IdleEval EXCEPT !.at = "apps"]
      BY <2>1 DEF TimerFires
    <3>2. eval[x].dead = {}
      BY <1>0, <2>1 DEF Fit
    <3>3. IdleEval \in EvalState /\ IdleEval.dead = {} /\ ~IdleEval.sweeping
      BY PushAssumption DEF IdleEval, EvalState
    <3> QED
      BY <3>1, <3>2, <3>3 DEF EvalState, Fit
  <2>2. CASE x # e /\ eval[x].at = "idle"
    BY <1>0, <2>0, <2>2 DEF TimerFires
  <2>3. CASE x # e /\ eval[x].at # "idle"
    <3>1. eval'[x] = [eval[x] EXCEPT !.age = eval[x].age + 1]
      BY <2>3 DEF TimerFires
    <3>2. eval[x].age + 1 \in 0 .. MaxAge
      BY <1>0, PushAssumption DEF EvalState
    <3> QED
      BY <1>0, <2>0, <3>1, <3>2 DEF EvalState, Fit
  <2> QED
    BY <2>1, <2>2, <2>3
<1>2. /\ cand' \in [Task -> Candidate(OldAge) \cup {Absent}]
      /\ \A t \in Task : IsFiring(cand'[t]) <=> IsFiring(cand[t])
      /\ \A t \in Task : IsFiring(cand'[t]) => cand'[t].since # Never
  <2>1. \A t \in Task : cand'[t] = Aged(cand[t], OldAge)
    BY DEF TimerFires
  <2>2. cand' = [t \in Task |-> Aged(cand[t], OldAge)]
    BY DEF TimerFires
  <2> QED
    BY <2>1, <2>2, TickKeeps DEF TypeOK
<1>3. TypeOK'
  <2>1. eval' \in [Eval -> EvalState]
    BY <1>1 DEF TimerFires
  <2>2. \A x \in Eval : eval'[x].at = "run" <=> cpu' = x
    BY <1>0, <1>1, PushAssumption
  <2> QED
    BY <1>0, <1>1, <1>2, <2>1, <2>2 DEF TypeOK, Fit
<1>4. Quiet'
  <2>1. \A x \in Eval : eval'[x].dead = eval[x].dead /\ (~waited => eval'[x].at # "mail")
    BY <1>1 DEF Quiet
  <2> QED
    BY <1>0, <1>2, <2>1, SaysTheSame DEF log
<1> QED
  BY <1>3, <1>4

LEMMA OthersKeep ==
  ASSUME Inv, RouteChanges \/ Ome \/ UNCHANGED vars
  PROVE  Inv'
<1>1. UNCHANGED <<cand, eval, cpu, log, faults>> /\ routed' \in BOOLEAN
  BY DEF RouteChanges, Ome, vars, Inv, TypeOK
<1>2. push' \in [Task -> PushState]
  BY DEF RouteChanges, Ome, vars, Inv, TypeOK
<1>3. TypeOK'
  BY <1>1, <1>2 DEF Inv, TypeOK, log
<1>4. Quiet'
  BY <1>1, SaysTheSame DEF Inv, Quiet
<1> QED
  BY <1>3, <1>4 DEF Inv

-----------------------------------------------------------------------------
LEMMA InitInv == Init => Inv
<1> SUFFICES ASSUME Init PROVE Inv
  OBVIOUS
<1>1. IdleEval \in EvalState /\ Fit(IdleEval) /\ IdleEval.dead = {} /\ IdleEval.at = "idle"
  BY PushAssumption DEF IdleEval, EvalState, Fit
<1>2. TypeOK
  <2>1. /\ push \in [Task -> PushState] /\ cand \in [Task -> Candidate(OldAge) \cup {Absent}]
        /\ told \in [Task -> {"fired", "resolved"}]
    BY DEF Init, PushState
  <2>2. repeated \in BOOLEAN /\ waited \in BOOLEAN /\ routed \in BOOLEAN
    BY PushAssumption, Zenon DEF Init
  <2>3. /\ faults \in 0 .. MaxFaults /\ cpu \in Eval \cup {Nobody}
    BY PushAssumption DEF Init
  <2>4. /\ eval \in [Eval -> EvalState]
        /\ \A e \in Eval : (eval[e].at = "run" <=> cpu = e) /\ Fit(eval[e])
    BY <1>1, PushAssumption DEF Init
  <2>5. \A t \in Task : ~IsFiring(cand[t])
    BY DEF Init, IsFiring
  <2> QED
    BY <2>1, <2>3, <2>4, <2>5, <2>2 DEF TypeOK, Fit
<1>3. Quiet
  BY <1>1 DEF Init, Quiet, Held, Agreed, Announced, IsFiring
<1> QED
  BY <1>2, <1>3 DEF Inv

LEMMA StepInv == Inv /\ [Next]_vars => Inv'
<1> SUFFICES ASSUME Inv, [Next]_vars PROVE Inv'
  OBVIOUS
<1>1. CASE \E e \in Eval : TimerFires(e) \/ AppsFailed(e) \/ PushesFailed(e) \/ EvalStep(e)
  BY <1>1, TimerKeeps, WalkKeeps, CheckKeeps, SweepKeeps DEF EvalStep
<1>2. CASE RouteChanges \/ Ome \/ UNCHANGED vars
  BY <1>2, OthersKeep
<1> QED
  BY <1>1, <1>2 DEF Next

\* Every state has the types of TypeOK: among them, the evaluation that runs is
\* the one the thread executes, and it cleans up only after its last list.
THEOREM TypesHold == Spec => []TypeOK
<1>1. Inv => TypeOK
  BY DEF Inv
<1> QED
  BY <1>1, InitInv, StepInv, PTL DEF Spec

\* As long as no evaluation has waited for a mail, every fire and every end of a
\* push-down alert is told once, and outside a clean-up the log says what the
\* candidates say.
THEOREM ToldOnceAndTruly == Spec => []ToldMatches
<1>1. Inv => ToldMatches
  BY DEF Inv, TypeOK, Quiet, Agreed, Announced, ToldMatches
<1> QED
  BY <1>1, InitInv, StepInv, PTL DEF Spec
=============================================================================
