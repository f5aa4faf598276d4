---------------------------- MODULE DesiredTasks ----------------------------
(***************************************************************************)
(* What the console promises about the push and record tasks it starts:    *)
(* the abstract specification that Reconciler implements.                  *)
(*                                                                         *)
(* A job <<t, c>> is a task id with its configuration.  It becomes desired *)
(* only once OME has accepted an operator's start of it; a task stops      *)
(* being desired only once OME has carried out an operator's stop; the     *)
(* console restarts a job only if it was desired at an earlier moment.  A  *)
(* restart may come late: "healing" keeps the jobs that some pass has      *)
(* undertaken to restart although an operator may stop them meanwhile.     *)
(***************************************************************************)
CONSTANTS Task, Config

VARIABLES
  desired,     \* jobs with an enabled row in the console's database
  running,     \* jobs in OME's task table
  accepted,    \* starts OME has accepted and the console has yet to record
  dismissed,   \* tasks OME has stopped and the console has yet to forget
  healing      \* jobs that a reconcile pass may still restart

vars == <<desired, running, accepted, dismissed, healing>>

Busy(t) == \E c \in Config : <<t, c>> \in running

\* The jobs of set J that are not of task t.
Without(J, t) == {j \in J : j[1] # t}

Init ==
  /\ desired = {} /\ running = {}
  /\ accepted = {} /\ dismissed = {} /\ healing = {}

\* OME accepts an operator's start; the console may never hear the answer.
Start(t, c) ==
  /\ ~Busy(t)
  /\ running' = running \cup {<<t, c>>}
  /\ accepted' \in {accepted, accepted \cup {<<t, c>>}}
  /\ UNCHANGED <<desired, dismissed, healing>>

\* OME carries out an operator's stop; the console may never hear the answer.
Stop(t) ==
  /\ Busy(t)
  /\ running' = Without(running, t)
  /\ dismissed' \in {dismissed, dismissed \cup {t}}
  /\ UNCHANGED <<desired, accepted, healing>>

\* The console writes the start it has seen accepted into its database.
Record(t, c) ==
  /\ <<t, c>> \in accepted
  /\ desired' = desired \cup {<<t, c>>}
  /\ accepted' \in {accepted, accepted \ {<<t, c>>}}
  /\ UNCHANGED <<running, dismissed, healing>>

Forget(t) ==
  /\ t \in dismissed
  /\ desired' = Without(desired, t)
  /\ dismissed' \in {dismissed, dismissed \ {t}}
  /\ UNCHANGED <<running, accepted, healing>>

\* A pass undertakes to restart desired jobs, or gives some of them up.
Consult ==
  /\ healing' \in SUBSET (healing \cup desired)
  /\ UNCHANGED <<desired, running, accepted, dismissed>>

Heal(t, c) ==
  /\ <<t, c>> \in healing /\ ~Busy(t)
  /\ running' = running \cup {<<t, c>>}
  /\ healing' \in SUBSET healing
  /\ UNCHANGED <<desired, accepted, dismissed>>

OmeLosesTasks ==
  /\ running' = {}
  /\ UNCHANGED <<desired, accepted, dismissed, healing>>

\* The console forgets everything but its database.
ConsoleCrash ==
  /\ accepted' = {} /\ dismissed' = {} /\ healing' = {}
  /\ UNCHANGED <<desired, running>>

Next ==
  \/ \E t \in Task :
       \/ Stop(t) \/ Forget(t)
       \/ \E c \in Config : Start(t, c) \/ Record(t, c) \/ Heal(t, c)
  \/ Consult \/ OmeLosesTasks \/ ConsoleCrash

Spec == Init /\ [][Next]_vars

=============================================================================
