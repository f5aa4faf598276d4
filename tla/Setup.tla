------------------------------- MODULE Setup -------------------------------
(***************************************************************************)
(* The setup wizard, the environment file it fills, and the settings of    *)
(* the mail server.                                                        *)
(*                                                                         *)
(* One setting lives in up to four places: .env (file), the environment    *)
(* that "docker compose up -d" gave the container (container), process.env *)
(* of the running console (env) and the cached transporter.  The wizard    *)
(* writes the file alone; whether setup is needed is read from process.env.*)
(* The flag of the last step takes another way than the rest: Compose does *)
(* not pass it, and a process that starts looks it up in the mounted file. *)
(*                                                                         *)
(* The wizard runs in browser tabs.  A tab asks for the status when it is  *)
(* loaded and jumps when the answer comes, whatever it is doing by then;   *)
(* the answer to a step moves the tab on from where it is by then.         *)
(*                                                                         *)
(* The four keys of the step "ome" and the four secrets are written and    *)
(* read together and are one field each.  A token is random, so that it    *)
(* was written is all that counts; secrets are a value, to see them change.*)
(* Once setup is over every other handler needs a session: here they only  *)
(* matter through the mail settings.                                       *)
(***************************************************************************)
EXTENDS Naturals

CONSTANTS
  Tab,       \* browser tabs with /setup open
  Name,      \* usernames
  Secret,    \* what randomBytes may return
  Host,      \* SMTP_HOST with SMTP_PORT, SMTP_USER and SMTP_FROM
  Pass,      \* SMTP_PASSWORD
  Admin,     \* CONSOLE_ADMIN_USER, where a deployment sets it
  None       \* blank

ASSUME SetupAssumption == Admin \in Name /\ None \notin Secret \cup Host \cup Pass \cup Tab

VARIABLES
  file,         \* .env
  container,    \* what the container was created with; never the flag
  env,          \* process.env
  transporter,  \* __consoleSmtpTransporter
  users,        \* the names in the users table
  hashing,      \* account steps that await bcrypt
  tab           \* the pages

vars == <<file, container, env, transporter, users, hashing, tab>>
server == <<file, container, env, transporter, users, hashing>>

-----------------------------------------------------------------------------
\* The order of the steps; 0 is a tab that is closed, or no step.
STEP_ORDER == [account |-> 1, ome |-> 2, secrets |-> 3, smtp |-> 4, finish |-> 5]
Step == 1 .. 5

Env == [admin : BOOLEAN, ome : BOOLEAN, secrets : Secret \cup {None}, complete : BOOLEAN,
        host : Host \cup {None}, pass : Pass \cup {None}]

\* step: the form on display.  status: where the status under way will jump to.
\* asked: the step posted last, whose answer is awaited or has arrived.
Page == [step : Step \cup {0}, status : Step \cup {0}, asked : Step \cup {0},
         answer : {"none", "ok", "error"}, saved : BOOLEAN, ready : BOOLEAN]

Shown(s, i) == [step |-> s, status |-> i, asked |-> 0, answer |-> "none",
                saved |-> FALSE, ready |-> FALSE]
Closed == Shown(0, 0)
\* /setup after a reload: the first form, until the status arrives.
Loaded(i) == Shown(1, i)

isSetupNeeded == ~env.complete /\ ~env.admin

\* Mutant: neither the proxy nor the handler looks.
AdmittedAlways == TRUE

\* The check of the proxy, repeated by the handler.
Admitted == isSetupNeeded

\* What the page makes of the status.
Resume == IF file.secrets # None THEN STEP_ORDER.smtp
          ELSE IF file.ome THEN STEP_ORDER.secrets
          ELSE IF users # {} THEN STEP_ORDER.ome
          ELSE 0

\* The settings of POST /api/smtp: a blank password leaves the old one alone.
MailSettings(e, h, p) == [e EXCEPT !.host = h, !.pass = IF p = None THEN @ ELSE p]

-----------------------------------------------------------------------------
(* The console and its container.                                          *)

\* What docker-compose.yml passes to the container: every setting, blank ones
\* too, but no CONSOLE_SETUP_COMPLETE.
Given(f) == [f EXCEPT !.complete = FALSE]

\* A process has what its container has.  Next adds from the mounted .env what
\* is undefined there, so that is the flag; a setting that was passed blank is
\* defined, and stays blank.
Started(given) == [given EXCEPT !.complete = file.complete]

\* Either .env was filled by hand and names the first user, who is seeded, or
\* it is blank.
Init ==
  /\ \E admin \in BOOLEAN :
       /\ \E s \in IF admin THEN Secret ELSE {None} :
            file = [admin |-> admin, ome |-> admin, secrets |-> s, complete |-> FALSE,
                    host |-> None, pass |-> None]
       /\ users = IF admin THEN {Admin} ELSE {}
  /\ container = Given(file)
  /\ env = Started(container)
  /\ transporter = None
  /\ hashing = {}
  /\ tab = [t \in Tab |-> Closed]

\* Connections break: a request ends with an error, a status is not seen.
Broken(pg) ==
  [pg EXCEPT !.status = 0, !.answer = IF pg.asked = 0 \/ @ = "ok" THEN @ ELSE "error"]

\* A process starts: requests and changes of process.env are lost.
Boot(given) ==
  /\ env' = Started(given)
  /\ transporter' = None
  /\ hashing' = {}
  /\ tab' = [t \in Tab |-> Broken(tab[t])]
  /\ UNCHANGED <<file, users>>

\* The process ends and Docker starts it again in the same container.  If the
\* wizard was finished meanwhile, setup is over, with the settings of before.
Restart == Boot(container) /\ UNCHANGED container

\* The operator runs "docker compose up -d": the container is made anew from .env.
ComposeUp == Boot(Given(file)) /\ container' = Given(file)

-----------------------------------------------------------------------------
(* The page.                                                               *)

\* The proxy shows /setup only while setup is needed.  An account step of the
\* page before the reload goes on at the server.
Load(t) ==
  /\ isSetupNeeded
  /\ tab' = [tab EXCEPT ![t] = Loaded(Resume)]
  /\ hashing' = {[h EXCEPT !.tab = IF @ = t THEN None ELSE @] : h \in hashing}
  /\ UNCHANGED <<file, container, env, transporter, users>>

StatusArrives(t) ==
  /\ tab[t].status # 0
  /\ tab' = [tab EXCEPT ![t].step = tab[t].status, ![t].status = 0]
  /\ UNCHANGED server

\* setBusy(false): the answer was dealt with.
Settled(pg) == [pg EXCEPT !.asked = 0, !.answer = "none"]

following(i) == IF i < STEP_ORDER.finish THEN i + 1 ELSE i


\* handleFinish keeps that it was saved, every other handler calls next(),
\* which counts from the form on display.
Answered(t) ==
  /\ tab[t].answer = "ok"
  /\ tab' = [tab EXCEPT ![t] =
       IF tab[t].asked = STEP_ORDER.finish THEN [Settled(tab[t]) EXCEPT !.saved = TRUE]
       ELSE [Settled(tab[t]) EXCEPT !.step = following(tab[t].step)]]
  /\ UNCHANGED server

\* An error, or an answer that is lost on its way: the form stays.
Failed(t) ==
  /\ tab[t].asked # 0
  /\ tab' = [tab EXCEPT ![t] = Settled(@)]
  /\ hashing' = {[h EXCEPT !.tab = IF @ = t THEN None ELSE @] : h \in hashing}
  /\ UNCHANGED <<file, container, env, transporter, users>>

\* Mutant: any answer counts.
checkReadyByAnswer(t) ==
  /\ tab[t].step = STEP_ORDER.finish /\ tab[t].saved /\ ~tab[t].ready
  /\ \E reached \in BOOLEAN : tab' = [tab EXCEPT ![t].ready = reached]
  /\ UNCHANGED server

\* The button of the last form, once the last step was saved.
checkReady(t) ==
  /\ tab[t].step = STEP_ORDER.finish /\ tab[t].saved /\ ~tab[t].ready
  /\ \E reached \in BOOLEAN : tab' = [tab EXCEPT ![t].ready = reached /\ ~isSetupNeeded]
  /\ UNCHANGED server

-----------------------------------------------------------------------------
(* POST /api/setup.                                                        *)

\* The form of step i is on display and its button is enabled.
Clickable(t, i) ==
  tab[t].step = i /\ tab[t].asked = 0 /\ (i = STEP_ORDER.finish => ~tab[t].saved)

Post(t, i, answer) ==
  /\ Clickable(t, i)
  /\ tab' = [tab EXCEPT ![t].asked = i, ![t].answer = answer]

Refused(t, i) == ~Admitted /\ Post(t, i, "error") /\ UNCHANGED server

\* Steps that write the file and answer at once.
Write(t, i, new) ==
  /\ Admitted
  /\ Post(t, i, "ok")
  /\ file' = new
  /\ UNCHANGED <<container, env, transporter, users, hashing>>

\* Mutant: the answer does not wait for bcrypt.
PostAccountHasty(t, n) ==
  /\ Admitted
  /\ Post(t, STEP_ORDER.account, "ok")
  /\ hashing' = IF users # {} THEN hashing ELSE hashing \cup {[tab |-> None, name |-> n]}
  /\ UNCHANGED <<file, container, env, transporter, users>>

\* The account step looks for users before bcrypt and inserts after it.
PostAccount(t, n) ==
  /\ Admitted
  /\ IF users # {}
     THEN Post(t, STEP_ORDER.account, "ok") /\ UNCHANGED hashing
     ELSE /\ Post(t, STEP_ORDER.account, "none")
          /\ hashing' = hashing \cup {[tab |-> t, name |-> n]}
  /\ UNCHANGED <<file, container, env, transporter, users>>

\* createUser throws on a name that is taken.
AccountHashed(h) ==
  /\ hashing' = hashing \ {h}
  /\ users' = users \cup {h.name}
  /\ tab' = IF h.tab = None THEN tab
            ELSE [tab EXCEPT ![h.tab].answer = IF h.name \in users THEN "error" ELSE "ok"]
  /\ UNCHANGED <<file, container, env, transporter>>

PostOme(t) == Write(t, STEP_ORDER.ome, [file EXCEPT !.ome = TRUE])
PostSecrets(t) ==
  \E s \in Secret : Write(t, STEP_ORDER.secrets, [file EXCEPT !.secrets = s])
PostFinish(t) == Write(t, STEP_ORDER.finish, [file EXCEPT !.complete = TRUE])

PostSmtp(t) ==
  \/ Write(t, STEP_ORDER.smtp, file)                     \* skipped
  \/ \E h \in Host, p \in Pass \cup {None} :
       Write(t, STEP_ORDER.smtp, [file EXCEPT !.host = h, !.pass = p])

-----------------------------------------------------------------------------
(* The settings page and the notifier.                                     *)

\* Mutant: the cached transporter is kept.
SaveSmtpCached(h, p) ==
  /\ ~isSetupNeeded /\ env.secrets # None /\ users # {}
  /\ file' = MailSettings(file, h, p)
  /\ env' = MailSettings(env, h, p)
  /\ UNCHANGED <<container, transporter, users, hashing, tab>>

\* POST /api/smtp, by an engineer whose session can be verified.
SaveSmtp(h, p) ==
  /\ ~isSetupNeeded /\ env.secrets # None /\ users # {}
  /\ file' = MailSettings(file, h, p)
  /\ env' = MailSettings(env, h, p)
  /\ transporter' = None
  /\ UNCHANGED <<container, users, hashing, tab>>

\* The first mail builds the transporter, which needs a host and a password.
sendEmail ==
  /\ transporter = None
  /\ env.host # None /\ env.pass # None
  /\ transporter' = [host |-> env.host, pass |-> env.pass]
  /\ UNCHANGED <<file, container, env, users, hashing, tab>>

-----------------------------------------------------------------------------
PageStep(t) == Load(t) \/ StatusArrives(t) \/ Answered(t) \/ Failed(t) \/ checkReady(t)
PostStep(t) ==
  \/ \E n \in Name : PostAccount(t, n)
  \/ PostOme(t) \/ PostSecrets(t) \/ PostSmtp(t) \/ PostFinish(t)
  \/ \E i \in Step : Refused(t, i)

Next ==
  \/ Restart \/ ComposeUp
  \/ \E t \in Tab : PageStep(t) \/ PostStep(t)
  \/ \E h \in hashing : AccountHashed(h)
  \/ \E h \in Host, p \in Pass \cup {None} : SaveSmtp(h, p)
  \/ sendEmail

Spec == Init /\ [][Next]_vars

-----------------------------------------------------------------------------
(* Properties.                                                             *)

\* Values have their types, and an account step under way belongs to a tab
\* that still waits for it, or to none.
TypeOK ==
  /\ {file, container, env} \subseteq Env
  /\ transporter = None \/ transporter \in [host : Host, pass : Pass]
  /\ users \subseteq Name
  /\ hashing \subseteq [tab : Tab \cup {None}, name : Name]
  /\ tab \in [Tab -> Page]
  /\ \A h \in hashing :
       h.tab # None => tab[h.tab].asked = STEP_ORDER.account /\ tab[h.tab].answer = "none"

\* A page that tells the operator that the console is ready tells the truth:
\* the process that runs, and every one after it, has left setup, and there is
\* an account; whether it has the secrets and OME's token is another question
\* (NotHalfConfigured).  (setup/page.tsx: checkReady)
ReadyIsOver == \A t \in Tab : tab[t].ready => env.complete /\ users # {}

\* Nobody is locked out by a wizard that was finished without an account: the
\* file says that setup is complete only when there is one, although the last
\* step checks nothing.  (api/setup/route.ts: the step "finish")
FinishedHasAccount == file.complete => users # {}

\* The wizard locks itself out for good: once setup is over no restart brings it
\* back, and no page that was left open changes the secrets or the accounts.
\* (proxy.ts: "lock the wizard out for good")
WizardStaysOff ==
  [][~isSetupNeeded =>
       /\ ~isSetupNeeded'
       /\ file'.secrets = file.secrets /\ file'.ome = file.ome /\ users' = users]_vars

\* The next mail goes out with the settings that the process has: a cached
\* transporter is never older than they are.  (lib/notifier.ts)
TransporterIsCurrent ==
  transporter # None => transporter = [host |-> env.host, pass |-> env.pass]

\* proxy.ts: "so a half-configured instance (no session secret, no OME
\* connection) can't be stumbled into".  In the code a process that starts in
\* the container of before finds the flag without the settings.
NotHalfConfigured == env.complete => env.secrets # None /\ env.ome

\* The same of the file, which no restart explains: a late status and a late
\* answer move a page two steps, past one that nobody did.
NoStepIsSkipped == file.complete => file.secrets # None /\ file.ome

\* api/setup/route.ts: "Wizard was already used to create the first account -
\* not an error, just nothing to do".  Two steps in bcrypt make two accounts.
OneFirstAccount == \A m, n \in users : m = n

\* api/smtp/route.ts: "Apply immediately, not just on next restart".  After a
\* restart in the same container a blank password keeps one that is on file
\* and that the process does not have.
SavedIsApplied ==
  [][(\E h \in Host, p \in Pass \cup {None} : SaveSmtp(h, p)) =>
       env'.host = file'.host /\ env'.pass = file'.pass]_vars
=============================================================================
