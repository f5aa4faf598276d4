---------------------------- MODULE SetupProofs ----------------------------
(***************************************************************************)
(* What holds of the setup wizard for any number of tabs, names and        *)
(* settings.                                                               *)
(*                                                                         *)
(* The last step checks nothing, so that an account exists has to be       *)
(* carried through the pages: a tab that is past the first form, is about  *)
(* to jump past it or has an answer, has seen an account, and so has a     *)
(* file with a token, with secrets or with the final flag (Passed).  That  *)
(* setup stays over needs the order of the two copies of the flag: what    *)
(* the process has, the file has, and the container never has it, while    *)
(* the admin is the same in all three (Ordered).                           *)
(***************************************************************************)
EXTENDS Setup, TLAPS

Passed ==
  /\ file.ome \/ file.secrets # None \/ file.complete => users # {}
  /\ \A t \in Tab :
       /\ tab[t].step > 1 \/ tab[t].status > 1 \/ tab[t].answer = "ok" => users # {}
       /\ \/ tab[t].step # 0 \/ tab[t].status # 0 \/ tab[t].saved
          \/ tab[t].asked # 0 \/ tab[t].answer = "ok"
          => ~file.admin

\* What has to hold of a page pg of a tab that is written now.
Sound(pg) ==
  /\ pg.step > 1 \/ pg.status > 1 \/ pg.answer = "ok" => users # {}
  /\ pg.step # 0 \/ pg.status # 0 \/ pg.asked # 0 \/ pg.answer = "ok" \/ pg.saved => ~file.admin
  /\ pg.ready => env.complete /\ users # {}

\* A page waits for one account step at a time.
OnePerTab(steps) == \A g, h \in steps : g.tab = h.tab /\ g.tab # None => g = h

Ordered ==
  /\ ~container.complete
  /\ env.complete => file.complete
  /\ file.admin = container.admin /\ container.admin = env.admin
  /\ file.admin => users # {}
  /\ hashing # {} => isSetupNeeded
  /\ OnePerTab(hashing)

Inv ==
  /\ TypeOK /\ Passed /\ Ordered
  /\ ReadyIsOver /\ TransporterIsCurrent

-----------------------------------------------------------------------------
(* Facts about what several actions share.                                 *)

\* A page that settles, breaks or is loaded is a page.
LEMMA Pages ==
  ASSUME NEW pg \in Page
  PROVE  /\ Settled(pg) \in Page /\ Broken(pg) \in Page
         /\ \A i \in Step \cup {0} : Loaded(i) \in Page
  <1>1. Settled(pg) \in Page
    BY DEF Page, Settled, Step
  <1>2. Broken(pg) \in Page
    BY DEF Page, Broken, Step
  <1>3. ASSUME NEW i \in Step \cup {0}
        PROVE  Loaded(i) \in Page
    BY <1>3 DEF Page, Loaded, Shown, Step
  <1> QED BY <1>1, <1>2, <1>3

\* What a broken connection leaves of a page.
LEMMA BrokenKeeps ==
  ASSUME NEW pg \in Page
  PROVE  /\ Broken(pg).step = pg.step /\ Broken(pg).asked = pg.asked
         /\ Broken(pg).saved = pg.saved /\ Broken(pg).ready = pg.ready
         /\ Broken(pg).status = 0
         /\ Broken(pg).answer = "ok" => pg.answer = "ok"
  BY DEF Page, Broken

\* A process that starts with one of the two environments.
LEMMA BootKeeps ==
  ASSUME Inv, Restart \/ ComposeUp
  PROVE  Inv'
  <1>0. /\ file \in Env /\ container \in Env
        /\ Given(file) \in Env /\ ~Given(file).complete /\ Given(file).admin = file.admin
    BY DEF Inv, TypeOK, Env, Given
  <1>1. PICK given \in {container, Given(file)} : Boot(given) /\ container' = given
    BY DEF Restart, ComposeUp
  <1>11. /\ given \in Env /\ ~given.complete /\ given.admin = file.admin
         /\ container' = given /\ UNCHANGED <<file, users>> /\ env' = Started(given)
    BY <1>0, <1>1 DEF Inv, Ordered, Boot
  <1>12. env' \in Env /\ env'.complete = file.complete /\ env'.admin = file.admin
    BY <1>0, <1>11 DEF Started, Env
  <1>2. \A t \in Tab : tab[t] \in Page /\ tab'[t] = Broken(tab[t])
    BY <1>1 DEF Inv, TypeOK, Boot
  <1>3. TypeOK'
    <2>1. \A t \in Tab : Broken(tab[t]) \in Page
      BY <1>2, Pages
    <2> QED BY <1>1, <1>11, <1>12, <2>1 DEF Inv, TypeOK, Boot
  <1>4. Passed'
    <2>1. UNCHANGED <<file, users>>
      BY <1>11
    <2> QED BY <1>2, <2>1, BrokenKeeps DEF Inv, Passed
  <1>5. Ordered'
    BY <1>1, <1>11, <1>12 DEF Inv, Ordered, Boot, OnePerTab
  <1>6. ReadyIsOver'
    <2>1. UNCHANGED users /\ (env.complete => env'.complete)
      BY <1>11, <1>12 DEF Inv, Ordered
    <2> QED BY <1>2, <2>1, BrokenKeeps DEF Inv, ReadyIsOver
  <1>7. TransporterIsCurrent'
    BY <1>1 DEF TransporterIsCurrent, Boot
  <1> QED BY <1>3, <1>4, <1>5, <1>6, <1>7 DEF Inv

-----------------------------------------------------------------------------
(* Steps of one page.                                                      *)

\* A step that makes pg of one page and may write the file or start bcrypt.
LEMMA OnePage ==
  ASSUME Inv, NEW t \in Tab, NEW pg \in Page, tab' = [tab EXCEPT ![t] = pg],
         UNCHANGED <<container, env, transporter, users>>,
         file' \in Env, file'.admin = file.admin, file.complete => file'.complete,
         file'.ome \/ file'.secrets # None \/ file'.complete => users # {},
         hashing' \subseteq [tab : Tab \cup {None}, name : Name],
         hashing' # {} => isSetupNeeded, OnePerTab(hashing'),
         \A h \in hashing' : h \in hashing \/ h.tab \in {None, t},
         \A h \in hashing' : h.tab = t => pg.asked = STEP_ORDER.account /\ pg.answer = "none",
         Sound(pg)
  PROVE  Inv'
  <1>1. tab' \in [Tab -> Page] /\ tab'[t] = pg /\ \A u \in Tab \ {t} : tab'[u] = tab[u]
    BY DEF Inv, TypeOK
  <1>2. TypeOK'
    <2>1. ASSUME NEW h \in hashing', h.tab # None
          PROVE  tab'[h.tab].asked = STEP_ORDER.account /\ tab'[h.tab].answer = "none"
      BY <2>1, <1>1 DEF Inv, TypeOK
    <2> QED BY <2>1, <1>1 DEF Inv, TypeOK
  <1>3. Passed'
    BY <1>1 DEF Inv, Passed, Sound
  <1>4. Ordered'
    BY DEF Inv, Ordered, isSetupNeeded, OnePerTab
  <1>5. ReadyIsOver'
    BY <1>1 DEF Inv, ReadyIsOver, Sound
  <1>6. TransporterIsCurrent'
    BY DEF Inv, TransporterIsCurrent
  <1> QED BY <1>2, <1>3, <1>4, <1>5, <1>6 DEF Inv

\* Account steps of a page that no longer waits go on for nobody.
LEMMA Detached ==
  ASSUME Inv, NEW t \in Tab,
         hashing' = {[h EXCEPT !.tab = IF @ = t THEN None ELSE @] : h \in hashing}
  PROVE  /\ hashing' \subseteq [tab : Tab \cup {None}, name : Name]
         /\ \A h \in hashing' : h \in hashing \/ h.tab = None
         /\ \A h \in hashing' : h.tab # t
         /\ hashing' # {} => isSetupNeeded
         /\ OnePerTab(hashing')
  <1>1. \A h \in hashing : h \in [tab : Tab \cup {None}, name : Name]
    BY DEF Inv, TypeOK
  <1>2. None # t
    BY SetupAssumption
  <1>3. ASSUME NEW g \in hashing'
        PROVE  /\ g \in [tab : Tab \cup {None}, name : Name]
               /\ g \in hashing \/ g.tab = None
               /\ g.tab # t
    <2>1. PICK h \in hashing : g = [h EXCEPT !.tab = IF h.tab = t THEN None ELSE h.tab]
      OBVIOUS
    <2>2. CASE h.tab = t
      BY <1>1, <1>2, <2>1, <2>2
    <2>3. CASE h.tab # t
      <3>1. g = h
        BY <1>1, <2>1, <2>3
      <3> QED BY <3>1, <2>3, <1>1
    <2> QED BY <2>2, <2>3
  <1>4. hashing' # {} => hashing # {}
    OBVIOUS
  <1>5. OnePerTab(hashing')
    BY <1>3 DEF Inv, Ordered, OnePerTab
  <1> QED BY <1>3, <1>4, <1>5 DEF Inv, Ordered

\* The file and bcrypt are left alone by most steps of a page.
LEMMA Untouched ==
  ASSUME Inv
  PROVE  /\ file \in Env
         /\ file.ome \/ file.secrets # None \/ file.complete => users # {}
         /\ hashing \subseteq [tab : Tab \cup {None}, name : Name]
         /\ hashing # {} => isSetupNeeded
         /\ OnePerTab(hashing)
         /\ \A t \in Tab : tab[t] \in Page
         /\ \A h \in hashing, t \in Tab :
              h.tab = t => tab[t].asked = STEP_ORDER.account /\ tab[t].answer = "none"
  BY SetupAssumption DEF Inv, TypeOK, Passed, Ordered

\* What is known of a page.
LEMMA Known ==
  ASSUME Inv, NEW t \in Tab
  PROVE  Sound(tab[t])
  BY DEF Inv, Passed, ReadyIsOver, Sound

\* A step that makes pg of one page and does nothing else.
LEMMA OnlyPage ==
  ASSUME Inv, NEW t \in Tab, NEW pg \in Page, tab' = [tab EXCEPT ![t] = pg],
         UNCHANGED server,
         \A h \in hashing : h.tab = t => pg.asked = STEP_ORDER.account /\ pg.answer = "none",
         Sound(pg)
  PROVE  Inv'
  <1>1. UNCHANGED <<container, env, transporter, users>> /\ file' = file /\ hashing' = hashing
    BY DEF server
  <1> QED BY <1>1, Untouched, OnePage

LEMMA PageKeeps ==
  ASSUME Inv, NEW t \in Tab, PageStep(t)
  PROVE  Inv'
  <1> DEFINE old == tab[t]
  <1>0. old \in Page /\ Sound(old)
        /\ \A h \in hashing : h.tab = t => old.asked = STEP_ORDER.account /\ old.answer = "none"
    BY Untouched, Known
  <1>1. CASE Load(t)
    <2>1. Resume \in Step \cup {0} /\ (Resume > 1 => users # {})
      BY Untouched DEF Resume, STEP_ORDER, Step
    <2>2. ~file.admin
      BY <1>1 DEF Load, isSetupNeeded, Inv, Ordered
    <2> DEFINE pg == Loaded(Resume)
    <2>3. pg \in Page /\ Sound(pg)
      BY <2>1, <2>2, <1>0, Pages DEF Loaded, Shown, Sound
    <2>4. tab' = [tab EXCEPT ![t] = pg] /\ UNCHANGED <<file, container, env, transporter, users>>
      BY <1>1 DEF Load
    <2>5. /\ hashing' \subseteq [tab : Tab \cup {None}, name : Name]
          /\ \A h \in hashing' : h \in hashing \/ h.tab = None
          /\ \A h \in hashing' : h.tab # t
          /\ (hashing' # {} => isSetupNeeded) /\ OnePerTab(hashing')
      BY <1>1, Detached DEF Load
    <2> HIDE DEF pg
    <2> QED BY <2>3, <2>4, <2>5, Untouched, OnePage
  <1>2. CASE StatusArrives(t)
    <2> DEFINE pg == [old EXCEPT !.step = old.status, !.status = 0]
    <2>1. pg \in Page /\ pg.asked = old.asked /\ pg.answer = old.answer
      BY <1>0 DEF Page
    <2>2. tab' = [tab EXCEPT ![t] = pg] /\ UNCHANGED server
      BY <1>2 DEF StatusArrives
    <2>3. Sound(pg)
      BY <1>0, <1>2 DEF Sound, Page, StatusArrives
    <2> HIDE DEF pg, old
    <2> QED BY <1>0, <2>1, <2>2, <2>3, OnlyPage
  <1>3. CASE Answered(t)
    <2>1. users # {} /\ (old.asked # 0 \/ old.step # 0 => ~file.admin)
      BY <1>0, <1>3 DEF Answered, Sound
    <2>2. \A h \in hashing : h.tab # t
      BY <1>0, <1>3 DEF Answered
    <2>3. CASE old.asked = STEP_ORDER.finish
      <3> DEFINE pg == [Settled(old) EXCEPT !.saved = TRUE]
      <3>1. pg \in Page /\ Sound(pg)
        <4>1. Settled(old) \in Page /\ Sound(Settled(old))
          BY <1>0, Pages DEF Settled, Sound, Page
        <4>2. ~file.admin
          BY <2>1, <2>3 DEF STEP_ORDER
        <4> HIDE DEF old
        <4> QED BY <4>1, <4>2 DEF Page, Sound
      <3>2. tab' = [tab EXCEPT ![t] = pg] /\ UNCHANGED server
        BY <1>3, <2>3 DEF Answered
      <3> HIDE DEF pg, old
      <3> QED BY <2>2, <3>1, <3>2, OnlyPage
    <2>4. CASE old.asked # STEP_ORDER.finish
      <3> DEFINE pg == [Settled(old) EXCEPT !.step = following(old.step)]
      <3>1. pg \in Page /\ Sound(pg)
        <4>1. Settled(old) \in Page /\ Sound(Settled(old))
          BY <1>0, Pages DEF Settled, Sound, Page
        <4>2. following(old.step) \in Step \cup {0} /\ ~file.admin
          BY <1>0, <1>3 DEF following, STEP_ORDER, Step, Page, Answered, Sound
        <4> HIDE DEF old
        <4> QED BY <4>1, <4>2, <2>1 DEF Page, Sound
      <3>2. tab' = [tab EXCEPT ![t] = pg] /\ UNCHANGED server
        BY <1>3, <2>4 DEF Answered
      <3> HIDE DEF pg, old
      <3> QED BY <2>2, <3>1, <3>2, OnlyPage
    <2> QED BY <2>3, <2>4
  <1>4. CASE Failed(t)
    <2> DEFINE pg == Settled(old)
    <2>1. pg \in Page /\ Sound(pg)
      BY <1>0 DEF Page, Settled, Sound
    <2>2. tab' = [tab EXCEPT ![t] = pg] /\ UNCHANGED <<file, container, env, transporter, users>>
      BY <1>4 DEF Failed
    <2>3. /\ hashing' \subseteq [tab : Tab \cup {None}, name : Name]
          /\ \A h \in hashing' : h \in hashing \/ h.tab = None
          /\ \A h \in hashing' : h.tab # t
          /\ (hashing' # {} => isSetupNeeded) /\ OnePerTab(hashing')
      BY <1>4, Detached DEF Failed
    <2> HIDE DEF pg, old
    <2> QED BY <2>1, <2>2, <2>3, Untouched, OnePage
  <1>5. CASE checkReady(t)
    <2>1. PICK b \in BOOLEAN : /\ tab' = [tab EXCEPT ![t] = [old EXCEPT !.ready = b]]
                               /\ b => ~isSetupNeeded
      BY <1>5 DEF checkReady
    <2> DEFINE pg == [old EXCEPT !.ready = b]
    <2>2. old.saved /\ old.step = 5 /\ UNCHANGED server
      BY <1>5 DEF checkReady, STEP_ORDER
    <2>3. b => env.complete /\ users # {}
      BY <1>0, <2>1, <2>2 DEF Sound, isSetupNeeded, Inv, Ordered
    <2>4. pg \in Page /\ Sound(pg) /\ pg.asked = old.asked /\ pg.answer = old.answer
      BY <1>0, <2>3 DEF Page, Sound
    <2> HIDE DEF pg, old
    <2> QED BY <1>0, <2>1, <2>2, <2>4, OnlyPage DEF pg
  <1> QED BY <1>1, <1>2, <1>3, <1>4, <1>5 DEF PageStep

-----------------------------------------------------------------------------
(* Steps of the server.                                                    *)

\* A page that posts step i and has its answer.
LEMMA Posted ==
  ASSUME Inv, NEW t \in Tab, NEW i \in Step, NEW a \in {"none", "ok", "error"}, Post(t, i, a),
         a = "ok" => users # {}
  PROVE  \E pg \in Page : /\ tab' = [tab EXCEPT ![t] = pg] /\ Sound(pg)
                           /\ pg.asked = i /\ pg.answer = a
                           /\ \A h \in hashing : h.tab # t
  <1> DEFINE old == tab[t]
             pg == [old EXCEPT !.asked = i, !.answer = a]
  <1>1. /\ old \in Page /\ Sound(old)
        /\ \A h \in hashing : h.tab = t => old.asked = STEP_ORDER.account
    BY Untouched, Known
  <1>2. old.step = i /\ old.asked = 0 /\ tab' = [tab EXCEPT ![t] = pg]
    BY DEF Post, Clickable
  <1>3. \A h \in hashing : h.tab # t
    BY <1>1, <1>2 DEF STEP_ORDER
  <1>4. ~file.admin
    BY <1>1, <1>2 DEF Sound, Step
  <1>5. pg \in Page /\ Sound(pg) /\ pg.asked = i /\ pg.answer = a
    BY <1>1, <1>4 DEF Page, Sound
  <1> HIDE DEF pg, old
  <1> QED BY <1>2, <1>3, <1>5

LEMMA WriteKeeps ==
  ASSUME Inv, NEW t \in Tab, NEW i \in Step, NEW new \in Env, Write(t, i, new),
         i > 1, new.admin = file.admin, file.complete => new.complete
  PROVE  Inv'
  <1>1. users # {}
    BY Known DEF Write, Post, Clickable, Sound
  <1>2. PICK pg \in Page : /\ tab' = [tab EXCEPT ![t] = pg] /\ Sound(pg)
                           /\ \A h \in hashing : h.tab # t
    BY <1>1, Posted DEF Write
  <1>3. file' = new /\ UNCHANGED <<container, env, transporter, users, hashing>>
    BY DEF Write
  <1> QED BY <1>1, <1>2, <1>3, Untouched, OnePage

LEMMA PostKeeps ==
  ASSUME Inv, NEW t \in Tab, PostStep(t)
  PROVE  Inv'
  <1>0. file \in Env /\ \A i \in Step : i \in Nat
    BY Untouched DEF Step
  <1>1. ASSUME NEW n \in Name, PostAccount(t, n)
        PROVE  Inv'
    <2>1. isSetupNeeded /\ UNCHANGED <<file, container, env, transporter, users>>
      BY <1>1 DEF PostAccount, Admitted
    <2>2. CASE users # {}
      <3>1. PICK pg \in Page : /\ tab' = [tab EXCEPT ![t] = pg] /\ Sound(pg)
                               /\ \A h \in hashing : h.tab # t
        BY <1>1, <2>2, Posted DEF PostAccount, STEP_ORDER, Step
      <3>2. UNCHANGED server
        BY <1>1, <2>1, <2>2 DEF PostAccount, server
      <3> QED BY <3>1, <3>2, OnlyPage
    <2>3. CASE users = {}
      <3>1. PICK pg \in Page : /\ tab' = [tab EXCEPT ![t] = pg] /\ Sound(pg)
                               /\ pg.asked = STEP_ORDER.account /\ pg.answer = "none"
                               /\ \A h \in hashing : h.tab # t
        BY <1>1, <2>3, Posted DEF PostAccount, STEP_ORDER, Step
      <3>2. hashing' = hashing \cup {[tab |-> t, name |-> n]}
        BY <1>1, <2>3 DEF PostAccount
      <3>3. hashing' \subseteq [tab : Tab \cup {None}, name : Name]
        BY <3>2, <1>1, Untouched
      <3>4. \A h \in hashing' : h \in hashing \/ h.tab = t
        BY <3>2
      <3>5. OnePerTab(hashing')
        BY <3>1, <3>2, Untouched DEF OnePerTab
      <3> QED BY <2>1, <3>1, <3>3, <3>4, <3>5, Untouched, OnePage
    <2> QED BY <2>2, <2>3
  <1>2. CASE PostOme(t)
    <2> DEFINE new == [file EXCEPT !.ome = TRUE]
    <2>1. new \in Env /\ new.admin = file.admin /\ (file.complete => new.complete)
      BY <1>0 DEF Env
    <2>2. Write(t, 2, new)
      BY <1>2 DEF PostOme, STEP_ORDER
    <2> HIDE DEF new
    <2> QED BY <2>1, <2>2, WriteKeeps DEF Step
  <1>3. CASE PostSecrets(t)
    <2>1. PICK s \in Secret : Write(t, 3, [file EXCEPT !.secrets = s])
      BY <1>3 DEF PostSecrets, STEP_ORDER
    <2> DEFINE new == [file EXCEPT !.secrets = s]
    <2>2. new \in Env /\ new.admin = file.admin /\ (file.complete => new.complete)
      BY <1>0 DEF Env
    <2>3. Write(t, 3, new)
      BY <2>1
    <2> HIDE DEF new
    <2> QED BY <2>2, <2>3, WriteKeeps DEF Step
  <1>4. CASE PostSmtp(t)
    <2>1. CASE Write(t, 4, file)
      BY <2>1, <1>0, WriteKeeps DEF Step
    <2>2. ASSUME NEW h \in Host, NEW p \in Pass \cup {None},
                 Write(t, 4, [file EXCEPT !.host = h, !.pass = p])
          PROVE  Inv'
      <3> DEFINE new == [file EXCEPT !.host = h, !.pass = p]
      <3>1. new \in Env /\ new.admin = file.admin /\ (file.complete => new.complete)
        BY <1>0, <2>2 DEF Env
      <3>2. Write(t, 4, new)
        BY <2>2
      <3> HIDE DEF new
      <3> QED BY <3>1, <3>2, WriteKeeps DEF Step
    <2> QED BY <1>4, <2>1, <2>2 DEF PostSmtp, STEP_ORDER
  <1>5. CASE PostFinish(t)
    <2> DEFINE new == [file EXCEPT !.complete = TRUE]
    <2>1. new \in Env /\ new.admin = file.admin /\ (file.complete => new.complete)
      BY <1>0 DEF Env
    <2>2. Write(t, 5, new)
      BY <1>5 DEF PostFinish, STEP_ORDER
    <2> HIDE DEF new
    <2> QED BY <2>1, <2>2, WriteKeeps DEF Step
  <1>6. ASSUME NEW i \in Step, Refused(t, i)
        PROVE  Inv'
    <2>1. PICK pg \in Page : /\ tab' = [tab EXCEPT ![t] = pg] /\ Sound(pg)
                             /\ \A h \in hashing : h.tab # t
      BY <1>6, Posted DEF Refused
    <2>2. UNCHANGED server
      BY <1>6 DEF Refused
    <2> QED BY <2>1, <2>2, OnlyPage
  <1> QED BY <1>1, <1>2, <1>3, <1>4, <1>5, <1>6 DEF PostStep

LEMMA HashedKeeps ==
  ASSUME Inv, NEW h \in hashing, AccountHashed(h)
  PROVE  Inv'
  <1>1. h \in [tab : Tab \cup {None}, name : Name]
    BY DEF Inv, TypeOK
  <1>2. /\ UNCHANGED <<file, container, env, transporter>>
        /\ hashing' = hashing \ {h} /\ users' = users \cup {h.name}
    BY DEF AccountHashed
  <1>3. users' # {} /\ users' \subseteq Name
    BY <1>1, <1>2 DEF Inv, TypeOK
  <1>4. isSetupNeeded /\ ~file.admin
    BY DEF Inv, Ordered, isSetupNeeded
  <1>5. /\ tab' \in [Tab -> Page]
        /\ \A t \in Tab : tab'[t].ready = tab[t].ready
        /\ \A g \in hashing' : g.tab # None =>
             tab'[g.tab].asked = STEP_ORDER.account /\ tab'[g.tab].answer = "none"
    <2>1. CASE h.tab = None
      BY <1>2, <2>1 DEF AccountHashed, Inv, TypeOK
    <2>2. CASE h.tab # None
      <3> DEFINE a == IF h.name \in users THEN "error" ELSE "ok"
                 pg == [tab[h.tab] EXCEPT !.answer = a]
      <3>1. h.tab \in Tab /\ tab[h.tab] \in Page
        BY <1>1, <2>2, Untouched
      <3>2. tab' = [tab EXCEPT ![h.tab] = pg]
        BY <2>2 DEF AccountHashed
      <3>3. pg \in Page /\ pg.ready = tab[h.tab].ready
        BY <3>1 DEF Page
      <3>4. \A g \in hashing' : g.tab # h.tab
        BY <1>2, <2>2 DEF Inv, Ordered, OnePerTab
      <3> QED BY <1>2, <3>1, <3>2, <3>3, <3>4 DEF Inv, TypeOK
    <2> QED BY <2>1, <2>2
  <1>6. TypeOK'
    BY <1>2, <1>3, <1>5 DEF Inv, TypeOK
  <1>7. Passed' /\ Ordered'
    BY <1>2, <1>3, <1>4 DEF Inv, Passed, Ordered, OnePerTab, isSetupNeeded
  <1>8. ReadyIsOver' /\ TransporterIsCurrent'
    BY <1>2, <1>3, <1>5 DEF Inv, ReadyIsOver, TransporterIsCurrent
  <1> QED BY <1>6, <1>7, <1>8 DEF Inv

\* The settings of the mail server touch nothing else.
LEMMA MailOnly ==
  ASSUME NEW e \in Env, NEW h \in Host, NEW p \in Pass \cup {None}
  PROVE  /\ MailSettings(e, h, p) \in Env
         /\ MailSettings(e, h, p).admin = e.admin /\ MailSettings(e, h, p).ome = e.ome
         /\ MailSettings(e, h, p).secrets = e.secrets
         /\ MailSettings(e, h, p).complete = e.complete
  BY DEF MailSettings, Env

LEMMA MailKeeps ==
  ASSUME Inv, (\E h \in Host, p \in Pass \cup {None} : SaveSmtp(h, p)) \/ sendEmail
  PROVE  Inv'
  <1>1. ASSUME NEW h \in Host, NEW p \in Pass \cup {None}, SaveSmtp(h, p)
        PROVE  Inv'
    <2>1. /\ file' = MailSettings(file, h, p) /\ env' = MailSettings(env, h, p)
          /\ transporter' = None /\ UNCHANGED <<container, users, hashing, tab>>
      BY <1>1 DEF SaveSmtp
    <2>2. file \in Env /\ env \in Env
      BY DEF Inv, TypeOK
    <2>3. /\ file' \in Env /\ env' \in Env
          /\ file'.admin = file.admin /\ file'.ome = file.ome
          /\ file'.secrets = file.secrets /\ file'.complete = file.complete
          /\ env'.admin = env.admin /\ env'.complete = env.complete
      BY <1>1, <2>1, <2>2, MailOnly
    <2>4. TypeOK'
      BY <2>1, <2>3 DEF Inv, TypeOK
    <2>5. Passed'
      BY <2>1, <2>3 DEF Inv, Passed
    <2>6. Ordered'
      BY <2>1, <2>3 DEF Inv, Ordered, OnePerTab, isSetupNeeded
    <2>7. ReadyIsOver' /\ TransporterIsCurrent'
      BY <2>1, <2>3 DEF Inv, ReadyIsOver, TransporterIsCurrent
    <2> QED BY <2>4, <2>5, <2>6, <2>7 DEF Inv
  <1>2. CASE sendEmail
    <2>1. env.host \in Host /\ env.pass \in Pass
      BY <1>2 DEF sendEmail, Inv, TypeOK, Env
    <2>2. TypeOK'
      BY <1>2, <2>1 DEF sendEmail, Inv, TypeOK
    <2>3. Passed' /\ Ordered' /\ ReadyIsOver' /\ TransporterIsCurrent'
      BY <1>2 DEF sendEmail, Inv, Passed, Ordered, OnePerTab, isSetupNeeded, ReadyIsOver,
                       TransporterIsCurrent
    <2> QED BY <2>2, <2>3 DEF Inv
  <1> QED BY <1>1, <1>2

-----------------------------------------------------------------------------
(* The theorems.                                                           *)

LEMMA InvInit == Init => Inv
  <1> SUFFICES ASSUME Init
               PROVE  Inv
    OBVIOUS
  <1>1. /\ file \in Env /\ ~file.complete /\ container = file /\ env = file
        /\ users \subseteq Name /\ transporter = None /\ hashing = {}
        /\ file.admin \/ file.ome \/ file.secrets # None => users # {}
    <2>1. PICK admin \in BOOLEAN :
            /\ \E s \in IF admin THEN Secret ELSE {None} :
                 file = [admin |-> admin, ome |-> admin, secrets |-> s, complete |-> FALSE,
                         host |-> None, pass |-> None]
            /\ users = IF admin THEN {Admin} ELSE {}
      BY DEF Init
    <2>2. PICK s \in Secret \cup {None} :
            /\ file = [admin |-> admin, ome |-> admin, secrets |-> s, complete |-> FALSE,
                       host |-> None, pass |-> None]
            /\ admin \/ s = None
      BY <2>1
    <2>3. file \in Env /\ ~file.complete
      BY <2>2 DEF Env
    <2>4. /\ file.admin \/ file.ome \/ file.secrets # None => users # {}
          /\ users \subseteq Name
      BY <2>1, <2>2, SetupAssumption
    <2>5. Given(file) = file /\ Started(Given(file)) = file
      BY <2>3 DEF Given, Started, Env
    <2> QED BY <2>3, <2>4, <2>5 DEF Init
  <1>2. \A t \in Tab : tab[t] = Closed
    BY DEF Init
  <1>3. Closed \in Page /\ Closed.step = 0 /\ Closed.status = 0 /\ Closed.asked = 0
        /\ Closed.answer = "none" /\ ~Closed.saved /\ ~Closed.ready
    BY DEF Closed, Shown, Page, Step
  <1>4. TypeOK
    BY <1>1, <1>3 DEF TypeOK, Init
  <1>5. Passed /\ Ordered /\ ReadyIsOver /\ TransporterIsCurrent
    BY <1>1, <1>2, <1>3 DEF Passed, Ordered, OnePerTab, ReadyIsOver, TransporterIsCurrent
  <1> QED BY <1>4, <1>5 DEF Inv

LEMMA InvStep == Inv /\ [Next]_vars => Inv'
  <1> SUFFICES ASSUME Inv, [Next]_vars
               PROVE  Inv'
    OBVIOUS
  <1>1. CASE UNCHANGED vars
    BY <1>1 DEF vars, Inv, TypeOK, Passed, Ordered, OnePerTab, isSetupNeeded, ReadyIsOver,
                TransporterIsCurrent
  <1>2. CASE Next
    BY <1>2, BootKeeps, PageKeeps, PostKeeps, HashedKeeps, MailKeeps DEF Next
  <1> QED BY <1>1, <1>2

LEMMA InvHolds == Spec => []Inv
  BY InvInit, InvStep, PTL DEF Spec

\* Values keep their types, and a page waits for its own account step only.
THEOREM TypesHold == Spec => []TypeOK
  <1>1. Inv => TypeOK
    BY DEF Inv
  <1> QED BY <1>1, InvHolds, PTL

\* A page that says the console is ready tells the truth: setup is over for the
\* process that runs and there is an account, however many tabs, reloads and
\* restarts, in the old container or a new one, there were.
THEOREM ReadyPagesAreTrue == Spec => []ReadyIsOver
  <1>1. Inv => ReadyIsOver
    BY DEF Inv
  <1> QED BY <1>1, InvHolds, PTL

\* A wizard that was finished leaves an account to log in with.
THEOREM FinishedWithAccount == Spec => []FinishedHasAccount
  <1>1. Inv => FinishedHasAccount
    BY DEF Inv, Passed, FinishedHasAccount
  <1> QED BY <1>1, InvHolds, PTL

\* No mail goes out with settings that were replaced.
THEOREM TransporterStaysCurrent == Spec => []TransporterIsCurrent
  <1>1. Inv => TransporterIsCurrent
    BY DEF Inv
  <1> QED BY <1>1, InvHolds, PTL

\* Once setup is over it stays over, although a process gets the flag from the
\* file and the rest from its container, and pages left open change nothing.
THEOREM WizardIsOff == Spec => WizardStaysOff
  <1> DEFINE Off == /\ ~isSetupNeeded'
                    /\ file'.secrets = file.secrets /\ file'.ome = file.ome /\ users' = users
  <1>1. ASSUME Inv, [Next]_vars, ~isSetupNeeded
        PROVE  Off
    <2>1. CASE Restart \/ ComposeUp
      <3>1. PICK given \in {container, Given(file)} : Boot(given)
        BY <2>1 DEF Restart, ComposeUp
      <3>2. /\ given \in Env /\ given.admin = env.admin
            /\ UNCHANGED <<file, users>> /\ env' = Started(given)
        BY <1>1, <3>1 DEF Boot, Inv, TypeOK, Ordered, Env, Given
      <3>3. env'.admin = env.admin /\ env'.complete = file.complete
        BY <3>2 DEF Started, Env
      <3> QED BY <1>1, <3>2, <3>3 DEF Inv, Ordered, isSetupNeeded
    <2>2. ASSUME NEW t \in Tab, PageStep(t)
          PROVE  Off
      BY <1>1, <2>2 DEF PageStep, Load, StatusArrives, Answered, Failed, checkReady, server,
                        isSetupNeeded
    <2>3. ASSUME NEW t \in Tab, PostStep(t)
          PROVE  UNCHANGED server
      BY <1>1, <2>3 DEF PostStep, PostAccount, PostOme, PostSecrets, PostSmtp, PostFinish, Write,
                        Refused, Admitted
    <2>4. ASSUME NEW h \in hashing, AccountHashed(h)
          PROVE  FALSE
      BY <1>1, <2>4 DEF Inv, Ordered
    <2>5. ASSUME NEW h \in Host, NEW p \in Pass \cup {None}, SaveSmtp(h, p)
          PROVE  Off
      <3>1. file \in Env /\ env \in Env
        BY <1>1 DEF Inv, TypeOK
      <3>2. file' = MailSettings(file, h, p) /\ env' = MailSettings(env, h, p) /\ users' = users
        BY <2>5 DEF SaveSmtp
      <3> QED BY <1>1, <2>5, <3>1, <3>2, MailOnly DEF isSetupNeeded
    <2>6. CASE sendEmail
      BY <1>1, <2>6 DEF sendEmail, isSetupNeeded
    <2>7. CASE UNCHANGED vars
      BY <1>1, <2>7 DEF vars, isSetupNeeded
    <2>8. UNCHANGED server => Off
      BY <1>1 DEF server, isSetupNeeded
    <2> QED BY <1>1, <2>1, <2>2, <2>3, <2>4, <2>5, <2>6, <2>7, <2>8 DEF Next
  <1> HIDE DEF Off
  <1>2. Inv /\ [Next]_vars => [~isSetupNeeded => Off]_vars
    BY <1>1
  <1> QED BY <1>2, InvHolds, PTL DEF Spec, WizardStaysOff, Off
=============================================================================
