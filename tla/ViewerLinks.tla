------------------------------- MODULE ViewerLinks -------------------------------
(***************************************************************************)
(* Viewer links.  The table of signed links (app/api/viewer-links), their  *)
(* re-issue after the secret was rotated (reissue/route.ts), the half of   *)
(* access/page.tsx that shows them, and the dialog of                      *)
(* access-settings/page.tsx that leads an operator through a rotation: a   *)
(* new secret is shown, the operator writes it into .env and Server.xml,   *)
(* restarts both containers, has the page check the engine and re-issues.  *)
(* OME alone judges a link, by the secret it was started with.             *)
(*                                                                         *)
(* Signing awaits, so a link is stored, and a re-issue writes, later than  *)
(* it read.  A signature is stood for by the secret it was made with.  The *)
(* unit of time is an hour; Day hours make a day.                          *)
(***************************************************************************)
EXTENDS Calls

CONSTANTS
  Lifetimes,    \* how long a link may be valid (VALID_FOR_HOURS)
  Day,
  MaxLinks,     \* bound: links ever made
  MaxSecrets,   \* bound: secrets ever shown, the first one included
  MaxTime,      \* bound: the clock stops here
  MaxCalls,     \* bound: calls of the pages under way at once
  MaxFaults     \* bound: calls refused or lost

ASSUME LinksAssumption ==
  /\ Lifetimes \subseteq Nat \ {0} /\ Day \in Nat \ {0}
  /\ MaxLinks \in Nat /\ MaxSecrets \in Nat \ {0} /\ MaxTime \in Nat
  /\ MaxCalls \in Nat \ {0} /\ MaxFaults \in Nat

VARIABLES
  links,      \* the table: from ids to rows
  lastLink,   \* the id given last
  secret,     \* where the secret is kept: .env, Server.xml, the two processes
  omeUp,      \* OME runs
  now,
  page,       \* what the pages show
  calls,      \* their calls under way; a call may also be "signing"
  faults

vars == <<links, lastLink, secret, omeUp, now, page, calls, faults>>
world == <<secret, omeUp, now>>

Places  == {"env", "xml", "console", "ome"}
Secrets == 1..MaxSecrets
Expiries == {t + life : t \in 0..MaxTime, life \in Lifetimes}
Row == [id : Nat \ {0}, exp : Expiries, sig : Secrets]
\* The dialog: the secret it shows, whether the engine was found to be up, and
\* whether it says that the links were re-issued with the new secret.
Rotation == [open : BOOLEAN, shown : Secrets, checked : BOOLEAN, said : BOOLEAN]

Init ==
  /\ links = [i \in {} |-> 0] /\ lastLink = 0
  /\ secret = [p \in Places |-> 1]
  /\ omeUp = TRUE
  /\ now = 0
  /\ page = [list |-> {}, making |-> FALSE, feed |-> "none",
             rotate |-> [open |-> FALSE, shown |-> 1, checked |-> FALSE, said |-> FALSE]]
  /\ calls = {}
  /\ faults = 0

(***************************************************************************)
(* The server                                                              *)
(***************************************************************************)
LinkRows == {links[i] : i \in DOMAIN links}

\* Mutant: the dates are compared without the time of day.
RelevantFromTomorrow(e) == e \div Day > now \div Day
\* expires_at is an ISO string and datetime('now') has a blank where that has a
\* T: as texts, every link that expires today is later than now.
Relevant(e) == e \div Day >= now \div Day

\* A handler that awaits a signature keeps what it has read.
Signs(c, kept) == Moved(calls, c, "signing", kept)

GetLinks(c) ==
  /\ Is(c, "sent", "list")
  /\ calls' = Done(calls, c, [rows |-> LinkRows])
  /\ UNCHANGED <<links, lastLink, world, page, faults>>

PostLink(c) ==
  /\ Is(c, "sent", "create")
  /\ calls' = Signs(c, [exp |-> now + c.arg.life, sig |-> secret["console"]])
  /\ UNCHANGED <<links, lastLink, world, page, faults>>

StoreLink(c) ==
  LET id == lastLink + 1
      row == [id |-> id, exp |-> c.arg.exp, sig |-> c.arg.sig]
  IN
  /\ Is(c, "signing", "create")
  /\ links' = [i \in DOMAIN links \cup {id} |-> IF i = id THEN row ELSE links[i]]
  /\ lastLink' = id
  /\ calls' = Done(calls, c, row)
  /\ UNCHANGED <<world, page, faults>>

DeleteLink(c) ==
  /\ Is(c, "sent", "delete")
  /\ links' = [i \in DOMAIN links \ {c.arg.id} |-> links[i]]
  /\ calls' = Done(calls, c, c.arg)
  /\ UNCHANGED <<lastLink, world, page, faults>>

PostReissue(c) ==
  /\ Is(c, "sent", "reissue")
  /\ calls' = Signs(c, [rows |-> {[r EXCEPT !.sig = secret["console"]] :
                                    r \in {q \in LinkRows : Relevant(q.exp)}}])
  /\ UNCHANGED <<links, lastLink, world, page, faults>>

\* Mutant: a row that is gone is written again.
WrittenBack(rows) ==
  [i \in DOMAIN links \cup {r.id : r \in rows} |->
     IF \E r \in rows : r.id = i THEN CHOOSE r \in rows : r.id = i ELSE links[i]]
\* UPDATE ... SET url, for the rows that are still there, in one transaction.
Written(rows) ==
  [i \in DOMAIN links |->
     IF \E r \in rows : r.id = i
     THEN [links[i] EXCEPT !.sig = (CHOOSE r \in rows : r.id = i).sig]
     ELSE links[i]]

StoreReissue(c) ==
  /\ Is(c, "signing", "reissue")
  /\ links' = Written(c.arg.rows)
  /\ calls' = Done(calls, c, Nothing)
  /\ UNCHANGED <<lastLink, world, page, faults>>

\* The proxy refuses, or SIGNED_POLICY_SECRET is not set.
Refuse(c) ==
  /\ c.st = "sent"
  /\ faults < MaxFaults
  /\ calls' = Denied(calls, c)
  /\ faults' = faults + 1
  /\ UNCHANGED <<links, lastLink, world, page>>

(***************************************************************************)
(* What the operator does on disk and to the containers, and what becomes  *)
(* of it.                                                                  *)
(***************************************************************************)
Edit(file) ==
  /\ secret' = [secret EXCEPT ![file] = page.rotate.shown]
  /\ UNCHANGED <<links, lastLink, omeUp, now, page, calls, faults>>

StopOme ==
  /\ omeUp
  /\ omeUp' = FALSE
  /\ UNCHANGED <<links, lastLink, secret, now, page, calls, faults>>

StartOme ==
  /\ ~omeUp
  /\ omeUp' = TRUE
  /\ secret' = [secret EXCEPT !["ome"] = secret["xml"]]
  /\ UNCHANGED <<links, lastLink, now, page, calls, faults>>

\* The restart a rotation needs.  Handlers die with the process: their calls
\* fail on the page, and the feed of the open pages breaks.
RestartConsole ==
  /\ secret["console"] # secret["env"]
  /\ secret' = [secret EXCEPT !["console"] = secret["env"]]
  /\ calls' = {}
  /\ page' = [page EXCEPT !.feed = "none", !.making = FALSE]
  /\ UNCHANGED <<links, lastLink, omeUp, now, faults>>

Tick ==
  /\ now < MaxTime
  /\ now' = now + 1
  /\ UNCHANGED <<links, lastLink, secret, omeUp, page, calls, faults>>

(***************************************************************************)
(* The page of the links                                                   *)
(***************************************************************************)
Clicks(call) ==
  /\ Cardinality(calls) < MaxCalls
  /\ calls' = calls \cup {call}
  /\ UNCHANGED <<links, lastLink, world, faults>>

Arrives(c, shown) ==
  /\ calls' = calls \ {c}
  /\ page' = shown
  /\ UNCHANGED <<links, lastLink, world, faults>>

Shows(shown) ==
  /\ page' = shown
  /\ UNCHANGED <<links, lastLink, world, calls, faults>>

\* Every 5 s.  A re-issue does not touch this list, which shows the older
\* addresses until the next answer.
PollLinks == Clicks(Sent("list", Nothing)) /\ UNCHANGED page

\* An error answer has no links in it.
LinksArrive(c) ==
  \/ Is(c, "ok", "list") /\ Arrives(c, [page EXCEPT !.list = c.arg.rows])
  \/ Is(c, "refused", "list") /\ Arrives(c, [page EXCEPT !.list = {}])

\* The button is disabled while a link is being made.
GenerateLink(life) ==
  /\ ~page.making
  /\ lastLink + Cardinality(OfKind(calls, "create")) < MaxLinks
  /\ Cardinality(calls) < MaxCalls
  /\ calls' = calls \cup {Sent("create", [life |-> life])}
  /\ page' = [page EXCEPT !.making = TRUE]
  /\ UNCHANGED <<links, lastLink, world, faults>>

LinkMade(c) ==
  \/ /\ Is(c, "ok", "create")
     /\ Arrives(c, [page EXCEPT !.list = @ \cup {c.arg}, !.making = FALSE])
  \/ /\ Is(c, "refused", "create")
     /\ Arrives(c, [page EXCEPT !.making = FALSE])

\* Confirmed in a dialog.  The row may be one the table no longer has, because
\* the page's list is old or because the dialog was open for long.
Delete(row) ==
  /\ row \in page.list
  /\ Clicks(Sent("delete", row))
  /\ UNCHANGED page

\* Whatever the answer says, the row leaves the page.
DeleteAnswered(c) ==
  /\ Is(c, "ok", "delete") \/ Is(c, "refused", "delete")
  /\ Arrives(c, [page EXCEPT !.list = {r \in @ : r.id # c.arg.id}])

(***************************************************************************)
(* The page of the rotation                                                *)
(***************************************************************************)
\* The live feed says whether OME's API answered the last poll.
FeedShown ==
  /\ page.feed # IF omeUp THEN "up" ELSE "down"
  /\ Shows([page EXCEPT !.feed = IF omeUp THEN "up" ELSE "down"])

OpenRotate ==
  /\ ~page.rotate.open
  /\ page.rotate.shown < MaxSecrets
  /\ Shows([page EXCEPT !.rotate = [open |-> TRUE, shown |-> @.shown + 1,
                                    checked |-> FALSE, said |-> FALSE]])

\* What the closed dialog would say is never seen: opening it resets that.
CloseRotate ==
  /\ page.rotate.open
  /\ Shows([page EXCEPT !.rotate = [open |-> FALSE, shown |-> @.shown,
                                    checked |-> FALSE, said |-> FALSE]])

CheckEngine ==
  /\ page.rotate.open /\ ~page.rotate.checked
  /\ page.feed # "none"
  /\ Shows([page EXCEPT !.rotate.checked = (page.feed = "up")])

ClickReissue ==
  /\ page.rotate.open /\ page.rotate.checked
  /\ Clicks(Sent("reissue", Nothing))
  /\ UNCHANGED page

\* The answer is told in the dialog of the moment.
ReissueAnswered(c) ==
  \/ Is(c, "ok", "reissue") /\ Arrives(c, [page EXCEPT !.rotate.said = page.rotate.open])
  \/ Is(c, "refused", "reissue") /\ Arrives(c, [page EXCEPT !.rotate.said = FALSE])

\* A call that the server has not begun, or an answer, is lost.
Lose(c) ==
  /\ c.st # "signing"
  /\ faults < MaxFaults
  /\ faults' = faults + 1
  /\ calls' = calls \ {c}
  /\ page' = [page EXCEPT !.making = @ /\ c.kind # "create"]
  /\ UNCHANGED <<links, lastLink, world>>

Serve(c) ==
  \/ GetLinks(c) \/ PostLink(c) \/ StoreLink(c) \/ DeleteLink(c)
  \/ PostReissue(c) \/ StoreReissue(c)

Arrive(c) ==
  LinksArrive(c) \/ LinkMade(c) \/ DeleteAnswered(c) \/ ReissueAnswered(c)

Next ==
  \/ \E c \in calls : Serve(c) \/ Refuse(c) \/ Arrive(c) \/ Lose(c)
  \/ \E file \in {"env", "xml"} : Edit(file)
  \/ StopOme \/ StartOme \/ RestartConsole \/ Tick
  \/ PollLinks
  \/ \E life \in Lifetimes : GenerateLink(life)
  \/ \E row \in page.list : Delete(row)
  \/ FeedShown \/ OpenRotate \/ CloseRotate \/ CheckEngine \/ ClickReissue

\* The timer of the page fires, the server deals with calls, answers arrive.
Fairness ==
  /\ WF_vars(PollLinks)
  /\ \A kind \in {"list", "create", "delete", "reissue"} :
       /\ WF_vars(\E c \in OfKind(calls, kind) : Serve(c))
       /\ WF_vars(\E c \in OfKind(calls, kind) : Arrive(c))

Spec == Init /\ [][Next]_vars /\ Fairness

(***************************************************************************)
(* Properties                                                              *)
(***************************************************************************)

\* Types; a link is signed with a secret the console has had.
TypeOK ==
  /\ lastLink \in Nat /\ DOMAIN links \subseteq 1..lastLink
  /\ links = [i \in DOMAIN links |-> links[i]]
  /\ \A i \in DOMAIN links : links[i] \in Row /\ links[i].id = i
  /\ secret \in [Places -> Secrets]
  /\ omeUp \in BOOLEAN /\ now \in 0..MaxTime
  /\ page \in [list : SUBSET Row, making : BOOLEAN, feed : {"none", "up", "down"},
              rotate : Rotation]

\* After a re-issue every stored link that can still be watched carries the
\* console's secret, the links made, and those that ran out or were deleted,
\* while it was signing included (reissue/route.ts).
NoneLeftBehind ==
  [][\A c \in calls : StoreReissue(c) =>
       \A i \in DOMAIN links' : links'[i].exp > now => links'[i].sig = secret["console"]]_vars

\* A link that was deleted stays deleted, whatever a re-issue or a creation that
\* read the table earlier writes afterwards.
DeletedStays == [][DOMAIN links' \subseteq DOMAIN links \cup {lastLink + 1}]_vars

\* What the dialog says once a re-issue was answered: that the links were
\* re-issued "with the new secret", the one it shows.
SaysNewSecret ==
  [][page'.rotate.said /\ ~page.rotate.said =>
       \A r \in LinkRows : r.exp > now => r.sig = page.rotate.shown]_vars

\* What "engine reachable" is for: OME is up when the check says so.
CheckedWasUp == [][page'.rotate.checked /\ ~page.rotate.checked => omeUp]_vars
==================================================================================
