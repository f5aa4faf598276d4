-------------------------- MODULE ViewerLinksProofs ---------------------------
(***************************************************************************)
(* Proofs about ViewerLinks for any number of links, secrets and calls.    *)
(*                                                                         *)
(* A re-issue that is signing has read the table some time ago.  What      *)
(* stays true of it until it writes is that it Covers the table: a link    *)
(* that can still be watched is among those it read, or carries the        *)
(* console's secret already, because the handler that made it, or another  *)
(* re-issue, signed it in the same process.                                *)
(***************************************************************************)
EXTENDS ViewerLinks, TLAPS

Console == secret["console"]

Covers(rows) ==
  /\ \A r \in rows : r.sig = Console
  /\ \A i \in DOMAIN links :
       links[i].exp > now => links[i].sig = Console \/ \E r \in rows : r.id = i

CallOK(c) ==
  /\ Is(c, "ok", "list") => c.arg.rows \subseteq Row
  /\ Is(c, "sent", "create") => c.arg.life \in Lifetimes
  /\ Is(c, "signing", "create") => c.arg.exp \in Expiries /\ c.arg.sig = Console
  /\ Is(c, "ok", "create") => c.arg \in Row
  /\ Is(c, "signing", "reissue") => Covers(c.arg.rows)

CallsOK == \A c \in calls : CallOK(c)

Inv == TypeOK /\ CallsOK

\* What a step may do to the table and the clock while a re-issue is signing.
Grows ==
  /\ Console' = Console /\ now' >= now
  /\ \A i \in DOMAIN links' :
       \/ links'[i].sig = Console
       \/ i \in DOMAIN links /\ links'[i].exp = links[i].exp /\ links'[i].sig = links[i].sig

-----------------------------------------------------------------------------
\* A later hour is of the same day or of a later one.
LEMMA LaterDay ==
  ASSUME NEW d \in Nat \ {0}, NEW t \in Nat, NEW e \in Nat, e > t
  PROVE  e \div d >= t \div d
<1> DEFINE q == e \div d
<1> DEFINE p == t \div d
<1>1. q \in Nat /\ p \in Nat /\ e < d * (q + 1) /\ d * p <= t
  OBVIOUS
<1>2. CASE q < p
  <2>1. q + 1 <= p
    BY <1>1, <1>2
  <2>2. d * (q + 1) <= d * p
    BY <1>1, <2>1
  <2> QED
    BY <1>1, <2>2
<1> QED
  BY <1>1, <1>2

\* A link that can still be watched is relevant, though dates are compared as texts.
LEMMA WatchableIsRelevant ==
  ASSUME TypeOK, NEW e \in Expiries, e > now
  PROVE  Relevant(e)
BY LaterDay, LinksAssumption DEF TypeOK, Expiries, Relevant

\* A call that is still under way keeps what was said of it.
LEMMA Kept ==
  ASSUME Inv, Grows, now \in Nat, now' \in Nat, NEW c \in calls
  PROVE  CallOK(c)'
<1> USE DEF Inv, CallsOK, Grows
<1>1. CASE Is(c, "signing", "reissue")
  <2>1. \A i \in DOMAIN links : links[i].exp \in Nat
    BY LinksAssumption DEF TypeOK, Row, Expiries
  <2>2. ASSUME NEW i \in DOMAIN links', links'[i].exp > now'
        PROVE  links'[i].sig = Console' \/ \E r \in c.arg.rows : r.id = i
    BY <1>1, <2>1, <2>2 DEF CallOK, Covers
  <2> QED
    BY <1>1, <2>2 DEF CallOK, Covers, Is
<1> QED
  BY <1>1 DEF CallOK, Is

\* So it is with all of them, when one at most is added.
LEMMA CallsKept ==
  ASSUME Inv, now' \in Nat, Grows,
         NEW d, calls' \subseteq calls \cup {d}, d \in calls \/ CallOK(d)'
  PROVE  CallsOK'
BY Kept DEF CallsOK, Inv, TypeOK

\* Most steps touch neither the table nor the clock nor the console's secret.
LEMMA Untouched ==
  ASSUME TypeOK, UNCHANGED <<links, now>>, Console' = Console
  PROVE  Grows /\ now' \in Nat
BY DEF Grows, TypeOK

-----------------------------------------------------------------------------
\* What the server does.
LEMMA ServeKeeps ==
  ASSUME Inv, NEW c \in calls, Serve(c)
  PROVE  Inv'
<1> USE DEF Inv
<1>1. CASE GetLinks(c)
  <2>1. TypeOK'
    BY <1>1 DEF GetLinks, world, TypeOK
  <2>2. LinkRows \subseteq Row
    BY DEF LinkRows, TypeOK
  <2> PICK d : d = [st |-> "ok", kind |-> c.kind, arg |-> [rows |-> LinkRows]]
    OBVIOUS
  <2>3. CallOK(d)'
    BY <1>1, <2>2 DEF CallOK, Is, GetLinks
  <2>4. calls' \subseteq calls \cup {d}
    BY <1>1 DEF GetLinks, Done, Moved
  <2>5. Grows /\ now' \in Nat
    BY <1>1, Untouched DEF GetLinks, world, Console
  <2> QED
    BY <2>1, <2>3, <2>4, <2>5, CallsKept
<1>2. CASE PostLink(c)
  <2>1. TypeOK'
    BY <1>2 DEF PostLink, world, TypeOK
  <2> PICK d : d = [st |-> "signing", kind |-> c.kind,
                   arg |-> [exp |-> now + c.arg.life, sig |-> Console]]
    OBVIOUS
  <2>2. now + c.arg.life \in Expiries
    BY <1>2 DEF TypeOK, Expiries, CallsOK, CallOK, PostLink
  <2>3. CallOK(d)'
    BY <1>2, <2>2 DEF CallOK, Is, PostLink, world, Console
  <2>4. calls' \subseteq calls \cup {d}
    BY <1>2 DEF PostLink, Signs, Moved, Console
  <2>5. Grows /\ now' \in Nat
    BY <1>2, Untouched DEF PostLink, world, Console
  <2> QED
    BY <2>1, <2>3, <2>4, <2>5, CallsKept
<1>3. CASE StoreLink(c)
  <2> DEFINE id == lastLink + 1
  <2> PICK row : row = [id |-> id, exp |-> c.arg.exp, sig |-> c.arg.sig]
    OBVIOUS
  <2> PICK d : d = [st |-> "ok", kind |-> c.kind, arg |-> row]
    OBVIOUS
  <2>1. row \in Row /\ c.arg.sig = Console
    BY <1>3 DEF TypeOK, Row, Secrets, Places, Console, CallsOK, CallOK, StoreLink
  <2>2. /\ DOMAIN links' = DOMAIN links \cup {id}
        /\ \A i \in DOMAIN links' : links'[i] = IF i = id THEN row ELSE links[i]
        /\ links' = [i \in DOMAIN links' |-> links'[i]]
        /\ lastLink' = id
    BY <1>3 DEF StoreLink
  <2>3. TypeOK'
    <3>1. row.id = id
      OBVIOUS
    <3>2. /\ lastLink' \in Nat /\ DOMAIN links' \subseteq 1..lastLink'
          /\ \A i \in DOMAIN links' : links'[i] \in Row /\ links'[i].id = i
      BY <2>1, <2>2, <3>1 DEF TypeOK
    <3> HIDE DEF id
    <3> QED
      BY <1>3, <2>2, <3>2 DEF StoreLink, world, TypeOK
  <2>4. CallOK(d)'
    BY <1>3, <2>1 DEF CallOK, Is, StoreLink
  <2>5. calls' \subseteq calls \cup {d}
    BY <1>3 DEF StoreLink, Done, Moved
  <2>6. Grows /\ now' \in Nat
    BY <1>3, <2>1, <2>2 DEF Grows, StoreLink, world, Console, TypeOK
  <2> QED
    BY <2>3, <2>4, <2>5, <2>6, CallsKept
<1>4. CASE DeleteLink(c)
  <2>1. TypeOK'
    BY <1>4 DEF DeleteLink, world, TypeOK
  <2> PICK d : d = [st |-> "ok", kind |-> c.kind, arg |-> c.arg]
    OBVIOUS
  <2>2. CallOK(d)'
    BY <1>4 DEF CallOK, Is, DeleteLink
  <2>3. calls' \subseteq calls \cup {d}
    BY <1>4 DEF DeleteLink, Done, Moved
  <2>4. Grows /\ now' \in Nat
    BY <1>4 DEF Grows, DeleteLink, world, Console, TypeOK
  <2> QED
    BY <2>1, <2>2, <2>3, <2>4, CallsKept
<1>5. CASE PostReissue(c)
  <2>1. TypeOK'
    BY <1>5 DEF PostReissue, world, TypeOK
  <2> PICK rows : rows = {[r EXCEPT !.sig = Console] : r \in {q \in LinkRows : Relevant(q.exp)}}
    OBVIOUS
  <2> PICK d : d = [st |-> "signing", kind |-> c.kind, arg |-> [rows |-> rows]]
    OBVIOUS
  <2>2. Covers(rows)
    <3>1. \A r \in LinkRows : r \in Row
      BY DEF LinkRows, TypeOK
    <3>2. \A r \in rows : r.sig = Console
      BY <3>1 DEF Row
    <3>3. ASSUME NEW i \in DOMAIN links, links[i].exp > now
          PROVE  \E r \in rows : r.id = i
      <4>1. links[i] \in LinkRows /\ links[i] \in Row /\ links[i].id = i
        BY DEF TypeOK, LinkRows
      <4>2. Relevant(links[i].exp)
        BY <3>3, <4>1, WatchableIsRelevant DEF Row
      <4>3. [links[i] EXCEPT !.sig = Console] \in rows
        BY <4>1, <4>2
      <4>4. [links[i] EXCEPT !.sig = Console].id = i
        BY <4>1 DEF Row
      <4> QED
        BY <4>3, <4>4
    <3> QED
      BY <3>2, <3>3 DEF Covers
  <2>3. calls' \subseteq calls \cup {d}
    BY <1>5 DEF PostReissue, Signs, Moved, Console
  <2>4. Covers(rows)'
    BY <1>5, <2>2 DEF Covers, PostReissue, world, Console
  <2>5. CallOK(d)'
    BY <1>5, <2>4 DEF CallOK, Is, PostReissue
  <2>6. Grows /\ now' \in Nat
    BY <1>5, Untouched DEF PostReissue, world, Console
  <2> QED
    BY <2>1, <2>3, <2>5, <2>6, CallsKept
<1>6. CASE StoreReissue(c)
  <2> PICK d : d = [st |-> "ok", kind |-> c.kind, arg |-> Nothing]
    OBVIOUS
  <2>1. \A i \in DOMAIN links :
          /\ links'[i] \in Row /\ links'[i].id = i
          /\ links'[i].exp = links[i].exp
          /\ links'[i].sig \in {Console, links[i].sig}
    <3> SUFFICES ASSUME NEW i \in DOMAIN links
                 PROVE  /\ links'[i] \in Row /\ links'[i].id = i
                        /\ links'[i].exp = links[i].exp
                        /\ links'[i].sig \in {Console, links[i].sig}
      OBVIOUS
    <3>1. links[i] \in Row /\ links[i].id = i /\ Console \in Secrets
      BY DEF TypeOK, Console, Places
    <3>2. CASE \E r \in c.arg.rows : r.id = i
      <4> DEFINE q == CHOOSE r \in c.arg.rows : r.id = i
      <4>1. q \in c.arg.rows
        BY <3>2
      <4>2. q.sig = Console
        BY <1>6, <4>1 DEF StoreReissue, CallsOK, CallOK, Covers
      <4>3. links'[i] = [links[i] EXCEPT !.sig = q.sig]
        BY <1>6, <3>2 DEF StoreReissue, Written
      <4> HIDE DEF q
      <4> QED
        BY <3>1, <4>2, <4>3 DEF Row
    <3>3. CASE ~ \E r \in c.arg.rows : r.id = i
      <4>1. links'[i] = links[i]
        BY <1>6, <3>3 DEF StoreReissue, Written
      <4> QED
        BY <3>1, <4>1
    <3> QED
      BY <3>2, <3>3
  <2>2. DOMAIN links' = DOMAIN links /\ links' = [i \in DOMAIN links' |-> links'[i]]
    BY <1>6 DEF StoreReissue, Written
  <2>3. TypeOK'
    BY <1>6, <2>1, <2>2 DEF StoreReissue, world, TypeOK
  <2>4. CallOK(d)'
    BY <1>6 DEF CallOK, Is, StoreReissue
  <2>5. calls' \subseteq calls \cup {d}
    BY <1>6 DEF StoreReissue, Done, Moved
  <2>6. Grows /\ now' \in Nat
    BY <1>6, <2>1, <2>2 DEF Grows, StoreReissue, world, Console, TypeOK
  <2> QED
    BY <2>3, <2>4, <2>5, <2>6, CallsKept
<1> QED
  BY <1>1, <1>2, <1>3, <1>4, <1>5, <1>6 DEF Serve

\* A call refused or lost, and an answer that arrives.
LEMMA RefuseKeeps ==
  ASSUME Inv, NEW c \in calls, Refuse(c)
  PROVE  Inv'
<1> USE DEF Inv
<1> PICK d : d = [st |-> "refused", kind |-> c.kind, arg |-> c.arg]
  OBVIOUS
<1>1. TypeOK'
  BY DEF Refuse, world, TypeOK
<1>2. CallOK(d)' /\ calls' \subseteq calls \cup {d}
  BY DEF CallOK, Is, Refuse, Denied, Moved
<1>3. Grows /\ now' \in Nat
  BY Untouched DEF Refuse, world, Console
<1> QED
  BY <1>1, <1>2, <1>3, CallsKept

LEMMA ArriveKeeps ==
  ASSUME Inv, NEW c \in calls, Arrive(c) \/ Lose(c)
  PROVE  Inv'
<1> USE DEF Inv
<1> DEFINE Page == [list : SUBSET Row, making : BOOLEAN, feed : {"none", "up", "down"},
                    rotate : Rotation]
<1>1. /\ UNCHANGED <<links, lastLink, world>>
      /\ calls' \subseteq calls \cup {c}
  BY DEF Arrive, LinksArrive, LinkMade, DeleteAnswered, ReissueAnswered, Arrives, Lose
<1>2. page' \in Page
  <2>0. page \in Page
    BY DEF TypeOK
  <2>1. CASE LinksArrive(c)
    <3>1. CASE Is(c, "ok", "list")
      <4>1. c.arg.rows \subseteq Row
        BY <3>1 DEF CallsOK, CallOK
      <4> QED
        BY <2>0, <2>1, <3>1, <4>1 DEF LinksArrive, Arrives, Is
    <3> QED
      BY <2>0, <2>1, <3>1 DEF LinksArrive, Arrives
  <2>2. CASE LinkMade(c)
    <3>1. CASE Is(c, "ok", "create")
      <4>1. c.arg \in Row
        BY <3>1 DEF CallsOK, CallOK
      <4>2. page.list \cup {c.arg} \in SUBSET Row
        BY <2>0, <4>1
      <4>3. page' = [page EXCEPT !.list = page.list \cup {c.arg}, !.making = FALSE]
        BY <2>2, <3>1 DEF LinkMade, Arrives, Is
      <4> QED
        BY <2>0, <4>2, <4>3
    <3> QED
      BY <2>0, <2>2, <3>1 DEF LinkMade, Arrives
  <2>3. CASE DeleteAnswered(c)
    BY <2>0, <2>3 DEF DeleteAnswered, Arrives
  <2>4. CASE ReissueAnswered(c)
    <3>1. PICK b \in BOOLEAN : page' = [page EXCEPT !.rotate.said = b]
      BY <2>0, <2>4 DEF ReissueAnswered, Arrives, Rotation
    <3>2. [page.rotate EXCEPT !.said = b] \in Rotation
      BY <2>0 DEF Rotation
    <3> QED
      BY <2>0, <3>1, <3>2
  <2>5. CASE Lose(c)
    BY <2>0, <2>5 DEF Lose
  <2> QED
    BY <2>1, <2>2, <2>3, <2>4, <2>5 DEF Arrive
<1>3. TypeOK'
  BY <1>1, <1>2 DEF world, TypeOK
<1>4. Grows /\ now' \in Nat
  BY <1>1, Untouched DEF world, Console
<1> QED
  BY <1>1, <1>3, <1>4, CallsKept

\* What the operator does, in the page and to the two containers.
LEMMA OperatorKeeps ==
  ASSUME Inv,
         \/ \E file \in {"env", "xml"} : Edit(file)
         \/ StopOme \/ StartOme \/ RestartConsole \/ Tick
         \/ PollLinks
         \/ \E life \in Lifetimes : GenerateLink(life)
         \/ \E row \in page.list : Delete(row)
         \/ FeedShown \/ OpenRotate \/ CloseRotate \/ CheckEngine \/ ClickReissue
  PROVE  Inv'
<1> USE DEF Inv
<1> DEFINE Page == [list : SUBSET Row, making : BOOLEAN, feed : {"none", "up", "down"},
                    rotate : Rotation]
<1>0. page \in Page /\ secret \in [Places -> Secrets] /\ page.rotate.shown \in Secrets
  BY DEF TypeOK, Rotation
<1>1. CASE \E file \in {"env", "xml"} : Edit(file)
  <2>1. secret' \in [Places -> Secrets] /\ Console' = Console
    BY <1>0, <1>1 DEF Edit, Console, Places
  <2>2. TypeOK'
    BY <1>1, <2>1 DEF Edit, TypeOK
  <2>3. Grows /\ now' \in Nat /\ calls' = calls
    BY <1>1, <2>1, Untouched DEF Edit
  <2> QED
    BY <2>2, <2>3, Kept DEF CallsOK, TypeOK
<1>2. CASE StopOme \/ StartOme
  <2>1. secret' \in [Places -> Secrets] /\ Console' = Console
    BY <1>0, <1>2 DEF StopOme, StartOme, Console, Places
  <2>2. TypeOK'
    BY <1>2, <2>1 DEF StopOme, StartOme, TypeOK
  <2>3. Grows /\ now' \in Nat /\ calls' = calls
    BY <1>2, <2>1, Untouched DEF StopOme, StartOme
  <2> QED
    BY <2>2, <2>3, Kept DEF CallsOK, TypeOK
<1>3. CASE RestartConsole
  <2>1. secret' \in [Places -> Secrets] /\ page' \in Page
    BY <1>0, <1>3 DEF RestartConsole, Places
  <2>2. TypeOK'
    BY <1>3, <2>1 DEF RestartConsole, TypeOK
  <2> QED
    BY <1>3, <2>2 DEF RestartConsole, CallsOK
<1>4. CASE Tick
  <2>1. TypeOK' /\ calls' = calls
    BY <1>4, LinksAssumption DEF Tick, TypeOK
  <2>2. Grows /\ now' \in Nat
    BY <1>4 DEF Tick, Grows, Console, TypeOK
  <2> QED
    BY <2>1, <2>2, Kept DEF CallsOK, TypeOK
<1>5. CASE PollLinks \/ ClickReissue \/ \E row \in page.list : Delete(row)
  <2>0. PICK kind, a : /\ kind \in {"list", "reissue", "delete"}
                      /\ Clicks(Sent(kind, a)) /\ page' = page
    BY <1>5, Zenon DEF PollLinks, ClickReissue, Delete
  <2> PICK d : d = Sent(kind, a)
    OBVIOUS
  <2>1. /\ calls' = calls \cup {d} /\ d.st = "sent" /\ d.kind # "create"
        /\ UNCHANGED <<links, lastLink, world, page>>
    BY <2>0 DEF Clicks, Sent
  <2>2. CallOK(d)'
    BY <2>1 DEF CallOK, Is
  <2>3. TypeOK'
    BY <2>1 DEF world, TypeOK
  <2>4. Grows /\ now' \in Nat
    BY <2>1, Untouched DEF world, Console
  <2> QED
    BY <2>1, <2>2, <2>3, <2>4, CallsKept
<1>6. CASE \E life \in Lifetimes : GenerateLink(life)
  <2>1. PICK life \in Lifetimes : GenerateLink(life)
    BY <1>6
  <2> PICK d : d = [st |-> "sent", kind |-> "create", arg |-> [life |-> life]]
    OBVIOUS
  <2>2. CallOK(d)' /\ calls' \subseteq calls \cup {d}
    BY <2>1 DEF CallOK, Is, GenerateLink, Sent
  <2>3. page' \in Page
    BY <1>0, <2>1 DEF GenerateLink
  <2>4. TypeOK'
    BY <2>1, <2>3 DEF GenerateLink, world, TypeOK
  <2>5. Grows /\ now' \in Nat
    BY <2>1, Untouched DEF GenerateLink, world, Console
  <2> QED
    BY <2>2, <2>4, <2>5, CallsKept
<1>7. CASE FeedShown \/ OpenRotate \/ CloseRotate \/ CheckEngine
  <2>1. /\ UNCHANGED <<links, lastLink, world, calls>>
        /\ page' \in Page
    <3>1. CASE FeedShown
      BY <1>0, <3>1 DEF FeedShown, Shows
    <3>2. CASE OpenRotate
      <4>1. page.rotate.shown + 1 \in Secrets
        BY <1>0, <3>2, LinksAssumption DEF OpenRotate, Secrets
      <4> QED
        BY <1>0, <3>2, <4>1 DEF OpenRotate, Shows, Rotation
    <3>3. CASE CloseRotate
      BY <1>0, <3>3 DEF CloseRotate, Shows, Rotation
    <3>4. CASE CheckEngine
      BY <1>0, <3>4 DEF CheckEngine, Shows, Rotation
    <3> QED
      BY <1>7, <3>1, <3>2, <3>3, <3>4
  <2>2. TypeOK'
    BY <2>1 DEF world, TypeOK
  <2>3. Grows /\ now' \in Nat
    BY <2>1, Untouched DEF world, Console
  <2> QED
    BY <2>1, <2>2, <2>3, Kept DEF CallsOK, TypeOK
<1> QED
  BY <1>1, <1>2, <1>3, <1>4, <1>5, <1>6, <1>7

-----------------------------------------------------------------------------
LEMMA InitInv == Init => Inv
<1> SUFFICES ASSUME Init PROVE Inv
  OBVIOUS
<1>1. /\ links = [i \in DOMAIN links |-> links[i]] /\ DOMAIN links = {}
      /\ secret \in [Places -> Secrets]
  BY LinksAssumption DEF Init, Secrets
<1>2. page.rotate \in Rotation
  BY LinksAssumption DEF Init, Secrets, Rotation
<1> QED
  BY <1>1, <1>2, LinksAssumption DEF Init, Inv, TypeOK, CallsOK

LEMMA StepInv == Inv /\ [Next]_vars => Inv'
<1> SUFFICES ASSUME Inv, [Next]_vars PROVE Inv'
  OBVIOUS
<1>1. CASE UNCHANGED vars
  <2>1. TypeOK'
    BY <1>1 DEF vars, Inv, TypeOK
  <2>2. CallsOK'
    BY <1>1 DEF vars, Inv, CallsOK, CallOK, Covers, Console
  <2> QED
    BY <2>1, <2>2 DEF Inv
<1>2. CASE \E c \in calls : Serve(c) \/ Refuse(c) \/ Arrive(c) \/ Lose(c)
  BY <1>2, ServeKeeps, RefuseKeeps, ArriveKeeps
<1>3. CASE Next /\ ~ \E c \in calls : Serve(c) \/ Refuse(c) \/ Arrive(c) \/ Lose(c)
  BY <1>3, OperatorKeeps DEF Next
<1> QED
  BY <1>1, <1>2, <1>3

\* Every state has the types of TypeOK: among them, no link is ever signed with
\* a secret that was not shown, and every row is found under its own id.
THEOREM TypesHold == Spec => []TypeOK
<1>1. Inv => TypeOK
  BY DEF Inv
<1> QED
  BY <1>1, InitInv, StepInv, PTL DEF Spec

\* A re-issue that wrote what Covers the table leaves no link behind.
LEMMA LeavesNone ==
  ASSUME Inv, NEW c \in calls, StoreReissue(c),
         NEW i \in DOMAIN links', links'[i].exp > now
  PROVE  links'[i].sig = Console
<1>1. i \in DOMAIN links /\ links[i] \in Row /\ Covers(c.arg.rows)
  BY DEF StoreReissue, Written, Inv, TypeOK, CallsOK, CallOK
<1>2. CASE \E r \in c.arg.rows : r.id = i
  <2> DEFINE q == CHOOSE r \in c.arg.rows : r.id = i
  <2>1. q \in c.arg.rows
    BY <1>2
  <2>2. links'[i] = [links[i] EXCEPT !.sig = q.sig]
    BY <1>1, <1>2 DEF StoreReissue, Written
  <2>3. q.sig = Console
    BY <1>1, <2>1 DEF Covers
  <2> HIDE DEF q
  <2> QED
    BY <1>1, <2>2, <2>3 DEF Row
<1>3. CASE ~ \E r \in c.arg.rows : r.id = i
  <2>1. links'[i] = links[i]
    BY <1>1, <1>3 DEF StoreReissue, Written
  <2> QED
    BY <1>1, <1>3, <2>1 DEF Covers
<1> QED
  BY <1>2, <1>3

\* After a re-issue every stored link that can still be watched carries the
\* console's secret, whatever was made, deleted or re-issued while it signed.
THEOREM NothingLeftBehind == Spec => NoneLeftBehind
<1>1. Inv /\ [Next]_vars =>
        [\A c \in calls : StoreReissue(c) =>
           \A i \in DOMAIN links' : links'[i].exp > now => links'[i].sig = secret["console"]]_vars
  BY LeavesNone DEF Console
<1> QED
  BY <1>1, InitInv, StepInv, PTL DEF Spec, NoneLeftBehind

\* The ids the table gives are given upwards.
IdsGoUp ==
  [][lastLink' >= lastLink /\ \A i \in DOMAIN links' \ DOMAIN links : i > lastLink]_vars

\* A deleted link is never stored again: what was signed before is written to
\* the rows that are still there, and a new link has an id greater than all that
\* were given before, the deleted ones included.
THEOREM DeletedForGood == Spec => DeletedStays /\ IdsGoUp
<1>1. ASSUME Inv, [Next]_vars
      PROVE  /\ [DOMAIN links' \subseteq DOMAIN links \cup {lastLink + 1}]_vars
             /\ [/\ lastLink' >= lastLink
                 /\ \A i \in DOMAIN links' \ DOMAIN links : i > lastLink]_vars
  <2>0. lastLink \in Nat
    BY <1>1 DEF Inv, TypeOK
  <2>1. CASE \E c \in calls : StoreLink(c)
    BY <2>0, <2>1 DEF StoreLink
  <2>2. CASE \E c \in calls : DeleteLink(c) \/ StoreReissue(c)
    BY <2>0, <2>2 DEF DeleteLink, StoreReissue, Written
  <2>3. CASE ~ \E c \in calls : StoreLink(c) \/ DeleteLink(c) \/ StoreReissue(c)
    <3>1. links' = links /\ lastLink' = lastLink
      BY <1>1, <2>3 DEF Next, vars, Serve, GetLinks, PostLink, PostReissue, Refuse, Arrive,
                        Lose, LinksArrive, LinkMade, DeleteAnswered, ReissueAnswered,
                        Arrives, Edit, StopOme, StartOme, RestartConsole, Tick, PollLinks,
                        GenerateLink, Delete, Clicks, FeedShown, OpenRotate, CloseRotate,
                        CheckEngine, ClickReissue, Shows
    <3> QED
      BY <2>0, <3>1
  <2> QED
    BY <2>1, <2>2, <2>3
<1> QED
  BY <1>1, InitInv, StepInv, PTL DEF Spec, DeletedStays, IdsGoUp
=============================================================================
