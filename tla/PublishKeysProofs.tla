--------------------------- MODULE PublishKeysProofs ----------------------------
(***************************************************************************)
(* Proofs about PublishKeys for any number of slots, keys and calls.       *)
(*                                                                         *)
(* The page and its calls carry copies of rows that may be older than the  *)
(* table by any number of steps.  What stays true of a copy is that it is  *)
(* Known: its id was given, so it is not given again, and while the table  *)
(* has a row under it, that row is for the slot and the expiry of the      *)
(* copy.  Deleted and revoked rows need no mention: an id has one owner.   *)
(***************************************************************************)
EXTENDS PublishKeys, TLAPS

Known(r) ==
  /\ r \in Row /\ r.id <= lastKey
  /\ r.id \in DOMAIN keys => keys[r.id].slot = r.slot /\ keys[r.id].exp = r.exp

CallOK(c) ==
  /\ Is(c, "ok", "list") => \A r \in c.arg.rows : Known(r)
  /\ Is(c, "sent", "create") => c.arg.slot \in Slots /\ c.arg.exp \in Expiries
  /\ Is(c, "ok", "create") => Known(c.arg)
  /\ c.kind \in {"revoke", "delete"} => Known(c.arg)

CallsOK == \A c \in calls : CallOK(c)

PageOK ==
  /\ \A r \in page.list : Known(r)
  /\ page.dialog # NoDialog => Known(page.dialog.row)

Inv == TypeOK /\ CallsOK /\ PageOK

Pages == [list : SUBSET Row, dialog : Dialog]

\* What a step may do to the table: ids grow, and a row that stays, or is new
\* under an id never given before, keeps its slot and its expiry.
Grows ==
  /\ lastKey' \in Nat /\ lastKey' >= lastKey
  /\ \A k \in DOMAIN keys' :
       k <= lastKey => /\ k \in DOMAIN keys
                       /\ keys'[k].slot = keys[k].slot /\ keys'[k].exp = keys[k].exp

-----------------------------------------------------------------------------
\* A copy that is known stays known.
LEMMA StaysKnown ==
  ASSUME TypeOK, Grows, NEW r, Known(r)
  PROVE  Known(r)'
BY KeysAssumption DEF TypeOK, Grows, Known, Row

\* So it is with what the calls carry, when one call at most is added, and with
\* what the page shows, while the page stays as it is.
LEMMA CallsKept ==
  ASSUME Inv, Grows, NEW d, calls' \subseteq calls \cup {d}, d \in calls \/ CallOK(d)'
  PROVE  CallsOK'
<1>1. ASSUME NEW c \in calls PROVE CallOK(c)'
  BY <1>1, StaysKnown DEF Inv, CallsOK, CallOK, Is
<1> QED
  BY <1>1 DEF CallsOK

LEMMA PageKept ==
  ASSUME Inv, Grows, page' = page
  PROVE  PageOK'
BY StaysKnown DEF Inv, PageOK

\* Most steps do not touch the table.
LEMMA Untouched ==
  ASSUME TypeOK, UNCHANGED table
  PROVE  Grows
BY DEF Grows, TypeOK, table

\* A row of the table is a known copy of itself.
LEMMA RowsKnown ==
  ASSUME TypeOK, NEW k \in DOMAIN keys
  PROVE  Known(keys[k])
BY DEF TypeOK, Known

-----------------------------------------------------------------------------
\* What the server does.
LEMMA ServeKeeps ==
  ASSUME Inv, NEW c \in calls, Serve(c)
  PROVE  Inv' /\ Grows
<1> USE DEF Inv
<1>1. CASE GetKeys(c)
  <2> PICK d : d = [st |-> "ok", kind |-> c.kind, arg |-> [rows |-> KeyRows]]
    OBVIOUS
  <2>1. Grows /\ TypeOK'
    BY <1>1, Untouched DEF GetKeys, table, TypeOK
  <2>2. \A r \in KeyRows : Known(r)'
    BY <2>1, RowsKnown, StaysKnown DEF KeyRows
  <2>3. CallOK(d)' /\ calls' \subseteq calls \cup {d}
    BY <1>1, <2>2 DEF CallOK, Is, GetKeys, Done, Moved
  <2>4. page' = page
    BY <1>1 DEF GetKeys
  <2> QED
    BY <2>1, <2>3, <2>4, CallsKept, PageKept
<1>2. CASE PostKey(c)
  <2> PICK row : row = [id |-> lastKey + 1, slot |-> c.arg.slot, exp |-> c.arg.exp, revoked |-> FALSE]
    OBVIOUS
  <2> PICK d : d = [st |-> "ok", kind |-> c.kind, arg |-> row]
    OBVIOUS
  <2>1. row \in Row /\ row.id = lastKey + 1
    BY <1>2, KeysAssumption DEF PostKey, NewId, Row, TypeOK, CallsOK, CallOK
  <2>2. /\ DOMAIN keys' = DOMAIN keys \cup {lastKey + 1} /\ lastKey' = lastKey + 1
        /\ \A k \in DOMAIN keys' : keys'[k] = IF k = lastKey + 1 THEN row ELSE keys[k]
    BY <1>2 DEF PostKey, NewId
  <2>3. lastKey' \in 0..MaxKeys
    BY <1>2, KeysAssumption DEF PostKey, NewId, TypeOK
  <2>4. /\ DOMAIN keys' \subseteq 1..lastKey'
        /\ \A k \in DOMAIN keys' : keys'[k] \in Row /\ keys'[k].id = k
    <3>1. lastKey \in Nat /\ DOMAIN keys \subseteq 1..lastKey
      BY KeysAssumption DEF TypeOK
    <3>2. DOMAIN keys' \subseteq 1..lastKey'
      BY <2>2, <3>1
    <3>3. ASSUME NEW k \in DOMAIN keys' PROVE keys'[k] \in Row /\ keys'[k].id = k
      <4>1. CASE k = lastKey + 1
        BY <2>1, <2>2, <4>1
      <4>2. CASE k # lastKey + 1
        BY <2>2, <4>2 DEF TypeOK
      <4> QED
        BY <4>1, <4>2
    <3> QED
      BY <3>2, <3>3
  <2>5. TypeOK'
    BY <1>2, <2>3, <2>4 DEF PostKey, TypeOK
  <2>6. Grows
    BY <2>2 DEF Grows, TypeOK
  <2>7. Known(row)'
    BY <2>1, <2>2, <2>3 DEF Known
  <2>8. CallOK(d)' /\ calls' \subseteq calls \cup {d}
    BY <1>2, <2>7 DEF CallOK, Is, PostKey, NewId, Done, Moved
  <2>9. page' = page
    BY <1>2 DEF PostKey
  <2> QED
    BY <2>5, <2>6, <2>8, <2>9, CallsKept, PageKept
<1>3. CASE PatchKey(c)
  <2> PICK d : d = [st |-> "ok", kind |-> c.kind, arg |-> c.arg]
    OBVIOUS
  <2>1. /\ DOMAIN keys' = DOMAIN keys
        /\ \A k \in DOMAIN keys : /\ keys'[k] \in Row /\ keys'[k].id = k
                                  /\ keys'[k].slot = keys[k].slot /\ keys'[k].exp = keys[k].exp
    <3> DEFINE id == c.arg.id
    <3>1. keys' = IF id \in DOMAIN keys THEN [keys EXCEPT ![id].revoked = TRUE] ELSE keys
      BY <1>3 DEF PatchKey
    <3>2. \A k \in DOMAIN keys : keys[k] \in Row /\ keys[k].id = k
      BY DEF TypeOK
    <3> HIDE DEF id
    <3>3. \A k \in DOMAIN keys : keys'[k] = keys[k] \/ keys'[k] = [keys[k] EXCEPT !.revoked = TRUE]
      BY <3>1
    <3>4. ASSUME NEW r \in Row, NEW m, m = r \/ m = [r EXCEPT !.revoked = TRUE]
          PROVE  m \in Row /\ m.id = r.id /\ m.slot = r.slot /\ m.exp = r.exp
      BY <3>4 DEF Row
    <3>5. DOMAIN keys' = DOMAIN keys
      BY <3>1
    <3>6. ASSUME NEW k \in DOMAIN keys
          PROVE  /\ keys'[k] \in Row /\ keys'[k].id = k
                 /\ keys'[k].slot = keys[k].slot /\ keys'[k].exp = keys[k].exp
      <4>1. keys[k] \in Row /\ keys[k].id = k
        BY <3>2
      <4>2. keys'[k] = keys[k] \/ keys'[k] = [keys[k] EXCEPT !.revoked = TRUE]
        BY <3>3
      <4> QED
        BY <3>4, <4>1, <4>2
    <3> QED
      BY <3>5, <3>6
  <2>2. TypeOK' /\ Grows
    <3>1. TypeOK'
      BY <1>3, <2>1 DEF PatchKey, TypeOK
    <3>2. Grows
      BY <1>3, <2>1, KeysAssumption DEF PatchKey, TypeOK, Grows
    <3> QED
      BY <3>1, <3>2
  <2>3. Known(c.arg)'
    BY <1>3, <2>2, StaysKnown DEF CallsOK, CallOK, PatchKey, Is
  <2>4. CallOK(d)' /\ calls' \subseteq calls \cup {d}
    BY <1>3, <2>3 DEF CallOK, Is, PatchKey, Done, Moved
  <2>5. page' = page
    BY <1>3 DEF PatchKey
  <2> QED
    BY <2>2, <2>4, <2>5, CallsKept, PageKept
<1>4. CASE DeleteKey(c)
  <2> PICK d : d = [st |-> "ok", kind |-> c.kind, arg |-> c.arg]
    OBVIOUS
  <2>1. /\ DOMAIN keys' \subseteq DOMAIN keys
        /\ \A k \in DOMAIN keys' : keys'[k] = keys[k]
    BY <1>4 DEF DeleteKey
  <2>2. TypeOK' /\ Grows
    BY <1>4, <2>1 DEF DeleteKey, TypeOK, Grows
  <2>3. Known(c.arg)'
    BY <1>4, <2>2, StaysKnown DEF CallsOK, CallOK, DeleteKey, Is
  <2>4. CallOK(d)' /\ calls' \subseteq calls \cup {d}
    BY <1>4, <2>3 DEF CallOK, Is, DeleteKey, Done, Moved
  <2>5. page' = page
    BY <1>4 DEF DeleteKey
  <2> QED
    BY <2>2, <2>4, <2>5, CallsKept, PageKept
<1> QED
  BY <1>1, <1>2, <1>3, <1>4 DEF Serve

\* A call refused, an answer that arrives, and a call that is lost.
LEMMA RefuseKeeps ==
  ASSUME Inv, NEW c \in calls, Refuse(c)
  PROVE  Inv'
<1> USE DEF Inv
<1> PICK d : d = [st |-> "refused", kind |-> c.kind, arg |-> c.arg]
  OBVIOUS
<1>1. TypeOK' /\ Grows
  BY Untouched, KeysAssumption DEF Refuse, table, TypeOK
<1>2. \A r : Known(r) => Known(r)'
  BY <1>1, StaysKnown
<1>3. CallOK(d)' /\ calls' \subseteq calls \cup {d}
  BY <1>2 DEF CallsOK, CallOK, Is, Refuse, Denied, Moved
<1>4. page' = page
  BY DEF Refuse
<1> QED
  BY <1>1, <1>3, <1>4, CallsKept, PageKept

LEMMA ArriveKeeps ==
  ASSUME Inv, NEW c \in calls, Arrive(c) \/ Lose(c)
  PROVE  Inv'
<1> USE DEF Inv
<1>1. /\ UNCHANGED <<table, now>> /\ faults' \in 0..MaxFaults
      /\ calls' \subseteq calls \cup {c}
  BY KeysAssumption
     DEF Arrive, KeysArrive, KeyCreated, RevokeAnswered, DeleteAnswered, Arrives, Lose, TypeOK
<1>2. Grows
  BY <1>1, Untouched
<1>3. \A r : Known(r)' <=> Known(r)
  BY <1>1 DEF Known, table
<1>4. \A kind : Shut(kind) \in Dialog /\ (Shut(kind) # NoDialog => Known(Shut(kind).row))
  BY DEF Shut, TypeOK, PageOK, Dialog
<1>5. page \in Pages /\ \A r \in page.list : Known(r) /\ r \in Row
  BY DEF TypeOK, Pages, PageOK
<1>6. ASSUME NEW l, NEW g, page' = [page EXCEPT !.list = l, !.dialog = g],
             \A r \in l : Known(r), g \in Dialog, g # NoDialog => Known(g.row)
      PROVE  Inv'
  <2>1. l \in SUBSET Row
    BY <1>6 DEF Known
  <2>2. page' \in Pages /\ page'.list = l /\ page'.dialog = g
    BY <1>5, <1>6, <2>1 DEF Pages
  <2>3. TypeOK'
    BY <1>1, <2>2 DEF TypeOK, Pages, table
  <2>4. PageOK'
    BY <1>3, <1>6, <2>2 DEF PageOK
  <2> QED
    BY <1>1, <1>2, <2>3, <2>4, CallsKept
<1>7. /\ page.dialog \in Dialog /\ (page.dialog # NoDialog => Known(page.dialog.row))
      /\ \A l : [page EXCEPT !.list = l] = [page EXCEPT !.list = l, !.dialog = page.dialog]
      /\ \A g : [page EXCEPT !.dialog = g] = [page EXCEPT !.list = page.list, !.dialog = g]
      /\ page = [page EXCEPT !.list = page.list, !.dialog = page.dialog]
  BY <1>5 DEF Pages, PageOK
<1>8. CASE KeysArrive(c)
  <2>1. PICK l : page' = [page EXCEPT !.list = l] /\ \A r \in l : Known(r)
    BY <1>8 DEF KeysArrive, Arrives, CallsOK, CallOK
  <2> QED
    BY <1>6, <1>7, <2>1
<1>9. CASE KeyCreated(c)
  <2>1. CASE page' = page
    BY <1>5, <1>6, <1>7, <2>1
  <2>2. CASE page' # page
    <3>1. page' = [page EXCEPT !.list = page.list \cup {c.arg}] /\ Known(c.arg)
      BY <1>9, <2>2 DEF KeyCreated, Arrives, CallsOK, CallOK
    <3>2. \A r \in page.list \cup {c.arg} : Known(r)
      BY <1>5, <3>1
    <3> QED
      BY <1>6, <1>7, <3>1, <3>2
  <2> QED
    BY <2>1, <2>2
<1>10. CASE RevokeAnswered(c)
  <2> DEFINE l == {IF r.id = c.arg.id THEN [r EXCEPT !.revoked = TRUE] ELSE r : r \in page.list}
  <2>1. \A r \in page.list : Known([r EXCEPT !.revoked = TRUE])
    BY <1>5 DEF Known, Row
  <2>2. \A r \in l : Known(r)
    BY <1>5, <2>1
  <2>3. page' = [page EXCEPT !.list = l, !.dialog = Shut("revoke")]
    BY <1>10 DEF RevokeAnswered, Arrives
  <2> HIDE DEF l
  <2> QED
    BY <1>4, <1>6, <2>2, <2>3
<1>11. CASE DeleteAnswered(c)
  <2> DEFINE l == {r \in page.list : r.id # c.arg.id}
  <2>1. \A r \in l : Known(r)
    BY <1>5
  <2>2. page' = [page EXCEPT !.list = l, !.dialog = Shut("delete")]
    BY <1>11 DEF DeleteAnswered, Arrives
  <2> HIDE DEF l
  <2> QED
    BY <1>4, <1>6, <2>1, <2>2
<1>12. CASE Lose(c)
  <2>1. page' = [page EXCEPT !.list = page.list, !.dialog = Shut(c.kind)]
    BY <1>7, <1>12 DEF Lose
  <2> QED
    BY <1>4, <1>5, <1>6, <2>1
<1> QED
  BY <1>8, <1>9, <1>10, <1>11, <1>12 DEF Arrive

\* The clicks and the timer of the page.
LEMMA PageMoves ==
  ASSUME Inv,
         \/ PollKeys \/ Cancel \/ Confirm
         \/ \E f \in KeyForm : CreateKey(f)
         \/ \E row \in page.list : \E kind \in Buttons(row) : Ask(kind, row)
  PROVE  Inv'
<1> USE DEF Inv
<1>1. UNCHANGED <<table, now, faults>>
  BY DEF PollKeys, Cancel, Confirm, CreateKey, Ask, Clicks, Shows
<1>2. Grows /\ \A r : Known(r)' <=> Known(r)
  BY <1>1, Untouched DEF Known, table
<1>3. page \in Pages
  BY DEF TypeOK, Pages
<1>4. CASE PollKeys \/ Confirm \/ \E f \in KeyForm : CreateKey(f)
  <2>1. PICK d : calls' = calls \cup {d} /\ CallOK(d) /\ page' = page
    <3>1. CASE PollKeys
      <4> PICK d : d = Sent("list", Nothing)
        OBVIOUS
      <4>1. CallOK(d)
        BY DEF Sent, CallOK, Is
      <4> QED
        BY <3>1, <4>1, Zenon DEF PollKeys, Clicks
    <3>2. CASE Confirm
      <4> PICK d : d = Sent(page.dialog.ask, page.dialog.row)
        OBVIOUS
      <4>1. page.dialog.ask \in {"revoke", "delete"} /\ Known(page.dialog.row)
        BY <3>2 DEF Confirm, TypeOK, Dialog, PageOK
      <4>2. CallOK(d)
        BY <4>1 DEF Sent, CallOK, Is
      <4> QED
        BY <3>2, <4>2, Zenon DEF Confirm, Clicks
    <3>3. CASE \E f \in KeyForm : CreateKey(f)
      <4>1. PICK f \in KeyForm : CreateKey(f)
        BY <3>3
      <4> PICK d : d = Sent("create", [slot |-> f.slot, exp |-> f.exp,
                                       n |-> Cardinality(Waiting("create"))])
        OBVIOUS
      <4>2. CallOK(d)
        BY <4>1 DEF Sent, CallOK, Is, KeyForm
      <4> QED
        BY <4>1, <4>2, Zenon DEF CreateKey, Clicks
    <3> QED
      BY <1>4, <3>1, <3>2, <3>3
  <2>2. CallOK(d)'
    BY <1>2, <2>1 DEF CallOK, Is
  <2>3. TypeOK'
    BY <1>1, <2>1 DEF TypeOK, table
  <2> QED
    BY <1>2, <2>1, <2>2, <2>3, CallsKept, PageKept
<1>5. CASE Cancel \/ \E row \in page.list : \E kind \in Buttons(row) : Ask(kind, row)
  <2>1. PICK g \in Dialog : /\ page' = [page EXCEPT !.dialog = g] /\ calls' = calls
                            /\ g # NoDialog => Known(g.row)
    <3>1. CASE Cancel
      BY <3>1, Zenon DEF Cancel, Shows, Dialog
    <3>2. CASE \E row \in page.list : \E kind \in Buttons(row) : Ask(kind, row)
      <4>1. PICK row \in page.list, kind \in {"revoke", "delete"} : Ask(kind, row)
        BY <3>2 DEF Buttons
      <4> PICK g : g = [ask |-> kind, row |-> row]
        OBVIOUS
      <4>2. Known(row) /\ row \in Row
        BY DEF PageOK, Known
      <4>3. g \in Dialog /\ Known(g.row)
        BY <4>2 DEF Dialog
      <4>4. page' = [page EXCEPT !.dialog = g] /\ calls' = calls
        BY <4>1 DEF Ask, Shows
      <4> QED
        BY <4>3, <4>4
    <3> QED
      BY <1>5, <3>1, <3>2
  <2>2. page' \in Pages /\ page'.list = page.list /\ page'.dialog = g
    BY <1>3, <2>1 DEF Pages
  <2>3. TypeOK'
    BY <1>1, <2>2 DEF TypeOK, Pages, table
  <2>4. PageOK'
    BY <1>2, <2>1, <2>2 DEF PageOK
  <2>5. CallsOK'
    BY <1>2, <2>1 DEF CallsOK, CallOK, Is
  <2> QED
    BY <2>3, <2>4, <2>5
<1> QED
  BY <1>4, <1>5

\* The clock.
LEMMA TickKeeps ==
  ASSUME Inv, Tick
  PROVE  Inv'
<1> USE DEF Inv
<1>1. UNCHANGED <<table, page, calls>>
  BY DEF Tick
<1>2. now' \in 0..MaxTime /\ faults' \in 0..MaxFaults
  BY KeysAssumption DEF Tick, TypeOK
<1>3. TypeOK'
  BY <1>1, <1>2 DEF TypeOK, table
<1>4. CallsOK' /\ PageOK'
  BY <1>1 DEF table, CallsOK, CallOK, PageOK, Known
<1> QED
  BY <1>3, <1>4

-----------------------------------------------------------------------------
LEMMA InitInv == Init => Inv
BY KeysAssumption DEF Init, Inv, TypeOK, CallsOK, PageOK, Dialog

LEMMA StepInv == Inv /\ [Next]_vars => Inv'
<1> SUFFICES ASSUME Inv, [Next]_vars PROVE Inv'
  OBVIOUS
<1>1. CASE UNCHANGED vars
  <2>1. TypeOK'
    BY <1>1 DEF vars, Inv, TypeOK, table
  <2>2. CallsOK' /\ PageOK'
    BY <1>1 DEF vars, Inv, table, CallsOK, CallOK, PageOK, Known
  <2> QED
    BY <2>1, <2>2 DEF Inv
<1>2. CASE \E c \in calls : Serve(c) \/ Refuse(c) \/ Arrive(c) \/ Lose(c)
  BY <1>2, ServeKeeps, RefuseKeeps, ArriveKeeps
<1>3. CASE Tick
  BY <1>3, TickKeeps
<1>4. CASE \/ PollKeys \/ Cancel \/ Confirm
           \/ \E f \in KeyForm : CreateKey(f)
           \/ \E row \in page.list : \E kind \in Buttons(row) : Ask(kind, row)
  BY <1>4, PageMoves
<1> QED
  BY <1>1, <1>2, <1>3, <1>4 DEF Next

\* Every state has the types of TypeOK: among them, a row of the table is found
\* under its own id, and no id above the last one given is in use.
THEOREM TypesHold == Spec => []TypeOK
<1>1. Inv => TypeOK
  BY DEF Inv
<1> QED
  BY <1>1, InitInv, StepInv, PTL DEF Spec

\* Only a revoke or a delete changes or removes a row, and it carries the row as
\* the page knew it.
LEMMA NamesTheRow ==
  ASSUME Inv, Next, NEW k \in DOMAIN keys,
         k \notin DOMAIN keys' \/ keys'[k].revoked # keys[k].revoked
  PROVE  \E c \in calls : /\ c.kind \in {"revoke", "delete"}
                          /\ c.arg.id = k
                          /\ c.arg.slot = keys[k].slot /\ c.arg.exp = keys[k].exp
<1>1. PICK c \in calls : PostKey(c) \/ PatchKey(c) \/ DeleteKey(c)
  BY DEF Next, Serve, Refuse, Arrive, Lose, GetKeys, KeysArrive, KeyCreated, RevokeAnswered,
         DeleteAnswered, Arrives, PollKeys, Cancel,
         Confirm, Tick, CreateKey, Ask, Clicks, Shows, table
<1>2. ~PostKey(c)
  BY KeysAssumption DEF PostKey, NewId, Inv, TypeOK
<1>3. c.kind \in {"revoke", "delete"} /\ c.arg.id = k
  BY <1>1, <1>2 DEF PatchKey, DeleteKey, Is
<1>4. Known(c.arg)
  BY <1>3 DEF Inv, CallsOK, CallOK
<1> QED
  BY <1>3, <1>4 DEF Known

\* A revoke or a delete hits the very key that its dialog showed, however old the
\* page's copy of the table is.
THEOREM HitsTheShownKey == Spec => HitsWhatItShowed
<1>1. Inv /\ [Next]_vars =>
        [\A k \in DOMAIN keys :
           (k \notin DOMAIN keys' \/ keys'[k].revoked # keys[k].revoked)
             => \E c \in calls : /\ c.kind \in {"revoke", "delete"}
                                /\ c.arg.id = k
                                /\ c.arg.slot = keys[k].slot /\ c.arg.exp = keys[k].exp]_vars
  BY NamesTheRow
<1> QED
  BY <1>1, InitInv, StepInv, PTL DEF Spec, HitsWhatItShowed

-----------------------------------------------------------------------------
(* The page goes on showing the table.  An answer that was given before    *)
(* the table was last changed can still undo that, once each; what remains *)
(* to be shown is that no new one can.                                     *)

\* The page shows the table, and no answer on its way would change that.
CaughtUp ==
  /\ page.list = KeyRows
  /\ \A c \in calls :
       /\ Is(c, "ok", "list") => c.arg.rows = KeyRows
       /\ Is(c, "ok", "create") => c.arg \in KeyRows
       /\ Is(c, "ok", "revoke") => \A r \in KeyRows : r.id = c.arg.id => r.revoked
       /\ Is(c, "ok", "delete") => \A r \in KeyRows : r.id # c.arg.id
       /\ c.kind # "create" => c.st # "refused"

\* A call that is carried out and leaves the table as it is: its answer agrees with it.
LEMMA ServeAgrees ==
  ASSUME TypeOK, CaughtUp, UNCHANGED table, NEW c \in calls, Serve(c)
  PROVE  CaughtUp'
<1> USE DEF TypeOK, table
<1>1. KeyRows' = KeyRows
  BY DEF KeyRows
<1>2. page' = page
  BY DEF Serve, GetKeys, PostKey, PatchKey, DeleteKey
<1> DEFINE Agrees(d) ==
      /\ Is(d, "ok", "list") => d.arg.rows = KeyRows
      /\ Is(d, "ok", "create") => d.arg \in KeyRows
      /\ Is(d, "ok", "revoke") => \A r \in KeyRows : r.id = d.arg.id => r.revoked
      /\ Is(d, "ok", "delete") => \A r \in KeyRows : r.id # d.arg.id
      /\ d.kind # "create" => d.st # "refused"
<1>3. PICK d : Agrees(d) /\ calls' \subseteq calls \cup {d}
  <2>1. CASE GetKeys(c)
    <3> DEFINE d == [st |-> "ok", kind |-> c.kind, arg |-> [rows |-> KeyRows]]
    <3>1. c.kind = "list" /\ calls' = (calls \ {c}) \cup {d}
      BY <2>1 DEF GetKeys, Is, Done, Moved
    <3>2. Agrees(d)
      BY <3>1 DEF Is
    <3> HIDE DEF d, Agrees
    <3> QED
      BY <3>1, <3>2
  <2>2. CASE PatchKey(c)
    <3> DEFINE d == [st |-> "ok", kind |-> c.kind, arg |-> c.arg]
    <3>1. c.kind = "revoke" /\ calls' = (calls \ {c}) \cup {d}
      BY <2>2 DEF PatchKey, Is, Done, Moved
    <3>2. c.arg.id \in DOMAIN keys => keys[c.arg.id].revoked
      <4>1. c.arg.id \in DOMAIN keys => keys = [keys EXCEPT ![c.arg.id].revoked = TRUE]
        BY <2>2 DEF PatchKey
      <4> QED
        BY <4>1 DEF Row
    <3>3. \A r \in KeyRows : r.id = c.arg.id => r.revoked
      BY <3>2 DEF KeyRows
    <3>4. Agrees(d)
      BY <3>1, <3>3 DEF Is
    <3> HIDE DEF d, Agrees
    <3> QED
      BY <3>1, <3>4
  <2>3. CASE DeleteKey(c)
    <3> DEFINE d == [st |-> "ok", kind |-> c.kind, arg |-> c.arg]
    <3>1. c.kind = "delete" /\ calls' = (calls \ {c}) \cup {d}
      BY <2>3 DEF DeleteKey, Is, Done, Moved
    <3>2. c.arg.id \notin DOMAIN keys
      <4>1. DOMAIN keys = DOMAIN keys \ {c.arg.id}
        BY <2>3 DEF DeleteKey
      <4> QED
        BY <4>1
    <3>3. \A r \in KeyRows : r.id # c.arg.id
      BY <3>2 DEF KeyRows
    <3>4. Agrees(d)
      BY <3>1, <3>3 DEF Is
    <3> HIDE DEF d, Agrees
    <3> QED
      BY <3>1, <3>4
  <2>4. ~PostKey(c)
    BY KeysAssumption DEF PostKey, NewId
  <2> QED
    BY <2>1, <2>2, <2>3, <2>4 DEF Serve
<1>4. \A x \in calls' : Agrees(x)
  <2>1. \A x \in calls : Agrees(x)
    BY DEF CaughtUp
  <2> HIDE DEF Agrees
  <2> QED
    BY <1>3, <2>1
<1> QED
  BY <1>1, <1>2, <1>4 DEF CaughtUp

\* An answer that agrees with the table leaves the page with the table.
LEMMA ArriveAgrees ==
  ASSUME TypeOK, CaughtUp, UNCHANGED table, NEW c \in calls, Arrive(c)
  PROVE  CaughtUp'
<1>1. KeyRows' = KeyRows
  BY DEF KeyRows, table
<1>2. calls' \subseteq calls
  BY DEF Arrive, KeysArrive, KeyCreated, RevokeAnswered, DeleteAnswered, Arrives
<1>3. page'.list = KeyRows
  <2> USE DEF TypeOK, CaughtUp
  <2>1. CASE KeysArrive(c)
    BY <2>1 DEF KeysArrive, Arrives, Is
  <2>2. CASE KeyCreated(c)
    <3>1. CASE Is(c, "ok", "create")
      <4>1. page'.list = page.list \cup {c.arg} /\ c.arg \in KeyRows
        BY <2>2, <3>1 DEF KeyCreated, Arrives, Is
      <4> QED
        BY <4>1
    <3>2. CASE ~Is(c, "ok", "create")
      BY <2>2, <3>2 DEF KeyCreated, Arrives
    <3> QED
      BY <3>1, <3>2
  <2>3. CASE RevokeAnswered(c)
    <3>1. /\ page'.list = {IF r.id = c.arg.id THEN [r EXCEPT !.revoked = TRUE] ELSE r : r \in KeyRows}
          /\ \A r \in KeyRows : r.id = c.arg.id => r.revoked
      BY <2>3 DEF RevokeAnswered, Arrives, Is
    <3>2. KeyRows \subseteq Row
      BY DEF KeyRows
    <3>3. \A r \in KeyRows : (IF r.id = c.arg.id THEN [r EXCEPT !.revoked = TRUE] ELSE r) = r
      BY <3>1, <3>2 DEF Row
    <3> DEFINE Marked(r) == IF r.id = c.arg.id THEN [r EXCEPT !.revoked = TRUE] ELSE r
    <3>4. page'.list = {Marked(r) : r \in KeyRows} /\ \A r \in KeyRows : Marked(r) = r
      BY <3>1, <3>3
    <3> HIDE DEF Marked
    <3> QED
      BY <3>4
  <2>4. CASE DeleteAnswered(c)
    <3>1. /\ page'.list = {r \in KeyRows : r.id # c.arg.id}
          /\ \A r \in KeyRows : r.id # c.arg.id
      BY <2>4 DEF DeleteAnswered, Arrives, Is
    <3> QED
      BY <3>1
  <2> QED
    BY <2>1, <2>2, <2>3, <2>4 DEF Arrive
<1> QED
  BY <1>1, <1>2, <1>3 DEF CaughtUp

LEMMA CaughtUpStep ==
  ASSUME TypeOK, CaughtUp, UNCHANGED <<table, faults>>, [Next]_vars
  PROVE  CaughtUp'
<1>1. KeyRows' = KeyRows
  BY DEF KeyRows, table
<1>2. ASSUME NEW c \in calls, Serve(c) \/ Arrive(c)
      PROVE  CaughtUp'
  BY <1>2, ServeAgrees, ArriveAgrees
<1>3. ASSUME NEW c \in calls, Refuse(c) \/ Lose(c)
      PROVE  FALSE
  BY <1>3, KeysAssumption DEF Refuse, Lose, TypeOK
<1>4. ASSUME page'.list = page.list,
             calls' = calls \/ \E d : d.st = "sent" /\ calls' = calls \cup {d}
      PROVE  CaughtUp'
  BY <1>1, <1>4 DEF CaughtUp, Is
<1>5. CASE PollKeys \/ Confirm \/ \E f \in KeyForm : CreateKey(f)
  <2>1. page' = page
    BY <1>5 DEF PollKeys, Confirm, CreateKey
  <2>2. \E d : d.st = "sent" /\ calls' = calls \cup {d}
    BY <1>5 DEF PollKeys, Confirm, CreateKey, Clicks, Sent
  <2> QED
    BY <1>4, <2>1, <2>2
<1>6. CASE \/ Cancel \/ Tick \/ UNCHANGED vars
           \/ \E row \in page.list : \E kind \in Buttons(row) : Ask(kind, row)
  BY <1>4, <1>6 DEF Cancel, Tick, Ask, Shows, vars, TypeOK
<1> QED
  BY <1>2, <1>3, <1>5, <1>6 DEF Next

\* Once the page shows the table and the answers on their way agree with it, it goes
\* on doing so, while the table stays as it is and no further call fails, in whatever
\* order polls, clicks and answers come (the copy in access/page.tsx, patched by three
\* kinds of answers and replaced by a fourth).
THEOREM PageStaysCaughtUp ==
  Spec => [][CaughtUp /\ UNCHANGED <<table, faults>> => CaughtUp']_vars
<1>1. TypeOK /\ [Next]_vars => [CaughtUp /\ UNCHANGED <<table, faults>> => CaughtUp']_vars
  BY CaughtUpStep
<1>2. Spec => [][Next]_vars
  BY PTL DEF Spec
<1> QED
  BY <1>1, <1>2, TypesHold, PTL
=================================================================================
