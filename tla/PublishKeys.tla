------------------------------- MODULE PublishKeys -------------------------------
(***************************************************************************)
(* Publish keys.  The table of keys (app/api/keys), the admission webhook  *)
(* by which OME asks whether a publisher may enter                         *)
(* (app/api/admission-webhook), and the half of the page access/page.tsx   *)
(* that shows and changes them.  The page keeps a copy of the table,       *)
(* refreshed every 5 s, and patches its copy when one of its own calls is  *)
(* answered.                                                               *)
(*                                                                         *)
(* The webhook only reads, in one go after its caller is verified, so it  *)
(* is the operator Admits of the table and the clock.                      *)
(*                                                                         *)
(* A slot stands for a stream name with a protocol, which is what the      *)
(* webhook looks a key up by; the holder's name and last_used_at decide    *)
(* nothing and are left out.                                               *)
(***************************************************************************)
EXTENDS Calls

CONSTANTS
  Slots,        \* stream names with their protocol
  MaxKeys,      \* bound: keys ever made
  MaxTime,      \* bound: the clock stops here
  Expiries,     \* the expiries a key may be given; MaxTime + 1 (NULL) is never
  MaxCalls,     \* bound: calls of the page under way at once
  MaxFaults     \* bound: calls that are refused or lost

ASSUME KeysAssumption ==
  /\ MaxKeys \in Nat /\ MaxTime \in Nat
  /\ Expiries \subseteq 0..MaxTime + 1
  /\ MaxCalls \in Nat \ {0} /\ MaxFaults \in Nat

VARIABLES
  keys,       \* the table: from ids to rows
  lastKey,    \* the id given last
  now,
  page,       \* what the page shows
  calls,      \* its calls under way
  faults      \* calls that failed so far

vars == <<keys, lastKey, now, page, calls, faults>>
table == <<keys, lastKey>>

Row    == [id : 1..MaxKeys, slot : Slots, exp : Expiries, revoked : BOOLEAN]

NoDialog == [ask |-> "none"]
Dialog == {NoDialog} \cup [ask : {"revoke", "delete"}, row : Row]

Init ==
  /\ keys = [i \in {} |-> 0] /\ lastKey = 0
  /\ now = 0
  /\ page = [list |-> {}, dialog |-> NoDialog]
  /\ calls = {}
  /\ faults = 0

(***************************************************************************)
(* The server                                                              *)
(***************************************************************************)
KeyRows == {keys[i] : i \in DOMAIN keys}

\* Mutant: INTEGER PRIMARY KEY without AUTOINCREMENT gives a deleted id again.
NewIdReused == 1 + Cardinality(DOMAIN keys)
NewId == lastKey + 1

GetKeys(c) ==
  /\ Is(c, "sent", "list")
  /\ calls' = Done(calls, c, [rows |-> KeyRows])
  /\ UNCHANGED <<table, now, page, faults>>

PostKey(c) ==
  LET row == [id |-> NewId, slot |-> c.arg.slot, exp |-> c.arg.exp, revoked |-> FALSE] IN
  /\ Is(c, "sent", "create")
  /\ NewId <= MaxKeys
  /\ keys' = [k \in DOMAIN keys \cup {NewId} |-> IF k = NewId THEN row ELSE keys[k]]
  /\ lastKey' = NewId
  /\ calls' = Done(calls, c, row)
  /\ UNCHANGED <<now, page, faults>>

\* An id that is gone changes nothing and is answered in the same way.
PatchKey(c) ==
  LET id == c.arg.id IN
  /\ Is(c, "sent", "revoke")
  /\ keys' = IF id \in DOMAIN keys THEN [keys EXCEPT ![id].revoked = TRUE] ELSE keys
  /\ calls' = Done(calls, c, c.arg)
  /\ UNCHANGED <<lastKey, now, page, faults>>

DeleteKey(c) ==
  /\ Is(c, "sent", "delete")
  /\ keys' = [k \in DOMAIN keys \ {c.arg.id} |-> keys[k]]
  /\ calls' = Done(calls, c, c.arg)
  /\ UNCHANGED <<lastKey, now, page, faults>>

\* The proxy or the route refuses a call, which then changes nothing.
Refuse(c) ==
  /\ c.st = "sent"
  /\ faults < MaxFaults
  /\ calls' = Denied(calls, c)
  /\ faults' = faults + 1
  /\ UNCHANGED <<table, now, page>>

(***************************************************************************)
(* The admission webhook and the clock.  OME asks when a device wants to   *)
(* publish.  The table is read, the answer recorded and last_used_at set   *)
(* without an await between them; a call that does not verify is answered  *)
(* with an error, on which OME lets nobody in.                             *)
(***************************************************************************)
Admits(s) ==
  \E k \in DOMAIN keys : /\ keys[k].slot = s
                         /\ ~keys[k].revoked
                         /\ keys[k].exp > now

Tick ==
  /\ now < MaxTime
  /\ now' = now + 1
  /\ UNCHANGED <<table, page, calls, faults>>
(***************************************************************************)
(* The page                                                                *)
(***************************************************************************)
Clicks(call) ==
  /\ Cardinality(calls) < MaxCalls
  /\ calls' = calls \cup {call}
  /\ UNCHANGED <<table, now, faults>>

Arrives(c, shown) ==
  /\ calls' = calls \ {c}
  /\ page' = shown
  /\ UNCHANGED <<table, now, faults>>

Shows(shown) ==
  /\ page' = shown
  /\ UNCHANGED <<table, now, calls, faults>>

\* Mutant: the list is loaded once, like the presets of the same page.
PollKeysOnce == page.list = {} /\ Clicks(Sent("list", Nothing)) /\ UNCHANGED page
\* Every 5 s, whether or not the poll before has been answered.
PollKeys == Clicks(Sent("list", Nothing)) /\ UNCHANGED page

\* The page does not look at the status: an error answer has no keys in it.
KeysArrive(c) ==
  \/ Is(c, "ok", "list") /\ Arrives(c, [page EXCEPT !.list = c.arg.rows])
  \/ Is(c, "refused", "list") /\ Arrives(c, [page EXCEPT !.list = {}])

Waiting(kind) == {c \in calls : Is(c, "sent", kind)}

\* What can be typed: no check that the expiry lies ahead.
KeyForm == [slot : Slots, exp : Expiries]

\* Nothing stops a second click while the first is being answered.
CreateKey(f) ==
  /\ lastKey + Cardinality(Waiting("create")) < MaxKeys
  /\ Clicks(Sent("create", [slot |-> f.slot, exp |-> f.exp, n |-> Cardinality(Waiting("create"))]))
  /\ UNCHANGED page

\* Refused: the form stays, with an error.
KeyCreated(c) ==
  \/ /\ Is(c, "ok", "create")
     /\ Arrives(c, [page EXCEPT !.list = @ \cup {c.arg}])
  \/ Is(c, "refused", "create") /\ Arrives(c, page)

\* The buttons of a row; a revoked key can only be deleted.
Buttons(row) == IF row.revoked THEN {"delete"} ELSE {"revoke", "delete"}

Ask(kind, row) ==
  /\ page.dialog = NoDialog
  /\ row \in page.list /\ kind \in Buttons(row)
  /\ Shows([page EXCEPT !.dialog = [ask |-> kind, row |-> row]])

Cancel ==
  /\ page.dialog # NoDialog
  /\ Shows([page EXCEPT !.dialog = NoDialog])

\* The dialog stays open until the answer comes, and can be confirmed again.
Confirm ==
  /\ page.dialog # NoDialog
  /\ Clicks(Sent(page.dialog.ask, page.dialog.row))
  /\ UNCHANGED page

\* Whichever dialog of that kind is open by now closes.
Shut(kind) == IF page.dialog.ask = kind THEN NoDialog ELSE page.dialog

\* Any answer, a refusal included, marks the row on the page.
RevokeAnswered(c) ==
  /\ Is(c, "ok", "revoke") \/ Is(c, "refused", "revoke")
  /\ Arrives(c, [page EXCEPT
       !.list = {IF r.id = c.arg.id THEN [r EXCEPT !.revoked = TRUE] ELSE r : r \in @},
       !.dialog = Shut("revoke")])

DeleteAnswered(c) ==
  /\ Is(c, "ok", "delete") \/ Is(c, "refused", "delete")
  /\ Arrives(c, [page EXCEPT
       !.list = {r \in @ : r.id # c.arg.id},
       !.dialog = Shut("delete")])

\* A call, or its answer, is lost: the page changes nothing but the dialog.
Lose(c) ==
  /\ faults < MaxFaults
  /\ faults' = faults + 1
  /\ calls' = calls \ {c}
  /\ page' = [page EXCEPT !.dialog = Shut(c.kind)]
  /\ UNCHANGED <<table, now>>

Serve(c) ==
  GetKeys(c) \/ PostKey(c) \/ PatchKey(c) \/ DeleteKey(c)

Arrive(c) ==
  KeysArrive(c) \/ KeyCreated(c) \/ RevokeAnswered(c) \/ DeleteAnswered(c)

Next ==
  \/ \E c \in calls : Serve(c) \/ Refuse(c) \/ Arrive(c) \/ Lose(c)
  \/ PollKeys \/ Cancel \/ Confirm \/ Tick
  \/ \E f \in KeyForm : CreateKey(f)
  \/ \E row \in page.list : \E kind \in Buttons(row) : Ask(kind, row)

\* The timer of the page fires, the server deals with calls, answers arrive.
Fairness ==
  /\ WF_vars(PollKeys)
  /\ \A kind \in {"list", "create", "revoke", "delete"} :
       /\ WF_vars(\E c \in OfKind(calls, kind) : Serve(c))
       /\ WF_vars(\E c \in OfKind(calls, kind) : Arrive(c))

Spec == Init /\ [][Next]_vars /\ Fairness

(***************************************************************************)
(* Properties                                                              *)
(***************************************************************************)

\* Types, and what the ids and the rows behind them are.
TypeOK ==
  /\ DOMAIN keys \subseteq 1..lastKey /\ lastKey \in 0..MaxKeys
  /\ \A k \in DOMAIN keys : keys[k] \in Row /\ keys[k].id = k
  /\ now \in 0..MaxTime
  /\ page \in [list : SUBSET Row, dialog : Dialog]
  /\ faults \in 0..MaxFaults

\* A revoke or a delete hits the very key the dialog showed, whatever happened
\* to the table since the page loaded its copy: a row that goes, or is revoked,
\* is one some call names as it was shown (api/keys PATCH and DELETE take an id).
HitsWhatItShowed ==
  [][\A k \in DOMAIN keys :
       (k \notin DOMAIN keys' \/ keys'[k].revoked # keys[k].revoked)
         => \E c \in calls : /\ c.kind \in {"revoke", "delete"}
                            /\ c.arg.id = k
                            /\ c.arg.slot = keys[k].slot /\ c.arg.exp = keys[k].exp]_vars

\* However polls, answers and failures overlapped, the page ends up showing the
\* table, once the table stays as it is (the poll of access/page.tsx).
PageCatchesUp == <>[](page.list = KeyRows)

\* What the dialog says of a revoke: the holder will no longer be able to
\* publish to the stream.  So a slot none of whose rows on the page is in force,
\* once the page says one of them is revoked, is one the webhook admits nobody to.
RevokedStaysOut ==
  \A r \in page.list : r.revoked => ~Admits(r.slot)
==================================================================================
