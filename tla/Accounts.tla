------------------------------ MODULE Accounts ------------------------------
(***************************************************************************)
(* User accounts: the users table, the session tokens that browsers carry, *)
(* and the handlers that log in, create, reset, change and delete.         *)
(*                                                                         *)
(* Every handler but the deletion awaits bcrypt between what it reads and  *)
(* what it writes, so it is two steps, with other handlers in between.  A  *)
(* token holds identity and role as they were at the login; nothing looks  *)
(* the account up again while the token lasts.  Twelve hours are the same  *)
(* for all tokens: they expire in the order of their issue.  The rate      *)
(* limit can only refuse a login, which changes nothing here.  A password  *)
(* stands for its bcrypt hash; login times and audit rows are left out.    *)
(***************************************************************************)
EXTENDS Naturals

CONSTANTS
  Name,            \* usernames
  Password,
  Role,            \* the roles that engineers hand out
  Req,             \* slots for requests in flight
  Admin,           \* CONSOLE_ADMIN_USER
  AdminPassword,   \* CONSOLE_ADMIN_PASSWORD_HASH
  None,
  MaxId,           \* bound: rows ever inserted
  MaxLogins        \* bound: tokens ever issued

ROLE_RANK == [viewer |-> 0, operator |-> 1, engineer |-> 2]
hasRole(role, minimum) == ROLE_RANK[role] >= ROLE_RANK[minimum]

ASSUME ConstantAssumption ==
  /\ Role \subseteq DOMAIN ROLE_RANK
  /\ Admin \in Name /\ AdminPassword \in Password
ASSUME BoundAssumption == MaxId \in Nat /\ MaxLogins \in Nat

VARIABLES
  users,     \* the rows of the table
  nextId,    \* AUTOINCREMENT: no id is given out twice
  tokens,    \* the cookies that browsers hold
  issued,    \* tokens issued so far: a token's exp is its number
  expired,   \* tokens that have expired, the oldest first
  req        \* requests in flight

vars == <<users, nextId, tokens, issued, expired, req>>

-----------------------------------------------------------------------------
Roles == Role \cup {"engineer"}
User == [id : Nat \ {0}, username : Name, password : Password, role : Roles]
Session == [userId : Nat \ {0}, username : Name, role : Roles, exp : Nat \ {0}]

Valid(tok) == tok.exp > expired
Engineers == {u \in users : u.role = "engineer"}

\* What a query for one row returns.
First(rows) == IF rows = {} THEN {None} ELSE rows
findUserByUsername(n) == First({u \in users : u.username = n})
findUserById(i) == First({u \in users : u.id = i})

\* The id of a deletion is a text.  Many texts spell a number (1, 01, 1.0); the
\* one that String makes of it, which the users page sends, is the plain one.
IdText == [number : Nat, plain : BOOLEAN]
String(i) == [number |-> i, plain |-> TRUE]
Number(t) == t.number
Spellings(i) == {[number |-> i, plain |-> p] : p \in BOOLEAN}

\* A request in flight: the cookie it came with, what was read before bcrypt
\* (row), and what was typed.
Request ==
  [kind : {"idle"}]
    \cup [kind : {"login"}, row : User \cup {None}, password : Password]
    \cup [kind : {"create"}, tok : Session, username : Name, password : Password, role : Roles]
    \cup [kind : {"reset"}, tok : Session, row : User, password : Password]
    \cup [kind : {"change"}, tok : Session, row : User, current : Password, password : Password]
    \cup [kind : {"delete"}, tok : Session, id : IdText]

IdleReq == [kind |-> "idle"]

Submit(q, r) == req[q].kind = "idle" /\ req' = [req EXCEPT ![q] = r]
Answer(q) == req' = [req EXCEPT ![q] = IdleReq]

\* Mutant: INTEGER PRIMARY KEY without AUTOINCREMENT, the largest id plus one.
ReusedId ==
  CHOOSE i \in 1 .. nextId :
    /\ \A u \in users : u.id < i
    /\ i = 1 \/ \E u \in users : u.id = i - 1
FreshId == nextId

createUser(n, p, r) ==
  /\ nextId <= MaxId
  /\ users' = users \cup {[id |-> FreshId, username |-> n, password |-> p, role |-> r]}
  /\ nextId' = nextId + 1

updatePasswordHash(i, p) ==
  users' = {IF u.id = i THEN [u EXCEPT !.password = p] ELSE u : u \in users}

-----------------------------------------------------------------------------
Init ==
  /\ users = {} /\ nextId = 1
  /\ tokens = {} /\ issued = 0 /\ expired = 0
  /\ req = [q \in Req |-> IdleReq]

\* The console starts, again or for the first time: what was in flight is
\* lost, and an empty table gets its first engineer if the environment names one.
Boot ==
  /\ req' = [q \in Req |-> IdleReq]
  /\ \/ UNCHANGED <<users, nextId>>
     \/ users = {} /\ createUser(Admin, AdminPassword, "engineer")
  /\ UNCHANGED <<tokens, issued, expired>>

TokenExpires ==
  /\ expired < issued /\ expired' = expired + 1
  /\ tokens' = {tok \in tokens : tok.exp > expired + 1}
  /\ UNCHANGED <<users, nextId, issued, req>>

Logout ==
  /\ \E tok \in tokens : tokens' = tokens \ {tok}
  /\ UNCHANGED <<users, nextId, issued, expired, req>>

SubmitLogin(q) ==
  /\ \E n \in Name, p \in Password : \E u \in findUserByUsername(n) :
       Submit(q, [kind |-> "login", row |-> u, password |-> p])
  /\ UNCHANGED <<users, nextId, tokens, issued, expired>>

\* The session is made of the row that was read before bcrypt.
LoginSucceeds(q) ==
  LET u == req[q].row IN
  /\ req[q].kind = "login" /\ u # None /\ u.password = req[q].password
  /\ issued < MaxLogins /\ issued' = issued + 1
  /\ tokens' = tokens \cup {[userId |-> u.id, username |-> u.username, role |-> u.role,
                             exp |-> issued + 1]}
  /\ Answer(q)
  /\ UNCHANGED <<users, nextId, expired>>

\* An unknown name is compared with a dummy hash, which never matches.
LoginFails(q) ==
  LET u == req[q].row IN
  /\ req[q].kind = "login" /\ (u # None => u.password # req[q].password)
  /\ Answer(q)
  /\ UNCHANGED <<users, nextId, tokens, issued, expired>>

-----------------------------------------------------------------------------
(* /api/users lets engineers in, /api/account/password any session.        *)

SubmitCreate(q) ==
  /\ \E tok \in tokens, n \in Name, p \in Password, r \in Role :
       /\ hasRole(tok.role, "engineer")
       /\ Submit(q, [kind |-> "create", tok |-> tok, username |-> n, password |-> p, role |-> r])
  /\ UNCHANGED <<users, nextId, tokens, issued, expired>>

\* Mutant: the column is not UNIQUE.
CreateAnywayDone(q) ==
  /\ req[q].kind = "create"
  /\ createUser(req[q].username, req[q].password, req[q].role)
  /\ Answer(q) /\ UNCHANGED <<tokens, issued, expired>>

CreateDone(q) ==
  /\ req[q].kind = "create"
  /\ \A u \in users : u.username # req[q].username
  /\ createUser(req[q].username, req[q].password, req[q].role)
  /\ Answer(q) /\ UNCHANGED <<tokens, issued, expired>>

\* "that username is already taken"
CreateRefused(q) ==
  /\ req[q].kind = "create"
  /\ \E u \in users : u.username = req[q].username
  /\ Answer(q) /\ UNCHANGED <<users, nextId, tokens, issued, expired>>

SubmitReset(q) ==
  /\ \E tok \in tokens, u \in users, p \in Password :
       /\ hasRole(tok.role, "engineer")
       /\ Submit(q, [kind |-> "reset", tok |-> tok, row |-> u, password |-> p])
  /\ UNCHANGED <<users, nextId, tokens, issued, expired>>

SubmitChange(q) ==
  /\ \E tok \in tokens, u \in users, c, p \in Password :
       /\ u.id = tok.userId
       /\ Submit(q, [kind |-> "change", tok |-> tok, row |-> u, current |-> c, password |-> p])
  /\ UNCHANGED <<users, nextId, tokens, issued, expired>>

\* A reset is carried out, or a change whose current password was right.
\* The row may have been deleted meanwhile: then nothing is updated.
UpdateDone(q) ==
  LET r == req[q] IN
  /\ r.kind = "reset" \/ (r.kind = "change" /\ r.current = r.row.password)
  /\ updatePasswordHash(r.row.id, r.password)
  /\ Answer(q) /\ UNCHANGED <<nextId, tokens, issued, expired>>

ChangeRefused(q) ==
  /\ req[q].kind = "change" /\ req[q].current # req[q].row.password
  /\ Answer(q) /\ UNCHANGED <<users, nextId, tokens, issued, expired>>

\* The proxy has verified the token; the handler will verify it again.
SubmitDelete(q) ==
  /\ \E tok \in tokens, i \in 1 .. (nextId - 1) : \E t \in Spellings(i) :
       /\ hasRole(tok.role, "engineer")
       /\ Submit(q, [kind |-> "delete", tok |-> tok, id |-> t])
  /\ UNCHANGED <<users, nextId, tokens, issued, expired>>

\* The texts are compared, so that the own id in another spelling passes.
OwnAccount(r) == Valid(r.tok) /\ String(r.tok.userId) = r.id

\* Mutant: the own account is not spared.
DeleteOwnDone(q) ==
  /\ req[q].kind = "delete"
  /\ users' = {u \in users : u.id # Number(req[q].id)}
  /\ Answer(q) /\ UNCHANGED <<nextId, tokens, issued, expired>>

DeleteDone(q) ==
  /\ req[q].kind = "delete" /\ ~OwnAccount(req[q])
  /\ users' = {u \in users : u.id # Number(req[q].id)}
  /\ Answer(q) /\ UNCHANGED <<nextId, tokens, issued, expired>>

\* "you can't delete your own account"
DeleteRefused(q) ==
  /\ req[q].kind = "delete" /\ OwnAccount(req[q])
  /\ Answer(q) /\ UNCHANGED <<users, nextId, tokens, issued, expired>>

-----------------------------------------------------------------------------
LoginStep(q) == SubmitLogin(q) \/ LoginSucceeds(q) \/ LoginFails(q)
UsersStep(q) ==
  \/ SubmitCreate(q) \/ CreateDone(q) \/ CreateRefused(q)
  \/ SubmitReset(q) \/ SubmitChange(q) \/ UpdateDone(q) \/ ChangeRefused(q)
  \/ SubmitDelete(q) \/ DeleteDone(q) \/ DeleteRefused(q)

Next ==
  \/ Boot \/ TokenExpires \/ Logout
  \/ \E q \in Req : LoginStep(q) \/ UsersStep(q)

Spec == Init /\ [][Next]_vars

-----------------------------------------------------------------------------
\* Types and the keys of the table: an id was given out, and no two rows share
\* an id or a username, however creations overlap.
TypeOK ==
  /\ users \subseteq User /\ tokens \subseteq Session
  /\ nextId \in Nat \ {0} /\ issued \in Nat /\ expired \in Nat
  /\ req \in [Req -> Request]
  /\ \A u \in users : u.id < nextId
  /\ \A u, w \in users : u.id = w.id \/ u.username = w.username => u = w

\* Sessions outlive their accounts, but a session never speaks for another
\* account: the row with its id, if there is one, has its name and role.
Carried == tokens \cup {req[q].tok : q \in {x \in Req : req[x].kind \notin {"idle", "login"}}}
SessionsSpeakTruly ==
  \A u \in users, tok \in Carried :
    u.id = tok.userId => u.username = tok.username /\ u.role = tok.role

\* "Can't delete your own account through the UI": the last engineer is deleted
\* only for a session that outlived its own account or that expired while the
\* request was on its way, or by a request that spells the id as no page does.
LastEngineer ==
  [][Engineers # {} /\ Engineers' = {}
       => \E q \in Req :
            /\ req[q].kind = "delete" /\ req'[q] = IdleReq
            /\ \/ ~Valid(req[q].tok)
               \/ \A u \in users : u.id # req[q].tok.userId
               \/ req[q].id # String(Number(req[q].id))]_vars

\* A password that was hashed for an account is written to that account or to
\* none, whatever was deleted and created while bcrypt ran.
WritesItsAccount ==
  [][\A u \in users, w \in users' :
       u.id = w.id /\ u.password # w.password
         => \E q \in Req :
              /\ req[q].kind \in {"reset", "change"} /\ req'[q] = IdleReq
              /\ w.password = req[q].password
              /\ u.username = req[q].row.username /\ u.role = req[q].row.role]_vars

\* The same without the exception for spellings: no session that lasts deletes
\* its own account.  Violated, as texts are compared and a number is deleted.
OwnIsSpared ==
  [][\A q \in Req :
       req[q].kind = "delete" /\ req'[q] = IdleReq /\ Valid(req[q].tok)
         => \A u \in users \ users' : u.id # req[q].tok.userId]_vars

\* The user page says of a deleted user that they "will no longer be able to
\* log in".  Violated by a login whose row was read before the deletion.
DeletedCannotLogIn ==
  [][\A tok \in tokens' \ tokens : \E u \in users : u.id = tok.userId]_vars

\* A change of the own password replaces the password it was confirmed with.
\* Violated when an engineer resets it while the change is being hashed.
ChangeKnowsCurrent ==
  [][\A q \in Req : \A u \in users :
       /\ req[q].kind = "change" /\ req'[q] = IdleReq /\ u.id = req[q].row.id
       /\ u \notin users'
       => u.password = req[q].current]_vars
=============================================================================
