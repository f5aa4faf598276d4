---------------------------- MODULE SessionProofs -----------------------------
(***************************************************************************)
(* Proofs about Accounts, for any number of names, requests and logins,    *)
(* and about Gate with LoginLock, for any number of names, tries at once,  *)
(* thresholds and lengths of the locks.                                    *)
(*                                                                         *)
(* Accounts: the induction rests on what a copy made of a row can still be *)
(* trusted for.  Tokens and requests hold copies of rows that may be gone; *)
(* ids are never given out twice and nothing but the password of a row is  *)
(* ever updated, so what a copy says of its id (Knows) stays true for good. *)
(*                                                                         *)
(* LoginLock: every name has an account (Within).  If k of the locks that  *)
(* are promised can be over by now, its failures are within k windows of   *)
(* tries; while it is locked, the tries that are past the lock are on the  *)
(* account already, so that they may fail in any order.                    *)
(*                                                                         *)
(* Gate: a page that is past the proxy was granted to the session it came  *)
(* with (LetIn), and the tables of the proxy and of the pages agree.       *)
(***************************************************************************)
EXTENDS Accounts, Gate, FiniteSetTheorems, WellFoundedInduction, TLAPS

\* The id was given out, and its row, if it is still there, has this name and role.
Knows(i, n, r) ==
  /\ i < nextId
  /\ \A u \in users : u.id = i => u.username = n /\ u.role = r

Asking == {"create", "reset", "change", "delete"}

KnownReq(r) ==
  /\ r.kind \in Asking => Knows(r.tok.userId, r.tok.username, r.tok.role)
  /\ r.kind \in {"reset", "change"} \/ (r.kind = "login" /\ r.row # None)
       => Knows(r.row.id, r.row.username, r.row.role)

Known ==
  /\ \A tok \in tokens : Knows(tok.userId, tok.username, tok.role)
  /\ \A q \in Req : KnownReq(req[q])

\* Only an engineer's token is on a deletion.
Carries(r) == r.kind = "delete" => r.tok.role = "engineer"

Inv == TypeOK /\ (\A q \in Req : Carries(req[q])) /\ Known

\* No row changes its id, name or role, and a row that is new has a new id.
Evolves ==
  /\ nextId <= nextId'
  /\ \A w \in users' :
       \/ w.id >= nextId
       \/ \E u \in users : u.id = w.id /\ u.username = w.username /\ u.role = w.role

-----------------------------------------------------------------------------
\* Only engineers have an engineer's rank.
LEMMA OnlyEngineers ==
  ASSUME NEW r \in Roles, hasRole(r, "engineer")
  PROVE  r = "engineer"
BY ConstantAssumption DEF Roles, hasRole, ROLE_RANK

\* A request that is submitted or answered changes no other.
LEMMA OneRequest ==
  ASSUME TypeOK, NEW q \in Req, NEW r \in Request, Submit(q, r) \/ (Answer(q) /\ r = IdleReq)
  PROVE  /\ req' \in [Req -> Request] /\ req'[q] = r
         /\ \A x \in Req \ {q} : req'[x] = req[x]
BY DEF TypeOK, Submit, Answer

\* What a request of each kind holds.
LEMMA ByKind ==
  ASSUME NEW r \in Request
  PROVE  /\ r.kind \in Asking => r.tok \in Session
         /\ r.kind = "login" => r.row \in User \cup {None}
         /\ r.kind = "create" => r.username \in Name /\ r.password \in Password /\ r.role \in Roles
         /\ r.kind \in {"reset", "change"} => r.row \in User /\ r.password \in Password
         /\ r.kind \in Asking \cup {"idle", "login"}
BY DEF Request, Asking

\* The table after an insertion, with a name that is not taken.
LEMMA Inserted ==
  ASSUME TypeOK, NEW n \in Name, NEW p \in Password, NEW r \in Roles,
         \A u \in users : u.username # n, createUser(n, p, r)
  PROVE  /\ users' \subseteq User /\ nextId' \in Nat \ {0} /\ users \subseteq users'
         /\ \A u \in users' : u.id < nextId'
         /\ \A u, w \in users' : u.id = w.id \/ u.username = w.username => u = w
         /\ \A w \in users' \ users : w.id = nextId
         /\ nextId < nextId'
<1> DEFINE new == [id |-> nextId, username |-> n, password |-> p, role |-> r]
<1>1. new \in User /\ users' = users \cup {new} /\ nextId' = nextId + 1
  BY DEF TypeOK, createUser, FreshId, User
<1>2. \A u \in users : u.id < nextId /\ u.username # n /\ u.id \in Nat
  BY DEF TypeOK, User
<1>3. \A u \in users' : u.id < nextId'
  BY <1>1, <1>2 DEF TypeOK
<1>4. ASSUME NEW u \in users', NEW w \in users', u.id = w.id \/ u.username = w.username
      PROVE  u = w
  <2>1. CASE u \in users /\ w \in users
    BY <2>1, <1>4 DEF TypeOK
  <2>2. CASE u = new \/ w = new
    BY <2>2, <1>1, <1>2, <1>4 DEF TypeOK
  <2> QED BY <2>1, <2>2, <1>1
<1> QED BY <1>1, <1>3, <1>4 DEF TypeOK

\* The table after an update.
LEMMA Updated ==
  ASSUME TypeOK, NEW i, NEW p \in Password, updatePasswordHash(i, p)
  PROVE  /\ users' \subseteq User
         /\ \A w \in users' : \E u \in users :
              /\ u.id = w.id /\ u.username = w.username /\ u.role = w.role
              /\ w.password = IF u.id = i THEN p ELSE u.password
         /\ \A u \in users : \E w \in users' :
              u.id = w.id /\ u.username = w.username /\ u.role = w.role
         /\ \A u, w \in users' : u.id = w.id \/ u.username = w.username => u = w
<1> DEFINE f(u) == IF u.id = i THEN [u EXCEPT !.password = p] ELSE u
<1>1. users' = {f(u) : u \in users}
  BY DEF updatePasswordHash
<1>2. \A u \in users : /\ f(u) \in User /\ f(u).id = u.id /\ f(u).username = u.username
                       /\ f(u).role = u.role
                       /\ f(u).password = IF u.id = i THEN p ELSE u.password
  BY DEF TypeOK, User
<1>3. \A u, w \in users : u.id = w.id \/ u.username = w.username => u = w
  BY DEF TypeOK
<1> HIDE DEF f
<1> QED BY <1>1, <1>2, <1>3

-----------------------------------------------------------------------------
(* Every step keeps the types, the keys of the table and what requests     *)
(* carry, and lets the rows evolve.  The actions fall into those that      *)
(* leave the table alone, insertions, updates and deletions.               *)

THEOREM Initial == Init => Inv
BY DEF Init, Inv, TypeOK, Known, KnownReq, Carries, IdleReq, Asking, Request

LEMMA Submitting ==
  ASSUME Inv, NEW q \in Req,
         \/ SubmitLogin(q) \/ SubmitCreate(q) \/ SubmitReset(q) \/ SubmitChange(q)
         \/ SubmitDelete(q)
  PROVE  TypeOK' /\ (\A x \in Req : Carries(req[x]))' /\ Evolves
<1>1. UNCHANGED <<users, nextId, tokens, issued, expired>>
  BY DEF SubmitLogin, SubmitCreate, SubmitReset, SubmitChange, SubmitDelete
<1>2. \E r \in Request : Submit(q, r) /\ Carries(r)
  <2>1. CASE SubmitLogin(q)
    <3>1. PICK n \in Name, p \in Password : \E u \in findUserByUsername(n) :
            Submit(q, [kind |-> "login", row |-> u, password |-> p])
      BY <2>1 DEF SubmitLogin
    <3>2. PICK u \in User \cup {None} :
            Submit(q, [kind |-> "login", row |-> u, password |-> p])
      BY <3>1 DEF findUserByUsername, First, Inv, TypeOK
    <3> QED BY <3>2 DEF Request, Carries
  <2>2. CASE SubmitCreate(q)
    BY <2>2 DEF SubmitCreate, Request, Carries, Inv, TypeOK, Roles
  <2>3. CASE SubmitReset(q)
    BY <2>3 DEF SubmitReset, Request, Carries, Inv, TypeOK
  <2>4. CASE SubmitChange(q)
    BY <2>4 DEF SubmitChange, Request, Carries, Inv, TypeOK
  <2>5. CASE SubmitDelete(q)
    <3>1. PICK tok \in tokens, i \in 1 .. (nextId - 1), t \in IdText :
            /\ hasRole(tok.role, "engineer")
            /\ Submit(q, [kind |-> "delete", tok |-> tok, id |-> t])
      BY <2>5 DEF SubmitDelete, Spellings, IdText, Inv, TypeOK
    <3>2. tok \in Session
      BY <3>1 DEF Inv, TypeOK
    <3>3. tok.role = "engineer"
      BY <3>1, <3>2, OnlyEngineers DEF Session
    <3> QED BY <3>1, <3>2, <3>3 DEF Request, Carries
  <2> QED BY <2>1, <2>2, <2>3, <2>4, <2>5
<1>3. req' \in [Req -> Request] /\ \A x \in Req : Carries(req'[x])
  BY <1>2, OneRequest DEF Inv
<1> QED BY <1>1, <1>3 DEF Inv, TypeOK, Evolves

LEMMA Answering ==
  ASSUME Inv, NEW q \in Req, Answer(q)
  PROVE  (req \in [Req -> Request])' /\ (\A x \in Req : Carries(req[x]))'
<1>1. IdleReq \in Request /\ Carries(IdleReq)
  BY DEF IdleReq, Request, Carries
<1> QED BY <1>1, OneRequest DEF Inv

\* Everything but a submission: the console's start, tokens, answers.
LEMMA StepTypes ==
  ASSUME Inv, [Next]_vars
  PROVE  TypeOK' /\ (\A x \in Req : Carries(req[x]))' /\ Evolves
<1>1. CASE UNCHANGED vars
  BY <1>1 DEF vars, Inv, TypeOK, Carries, Evolves
<1>2. CASE Boot
  <2>1. (req \in [Req -> Request])' /\ (\A x \in Req : Carries(req[x]))'
    BY <1>2 DEF Boot, IdleReq, Request, Carries
  <2>2. CASE UNCHANGED <<users, nextId>>
    BY <1>2, <2>1, <2>2 DEF Boot, Inv, TypeOK, Evolves
  <2>3. CASE users = {} /\ createUser(Admin, AdminPassword, "engineer")
    BY <1>2, <2>1, <2>3, Inserted, ConstantAssumption DEF Boot, Inv, TypeOK, Evolves, Roles
  <2> QED BY <1>2, <2>2, <2>3 DEF Boot
<1>3. CASE TokenExpires \/ Logout
  BY <1>3 DEF TokenExpires, Logout, Inv, TypeOK, Carries, Evolves
<1>4. ASSUME NEW q \in Req, LoginStep(q) \/ UsersStep(q)
      PROVE  TypeOK' /\ (\A x \in Req : Carries(req[x]))' /\ Evolves
  <2> DEFINE Request_ == (req \in [Req -> Request])' /\ (\A x \in Req : Carries(req[x]))'
  <2>1. CASE \/ SubmitLogin(q) \/ SubmitCreate(q) \/ SubmitReset(q) \/ SubmitChange(q)
             \/ SubmitDelete(q)
    BY <2>1, Submitting
  <2>2. CASE LoginSucceeds(q)
    <3>1. Request_
      BY <2>2, Answering DEF LoginSucceeds
    <3>2. req[q].row \in User
      BY <2>2, ByKind DEF LoginSucceeds, Inv, TypeOK
    <3>3. tokens' \subseteq Session /\ issued' \in Nat
      BY <2>2, <3>2 DEF LoginSucceeds, Inv, TypeOK, User, Session
    <3> QED BY <2>2, <3>1, <3>3 DEF LoginSucceeds, Inv, TypeOK, Evolves
  <2>3. CASE LoginFails(q) \/ CreateRefused(q) \/ ChangeRefused(q) \/ DeleteRefused(q)
    BY <2>3, Answering DEF LoginFails, CreateRefused, ChangeRefused, DeleteRefused, Inv,
                           TypeOK, Evolves
  <2>4. CASE CreateDone(q)
    <3>1. Request_
      BY <2>4, Answering DEF CreateDone
    <3>2. req[q].username \in Name /\ req[q].password \in Password /\ req[q].role \in Roles
      BY <2>4, ByKind DEF CreateDone, Inv, TypeOK
    <3> QED BY <2>4, <3>1, <3>2, Inserted DEF CreateDone, Inv, TypeOK, Evolves
  <2>5. CASE UpdateDone(q)
    <3>1. Request_
      BY <2>5, Answering DEF UpdateDone
    <3>2. req[q].password \in Password /\ req[q].kind \in {"reset", "change"}
      BY <2>5, ByKind DEF UpdateDone, Inv, TypeOK
    <3>3. updatePasswordHash(req[q].row.id, req[q].password)
          /\ UNCHANGED <<nextId, tokens, issued, expired>>
      BY <2>5 DEF UpdateDone
    <3>4. /\ users' \subseteq User
          /\ \A w \in users' : \E u \in users :
               u.id = w.id /\ u.username = w.username /\ u.role = w.role
          /\ \A u, w \in users' : u.id = w.id \/ u.username = w.username => u = w
      BY <3>2, <3>3, Updated DEF Inv
    <3> QED BY <3>1, <3>3, <3>4 DEF Inv, TypeOK, Evolves
  <2>6. CASE DeleteDone(q)
    BY <2>6, Answering DEF DeleteDone, Inv, TypeOK, Evolves
  <2> QED BY <1>4, <2>1, <2>2, <2>3, <2>4, <2>5, <2>6 DEF LoginStep, UsersStep
<1> QED BY <1>1, <1>2, <1>3, <1>4 DEF Next

-----------------------------------------------------------------------------
(* Knowledge: what is copied in a step was known before it, and what was   *)
(* known stays true.                                                       *)

LEMMA KnowsForGood ==
  ASSUME TypeOK, Evolves, TypeOK',
         NEW i \in Nat, NEW n, NEW r, Knows(i, n, r)
  PROVE  Knows(i, n, r)'
BY DEF TypeOK, Evolves, Knows, User

LEMMA RowsAreKnown ==
  ASSUME TypeOK, NEW u \in users
  PROVE  Knows(u.id, u.username, u.role)
BY DEF TypeOK, Knows

LEMMA KnownBefore ==
  ASSUME Inv, [Next]_vars
  PROVE  /\ \A tok \in tokens' : Knows(tok.userId, tok.username, tok.role)
         /\ \A x \in Req : KnownReq(req'[x])
<1> DEFINE Goal == /\ \A tok \in tokens' : Knows(tok.userId, tok.username, tok.role)
                   /\ \A x \in Req : KnownReq(req'[x])
<1>1. KnownReq(IdleReq)
  BY DEF KnownReq, IdleReq, Asking
<1>2. CASE UNCHANGED vars
  BY <1>2 DEF vars, Inv, Known
<1>3. CASE Boot
  BY <1>3, <1>1 DEF Boot, Inv, Known
<1>4. CASE TokenExpires \/ Logout
  BY <1>4 DEF TokenExpires, Logout, Inv, Known
<1>5. ASSUME NEW q \in Req, LoginStep(q) \/ UsersStep(q)
      PROVE  Goal
  <2>1. ASSUME NEW r, Submit(q, r), KnownReq(r), UNCHANGED tokens
        PROVE  Goal
    BY <2>1 DEF Submit, Inv, TypeOK, Known
  <2>2. ASSUME Answer(q), UNCHANGED tokens
        PROVE  Goal
    BY <2>2, <1>1 DEF Answer, Inv, TypeOK, Known
  <2>3. CASE SubmitLogin(q)
    <3>1. PICK n \in Name, p \in Password : \E u \in findUserByUsername(n) :
            Submit(q, [kind |-> "login", row |-> u, password |-> p])
      BY <2>3 DEF SubmitLogin
    <3>2. PICK u \in users \cup {None} :
            Submit(q, [kind |-> "login", row |-> u, password |-> p])
      BY <3>1 DEF findUserByUsername, First
    <3>3. KnownReq([kind |-> "login", row |-> u, password |-> p])
      BY <3>2, RowsAreKnown DEF Inv, KnownReq, Asking
    <3> QED BY <3>2, <3>3, <2>1, <2>3 DEF SubmitLogin
  <2>4. CASE SubmitCreate(q)
    <3>1. PICK tok \in tokens, n \in Name, p \in Password, r \in Role :
            Submit(q, [kind |-> "create", tok |-> tok, username |-> n, password |-> p,
                       role |-> r])
      BY <2>4 DEF SubmitCreate
    <3>2. KnownReq([kind |-> "create", tok |-> tok, username |-> n, password |-> p,
                    role |-> r])
      BY DEF Inv, Known, KnownReq, Asking
    <3> QED BY <3>1, <3>2, <2>1, <2>4 DEF SubmitCreate
  <2>5. CASE SubmitReset(q)
    <3>1. PICK tok \in tokens, u \in users, p \in Password :
            Submit(q, [kind |-> "reset", tok |-> tok, row |-> u, password |-> p])
      BY <2>5 DEF SubmitReset
    <3>2. KnownReq([kind |-> "reset", tok |-> tok, row |-> u, password |-> p])
      BY RowsAreKnown DEF Inv, Known, KnownReq, Asking
    <3> QED BY <3>1, <3>2, <2>1, <2>5 DEF SubmitReset
  <2>6. CASE SubmitChange(q)
    <3>1. PICK tok \in tokens, u \in users, c \in Password, p \in Password :
            Submit(q, [kind |-> "change", tok |-> tok, row |-> u, current |-> c,
                       password |-> p])
      BY <2>6 DEF SubmitChange
    <3>2. KnownReq([kind |-> "change", tok |-> tok, row |-> u, current |-> c,
                    password |-> p])
      BY RowsAreKnown DEF Inv, Known, KnownReq, Asking
    <3> QED BY <3>1, <3>2, <2>1, <2>6 DEF SubmitChange
  <2>7. CASE SubmitDelete(q)
    <3>1. PICK tok \in tokens, t \in IdText :
            Submit(q, [kind |-> "delete", tok |-> tok, id |-> t])
      BY <2>7 DEF SubmitDelete, Spellings, IdText, Inv, TypeOK
    <3>2. KnownReq([kind |-> "delete", tok |-> tok, id |-> t])
      BY DEF Inv, Known, KnownReq, Asking
    <3> QED BY <3>1, <3>2, <2>1, <2>7 DEF SubmitDelete
  <2>8. CASE LoginSucceeds(q)
    <3> DEFINE u == req[q].row
               tok == [userId |-> u.id, username |-> u.username, role |-> u.role,
                       exp |-> issued + 1]
    <3>1. Knows(u.id, u.username, u.role)
      BY <2>8 DEF LoginSucceeds, Inv, Known, KnownReq
    <3>2. tokens' = tokens \cup {tok} /\ Answer(q)
      BY <2>8 DEF LoginSucceeds
    <3>3. \A x \in Req : KnownReq(req'[x])
      BY <3>2, <1>1 DEF Answer, Inv, TypeOK, Known
    <3>4. tok.userId = u.id /\ tok.username = u.username /\ tok.role = u.role
      OBVIOUS
    <3> HIDE DEF tok
    <3> QED BY <3>1, <3>2, <3>3, <3>4 DEF Inv, Known
  <2>9. CASE \/ LoginFails(q) \/ CreateDone(q) \/ CreateRefused(q) \/ UpdateDone(q)
             \/ ChangeRefused(q) \/ DeleteDone(q) \/ DeleteRefused(q)
    BY <2>9, <2>2 DEF LoginFails, CreateDone, CreateRefused, UpdateDone, ChangeRefused,
                      DeleteDone, DeleteRefused
  <2> QED BY <1>5, <2>3, <2>4, <2>5, <2>6, <2>7, <2>8, <2>9 DEF LoginStep, UsersStep
<1> QED BY <1>2, <1>3, <1>4, <1>5 DEF Next

THEOREM Inductive == Inv /\ [Next]_vars => Inv'
<1> SUFFICES ASSUME Inv, [Next]_vars PROVE Inv'
  OBVIOUS
<1>1. TypeOK /\ TypeOK' /\ (\A x \in Req : Carries(req[x]))' /\ Evolves
  BY StepTypes DEF Inv
<1>2. \A tok \in tokens' : Knows(tok.userId, tok.username, tok.role)'
  <2> TAKE tok \in tokens'
  <2>1. tok.userId \in Nat
    BY <1>1 DEF TypeOK, Session
  <2> QED BY <2>1, <1>1, KnownBefore, KnowsForGood
<1>3. \A x \in Req : KnownReq(req[x])'
  <2> TAKE x \in Req
  <2> DEFINE r == req'[x]
  <2>1. r \in Request /\ KnownReq(r)
    BY <1>1, KnownBefore DEF TypeOK
  <2>2. ASSUME r.kind \in Asking
        PROVE  Knows(req[x].tok.userId, req[x].tok.username, req[x].tok.role)'
    <3>1. r.tok.userId \in Nat
      BY <2>1, <2>2, ByKind DEF Session
    <3>2. Knows(r.tok.userId, r.tok.username, r.tok.role)
      BY <2>1, <2>2 DEF KnownReq
    <3> QED BY <3>1, <3>2, <1>1, KnowsForGood
  <2>3. ASSUME r.kind \in {"reset", "change"} \/ (r.kind = "login" /\ r.row # None)
        PROVE  Knows(req[x].row.id, req[x].row.username, req[x].row.role)'
    <3>1. r.row.id \in Nat
      BY <2>1, <2>3, ByKind DEF User
    <3>2. Knows(r.row.id, r.row.username, r.row.role)
      BY <2>1, <2>3 DEF KnownReq
    <3> QED BY <3>1, <3>2, <1>1, KnowsForGood
  <2> QED BY <2>2, <2>3 DEF KnownReq
<1> QED BY <1>1, <1>2, <1>3 DEF Inv, Known

-----------------------------------------------------------------------------
\* In every reachable state the table and its copies are well typed, and no
\* two rows share an id or a username.
THEOREM KeysAreUnique == Spec => []TypeOK
<1>1. Inv => TypeOK
  BY DEF Inv
<1> QED BY <1>1, Initial, Inductive, PTL DEF Spec

\* A session never speaks for an account other than the one it was issued to.
THEOREM SessionsAreTruthful == Spec => []SessionsSpeakTruly
<1>1. Inv => SessionsSpeakTruly
  <2> SUFFICES ASSUME Inv, NEW u \in users, NEW tok \in Carried, u.id = tok.userId
               PROVE  u.username = tok.username /\ u.role = tok.role
    BY DEF SessionsSpeakTruly
  <2>1. CASE tok \in tokens
    BY <2>1 DEF Inv, Known, Knows
  <2>2. ASSUME NEW q \in Req, req[q].kind \notin {"idle", "login"}, tok = req[q].tok
        PROVE  Knows(tok.userId, tok.username, tok.role)
    <3>1. req[q].kind \in Asking
      BY <2>2, ByKind DEF Inv, TypeOK
    <3> QED BY <2>2, <3>1 DEF Inv, Known, KnownReq
  <2> QED BY <2>1, <2>2 DEF Carried, Knows
<1> QED BY <1>1, Initial, Inductive, PTL DEF Spec

\* Which steps change the table: an insertion, an update or a deletion.
LEMMA Writers ==
  ASSUME Inv, [Next]_vars, users' # users
  PROVE  \/ users = {} /\ createUser(Admin, AdminPassword, "engineer")
         \/ \E q \in Req : CreateDone(q) \/ UpdateDone(q) \/ DeleteDone(q)
BY DEF Next, vars, Boot, TokenExpires, Logout, LoginStep, SubmitLogin, LoginSucceeds,
       LoginFails, UsersStep, SubmitCreate, CreateRefused, SubmitReset, SubmitChange,
       ChangeRefused, SubmitDelete, DeleteRefused

\* By requests that spell ids as the pages do, the last engineer is deleted only
\* for a session that outlived its account or expired under way: two engineers
\* must act, or one that is gone.
THEOREM LastEngineerStays == Spec => LastEngineer
<1> DEFINE Outlived(q) ==
      /\ req[q].kind = "delete" /\ req'[q] = IdleReq
      /\ \/ ~Valid(req[q].tok)
         \/ \A u \in users : u.id # req[q].tok.userId
         \/ req[q].id # String(Number(req[q].id))
<1>1. ASSUME Inv, [Next]_vars, Engineers # {}, Engineers' = {}
      PROVE  \E q \in Req : Outlived(q)
  <2>1. PICK e \in users : e.role = "engineer"
    BY <1>1 DEF Engineers
  <2>2. \A w \in users' : w.role # "engineer"
    BY <1>1 DEF Engineers
  <2>3. users # {} /\ users' # users
    BY <2>1, <2>2
  <2>4. PICK q \in Req : CreateDone(q) \/ UpdateDone(q) \/ DeleteDone(q)
    BY <1>1, <2>3, Writers
  <2>5. ~CreateDone(q)
    BY <2>1, <2>2 DEF CreateDone, createUser
  <2>6. ~UpdateDone(q)
    <3>1. SUFFICES ASSUME UpdateDone(q) PROVE FALSE
      OBVIOUS
    <3>2. req[q].password \in Password /\ updatePasswordHash(req[q].row.id, req[q].password)
      BY <1>1, <3>1, ByKind DEF UpdateDone, Inv, TypeOK
    <3>3. \E w \in users' : w.role = e.role
      BY <1>1, <3>2, Updated DEF Inv
    <3> QED BY <2>1, <2>2, <3>3
  <2>7. DeleteDone(q)
    BY <2>4, <2>5, <2>6
  <2>8. req[q].kind = "delete" /\ req'[q] = IdleReq
    BY <1>1, <2>7 DEF DeleteDone, Answer, Inv, TypeOK
  <2>9. ASSUME Valid(req[q].tok), NEW u \in users, u.id = req[q].tok.userId,
               req[q].id = String(Number(req[q].id))
        PROVE  FALSE
    <3>1. Knows(req[q].tok.userId, req[q].tok.username, req[q].tok.role)
      BY <1>1, <2>8 DEF Inv, Known, KnownReq, Asking
    <3>2. u.role = "engineer"
      BY <1>1, <2>8, <2>9, <3>1 DEF Inv, Carries, Knows
    <3>3. u \in users'
      BY <2>7, <2>9 DEF DeleteDone, OwnAccount
    <3> QED BY <2>2, <3>2, <3>3
  <2> QED BY <2>8, <2>9
<1>2. Inv /\ [Next]_vars
        => [Engineers # {} /\ Engineers' = {} => \E q \in Req : Outlived(q)]_vars
  BY <1>1
<1> QED BY <1>2, Initial, Inductive, PTL DEF Spec, LastEngineer

\* A password that was hashed reaches the account it was meant for, or none.
THEOREM HashesFindTheirAccount == Spec => WritesItsAccount
<1> DEFINE Meant(u, w, q) ==
      /\ req[q].kind \in {"reset", "change"} /\ req'[q] = IdleReq
      /\ w.password = req[q].password
      /\ u.username = req[q].row.username /\ u.role = req[q].row.role
<1>1. ASSUME Inv, [Next]_vars, NEW u \in users, NEW w \in users', u.id = w.id,
             u.password # w.password
      PROVE  \E q \in Req : Meant(u, w, q)
  <2>1. w \notin users
    BY <1>1 DEF Inv, TypeOK
  <2>2. PICK q \in Req : CreateDone(q) \/ UpdateDone(q) \/ DeleteDone(q)
    BY <1>1, <2>1, Writers
  <2>3. ~CreateDone(q)
    BY <1>1, <2>1 DEF CreateDone, createUser, FreshId, Inv, TypeOK, User
  <2>4. ~DeleteDone(q)
    BY <2>1 DEF DeleteDone
  <2>5. UpdateDone(q)
    BY <2>2, <2>3, <2>4
  <2>6. /\ req[q].kind \in {"reset", "change"} /\ req'[q] = IdleReq
        /\ req[q].password \in Password
        /\ updatePasswordHash(req[q].row.id, req[q].password)
    BY <1>1, <2>5, ByKind DEF UpdateDone, Answer, Inv, TypeOK
  <2> DEFINE i == req[q].row.id
             p == req[q].password
  <2>6a. TypeOK /\ p \in Password /\ updatePasswordHash(i, p)
    BY <1>1, <2>6 DEF Inv
  <2> HIDE DEF i, p
  <2>6b. \A x \in users' : \E y \in users :
          /\ y.id = x.id /\ y.username = x.username /\ y.role = x.role
          /\ x.password = IF y.id = i THEN p ELSE y.password
    BY <2>6a, Updated
  <2>7. PICK v \in users : v.id = w.id /\ w.password = IF v.id = i THEN p ELSE v.password
    BY <1>1, <2>6b
  <2>8. v = u /\ u.id = req[q].row.id /\ w.password = req[q].password
    BY <1>1, <2>7 DEF Inv, TypeOK, i, p
  <2>9. Knows(req[q].row.id, req[q].row.username, req[q].row.role)
    BY <1>1, <2>6 DEF Inv, Known, KnownReq
  <2> QED BY <2>6, <2>8, <2>9 DEF Knows
<1>2. Inv /\ [Next]_vars
        => [\A u \in users, w \in users' :
              u.id = w.id /\ u.password # w.password => \E q \in Req : Meant(u, w, q)]_vars
  BY <1>1
<1> QED BY <1>2, Initial, Inductive, PTL DEF Spec, WritesItsAccount

(***************************************************************************)
(* Functions that are defined by recursion over the numbers.               *)
(***************************************************************************)
\* A set of numbers with something in it has a least one.
LEMMA LeastOne ==
  ASSUME NEW S \in SUBSET Nat, S # {}
  PROVE  \E n \in S : \A m \in S : n <= m
<1>1. IsWellFoundedOn({ss \in Nat \X Nat : ss[1] < ss[2]}, Nat)
  BY NatLessThanWellFounded, Zenon DEF OpToRel
<1>2. PICK x \in S : \A y \in S : ~(<<y, x>> \in {ss \in Nat \X Nat : ss[1] < ss[2]})
  BY <1>1, WFMin, Zenon
<1>3. ASSUME NEW y \in S, y < x PROVE FALSE
  <2>1. <<y, x>> \in Nat \X Nat
    OBVIOUS
  <2>2. <<y, x>> \in {ss \in Nat \X Nat : ss[1] < ss[2]}
    BY <1>3, <2>1
  <2> QED
    BY <1>2, <2>2
<1> QED
  BY <1>3

\* f follows the recursion up to n.
Follows(f, a, g, n) == f[0] = a /\ \A i \in 0..n - 1 : f[i + 1] = g[i][f[i]]

Recursion(f, a, g) == f[0] = a /\ \A n \in Nat : f[n + 1] = g[n][f[n]]

\* Two that follow the recursion agree as far as both go.
LEMMA SameSoFar ==
  ASSUME NEW a, NEW g, NEW p, NEW q, NEW m \in Nat, NEW n \in Nat, m <= n,
         Follows(p, a, g, m), Follows(q, a, g, n)
  PROVE  p[m] = q[m]
<1> DEFINE Differ == {i \in 0..m : p[i] # q[i]}
<1>1. ASSUME Differ # {} PROVE FALSE
  <2>1. PICK i \in Differ : \A j \in Differ : i <= j
    <3>1. Differ \in SUBSET Nat
      OBVIOUS
    <3> QED
      BY <1>1, <3>1, LeastOne
  <2>2. i # 0
    BY <2>1 DEF Follows
  <2>3. i - 1 \in 0..m - 1 /\ i - 1 \in 0..n - 1 /\ i - 1 \in 0..m /\ i - 1 + 1 = i
    BY <2>1, <2>2
  <2>4. p[i - 1] = q[i - 1]
    BY <2>1, <2>3
  <2>5. p[i] = g[i - 1][p[i - 1]] /\ q[i] = g[i - 1][q[i - 1]]
    BY <2>3 DEF Follows
  <2> QED
    BY <2>1, <2>4, <2>5
<1> QED
  BY <1>1

\* A first value and a step from each number to the next define a function.
LEMMA NatRecursion ==
  ASSUME NEW S, NEW a \in S, NEW g \in [Nat -> [S -> S]]
  PROVE  \E f \in [Nat -> S] : Recursion(f, a, g)
<1> DEFINE Bad == {n \in Nat : ~\E f \in [0..n -> S] : Follows(f, a, g, n)}
<1>1. Bad = {}
  <2> SUFFICES ASSUME Bad # {} PROVE FALSE
    OBVIOUS
  <2>1. PICK n \in Bad : \A m \in Bad : n <= m
    BY LeastOne
  <2>2. CASE n = 0
    <3> DEFINE f == [i \in 0..0 |-> a]
    <3>1. f \in [0..n -> S] /\ Follows(f, a, g, n)
      BY <2>2 DEF Follows
    <3> QED
      BY <2>1, <3>1
  <2>3. CASE n # 0
    <3>1. n \in Nat /\ n - 1 \in Nat /\ n - 1 \notin Bad
      BY <2>1, <2>3
    <3>2. PICK f \in [0..n - 1 -> S] : Follows(f, a, g, n - 1)
      BY <3>1
    <3> DEFINE h == [i \in 0..n |-> IF i < n THEN f[i] ELSE g[n - 1][f[n - 1]]]
    <3>3. g[n - 1][f[n - 1]] \in S
      BY <3>1
    <3>4. h \in [0..n -> S]
      BY <3>1, <3>3
    <3>5. h[0] = a
      BY <3>1, <3>2 DEF Follows
    <3>6. ASSUME NEW i \in 0..n - 1 PROVE h[i + 1] = g[i][h[i]]
      <4>1. CASE i = n - 1
        BY <3>1, <4>1
      <4>2. CASE i < n - 1
        BY <3>1, <3>2, <4>2 DEF Follows
      <4> QED
        BY <3>1, <4>1, <4>2
    <3>7. Follows(h, a, g, n)
      BY <3>5, <3>6 DEF Follows
    <3> QED
      BY <2>1, <3>4, <3>7
  <2> QED
    BY <2>2, <2>3
<1> DEFINE part(n) == CHOOSE f \in [0..n -> S] : Follows(f, a, g, n)
<1>2. ASSUME NEW n \in Nat PROVE part(n) \in [0..n -> S] /\ Follows(part(n), a, g, n)
  BY <1>1
\* Two of them agree as far as both go.
<1> HIDE DEF part
<1>3. ASSUME NEW m \in Nat, NEW n \in Nat, m <= n PROVE part(m)[m] = part(n)[m]
  <2>1. Follows(part(m), a, g, m) /\ Follows(part(n), a, g, n)
    BY <1>2
  <2> QED
    BY <1>3, <2>1, SameSoFar
<1> DEFINE whole == [n \in Nat |-> part(n)[n]]
<1>4. whole \in [Nat -> S]
  BY <1>2
<1>5. whole[0] = a
  BY <1>2 DEF Follows
<1>6. ASSUME NEW n \in Nat PROVE whole[n + 1] = g[n][whole[n]]
  <2>1. part(n + 1)[n + 1] = g[n][part(n + 1)[n]]
    BY <1>2 DEF Follows
  <2>2. part(n)[n] = part(n + 1)[n]
    BY <1>3
  <2> QED
    BY <2>1, <2>2
<1> QED
  BY <1>4, <1>5, <1>6 DEF Recursion

\* What never gets shorter from one number to the next is never shorter later.
LEMMA NeverShorter ==
  ASSUME NEW f \in [Nat -> Nat], \A n \in Nat : f[n] <= f[n + 1]
  PROVE  \A m, n \in Nat : m <= n => f[m] <= f[n]
<1> SUFFICES ASSUME NEW m \in Nat PROVE \A n \in Nat : m <= n => f[m] <= f[n]
  OBVIOUS
<1> DEFINE Bad == {n \in Nat : m <= n /\ ~(f[m] <= f[n])}
<1> SUFFICES ASSUME Bad # {} PROVE FALSE
  OBVIOUS
<1>1. PICK n \in Bad : \A i \in Bad : n <= i
  BY LeastOne
<1>2. n # m /\ n - 1 \in Nat /\ m <= n - 1
  <2>1. n \in Nat /\ m <= n /\ ~(f[m] <= f[n])
    BY <1>1
  <2>2. f[m] <= f[m]
    <3>1. f[m] \in Nat
      OBVIOUS
    <3> QED
      BY <3>1
  <2>3. n # m
    BY <2>1, <2>2
  <2> QED
    BY <2>1, <2>3
<1>3. f[m] <= f[n - 1]
  BY <1>1, <1>2
<1>4. f[n - 1] <= f[n - 1 + 1] /\ n - 1 + 1 = n
  BY <1>2
<1> QED
  BY <1>1, <1>2, <1>3, <1>4

\* The smaller of two numbers.
LEMMA MinOfTwo ==
  ASSUME NEW a \in Nat, NEW b \in Nat
  PROVE  Min({a, b}) = IF a <= b THEN a ELSE b
BY DEF Min

\* The values of a sequence are numbers if each is one after another.
LEMMA NumbersOnly ==
  ASSUME NEW h, h = [i \in Nat |-> h[i]], h[0] \in Nat,
         \A i \in Nat : h[i] \in Nat => h[i + 1] \in Nat
  PROVE  h \in [Nat -> Nat]
<1> DEFINE Off == {i \in Nat : h[i] \notin Nat}
<1>1. Off = {}
  <2> SUFFICES ASSUME Off # {} PROVE FALSE
    OBVIOUS
  <2>1. PICK n \in Off : \A m \in Off : n <= m
    BY LeastOne
  <2>2. n \in Nat /\ n # 0
    BY <2>1
  <2>3. n - 1 \in Nat /\ n - 1 + 1 = n /\ ~(n <= n - 1)
    BY <2>2
  <2>4. n - 1 \notin Off
    BY <2>1, <2>3
  <2>5. h[n - 1] \in Nat
    BY <2>3, <2>4
  <2> QED
    BY <2>1, <2>3, <2>5
<1> QED
  BY <1>1

LEMMA DoubledIs ==
  /\ Doubled \in [Nat -> Nat]
  /\ Doubled[0] = Base
  /\ \A i \in Nat : Doubled[i + 1] = 2 * Doubled[i]
<1> DEFINE g == [n \in Nat |-> [x \in Nat |-> 2 * x]]
<1>1. g \in [Nat -> [Nat -> Nat]] /\ Base \in Nat
  BY LockAssumption
<1>2. PICK f \in [Nat -> Nat] : Recursion(f, Base, g)
  BY <1>1, NatRecursion
<1>3. ASSUME NEW i \in Nat PROVE f[i] = IF i = 0 THEN Base ELSE 2 * f[i - 1]
  <2>1. CASE i # 0
    <3>1. i - 1 \in Nat /\ i - 1 + 1 = i
      BY <2>1
    <3>2. f[i] = g[i - 1][f[i - 1]] /\ f[i - 1] \in Nat
      BY <1>2, <3>1 DEF Recursion
    <3>3. g[i - 1][f[i - 1]] = 2 * f[i - 1]
      BY <3>1, <3>2
    <3> QED
      BY <2>1, <3>2, <3>3
  <2> QED
    BY <1>2, <2>1 DEF Recursion
<1>4. f = [i \in Nat |-> IF i = 0 THEN Base ELSE 2 * f[i - 1]]
  BY <1>2, <1>3
<1> HIDE DEF g
<1>5. Doubled = [i \in Nat |-> IF i = 0 THEN Base ELSE 2 * Doubled[i - 1]]
  BY <1>4, Zenon DEF Doubled
<1>6. ASSUME NEW i \in Nat PROVE Doubled[i] = IF i = 0 THEN Base ELSE 2 * Doubled[i - 1]
  BY <1>5
<1>7. Doubled[0] = Base
  BY <1>6
<1>8. ASSUME NEW i \in Nat PROVE Doubled[i + 1] = 2 * Doubled[i]
  <2>1. i + 1 \in Nat /\ i + 1 # 0 /\ i + 1 - 1 = i
    OBVIOUS
  <2> QED
    BY <1>6, <2>1
<1>9. Doubled = [i \in Nat |-> Doubled[i]]
  BY <1>5
<1>10. Doubled \in [Nat -> Nat]
  <2>1. Doubled[0] \in Nat
    BY <1>1, <1>7
  <2>2. ASSUME NEW i \in Nat, Doubled[i] \in Nat PROVE Doubled[i + 1] \in Nat
    BY <1>8, <2>2
  <2> QED
    BY <1>9, <2>1, <2>2, NumbersOnly
<1> QED
  BY <1>7, <1>8, <1>10

LEMMA PromisedIs ==
  /\ \A i \in Nat : PromisedLock(i) \in Nat /\ PromisedLock(i) >= 1
  /\ \A i, j \in Nat : i <= j => PromisedLock(i) <= PromisedLock(j)
<1>1. \A i \in Nat : Doubled[i] \in Nat /\ Doubled[i] <= Doubled[i + 1]
  BY DoubledIs
<1>2. \A i, j \in Nat : i <= j => Doubled[i] <= Doubled[j]
  BY <1>1, DoubledIs, NeverShorter
<1>3. Base \in Nat /\ Base >= 1 /\ Cap \in Nat /\ Base <= Cap
  BY LockAssumption
<1>4. \A i \in Nat : Doubled[i] >= Base
  BY <1>1, <1>2, <1>3, DoubledIs
<1>5. ASSUME NEW i \in Nat PROVE PromisedLock(i) = IF Doubled[i] <= Cap THEN Doubled[i] ELSE Cap
  BY <1>1, <1>3, MinOfTwo DEF PromisedLock
<1> QED
  BY <1>1, <1>2, <1>3, <1>4, <1>5

LEMMA SumIs ==
  /\ LocksSum \in [Nat -> Nat]
  /\ LocksSum[0] = 0
  /\ \A k \in Nat : LocksSum[k + 1] = LocksSum[k] + PromisedLock(k)
<1> DEFINE g == [n \in Nat |-> [x \in Nat |-> x + PromisedLock(n)]]
<1>1. g \in [Nat -> [Nat -> Nat]]
  BY PromisedIs
<1>2. PICK f \in [Nat -> Nat] : Recursion(f, 0, g)
  BY <1>1, NatRecursion
<1>3. ASSUME NEW k \in Nat PROVE f[k] = IF k = 0 THEN 0 ELSE f[k - 1] + PromisedLock(k - 1)
  <2>1. CASE k # 0
    <3>1. k - 1 \in Nat /\ k - 1 + 1 = k
      BY <2>1
    <3>2. f[k] = g[k - 1][f[k - 1]] /\ f[k - 1] \in Nat
      BY <1>2, <3>1 DEF Recursion
    <3>3. g[k - 1][f[k - 1]] = f[k - 1] + PromisedLock(k - 1)
      BY <3>1, <3>2
    <3> QED
      BY <2>1, <3>2, <3>3
  <2> QED
    BY <1>2, <2>1 DEF Recursion
<1>4. f = [k \in Nat |-> IF k = 0 THEN 0 ELSE f[k - 1] + PromisedLock(k - 1)]
  BY <1>2, <1>3
<1> HIDE DEF g
<1>5. LocksSum = [k \in Nat |-> IF k = 0 THEN 0 ELSE LocksSum[k - 1] + PromisedLock(k - 1)]
  BY <1>4, Zenon DEF LocksSum
<1>6. ASSUME NEW k \in Nat PROVE LocksSum[k] = IF k = 0 THEN 0 ELSE LocksSum[k - 1] + PromisedLock(k - 1)
  BY <1>5
<1>7. LocksSum[0] = 0
  BY <1>6
<1>8. ASSUME NEW k \in Nat PROVE LocksSum[k + 1] = LocksSum[k] + PromisedLock(k)
  <2>1. k + 1 \in Nat /\ k + 1 # 0 /\ k + 1 - 1 = k
    OBVIOUS
  <2> QED
    BY <1>6, <2>1
<1>9. LocksSum = [k \in Nat |-> LocksSum[k]]
  BY <1>5
<1>10. LocksSum \in [Nat -> Nat]
  <2>1. ASSUME NEW k \in Nat, LocksSum[k] \in Nat PROVE LocksSum[k + 1] \in Nat
    <3>1. PromisedLock(k) \in Nat
      BY PromisedIs
    <3> QED
      BY <1>8, <2>1, <3>1
  <2> QED
    BY <1>7, <1>9, <2>1, NumbersOnly
<1> QED
  BY <1>7, <1>8, <1>10

\* The k-th lock is not over before the k-th tick.
LEMMA SumIsLong == \A k \in Nat : LocksSum[k] >= k
<1> DEFINE Off == {k \in Nat : ~(LocksSum[k] >= k)}
<1> SUFFICES ASSUME Off # {} PROVE FALSE
  OBVIOUS
<1>1. PICK n \in Off : \A m \in Off : n <= m
  BY LeastOne
<1>2. n \in Nat /\ n # 0
  BY <1>1, SumIs
<1>3. n - 1 \in Nat /\ n - 1 + 1 = n /\ ~(n <= n - 1)
  BY <1>2
<1>4. LocksSum[n - 1] >= n - 1
  BY <1>1, <1>3
<1>5. LocksSum[n] = LocksSum[n - 1] + PromisedLock(n - 1) /\ LocksSum[n - 1] \in Nat
  BY <1>3, SumIs
<1>6. PromisedLock(n - 1) \in Nat /\ PromisedLock(n - 1) >= 1
  BY <1>3, PromisedIs
<1>7. LocksSum[n] >= n
  BY <1>2, <1>4, <1>5, <1>6
<1> QED
  BY <1>1, <1>7

\* Among the numbers up to m there is a largest one.
LEMMA LargestOne ==
  ASSUME NEW m \in Nat, NEW S \in SUBSET (0..m), S # {}
  PROVE  Max(S) \in S /\ \A x \in S : x <= Max(S)
<1> DEFINE R == {i \in Nat : \E x \in S : i = m - x}
<1>1. R # {}
  <2>1. PICK x \in S : TRUE
    OBVIOUS
  <2>2. m - x \in R
    BY <2>1
  <2> QED
    BY <2>2
<1>2. PICK i \in R : \A j \in R : i <= j
  <2>1. R \in SUBSET Nat
    OBVIOUS
  <2> HIDE DEF R
  <2> QED
    BY <1>1, <2>1, LeastOne
<1>3. PICK x \in S : i = m - x
  BY <1>2
<1>4. ASSUME NEW y \in S PROVE x >= y
  <2>1. m - y \in R
    OBVIOUS
  <2>2. i <= m - y
    BY <1>2, <2>1
  <2> QED
    BY <1>3, <2>2
<1> QED
  BY <1>4 DEF Max

LEMMA LocksOverIs ==
  ASSUME now \in Nat
  PROVE  LocksOver \in Nat /\ \A k \in Nat : LocksSum[k] <= now => k <= LocksOver
<1> DEFINE S == {k \in 0..now : LocksSum[k] <= now}
<1>1. 0 \in S
  BY SumIs
<1>2. Max(S) \in S /\ \A x \in S : x <= Max(S)
  BY <1>1, LargestOne
<1>3. ASSUME NEW k \in Nat, LocksSum[k] <= now PROVE k \in S
  <2>1. LocksSum[k] \in Nat /\ LocksSum[k] >= k
    BY SumIs, SumIsLong
  <2> QED
    BY <1>3, <2>1
<1>4. LocksOver = Max(S)
  BY DEF LocksOver
<1> QED
  BY <1>2, <1>3, <1>4

(***************************************************************************)
(* The account of a name: f failures, a lock until u, p tries under way,   *)
(* at the time t.  k locks are over (and, when it is locked, one is on).   *)
(***************************************************************************)
Covered(k, f, u, p, t) ==
  /\ LocksSum[k] <= t
  /\ IF u > t
     THEN /\ f + p <= Threshold - 1 + Cardinality(Slots) * (k + 1)
          /\ f >= Threshold + k
          /\ u >= LocksSum[k + 1]
     ELSE /\ f <= Threshold - 1 + Cardinality(Slots) * k
          /\ k > 0 => f >= Threshold + k - 1

Within(f, u, p, t) == \E k \in Nat : Covered(k, f, u, p, t)

LEMMA SlotsAre == Cardinality(Slots) \in Nat /\ Threshold \in Nat /\ Threshold >= 1
BY LockAssumption, FS_CardinalityType

\* One window more is one more of each slot.
LEMMA WindowMore ==
  ASSUME NEW k \in Nat
  PROVE  /\ Cardinality(Slots) * k \in Nat
         /\ Cardinality(Slots) * (k + 1) \in Nat
         /\ Cardinality(Slots) * (k + 1) = Cardinality(Slots) * k + Cardinality(Slots)
<1> DEFINE c == Cardinality(Slots)
<1>1. c \in Nat
  BY SlotsAre
<1> HIDE DEF c
<1>2. c * k \in Nat /\ c * (k + 1) \in Nat /\ c * (k + 1) = c * k + c
  BY <1>1
<1> QED
  BY <1>2 DEF c

\* The f-th failure leads to the lock that was promised for it.
LEMMA LengthIsPromised == \A f : LockLength(f) = PromisedLock(f - Threshold)
BY Zenon DEF LockLength, PromisedLock

LEMMA LengthIs ==
  /\ \A f \in Nat : f >= Threshold => LockLength(f) \in Nat
  /\ \A f, g \in Nat : f >= Threshold /\ f <= g => LockLength(f) <= LockLength(g)
BY LengthIsPromised, PromisedIs, SlotsAre

LEMMA NothingTried ==
  ASSUME NEW p, NEW t \in Nat
  PROVE  Within(0, 0, p, t)
<1>1. Covered(0, 0, 0, p, t)
  BY SumIs, SlotsAre, WindowMore DEF Covered
<1> QED
  BY <1>1 DEF Within

LEMMA FewerTries ==
  ASSUME NEW f \in Nat, NEW u \in Nat, NEW p \in Nat, NEW t \in Nat, Within(f, u, p, t),
         NEW q \in Nat, q <= p \/ u <= t
  PROVE  Within(f, u, q, t)
<1>1. PICK k \in Nat : Covered(k, f, u, p, t)
  BY DEF Within
<1>2. Cardinality(Slots) * (k + 1) \in Nat
  BY WindowMore, SlotsAre
<1>3. Covered(k, f, u, q, t)
  BY <1>1, <1>2, SlotsAre DEF Covered
<1> QED
  BY <1>3 DEF Within

LEMMA OneMoreFails ==
  ASSUME NEW f \in Nat, NEW u \in Nat, NEW p \in Nat, NEW t \in Nat, Within(f, u, p, t),
         1 <= p, p <= Cardinality(Slots)
  PROVE  Within(f + 1, IF f + 1 >= Threshold THEN t + LockLength(f + 1) ELSE 0, p - 1, t)
<1> DEFINE c == Cardinality(Slots)
<1> DEFINE v == IF f + 1 >= Threshold THEN t + LockLength(f + 1) ELSE 0
<1>1. PICK k \in Nat : Covered(k, f, u, p, t)
  BY DEF Within
<1>2. c \in Nat /\ Threshold \in Nat /\ Threshold >= 1
  BY SlotsAre
<1>3. c * k \in Nat /\ c * (k + 1) = c * k + c
  BY WindowMore
<1>4. LocksSum[k] \in Nat /\ LocksSum[k + 1] = LocksSum[k] + PromisedLock(k)
  BY SumIs
<1>5. CASE f + 1 < Threshold
  <2>1. k = 0 /\ ~(u > t)
    BY <1>1, <1>2, <1>5 DEF Covered
  <2>2. c * k = 0
    BY <1>2, <2>1
  <2>3. Covered(k, f + 1, 0, p - 1, t)
    BY <1>1, <1>2, <1>5, <2>1, <2>2 DEF Covered
  <2> QED
    BY <1>2, <1>5, <2>3 DEF Within
<1>6. CASE f + 1 >= Threshold
  <2>1. f + 1 - Threshold \in Nat
    BY <1>2, <1>6
  <2>2. LockLength(f + 1) = PromisedLock(f + 1 - Threshold)
    BY <1>2, LengthIsPromised
  <2>3. f + 1 >= Threshold + k /\ f + 1 + (p - 1) <= Threshold - 1 + c * (k + 1)
    <3>1. CASE u > t
      BY <1>1, <1>2, <1>3, <3>1 DEF Covered
    <3>2. CASE ~(u > t)
      BY <1>1, <1>2, <1>3, <1>6, <3>2 DEF Covered
    <3> QED
      BY <3>1, <3>2
  <2>4. /\ PromisedLock(k) \in Nat /\ PromisedLock(f + 1 - Threshold) \in Nat
        /\ PromisedLock(f + 1 - Threshold) >= 1
        /\ PromisedLock(k) <= PromisedLock(f + 1 - Threshold)
    BY <1>2, <2>1, <2>3, PromisedIs
  <2>5. v = t + PromisedLock(f + 1 - Threshold)
    BY <1>6, <2>2
  <2>6. LocksSum[k] <= t
    BY <1>1 DEF Covered
  <2>7. v > t /\ v >= LocksSum[k + 1]
    BY <1>4, <2>4, <2>5, <2>6
  <2>8. Covered(k, f + 1, v, p - 1, t)
    BY <2>3, <2>6, <2>7 DEF Covered
  <2> QED
    BY <2>8 DEF Within
<1> QED
  BY <1>2, <1>5, <1>6

LEMMA TimePasses ==
  ASSUME NEW f \in Nat, NEW u \in Nat, NEW p \in Nat, NEW t \in Nat, Within(f, u, p, t)
  PROVE  Within(f, u, p, t + 1)
<1>1. PICK k \in Nat : Covered(k, f, u, p, t)
  BY DEF Within
<1>2. Cardinality(Slots) * (k + 1) \in Nat /\ Threshold \in Nat
  BY WindowMore, SlotsAre
<1>3. LocksSum[k] \in Nat /\ LocksSum[k + 1] \in Nat
  BY SumIs
<1>4. CASE u > t /\ ~(u > t + 1)
  <2>1. Covered(k + 1, f, u, p, t + 1)
    BY <1>1, <1>2, <1>3, <1>4 DEF Covered
  <2> QED
    BY <2>1 DEF Within
<1>5. CASE ~(u > t) \/ u > t + 1
  <2>1. Covered(k, f, u, p, t + 1)
    BY <1>1, <1>3, <1>5 DEF Covered
  <2> QED
    BY <2>1 DEF Within
<1> QED
  BY <1>4, <1>5

(***************************************************************************)
(* The lock                                                                *)
(***************************************************************************)
\* The tries of a name that are past its lock.
Under(n) == {s \in Slots : tries[s] # Nil /\ tries[s].name = n}

\* A lock is one that its name's failures have earned, and no longer.
LockShape ==
  \A n \in Names : Until(n) > 0 =>
    /\ Failures(attempts, n) >= Threshold
    /\ Until(n) <= now + LockLength(Failures(attempts, n))

AllWithin ==
  \A n \in Names : Within(Failures(attempts, n), Until(n), Cardinality(Under(n)), now)

LockInv == LockTypeOK /\ IsFiniteSet(Tracked) /\ LockShape /\ AllWithin

LEMMA JustOne ==
  ASSUME NEW x
  PROVE  IsFiniteSet({x}) /\ Cardinality({x}) = 1
BY FS_Singleton, Zenon

LEMMA OneAdded ==
  ASSUME NEW S, IsFiniteSet(S), NEW x
  PROVE  /\ IsFiniteSet(S \cup {x}) /\ Cardinality(S \cup {x}) \in Nat
         /\ Cardinality(S \cup {x}) <= Cardinality(S) + 1
<1> DEFINE T == S \cup {x}
<1>1. /\ IsFiniteSet(T)
      /\ Cardinality(T) = IF x \in S THEN Cardinality(S) ELSE Cardinality(S) + 1
  BY FS_AddElement, Zenon
<1> HIDE DEF T
<1>2. Cardinality(S) \in Nat
  BY FS_CardinalityType
<1> QED
  BY <1>1, <1>2 DEF T

LEMMA OneRemoved ==
  ASSUME NEW S, IsFiniteSet(S), NEW x \in S
  PROVE  Cardinality(S \ {x}) = Cardinality(S) - 1
BY FS_RemoveElement, Zenon

LEMMA SomeSlots ==
  ASSUME NEW U \in SUBSET Slots
  PROVE  IsFiniteSet(U) /\ Cardinality(U) \in Nat /\ Cardinality(U) <= Cardinality(Slots)
<1>1. IsFiniteSet(Slots)
  BY LockAssumption
<1>2. IsFiniteSet(U) /\ Cardinality(U) <= Cardinality(Slots)
  BY <1>1, FS_Subset
<1> QED
  BY <1>2, FS_CardinalityType

LEMMA CountsAre ==
  ASSUME LockTypeOK
  PROVE  \A n \in Names : Failures(attempts, n) \in Nat /\ Until(n) \in Nat /\ now \in Nat
BY DEF LockTypeOK, Attempt, Failures, Until, Tracked

LEMMA LockStarts == LockInit => LockInv
<1> SUFFICES ASSUME LockInit PROVE LockInv
  OBVIOUS
<1>1. Tracked = {} /\ others = 0 /\ now = 0 /\ tries = [s \in Slots |-> Nil]
  BY DEF LockInit, Tracked
<1>2. IsFiniteSet(Tracked) /\ Cardinality(Tracked) = 0
  BY <1>1, FS_EmptySet
<1>3. LockTypeOK
  BY <1>1, <1>2, LockAssumption DEF LockTypeOK, Tracked
<1>4. \A n \in Names : Failures(attempts, n) = 0 /\ Until(n) = 0
  BY <1>1 DEF Failures, Until, Tracked
<1>5. LockShape
  BY <1>4 DEF LockShape
<1>6. AllWithin
  BY <1>1, <1>4, NothingTried DEF AllWithin
<1> QED
  BY <1>2, <1>3, <1>5, <1>6 DEF LockInv

\* A try is past the lock: its name is not locked.
LEMMA BeginKeeps ==
  ASSUME LockInv, NEW s \in Slots, NEW t \in Try, Begin(s, t)
  PROVE  LockInv'
<1> USE DEF LockInv
<1>1. LockTypeOK' /\ IsFiniteSet(Tracked)'
  BY DEF Begin, LockTypeOK, Tracked
<1>2. \A n \in Names : Until(n)' = Until(n) /\ Failures(attempts, n)' = Failures(attempts, n)
  BY DEF Begin, Until, Failures, Tracked
<1>3. LockShape'
  BY <1>2 DEF Begin, LockShape
<1>4. ASSUME NEW n \in Names
      PROVE  Within(Failures(attempts, n), Until(n), Cardinality(Under(n)), now)'
  <2>1. /\ Within(Failures(attempts, n), Until(n), Cardinality(Under(n)), now)
        /\ Failures(attempts, n) \in Nat /\ Until(n) \in Nat /\ now \in Nat
    BY CountsAre DEF AllWithin
  <2>2. Cardinality(Under(n)) \in Nat /\ Cardinality(Under(n)') \in Nat
    <3>1. Under(n) \in SUBSET Slots /\ Under(n)' \in SUBSET Slots
      BY DEF Under
    <3> QED
      BY <3>1, SomeSlots
  <2>3. CASE n = t.name
    <3>1. Until(n) <= now
      BY <2>1, <2>3 DEF Begin, Locked
    <3> QED
      BY <1>2, <2>1, <2>2, <3>1, FewerTries DEF Begin
  <2>4. CASE n # t.name
    <3>1. Under(n)' = Under(n)
      BY <2>4 DEF Begin, Under, LockTypeOK
    <3> QED
      BY <1>2, <2>1, <3>1 DEF Begin
  <2> QED
    BY <2>3, <2>4
<1>5. AllWithin'
  BY <1>4 DEF AllWithin
<1> QED
  BY <1>1, <1>3, <1>5

\* A store that has what is kept of the old one and nothing else.
LEMMA SuccessKeeps ==
  ASSUME LockInv, NEW s \in Slots, TrySucceeds(s)
  PROVE  LockInv'
<1> USE DEF LockInv, TrySucceeds, RecordSuccess
<1> DEFINE m == tries[s].name
<1>1. tries[s] \in Try /\ m \in Names
  BY DEF LockTypeOK, Try
<1>2. Tracked' = Tracked \ {m} /\ \A n \in Tracked' : attempts'[n] = attempts[n]
  BY DEF Tracked
<1>3. IsFiniteSet(Tracked') /\ Cardinality(Tracked') <= Cardinality(Tracked)
  BY <1>2, FS_Subset
<1>4. Cardinality(Tracked) \in Nat /\ Cardinality(Tracked') \in Nat
  BY <1>3, FS_CardinalityType
<1>5. LockTypeOK'
  BY <1>2, <1>3, <1>4, LockAssumption DEF LockTypeOK
<1>6. \A n \in Names : \/ Failures(attempts, n)' = 0 /\ Until(n)' = 0
                       \/ Failures(attempts, n)' = Failures(attempts, n) /\ Until(n)' = Until(n)
  BY <1>2 DEF Failures, Until, Tracked
<1>7. LockShape'
  BY <1>6 DEF LockShape
<1>8. ASSUME NEW n \in Names
      PROVE  Within(Failures(attempts, n), Until(n), Cardinality(Under(n)), now)'
  <2>1. /\ Within(Failures(attempts, n), Until(n), Cardinality(Under(n)), now)
        /\ Failures(attempts, n) \in Nat /\ Until(n) \in Nat /\ now \in Nat
    BY CountsAre DEF AllWithin
  <2>2. Under(n)' \subseteq Under(n) /\ Under(n) \in SUBSET Slots /\ Under(n)' \in SUBSET Slots
    BY DEF Under, LockTypeOK
  <2>3. Cardinality(Under(n)) \in Nat /\ Cardinality(Under(n)') \in Nat
    BY <2>2, SomeSlots
  <2>4. Cardinality(Under(n)') <= Cardinality(Under(n))
    BY <2>2, SomeSlots, FS_Subset
  <2>5. Within(0, 0, Cardinality(Under(n)'), now)
    BY <2>1, NothingTried
  <2>6. Within(Failures(attempts, n), Until(n), Cardinality(Under(n)'), now)
    BY <2>1, <2>3, <2>4, FewerTries
  <2> QED
    BY <1>6, <2>5, <2>6
<1>9. AllWithin'
  BY <1>8 DEF AllWithin
<1> QED
  BY <1>3, <1>5, <1>7, <1>9

\* What the failure is counted in: the store, or an empty one if it was full.
OldStore == IF Full THEN [n \in {} |-> Nil] ELSE attempts

LEMMA FailureKeeps ==
  ASSUME LockInv, NEW s \in Slots, TryFails(s)
  PROVE  LockInv'
<1> USE DEF LockInv
<1>0. PICK m \in Names : m = tries[s].name
  BY DEF TryFails, LockTypeOK, Try
<1> DEFINE f == Failures(OldStore, m)
<1> DEFINE v == IF f + 1 >= Threshold THEN now + LockLength(f + 1) ELSE 0
<1>1. s \in Under(m)
  BY <1>0 DEF TryFails, Under
<1>2. /\ attempts' = [n \in DOMAIN OldStore \cup {m} |-> IF n = m THEN Counted(OldStore, m) ELSE OldStore[n]]
      /\ others' = IF Full THEN 0 ELSE others
      /\ tries' = [tries EXCEPT ![s] = Nil]
      /\ now' = now
  BY <1>0 DEF TryFails, RecordFailure, OldStore
<1>3. now \in Nat /\ f \in Nat /\ v \in Nat
  <2>1. now \in Nat
    BY DEF LockTypeOK
  <2>2. f \in Nat
    BY DEF LockTypeOK, Attempt, Failures, OldStore, Tracked
  <2> QED
    BY <2>1, <2>2, LengthIs
<1>4. Counted(OldStore, m) = [failures |-> f + 1, until |-> v]
  BY DEF Counted
<1> HIDE DEF f, v
<1>5. \/ Full /\ Tracked' = {m}
      \/ ~Full /\ Tracked' = Tracked \cup {m}
  BY <1>2 DEF OldStore, Tracked
<1>6. /\ IsFiniteSet(Tracked') /\ Cardinality(Tracked') \in Nat
      /\ Cardinality(Tracked') + others' <= MaxTracked
  <2>1. CASE Full
    <3>1. Tracked' = {m} /\ others' = 0
      BY <1>2, <1>5, <2>1
    <3>2. IsFiniteSet({m}) /\ Cardinality({m}) = 1
      BY JustOne
    <3> QED
      BY <3>1, <3>2, LockAssumption
  <2>2. CASE ~Full
    <3>1. Tracked' = Tracked \cup {m} /\ others' = others
      BY <1>2, <1>5, <2>2
    <3>2. IsFiniteSet(Tracked') /\ Cardinality(Tracked') <= Cardinality(Tracked) + 1
      BY <3>1, OneAdded
    <3>3. Cardinality(Tracked) \in Nat /\ Cardinality(Tracked') \in Nat
      BY <3>2, FS_CardinalityType
    <3> QED
      BY <2>2, <3>1, <3>2, <3>3, LockAssumption DEF Full, LockTypeOK
  <2> QED
    BY <2>1, <2>2
<1>7. LockTypeOK'
  <2>1. Tracked' \subseteq Names
    BY <1>1, <1>5 DEF LockTypeOK
  <2>2. \A n \in Tracked' : attempts'[n] \in Attempt
    BY <1>2, <1>3, <1>4, <1>5 DEF LockTypeOK, Attempt, OldStore, Tracked
  <2>3. others' \in 0..MaxTracked
    BY <1>2, LockAssumption DEF LockTypeOK
  <2>4. tries' \in [Slots -> Try \cup {Nil}]
    BY <1>2 DEF LockTypeOK
  <2> QED
    BY <1>2, <1>6, <2>1, <2>2, <2>3, <2>4 DEF LockTypeOK
<1>8. Failures(attempts, m)' = f + 1 /\ Until(m)' = v
  <2>1. m \in DOMAIN attempts' /\ attempts'[m] = [failures |-> f + 1, until |-> v]
    BY <1>2, <1>4
  <2> QED
    BY <2>1 DEF Failures, Until, Tracked
<1>9. ASSUME NEW n \in Names, n # m
      PROVE  \/ Failures(attempts, n)' = 0 /\ Until(n)' = 0
             \/ Failures(attempts, n)' = Failures(attempts, n) /\ Until(n)' = Until(n)
  BY <1>2, <1>9 DEF Failures, Until, Tracked, OldStore
<1>10. LockShape'
  <2> SUFFICES ASSUME NEW n \in Names, Until(n)' > 0
               PROVE  /\ Failures(attempts, n)' >= Threshold
                      /\ Until(n)' <= now + LockLength(Failures(attempts, n)')
    BY <1>2 DEF LockShape
  <2>1. CASE n = m
    <3>1. f + 1 >= Threshold /\ v = now + LockLength(f + 1)
      BY <1>3, <1>8, <2>1 DEF v
    <3> QED
      BY <1>3, <1>8, <2>1, <3>1
  <2>2. CASE n # m
    BY <1>9, <2>2 DEF LockShape
  <2> QED
    BY <2>1, <2>2
<1>11. ASSUME NEW n \in Names
       PROVE  Within(Failures(attempts, n), Until(n), Cardinality(Under(n)), now)'
  <2>1. /\ Within(Failures(attempts, n), Until(n), Cardinality(Under(n)), now)
        /\ Failures(attempts, n) \in Nat /\ Until(n) \in Nat /\ now \in Nat
    BY CountsAre DEF AllWithin
  <2>2. Under(n) \in SUBSET Slots /\ Under(n)' = Under(n) \ {s}
    BY <1>2 DEF Under, LockTypeOK
  <2>3. /\ IsFiniteSet(Under(n)) /\ Cardinality(Under(n)) \in Nat
        /\ Cardinality(Under(n)) <= Cardinality(Slots)
    BY <2>2, SomeSlots
  <2>4. CASE n = m
    <3>1. Cardinality(Under(n)') = Cardinality(Under(n)) - 1
      BY <1>1, <2>2, <2>3, <2>4, OneRemoved
    <3>2. Cardinality(Under(n)) >= 1
      <4>1. Under(n)' \in SUBSET Slots
        BY <2>2
      <4>2. Cardinality(Under(n)') \in Nat
        BY <4>1, SomeSlots
      <4> QED
        BY <2>3, <3>1, <4>2
    <3>3. CASE Full
      <4>1. f = 0
        BY <3>3 DEF f, Failures, OldStore
      <4>2. Within(0, 0, Cardinality(Under(n)), now)
        BY <2>1, NothingTried
      <4>3. Within(f + 1, v, Cardinality(Under(n)) - 1, now)
        BY <1>3, <2>3, <3>2, <4>1, <4>2, OneMoreFails DEF v
      <4> QED
        BY <1>2, <1>8, <2>4, <3>1, <4>3
    <3>4. CASE ~Full
      <4>1. f = Failures(attempts, n)
        BY <2>4, <3>4 DEF f, OldStore
      <4>2. Within(f + 1, v, Cardinality(Under(n)) - 1, now)
        BY <1>3, <2>1, <2>3, <3>2, <4>1, OneMoreFails DEF v
      <4> QED
        BY <1>2, <1>8, <2>4, <3>1, <4>2
    <3> QED
      BY <3>3, <3>4
  <2>5. CASE n # m
    <3>1. Under(n)' = Under(n)
      BY <1>0, <1>2, <2>5 DEF Under, LockTypeOK
    <3> QED
      BY <1>2, <1>9, <2>1, <2>5, <3>1, NothingTried
  <2> QED
    BY <2>4, <2>5
<1>12. AllWithin'
  BY <1>11 DEF AllWithin
<1> QED
  BY <1>6, <1>7, <1>10, <1>12

\* The store as it is, or an empty one; no try more than before.
LEMMA ForgettingKeeps ==
  ASSUME LockInv, UNCHANGED now,
         \/ UNCHANGED attempts /\ others' \in Nat /\ Cardinality(Tracked) + others' <= MaxTracked
         \/ attempts' = [n \in {} |-> Nil] /\ others' \in 0..1,
         tries' \in [Slots -> Try \cup {Nil}],
         \A n \in Names : Under(n)' \subseteq Under(n)
  PROVE  LockInv'
<1> USE DEF LockInv
<1>1. \/ Tracked' = Tracked /\ UNCHANGED attempts /\ Cardinality(Tracked) + others' <= MaxTracked
      \/ Tracked' = {} /\ others' \in 0..1
  BY DEF Tracked
<1>2. Cardinality(Tracked) \in Nat /\ IsFiniteSet({}) /\ Cardinality({}) = 0
  BY FS_CardinalityType, FS_EmptySet
<1>3. LockTypeOK' /\ IsFiniteSet(Tracked')
  <2>1. MaxTracked \in Nat /\ MaxTracked >= 1
    BY LockAssumption
  <2>2. CASE Tracked' = Tracked /\ UNCHANGED attempts /\ Cardinality(Tracked) + others' <= MaxTracked
    <3>1. others' \in 0..MaxTracked
      BY <1>2, <2>1, <2>2 DEF LockTypeOK
    <3> QED
      BY <2>2, <3>1 DEF LockTypeOK
  <2>3. CASE Tracked' = {} /\ others' \in 0..1
    <3>1. Cardinality(Tracked') + others' <= MaxTracked /\ others' \in 0..MaxTracked
      BY <1>2, <2>1, <2>3
    <3> QED
      BY <1>2, <2>3, <3>1 DEF LockTypeOK
  <2> QED
    BY <1>1, <2>2, <2>3
<1>4. \A n \in Names : \/ Failures(attempts, n)' = 0 /\ Until(n)' = 0
                       \/ Failures(attempts, n)' = Failures(attempts, n) /\ Until(n)' = Until(n)
  BY <1>1 DEF Failures, Until, Tracked
<1>5. LockShape'
  BY <1>4 DEF LockShape
<1>6. ASSUME NEW n \in Names
      PROVE  Within(Failures(attempts, n), Until(n), Cardinality(Under(n)), now)'
  <2>1. /\ Within(Failures(attempts, n), Until(n), Cardinality(Under(n)), now)
        /\ Failures(attempts, n) \in Nat /\ Until(n) \in Nat /\ now \in Nat
    BY CountsAre DEF AllWithin
  <2>2. Under(n)' \subseteq Under(n) /\ Under(n) \in SUBSET Slots /\ Under(n)' \in SUBSET Slots
    BY DEF Under
  <2>3. Cardinality(Under(n)) \in Nat /\ Cardinality(Under(n)') \in Nat
    BY <2>2, SomeSlots
  <2>4. Cardinality(Under(n)') <= Cardinality(Under(n))
    BY <2>2, SomeSlots, FS_Subset
  <2>5. Within(0, 0, Cardinality(Under(n)'), now)
    BY <2>1, NothingTried
  <2>6. Within(Failures(attempts, n), Until(n), Cardinality(Under(n)'), now)
    BY <2>1, <2>3, <2>4, FewerTries
  <2> QED
    BY <1>4, <2>5, <2>6
<1>7. AllWithin'
  BY <1>6 DEF AllWithin
<1> QED
  BY <1>3, <1>5, <1>7

LEMMA OthersKeep ==
  ASSUME LockInv, OtherName \/ RestartConsole
  PROVE  LockInv'
<1> USE DEF LockInv
<1>1. tries \in [Slots -> Try \cup {Nil}] /\ others \in Nat
  BY LockAssumption DEF LockTypeOK
<1>2. Cardinality(Tracked) \in Nat /\ Cardinality(Tracked) + others <= MaxTracked
  BY FS_CardinalityType DEF LockTypeOK
<1>3. CASE OtherName
  <2>1. \A n \in Names : Under(n)' \subseteq Under(n)
    BY <1>3 DEF OtherName, Under
  <2>2. UNCHANGED now /\ tries' \in [Slots -> Try \cup {Nil}]
    BY <1>1, <1>3 DEF OtherName
  <2>3. \/ UNCHANGED attempts /\ others' \in Nat /\ Cardinality(Tracked) + others' <= MaxTracked
        \/ attempts' = [n \in {} |-> Nil] /\ others' \in 0..1
    BY <1>1, <1>2, <1>3, LockAssumption DEF OtherName, Full
  <2> QED
    BY <2>1, <2>2, <2>3, ForgettingKeeps
<1>4. CASE RestartConsole
  <2>1. \A n \in Names : Under(n)' \subseteq Under(n)
    BY <1>4 DEF RestartConsole, Under
  <2>2. UNCHANGED now /\ tries' \in [Slots -> Try \cup {Nil}]
    BY <1>4 DEF RestartConsole
  <2>3. attempts' = [n \in {} |-> Nil] /\ others' \in 0..1
    BY <1>4 DEF RestartConsole
  <2> QED
    BY <2>1, <2>2, <2>3, ForgettingKeeps
<1> QED
  BY <1>3, <1>4

LEMMA TickKeeps ==
  ASSUME LockInv, Tick
  PROVE  LockInv'
<1> USE DEF LockInv
<1>1. now \in Nat /\ now' = now + 1 /\ UNCHANGED <<attempts, others, tries>>
  BY DEF Tick, LockTypeOK
<1>2. LockTypeOK' /\ IsFiniteSet(Tracked)'
  BY <1>1, LockAssumption DEF Tick, LockTypeOK, Tracked
<1>3. \A n \in Names : /\ Failures(attempts, n)' = Failures(attempts, n) /\ Until(n)' = Until(n)
                       /\ Under(n)' = Under(n)
  BY <1>1 DEF Failures, Until, Tracked, Under
<1>4. \A n \in Names : /\ Failures(attempts, n) \in Nat /\ Until(n) \in Nat
                       /\ Under(n) \in SUBSET Slots
  BY CountsAre DEF Under
<1>5. LockShape'
  <2> SUFFICES ASSUME NEW n \in Names, Until(n) > 0
               PROVE  /\ Failures(attempts, n) >= Threshold
                      /\ Until(n) <= now + 1 + LockLength(Failures(attempts, n))
    BY <1>1, <1>3 DEF LockShape
  <2>1. /\ Failures(attempts, n) >= Threshold
        /\ Until(n) <= now + LockLength(Failures(attempts, n))
    BY DEF LockShape
  <2>2. LockLength(Failures(attempts, n)) \in Nat
    BY <1>4, <2>1, LengthIs
  <2> QED
    BY <1>1, <1>4, <2>1, <2>2
<1>6. ASSUME NEW n \in Names
      PROVE  Within(Failures(attempts, n), Until(n), Cardinality(Under(n)), now)'
  <2>1. Cardinality(Under(n)) \in Nat
    BY <1>4, SomeSlots
  <2>2. Within(Failures(attempts, n), Until(n), Cardinality(Under(n)), now + 1)
    BY <1>1, <1>4, <2>1, TimePasses DEF AllWithin
  <2> QED
    BY <1>1, <1>3, <2>2
<1>7. AllWithin'
  BY <1>6 DEF AllWithin
<1> QED
  BY <1>2, <1>5, <1>7

\* The budget follows from the invariant.
LEMMA WithinIsBudget ==
  ASSUME LockInv
  PROVE  GuessBudget
<1> SUFFICES ASSUME NEW n \in Tracked
             PROVE  attempts[n].failures <= Threshold - 1 + Cardinality(Slots) * (1 + LocksOver)
  BY DEF GuessBudget
<1> DEFINE c == Cardinality(Slots)
<1> DEFINE f == attempts[n].failures
<1>1. n \in Names /\ f = Failures(attempts, n)
  BY DEF LockInv, LockTypeOK, Failures, Tracked
<1>2. f \in Nat /\ Until(n) \in Nat /\ now \in Nat
  BY <1>1, CountsAre DEF LockInv
<1>3. Cardinality(Under(n)) \in Nat
  <2>1. Under(n) \in SUBSET Slots
    BY DEF Under
  <2> QED
    BY <2>1, SomeSlots
<1>4. PICK k \in Nat : Covered(k, f, Until(n), Cardinality(Under(n)), now)
  BY <1>1 DEF LockInv, AllWithin, Within
<1>5. LocksOver \in Nat /\ k <= LocksOver
  BY <1>2, <1>4, LocksOverIs DEF Covered
<1>6. c \in Nat /\ Threshold \in Nat
  BY SlotsAre
<1>7. c * k \in Nat /\ c * (k + 1) = c * k + c
  BY WindowMore
<1>8. f <= Threshold - 1 + c * (k + 1)
  BY <1>2, <1>3, <1>4, <1>6, <1>7 DEF Covered
<1>9. c * (k + 1) <= c * (1 + LocksOver)
  <2> HIDE DEF c
  <2>1. PICK d \in Nat : LocksOver = k + d
    <3>1. LocksOver - k \in Nat /\ LocksOver = k + (LocksOver - k)
      BY <1>5
    <3> QED
      BY <3>1
  <2>2. c * (1 + LocksOver) = c * (k + 1) + c * d /\ c * d \in Nat
    BY <1>6, <2>1
  <2> QED
    BY <1>6, <1>7, <2>2
<1> HIDE DEF c, f
<1>10. c * (1 + LocksOver) \in Nat
  BY <1>5, <1>6
<1>11. f <= Threshold - 1 + c * (1 + LocksOver)
  BY <1>2, <1>6, <1>7, <1>8, <1>9, <1>10
<1> QED
  BY <1>11 DEF c, f

\* No failure opens a lock or brings its end nearer.
LEMMA FailureHolds ==
  ASSUME LockInv, NEW s \in Slots, TryFails(s), ~Full, NEW n \in Names
  PROVE  Until(n)' >= Until(n)
<1> USE DEF LockInv
<1>0. PICK m \in Names : m = tries[s].name
  BY DEF TryFails, LockTypeOK, Try
<1> DEFINE f == Failures(attempts, m)
<1>1. /\ attempts' = [i \in Tracked \cup {m} |-> IF i = m THEN Counted(attempts, m) ELSE attempts[i]]
      /\ now' = now
  BY <1>0 DEF TryFails, RecordFailure, Tracked
<1>2. now \in Nat /\ f \in Nat /\ Until(n) \in Nat /\ Threshold \in Nat
  BY CountsAre, SlotsAre
<1> HIDE DEF f
<1>3. CASE n # m
  <2>1. Until(n)' = Until(n)
    BY <1>1, <1>3 DEF Until, Tracked
  <2> QED
    BY <1>2, <2>1
<1>4. CASE n = m /\ f + 1 >= Threshold
  <2>1. Until(n)' = now + LockLength(f + 1)
    BY <1>1, <1>4 DEF Until, Tracked, Counted, f
  <2>2. LockLength(f + 1) \in Nat
    BY <1>2, <1>4, LengthIs
  <2>3. CASE Until(n) > 0
    <3>1. f >= Threshold /\ Until(n) <= now + LockLength(f)
      BY <1>4, <2>3 DEF LockShape, f
    <3>2. LockLength(f) \in Nat /\ LockLength(f) <= LockLength(f + 1)
      BY <1>2, <3>1, LengthIs
    <3> QED
      BY <1>2, <2>1, <2>2, <3>1, <3>2
  <2> QED
    BY <1>2, <2>1, <2>2, <2>3
<1>5. CASE n = m /\ ~(f + 1 >= Threshold)
  <2>1. Until(n)' = 0
    BY <1>1, <1>5 DEF Until, Tracked, Counted, f
  <2>2. ~(Until(n) > 0)
    BY <1>2, <1>5 DEF LockShape, f
  <2> QED
    BY <1>2, <2>1, <2>2
<1> QED
  BY <1>3, <1>4, <1>5

(***************************************************************************)
(* The rules and the pages                                                 *)
(***************************************************************************)
\* The pieces that paths are made of.
Piece ==
  {"-presets", "-settings", "/", "access", "access-status", "account", "addinput",
   "alert-routes", "alerts", "api", "apps", "audit", "channels", "conclude",
   "desired-state", "detail", "disconnect", "help", "hls-dump", "hosts", "id3",
   "ingest-info", "key-presets", "keys", "live", "logs", "multiplex-channels",
   "output-profiles", "password", "profiles", "pull", "push", "rec", "record",
   "reissue", "reload-certificate", "scheduled-channels", "servers", "smtp", "stats",
   "stop", "stream-events", "streams", "subtitles", "test", "thumbnail", "users",
   "vhosts", "viewer-links", "vod-files"}
Text == Seq(Piece)

LEMMA OnePiece ==
  ASSUME NEW a \in Piece
  PROVE  <<a>> \in Text /\ Len(<<a>>) = 1 /\ 1 \in 1..Len(<<a>>) /\ <<a>>[1] = a
BY DEF Text

LEMMA TwoPieces ==
  ASSUME NEW a \in Piece, NEW b \in Piece
  PROVE  /\ <<a, b>> \in Text /\ Len(<<a, b>>) = 2 /\ 1 \in 1..Len(<<a, b>>) /\ 2 \in 1..Len(<<a, b>>)
         /\ <<a, b>>[1] = a /\ <<a, b>>[2] = b
BY DEF Text

LEMMA ThreePieces ==
  ASSUME NEW a \in Piece, NEW b \in Piece, NEW c \in Piece
  PROVE  /\ <<a, b, c>> \in Text /\ Len(<<a, b, c>>) = 3
         /\ 1 \in 1..Len(<<a, b, c>>) /\ 2 \in 1..Len(<<a, b, c>>)
         /\ <<a, b, c>>[1] = a /\ <<a, b, c>>[2] = b
BY DEF Text

LEMMA Joined ==
  ASSUME NEW p \in Text, NEW q \in Text
  PROVE  /\ p \o q \in Text /\ Len(p \o q) = Len(p) + Len(q) /\ Len(p) \in Nat /\ Len(q) \in Nat
         /\ \A i \in 1..Len(p) : (p \o q)[i] = p[i]
         /\ \A i \in 1..Len(q) : (p \o q)[i + Len(p)] = q[i]
BY DEF Text

\* What begins with a sequence has its pieces.
LEMMA PrefixPieces ==
  ASSUME NEW p \in Text, NEW x \in Text, IsPrefix(p, x), NEW i \in 1..Len(p)
  PROVE  Len(p) <= Len(x) /\ p[i] = x[i]
<1>1. Len(p) <= Len(x) /\ SubSeq(p, 1, Len(p)) = SubSeq(x, 1, Len(p))
  BY DEF IsPrefix
<1>2. SubSeq(p, 1, Len(p))[i] = p[i] /\ SubSeq(x, 1, Len(p))[i] = x[i]
  BY <1>1 DEF Text
<1> QED
  BY <1>1, <1>2

LEMMA ApiPieces ==
  ASSUME NEW p \in Text
  PROVE  /\ Api(p) \in Text /\ Len(Api(p)) = Len(p) + 3 /\ Api(p)[2] = "api"
         /\ \A i \in 1..Len(p) : Api(p)[i + 3] = p[i]
<1> DEFINE h == <<"/", "api", "/">>
<1>1. h \in Text /\ Len(h) = 3 /\ 2 \in 1..Len(h) /\ h[2] = "api"
  <2>1. "/" \in Piece /\ "api" \in Piece
    BY DEF Piece
  <2> QED
    BY <2>1, ThreePieces
<1>2. Api(p) = h \o p
  BY DEF Api
<1> HIDE DEF h
<1>3. /\ h \o p \in Text /\ Len(h \o p) = Len(h) + Len(p) /\ Len(p) \in Nat
      /\ \A i \in 1..Len(h) : (h \o p)[i] = h[i]
      /\ \A i \in 1..Len(p) : (h \o p)[i + Len(h)] = p[i]
  BY <1>1, Joined
<1> QED
  BY <1>1, <1>2, <1>3

LEMMA PagePieces ==
  ASSUME NEW p \in Text, Len(p) >= 1
  PROVE  Page(p) \in Text /\ Len(Page(p)) = Len(p) + 1 /\ Page(p)[2] = p[1]
<1> DEFINE h == <<"/">>
<1>1. h \in Text /\ Len(h) = 1
  BY OnePiece DEF Piece
<1>2. Page(p) = h \o p
  BY DEF Page
<1> HIDE DEF h
<1>3. /\ h \o p \in Text /\ Len(h \o p) = Len(h) + Len(p) /\ Len(p) \in Nat
      /\ \A i \in 1..Len(p) : (h \o p)[i + Len(h)] = p[i]
  BY <1>1, Joined
<1>4. 1 \in 1..Len(p) /\ (h \o p)[1 + 1] = p[1]
  BY <1>1, <1>3
<1> QED
  BY <1>1, <1>2, <1>3, <1>4

\* One piece that differs is enough.
LEMMA NotUnder ==
  ASSUME NEW p \in Text, NEW x \in Text, NEW i \in 1..Len(p), i <= Len(x) => p[i] # x[i]
  PROVE  ~IsPrefix(Api(p), Api(x))
<1> SUFFICES ASSUME IsPrefix(Api(p), Api(x)) PROVE FALSE
  OBVIOUS
<1>1. Len(p) \in Nat /\ Len(x) \in Nat
  BY DEF Text
<1>2. i + 3 \in 1..Len(Api(p))
  BY <1>1, ApiPieces
<1>3. Len(p) + 3 <= Len(x) + 3 /\ Api(p)[i + 3] = Api(x)[i + 3]
  BY <1>2, ApiPieces, PrefixPieces
<1>4. i \in 1..Len(x)
  BY <1>1, <1>3
<1> QED
  BY <1>3, <1>4, ApiPieces

\* No page is one of the API's paths.
LEMMA NotAPage ==
  ASSUME NEW p \in Text, Len(p) >= 1, p[1] # "api", NEW x \in Text
  PROVE  Page(p) # Api(x) /\ ~IsPrefix(Page(p) \o <<"/">>, Api(x))
<1>1. Page(p)[2] = p[1] /\ Api(x)[2] = "api" /\ Len(Page(p)) >= 2
  BY ApiPieces, PagePieces DEF Text
<1>2. ASSUME IsPrefix(Page(p) \o <<"/">>, Api(x)) PROVE FALSE
  <2>1. Page(p) \in Text /\ Api(x) \in Text
    BY ApiPieces, PagePieces
  <2>2. /\ Page(p) \o <<"/">> \in Text /\ (Page(p) \o <<"/">>)[2] = Page(p)[2]
        /\ 2 \in 1..Len(Page(p) \o <<"/">>)
    <3> DEFINE h == <<"/">>
    <3> DEFINE q == Page(p)
    <3>1. h \in Text /\ Len(h) = 1
      BY OnePiece DEF Piece
    <3>2. q \in Text /\ Len(q) >= 2
      BY <1>1, <2>1
    <3> HIDE DEF h, q
    <3>3. /\ q \o h \in Text /\ Len(q \o h) = Len(q) + Len(h) /\ Len(q) \in Nat
          /\ \A i \in 1..Len(q) : (q \o h)[i] = q[i]
      BY <3>1, <3>2, Joined
    <3>4. q \o h \in Text /\ (q \o h)[2] = q[2] /\ 2 \in 1..Len(q \o h)
      BY <3>1, <3>2, <3>3
    <3> QED
      BY <3>4 DEF h, q
  <2>3. (Page(p) \o <<"/">>)[2] = Api(x)[2]
    BY <1>2, <2>1, <2>2, PrefixPieces
  <2> QED
    BY <1>1, <2>2, <2>3
<1> QED
  BY <1>1, <1>2

LEMMA NotOfThePages ==
  ASSUME NEW x \in Text
  PROVE  ~IsUnderAny(Api(x), EngineerPages) /\ ~IsUnderAny(Api(x), OperatorPages)
<1> DEFINE E == {<<"profiles">>, <<"hosts">>, <<"users">>, <<"servers">>, <<"audit">>, <<"access", "-settings">>}
<1> DEFINE O == {<<"push">>, <<"rec">>, <<"addinput">>, <<"channels">>, <<"access">>, <<"logs">>}
<1>1. \A p \in E \cup O : p \in Text /\ Len(p) >= 1 /\ p[1] # "api"
  <2>1. \A a \in Piece : a # "api" => <<a>> \in Text /\ Len(<<a>>) >= 1 /\ <<a>>[1] # "api"
    BY OnePiece
  <2>2. LET p == <<"access", "-settings">> IN p \in Text /\ Len(p) >= 1 /\ p[1] # "api"
    <3>1. "access" \in Piece /\ "-settings" \in Piece
      BY DEF Piece
    <3> QED
      BY <3>1, TwoPieces
  <2>3. \A p \in E : p = <<"access", "-settings">>
          \/ \E a \in {"profiles", "hosts", "users", "servers", "audit"} : p = <<a>>
    OBVIOUS
  <2>4. \A p \in O : \E a \in {"push", "rec", "addinput", "channels", "access", "logs"} : p = <<a>>
    OBVIOUS
  <2>5. \A a \in {"profiles", "hosts", "users", "servers", "audit"}
               \cup {"push", "rec", "addinput", "channels", "access", "logs"} :
          a \in Piece /\ a # "api"
    BY DEF Piece
  <2> HIDE DEF E, O
  <2> QED
    BY <2>1, <2>2, <2>3, <2>4, <2>5
<1>2. EngineerPages = {Page(p) : p \in E} /\ OperatorPages = {Page(p) : p \in O}
  BY DEF EngineerPages, OperatorPages
<1> HIDE DEF E, O
<1>3. \A p \in E \cup O : Page(p) # Api(x) /\ ~IsPrefix(Page(p) \o <<"/">>, Api(x))
  BY <1>1, NotAPage
<1> QED
  BY <1>2, <1>3 DEF IsUnderAny, StartsWithAny

\* The first pieces that the engineer's rules, and the operator's, name.
Engineered == {"vhosts", "output-profiles", "alert-routes", "users", "servers", "audit",
               "access-status", "smtp"}
Operated == {"push", "record", "hls-dump", "stream-events", "streams", "scheduled-channels",
             "multiplex-channels", "vod-files", "keys", "key-presets", "viewer-links",
             "ingest-info", "logs"}

LEMMA NotTheEngineers ==
  ASSUME NEW x \in Text, Len(x) >= 1, NEW method, x[1] \notin Engineered,
         x[1] = "apps" => Len(x) = 1 /\ method # "PATCH"
  PROVE  ~EngineerRule(Api(x), method)
<1> DEFINE P == {<<"apps", "/", "detail">>, <<"vhosts">>, <<"output-profiles">>,
                 <<"alert-routes">>, <<"users">>, <<"servers">>, <<"audit">>,
                 <<"access-status">>, <<"smtp">>}
<1>1. EngineerApis = {Api(p) : p \in P}
  BY DEF EngineerApis
<1>2. ASSUME NEW p \in P PROVE ~IsPrefix(Api(p), Api(x))
  <2>1. CASE p = <<"apps", "/", "detail">>
    <3>1. p \in Text /\ 1 \in 1..Len(p) /\ 2 \in 1..Len(p) /\ p[1] = "apps"
      <4>1. "apps" \in Piece /\ "/" \in Piece /\ "detail" \in Piece
        BY DEF Piece
      <4> QED
        BY <2>1, <4>1, ThreePieces
    <3>2. CASE x[1] = "apps"
      BY <3>1, <3>2, NotUnder
    <3>3. CASE x[1] # "apps"
      BY <3>1, <3>3, NotUnder
    <3> QED
      BY <3>2, <3>3
  <2>2. CASE p # <<"apps", "/", "detail">>
    <3>1. p \in Text /\ 1 \in 1..Len(p) /\ p[1] \in Engineered
      <4>1. PICK a \in Engineered : p = <<a>>
        BY <2>2 DEF Engineered
      <4>2. a \in Piece
        BY DEF Piece, Engineered
      <4> QED
        BY <4>1, <4>2, OnePiece
    <3> QED
      BY <3>1, NotUnder
  <2> QED
    BY <2>1, <2>2
<1>3. Api(x) = Apps => method # "PATCH"
  <2> SUFFICES ASSUME Api(x) = Api(<<"apps">>) PROVE x[1] = "apps"
    BY DEF Apps
  <2>1. <<"apps">> \in Text /\ 1 \in 1..Len(x) /\ 1 \in 1..Len(<<"apps">>) /\ <<"apps">>[1] = "apps"
    BY OnePiece DEF Piece, Text
  <2>2. Api(x)[4] = x[1] /\ Api(<<"apps">>)[4] = "apps"
    BY <2>1, ApiPieces
  <2> QED
    BY <2>2
<1> HIDE DEF P
<1> QED
  BY <1>1, <1>2, <1>3, NotOfThePages DEF EngineerRule, StartsWithAny

LEMMA NotTheOperators ==
  ASSUME NEW x \in Text, Len(x) >= 1, x[1] \notin Operated, x[1] # "apps"
  PROVE  ~OperatorRule(Api(x))
<1> DEFINE P == {<<"push">>, <<"record">>, <<"hls-dump">>, <<"stream-events">>,
                 <<"streams", "/">>, <<"scheduled-channels">>, <<"multiplex-channels">>,
                 <<"vod-files">>, <<"keys">>, <<"key-presets">>, <<"viewer-links">>,
                 <<"ingest-info">>, <<"logs">>}
<1>1. OperatorApis = {Api(p) : p \in P}
  BY DEF OperatorApis
<1>2. ASSUME NEW p \in P PROVE ~IsPrefix(Api(p), Api(x))
  <2>1. p \in Text /\ 1 \in 1..Len(p) /\ p[1] \in Operated
    <3>1. PICK a \in Operated : p = <<a>> \/ p = <<a, "/">>
      BY DEF Operated
    <3>2. a \in Piece /\ "/" \in Piece
      BY DEF Piece, Operated
    <3> QED
      BY <3>1, <3>2, OnePiece, TwoPieces
  <2> QED
    BY <2>1, NotUnder
<1>3. Api(x) # Apps
  <2> SUFFICES ASSUME Api(x) = Api(<<"apps">>) PROVE x[1] = "apps"
    BY DEF Apps
  <2>1. <<"apps">> \in Text /\ 1 \in 1..Len(x) /\ 1 \in 1..Len(<<"apps">>) /\ <<"apps">>[1] = "apps"
    BY OnePiece DEF Piece, Text
  <2>2. Api(x)[4] = x[1] /\ Api(<<"apps">>)[4] = "apps"
    BY <2>1, ApiPieces
  <2> QED
    BY <2>2
<1> HIDE DEF P
<1> QED
  BY <1>1, <1>2, <1>3, NotOfThePages DEF OperatorRule, StartsWithAny

LEMMA NotReissue ==
  ASSUME NEW x \in Text, Len(x) >= 1, x[1] = "viewer-links" => Len(x) = 1
  PROVE  ~IsPrefix(Reissue, Api(x))
<1> DEFINE p == <<"viewer-links", "/", "reissue">>
<1>1. p \in Text /\ 1 \in 1..Len(p) /\ 2 \in 1..Len(p) /\ p[1] = "viewer-links"
  <2>1. "viewer-links" \in Piece /\ "/" \in Piece /\ "reissue" \in Piece
    BY DEF Piece
  <2> QED
    BY <2>1, ThreePieces
<1>2. Reissue = Api(p)
  BY DEF Reissue
<1> HIDE DEF p
<1>3. CASE x[1] = "viewer-links"
  BY <1>1, <1>2, <1>3, NotUnder
<1>4. CASE x[1] # "viewer-links"
  BY <1>1, <1>2, <1>4, NotUnder
<1> QED
  BY <1>3, <1>4

\* What a rank is worth.
LEMMA RankedRules ==
  ASSUME NEW path, NEW method
  PROVE  /\ LetThrough("engineer", path, method) <=> "engineer" # Nil
         /\ ~IsPrefix(Reissue, path) /\ ~EngineerRule(path, method) =>
              /\ LetThrough("operator", path, method) <=> "operator" # Nil
              /\ ~OperatorRule(path) => (LetThrough("viewer", path, method) <=> "viewer" # Nil)
         /\ EngineerRule(path, method) =>
              ~LetThrough("operator", path, method) /\ ~LetThrough("viewer", path, method)
         /\ OperatorRule(path) => ~LetThrough("viewer", path, method)
<1> DEFINE r == RequiredRole(path, method)
<1>1. r \in {"engineer", "operator", "viewer"}
  BY DEF RequiredRole
<1>2. \A session : LetThrough(session, path, method) <=> session # Nil /\ HasRole(session, r)
  BY DEF LetThrough
<1>3. /\ ~IsPrefix(Reissue, path) /\ ~EngineerRule(path, method) =>
           r # "engineer" /\ (~OperatorRule(path) => r = "viewer")
      /\ EngineerRule(path, method) => r = "engineer"
      /\ OperatorRule(path) => r # "viewer"
  BY DEF RequiredRole
<1>4. /\ \A q \in {"engineer", "operator", "viewer"} : HasRole("engineer", q)
      /\ HasRole("operator", "operator") /\ HasRole("operator", "viewer")
      /\ HasRole("viewer", "viewer") /\ ~HasRole("viewer", "operator")
      /\ ~HasRole("viewer", "engineer") /\ ~HasRole("operator", "engineer")
  BY DEF HasRole, RoleRank
<1> HIDE DEF r
<1> QED
  BY <1>1, <1>2, <1>3, <1>4

\* A call that no rule of the engineer's is about is granted to an operator, and
\* to a viewer if none of the operator's is either.
LEMMA Granted ==
  ASSUME NEW x \in Text, Len(x) >= 1, NEW method, x[1] \notin Engineered,
         x[1] = "apps" => Len(x) = 1 /\ method # "PATCH",
         x[1] = "viewer-links" => Len(x) = 1
  PROVE  /\ "operator" # Nil => LetThrough("operator", Api(x), method)
         /\ x[1] \notin Operated /\ x[1] # "apps" /\ "viewer" # Nil =>
              LetThrough("viewer", Api(x), method)
BY NotTheEngineers, NotTheOperators, NotReissue, RankedRules

\* One and two and three pieces of it.
LEMMA GrantedOne ==
  ASSUME NEW a \in Piece, NEW method, a \notin Engineered, a = "apps" => method # "PATCH"
  PROVE  /\ "operator" # Nil => LetThrough("operator", Api(<<a>>), method)
         /\ a \notin Operated /\ a # "apps" /\ "viewer" # Nil =>
              LetThrough("viewer", Api(<<a>>), method)
<1> DEFINE x == <<a>>
<1>1. x \in Text /\ Len(x) = 1 /\ x[1] = a
  BY OnePiece
<1> HIDE DEF x
<1>2. /\ "operator" # Nil => LetThrough("operator", Api(x), method)
      /\ x[1] \notin Operated /\ x[1] # "apps" /\ "viewer" # Nil =>
           LetThrough("viewer", Api(x), method)
  BY <1>1, Granted
<1> QED
  BY <1>1, <1>2 DEF x

LEMMA GrantedMore ==
  ASSUME NEW a \in Piece, NEW b \in Piece, NEW c \in Piece, NEW method,
         a \notin Engineered \cup {"apps", "viewer-links"},
         NEW x \in {<<a, b>>, <<a, b, c>>}
  PROVE  /\ "operator" # Nil => LetThrough("operator", Api(x), method)
         /\ a \notin Operated /\ "viewer" # Nil => LetThrough("viewer", Api(x), method)
<1>1. x \in Text /\ Len(x) >= 1 /\ x[1] = a
  BY TwoPieces, ThreePieces
<1>2. /\ "operator" # Nil => LetThrough("operator", Api(x), method)
      /\ x[1] \notin Operated /\ x[1] # "apps" /\ "viewer" # Nil =>
           LetThrough("viewer", Api(x), method)
  BY <1>1, Granted
<1> QED
  BY <1>1, <1>2

\* The call is none of the engineer's: on one piece, or on more.
Plain(c) ==
  \/ \E a \in Piece \ Engineered : c.path = Api(<<a>>) /\ (a = "apps" => c.method # "PATCH")
  \/ \E a \in Piece \ (Engineered \cup {"apps", "viewer-links"}), b, d \in Piece :
       c.path = Api(<<a, b>>) \/ c.path = Api(<<a, b, d>>)

LEMMA PlainIsGranted ==
  ASSUME NEW c, Plain(c), "operator" # Nil
  PROVE  LetThrough("operator", c.path, c.method)
<1>1. CASE \E a \in Piece \ Engineered : c.path = Api(<<a>>) /\ (a = "apps" => c.method # "PATCH")
  BY <1>1, GrantedOne
<1>2. CASE \E a \in Piece \ (Engineered \cup {"apps", "viewer-links"}), b, d \in Piece :
             c.path = Api(<<a, b>>) \/ c.path = Api(<<a, b, d>>)
  <2>1. PICK a \in Piece \ (Engineered \cup {"apps", "viewer-links"}), b \in Piece, d \in Piece :
          c.path = Api(<<a, b>>) \/ c.path = Api(<<a, b, d>>)
    BY <1>2
  <2> QED
    BY <2>1, GrantedMore
<1> QED
  BY <1>1, <1>2 DEF Plain


LEMMA PlainOne ==
  ASSUME NEW a \in Piece \ Engineered, NEW method, a = "apps" => method # "PATCH"
  PROVE  Plain(Call(method, <<a>>))
BY DEF Plain, Call

LEMMA PlainMore ==
  ASSUME NEW a \in Piece \ (Engineered \cup {"apps", "viewer-links"}),
         NEW b \in Piece, NEW d \in Piece, NEW method
  PROVE  Plain(Call(method, <<a, b>>)) /\ Plain(Call(method, <<a, b, d>>))
BY DEF Plain, Call

LEMMA KeptIsPlain ==
  ASSUME NEW a \in Piece \ Engineered
  PROVE  \A c \in Kept(<<a>>) : Plain(c)
<1>1. \A method : method # "PATCH" => Plain(Call(method, <<a>>))
  BY PlainOne
<1> QED
  BY <1>1 DEF Kept, Get, Post

LEMMA PushIsPlain == \A c \in PushCalls : Plain(c)
<1>1. {"apps", "push"} \subseteq Piece \ Engineered
  BY DEF Piece, Engineered
<1>2. /\ "push" \in Piece \ (Engineered \cup {"apps", "viewer-links"})
      /\ "-presets" \in Piece /\ "/" \in Piece /\ "stop" \in Piece
  BY DEF Piece, Engineered
<1>3. /\ Plain(Get(<<"apps">>)) /\ Plain(Get(<<"push">>)) /\ Plain(Post(<<"push">>))
      /\ Plain(Post(<<"push", "/", "stop">>)) /\ Plain(Get(<<"push", "-presets">>))
      /\ Plain(Post(<<"push", "-presets">>)) /\ Plain(Call("DELETE", <<"push", "-presets">>))
  BY <1>1, <1>2, PlainOne, PlainMore DEF Get, Post
<1> QED
  BY <1>3 DEF PushCalls, Kept

LEMMA RecordIsPlain == \A c \in RecordCalls : Plain(c)
<1>1. {"apps", "record", "hls-dump"} \subseteq Piece \ Engineered
  BY DEF Piece, Engineered
<1>2. /\ {"record", "hls-dump"} \subseteq Piece \ (Engineered \cup {"apps", "viewer-links"})
      /\ "/" \in Piece /\ "stop" \in Piece /\ "conclude" \in Piece
  BY DEF Piece, Engineered
<1>3. /\ Plain(Get(<<"apps">>)) /\ Plain(Get(<<"record">>)) /\ Plain(Post(<<"record">>))
      /\ Plain(Post(<<"record", "/", "stop">>)) /\ Plain(Post(<<"hls-dump">>))
      /\ Plain(Post(<<"hls-dump", "/", "stop">>)) /\ Plain(Post(<<"hls-dump", "/", "conclude">>))
  BY <1>1, <1>2, PlainOne, PlainMore DEF Get, Post
<1> QED
  BY <1>3 DEF RecordCalls

LEMMA InputIsPlain == \A c \in InputCalls : Plain(c)
<1>1. {"apps", "ingest-info", "record", "push"} \subseteq Piece \ Engineered
  BY DEF Piece, Engineered
<1>2. "push" \in Piece \ (Engineered \cup {"apps", "viewer-links"}) /\ "-presets" \in Piece
  BY DEF Piece, Engineered
<1>3. /\ Plain(Get(<<"apps">>)) /\ Plain(Get(<<"push", "-presets">>))
      /\ Plain(Get(<<"ingest-info">>)) /\ Plain(Post(<<"record">>)) /\ Plain(Post(<<"push">>))
  BY <1>1, <1>2, PlainOne, PlainMore DEF Get, Post
<1> QED
  BY <1>3 DEF InputCalls

LEMMA ListsArePlain == \A c \in ChannelCalls \cup AccessCalls : Plain(c)
<1>1. {"apps", "vod-files", "keys", "key-presets", "viewer-links", "scheduled-channels",
       "multiplex-channels"} \subseteq Piece \ Engineered
  BY DEF Piece, Engineered
<1>2. \A c \in Kept(<<"scheduled-channels">>) \cup Kept(<<"multiplex-channels">>)
              \cup Kept(<<"keys">>) \cup Kept(<<"key-presets">>) \cup Kept(<<"viewer-links">>) :
        Plain(c)
  BY <1>1, KeptIsPlain
<1>3. /\ Plain(Get(<<"apps">>)) /\ Plain(Get(<<"vod-files">>)) /\ Plain(Call("PATCH", <<"keys">>))
  BY <1>1, PlainOne DEF Get
<1> QED
  BY <1>2, <1>3 DEF ChannelCalls, AccessCalls

LEMMA OthersArePlain ==
  /\ \A c \in StreamCalls("operator") \cup StatsCalls("operator") : Plain(c)
  /\ \A c \in {Get(<<"live">>), Get(<<"desired-state">>), Get(<<"thumbnail">>), Get(<<"logs">>),
              Call("PATCH", <<"account", "/", "password">>)} : Plain(c)
<1>1. {"apps", "live", "desired-state", "thumbnail", "logs", "alerts"} \subseteq Piece \ Engineered
  BY DEF Piece, Engineered
<1>2. /\ {"account", "streams"} \subseteq Piece \ (Engineered \cup {"apps", "viewer-links"})
      /\ "/" \in Piece /\ "password" \in Piece /\ "pull" \in Piece
  BY DEF Piece, Engineered
<1>3. \A method :
        method # "PATCH" =>
          /\ Plain(Call(method, <<"apps">>)) /\ Plain(Call(method, <<"live">>))
          /\ Plain(Call(method, <<"desired-state">>)) /\ Plain(Call(method, <<"thumbnail">>))
          /\ Plain(Call(method, <<"logs">>)) /\ Plain(Call(method, <<"alerts">>))
  BY <1>1, PlainOne
<1>4. \A method : /\ Plain(Call(method, <<"account", "/", "password">>))
                 /\ Plain(Call(method, <<"streams", "/", "pull">>))
  BY <1>2, PlainMore
<1>5. ~HasRole("operator", "engineer")
  BY DEF HasRole, RoleRank
<1>6. StreamCalls("operator") \cup StatsCalls("operator")
        \subseteq {Get(<<"apps">>), Post(<<"streams", "/", "pull">>), Get(<<"alerts">>)}
  BY <1>5 DEF StreamCalls, StatsCalls
<1> QED
  BY <1>3, <1>4, <1>6 DEF Get, Post

\* What a viewer's pages ask for.
LEMMA ViewersCalls ==
  ASSUME "viewer" # Nil,
         NEW c \in {Get(<<"live">>), Get(<<"desired-state">>), Get(<<"thumbnail">>), Get(<<"alerts">>),
                   Call("PATCH", <<"account", "/", "password">>)}
  PROVE  LetThrough("viewer", c.path, c.method)
<1>1. CASE c \in {Get(<<"live">>), Get(<<"desired-state">>), Get(<<"thumbnail">>), Get(<<"alerts">>)}
  <2>1. PICK a \in {"live", "desired-state", "thumbnail", "alerts"} : c = Get(<<a>>)
    BY <1>1
  <2>2. a \in Piece /\ a \notin Engineered /\ a \notin Operated /\ a # "apps"
    BY DEF Piece, Engineered, Operated
  <2> QED
    BY <2>1, <2>2, GrantedOne DEF Get, Call
<1>2. CASE c = Call("PATCH", <<"account", "/", "password">>)
  <2>1. /\ "account" \in Piece /\ "/" \in Piece /\ "password" \in Piece
        /\ "account" \notin Engineered \cup {"apps", "viewer-links"} /\ "account" \notin Operated
    BY DEF Piece, Engineered, Operated
  <2>2. LetThrough("viewer", Api(<<"account", "/", "password">>), "PATCH")
    BY <2>1, GrantedMore
  <2> QED
    BY <1>2, <2>2 DEF Call
<1> QED
  BY <1>1, <1>2

\* The pages that the rules keep to the engineers, and those they keep to operators.
LEMMA KeptPages ==
  /\ \A p \in {"profiles", "hosts", "settings", "users", "servers", "audit"} :
       ~LetThrough("operator", PathOf[p], "GET") /\ ~LetThrough("viewer", PathOf[p], "GET")
  /\ \A p \in {"push", "rec", "addinput", "channels", "access", "logs"} :
       ~LetThrough("viewer", PathOf[p], "GET")
<1>1. ASSUME NEW p \in {"profiles", "hosts", "settings", "users", "servers", "audit"}
      PROVE  EngineerRule(PathOf[p], "GET")
  BY DEF PathOf, EngineerRule, IsUnderAny, EngineerPages
<1>2. ASSUME NEW p \in {"push", "rec", "addinput", "channels", "access", "logs"}
      PROVE  OperatorRule(PathOf[p])
  BY DEF PathOf, OperatorRule, IsUnderAny, OperatorPages
<1> QED
  BY <1>1, <1>2, RankedRules

\* The rules, the pages' own tests and the tables of the two agree: a role that may
\* see a page may make its calls.
LEMMA RulesAgree ==
  ASSUME NEW role \in AnyRole, role # Nil, NEW p \in Pages, LetThrough(role, PathOf[p], "GET")
  PROVE  \A c \in CallsOf(p, role) : LetThrough(role, c.path, c.method)
<1>1. p \in {"home", "streams", "stats", "push", "rec", "addinput", "channels", "access", "logs",
            "account", "help", "profiles", "hosts", "settings", "users", "servers", "audit"}
  BY DEF Pages, PathOf
<1>2. CASE role = "engineer"
  BY <1>2, RankedRules
<1>3. CASE role = "operator"
  <2>1. p \in {"home", "streams", "stats", "push", "rec", "addinput", "channels", "access", "logs",
              "account", "help"}
    BY <1>1, <1>3, KeptPages
  <2>2. \A c \in CallsOf(p, "operator") : Plain(c)
    <3>1. CASE p \in {"home", "streams", "stats", "logs", "account", "help"}
      BY <3>1, OthersArePlain DEF CallsOf
    <3>2. CASE p \in {"push", "rec", "addinput"}
      BY <3>2, OthersArePlain, PushIsPlain, RecordIsPlain, InputIsPlain DEF CallsOf
    <3>3. CASE p \in {"channels", "access"}
      BY <3>3, OthersArePlain, ListsArePlain DEF CallsOf
    <3> QED
      BY <2>1, <3>1, <3>2, <3>3
  <2> QED
    BY <1>3, <2>2, PlainIsGranted
<1>4. CASE role = "viewer"
  <2>1. p \in {"home", "streams", "stats", "account", "help"}
    BY <1>1, <1>4, KeptPages
  <2>2. ~HasRole("viewer", "operator") /\ ~HasRole("viewer", "engineer")
    BY DEF HasRole, RoleRank
  <2>3. CallsOf(p, "viewer")
          \subseteq {Get(<<"live">>), Get(<<"desired-state">>), Get(<<"thumbnail">>), Get(<<"alerts">>),
                    Call("PATCH", <<"account", "/", "password">>)}
    BY <2>1, <2>2 DEF CallsOf, StreamCalls, StatsCalls
  <2> QED
    BY <1>4, <2>3, ViewersCalls
<1> QED
  BY <1>2, <1>3, <1>4 DEF AnyRole

(***************************************************************************)
(* The tab                                                                 *)
(***************************************************************************)
TabOK ==
  /\ cookie \in AnyRole \cup {Nil}
  /\ tab \in [phase : {"asked", "passed", "shown"}, at : Pages \cup {"login"},
              role : AnyRole \cup {Nil}, session : AnyRole \cup {Nil}]
  /\ InConsole => tab.role # Nil

\* A page that is past the proxy with a session was granted to that session.
LetIn ==
  tab.phase # "asked" /\ tab.at # "login" /\ tab.session # Nil =>
    LetThrough(tab.session, PathOf[tab.at], "GET")

GateInv == LockInv /\ TabOK /\ LetIn

LEMMA PagesAre == "home" \in Pages /\ "login" \notin Pages
BY DEF Pages, PathOf

LEMMA LockStays ==
  ASSUME LockInv, UNCHANGED lockVars
  PROVE  LockInv'
<1>1. UNCHANGED <<attempts, others, tries, now>>
  BY DEF lockVars
<1>2. LockTypeOK' /\ IsFiniteSet(Tracked)'
  BY <1>1 DEF LockInv, LockTypeOK, Tracked
<1>3. \A n : /\ Failures(attempts, n)' = Failures(attempts, n) /\ Until(n)' = Until(n)
            /\ Under(n)' = Under(n)
  BY <1>1 DEF Failures, Until, Tracked, Under
<1>4. LockShape' /\ AllWithin'
  BY <1>1, <1>3 DEF LockInv, LockShape, AllWithin
<1> QED
  BY <1>2, <1>4 DEF LockInv

\* Opening a page leaves the tries as they are, but nobody waits for them.
LEMMA OpenKeepsLock ==
  ASSUME LockInv, NEW p, Open(p)
  PROVE  LockInv'
<1>1. tries \in [Slots -> Try \cup {Nil}] /\ others \in Nat /\ Cardinality(Tracked) + others <= MaxTracked
  BY LockAssumption DEF LockInv, LockTypeOK
<1>2. ASSUME NEW t \in Try
      PROVE  [t EXCEPT !.here = FALSE] \in Try /\ [t EXCEPT !.here = FALSE].name = t.name
  BY DEF Try
<1>3. tries' = [s \in Slots |-> IF tries[s] = Nil THEN Nil ELSE [tries[s] EXCEPT !.here = FALSE]]
  BY DEF Open
<1>4. tries' \in [Slots -> Try \cup {Nil}]
  BY <1>1, <1>2, <1>3
<1>5. \A n \in Names : Under(n)' \subseteq Under(n)
  BY <1>1, <1>2, <1>3 DEF Under
<1>6. UNCHANGED <<attempts, others, now>>
  BY DEF Open
<1> QED
  BY <1>1, <1>4, <1>5, <1>6, ForgettingKeeps

LEMMA NextKeepsLock ==
  ASSUME LockInv, GateNext
  PROVE  LockInv'
<1>1. ASSUME NEW p \in Pages \cup {"login"}, Open(p) PROVE LockInv'
  BY <1>1, OpenKeepsLock
<1>2. CASE UNCHANGED lockVars
  BY <1>2, LockStays
<1>3. ASSUME NEW s \in Slots, NEW n \in Names, NEW known \in BOOLEAN,
             SubmitForm(s, n, known) \/ TryElsewhere(s, n, known)
      PROVE  LockInv'
  <2>1. \A here \in BOOLEAN : [name |-> n, known |-> known, here |-> here] \in Try
    BY DEF Try
  <2>2. PICK t \in Try : Begin(s, t)
    BY <1>3, <2>1 DEF SubmitForm, TryElsewhere
  <2> QED
    BY <2>2, BeginKeeps
<1>4. ASSUME NEW s \in Slots, AnswerForm(s) PROVE LockInv'
  BY <1>4, FailureKeeps, SuccessKeeps DEF AnswerForm
<1>5. CASE OtherName \/ RestartConsole \/ Tick
  BY <1>5, OthersKeep, TickKeeps
<1>6. ASSUME NEW p \in Pages, Follow(p) PROVE LockInv'
  BY <1>2, <1>6 DEF Follow
<1>7. CASE Proxy \/ Render
  BY <1>2, <1>7 DEF Proxy, Render
<1>8. CASE LogoutHere \/ Expire \/ \E r \in AnyRole \cup {Nil} : OtherTab(r)
  BY <1>2, <1>8 DEF LogoutHere, Expire, OtherTab
<1> QED
  BY <1>1, <1>3, <1>4, <1>5, <1>6, <1>7, <1>8 DEF GateNext

TabType == [phase : {"asked", "passed", "shown"}, at : Pages \cup {"login"},
            role : AnyRole \cup {Nil}, session : AnyRole \cup {Nil}]

\* A tab that has asked, or that shows the login form, has nothing to answer for.
LEMMA AskIsOK ==
  ASSUME NEW p \in Pages \cup {"login"}, NEW r \in AnyRole \cup {Nil}, Ask(p, r),
         cookie' \in AnyRole \cup {Nil}
  PROVE  TabOK' /\ LetIn'
<1>1. tab' = [phase |-> "asked", at |-> p, role |-> r, session |-> Nil]
  BY DEF Ask
<1>2. tab' \in TabType /\ ~InConsole'
  BY <1>1 DEF TabType, InConsole
<1>3. LetIn'
  BY <1>1 DEF LetIn
<1> QED
  BY <1>2, <1>3 DEF TabOK, TabType

LEMMA ProxyKeepsTab ==
  ASSUME TabOK, LetIn, Proxy
  PROVE  TabOK' /\ LetIn'
<1>1. tab \in TabType /\ cookie \in AnyRole \cup {Nil} /\ cookie' = cookie /\ tab.phase = "asked"
  BY DEF TabOK, TabType, Proxy
<1>2. \/ tab.at = "login" /\ tab' = [tab EXCEPT !.phase = "passed"]
      \/ tab' = [tab EXCEPT !.at = "login"]
      \/ tab' = [tab EXCEPT !.at = "home"]
      \/ /\ tab' = [tab EXCEPT !.phase = "passed", !.session = cookie]
         /\ tab.at # "login" /\ cookie # Nil => LetThrough(cookie, PathOf[tab.at], "GET")
  BY DEF Proxy
<1>3. tab' \in TabType /\ tab'.phase \in {"asked", "passed"}
  BY <1>1, <1>2, PagesAre DEF TabType
<1>4. TabOK'
  BY <1>1, <1>3 DEF TabOK, TabType, InConsole
<1>5. LetIn'
  <2>1. CASE tab.at = "login" /\ tab' = [tab EXCEPT !.phase = "passed"]
    BY <1>1, <2>1 DEF LetIn, TabType
  <2>2. CASE tab' = [tab EXCEPT !.at = "login"] \/ tab' = [tab EXCEPT !.at = "home"]
    BY <1>1, <2>2 DEF LetIn, TabType
  <2>3. CASE /\ tab' = [tab EXCEPT !.phase = "passed", !.session = cookie]
             /\ tab.at # "login" /\ cookie # Nil => LetThrough(cookie, PathOf[tab.at], "GET")
    <3>1. tab'.at = tab.at /\ tab'.session = cookie
      BY <1>1, <2>3 DEF TabType
    <3> QED
      BY <2>3, <3>1 DEF LetIn
  <2> QED
    BY <1>2, <2>1, <2>2, <2>3
<1> QED
  BY <1>4, <1>5

LEMMA RenderKeepsTab ==
  ASSUME TabOK, LetIn, Render
  PROVE  TabOK' /\ LetIn'
<1>1. tab \in TabType /\ cookie \in AnyRole \cup {Nil} /\ cookie' = cookie /\ tab.phase = "passed"
  BY DEF TabOK, TabType, Render
<1>2. CASE tab.at = "login" /\ tab' = [tab EXCEPT !.phase = "shown", !.role = Nil]
  <2>1. tab' \in TabType /\ tab'.at = "login"
    BY <1>1, <1>2 DEF TabType
  <2> QED
    BY <1>1, <2>1, PagesAre DEF TabOK, TabType, InConsole, LetIn
<1>3. CASE tab.at # "login" /\ tab.role # Nil /\ tab' = [tab EXCEPT !.phase = "shown"]
  <2>1. /\ tab' \in TabType /\ tab'.role = tab.role /\ tab'.at = tab.at
        /\ tab'.session = tab.session
    BY <1>1, <1>3 DEF TabType
  <2> QED
    BY <1>1, <1>3, <2>1 DEF TabOK, TabType, InConsole, LetIn
<1>4. CASE /\ tab.at # "login" /\ tab.session # Nil
           /\ tab' = [tab EXCEPT !.phase = "shown", !.role = tab.session]
  <2>1. /\ tab' \in TabType /\ tab'.role = tab.session /\ tab'.at = tab.at
        /\ tab'.session = tab.session
    BY <1>1, <1>4 DEF TabType
  <2> QED
    BY <1>1, <1>4, <2>1 DEF TabOK, TabType, InConsole, LetIn
<1>5. CASE Ask("login", Nil)
  BY <1>1, <1>5, AskIsOK
<1> QED
  BY <1>2, <1>3, <1>4, <1>5 DEF Render

LEMMA NextKeepsTab ==
  ASSUME LockInv, TabOK, LetIn, GateNext
  PROVE  TabOK' /\ LetIn'
<1>0. tab \in TabType /\ cookie \in AnyRole \cup {Nil}
  BY DEF TabOK, TabType
<1>1. ASSUME NEW p \in Pages \cup {"login"}, Open(p) PROVE TabOK' /\ LetIn'
  BY <1>0, <1>1, AskIsOK DEF Open
<1>2. ASSUME NEW p \in Pages, Follow(p) PROVE TabOK' /\ LetIn'
  <2>1. tab.role \in AnyRole \cup {Nil}
    BY <1>0 DEF TabType
  <2> QED
    BY <1>0, <1>2, <2>1, AskIsOK DEF Follow
<1>3. CASE UNCHANGED tab /\ cookie' \in AnyRole \cup {Nil}
  BY <1>3 DEF TabOK, InConsole, LetIn
<1>4. ASSUME NEW s \in Slots, NEW n \in Names, NEW known \in BOOLEAN,
             SubmitForm(s, n, known) \/ TryElsewhere(s, n, known)
      PROVE  TabOK' /\ LetIn'
  BY <1>0, <1>3, <1>4 DEF SubmitForm, TryElsewhere
<1>5. ASSUME NEW s \in Slots, AnswerForm(s) PROVE TabOK' /\ LetIn'
  <2>1. CASE UNCHANGED <<cookie, tab>>
    BY <1>0, <1>3, <2>1
  <2>2. CASE TrySucceeds(s) /\ cookie' = RoleOf[tries[s].name] /\ Ask("home", Nil)
    <3>1. tries[s].name \in Names
      BY <2>2 DEF TrySucceeds, LockInv, LockTypeOK, Try
    <3>2. cookie' \in AnyRole
      BY <2>2, <3>1, GateAssumption DEF AnyRole
    <3> QED
      BY <2>2, <3>2, AskIsOK, PagesAre
  <2> QED
    BY <1>5, <2>1, <2>2 DEF AnswerForm
<1>6. CASE LogoutHere
  BY <1>6, AskIsOK DEF LogoutHere
<1>7. ASSUME NEW r \in AnyRole \cup {Nil}, OtherTab(r) PROVE TabOK' /\ LetIn'
  BY <1>3, <1>7 DEF OtherTab
<1>8. CASE Expire
  <2>1. cookie' = Nil /\ tab' = [tab EXCEPT !.session = Nil]
    BY <1>8 DEF Expire
  <2>2. /\ tab' \in TabType /\ tab'.session = Nil /\ tab'.role = tab.role
        /\ tab'.at = tab.at /\ tab'.phase = tab.phase
    BY <1>0, <2>1 DEF TabType
  <2> QED
    BY <2>1, <2>2 DEF TabOK, TabType, InConsole, LetIn
<1>9. CASE (OtherName \/ RestartConsole \/ Tick) /\ UNCHANGED <<cookie, tab>>
  BY <1>0, <1>3, <1>9
<1> QED
  BY <1>1, <1>2, <1>4, <1>5, <1>6, <1>7, <1>8, <1>9, ProxyKeepsTab, RenderKeepsTab DEF GateNext

LEMMA GateInvHolds == GateSpec => []GateInv
<1>1. GateInit => GateInv
  <2> SUFFICES ASSUME GateInit PROVE GateInv
    OBVIOUS
  <2>1. tab = [phase |-> "shown", at |-> "login", role |-> Nil, session |-> Nil] /\ cookie = Nil
    BY DEF GateInit
  <2>2. TabOK /\ LetIn
    BY <2>1, PagesAre DEF TabOK, InConsole, LetIn
  <2> QED
    BY <2>2, LockStarts DEF GateInit, GateInv
<1>2. GateInv /\ [GateNext]_gateVars => GateInv'
  <2> SUFFICES ASSUME GateInv, [GateNext]_gateVars PROVE GateInv'
    OBVIOUS
  <2>1. CASE GateNext
    BY <2>1, NextKeepsLock, NextKeepsTab DEF GateInv
  <2>2. CASE UNCHANGED gateVars
    <3>1. UNCHANGED lockVars /\ UNCHANGED <<cookie, tab>>
      BY <2>2 DEF gateVars
    <3>2. TabOK' /\ LetIn'
      BY <3>1 DEF GateInv, TabOK, InConsole, LetIn
    <3> QED
      BY <3>1, <3>2, LockStays DEF GateInv
  <2> QED
    BY <2>1, <2>2
<1> QED
  BY <1>1, <1>2, PTL DEF GateSpec

\* Whatever is typed, followed, redirected or lost, tab, cookie and store are of
\* their types, the store is within its cap, and a console page has a role.
THEOREM GateTypesHold == GateSpec => []GateTypeOK
<1>1. GateInv => GateTypeOK
  BY DEF GateInv, LockInv, TabOK, GateTypeOK
<1> QED
  BY <1>1, GateInvHolds, PTL

\* Tries that are past the lock at once (login awaits bcrypt between checkLoginLock
\* and recordLoginFailure) cost a window of them per lock, however many there are.
THEOREM GuessesAreBounded == GateSpec => []GuessBudget
<1>1. GateInv => GuessBudget
  BY WithinIsBudget DEF GateInv
<1> QED
  BY <1>1, GateInvHolds, PTL

\* In whatever order tries under way end, recordLoginFailure never opens a lock or
\* brings the end of one nearer, unless it clears the store.
THEOREM NoFailureOpensALock == GateSpec => LockHolds
<1>1. GateInv /\ [GateNext]_gateVars
        => [\A s \in Slots : TryFails(s) /\ ~Full => \A n \in Names : Until(n)' >= Until(n)]_lockVars
  BY FailureHolds DEF GateInv
<1> QED
  BY <1>1, GateInvHolds, PTL DEF GateSpec, LockHolds

\* While the session is the one a page was let in and drawn with, proxy.ts grants
\* whatever the page asks for by itself or by the buttons it shows to that role.
THEOREM PagesMayCall == GateSpec => []PageCallsAllowed
<1>1. ASSUME GateInv PROVE PageCallsAllowed
  <2> SUFFICES ASSUME InConsole, tab.role = tab.session, tab.session = cookie
               PROVE  \A c \in CallsOf(tab.at, tab.role) : LetThrough(cookie, c.path, c.method)
    BY DEF PageCallsAllowed
  <2>1. tab.at \in Pages /\ tab.at # "login" /\ tab.phase # "asked"
    BY PagesAre DEF InConsole
  <2>2. tab.role \in AnyRole /\ tab.role # Nil
    BY <1>1 DEF GateInv, TabOK
  <2>3. LetThrough(tab.role, PathOf[tab.at], "GET")
    BY <1>1, <2>1, <2>2 DEF GateInv, LetIn
  <2> QED
    BY <2>1, <2>2, <2>3, RulesAgree
<1> QED
  BY <1>1, GateInvHolds, PTL
===============================================================================
