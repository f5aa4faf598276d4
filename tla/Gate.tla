--------------------------------- MODULE Gate ---------------------------------
(***************************************************************************)
(* Who may go where: proxy.ts decides for every request by the session     *)
(* that its cookie carries; the layout gives its pages the role it found   *)
(* there when it was drawn, and the pages show, and ask for, what they     *)
(* think that role may have.  One tab of a browser whose cookie its other  *)
(* tabs change; the login form is LoginLock's.  Setup is complete: before  *)
(* that, see the module Setup.                                             *)
(*                                                                         *)
(* A path is a sequence of pieces, cut so that what the code tests with    *)
(* startsWith is a prefix of the sequence.                                 *)
(***************************************************************************)
EXTENDS LoginLock, Sequences, SequencesExt

CONSTANT RoleOf   \* the role that an account has

ASSUME GateAssumption == RoleOf \in [Names -> {"viewer", "operator", "engineer"}]

VARIABLES
  cookie,     \* the role in the session cookie of the browser, or Nil
  tab         \* what the tab shows, or is loading

gateVars == <<lockVars, cookie, tab>>

AnyRole == {"viewer", "operator", "engineer"}
RoleRank == [viewer |-> 0, operator |-> 1, engineer |-> 2]
HasRole(role, minimum) == RoleRank[role] >= RoleRank[minimum]

(***************************************************************************)
(* proxy.ts                                                                *)
(***************************************************************************)
Root     == <<"/">>
Page(p)  == <<"/">> \o p
Api(p)   == <<"/", "api", "/">> \o p

StartsWithAny(path, prefixes) == \E p \in prefixes : IsPrefix(p, path)
IsUnderAny(path, pages) == path \in pages \/ StartsWithAny(path, {p \o <<"/">> : p \in pages})

EngineerPages == {Page(p) : p \in {<<"profiles">>, <<"hosts">>, <<"users">>, <<"servers">>,
                                   <<"audit">>, <<"access", "-settings">>}}
OperatorPages == {Page(p) : p \in {<<"push">>, <<"rec">>, <<"addinput">>, <<"channels">>,
                                   <<"access">>, <<"logs">>}}
EngineerApis ==
  {Api(p) : p \in {<<"apps", "/", "detail">>, <<"vhosts">>, <<"output-profiles">>,
                   <<"alert-routes">>, <<"users">>, <<"servers">>, <<"audit">>,
                   <<"access-status">>, <<"smtp">>}}
OperatorApis ==
  {Api(p) : p \in {<<"push">>, <<"record">>, <<"hls-dump">>, <<"stream-events">>,
                   <<"streams", "/">>, <<"scheduled-channels">>, <<"multiplex-channels">>,
                   <<"vod-files">>, <<"keys">>, <<"key-presets">>, <<"viewer-links">>,
                   <<"ingest-info">>, <<"logs">>}}
Reissue == Api(<<"viewer-links", "/", "reissue">>)
Apps    == Api(<<"apps">>)

\* Mutant: the engineer's rule for /api/apps asks for no method.
EngineerRuleAnyMethod(path, method) ==
  \/ IsUnderAny(path, EngineerPages) \/ StartsWithAny(path, EngineerApis)
  \/ path = Apps
EngineerRule(path, method) ==
  \/ IsUnderAny(path, EngineerPages) \/ StartsWithAny(path, EngineerApis)
  \/ path = Apps /\ method = "PATCH"
OperatorRule(path) ==
  \/ IsUnderAny(path, OperatorPages) \/ StartsWithAny(path, OperatorApis)
  \/ path = Apps

\* Mutant: what no rule names is the operator's.
RequiredRoleOrMore(path, method) ==
  IF IsPrefix(Reissue, path) \/ EngineerRule(path, method) THEN "engineer" ELSE "operator"
\* The re-issue comes before the rules, the engineer's before the operator's; what
\* none of them names is any session's.
RequiredRole(path, method) ==
  IF IsPrefix(Reissue, path) \/ EngineerRule(path, method) THEN "engineer"
  ELSE IF OperatorRule(path) THEN "operator" ELSE "viewer"

LetThrough(session, path, method) ==
  session # Nil /\ HasRole(session, RequiredRole(path, method))

(***************************************************************************)
(* The console's pages: their paths, what they call and where they lead.   *)
(***************************************************************************)
PathOf ==
  [home |-> Root, streams |-> Page(<<"streams">>), push |-> Page(<<"push">>),
   rec |-> Page(<<"rec">>), addinput |-> Page(<<"addinput">>),
   profiles |-> Page(<<"profiles">>), channels |-> Page(<<"channels">>),
   access |-> Page(<<"access">>), hosts |-> Page(<<"hosts">>), stats |-> Page(<<"stats">>),
   logs |-> Page(<<"logs">>), settings |-> Page(<<"access", "-settings">>),
   users |-> Page(<<"users">>), servers |-> Page(<<"servers">>), audit |-> Page(<<"audit">>),
   account |-> Page(<<"account">>), help |-> Page(<<"help">>)]
Pages == DOMAIN PathOf

Call(method, p) == [method |-> method, path |-> Api(p)]
Get(p)  == Call("GET", p)
Post(p) == Call("POST", p)
Kept(p) == {Get(p), Post(p), Call("DELETE", p)}      \* a list that the page edits

\* Asked for by themselves and by the buttons that the page shows to that role.
StreamCalls(role) ==
  IF HasRole(role, "operator") THEN {Get(<<"apps">>), Post(<<"streams", "/", "pull">>)} ELSE {}
StatsCalls(role) ==
  {Get(<<"alerts">>)} \cup
  (IF HasRole(role, "engineer")
   THEN {Get(<<"smtp">>), Post(<<"smtp">>), Post(<<"smtp", "/", "test">>),
         Post(<<"alert-routes">>), Call("DELETE", <<"alert-routes">>)}
   ELSE {})
PushCalls == Kept(<<"push", "-presets">>)
               \cup {Get(<<"apps">>), Get(<<"push">>), Post(<<"push">>), Post(<<"push", "/", "stop">>)}
RecordCalls ==
  {Get(<<"apps">>), Get(<<"record">>), Post(<<"record">>), Post(<<"record", "/", "stop">>),
   Post(<<"hls-dump">>), Post(<<"hls-dump", "/", "stop">>), Post(<<"hls-dump", "/", "conclude">>)}
InputCalls == {Get(<<"apps">>), Get(<<"push", "-presets">>), Get(<<"ingest-info">>),
               Post(<<"record">>), Post(<<"push">>)}
ProfileCalls == Kept(<<"output-profiles">>) \cup {Get(<<"apps">>), Get(<<"apps", "/", "detail">>)}
ChannelCalls == Kept(<<"scheduled-channels">>) \cup Kept(<<"multiplex-channels">>)
                  \cup {Get(<<"apps">>), Get(<<"vod-files">>)}
AccessCalls == Kept(<<"keys">>) \cup Kept(<<"key-presets">>) \cup Kept(<<"viewer-links">>)
                 \cup {Get(<<"apps">>), Call("PATCH", <<"keys">>)}
HostCalls == {Get(<<"vhosts">>), Post(<<"vhosts", "/", "reload-certificate">>), Get(<<"apps">>),
              Get(<<"apps", "/", "detail">>), Call("PATCH", <<"apps">>)}

CallsOf(page, role) ==
  {Get(<<"live">>)} \cup
  CASE page = "home"     -> {Get(<<"desired-state">>), Get(<<"thumbnail">>)}
    [] page = "streams"  -> StreamCalls(role)
    [] page = "stats"    -> StatsCalls(role)
    [] page = "push"     -> PushCalls
    [] page = "rec"      -> RecordCalls
    [] page = "addinput" -> InputCalls
    [] page = "profiles" -> ProfileCalls
    [] page = "channels" -> ChannelCalls
    [] page = "access"   -> AccessCalls
    [] page = "hosts"    -> HostCalls
    [] page = "logs"     -> {Get(<<"logs">>)}
    [] page = "settings" -> {Get(<<"access-status">>), Post(<<"viewer-links", "/", "reissue">>)}
    [] page = "users"    -> Kept(<<"users">>) \cup {Call("PATCH", <<"users">>)}
    [] page = "servers"  -> Kept(<<"servers">>) \cup {Post(<<"servers", "/", "test">>)}
    [] page = "audit"    -> {Get(<<"audit">>)}
    [] page = "account"  -> {Call("PATCH", <<"account", "/", "password">>)}
    [] page = "help"     -> {}

\* The buttons of a stream's drawer, which home and streams open for any role.
DrawerCalls == {Post(<<"stream-events", "/", "id3">>), Post(<<"stream-events", "/", "subtitles">>),
                Post(<<"hls-dump">>), Post(<<"hls-dump", "/", "stop">>),
                Post(<<"streams", "/", "disconnect">>)}

\* The sidebar: the roles it shows an item to.  The item of the logs names none.
MinRole == [home |-> "viewer", streams |-> "viewer", push |-> "operator", rec |-> "operator",
            profiles |-> "engineer", channels |-> "operator", access |-> "operator",
            hosts |-> "engineer", stats |-> "viewer", logs |-> "viewer", settings |-> "engineer",
            users |-> "engineer", servers |-> "engineer", audit |-> "engineer"]
Sidebar(role) == {p \in DOMAIN MinRole : HasRole(role, MinRole[p])}
\* Links that keep the layout as it is.
Links(page, role) ==
  Sidebar(role) \cup {"help", "account"}
    \cup (IF page = "home" /\ HasRole(role, "operator") THEN {"addinput", "streams"} ELSE {})
    \cup (IF page \in {"home", "streams"} THEN {"push", "rec"} ELSE {})

(***************************************************************************)
(* The tab                                                                 *)
(*   asked:  a request for a page is on its way to the proxy               *)
(*   passed: the proxy has let it through to the page's layout             *)
(*   shown:  the page, or the login form, is there                         *)
(* role is the one the layout was drawn with (Nil: it is not there),      *)
(* session the one that the last request went with.                        *)
(***************************************************************************)
Shown(at, role) == tab.phase = "shown" /\ tab.at = at /\ tab.role = role
InConsole       == tab.phase = "shown" /\ tab.at \in Pages

Ask(page, role) == tab' = [phase |-> "asked", at |-> page, role |-> role, session |-> Nil]

GateInit ==
  /\ LockInit
  /\ cookie = Nil
  /\ tab = [phase |-> "shown", at |-> "login", role |-> Nil, session |-> Nil]

\* A path is typed or an <a> is clicked: the layout is drawn anew.  Whatever the
\* form has sent is answered to nobody.
Open(page) ==
  /\ tab.phase = "shown"
  /\ Ask(page, Nil)
  /\ tries' = [s \in Slots |-> IF tries[s] = Nil THEN Nil ELSE [tries[s] EXCEPT !.here = FALSE]]
  /\ UNCHANGED <<attempts, others, now, cookie>>

\* A <Link> is clicked: the layout stays as it was drawn.
Follow(page) ==
  /\ InConsole
  /\ page \in Links(tab.at, tab.role)
  /\ Ask(page, tab.role)
  /\ UNCHANGED <<lockVars, cookie>>

\* A redirect is one more request.
Proxy ==
  /\ tab.phase = "asked"
  /\ tab' = CASE tab.at = "login" ->
                   [tab EXCEPT !.phase = "passed"]
              [] tab.at # "login" /\ cookie = Nil ->
                   [tab EXCEPT !.at = "login"]
              [] tab.at # "login" /\ cookie # Nil
                   /\ ~LetThrough(cookie, PathOf[tab.at], "GET") ->
                   [tab EXCEPT !.at = "home"]
              [] OTHER -> [tab EXCEPT !.phase = "passed", !.session = cookie]
  /\ UNCHANGED <<lockVars, cookie>>

\* The layout looks at the session again when it is drawn.
Render ==
  /\ tab.phase = "passed"
  /\ \/ tab.at = "login" /\ tab' = [tab EXCEPT !.phase = "shown", !.role = Nil]
     \/ tab.at # "login" /\ tab.role # Nil /\ tab' = [tab EXCEPT !.phase = "shown"]
     \/ /\ tab.at # "login" /\ tab.role = Nil /\ tab.session # Nil
        /\ tab' = [tab EXCEPT !.phase = "shown", !.role = tab.session]
     \/ /\ tab.at # "login" /\ tab.role = Nil /\ tab.session = Nil
        /\ Ask("login", Nil)
  /\ UNCHANGED <<lockVars, cookie>>

\* The form is disabled while it is on its way.
SubmitForm(s, n, known) ==
  /\ Shown("login", Nil)
  /\ \A r \in Slots : tries[r] # Nil => ~tries[r].here
  /\ Begin(s, [name |-> n, known |-> known, here |-> TRUE])
  /\ UNCHANGED <<cookie, tab>>

\* The name is tried from somewhere else.
TryElsewhere(s, n, known) ==
  /\ Begin(s, [name |-> n, known |-> known, here |-> FALSE])
  /\ UNCHANGED <<cookie, tab>>

\* The wrong password is said in the form, the right one leads to the first page.
AnswerForm(s) ==
  \/ TryFails(s) /\ UNCHANGED <<cookie, tab>>
  \/ /\ TrySucceeds(s)
     /\ IF tries[s].here
        THEN cookie' = RoleOf[tries[s].name] /\ Ask("home", Nil)
        ELSE UNCHANGED <<cookie, tab>>

LogoutHere ==
  /\ InConsole
  /\ cookie' = Nil
  /\ Ask("login", Nil)
  /\ UNCHANGED lockVars

\* Another tab of the browser logs in or out.
OtherTab(session) ==
  /\ cookie' = session
  /\ UNCHANGED <<lockVars, tab>>

\* The session ends by its age, that of a request under way included.
Expire ==
  /\ cookie # Nil
  /\ cookie' = Nil
  /\ tab' = [tab EXCEPT !.session = Nil]
  /\ UNCHANGED lockVars

GateNext ==
  \/ \E p \in Pages \cup {"login"} : Open(p)
  \/ \E p \in Pages : Follow(p)
  \/ Proxy \/ Render
  \/ \E s \in Slots, n \in Names, known \in BOOLEAN : SubmitForm(s, n, known) \/ TryElsewhere(s, n, known)
  \/ \E s \in Slots : AnswerForm(s)
  \/ LogoutHere
  \/ \E r \in AnyRole \cup {Nil} : OtherTab(r)
  \/ Expire
  \/ (OtherName \/ RestartConsole \/ Tick) /\ UNCHANGED <<cookie, tab>>

\* A request is carried out; the operator waits for the page (bound of Open).
GateSpec == GateInit /\ [][GateNext]_gateVars /\ WF_gateVars(Proxy) /\ WF_gateVars(Render)

(***************************************************************************)
(* Properties                                                              *)
(***************************************************************************)
\* Types; the store is never larger than its cap.
GateTypeOK ==
  /\ LockTypeOK
  /\ cookie \in AnyRole \cup {Nil}
  /\ tab \in [phase : {"asked", "passed", "shown"}, at : Pages \cup {"login"},
              role : AnyRole \cup {Nil}, session : AnyRole \cup {Nil}]
  /\ InConsole => tab.role # Nil

\* Whatever a page asks for by itself, and with the buttons it shows, is granted:
\* the rules of the proxy, the page's own test of the role and the role that the
\* layout was drawn with agree as long as the session is the one of that page.
PageCallsAllowed ==
  InConsole /\ tab.role = tab.session /\ tab.session = cookie =>
    \A c \in CallsOf(tab.at, tab.role) : LetThrough(cookie, c.path, c.method)

\* However roles and sessions change under way, redirects come to an end: the tab
\* shows a page or the login form.
NavigationSettles == tab.phase # "shown" ~> tab.phase = "shown"

\* Sidebar.tsx: an item without a role is one for every role, as the proxy has it.
NavMatchesGate ==
  InConsole /\ tab.role = cookie =>
    \A p \in Sidebar(tab.role) : LetThrough(cookie, PathOf[p], "GET")

\* ... and what a stream's drawer offers is granted as well.
DrawerFitsRole ==
  InConsole /\ tab.at \in {"home", "streams"} /\ tab.role = cookie =>
    \A c \in DrawerCalls : LetThrough(cookie, c.path, c.method)

\* CurrentUserProvider.tsx: the role it gives "can't drift" from what is granted.
ShownRoleHolds == InConsole /\ cookie # Nil => tab.role = cookie
===============================================================================
