------------------------------ MODULE ApiClient ------------------------------
(***************************************************************************)
(* The browser's side of a login session, lib/api/client.ts and            *)
(* lib/stores/auth.store.ts, in several tabs, with the server reduced to   *)
(* what AuthSessions is shown to implement, LoginLineage.                  *)
(*                                                                         *)
(* A tab keeps its access token in sessionStorage; the refresh token is a  *)
(* cookie that all tabs share and no script sees.  The two are issued      *)
(* together and carry the same session id: a token <<login, n>> stands for *)
(* the pair, the n-th of its login.                                        *)
(*                                                                         *)
(* JavaScript runs to its next await: what a reply sets off, the promise   *)
(* callbacks of everybody who awaits it included, is one step.  A 401 is   *)
(* said and received in one step, because a token that is refused is       *)
(* refused ever after; what changes the session is served in a step and    *)
(* received in another, and may have its connection cut in between, by the *)
(* network or by the tab being reloaded or closed.                         *)
(***************************************************************************)
EXTENDS Naturals, FiniteSets

CONSTANTS
  Tab,        \* tabs of one browser
  Call,       \* calls of the application that may be in progress at once
  Flight,     \* POSTs to /auth/refresh that may be in progress at once
  Login,      \* logins of a behaviour
  MaxTokens,  \* bound on the tokens of a login
  None        \* no token, no tab, no flight

ASSUME ClientAssumption ==
  /\ MaxTokens \in Nat
  /\ None \notin Tab \cup Flight \cup (Login \X (1..MaxTokens))

Token == Login \X (1..MaxTokens)

VARIABLES
  phase, valid, given,  \* the server: LoginLineage
  cookie,      \* the refresh_token cookie
  access,      \* access_token in each tab's sessionStorage
  expired,     \* tokens whose access token has expired
  refreshing,  \* _refreshing of each tab: the flight its promise is about
  flight,      \* the refresh requests
  call,        \* the application's calls
  exchanged    \* <<token, tab>>: the tab exchanged the token and was not cut off,
               \* in a login that has not ended

server == <<phase, valid, given>>
client == <<cookie, access, refreshing, flight, call>>
vars   == <<server, client, expired, exchanged>>

Server == INSTANCE LoginLineage

\* "api" stands for every route behind get_current_user but logout; a route that
\* asks for no token is neither refused for one nor does it touch a session.
Kind == {"api", "login", "logout"}

IdleCall == [pc |-> "idle", kind |-> "api", tab |-> None, token |-> None, retried |-> FALSE]

CallState ==
  {IdleCall} \cup
  [pc      : {"sent", "waiting", "answered"},
   kind    : Kind,
   tab     : Tab,
   token   : Token \cup {None},  \* in its Authorization header, or its answer's cookie
   retried : BOOLEAN]            \* _retried

NoFlight == [pc |-> "free", tab |-> None, token |-> None, new |-> None]

\* The tab is None when nobody listens any more.
FlightState ==
  {NoFlight} \cup
  [pc    : {"sent", "taken", "given"},
   tab   : Tab \cup {None},
   token : Token \cup {None},   \* the cookie it was sent with
   new   : Token \cup {None}]   \* the cookie in its reply

----------------------------------------------------------------------------
(* The server's tokens.                                                    *)

\* GETDEL finds a key for this cookie.
Current(t) == t # None /\ valid[t[1]] = {t}

\* get_current_user accepts the bearer token.
Accepts(t) == t # None /\ t \notin expired

\* The next token of a login.
Gives(l, t) ==
  /\ t = <<l, Cardinality({u \in given : u[1] = l}) + 1>>
  /\ t \in Token
  /\ Server!Give(l)
  /\ given' = given \cup {t}

\* The login ends.
Ends(l) ==
  /\ Server!End(l)
  /\ exchanged' = {e \in exchanged : e[1][1] # l}

----------------------------------------------------------------------------
(* Calls.                                                                  *)

\* Calls whose answer, with a cookie or with None for it, is on its way.
Served == {c \in Call : call[c].pc = "answered"}

Waiting(tab) == {c \in Call : call[c].pc = "waiting" /\ call[c].tab = tab}

\* A reply or an error goes back to the application; logout removes the access
\* token either way (finally).
SettledAsWas(calls) == [c \in Call |-> IF c \in calls THEN [call[c] EXCEPT !.pc = "idle"] ELSE call[c]]
Settled(calls) == [c \in Call |-> IF c \in calls THEN IdleCall ELSE call[c]]

AccessAfter(c) == IF call[c].kind = "logout" THEN [access EXCEPT ![call[c].tab] = None] ELSE access

\* A login is tried as long as the bound leaves one.
Send(c) == \E tab \in Tab, kind \in Kind :
  /\ call[c].pc = "idle"
  /\ kind = "login" => \E l \in Login : phase[l] = "unopened"
  /\ call' = [call EXCEPT ![c] = [pc |-> "sent", kind |-> kind, tab |-> tab,
                                  token |-> IF kind = "login" THEN None ELSE access[tab],
                                  retried |-> FALSE]]
  /\ UNCHANGED <<server, cookie, access, expired, refreshing, flight, exchanged>>

Succeed(c) ==
  /\ call[c].pc = "sent" /\ call[c].kind = "api" /\ Accepts(call[c].token)
  /\ call' = Settled({c})
  /\ UNCHANGED <<server, cookie, access, expired, refreshing, flight, exchanged>>

\* Not for /auth/login, and once per call.
Retriable(c) == call[c].kind # "login" /\ ~call[c].retried

\* The refresh a 401 has to wait for, if one is under way in the tab.
NeverUnderWay(tab) == None
UnderWay(tab) == refreshing[tab]

\* withCredentials: the cookie goes along, if there is one.
CookieOrBearer(tab) == IF cookie = None THEN access[tab] ELSE cookie
CookieOf(tab) == cookie

\* 401, for a token that is missing or expired, or an account that is disabled or
\* may not do this: the call waits for the tab's refresh, which the first one starts.
Unauthorized(c) ==
  LET tab == call[c].tab IN
  /\ call[c].pc = "sent" /\ Retriable(c)
  /\ call' = [call EXCEPT ![c].pc = "waiting", ![c].token = None, ![c].retried = TRUE]
  /\ \/ UnderWay(tab) # None /\ UNCHANGED <<refreshing, flight>>
     \/ /\ UnderWay(tab) = None
        /\ \E f \in Flight :
             /\ flight[f] = NoFlight
             /\ flight' = [flight EXCEPT ![f] = [pc |-> "sent", tab |-> tab,
                                                 token |-> CookieOf(tab), new |-> None]]
             /\ refreshing' = [refreshing EXCEPT ![tab] = f]
  /\ UNCHANGED <<server, cookie, access, expired, exchanged>>

\* Any other error, a second 401, or a connection that fails, if before the body of
\* an answer then perhaps after its Set-Cookie.
Reject(c) ==
  /\ call[c].pc \in {"sent", "answered"}
  /\ cookie' \in {cookie} \cup {call[d].token : d \in {c} \cap Served}
  /\ call' = Settled({c})
  /\ access' = AccessAfter(c)
  /\ UNCHANGED <<server, expired, refreshing, flight, exchanged>>

\* POST /auth/login opens a session ...
ServeLogin(c) == \E l \in Login, t \in Token :
  /\ call[c].pc = "sent" /\ call[c].kind = "login"
  /\ phase[l] = "unopened" /\ Gives(l, t)
  /\ call' = [call EXCEPT ![c].pc = "answered", ![c].token = t]
  /\ UNCHANGED <<cookie, access, expired, refreshing, flight, exchanged>>

\* ... which the reply brings to the browser.
LoggedIn(c) ==
  /\ call[c].pc = "answered" /\ call[c].kind = "login"
  /\ cookie' = call[c].token
  /\ access' = [access EXCEPT ![call[c].tab] = call[c].token]
  /\ call' = Settled({c})
  /\ UNCHANGED <<server, expired, refreshing, flight, exchanged>>

\* POST /auth/logout deletes the session of its access token, if it is the one
\* in Redis; a later one of the same login stays.
ServeLogout(c) ==
  LET t == call[c].token IN
  /\ call[c].pc = "sent" /\ call[c].kind = "logout" /\ Accepts(t)
  /\ IF Current(t) THEN Ends(t[1]) ELSE UNCHANGED <<server, exchanged>>
  /\ call' = [call EXCEPT ![c].pc = "answered", ![c].token = None]
  /\ UNCHANGED <<cookie, access, expired, refreshing, flight>>

LoggedOut(c) ==
  /\ call[c].pc = "answered" /\ call[c].kind = "logout"
  /\ cookie' = None
  /\ access' = AccessAfter(c)
  /\ call' = Settled({c})
  /\ UNCHANGED <<server, expired, refreshing, flight, exchanged>>

----------------------------------------------------------------------------
(* Refreshes.                                                              *)

\* A request nobody listens to any more: the server goes on with it if it has
\* taken the token, and what it could still take later it could have taken before.
CutOff(fl) == IF fl.pc = "taken" THEN [fl EXCEPT !.tab = None] ELSE NoFlight

\* Refreshes of the tab whose answer is on its way.
Given(tab) == {f \in Flight : flight[f].pc = "given" /\ flight[f].tab = tab}

\* GETDEL.
ServerTake(f) ==
  LET fl == flight[f] IN
  /\ fl.pc = "sent" /\ Current(fl.token)
  /\ Server!Take(fl.token[1])
  /\ flight' = [flight EXCEPT ![f].pc = "taken"]
  /\ exchanged' = exchanged \cup {<<fl.token, fl.tab>>}
  /\ UNCHANGED <<cookie, access, expired, refreshing, call>>

\* An answer that nobody waits for.
Answered(fl) == IF fl.tab = None THEN NoFlight ELSE fl

ServerGive(f) == \E t \in Token :
  /\ flight[f].pc = "taken"
  /\ Gives(flight[f].token[1], t)
  /\ flight' = [flight EXCEPT ![f] = Answered([@ EXCEPT !.pc = "given", !.new = t])]
  /\ UNCHANGED <<cookie, access, expired, refreshing, call, exchanged>>

\* The account was disabled, or the process died half-way.
ServerEnd(f) ==
  /\ flight[f].pc = "taken"
  /\ Ends(flight[f].token[1])
  /\ flight' = [flight EXCEPT ![f] = Answered(@)]
  /\ UNCHANGED <<cookie, access, expired, refreshing, call>>

\* Everybody who awaits the tab's refresh goes on.
FirstOf(tab) == {CHOOSE c \in Waiting(tab) : TRUE}
Resumed(tab) == Waiting(tab)

\* The retry goes out with the new access token.
Renewed(f) ==
  LET tab == flight[f].tab
      t   == flight[f].new IN
  /\ flight[f].pc = "given" /\ tab # None
  /\ cookie' = t
  /\ access' = [access EXCEPT ![tab] = t]
  /\ call' = [c \in Call |-> IF c \in Resumed(tab)
                               THEN [call[c] EXCEPT !.pc = "sent", !.token = t] ELSE call[c]]
  /\ refreshing' = [refreshing EXCEPT ![tab] = None]
  /\ flight' = [flight EXCEPT ![f] = NoFlight]
  /\ UNCHANGED <<server, expired, exchanged>>

\* The catch of refreshAccessToken: the access token is removed and the waiting
\* calls are rejected with their own 401.
GaveUp(tab) ==
  /\ access' = [access EXCEPT ![tab] = None]
  /\ call' = Settled(Resumed(tab))
  /\ refreshing' = [refreshing EXCEPT ![tab] = None]

\* No cookie, no key for it, or an exchange that failed: 401 or 500.
Hopeless(fl) ==
  \/ fl.pc = "sent" /\ ~Current(fl.token)
  \/ fl.pc = "taken" /\ phase[fl.token[1]] = "ended"

Refused(f) ==
  /\ Hopeless(flight[f])
  /\ GaveUp(flight[f].tab)
  /\ flight' = [flight EXCEPT ![f] = NoFlight]
  /\ UNCHANGED <<server, cookie, expired, exchanged>>

\* The connection fails.
Break(f) ==
  LET fl == flight[f] IN
  /\ fl.tab # None
  /\ GaveUp(fl.tab)
  /\ cookie' \in {cookie} \cup {flight[g].new : g \in Given(fl.tab)}
  /\ flight' = [flight EXCEPT ![f] = CutOff(@)]
  /\ exchanged' = exchanged \ {<<fl.token, fl.tab>>}
  /\ UNCHANGED <<server, expired>>

----------------------------------------------------------------------------
(* The tab, and time.                                                      *)

\* A reload keeps sessionStorage, closing the tab does not; either drops what
\* the tab was doing, before any finally runs.
Reload(tab) ==
  LET calls   == {c \in Call : call[c].tab = tab}
      flights == {f \in Flight : flight[f].tab = tab} IN
  /\ access' \in {[access EXCEPT ![tab] = kept] : kept \in {access[tab], None}}
  /\ cookie' \in {cookie} \cup {call[c].token : c \in calls \cap Served}
                         \cup {flight[f].new : f \in Given(tab)}
  /\ call' = Settled(calls)
  /\ refreshing' = [refreshing EXCEPT ![tab] = None]
  /\ flight' = [f \in Flight |-> IF f \in flights THEN CutOff(flight[f]) ELSE flight[f]]
  /\ exchanged' = exchanged \ {<<flight[f].token, tab>> : f \in flights}
  /\ UNCHANGED <<server, expired>>

\* Fifteen minutes: it shows when a call carries the token, and not before.
ExpireAccess == \E c \in Call :
  /\ call[c].pc = "sent" /\ Accepts(call[c].token)
  /\ expired' = expired \cup {call[c].token}
  /\ UNCHANGED <<server, client, exchanged>>

\* Seven days, a password reset, or a Redis that forgot.
Lapse == \E l \in Login :
  /\ phase[l] = "live"
  /\ Ends(l)
  /\ UNCHANGED <<client, expired>>

----------------------------------------------------------------------------
Init ==
  /\ Server!Init
  /\ cookie = None
  /\ access = [tab \in Tab |-> None]
  /\ expired = {}
  /\ refreshing = [tab \in Tab |-> None]
  /\ flight = [f \in Flight |-> NoFlight]
  /\ call = [c \in Call |-> IdleCall]
  /\ exchanged = {}

CallStep(c) ==
  \/ Succeed(c) \/ Unauthorized(c) \/ Reject(c)
  \/ ServeLogin(c) \/ LoggedIn(c) \/ ServeLogout(c) \/ LoggedOut(c)

FlightStep(f) ==
  \/ ServerTake(f) \/ ServerGive(f) \/ ServerEnd(f)
  \/ Renewed(f) \/ Refused(f) \/ Break(f)

Next ==
  \/ \E c \in Call : Send(c) \/ CallStep(c)
  \/ \E f \in Flight : FlightStep(f)
  \/ \E tab \in Tab : Reload(tab)
  \/ ExpireAccess \/ Lapse

\* A request is answered or its connection fails: axios sets no timeout, TCP
\* and the server's own limits do.  Nothing else has to happen.
Fairness ==
  /\ \A c \in Call : WF_vars(CallStep(c))
  /\ \A f \in Flight : WF_vars(FlightStep(f))

Spec == Init /\ [][Next]_vars /\ Fairness

----------------------------------------------------------------------------
(* Properties.                                                             *)

\* The variables have their types; a call that is over has left nothing behind,
\* _retried included; the browser only holds tokens the server has given.
TypeOK ==
  /\ phase \in [Login -> Server!Phase]
  /\ valid \in [Login -> SUBSET Token]
  /\ given \in SUBSET Token
  /\ cookie \in given \cup {None}
  /\ access \in [Tab -> given \cup {None}]
  /\ expired \in SUBSET given
  /\ refreshing \in [Tab -> Flight \cup {None}]
  /\ flight \in [Flight -> FlightState]
  /\ call \in [Call -> CallState]
  /\ exchanged \in SUBSET (given \X Tab)

\* A tab has one refresh under way or none, it is the one its _refreshing stands
\* for, and the calls that wait have one to wait for: _refreshing is neither kept
\* after its request (finally) nor given up before it.
OneRefresh ==
  /\ \A f \in Flight, tab \in Tab : flight[f].tab = tab <=> refreshing[tab] = f
  /\ \A c \in Call : call[c].pc = "waiting" => refreshing[call[c].tab] # None

\* "System silently refreshes access tokens" (docs/SRS.md, FR-AUTH-004): as long
\* as the login lives, a refresh that is going to be refused is so because another
\* tab has used the token, or because its tab was cut off from the answer to an
\* earlier one; never because of a refresh that came through.
SilentRefresh ==
  \A f \in Flight : Hopeless(flight[f]) => <<flight[f].token, flight[f].tab>> \notin exchanged

\* No cookie, no login, and no refresh that could bring one.
SignedOut ==
  /\ cookie = None
  /\ \A f \in Flight : flight[f].tab # None => flight[f].token = None
  /\ \A c \in Call : call[c].kind # "login"

\* A browser that is signed out remains so until somebody logs in, whatever access
\* tokens its tabs still hold and whatever requests it was cut off from.
SignedOutStays ==
  [][SignedOut =>
       \/ SignedOut'
       \/ \E c \in Call : call[c] = IdleCall /\ call'[c].kind = "login"]_vars

\* No call hangs: not on a refresh that fails, that another call started, or that
\* is answered 401 itself, and not in a circle of 401 and refresh.
CallsSettle == \A c \in Call : call[c] # IdleCall ~> call[c] = IdleCall
=============================================================================
