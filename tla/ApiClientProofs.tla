--------------------------- MODULE ApiClientProofs ---------------------------
(***************************************************************************)
(* What ApiClient guarantees for every set of tabs, calls, refreshes and   *)
(* logins: the types, one refresh per tab, refreshes that are only refused *)
(* for a reason, and a browser that stays signed out.                      *)
(***************************************************************************)
EXTENDS ApiClient, TLAPS

----------------------------------------------------------------------------
(* The inductive invariant.                                                *)

\* Requests carry tokens the server has given, and their shape follows from where
\* they are: a request with an answer has a reader or is forgotten.
Shaped ==
  /\ \A c \in Call :
       /\ call[c].token \in given \cup {None}
       /\ call[c].pc = "answered" =>
            call[c].kind = "login" \/ (call[c].kind = "logout" /\ call[c].token = None)
  /\ \A f \in Flight :
       /\ flight[f].token \in given \cup {None}
       /\ flight[f].new \in given \cup {None}
       /\ flight[f].pc \in {"sent", "given"} => flight[f].tab \in Tab
       /\ flight[f].pc \in {"taken", "given"} => flight[f].token # None

\* A token in an answer that has not arrived is in one answer only, and has never
\* been in the browser.
CallBrings(c, t) == call[c].pc = "answered" /\ call[c].token = t
FlightBrings(f, t) == flight[f].pc = "given" /\ flight[f].new = t

OnItsWay(t) == (\E c \in Call : CallBrings(c, t)) \/ (\E f \in Flight : FlightBrings(f, t))

New(t) ==
  /\ cookie # t
  /\ \A f \in Flight : flight[f].token # t
  /\ \A e \in exchanged : e[1] # t

Once ==
  \A t \in Token :
    /\ \A c, d \in Call : CallBrings(c, t) /\ CallBrings(d, t) => c = d
    /\ \A f, g \in Flight : FlightBrings(f, t) /\ FlightBrings(g, t) => f = g
    /\ \A c \in Call, f \in Flight : ~(CallBrings(c, t) /\ FlightBrings(f, t))
    /\ OnItsWay(t) => New(t)

\* The token of an exchange is in the refresh that exchanges it, or has left the
\* tab and the cookie for good.
Underway(e, f) ==
  /\ flight[f].tab = e[2]
  /\ flight[f].token = e[1]
  /\ flight[f].pc \in {"taken", "given"}

Gone(e) ==
  /\ cookie # e[1]
  /\ \A f \in Flight : flight[f].tab = e[2] => flight[f].token # e[1]

Spent ==
  \A e \in exchanged :
    /\ phase[e[1][1]] # "ended"
    /\ (\E f \in Flight : Underway(e, f)) \/ Gone(e)

IInv == TypeOK /\ OneRefresh /\ Shaped /\ Once /\ Spent

----------------------------------------------------------------------------
(* The server's steps.                                                     *)

\* A token that is given out is a new one, and its login goes on.
LEMMA GivesFresh ==
  ASSUME TypeOK, NEW l \in Login, NEW t \in Token, Gives(l, t)
  PROVE  /\ t \notin given /\ given' = given \cup {t}
         /\ phase' \in [Login -> Server!Phase] /\ valid' \in [Login -> SUBSET Token]
         /\ given' \in SUBSET Token
         /\ \A m \in Login : phase'[m] = "ended" => phase[m] = "ended"
<1>1. PICK u \in Token \ given :
        /\ phase' = [phase EXCEPT ![l] = "live"]
        /\ valid' = [valid EXCEPT ![l] = {u}]
        /\ given' = given \cup {u}
  BY DEF Gives, Server!Give, Server!Move
<1>2. given' = given \cup {t} BY DEF Gives
<1>3. u = t BY <1>1, <1>2
<1>4. QED BY <1>1, <1>2, <1>3 DEF TypeOK, Server!Phase

\* A login that ends takes its exchanges along.
LEMMA EndsOne ==
  ASSUME TypeOK, NEW l \in Login, Ends(l)
  PROVE  /\ given' = given
         /\ phase' \in [Login -> Server!Phase] /\ valid' \in [Login -> SUBSET Token]
         /\ \A m \in Login : phase'[m] = "ended" => phase[m] = "ended" \/ m = l
         /\ exchanged' \subseteq exchanged /\ \A e \in exchanged' : e[1][1] # l
BY DEF Ends, Server!End, Server!Move, Server!Phase, TypeOK

\* A rotation takes the token of a login that lives.
LEMMA TakesOne ==
  ASSUME TypeOK, NEW l \in Login, Server!Take(l)
  PROVE  /\ given' = given
         /\ phase' \in [Login -> Server!Phase] /\ valid' \in [Login -> SUBSET Token]
         /\ phase'[l] # "ended"
         /\ \A m \in Login : phase'[m] = "ended" => phase[m] = "ended"
BY DEF Server!Take, Server!Move, Server!Phase, TypeOK

----------------------------------------------------------------------------
(* Parts of the invariant that a step leaves alone.                        *)

\* The refreshes of the tabs, as OneRefresh sees them.
LEMMA SameRefreshes ==
  ASSUME OneRefresh, refreshing' = refreshing,
         \A f \in Flight : flight'[f].tab = flight[f].tab,
         \A c \in Call : call'[c].pc = "waiting" =>
           call[c].pc = "waiting" /\ call'[c].tab = call[c].tab
  PROVE  OneRefresh'
BY DEF OneRefresh

\* No new answer, no new token in the browser.
LEMMA SameAnswers ==
  ASSUME Once, cookie' \in {cookie, None}, None \notin Token,
         exchanged' \subseteq exchanged,
         \A f \in Flight : flight'[f].token \in {flight[f].token, cookie, None},
         \A c \in Call, t \in Token : CallBrings(c, t)' => CallBrings(c, t),
         \A f \in Flight, t \in Token : FlightBrings(f, t)' => FlightBrings(f, t)
  PROVE  Once'
<1> SUFFICES ASSUME NEW t \in Token
             PROVE  /\ \A c, d \in Call : CallBrings(c, t)' /\ CallBrings(d, t)' => c = d
                    /\ \A f, g \in Flight : FlightBrings(f, t)' /\ FlightBrings(g, t)' => f = g
                    /\ \A c \in Call, f \in Flight : ~(CallBrings(c, t)' /\ FlightBrings(f, t)')
                    /\ OnItsWay(t)' => New(t)'
  BY DEF Once
<1>1. OnItsWay(t)' => New(t)
  BY DEF Once, OnItsWay
<1>2. New(t) => New(t)' BY DEF New
<1>3. QED BY <1>1, <1>2 DEF Once

\* The exchanges, when the cookie stays and no refresh is begun or forgotten.
LEMMA SameExchanges ==
  ASSUME TypeOK, Spent, cookie' = cookie, exchanged' \subseteq exchanged,
         \A e \in exchanged' : phase'[e[1][1]] # "ended",
         \A f \in Flight :
           /\ flight'[f].tab = flight[f].tab
           /\ flight[f].tab # None =>
                /\ flight'[f].token = flight[f].token
                /\ flight[f].pc \in {"taken", "given"} => flight'[f].pc \in {"taken", "given"}
  PROVE  Spent'
<1>1. \A e \in exchanged' : e[2] # None BY ClientAssumption DEF TypeOK
<1>2. QED BY <1>1 DEF Spent, Underway, Gone

----------------------------------------------------------------------------
(* Slots.                                                                  *)

\* What a slot of TypeOK holds.
LEMMA CallSlot ==
  ASSUME TypeOK, NEW c \in Call
  PROVE  /\ call[c] \in CallState
         /\ call[c].pc = "idle" => call[c] = IdleCall
         /\ call[c].pc # "idle" => call[c].tab \in Tab
BY DEF TypeOK, CallState, IdleCall

\* The fields of a flight: a free slot is empty, any other has a tab or none.
LEMMA FlightSlot ==
  ASSUME TypeOK, NEW f \in Flight
  PROVE  /\ flight[f] \in FlightState
         /\ flight[f].pc = "free" => flight[f] = NoFlight
         /\ flight[f].tab \in Tab \cup {None}
BY DEF TypeOK, FlightState, NoFlight

\* An application's call that is over or goes out, with the cookie of its own answer,
\* of another reply that clears it, or the old one.
LEMMA CallLands ==
  ASSUME IInv, NEW c \in Call, NEW x \in CallState, call' = [call EXCEPT ![c] = x],
         x.token \in given \cup {None}, x.pc \in {"idle", "sent"},
         cookie' \in {cookie, None} \cup {call[d].token : d \in {c} \cap Served},
         access' \in [Tab -> given \cup {None}],
         UNCHANGED <<server, expired, refreshing, flight, exchanged>>
  PROVE  IInv'
<1>1. TypeOK /\ OneRefresh /\ Shaped /\ Once /\ Spent BY DEF IInv
<1>2. call'[c] = x /\ \A d \in Call \ {c} : call'[d] = call[d] BY <1>1 DEF TypeOK
<1>3. cookie' \in {cookie, None} \/ CallBrings(c, cookie') BY DEF Served, CallBrings
<1>4. cookie' \in given \cup {None} BY <1>1, <1>3 DEF TypeOK, Shaped, CallBrings
<1>5. TypeOK' BY <1>1, <1>4 DEF TypeOK, server
<1>6. OneRefresh' BY <1>1, <1>2 DEF OneRefresh
<1>7. Shaped' BY <1>1, <1>2 DEF Shaped, server
<1>8. Once'
  <2>1. SUFFICES ASSUME NEW t \in Token
                 PROVE  /\ \A b, d \in Call : CallBrings(b, t)' /\ CallBrings(d, t)' => b = d
                        /\ \A f, g \in Flight : FlightBrings(f, t)' /\ FlightBrings(g, t)' => f = g
                        /\ \A d \in Call, f \in Flight : ~(CallBrings(d, t)' /\ FlightBrings(f, t)')
                        /\ OnItsWay(t)' => New(t)'
    BY DEF Once
  <2>2. \A d \in Call : CallBrings(d, t)' => CallBrings(d, t) /\ d # c
    BY <1>2 DEF CallBrings
  <2>3. \A f \in Flight : FlightBrings(f, t)' = FlightBrings(f, t) BY DEF FlightBrings
  <2>4. OnItsWay(t)' => New(t) /\ ~CallBrings(c, t)
    BY <1>1, <2>2, <2>3 DEF Once, OnItsWay
  <2>5. t # None BY ClientAssumption DEF Token
  <2>6. OnItsWay(t)' => New(t)' BY <1>3, <2>4, <2>5 DEF New
  <2>7. QED BY <1>1, <2>2, <2>3, <2>6 DEF Once
<1>9. Spent'
  <2>1. ASSUME NEW e \in exchanged PROVE cookie' # cookie => cookie' # e[1]
    <3>1. e[1] \in Token BY <1>1 DEF TypeOK
    <3>2. e[1] # None BY <3>1, ClientAssumption DEF Token
    <3>3. CallBrings(c, e[1]) => New(e[1]) BY <1>1, <3>1 DEF Once, OnItsWay
    <3>4. QED BY <1>3, <3>2, <3>3 DEF New
  <2>2. QED BY <1>1, <2>1 DEF Spent, Underway, Gone, server
<1>10. QED BY <1>5, <1>6, <1>7, <1>8, <1>9 DEF IInv

\* A tab loses its refreshes and the calls that wait for one, and all its calls if
\* it is reloaded.
LEMMA TabCut ==
  ASSUME IInv, NEW tab \in Tab \cup {None}, NEW F \in SUBSET Flight, NEW C \in SUBSET Call,
         call' = Settled(C), tab # None => Waiting(tab) \subseteq C,
         flight' \in [Flight -> FlightState],
         \A f \in F : /\ flight[f].tab = tab
                      /\ \/ flight'[f] = NoFlight
                         \/ /\ flight[f].pc = "taken" /\ flight'[f].pc = "taken"
                            /\ flight'[f].tab = None /\ flight'[f].new = flight[f].new
                            /\ flight'[f].token = flight[f].token,
         \A f \in Flight \ F : flight'[f] = flight[f] /\ (tab # None => flight[f].tab # tab),
         refreshing' \in [Tab -> Flight \cup {None}],
         \A u \in Tab : refreshing'[u] = IF u = tab THEN None ELSE refreshing[u],
         \/ cookie' = cookie
         \/ \E c \in C : CallBrings(c, cookie')
         \/ \E f \in F : FlightBrings(f, cookie'),
         exchanged' = exchanged \ {<<flight[f].token, tab>> : f \in F},
         access' \in [Tab -> given \cup {None}],
         UNCHANGED <<server, expired>>
  PROVE  IInv'
<1>1. TypeOK /\ OneRefresh /\ Shaped /\ Once /\ Spent BY DEF IInv
<1>2. \A c \in Call : call'[c] = IF c \in C THEN IdleCall ELSE call[c] BY DEF Settled
<1>3. IdleCall \in CallState /\ IdleCall.pc = "idle" /\ IdleCall.token = None
  BY DEF CallState, IdleCall
<1>4. NoFlight.pc = "free" /\ NoFlight.tab = None /\ NoFlight.token = None /\ NoFlight.new = None
  BY DEF NoFlight
<1>5. None \notin Tab /\ None \notin Flight /\ None \notin Token
  BY ClientAssumption DEF Token
<1>6. \A f \in F : flight'[f].pc \in {"free", "taken"} /\ flight'[f].tab = None
                   /\ flight'[f].token \in {flight[f].token, None}
  BY <1>4
<1>7. TypeOK'
  <2>1. call' \in [Call -> CallState] BY <1>1, <1>3 DEF Settled, TypeOK
  <2>2. cookie' \in given \cup {None}
    BY <1>1 DEF TypeOK, Shaped, CallBrings, FlightBrings
  <2>3. QED BY <1>1, <2>1, <2>2 DEF TypeOK, server
<1>8. OneRefresh'
  <2>1. ASSUME NEW f \in Flight, NEW u \in Tab PROVE flight'[f].tab = u <=> refreshing'[u] = f
    <3>1. CASE f \in F BY <1>1, <1>5, <1>6, <3>1 DEF OneRefresh
    <3>2. CASE f \notin F BY <1>1, <1>5, <3>2 DEF OneRefresh
    <3>3. QED BY <3>1, <3>2
  <2>2. ASSUME NEW c \in Call, call'[c].pc = "waiting" PROVE refreshing'[call'[c].tab] # None
    <3>1. c \notin C /\ call'[c] = call[c] BY <1>2, <1>3, <2>2
    <3>2. call[c].tab \in Tab BY <1>1, <2>2, <3>1, CallSlot
    <3>3. call[c].tab # tab BY <1>5, <2>2, <3>1, <3>2 DEF Waiting
    <3>4. QED BY <1>1, <2>2, <3>1, <3>2, <3>3 DEF OneRefresh
  <2>3. QED BY <2>1, <2>2 DEF OneRefresh
<1>9. Shaped'
  <2>1. given' = given BY DEF server
  <2>2. ASSUME NEW c \in Call
        PROVE  /\ call'[c].token \in given \cup {None}
               /\ call'[c].pc = "answered" =>
                    call'[c].kind = "login" \/ (call'[c].kind = "logout" /\ call'[c].token = None)
    BY <1>1, <1>2, <1>3 DEF Shaped
  <2>3. ASSUME NEW f \in Flight
        PROVE  /\ flight'[f].token \in given \cup {None}
               /\ flight'[f].new \in given \cup {None}
               /\ flight'[f].pc \in {"sent", "given"} => flight'[f].tab \in Tab
               /\ flight'[f].pc \in {"taken", "given"} => flight'[f].token # None
    <3>1. CASE f \in F BY <1>1, <1>4, <3>1 DEF Shaped
    <3>2. CASE f \notin F BY <1>1, <3>2 DEF Shaped
    <3>3. QED BY <3>1, <3>2
  <2>4. QED BY <2>1, <2>2, <2>3 DEF Shaped
<1>10. Once'
  <2>1. SUFFICES ASSUME NEW t \in Token
                 PROVE  /\ \A b, d \in Call : CallBrings(b, t)' /\ CallBrings(d, t)' => b = d
                        /\ \A f, g \in Flight : FlightBrings(f, t)' /\ FlightBrings(g, t)' => f = g
                        /\ \A d \in Call, f \in Flight : ~(CallBrings(d, t)' /\ FlightBrings(f, t)')
                        /\ OnItsWay(t)' => New(t)'
    BY DEF Once
  <2>2. \A d \in Call : CallBrings(d, t)' => CallBrings(d, t) /\ d \notin C
    BY <1>2, <1>3 DEF CallBrings
  <2>3. \A f \in Flight : FlightBrings(f, t)' => FlightBrings(f, t) /\ f \notin F
    BY <1>6 DEF FlightBrings
  <2>4. OnItsWay(t)' => /\ New(t)
                        /\ \A c \in C : ~CallBrings(c, t)
                        /\ \A f \in F : ~FlightBrings(f, t)
    BY <1>1, <2>2, <2>3 DEF Once, OnItsWay
  <2>5. OnItsWay(t)' => cookie' # t BY <2>4 DEF New
  <2>6. \A f \in Flight : flight'[f].token \in {flight[f].token, None} BY <1>6
  <2>7. OnItsWay(t)' => New(t)' BY <1>5, <2>4, <2>5, <2>6 DEF New
  <2>8. QED BY <1>1, <2>2, <2>3, <2>7 DEF Once
<1>11. Spent'
  <2>1. SUFFICES ASSUME NEW e \in exchanged'
                 PROVE  phase'[e[1][1]] # "ended" /\ ((\E f \in Flight : Underway(e, f)') \/ Gone(e)')
    BY DEF Spent
  <2>2. e \in exchanged /\ e[1] \in Token /\ e[2] \in Tab /\ e = <<e[1], e[2]>>
    BY <1>1 DEF TypeOK
  <2>3. phase'[e[1][1]] # "ended" BY <1>1, <2>2 DEF Spent, server
  <2>4. CASE \E f \in Flight : Underway(e, f)
    <3>1. PICK f \in Flight : Underway(e, f) BY <2>4
    <3>2. f \notin F
      <4>1. SUFFICES ASSUME f \in F PROVE FALSE OBVIOUS
      <4>2. e[1] = flight[f].token /\ e[2] = tab BY <3>1, <4>1 DEF Underway
      <4>3. e = <<flight[f].token, tab>> BY <2>2, <4>2
      <4>4. QED BY <2>1, <4>1, <4>3
    <3>3. Underway(e, f)' BY <3>1, <3>2 DEF Underway
    <3>4. QED BY <2>3, <3>3
  <2>5. CASE Gone(e)
    <3>1. cookie' # e[1]
      <4>1. OnItsWay(e[1]) => New(e[1]) BY <1>1, <2>2 DEF Once
      <4>2. ~OnItsWay(e[1]) BY <2>2, <4>1 DEF New
      <4>3. QED BY <2>5, <4>2 DEF Gone, OnItsWay
    <3>2. \A f \in Flight : flight'[f].tab = e[2] => flight'[f].token # e[1]
      BY <1>5, <1>6, <2>2, <2>5 DEF Gone
    <3>3. Gone(e)' BY <3>1, <3>2 DEF Gone
    <3>4. QED BY <2>3, <3>3
  <2>6. QED BY <1>1, <2>2, <2>4, <2>5 DEF Spent
<1>12. QED BY <1>7, <1>8, <1>9, <1>10, <1>11 DEF IInv

\* The invariant implies SilentRefresh: the refresh of an exchange that came through
\* has been answered, and its token is in no other.
LEMMA HopelessIsExplained == IInv => SilentRefresh
<1> SUFFICES ASSUME IInv, NEW f \in Flight, Hopeless(flight[f]),
                    <<flight[f].token, flight[f].tab>> \in exchanged
             PROVE  FALSE
  BY DEF SilentRefresh
<1>1. TypeOK /\ OneRefresh /\ Shaped /\ Spent BY DEF IInv
<1>2. DEFINE e == <<flight[f].token, flight[f].tab>>
<1>3. e[1] = flight[f].token /\ e[2] = flight[f].tab /\ e[2] \in Tab BY <1>1 DEF TypeOK
<1>4. phase[e[1][1]] # "ended" /\ ((\E g \in Flight : Underway(e, g)) \/ Gone(e))
  BY <1>1 DEF Spent
<1>5. ~Gone(e) BY <1>3 DEF Gone
<1>6. PICK g \in Flight : Underway(e, g) BY <1>4, <1>5
<1>7. g = f BY <1>1, <1>3, <1>6 DEF Underway, OneRefresh
<1>8. flight[f].pc # "sent" BY <1>6, <1>7 DEF Underway
<1>9. phase[flight[f].token[1]] # "ended" BY <1>3, <1>4
<1>10. QED BY <1>8, <1>9 DEF Hopeless

----------------------------------------------------------------------------
(* The calls' steps.                                                       *)

\* A call that goes out carries its tab's access token and brings nothing yet.
LEMMA SendKeeps == ASSUME IInv, NEW c \in Call, Send(c) PROVE IInv'
<1>1. TypeOK BY DEF IInv
<1>2. PICK tab \in Tab, kind \in Kind :
        /\ call' = [call EXCEPT ![c] = [pc |-> "sent", kind |-> kind, tab |-> tab,
                                        token |-> IF kind = "login" THEN None ELSE access[tab],
                                        retried |-> FALSE]]
        /\ UNCHANGED <<server, cookie, access, expired, refreshing, flight, exchanged>>
  BY DEF Send
<1>3. DEFINE token == IF kind = "login" THEN None ELSE access[tab]
             x == [pc |-> "sent", kind |-> kind, tab |-> tab, token |-> token, retried |-> FALSE]
<1>4. token \in given \cup {None} /\ given \subseteq Token BY <1>1 DEF TypeOK
<1>5. x \in CallState /\ x.token = token /\ x.pc = "sent" BY <1>4 DEF CallState
<1>6. call' = [call EXCEPT ![c] = x] BY <1>2
<1>7. access' \in [Tab -> given \cup {None}] BY <1>1, <1>2 DEF TypeOK
<1> HIDE DEF x, token
<1>8. QED BY <1>2, <1>4, <1>5, <1>6, <1>7, CallLands

\* Succeed, Reject and the replies settle one call.
LEMMA OneSettles ==
  ASSUME IInv, NEW c \in Call, call' = Settled({c}),
         cookie' \in {cookie, None} \cup {call[d].token : d \in {c} \cap Served},
         access' \in [Tab -> given \cup {None}],
         UNCHANGED <<server, expired, refreshing, flight, exchanged>>
  PROVE  IInv'
<1>1. call' = [call EXCEPT ![c] = IdleCall] BY DEF IInv, TypeOK, Settled
<1>2. IdleCall \in CallState /\ IdleCall.token = None /\ IdleCall.pc = "idle"
  BY DEF CallState, IdleCall
<1>3. QED BY <1>1, <1>2, CallLands

\* Logout forgets an access token, and touches no other.
LEMMA AccessAfterType ==
  ASSUME TypeOK, NEW c \in Call PROVE AccessAfter(c) \in [Tab -> given \cup {None}]
BY DEF TypeOK, AccessAfter

\* The four steps in which one call gets its reply and settles, alone.
LEMMA SettlingCalls ==
  ASSUME IInv, NEW c \in Call, Succeed(c) \/ Reject(c) \/ LoggedIn(c) \/ LoggedOut(c)
  PROVE  IInv'
<1>1. TypeOK /\ Shaped BY DEF IInv
<1>2. CASE Succeed(c)
  BY <1>1, <1>2, OneSettles DEF Succeed, TypeOK
<1>3. CASE Reject(c)
  <2>1. AccessAfter(c) \in [Tab -> given \cup {None}] BY <1>1, AccessAfterType
  <2>2. QED BY <1>3, <2>1, OneSettles DEF Reject
<1>4. CASE LoggedIn(c)
  <2>1. call[c].token \in given \cup {None} BY <1>1 DEF Shaped
  <2>2. access' \in [Tab -> given \cup {None}] BY <1>1, <1>4, <2>1 DEF LoggedIn, TypeOK
  <2>3. c \in {c} \cap Served BY <1>4 DEF LoggedIn, Served
  <2>4. cookie' \in {call[d].token : d \in {c} \cap Served} BY <1>4, <2>3 DEF LoggedIn
  <2>5. QED BY <1>4, <2>2, <2>4, OneSettles DEF LoggedIn
<1>5. CASE LoggedOut(c)
  <2>1. AccessAfter(c) \in [Tab -> given \cup {None}] BY <1>1, AccessAfterType
  <2>2. QED BY <1>5, <2>1, OneSettles DEF LoggedOut
<1>6. QED BY <1>2, <1>3, <1>4, <1>5

\* The first 401 of a tab begins its refresh, with a cookie that is no answer's.
LEMMA UnauthorizedKeeps == ASSUME IInv, NEW c \in Call, Unauthorized(c) PROVE IInv'
<1>1. TypeOK /\ OneRefresh /\ Shaped /\ Once /\ Spent BY DEF IInv
<1>2. DEFINE tab == call[c].tab
             x == [call[c] EXCEPT !.pc = "waiting", !.token = None, !.retried = TRUE]
<1>3. call[c] \in CallState /\ call[c].pc = "sent" /\ tab \in Tab
  BY <1>1, CallSlot DEF Unauthorized
<1>4. x \in CallState /\ x.pc = "waiting" /\ x.tab = tab /\ x.token = None
  <2>1. call[c] \in [pc : {"sent", "waiting", "answered"}, kind : Kind, tab : Tab,
                      token : Token \cup {None}, retried : BOOLEAN]
    BY <1>3 DEF CallState, IdleCall
  <2>2. x \in [pc : {"sent", "waiting", "answered"}, kind : Kind, tab : Tab,
               token : Token \cup {None}, retried : BOOLEAN]
    BY <2>1
  <2>3. QED BY <2>1, <2>2 DEF CallState
<1>5. call' = [call EXCEPT ![c] = x]
  BY <1>1 DEF Unauthorized, TypeOK
<1>6. call'[c] = x /\ \A d \in Call \ {c} : call'[d] = call[d] BY <1>1, <1>5 DEF TypeOK
<1>7. call' \in [Call -> CallState] BY <1>1, <1>4, <1>5 DEF TypeOK
<1>8. UNCHANGED <<phase, valid, given, cookie, access, expired, exchanged>>
  BY DEF Unauthorized, server
<1>9. \A t \in Token, d \in Call : CallBrings(d, t)' => CallBrings(d, t)
  BY <1>4, <1>6 DEF CallBrings
<1>10. None \notin Token /\ None \notin Flight /\ None \notin Tab
  BY ClientAssumption DEF Token
<1> HIDE DEF x
<1>11. CASE refreshing[tab] # None /\ UNCHANGED <<refreshing, flight>>
  <2>1. TypeOK' BY <1>1, <1>7, <1>8, <1>11 DEF TypeOK
  <2>2. OneRefresh' BY <1>1, <1>4, <1>6, <1>11 DEF OneRefresh
  <2>3. Shaped' BY <1>1, <1>4, <1>6, <1>8, <1>11 DEF Shaped
  <2>4. Once' BY <1>1, <1>8, <1>9, <1>10, <1>11, SameAnswers DEF FlightBrings
  <2>5. Spent' BY <1>1, <1>8, <1>11 DEF Spent, Underway, Gone
  <2>6. QED BY <2>1, <2>2, <2>3, <2>4, <2>5 DEF IInv
<1>12. CASE /\ refreshing[tab] = None
            /\ \E f \in Flight :
                 /\ flight[f] = NoFlight
                 /\ flight' = [flight EXCEPT ![f] = [pc |-> "sent", tab |-> tab,
                                                     token |-> CookieOf(tab), new |-> None]]
                 /\ refreshing' = [refreshing EXCEPT ![tab] = f]
  <2>1. PICK f \in Flight :
          /\ flight[f] = NoFlight
          /\ flight' = [flight EXCEPT ![f] = [pc |-> "sent", tab |-> tab,
                                              token |-> cookie, new |-> None]]
          /\ refreshing' = [refreshing EXCEPT ![tab] = f]
    BY <1>12 DEF CookieOf
  <2>2. DEFINE fl == [pc |-> "sent", tab |-> tab, token |-> cookie, new |-> None]
  <2>3. fl \in FlightState /\ fl.pc = "sent" /\ fl.tab = tab /\ fl.token = cookie /\ fl.new = None
    BY <1>1, <1>3 DEF FlightState, TypeOK
  <2>4. flight' \in [Flight -> FlightState] /\ flight'[f] = fl
          /\ \A g \in Flight \ {f} : flight'[g] = flight[g]
    BY <1>1, <2>1, <2>3 DEF TypeOK
  <2> HIDE DEF fl
  <2>5. refreshing' \in [Tab -> Flight \cup {None}] /\ refreshing'[tab] = f
          /\ \A u \in Tab \ {tab} : refreshing'[u] = refreshing[u]
    BY <1>1, <1>3, <2>1 DEF TypeOK
  <2>6. flight[f].tab = None /\ flight[f].pc = "free" BY <2>1 DEF NoFlight
  <2>7. TypeOK' BY <1>1, <1>7, <1>8, <2>4, <2>5 DEF TypeOK
  <2>8. OneRefresh'
    <3>1. ASSUME NEW g \in Flight, NEW u \in Tab PROVE flight'[g].tab = u <=> refreshing'[u] = g
      <4>1. CASE g = f BY <1>1, <1>10, <2>3, <2>4, <2>5, <2>6, <4>1 DEF OneRefresh
      <4>2. CASE g # f BY <1>1, <1>10, <1>12, <2>4, <2>5, <4>2 DEF OneRefresh
      <4>3. QED BY <4>1, <4>2
    <3>2. ASSUME NEW d \in Call, call'[d].pc = "waiting" PROVE refreshing'[call'[d].tab] # None
      <4>1. CASE d = c BY <1>4, <1>6, <1>10, <2>5, <4>1
      <4>2. CASE d # c
        <5>1. call'[d] = call[d] /\ call[d].tab \in Tab BY <1>1, <1>6, <3>2, <4>2, CallSlot
        <5>2. QED BY <1>1, <1>10, <2>5, <3>2, <5>1 DEF OneRefresh
      <4>3. QED BY <4>1, <4>2
    <3>3. QED BY <3>1, <3>2 DEF OneRefresh
  <2>9. Shaped'
    <3>1. ASSUME NEW g \in Flight
          PROVE  /\ flight'[g].token \in given \cup {None}
                 /\ flight'[g].new \in given \cup {None}
                 /\ flight'[g].pc \in {"sent", "given"} => flight'[g].tab \in Tab
                 /\ flight'[g].pc \in {"taken", "given"} => flight'[g].token # None
      BY <1>1, <1>3, <2>3, <2>4 DEF Shaped, TypeOK
    <3>2. ASSUME NEW d \in Call
          PROVE  /\ call'[d].token \in given \cup {None}
                 /\ call'[d].pc = "answered" =>
                      call'[d].kind = "login" \/ (call'[d].kind = "logout" /\ call'[d].token = None)
      BY <1>1, <1>4, <1>6 DEF Shaped
    <3>3. QED BY <1>8, <3>1, <3>2 DEF Shaped
  <2>10. \A g \in Flight : flight'[g].token \in {flight[g].token, cookie} BY <2>3, <2>4
  <2>11. \A g \in Flight, t \in Token : FlightBrings(g, t)' => FlightBrings(g, t)
    BY <2>3, <2>4 DEF FlightBrings
  <2>12. Once' BY <1>1, <1>8, <1>9, <1>10, <2>10, <2>11, SameAnswers
  <2>13. ASSUME NEW e \in exchanged
         PROVE  phase[e[1][1]] # "ended" /\ ((\E g \in Flight : Underway(e, g)') \/ Gone(e)')
    <3>1. phase[e[1][1]] # "ended" BY <1>1 DEF Spent
    <3>2. ASSUME NEW g \in Flight, Underway(e, g) PROVE Underway(e, g)'
      <4>1. g # f BY <2>6, <3>2 DEF Underway
      <4>2. QED BY <2>4, <3>2, <4>1 DEF Underway
    <3>3. ASSUME Gone(e) PROVE Gone(e)'
      BY <1>8, <2>3, <2>4, <3>3 DEF Gone
    <3>4. QED BY <1>1, <3>1, <3>2, <3>3 DEF Spent
  <2>14. Spent' BY <1>8, <2>13 DEF Spent
  <2>15. QED BY <2>7, <2>8, <2>9, <2>12, <2>14 DEF IInv
<1>13. QED BY <1>11, <1>12 DEF Unauthorized, UnderWay

----------------------------------------------------------------------------
(* The server's steps, in the requests.                                    *)

\* A login ends, or an answer without a token is on its way: nothing new reaches
\* the browser.
LEMMA NothingGiven ==
  ASSUME IInv, given' = given, UNCHANGED <<cookie, access, expired, refreshing>>,
         phase' \in [Login -> Server!Phase], valid' \in [Login -> SUBSET Token],
         call' \in [Call -> CallState], flight' \in [Flight -> FlightState],
         exchanged' \subseteq exchanged,
         \A e \in exchanged' : phase'[e[1][1]] # "ended",
         \A c \in Call : \/ call'[c] = call[c]
                         \/ /\ call'[c].pc = "answered" /\ call'[c].kind = "logout"
                            /\ call'[c].token = None,
         \A f \in Flight : \/ flight'[f] = flight[f]
                           \/ flight[f].tab = None /\ flight'[f] = NoFlight
  PROVE  IInv'
<1>1. TypeOK /\ OneRefresh /\ Shaped /\ Once /\ Spent BY DEF IInv
<1>2. None \notin Token BY ClientAssumption DEF Token
<1>3. \A f \in Flight : flight'[f].tab = flight[f].tab BY DEF NoFlight
<1>4. TypeOK' BY <1>1 DEF TypeOK
<1>5. OneRefresh' BY <1>1, <1>3, SameRefreshes
<1>6. Shaped' BY <1>1 DEF Shaped, NoFlight
<1>7. Once'
  <2>1. \A f \in Flight : flight'[f].token \in {flight[f].token, cookie, None} BY DEF NoFlight
  <2>2. \A c \in Call, t \in Token : CallBrings(c, t)' => CallBrings(c, t)
    BY <1>2 DEF CallBrings
  <2>3. \A f \in Flight, t \in Token : FlightBrings(f, t)' => FlightBrings(f, t)
    BY DEF FlightBrings, NoFlight
  <2>4. QED BY <1>1, <1>2, <2>1, <2>2, <2>3, SameAnswers
<1>8. Spent' BY <1>1, <1>3, SameExchanges
<1>9. QED BY <1>4, <1>5, <1>6, <1>7, <1>8 DEF IInv

\* Exchanges of other logins survive the end of one.
LEMMA EndsSparesOthers ==
  ASSUME IInv, NEW l \in Login, Ends(l)
  PROVE  \A e \in exchanged' : phase'[e[1][1]] # "ended"
<1>1. TypeOK /\ Spent BY DEF IInv
<1>2. \A e \in exchanged' : e \in exchanged /\ e[1] \in Token /\ e[1][1] # l
  BY <1>1, EndsOne DEF TypeOK
<1>3. \A t \in Token : t[1] \in Login BY DEF Token
<1>4. QED BY <1>1, <1>2, <1>3, EndsOne DEF Spent

\* A logout served ends a session or none, and its reply brings no token.
LEMMA ServeLogoutKeeps == ASSUME IInv, NEW c \in Call, ServeLogout(c) PROVE IInv'
<1>1. TypeOK /\ Shaped /\ Spent BY DEF IInv
<1>2. DEFINE t == call[c].token
             x == [call[c] EXCEPT !.pc = "answered", !.token = None]
<1>3. call[c] \in [pc : {"sent", "waiting", "answered"}, kind : Kind, tab : Tab,
                    token : Token \cup {None}, retried : BOOLEAN]
        /\ call[c].kind = "logout"
  BY <1>1 DEF ServeLogout, TypeOK, CallState, IdleCall
<1>4. x \in [pc : {"sent", "waiting", "answered"}, kind : Kind, tab : Tab,
             token : Token \cup {None}, retried : BOOLEAN]
  BY <1>3
<1>5. x \in CallState /\ x.pc = "answered" /\ x.kind = "logout" /\ x.token = None
  BY <1>3, <1>4 DEF CallState
<1>6. call' = [call EXCEPT ![c] = x] BY <1>1 DEF ServeLogout, TypeOK
<1> HIDE DEF x
<1>7. call' \in [Call -> CallState]
        /\ \A d \in Call : \/ call'[d] = call[d]
                           \/ /\ call'[d].pc = "answered" /\ call'[d].kind = "logout"
                              /\ call'[d].token = None
  BY <1>1, <1>5, <1>6 DEF TypeOK
<1>8. t \in Token /\ t[1] \in Login
  BY <1>3 DEF ServeLogout, Accepts, Token
<1>9. CASE Ends(t[1])
  BY <1>1, <1>7, <1>8, <1>9, EndsOne, EndsSparesOthers, NothingGiven DEF ServeLogout, TypeOK
<1>10. CASE UNCHANGED <<server, exchanged>>
  <2>1. \A e \in exchanged' : phase'[e[1][1]] # "ended" BY <1>1, <1>10 DEF Spent, server
  <2>2. QED BY <1>1, <1>7, <1>10, <2>1, NothingGiven DEF ServeLogout, TypeOK, server
<1>11. QED BY <1>9, <1>10 DEF ServeLogout

\* A login that runs out changes the server's state alone.
LEMMA LapseKeeps == ASSUME IInv, Lapse PROVE IInv'
<1>1. TypeOK BY DEF IInv
<1>2. PICK l \in Login : Ends(l) BY DEF Lapse
<1>3. UNCHANGED <<cookie, access, refreshing, flight, call, expired>> BY DEF Lapse, client
<1>4. QED BY <1>1, <1>2, <1>3, EndsOne, EndsSparesOthers, NothingGiven DEF TypeOK

\* A refresh whose answer nobody waits for is forgotten.
LEMMA AnsweredSlot ==
  ASSUME NEW fl \in FlightState
  PROVE  /\ Answered(fl) \in FlightState
         /\ Answered(fl) = fl \/ (fl.tab = None /\ Answered(fl) = NoFlight)
BY DEF Answered, FlightState

\* A session that ends in the middle of its refresh frees the flight whose tab has
\* left, and brings no token.
LEMMA ServerEndKeeps == ASSUME IInv, NEW f \in Flight, ServerEnd(f) PROVE IInv'
<1>1. TypeOK /\ Shaped BY DEF IInv
<1>2. flight[f] \in FlightState BY <1>1 DEF TypeOK
<1>3. flight' = [flight EXCEPT ![f] = Answered(flight[f])] BY DEF ServerEnd
<1>4. flight' \in [Flight -> FlightState]
        /\ \A g \in Flight : \/ flight'[g] = flight[g]
                             \/ flight[g].tab = None /\ flight'[g] = NoFlight
  BY <1>1, <1>2, <1>3, AnsweredSlot DEF TypeOK
<1>5. flight[f].token \in Token BY <1>1 DEF ServerEnd, Shaped, TypeOK
<1>6. flight[f].token[1] \in Login BY <1>5 DEF Token
<1>7. QED
  BY <1>1, <1>4, <1>6, EndsOne, EndsSparesOthers, NothingGiven DEF ServerEnd, TypeOK

\* A token that was never given out is nowhere in the browser.
LEMMA FreshIsNew ==
  ASSUME TypeOK, Shaped, NEW t \in Token, t \notin given
  PROVE  New(t) /\ ~OnItsWay(t)
<1>1. t # None BY ClientAssumption DEF Token
<1>2. \A e \in exchanged : e[1] \in given BY DEF TypeOK
<1>3. QED BY <1>1, <1>2 DEF TypeOK, Shaped, New, OnItsWay, CallBrings, FlightBrings

\* A login answers with the tokens of a login not spent before.
LEMMA ServeLoginKeeps == ASSUME IInv, NEW c \in Call, ServeLogin(c) PROVE IInv'
<1>1. TypeOK /\ OneRefresh /\ Shaped /\ Once /\ Spent BY DEF IInv
<1>2. PICK l \in Login, t \in Token :
        /\ call[c].pc = "sent" /\ call[c].kind = "login" /\ Gives(l, t)
        /\ call' = [call EXCEPT ![c].pc = "answered", ![c].token = t]
        /\ UNCHANGED <<cookie, access, expired, refreshing, flight, exchanged>>
  BY DEF ServeLogin
<1>3. DEFINE x == [call[c] EXCEPT !.pc = "answered", !.token = t]
<1>4. call[c] \in [pc : {"sent", "waiting", "answered"}, kind : Kind, tab : Tab,
                    token : Token \cup {None}, retried : BOOLEAN]
  BY <1>1, <1>2 DEF TypeOK, CallState, IdleCall
<1>5. x \in [pc : {"sent", "waiting", "answered"}, kind : Kind, tab : Tab,
             token : Token \cup {None}, retried : BOOLEAN]
  BY <1>4
<1>6. x \in CallState /\ x.pc = "answered" /\ x.kind = "login" /\ x.token = t
  BY <1>2, <1>4, <1>5 DEF CallState
<1>7. call' = [call EXCEPT ![c] = x] BY <1>1, <1>2 DEF TypeOK
<1> HIDE DEF x
<1>8. call' \in [Call -> CallState] /\ call'[c] = x /\ \A d \in Call \ {c} : call'[d] = call[d]
  BY <1>1, <1>6, <1>7 DEF TypeOK
<1>9. /\ t \notin given /\ given' = given \cup {t}
      /\ phase' \in [Login -> Server!Phase] /\ valid' \in [Login -> SUBSET Token]
      /\ given' \in SUBSET Token
      /\ \A m \in Login : phase'[m] = "ended" => phase[m] = "ended"
  BY <1>1, <1>2, GivesFresh
<1>10. New(t) /\ ~OnItsWay(t) BY <1>1, <1>9, FreshIsNew
<1>11. TypeOK' BY <1>1, <1>2, <1>8, <1>9 DEF TypeOK
<1>12. OneRefresh' BY <1>1, <1>2, <1>6, <1>8 DEF OneRefresh
<1>13. Shaped' BY <1>1, <1>2, <1>6, <1>8, <1>9 DEF Shaped
<1>14. Once'
  <2>1. SUFFICES ASSUME NEW u \in Token
                 PROVE  /\ \A b, d \in Call : CallBrings(b, u)' /\ CallBrings(d, u)' => b = d
                        /\ \A f, g \in Flight : FlightBrings(f, u)' /\ FlightBrings(g, u)' => f = g
                        /\ \A d \in Call, f \in Flight : ~(CallBrings(d, u)' /\ FlightBrings(f, u)')
                        /\ OnItsWay(u)' => New(u)'
    BY DEF Once
  <2>2. New(u) => New(u)' BY <1>2 DEF New
  <2>3. \A f \in Flight : FlightBrings(f, u)' = FlightBrings(f, u) BY <1>2 DEF FlightBrings
  <2>4. CASE u = t
    <3>1. \A d \in Call : CallBrings(d, u)' => d = c
      BY <1>8, <1>10, <2>4 DEF CallBrings, OnItsWay
    <3>2. \A f \in Flight : ~FlightBrings(f, u)' BY <1>10, <2>3, <2>4 DEF OnItsWay
    <3>3. QED BY <1>10, <2>2, <2>4, <3>1, <3>2
  <2>5. CASE u # t
    <3>1. \A d \in Call : CallBrings(d, u)' => CallBrings(d, u)
      BY <1>6, <1>8, <2>5 DEF CallBrings
    <3>2. OnItsWay(u)' => OnItsWay(u) BY <2>3, <3>1 DEF OnItsWay
    <3>3. QED BY <1>1, <2>2, <2>3, <3>1, <3>2 DEF Once
  <2>6. QED BY <2>4, <2>5
<1>15. Spent'
  <2>1. \A e \in exchanged : phase'[e[1][1]] # "ended"
    BY <1>1, <1>9 DEF Spent, TypeOK, Token
  <2>2. QED BY <1>1, <1>2, <2>1, SameExchanges
<1>16. QED BY <1>11, <1>12, <1>13, <1>14, <1>15 DEF IInv

----------------------------------------------------------------------------
(* The refreshes' steps.                                                   *)

\* A refresh that is under way is one of FlightState's records.
LEMMA BusyFlight ==
  ASSUME TypeOK, NEW f \in Flight, flight[f].pc # "free"
  PROVE  flight[f] \in [pc : {"sent", "taken", "given"}, tab : Tab \cup {None},
                        token : Token \cup {None}, new : Token \cup {None}]
BY DEF TypeOK, FlightState, NoFlight

\* An exchange begins: its token has been in the cookie, so it is in no answer.
LEMMA ServerTakeKeeps == ASSUME IInv, NEW f \in Flight, ServerTake(f) PROVE IInv'
<1>1. TypeOK /\ OneRefresh /\ Shaped /\ Once /\ Spent BY DEF IInv
<1>2. DEFINE fl == flight[f]
             x == [fl EXCEPT !.pc = "taken"]
<1>3. fl.pc = "sent" /\ fl.token # None BY DEF ServerTake, Current
<1>4. fl \in [pc : {"sent", "taken", "given"}, tab : Tab \cup {None},
              token : Token \cup {None}, new : Token \cup {None}]
  BY <1>1, <1>3, BusyFlight
<1>5. x \in FlightState /\ x.pc = "taken" /\ x.tab = fl.tab /\ x.token = fl.token /\ x.new = fl.new
  BY <1>4 DEF FlightState
<1>6. flight' = [flight EXCEPT ![f] = x] BY <1>1 DEF ServerTake, TypeOK
<1> HIDE DEF x
<1>7. flight' \in [Flight -> FlightState] /\ flight'[f] = x
        /\ \A g \in Flight \ {f} : flight'[g] = flight[g]
  BY <1>1, <1>5, <1>6 DEF TypeOK
<1>8. fl.token \in given /\ fl.token \in Token /\ fl.token[1] \in Login /\ fl.tab \in Tab
  BY <1>1, <1>3 DEF Shaped, TypeOK, Token
<1>9. /\ given' = given
      /\ phase' \in [Login -> Server!Phase] /\ valid' \in [Login -> SUBSET Token]
      /\ phase'[fl.token[1]] # "ended"
      /\ \A m \in Login : phase'[m] = "ended" => phase[m] = "ended"
  BY <1>1, <1>8, TakesOne DEF ServerTake
<1>10. exchanged' = exchanged \cup {<<fl.token, fl.tab>>}
         /\ UNCHANGED <<cookie, access, expired, refreshing, call>>
  BY DEF ServerTake
<1>11. TypeOK' BY <1>1, <1>7, <1>8, <1>9, <1>10 DEF TypeOK
<1>12. OneRefresh'
  <2>1. \A g \in Flight : flight'[g].tab = flight[g].tab BY <1>5, <1>7
  <2>2. QED BY <1>1, <1>10, <2>1, SameRefreshes
<1>13. Shaped'
  <2>1. ASSUME NEW g \in Flight
        PROVE  /\ flight'[g].token \in given \cup {None}
               /\ flight'[g].new \in given \cup {None}
               /\ flight'[g].pc \in {"sent", "given"} => flight'[g].tab \in Tab
               /\ flight'[g].pc \in {"taken", "given"} => flight'[g].token # None
    BY <1>1, <1>3, <1>5, <1>7 DEF Shaped
  <2>2. QED BY <1>1, <1>9, <1>10, <2>1 DEF Shaped
<1>14. Once'
  <2>1. ASSUME NEW t \in Token, NEW g \in Flight PROVE FlightBrings(g, t)' => FlightBrings(g, t)
    BY <1>5, <1>7 DEF FlightBrings
  <2>2. ASSUME NEW t \in Token, NEW d \in Call PROVE CallBrings(d, t)' = CallBrings(d, t)
    BY <1>10 DEF CallBrings
  <2>3. ASSUME NEW t \in Token, OnItsWay(t)' PROVE New(t)'
    <3>1. New(t) BY <1>1, <2>1, <2>2, <2>3 DEF Once, OnItsWay
    <3>2. fl.token # t BY <3>1 DEF New
    <3>3. \A g \in Flight : flight'[g].token = flight[g].token BY <1>5, <1>7
    <3>4. QED BY <1>10, <3>1, <3>2, <3>3 DEF New
  <2>4. QED BY <1>1, <2>1, <2>2, <2>3 DEF Once
<1>15. Spent'
  <2>1. SUFFICES ASSUME NEW e \in exchanged'
                 PROVE  phase'[e[1][1]] # "ended" /\ ((\E g \in Flight : Underway(e, g)') \/ Gone(e)')
    BY DEF Spent
  <2>2. CASE e = <<fl.token, fl.tab>>
    <3>1. e[1] = fl.token /\ e[2] = fl.tab BY <2>2
    <3>2. Underway(e, f)' BY <1>5, <1>7, <3>1 DEF Underway
    <3>3. QED BY <1>9, <3>1, <3>2
  <2>3. CASE e \in exchanged
    <3>1. e[1][1] \in Login BY <1>1, <2>3 DEF TypeOK, Token
    <3>2. phase'[e[1][1]] # "ended" BY <1>1, <1>9, <2>3, <3>1 DEF Spent
    <3>3. \A g \in Flight : Underway(e, g) => Underway(e, g)' BY <1>5, <1>7 DEF Underway
    <3>4. Gone(e) => Gone(e)' BY <1>5, <1>7, <1>10 DEF Gone
    <3>5. QED BY <1>1, <2>3, <3>2, <3>3, <3>4 DEF Spent
  <2>4. QED BY <1>10, <2>2, <2>3
<1>16. QED BY <1>11, <1>12, <1>13, <1>14, <1>15 DEF IInv

\* The successor is given out, to a tab that waits or to nobody.
LEMMA ServerGiveKeeps == ASSUME IInv, NEW f \in Flight, ServerGive(f) PROVE IInv'
<1>1. TypeOK /\ OneRefresh /\ Shaped /\ Once /\ Spent BY DEF IInv
<1>2. PICK t \in Token :
        /\ flight[f].pc = "taken"
        /\ Gives(flight[f].token[1], t)
        /\ flight' = [flight EXCEPT ![f] = Answered([flight[f] EXCEPT !.pc = "given", !.new = t])]
        /\ UNCHANGED <<cookie, access, expired, refreshing, call, exchanged>>
  BY DEF ServerGive
<1>3. DEFINE fl == flight[f]
             y == [fl EXCEPT !.pc = "given", !.new = t]
             x == Answered(y)
<1>4. fl \in [pc : {"sent", "taken", "given"}, tab : Tab \cup {None},
              token : Token \cup {None}, new : Token \cup {None}]
  BY <1>1, <1>2, BusyFlight
<1>5. y \in FlightState /\ y.pc = "given" /\ y.tab = fl.tab /\ y.token = fl.token /\ y.new = t
  BY <1>4 DEF FlightState
<1>6. /\ x \in FlightState /\ x.tab = fl.tab
      /\ fl.tab # None => x = y
      /\ fl.tab = None => x = NoFlight
  BY <1>5, AnsweredSlot DEF Answered, NoFlight
<1>7. flight' = [flight EXCEPT ![f] = x] BY <1>2
<1>8. fl.token \in Token /\ fl.token # None /\ fl.token[1] \in Login
  BY <1>1, <1>2 DEF Shaped, TypeOK, Token
<1> HIDE DEF x, y
<1>9. flight' \in [Flight -> FlightState] /\ flight'[f] = x
        /\ \A g \in Flight \ {f} : flight'[g] = flight[g]
  BY <1>1, <1>6, <1>7 DEF TypeOK
<1>10. /\ t \notin given /\ given' = given \cup {t}
       /\ phase' \in [Login -> Server!Phase] /\ valid' \in [Login -> SUBSET Token]
       /\ given' \in SUBSET Token
       /\ \A m \in Login : phase'[m] = "ended" => phase[m] = "ended"
  BY <1>1, <1>2, <1>8, GivesFresh
<1>11. New(t) /\ ~OnItsWay(t) BY <1>1, <1>10, FreshIsNew
<1>12. NoFlight.pc = "free" /\ NoFlight.token = None /\ NoFlight.new = None BY DEF NoFlight
<1>13. None \notin Token BY ClientAssumption DEF Token
<1>14. TypeOK' BY <1>1, <1>2, <1>9, <1>10 DEF TypeOK
<1>15. \A g \in Flight : flight'[g].tab = flight[g].tab BY <1>6, <1>9
<1>16. OneRefresh' BY <1>1, <1>2, <1>15, SameRefreshes
<1>17. Shaped'
  <2>1. ASSUME NEW g \in Flight
        PROVE  /\ flight'[g].token \in given' \cup {None}
               /\ flight'[g].new \in given' \cup {None}
               /\ flight'[g].pc \in {"sent", "given"} => flight'[g].tab \in Tab
               /\ flight'[g].pc \in {"taken", "given"} => flight'[g].token # None
    <3>1. CASE g # f BY <1>1, <1>9, <1>10, <3>1 DEF Shaped
    <3>2. CASE g = f /\ fl.tab = None BY <1>6, <1>9, <1>12, <3>2
    <3>3. CASE g = f /\ fl.tab # None
      BY <1>1, <1>4, <1>5, <1>6, <1>8, <1>9, <1>10, <3>3 DEF Shaped
    <3>4. QED BY <3>1, <3>2, <3>3
  <2>2. QED BY <1>1, <1>2, <1>10, <2>1 DEF Shaped
<1>18. Once'
  <2>1. SUFFICES ASSUME NEW u \in Token
                 PROVE  /\ \A b, d \in Call : CallBrings(b, u)' /\ CallBrings(d, u)' => b = d
                        /\ \A h, g \in Flight : FlightBrings(h, u)' /\ FlightBrings(g, u)' => h = g
                        /\ \A d \in Call, g \in Flight : ~(CallBrings(d, u)' /\ FlightBrings(g, u)')
                        /\ OnItsWay(u)' => New(u)'
    BY DEF Once
  <2>2. \A g \in Flight : flight'[g].token \in {flight[g].token, None}
    BY <1>5, <1>6, <1>9, <1>12
  <2>3. New(u) => New(u)' BY <1>2, <1>13, <2>2 DEF New
  <2>4. \A d \in Call : CallBrings(d, u)' = CallBrings(d, u) BY <1>2 DEF CallBrings
  <2>5. CASE u = t
    <3>1. \A g \in Flight : FlightBrings(g, u)' => g = f
      BY <1>9, <1>11, <2>5 DEF FlightBrings, OnItsWay
    <3>2. \A d \in Call : ~CallBrings(d, u)' BY <1>11, <2>4, <2>5 DEF OnItsWay
    <3>3. QED BY <1>11, <2>3, <2>5, <3>1, <3>2
  <2>6. CASE u # t
    <3>1. \A g \in Flight : FlightBrings(g, u)' => FlightBrings(g, u)
      BY <1>5, <1>6, <1>9, <1>12, <2>6 DEF FlightBrings
    <3>2. OnItsWay(u)' => OnItsWay(u) BY <2>4, <3>1 DEF OnItsWay
    <3>3. QED BY <1>1, <2>3, <2>4, <3>1, <3>2 DEF Once
  <2>7. QED BY <2>5, <2>6
<1>19. Spent'
  <2>1. \A e \in exchanged : phase'[e[1][1]] # "ended"
    BY <1>1, <1>10 DEF Spent, TypeOK, Token
  <2>2. \A g \in Flight : flight[g].tab # None =>
          /\ flight'[g].token = flight[g].token
          /\ flight[g].pc \in {"taken", "given"} => flight'[g].pc \in {"taken", "given"}
    BY <1>5, <1>6, <1>9
  <2>3. QED BY <1>1, <1>2, <1>15, <2>1, <2>2, SameExchanges
<1>20. QED BY <1>14, <1>16, <1>17, <1>18, <1>19 DEF IInv

\* The answer arrives: its token is the cookie, and in no answer any more.
LEMMA RenewedKeeps == ASSUME IInv, NEW f \in Flight, Renewed(f) PROVE IInv'
<1>1. TypeOK /\ OneRefresh /\ Shaped /\ Once /\ Spent BY DEF IInv
<1>2. DEFINE tab == flight[f].tab
             t == flight[f].new
<1>3. /\ flight[f].pc = "given" /\ tab # None
      /\ cookie' = t
      /\ access' = [access EXCEPT ![tab] = t]
      /\ call' = [c \in Call |-> IF c \in Waiting(tab)
                                   THEN [call[c] EXCEPT !.pc = "sent", !.token = t] ELSE call[c]]
      /\ refreshing' = [refreshing EXCEPT ![tab] = None]
      /\ flight' = [flight EXCEPT ![f] = NoFlight]
      /\ UNCHANGED <<server, expired, exchanged>>
  BY DEF Renewed, Resumed
<1>4. tab \in Tab /\ t \in given \cup {None} BY <1>1, <1>3 DEF Shaped
<1>5. None \notin Tab /\ None \notin Flight /\ None \notin Token BY ClientAssumption DEF Token
<1>6. flight' \in [Flight -> FlightState] /\ flight'[f] = NoFlight
        /\ \A g \in Flight \ {f} : flight'[g] = flight[g]
  BY <1>1, <1>3 DEF TypeOK, FlightState
<1>7. NoFlight.pc = "free" /\ NoFlight.tab = None /\ NoFlight.token = None /\ NoFlight.new = None
  BY DEF NoFlight
<1>8. refreshing' \in [Tab -> Flight \cup {None}] /\ refreshing'[tab] = None
        /\ \A u \in Tab \ {tab} : refreshing'[u] = refreshing[u]
  BY <1>1, <1>3, <1>4 DEF TypeOK
<1>9. ASSUME NEW c \in Call
      PROVE  /\ call'[c] \in CallState
             /\ c \in Waiting(tab) => call'[c].pc = "sent" /\ call'[c].token = t
             /\ c \notin Waiting(tab) => call'[c] = call[c]
  <2>1. CASE c \in Waiting(tab)
    <3>1. call[c] \in [pc : {"sent", "waiting", "answered"}, kind : Kind, tab : Tab,
                       token : Token \cup {None}, retried : BOOLEAN]
      BY <1>1, <2>1 DEF Waiting, TypeOK, CallState, IdleCall
    <3>2. t \in Token \cup {None} BY <1>1, <1>4 DEF TypeOK
    <3>3. [call[c] EXCEPT !.pc = "sent", !.token = t] \in
            [pc : {"sent", "waiting", "answered"}, kind : Kind, tab : Tab,
             token : Token \cup {None}, retried : BOOLEAN]
      BY <3>1, <3>2
    <3>4. call'[c] = [call[c] EXCEPT !.pc = "sent", !.token = t] BY <1>3, <2>1
    <3>5. QED BY <2>1, <3>1, <3>3, <3>4 DEF CallState
  <2>2. CASE c \notin Waiting(tab) BY <1>1, <1>3, <2>2 DEF TypeOK
  <2>3. QED BY <2>1, <2>2
<1>10. call' \in [Call -> CallState] BY <1>3, <1>9
<1> HIDE DEF tab, t
<1>11. TypeOK' BY <1>1, <1>3, <1>4, <1>6, <1>8, <1>10 DEF TypeOK, server
<1>12. OneRefresh'
  <2>1. refreshing[tab] = f BY <1>1, <1>4 DEF OneRefresh, tab
  <2>2. ASSUME NEW g \in Flight, NEW u \in Tab PROVE flight'[g].tab = u <=> refreshing'[u] = g
    <3>1. CASE g = f BY <1>1, <1>4, <1>5, <1>6, <1>7, <1>8, <2>1, <3>1 DEF OneRefresh
    <3>2. CASE g # f BY <1>1, <1>4, <1>5, <1>6, <1>8, <2>1, <3>2 DEF OneRefresh
    <3>3. QED BY <3>1, <3>2
  <2>3. ASSUME NEW c \in Call, call'[c].pc = "waiting" PROVE refreshing'[call'[c].tab] # None
    <3>1. c \notin Waiting(tab) /\ call'[c] = call[c] BY <1>9, <2>3
    <3>2. call[c].tab \in Tab /\ call[c].tab # tab
      BY <1>1, <2>3, <3>1, CallSlot DEF Waiting
    <3>3. QED BY <1>1, <1>8, <2>3, <3>1, <3>2 DEF OneRefresh
  <2>4. QED BY <2>2, <2>3 DEF OneRefresh
<1>13. Shaped'
  <2>1. given' = given BY <1>3 DEF server
  <2>2. ASSUME NEW g \in Flight
        PROVE  /\ flight'[g].token \in given \cup {None}
               /\ flight'[g].new \in given \cup {None}
               /\ flight'[g].pc \in {"sent", "given"} => flight'[g].tab \in Tab
               /\ flight'[g].pc \in {"taken", "given"} => flight'[g].token # None
    BY <1>1, <1>6, <1>7 DEF Shaped
  <2>3. ASSUME NEW c \in Call
        PROVE  /\ call'[c].token \in given \cup {None}
               /\ call'[c].pc = "answered" =>
                    call'[c].kind = "login" \/ (call'[c].kind = "logout" /\ call'[c].token = None)
    BY <1>1, <1>4, <1>9 DEF Shaped
  <2>4. QED BY <2>1, <2>2, <2>3 DEF Shaped
<1>14. FlightBrings(f, t) BY <1>3 DEF FlightBrings, t
<1>15. Once'
  <2>1. SUFFICES ASSUME NEW u \in Token
                 PROVE  /\ \A b, d \in Call : CallBrings(b, u)' /\ CallBrings(d, u)' => b = d
                        /\ \A h, g \in Flight : FlightBrings(h, u)' /\ FlightBrings(g, u)' => h = g
                        /\ \A d \in Call, g \in Flight : ~(CallBrings(d, u)' /\ FlightBrings(g, u)')
                        /\ OnItsWay(u)' => New(u)'
    BY DEF Once
  <2>2. \A d \in Call : CallBrings(d, u)' => CallBrings(d, u) BY <1>9 DEF CallBrings
  <2>3. \A g \in Flight : FlightBrings(g, u)' => FlightBrings(g, u) /\ g # f
    BY <1>6, <1>7 DEF FlightBrings
  <2>4. OnItsWay(u)' => New(u) /\ u # t
    BY <1>1, <1>14, <2>2, <2>3 DEF Once, OnItsWay
  <2>5. \A g \in Flight : flight'[g].token \in {flight[g].token, None} BY <1>6, <1>7
  <2>6. OnItsWay(u)' => New(u)' BY <1>3, <1>5, <2>4, <2>5 DEF New
  <2>7. QED BY <1>1, <2>2, <2>3, <2>6 DEF Once
<1>16. Spent'
  <2>1. SUFFICES ASSUME NEW e \in exchanged
                 PROVE  phase[e[1][1]] # "ended" /\ ((\E g \in Flight : Underway(e, g)') \/ Gone(e)')
    BY <1>3 DEF Spent, server
  <2>2. e[1] \in Token /\ e[2] \in Tab BY <1>1 DEF TypeOK
  <2>3. cookie' # e[1]
    <3>1. SUFFICES ASSUME t = e[1] PROVE FALSE BY <1>3
    <3>2. OnItsWay(e[1]) BY <1>14, <3>1 DEF OnItsWay
    <3>3. New(e[1]) BY <1>1, <2>2, <3>2 DEF Once
    <3>4. QED BY <3>3 DEF New
  <2>4. phase[e[1][1]] # "ended" BY <1>1 DEF Spent
  <2>5. CASE e[2] = tab
    <3>1. \A g \in Flight \ {f} : flight[g].tab # tab BY <1>1, <1>4 DEF OneRefresh, tab
    <3>2. Gone(e)' BY <1>5, <1>6, <1>7, <2>2, <2>3, <2>5, <3>1 DEF Gone
    <3>3. QED BY <2>4, <3>2
  <2>6. CASE e[2] # tab
    <3>1. ASSUME NEW g \in Flight, Underway(e, g) PROVE Underway(e, g)'
      <4>1. g # f BY <2>6, <3>1 DEF Underway, tab
      <4>2. QED BY <1>6, <3>1, <4>1 DEF Underway
    <3>2. Gone(e) => Gone(e)' BY <1>5, <1>6, <1>7, <2>2, <2>3 DEF Gone
    <3>3. QED BY <1>1, <2>4, <3>1, <3>2 DEF Spent
  <2>7. QED BY <2>5, <2>6
<1>17. QED BY <1>11, <1>12, <1>13, <1>15, <1>16 DEF IInv

\* A refresh that fails settles the calls that wait for it.
LEMMA RefusedKeeps == ASSUME IInv, NEW f \in Flight, Refused(f) PROVE IInv'
<1>1. TypeOK BY DEF IInv
<1>2. DEFINE tab == flight[f].tab
             F == {f}
             C == Waiting(tab)
<1>3. None \notin Tab /\ None \notin Flight BY ClientAssumption
<1>4. tab \in Tab \cup {None} BY <1>1, FlightSlot
<1>5. /\ Hopeless(flight[f])
      /\ access' = [access EXCEPT ![tab] = None]
      /\ call' = Settled(C)
      /\ refreshing' = [refreshing EXCEPT ![tab] = None]
      /\ flight' = [flight EXCEPT ![f] = NoFlight]
      /\ UNCHANGED <<server, cookie, expired, exchanged>>
  BY DEF Refused, GaveUp, Resumed
<1>6. flight' \in [Flight -> FlightState] /\ flight'[f] = NoFlight
        /\ \A g \in Flight \ F : flight'[g] = flight[g]
  BY <1>1, <1>5 DEF TypeOK, FlightState
<1>7. tab # None => \A g \in Flight \ F : flight[g].tab # tab
  BY <1>4 DEF IInv, OneRefresh
<1>8. refreshing' \in [Tab -> Flight \cup {None}]
        /\ \A u \in Tab : refreshing'[u] = IF u = tab THEN None ELSE refreshing[u]
  BY <1>1, <1>5 DEF TypeOK
<1>9. access' \in [Tab -> given \cup {None}] BY <1>1, <1>5 DEF TypeOK
<1>10. <<flight[f].token, tab>> \notin exchanged
  BY <1>5, HopelessIsExplained DEF SilentRefresh
<1>11. exchanged' = exchanged \ {<<flight[g].token, tab>> : g \in F} BY <1>5, <1>10
<1>12. C \in SUBSET Call BY DEF Waiting
<1>13. \A g \in F : flight[g].tab = tab /\ flight'[g] = NoFlight BY <1>6
<1> HIDE DEF tab, F, C
<1>14. F \in SUBSET Flight /\ Waiting(tab) \subseteq C BY DEF F, C
<1>15. QED
  BY <1>4, <1>5, <1>6, <1>7, <1>8, <1>9, <1>11, <1>12, <1>13, <1>14, TabCut

\* The tab hears no more of a refresh that is cut off.
LEMMA CutOffSlot ==
  ASSUME TypeOK, NEW f \in Flight
  PROVE  /\ CutOff(flight[f]) \in FlightState
         /\ \/ CutOff(flight[f]) = NoFlight
            \/ /\ flight[f].pc = "taken" /\ CutOff(flight[f]).pc = "taken"
               /\ CutOff(flight[f]).tab = None /\ CutOff(flight[f]).new = flight[f].new
               /\ CutOff(flight[f]).token = flight[f].token
<1>1. CASE flight[f].pc # "taken" BY <1>1 DEF CutOff, FlightState
<1>2. CASE flight[f].pc = "taken"
  <2>1. flight[f] \in [pc : {"sent", "taken", "given"}, tab : Tab \cup {None},
                       token : Token \cup {None}, new : Token \cup {None}]
    BY <1>2, BusyFlight
  <2>2. [flight[f] EXCEPT !.tab = None] \in
          [pc : {"sent", "taken", "given"}, tab : Tab \cup {None},
           token : Token \cup {None}, new : Token \cup {None}]
    BY <2>1
  <2>3. CutOff(flight[f]) = [flight[f] EXCEPT !.tab = None] BY <1>2 DEF CutOff
  <2>4. QED BY <1>2, <2>1, <2>2, <2>3 DEF FlightState
<1>3. QED BY <1>1, <1>2

\* A connection that breaks settles everybody who awaits the tab's refresh.
LEMMA BreakKeeps == ASSUME IInv, NEW f \in Flight, Break(f) PROVE IInv'
<1>1. TypeOK BY DEF IInv
<1>2. DEFINE tab == flight[f].tab
             F == {f}
             C == Waiting(tab)
<1>3. tab \in Tab BY <1>1, FlightSlot DEF Break
<1>4. None \notin Tab BY ClientAssumption
<1>5. /\ access' = [access EXCEPT ![tab] = None]
      /\ call' = Settled(C)
      /\ refreshing' = [refreshing EXCEPT ![tab] = None]
      /\ cookie' \in {cookie} \cup {flight[g].new : g \in Given(tab)}
      /\ flight' = [flight EXCEPT ![f] = CutOff(flight[f])]
      /\ exchanged' = exchanged \ {<<flight[f].token, tab>>}
      /\ UNCHANGED <<server, expired>>
  BY DEF Break, GaveUp, Resumed
<1>6. flight' \in [Flight -> FlightState] /\ flight'[f] = CutOff(flight[f])
        /\ \A g \in Flight \ F : flight'[g] = flight[g]
  BY <1>1, <1>5, CutOffSlot DEF TypeOK
<1>7. \A g \in Flight \ F : flight[g].tab # tab
  BY <1>3 DEF IInv, OneRefresh
<1>8. refreshing' \in [Tab -> Flight \cup {None}]
        /\ \A u \in Tab : refreshing'[u] = IF u = tab THEN None ELSE refreshing[u]
  BY <1>1, <1>5 DEF TypeOK
<1>9. access' \in [Tab -> given \cup {None}] BY <1>1, <1>5 DEF TypeOK
<1>10. exchanged' = exchanged \ {<<flight[g].token, tab>> : g \in F} BY <1>5
<1>11. cookie' = cookie \/ \E g \in F : FlightBrings(g, cookie')
  BY <1>5, <1>7 DEF Given, FlightBrings
<1>12. \A g \in F : /\ flight[g].tab = tab
                    /\ \/ flight'[g] = NoFlight
                       \/ /\ flight[g].pc = "taken" /\ flight'[g].pc = "taken"
                          /\ flight'[g].tab = None /\ flight'[g].new = flight[g].new
                          /\ flight'[g].token = flight[g].token
  BY <1>1, <1>6, CutOffSlot
<1>13. C \in SUBSET Call BY DEF Waiting
<1> HIDE DEF tab, F, C
<1>14. F \in SUBSET Flight /\ Waiting(tab) \subseteq C BY DEF F, C
<1>15. /\ call' = Settled(C) /\ UNCHANGED <<server, expired>> /\ tab \in Tab \cup {None}
       /\ flight' \in [Flight -> FlightState]
       /\ \A g \in Flight \ F : flight'[g] = flight[g] /\ (tab # None => flight[g].tab # tab)
  BY <1>3, <1>5, <1>6, <1>7
<1>16. QED BY <1>8, <1>9, <1>10, <1>11, <1>12, <1>13, <1>14, <1>15, TabCut

\* A reload settles the tab's calls and cuts its flights off; what was on its way
\* may have reached the cookie.
LEMMA ReloadKeeps == ASSUME IInv, NEW tab \in Tab, Reload(tab) PROVE IInv'
<1>1. TypeOK BY DEF IInv
<1>2. DEFINE C == {c \in Call : call[c].tab = tab}
             F == {f \in Flight : flight[f].tab = tab}
<1>3. None \notin Tab BY ClientAssumption
<1>4. /\ access' \in {[access EXCEPT ![tab] = kept] : kept \in {access[tab], None}}
      /\ cookie' \in {cookie} \cup {call[c].token : c \in C \cap Served}
                             \cup {flight[f].new : f \in Given(tab)}
      /\ call' = Settled(C)
      /\ refreshing' = [refreshing EXCEPT ![tab] = None]
      /\ flight' = [f \in Flight |-> IF f \in F THEN CutOff(flight[f]) ELSE flight[f]]
      /\ exchanged' = exchanged \ {<<flight[f].token, tab>> : f \in F}
      /\ UNCHANGED <<server, expired>>
  BY DEF Reload
<1>5. /\ flight' \in [Flight -> FlightState]
      /\ \A f \in F : flight'[f] = CutOff(flight[f])
      /\ \A f \in Flight \ F : flight'[f] = flight[f] /\ flight[f].tab # tab
  BY <1>1, <1>4, CutOffSlot DEF TypeOK
<1>6. refreshing' \in [Tab -> Flight \cup {None}]
        /\ \A u \in Tab : refreshing'[u] = IF u = tab THEN None ELSE refreshing[u]
  BY <1>1, <1>4 DEF TypeOK
<1>7. access' \in [Tab -> given \cup {None}] BY <1>1, <1>4 DEF TypeOK
<1>8. \/ cookie' = cookie
      \/ \E c \in C : CallBrings(c, cookie')
      \/ \E f \in F : FlightBrings(f, cookie')
  BY <1>4 DEF Given, Served, FlightBrings, CallBrings
<1>9. \A f \in F : /\ flight[f].tab = tab
                   /\ \/ flight'[f] = NoFlight
                      \/ /\ flight[f].pc = "taken" /\ flight'[f].pc = "taken"
                         /\ flight'[f].tab = None /\ flight'[f].new = flight[f].new
                         /\ flight'[f].token = flight[f].token
  BY <1>1, <1>5, CutOffSlot
<1>10. C \in SUBSET Call /\ F \in SUBSET Flight /\ Waiting(tab) \subseteq C BY DEF Waiting
<1>11. /\ call' = Settled(C) /\ exchanged' = exchanged \ {<<flight[f].token, tab>> : f \in F}
       /\ UNCHANGED <<server, expired>>
  BY <1>4
<1>12. /\ flight' \in [Flight -> FlightState]
       /\ \A f \in Flight \ F : flight'[f] = flight[f] /\ (tab # None => flight[f].tab # tab)
  BY <1>5
<1>13. tab \in Tab \cup {None} OBVIOUS
<1> HIDE DEF F, C
<1>14. /\ refreshing' \in [Tab -> Flight \cup {None}]
       /\ \A u \in Tab : refreshing'[u] = IF u = tab THEN None ELSE refreshing[u]
       /\ C \in SUBSET Call /\ F \in SUBSET Flight /\ (tab # None => Waiting(tab) \subseteq C)
  BY <1>6, <1>10
<1>15. QED BY <1>7, <1>8, <1>9, <1>11, <1>12, <1>13, <1>14, TabCut

\* Time touches no request.
LEMMA ExpireAccessKeeps == ASSUME IInv, ExpireAccess PROVE IInv'
<1>1. TypeOK /\ OneRefresh /\ Shaped /\ Once /\ Spent BY DEF IInv
<1>2. PICK c \in Call : Accepts(call[c].token) /\ expired' = expired \cup {call[c].token}
  BY DEF ExpireAccess
<1>3. UNCHANGED <<phase, valid, given, cookie, access, refreshing, flight, call, exchanged>>
  BY DEF ExpireAccess, server, client
<1>4. TypeOK' BY <1>1, <1>2, <1>3 DEF TypeOK, Shaped, Accepts
<1>5. OneRefresh' BY <1>1, <1>3 DEF OneRefresh
<1>6. Shaped' BY <1>1, <1>3 DEF Shaped
<1>7. Once' BY <1>1, <1>3 DEF Once, CallBrings, FlightBrings, OnItsWay, New
<1>8. Spent' BY <1>1, <1>3 DEF Spent, Underway, Gone
<1>9. QED BY <1>4, <1>5, <1>6, <1>7, <1>8 DEF IInv

----------------------------------------------------------------------------
(* The invariant.                                                          *)

\* A browser without tokens, and nothing in progress.
LEMMA InitInvariant == Init => IInv
<1> SUFFICES ASSUME Init PROVE IInv
  OBVIOUS
<1>1. None \notin Tab /\ None \notin Flight BY ClientAssumption
<1>2. TypeOK
  BY DEF Init, TypeOK, Server!Init, Server!Phase, CallState, FlightState
<1>3. \A f \in Flight : flight[f].tab = None /\ flight[f].pc = "free"
                        /\ flight[f].token = None /\ flight[f].new = None
  BY DEF Init, NoFlight
<1>4. \A c \in Call : call[c].pc = "idle" /\ call[c].token = None BY DEF Init, IdleCall
<1>5. OneRefresh BY <1>1, <1>3, <1>4 DEF Init, OneRefresh
<1>6. Shaped BY <1>3, <1>4 DEF Shaped
<1>7. Once BY <1>3, <1>4 DEF Once, CallBrings, FlightBrings, OnItsWay
<1>8. Spent BY DEF Init, Spent
<1>9. QED BY <1>2, <1>5, <1>6, <1>7, <1>8 DEF IInv

\* Every step preserves the invariant.
LEMMA InvariantStep == IInv /\ [Next]_vars => IInv'
<1> SUFFICES ASSUME IInv, [Next]_vars PROVE IInv'
  OBVIOUS
<1>1. ASSUME NEW c \in Call, Send(c) \/ CallStep(c) PROVE IInv'
  BY <1>1, SendKeeps, SettlingCalls, UnauthorizedKeeps, ServeLoginKeeps, ServeLogoutKeeps
     DEF CallStep
<1>2. ASSUME NEW f \in Flight, FlightStep(f) PROVE IInv'
  BY <1>2, ServerTakeKeeps, ServerGiveKeeps, ServerEndKeeps, RenewedKeeps, RefusedKeeps,
     BreakKeeps DEF FlightStep
<1>3. CASE UNCHANGED vars
  <2>1. UNCHANGED <<phase, valid, given, cookie, access, refreshing, flight, call, expired,
                    exchanged>>
    BY <1>3 DEF vars, server, client
  <2>2. TypeOK' /\ OneRefresh' /\ Shaped' BY <2>1 DEF IInv, TypeOK, OneRefresh, Shaped
  <2>3. Once' BY <2>1 DEF IInv, Once, CallBrings, FlightBrings, OnItsWay, New
  <2>4. Spent' BY <2>1 DEF IInv, Spent, Underway, Gone
  <2>5. QED BY <2>2, <2>3, <2>4 DEF IInv
<1>4. QED BY <1>1, <1>2, <1>3, ReloadKeeps, ExpireAccessKeeps, LapseKeeps DEF Next

\* The invariant holds in every reachable state.
LEMMA Invariant == Spec => []IInv
<1>1. Init => IInv BY InitInvariant
<1>2. IInv /\ [Next]_vars => IInv' BY InvariantStep
<1>3. QED BY <1>1, <1>2, PTL DEF Spec

\* The browser and the server keep their types: no tab ever holds a token that the
\* server has not given, and no slot is left half-used.
THEOREM TypeCorrect == Spec => []TypeOK
<1>1. IInv => TypeOK BY DEF IInv
<1>2. QED BY <1>1, Invariant, PTL

\* However the 401s of a tab's calls, its refreshes, reloads and broken connections
\* interleave, it has one refresh under way or none, and nobody waits for none.
THEOREM OneRefreshHolds == Spec => []OneRefresh
<1>1. IInv => OneRefresh BY DEF IInv
<1>2. QED BY <1>1, Invariant, PTL

\* A tab that has exchanged its refresh token and heard of it is never refused for
\* presenting that token again while the login lives.
THEOREM SilentRefreshHolds == Spec => []SilentRefresh
<1>1. IInv => SilentRefresh BY HopelessIsExplained
<1>2. QED BY <1>1, Invariant, PTL

----------------------------------------------------------------------------
(* Signed out.                                                             *)

\* Without a cookie and without a login under way, no step brings a cookie: there is
\* no answer with one, and no refresh carries a token to exchange.
LEMMA SignedOutStep ==
  ASSUME IInv, [Next]_vars, SignedOut
  PROVE  SignedOut' \/ \E c \in Call : call[c] = IdleCall /\ call'[c].kind = "login"
<1>1. TypeOK /\ Shaped BY DEF IInv
<1>2. /\ cookie = None
      /\ \A f \in Flight : flight[f].tab # None => flight[f].token = None
      /\ \A c \in Call : call[c].kind # "login"
  BY DEF SignedOut
<1>3. \A c \in Served : call[c].token = None BY <1>1, <1>2 DEF Shaped, Served
<1>4. \A f \in Flight : flight[f].pc # "given"
  BY <1>1, <1>2, ClientAssumption DEF Shaped
<1>5. \A tab : Given(tab) = {} BY <1>4 DEF Given
<1>6. IdleCall.kind # "login" /\ NoFlight.tab = None BY DEF IdleCall, NoFlight
<1>7. ASSUME UNCHANGED flight, cookie' = None, \A c \in Call : call'[c].kind # "login"
      PROVE  SignedOut'
  BY <1>2, <1>7 DEF SignedOut
<1>8. ASSUME NEW C, call' = Settled(C) PROVE \A c \in Call : call'[c].kind # "login"
  BY <1>2, <1>6, <1>8 DEF Settled
<1>9. ASSUME NEW c \in Call, Send(c)
      PROVE  SignedOut' \/ \E d \in Call : call[d] = IdleCall /\ call'[d].kind = "login"
  <2>1. PICK tab \in Tab, kind \in Kind :
          /\ call[c].pc = "idle"
          /\ call' = [call EXCEPT ![c] = [pc |-> "sent", kind |-> kind, tab |-> tab,
                                          token |-> IF kind = "login" THEN None ELSE access[tab],
                                          retried |-> FALSE]]
          /\ UNCHANGED <<cookie, flight>>
    BY <1>9 DEF Send
  <2>2. call'[c].kind = kind /\ \A d \in Call \ {c} : call'[d] = call[d] BY <1>1, <2>1 DEF TypeOK
  <2>3. call[c] = IdleCall BY <1>1, <2>1, CallSlot
  <2>4. CASE kind = "login" BY <2>2, <2>3, <2>4
  <2>5. CASE kind # "login" BY <1>2, <1>7, <2>1, <2>2, <2>5
  <2>6. QED BY <2>4, <2>5
<1>10. ASSUME NEW c \in Call, Succeed(c) \/ Reject(c) \/ LoggedOut(c) PROVE SignedOut'
  BY <1>2, <1>3, <1>7, <1>8, <1>10 DEF Succeed, Reject, LoggedOut
<1>11. ASSUME NEW c \in Call PROVE ~ServeLogin(c) /\ ~LoggedIn(c)
  BY <1>2 DEF ServeLogin, LoggedIn
<1>12. ASSUME NEW c \in Call, ServeLogout(c) PROVE SignedOut'
  <2>1. \A d \in Call : call'[d].kind = call[d].kind BY <1>1, <1>12 DEF ServeLogout, TypeOK, CallState, IdleCall
  <2>2. QED BY <1>2, <1>7, <1>12, <2>1 DEF ServeLogout
<1>13. ASSUME NEW c \in Call, Unauthorized(c) PROVE SignedOut'
  <2>1. \A d \in Call : call'[d].kind = call[d].kind BY <1>1, <1>13 DEF Unauthorized, TypeOK, CallState, IdleCall
  <2>2. \A f \in Flight : flight'[f] = flight[f] \/ flight'[f].token = cookie
    BY <1>1, <1>13 DEF Unauthorized, CookieOf, TypeOK
  <2>3. cookie' = None BY <1>2, <1>13 DEF Unauthorized
  <2>4. QED BY <1>2, <2>1, <2>2, <2>3 DEF SignedOut
<1>14. ASSUME NEW f \in Flight PROVE ~ServerTake(f) \/ SignedOut'
  <2>1. SUFFICES ASSUME ServerTake(f) PROVE FALSE OBVIOUS
  <2>2. flight[f].tab \in Tab /\ flight[f].token # None
    BY <1>1, <2>1 DEF ServerTake, Current, Shaped
  <2>3. QED BY <1>2, <2>2, ClientAssumption
<1>15. ASSUME NEW f \in Flight PROVE ~Renewed(f)
  BY <1>4 DEF Renewed
<1>16. ASSUME NEW f \in Flight, ServerGive(f) \/ ServerEnd(f) PROVE SignedOut'
  <2>1. flight[f].pc = "taken" /\ UNCHANGED <<cookie, call>> BY <1>16 DEF ServerGive, ServerEnd
  <2>2. flight[f].tab = None BY <1>1, <1>2, <2>1 DEF Shaped
  <2>3. CASE ServerEnd(f)
    <3>1. flight' = [flight EXCEPT ![f] = NoFlight] BY <2>2, <2>3 DEF ServerEnd, Answered
    <3>2. QED BY <1>1, <1>2, <1>6, <2>1, <3>1 DEF SignedOut, TypeOK
  <2>4. CASE ServerGive(f)
    <3>1. PICK t \in Token :
            flight' = [flight EXCEPT ![f] = Answered([flight[f] EXCEPT !.pc = "given", !.new = t])]
      BY <2>4 DEF ServerGive
    <3>2. flight[f] \in [pc : {"sent", "taken", "given"}, tab : Tab \cup {None},
                         token : Token \cup {None}, new : Token \cup {None}]
      BY <1>1, <2>1, BusyFlight
    <3>3. [flight[f] EXCEPT !.pc = "given", !.new = t].tab = None BY <2>2, <3>2
    <3>4. flight' = [flight EXCEPT ![f] = NoFlight] BY <3>1, <3>3 DEF Answered
    <3>5. QED BY <1>1, <1>2, <1>6, <2>1, <3>4 DEF SignedOut, TypeOK
  <2>5. QED BY <1>16, <2>3, <2>4
<1>17. \A f \in Flight : CutOff(flight[f]).tab = None
  BY <1>1, <1>6, CutOffSlot
<1>18. ASSUME NEW f \in Flight, Refused(f) \/ Break(f) PROVE SignedOut'
  <2>1. \A c \in Call : call'[c].kind # "login"
    BY <1>8, <1>18 DEF Refused, Break, GaveUp
  <2>2. cookie' = None BY <1>2, <1>5, <1>18 DEF Refused, Break
  <2>3. \A g \in Flight : flight'[g] = flight[g] \/ flight'[g].tab = None
    BY <1>1, <1>6, <1>17, <1>18 DEF Refused, Break, TypeOK
  <2>4. QED BY <1>2, <2>1, <2>2, <2>3 DEF SignedOut
<1>19. ASSUME NEW tab \in Tab, Reload(tab) PROVE SignedOut'
  <2>1. \A c \in Call : call'[c].kind # "login" BY <1>8, <1>19 DEF Reload
  <2>2. cookie' = None BY <1>2, <1>3, <1>5, <1>19 DEF Reload
  <2>3. \A g \in Flight : flight'[g] = flight[g] \/ flight'[g].tab = None
    BY <1>17, <1>19 DEF Reload
  <2>4. QED BY <1>2, <2>1, <2>2, <2>3 DEF SignedOut
<1>20. CASE ExpireAccess \/ Lapse \/ UNCHANGED vars
  BY <1>2, <1>7, <1>20 DEF ExpireAccess, Lapse, client, vars
<1>21. QED
  BY <1>9, <1>10, <1>11, <1>12, <1>13, <1>14, <1>15, <1>16, <1>18, <1>19, <1>20
     DEF Next, CallStep, FlightStep

\* A browser that is signed out is signed in again by nothing but a login.
THEOREM SignedOutStaysHolds == Spec => SignedOutStays
<1> DEFINE Stays ==
      SignedOut =>
        \/ SignedOut'
        \/ \E c \in Call : call[c] = IdleCall /\ call'[c].kind = "login"
<1>1. IInv /\ [Next]_vars => [Stays]_vars BY SignedOutStep
<1>2. QED BY <1>1, Invariant, PTL DEF Spec, SignedOutStays
=============================================================================
