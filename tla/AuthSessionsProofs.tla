------------------------- MODULE AuthSessionsProofs -------------------------
(***************************************************************************)
(* What AuthSessions guarantees for any number of accounts, session ids    *)
(* and requests: type correctness, the end of a session, the gate of a     *)
(* disabled account, one session per login, and that the rotation          *)
(* implements LoginLineage.                                                *)
(*                                                                         *)
(* The proof first reduces every step to what it does to the keys in Redis *)
(* and to the sessions that refresh requests carry between GETDEL and SET  *)
(* (StepEffects); the invariant and the refinement are then proved about   *)
(* those six effects.                                                      *)
(***************************************************************************)
EXTENDS AuthSessions, TLAPS

----------------------------------------------------------------------------
(* Types.                                                                  *)

\* refresh and logout were sent with one session, whose account they act for.
OneHeld ==
  \A r \in Slot : req[r].pc \in {"refresh:user", "refresh:store", "logout:delete"} =>
    \E s \in issued : req[r].held = {s} /\ req[r].user = s.user

Typed == TypeOK /\ OneHeld

LEMMA TypedInit == Init => Typed
  BY DEF Init, Typed, TypeOK, OneHeld, HasUser, Answered, Request, Replied, Running, Account, Session

LEMMA TypedNext == Typed /\ [Next]_vars => Typed'
<1> SUFFICES ASSUME Typed, [Next]_vars PROVE Typed'
  OBVIOUS
<1> USE DEF Typed, TypeOK, OneHeld, HasUser, Request, Replied, Running, Become, Goto,
            Succeed, Fail, Answered, Ready, At, Session, rows
<1>1. ASSUME NEW r \in Slot, LoginOps(r) PROVE Typed'
  <2>1. CASE LoginUser(r)
    <3>1. PICK u \in User : \/ Become(r, [Answered("login:memberships") EXCEPT !.user = u])
                           \/ Fail(r)
      BY <2>1 DEF LoginUser
    <3>2. /\ [Answered("login:memberships") EXCEPT !.user = u] \in Request
          /\ Answered("failed") \in Request
      OBVIOUS
    <3>3. UNCHANGED <<users, resets, sessions, issued>>
      BY <2>1 DEF LoginUser
    <3>4. CASE Become(r, [Answered("login:memberships") EXCEPT !.user = u])
      BY <3>2, <3>3, <3>4
    <3>5. CASE Fail(r)
      BY <3>2, <3>3, <3>5
    <3> QED BY <3>1, <3>4, <3>5
  <2>2. CASE LoginMemberships(r)
    BY <2>2 DEF LoginMemberships
  <2>3. CASE LoginStore(r)
    <3>1. PICK id \in SessionId :
            StoreSession(req[r].user, id, id) /\ Succeed(r) /\ UNCHANGED <<users, resets>>
      BY <2>3 DEF LoginStore
    <3>2. req[r].user \in User
      BY <2>3 DEF LoginStore
    <3>3. [user |-> req[r].user, id |-> id, login |-> id] \in Session
      BY <3>2
    <3>4. /\ sessions' \in SUBSET Session /\ issued' \in SUBSET Session
          /\ issued \subseteq issued' /\ sessions' \subseteq issued'
      BY <3>1, <3>3 DEF StoreSession
    <3>5. TypeOK'
      BY <3>1, <3>4
    <3>6. OneHeld'
      BY <3>1, <3>4
    <3> QED BY <3>5, <3>6
  <2> QED BY <1>1, <2>1, <2>2, <2>3 DEF LoginOps
<1>2. ASSUME NEW r \in Slot, RefreshOps(r) PROVE Typed'
  <2>1. CASE RefreshTake(r)
    BY <2>1 DEF RefreshTake, Taken
  <2>2. CASE RefreshUser(r)
    BY <2>2 DEF RefreshUser
  <2>3. CASE RefreshStore(r)
    BY <2>3 DEF RefreshStore, StoreSession
  <2> QED BY <1>2, <2>1, <2>2, <2>3 DEF RefreshOps
<1>3. ASSUME NEW r \in Slot, LogoutOps(r) PROVE Typed'
  <2>1. CASE LogoutUser(r)
    <3>1. PICK s \in issued :
            \/ Become(r, [pc |-> "logout:delete", user |-> s.user, held |-> {s}])
            \/ Fail(r)
      BY <2>1 DEF LogoutUser
    <3>2. /\ [pc |-> "logout:delete", user |-> s.user, held |-> {s}] \in Request
          /\ Answered("failed") \in Request
      BY <3>1
    <3>3. UNCHANGED <<users, resets, sessions, issued>>
      BY <2>1 DEF LogoutUser
    <3>4. CASE Fail(r)
      BY <3>2, <3>3, <3>4
    <3>5. CASE Become(r, [pc |-> "logout:delete", user |-> s.user, held |-> {s}])
      <4>1. TypeOK'
        BY <3>2, <3>3, <3>5
      <4>2. s.user \in User
        BY <3>1
      <4>3. OneHeld' /\ HasUser'
        BY <3>3, <3>5, <4>2
      <4> QED BY <4>1, <4>3
    <3> QED BY <3>1, <3>4, <3>5
  <2>2. CASE LogoutDelete(r)
    BY <2>2 DEF LogoutDelete
  <2> QED BY <1>3, <2>1, <2>2 DEF LogoutOps
<1>4. ASSUME NEW r \in Slot, ResetOps(r) PROVE Typed'
  <2>1. CASE ResetFind(r)
    BY <2>1 DEF ResetFind
  <2>2. CASE ResetScan(r)
    BY <2>2 DEF ResetScan, SessionsOf
  <2>3. CASE ResetDelete(r)
    BY <2>3 DEF ResetDelete
  <2>4. CASE ResetReply(r)
    BY <2>4 DEF ResetReply
  <2> QED BY <1>4, <2>1, <2>2, <2>3, <2>4 DEF ResetOps
<1>5. ASSUME NEW r \in Slot, RegisterOps(r) \/ Die(r) PROVE Typed'
  BY <1>5 DEF RegisterOps, RegisterFind, RegisterInsert, Die
<1>6. CASE Lapse
  BY <1>6 DEF Lapse
<1>7. CASE Outside
  BY <1>7 DEF Outside, Account
<1>8. CASE UNCHANGED vars
  BY <1>8 DEF vars
<1> QED BY <1>1, <1>2, <1>3, <1>4, <1>5, <1>6, <1>7, <1>8 DEF Next

LEMMA TypedAlways == Spec => []Typed
<1> QED BY TypedInit, TypedNext, PTL DEF Spec

\* Rows, keys and requests are well-typed in every reachable state, whatever the
\* accounts, the session ids and the number of concurrent requests.
THEOREM TypeCorrect == Spec => []TypeOK
<1>1. Typed => TypeOK
  BY DEF Typed
<1> QED BY <1>1, TypedAlways, PTL

----------------------------------------------------------------------------
(* What a step does to Redis and to the refreshes in flight.               *)

\* The session a refresh has taken out of Redis and not replaced yet.
Carried(r) == IF req[r].pc \in {"refresh:user", "refresh:store"} THEN req[r].held ELSE {}

Others(r) == \A q \in Slot \ {r} : Carried(q)' = Carried(q)
Same == \A q \in Slot : Carried(q)' = Carried(q)

Silent == Same /\ UNCHANGED <<sessions, issued>>
Opens == \E u \in User, id \in SessionId : Same /\ Fresh(id) /\ StoreSession(u, id, id)
Takes(r) == \E s \in sessions :
  /\ Others(r) /\ Carried(r) = {} /\ Carried(r)' = {s}
  /\ sessions' = sessions \ {s} /\ UNCHANGED issued
Renews(r) == \E s \in issued, id \in SessionId :
  /\ Others(r) /\ Carried(r) = {s} /\ Carried(r)' = {}
  /\ Fresh(id) /\ StoreSession(s.user, id, s.login)
Gives(r) == Others(r) /\ Carried(r)' = {} /\ UNCHANGED <<sessions, issued>>
Drops == \E s \in sessions : Same /\ sessions' = sessions \ {s} /\ UNCHANGED issued

Effect == Silent \/ Opens \/ Drops \/ \E r \in Slot : Takes(r) \/ Renews(r) \/ Gives(r)

\* Replacing the request of one slot leaves the others' sessions alone.
LEMMA BecomeCarried ==
  ASSUME TypeOK, NEW r \in Slot, NEW q, Become(r, q)
  PROVE  /\ Others(r)
         /\ req'[r] = q
         /\ Carried(r)' = IF q.pc \in {"refresh:user", "refresh:store"} THEN q.held ELSE {}
  BY DEF TypeOK, Become, Others, Carried

\* A request that carries nothing before and after.
LEMMA Elsewhere ==
  ASSUME TypeOK, NEW r \in Slot, NEW q, Become(r, q),
         req[r].pc \notin {"refresh:user", "refresh:store"},
         q.pc \notin {"refresh:user", "refresh:store"}
  PROVE  Same
  BY BecomeCarried DEF Same, Others, Carried

LEMMA StepEffects == Typed /\ [Next]_vars => Effect
<1> SUFFICES ASSUME Typed, [Next]_vars PROVE Effect
  OBVIOUS
<1> USE DEF Typed
<1>1. ASSUME NEW r \in Slot, LoginOps(r) PROVE Effect
  <2>1. CASE LoginUser(r) \/ LoginMemberships(r)
    BY <2>1, Elsewhere
       DEF LoginUser, LoginMemberships, Goto, Succeed, Fail, Answered, Ready, Replied, At,
           Effect, Silent, TypeOK, Request
  <2>2. CASE LoginStore(r)
    <3>1. PICK id \in SessionId : Fresh(id) /\ StoreSession(req[r].user, id, id)
      BY <2>2 DEF LoginStore
    <3>2. req[r].user \in User /\ Same
      BY <2>2, Elsewhere DEF LoginStore, At, Succeed, Answered, TypeOK, HasUser, Running
    <3> QED BY <3>1, <3>2 DEF Effect, Opens
  <2> QED BY <1>1, <2>1, <2>2 DEF LoginOps
<1>2. ASSUME NEW r \in Slot, RefreshOps(r) PROVE Effect
  <2>1. CASE RefreshTake(r)
    <3>1. PICK s \in issued :
            \/ /\ s \in sessions
               /\ sessions' = sessions \ {s}
               /\ Become(r, [pc |-> "refresh:user", user |-> s.user, held |-> {s}])
            \/ Fail(r) /\ UNCHANGED sessions
      BY <2>1 DEF RefreshTake, Taken
    <3>2. req[r].pc \notin {"refresh:user", "refresh:store"} /\ UNCHANGED issued
      BY <2>1 DEF RefreshTake, Ready, Replied
    <3>3. CASE Fail(r) /\ UNCHANGED sessions
      BY <3>2, <3>3, Elsewhere DEF Fail, Answered, Effect, Silent
    <3>4. CASE /\ s \in sessions
               /\ sessions' = sessions \ {s}
               /\ Become(r, [pc |-> "refresh:user", user |-> s.user, held |-> {s}])
      <4>1. Others(r) /\ Carried(r)' = {s}
        BY <3>4, BecomeCarried
      <4>2. Carried(r) = {}
        BY <3>2 DEF Carried
      <4> QED BY <3>2, <3>4, <4>1, <4>2 DEF Effect, Takes
    <3> QED BY <3>1, <3>3, <3>4
  <2>2. CASE RefreshUser(r)
    <3>1. CASE Fail(r)
      BY <2>2, <3>1, BecomeCarried DEF RefreshUser, Fail, Answered, Effect, Gives
    <3>2. CASE Goto(r, "refresh:store")
      <4>1. req' = [req EXCEPT ![r] = [req[r] EXCEPT !.pc = "refresh:store"]]
        BY <3>2 DEF Goto, Become
      <4>2. req[r] \in Request /\ req[r].pc = "refresh:user"
        BY <2>2 DEF RefreshUser, At, TypeOK
      <4>3. req'[r].held = req[r].held /\ req'[r].pc = "refresh:store"
        BY <4>1, <4>2 DEF TypeOK, Request
      <4>4. Carried(r)' = Carried(r)
        BY <4>2, <4>3 DEF Carried
      <4>5. Others(r)
        BY <3>2, BecomeCarried DEF Goto
      <4> QED BY <2>2, <4>4, <4>5 DEF RefreshUser, Effect, Silent, Same, Others
    <3> QED BY <2>2, <3>1, <3>2 DEF RefreshUser
  <2>3. CASE RefreshStore(r)
    <3>1. PICK id \in SessionId, s \in req[r].held : Fresh(id) /\ StoreSession(s.user, id, s.login)
      BY <2>3 DEF RefreshStore, NewId
    <3>2. s \in issued /\ Carried(r) = {s}
      BY <2>3, <3>1 DEF RefreshStore, At, OneHeld, Carried
    <3>3. Others(r) /\ Carried(r)' = {}
      BY <2>3, BecomeCarried DEF RefreshStore, Succeed, Answered
    <3> QED BY <3>1, <3>2, <3>3 DEF Effect, Renews
  <2> QED BY <1>2, <2>1, <2>2, <2>3 DEF RefreshOps
<1>3. ASSUME NEW r \in Slot, LogoutOps(r) PROVE Effect
  <2>1. CASE LogoutUser(r)
    <3>1. PICK s \in issued : \/ Become(r, [pc |-> "logout:delete", user |-> s.user, held |-> {s}])
                              \/ Fail(r)
      BY <2>1 DEF LogoutUser
    <3>2. Same
      BY <2>1, <3>1, Elsewhere DEF LogoutUser, Ready, Replied, Fail, Answered
    <3> QED BY <2>1, <3>2 DEF LogoutUser, Effect, Silent
  <2>2. CASE LogoutDelete(r)
    <3>1. Same /\ UNCHANGED issued
      BY <2>2, Elsewhere DEF LogoutDelete, At, Succeed, Answered
    <3>2. PICK s \in issued : req[r].held = {s}
      BY <2>2 DEF LogoutDelete, At, OneHeld
    <3>3. CASE s \in sessions
      BY <2>2, <3>1, <3>2, <3>3 DEF LogoutDelete, Effect, Drops
    <3>4. CASE s \notin sessions
      <4>1. sessions' = sessions
        BY <2>2, <3>2, <3>4 DEF LogoutDelete
      <4> QED BY <3>1, <4>1 DEF Effect, Silent
    <3> QED BY <3>3, <3>4
  <2> QED BY <1>3, <2>1, <2>2 DEF LogoutOps
<1>4. ASSUME NEW r \in Slot, ResetOps(r) PROVE Effect
  <2>1. CASE ResetFind(r) \/ ResetScan(r) \/ ResetReply(r)
    BY <2>1, Elsewhere
       DEF ResetFind, ResetScan, ResetReply, Goto, Fail, Answered, Ready, Replied, At,
           Effect, Silent, TypeOK, Request
  <2>2. CASE ResetDelete(r)
    BY <2>2 DEF ResetDelete, SessionsOf, Effect, Drops, Same, Carried
  <2> QED BY <1>4, <2>1, <2>2 DEF ResetOps
<1>5. ASSUME NEW r \in Slot, RegisterOps(r) PROVE Effect
  BY <1>5, Elsewhere
     DEF RegisterOps, RegisterFind, RegisterInsert, Goto, Fail, Answered, Ready, Replied, At,
         Effect, Silent, TypeOK, Request
<1>6. ASSUME NEW r \in Slot, Die(r) PROVE Effect
  BY <1>6, BecomeCarried DEF Die, Fail, Answered, Effect, Gives
<1>7. CASE Lapse
  BY <1>7 DEF Lapse, Effect, Drops, Same, Carried
<1>8. CASE Outside \/ UNCHANGED vars
  BY <1>8 DEF Outside, vars, Effect, Silent, Same, Carried
<1> QED BY <1>1, <1>2, <1>3, <1>4, <1>5, <1>6, <1>7, <1>8 DEF Next

----------------------------------------------------------------------------
(* One session per login.                                                  *)

\* A login's only session is either in Redis or carried by one refresh, and
\* whatever is in Redis or carried descends from an issued session's login.
OneLine ==
  /\ sessions \subseteq issued
  /\ \A s \in issued : \E t \in issued : t.id = s.login
  /\ OneSessionPerLogin
  /\ \A r \in Slot : Carried(r) \subseteq issued
  /\ \A r \in Slot : \A s, t \in Carried(r) : s = t
  /\ \A r \in Slot : \A s \in Carried(r), t \in sessions : s.login # t.login
  /\ \A q, r \in Slot : \A s \in Carried(q), t \in Carried(r) : q # r => s.login # t.login

LEMMA OneLineInit == Init => OneLine
  BY DEF Init, OneLine, OneSessionPerLogin, Carried, Answered

LEMMA OneLineNext == OneLine /\ Effect => OneLine'
<1> SUFFICES ASSUME OneLine, Effect PROVE OneLine'
  OBVIOUS
<1> USE DEF OneLine, OneSessionPerLogin
<1>1. CASE Silent
  BY <1>1 DEF Silent, Same
<1>2. CASE Opens
  <2>1. PICK u \in User, id \in SessionId : Same /\ Fresh(id) /\ StoreSession(u, id, id)
    BY <1>2 DEF Opens
  <2>2. \A s \in issued : s.login # id
    BY <2>1 DEF Fresh
  <2> QED BY <2>1, <2>2 DEF Same, StoreSession
<1>3. CASE Drops
  BY <1>3 DEF Drops, Same
<1>4. ASSUME NEW r \in Slot, Takes(r) PROVE OneLine'
  BY <1>4 DEF Takes, Others
<1>5. ASSUME NEW r \in Slot, Renews(r) PROVE OneLine'
  <2>1. PICK s \in issued, id \in SessionId :
          /\ Others(r) /\ Carried(r) = {s} /\ Carried(r)' = {}
          /\ Fresh(id) /\ StoreSession(s.user, id, s.login)
    BY <1>5 DEF Renews
  <2>2. PICK n : n = [user |-> s.user, id |-> id, login |-> s.login]
    OBVIOUS
  <2>3. sessions' = sessions \cup {n} /\ issued' = issued \cup {n} /\ n.login = s.login
    BY <2>1, <2>2 DEF StoreSession
  <2>4. \A t \in sessions : t.login # n.login
    BY <2>1, <2>3
  <2>5. \A q \in Slot : \A t \in Carried(q)' : q # r /\ t \in Carried(q) /\ t.login # n.login
    BY <2>1, <2>3 DEF Others
  <2>6. \E t \in issued' : t.id = n.login
    BY <2>1, <2>3
  <2> QED BY <2>3, <2>4, <2>5, <2>6
<1>6. ASSUME NEW r \in Slot, Gives(r) PROVE OneLine'
  BY <1>6 DEF Gives, Others
<1> QED BY <1>1, <1>2, <1>3, <1>4, <1>5, <1>6 DEF Effect

LEMMA OneLineAlways == Spec => [](Typed /\ OneLine)
<1>1. Init => Typed /\ OneLine
  BY TypedInit, OneLineInit
<1>2. Typed /\ OneLine /\ [Next]_vars => (Typed /\ OneLine)'
  BY TypedNext, StepEffects, OneLineNext
<1> QED BY <1>1, <1>2, PTL DEF Spec

\* However many requests present a login's tokens at once, and whenever they
\* die, at most one session of that login is in Redis.
THEOREM OneSessionPerLoginHolds == Spec => []OneSessionPerLogin
<1>1. OneLine => OneSessionPerLogin
  BY DEF OneLine
<1> QED BY <1>1, OneLineAlways, PTL

----------------------------------------------------------------------------
(* The end of a session, and disabled accounts.                            *)

\* No interleaving brings a session back that has been rotated, logged out,
\* reset or has lapsed.
THEOREM EndedStaysEndedHolds == Spec => EndedStaysEnded
<1>1. Effect => (issued \ sessions) \cap sessions' = {}
  BY DEF Effect, Silent, Opens, Takes, Renews, Gives, Drops, StoreSession, Fresh
<1>2. Typed /\ [Next]_vars => [(issued \ sessions) \cap sessions' = {}]_vars
  BY <1>1, StepEffects
<1> QED BY <1>2, TypedAlways, PTL DEF Spec, EndedStaysEnded

\* A key that appears was written by a request that had seen the account active.
LEMMA Newcomers ==
  Typed /\ [Next]_vars => \A s \in sessions' \ sessions : \E r \in Slot : Passed(r, s.user)
<1> SUFFICES ASSUME Typed, [Next]_vars, NEW s \in sessions' \ sessions
             PROVE  \E r \in Slot : Passed(r, s.user)
  OBVIOUS
<1>1. ASSUME NEW r \in Slot, LoginOps(r) PROVE Passed(r, s.user)
  <2>1. LoginStore(r)
    BY <1>1 DEF LoginOps, LoginUser, LoginMemberships
  <2>2. PICK id \in SessionId : StoreSession(req[r].user, id, id)
    BY <2>1 DEF LoginStore
  <2>3. s.user = req[r].user
    BY <2>2 DEF StoreSession
  <2> QED BY <2>1, <2>3 DEF LoginStore, At, Passed
<1>2. ASSUME NEW r \in Slot, RefreshOps(r) PROVE Passed(r, s.user)
  <2>1. RefreshStore(r)
    BY <1>2 DEF RefreshOps, RefreshTake, Taken, RefreshUser
  <2>2. PICK t \in req[r].held, id \in SessionId : StoreSession(t.user, id, t.login)
    BY <2>1 DEF RefreshStore
  <2>3. req[r].user = t.user /\ req[r].pc = "refresh:store"
    BY <2>1, <2>2 DEF RefreshStore, At, Typed, OneHeld
  <2>4. s.user = t.user
    BY <2>2 DEF StoreSession
  <2> QED BY <2>3, <2>4 DEF Passed
<1>3. ASSUME NEW r \in Slot, LogoutOps(r) \/ ResetOps(r) \/ RegisterOps(r) \/ Die(r)
      PROVE FALSE
  BY <1>3 DEF LogoutOps, LogoutUser, LogoutDelete, ResetOps, ResetFind, ResetScan, ResetDelete,
              ResetReply, RegisterOps, RegisterFind, RegisterInsert, Die
<1>4. CASE Lapse \/ Outside \/ UNCHANGED vars
  BY <1>4 DEF Lapse, Outside, vars
<1> QED BY <1>1, <1>2, <1>3, <1>4 DEF Next

\* Nothing gets past the check of is_active for an account that is disabled.
LEMMA NobodyPasses ==
  ASSUME Typed, [Next]_vars, NEW u \in User, users[u] = "disabled",
         NEW r \in Slot, ~Passed(r, u)
  PROVE  ~Passed(r, u)'
<1> USE DEF Typed, TypeOK, Request, Passed, Become, Goto, Succeed, Fail, Answered, Ready, At,
            Replied, Running
<1>1. ASSUME NEW q \in Slot, LoginOps(q) PROVE ~Passed(r, u)'
  <2>1. CASE LoginUser(q)
    BY <1>1, <2>1 DEF LoginUser, MayLogin
  <2>2. CASE LoginMemberships(q)
    BY <1>1, <2>2 DEF LoginMemberships
  <2>3. CASE LoginStore(q)
    BY <1>1, <2>3 DEF LoginStore
  <2> QED BY <1>1, <2>1, <2>2, <2>3 DEF LoginOps
<1>2. ASSUME NEW q \in Slot, RefreshOps(q) PROVE ~Passed(r, u)'
  <2>1. CASE RefreshTake(q)
    BY <1>2, <2>1 DEF RefreshTake
  <2>2. CASE RefreshUser(q)
    BY <1>2, <2>2 DEF RefreshUser, IsActive
  <2>3. CASE RefreshStore(q)
    BY <1>2, <2>3 DEF RefreshStore
  <2> QED BY <1>2, <2>1, <2>2, <2>3 DEF RefreshOps
<1>3. ASSUME NEW q \in Slot, LogoutOps(q) \/ RegisterOps(q) \/ Die(q) PROVE ~Passed(r, u)'
  BY <1>3 DEF LogoutOps, LogoutUser, LogoutDelete, RegisterOps, RegisterFind, RegisterInsert, Die
<1>4. ASSUME NEW q \in Slot, ResetOps(q) PROVE ~Passed(r, u)'
  <2>1. CASE ResetFind(q)
    BY <1>4, <2>1 DEF ResetFind
  <2>2. CASE ResetScan(q)
    BY <1>4, <2>2 DEF ResetScan
  <2>3. CASE ResetDelete(q)
    BY <1>4, <2>3 DEF ResetDelete
  <2>4. CASE ResetReply(q)
    BY <1>4, <2>4 DEF ResetReply
  <2> QED BY <1>4, <2>1, <2>2, <2>3, <2>4 DEF ResetOps
<1>5. CASE Lapse \/ Outside \/ UNCHANGED vars
  BY <1>5 DEF Lapse, Outside, vars
<1> QED BY <1>1, <1>2, <1>3, <1>4, <1>5 DEF Next

\* Until a disabled account with no admitted request in flight is enabled again,
\* it gets no session, whatever refresh tokens its clients hold.
THEOREM DisabledGetsNoSessionHolds == Spec => DisabledGetsNoSession
<1> DEFINE Gated == \A u \in User : Barred(u) /\ users'[u] = "disabled"
                      => Barred(u)' /\ SessionsOf(u, sessions') \subseteq sessions
<1>1. ASSUME Typed, [Next]_vars, NEW u \in User, Barred(u), users'[u] = "disabled"
      PROVE  Barred(u)' /\ SessionsOf(u, sessions') \subseteq sessions
  <2>1. Barred(u)'
    BY <1>1, NobodyPasses DEF Barred
  <2>2. SessionsOf(u, sessions') \subseteq sessions
    BY <1>1, Newcomers DEF Barred, SessionsOf
  <2> QED BY <2>1, <2>2
<1>2. Typed /\ [Next]_vars => [Gated]_vars
  BY <1>1
<1> QED BY <1>2, TypedAlways, PTL DEF Spec, DisabledGetsNoSession

----------------------------------------------------------------------------
(* The rotation implements LoginLineage.                                   *)

LEMMA RotatingCarried ==
  \A l : Rotating(l) <=> \E r \in Slot : \E s \in Carried(r) : s.login = l
  BY DEF Rotating, Carried

LEMMA RotatingCarriedNext ==
  \A l : Rotating(l)' <=> \E r \in Slot : \E s \in Carried(r)' : s.login = l
  BY DEF Rotating, Carried

Unmoved(l) == PhaseOf(l)' = PhaseOf(l) /\ ValidOf(l)' = ValidOf(l)

\* One login moves, the others stay.
LEMMA MoveOne ==
  ASSUME NEW l \in SessionId, \A k \in SessionId \ {l} : Unmoved(k)
  PROVE  /\ [k \in SessionId |-> PhaseOf(k)]'
              = [[k \in SessionId |-> PhaseOf(k)] EXCEPT ![l] = PhaseOf(l)']
         /\ [k \in SessionId |-> ValidOf(k)]'
              = [[k \in SessionId |-> ValidOf(k)] EXCEPT ![l] = ValidOf(l)']
         /\ [k \in SessionId |-> PhaseOf(k)][l] = PhaseOf(l)
  BY DEF Unmoved

LEMMA RefineInit == Init => Lineage!Init
  BY DEF Init, Lineage!Init, PhaseOf, Rotating, ValidOf, Answered

LEMMA RefineNext == Typed /\ OneLine /\ Effect => [Lineage!Next]_Lineage!lineage
<1> SUFFICES ASSUME Typed, OneLine, Effect PROVE [Lineage!Next]_Lineage!lineage
  OBVIOUS
<1> USE DEF OneLine
<1>a. \A s \in issued : s \in Session
  BY DEF Typed, TypeOK
<1>1. CASE Silent
  <2>1. \A l \in SessionId : Unmoved(l)
    BY <1>1, RotatingCarried, RotatingCarriedNext DEF Silent, Same, Unmoved, PhaseOf, ValidOf
  <2> QED BY <1>1, <2>1 DEF Silent, Unmoved, Lineage!lineage
<1>2. CASE Opens
  <2>1. PICK u \in User, id \in SessionId : Same /\ Fresh(id) /\ StoreSession(u, id, id)
    BY <1>2 DEF Opens
  <2>2. PICK n : n = [user |-> u, id |-> id, login |-> id]
    OBVIOUS
  <2>3. /\ sessions' = sessions \cup {n} /\ issued' = issued \cup {n}
        /\ n.id = id /\ n.login = id
    BY <2>1, <2>2 DEF StoreSession
  <2>4. \A s \in issued : s.login # id /\ s.id # id
    BY <2>1 DEF Fresh
  <2>5. \A l \in SessionId \ {id} : Unmoved(l)
    BY <2>1, <2>3, RotatingCarried, RotatingCarriedNext DEF Same, Unmoved, PhaseOf, ValidOf
  <2>6. PhaseOf(id) = "unopened" /\ PhaseOf(id)' = "live"
    BY <2>3, <2>4, RotatingCarried DEF PhaseOf
  <2>7. ValidOf(id)' = {id}
    BY <2>3, <2>4 DEF ValidOf
  <2>8. id \notin {t.id : t \in issued} /\ {t.id : t \in issued}' = {t.id : t \in issued} \cup {id}
    BY <2>1, <2>3 DEF Fresh
  <2>9. Lineage!Give(id)
    BY <2>5, <2>6, <2>7, <2>8, MoveOne DEF Lineage!Give, Lineage!Move
  <2> QED BY <2>9 DEF Lineage!Next
<1>3. CASE Drops
  <2>1. PICK s \in sessions : Same /\ sessions' = sessions \ {s} /\ UNCHANGED issued
    BY <1>3 DEF Drops
  <2>2. s.login \in SessionId
    BY <2>1, <1>a DEF Session
  <2>3. \A l \in SessionId \ {s.login} : Unmoved(l)
    BY <2>1, RotatingCarried, RotatingCarriedNext DEF Same, Unmoved, PhaseOf, ValidOf
  <2>4. PhaseOf(s.login) = "live" /\ PhaseOf(s.login)' = "ended"
    BY <2>1, RotatingCarriedNext DEF PhaseOf, OneSessionPerLogin, Same
  <2>5. ValidOf(s.login)' = {}
    BY <2>1 DEF ValidOf, OneSessionPerLogin
  <2>6. Lineage!End(s.login)
    BY <2>1, <2>2, <2>3, <2>4, <2>5, MoveOne DEF Lineage!End, Lineage!Move
  <2> QED BY <2>2, <2>6 DEF Lineage!Next
<1>4. ASSUME NEW r \in Slot, Takes(r) PROVE Lineage!Next
  <2>1. PICK s \in sessions :
          /\ Others(r) /\ Carried(r) = {} /\ Carried(r)' = {s}
          /\ sessions' = sessions \ {s} /\ UNCHANGED issued
    BY <1>4 DEF Takes
  <2>2. s.login \in SessionId
    BY <2>1, <1>a DEF Session
  <2>3. \A l \in SessionId \ {s.login} : Unmoved(l)
    BY <2>1, RotatingCarried, RotatingCarriedNext DEF Others, Unmoved, PhaseOf, ValidOf
  <2>4. PhaseOf(s.login) = "live" /\ PhaseOf(s.login)' = "rotating"
    BY <2>1, RotatingCarriedNext DEF PhaseOf, OneSessionPerLogin
  <2>5. ValidOf(s.login)' = {}
    BY <2>1 DEF ValidOf, OneSessionPerLogin
  <2>6. Lineage!Take(s.login)
    BY <2>1, <2>2, <2>3, <2>4, <2>5, MoveOne DEF Lineage!Take, Lineage!Move
  <2> QED BY <2>2, <2>6 DEF Lineage!Next
<1>5. ASSUME NEW r \in Slot, Renews(r) PROVE Lineage!Next
  <2>1. PICK s \in issued, id \in SessionId :
          /\ Others(r) /\ Carried(r) = {s} /\ Carried(r)' = {}
          /\ Fresh(id) /\ StoreSession(s.user, id, s.login)
    BY <1>5 DEF Renews
  <2>2. PICK n : n = [user |-> s.user, id |-> id, login |-> s.login]
    OBVIOUS
  <2>3. /\ sessions' = sessions \cup {n} /\ issued' = issued \cup {n}
        /\ n.id = id /\ n.login = s.login
    BY <2>1, <2>2 DEF StoreSession
  <2>4. s.login \in SessionId
    BY <2>1, <1>a DEF Session
  <2>5. \A l \in SessionId \ {s.login} : Unmoved(l)
    BY <2>1, <2>3, RotatingCarried, RotatingCarriedNext DEF Others, Unmoved, PhaseOf, ValidOf
  <2>6. PhaseOf(s.login) = "rotating" /\ PhaseOf(s.login)' = "live"
    BY <2>1, <2>3, RotatingCarried DEF PhaseOf
  <2>7. ValidOf(s.login)' = {id}
    BY <2>1, <2>3 DEF ValidOf
  <2>8. id \notin {t.id : t \in issued} /\ {t.id : t \in issued}' = {t.id : t \in issued} \cup {id}
    BY <2>1, <2>3 DEF Fresh
  <2>9. Lineage!Give(s.login)
    BY <2>4, <2>5, <2>6, <2>7, <2>8, MoveOne DEF Lineage!Give, Lineage!Move
  <2> QED BY <2>4, <2>9 DEF Lineage!Next
<1>6. ASSUME NEW r \in Slot, Gives(r) PROVE [Lineage!Next]_Lineage!lineage
  <2>1. Others(r) /\ Carried(r)' = {} /\ UNCHANGED <<sessions, issued>>
    BY <1>6 DEF Gives
  <2>2. CASE Carried(r) = {}
    <3>1. \A l \in SessionId : Unmoved(l)
      BY <2>1, <2>2, RotatingCarried, RotatingCarriedNext DEF Others, Unmoved, PhaseOf, ValidOf
    <3> QED BY <2>1, <3>1 DEF Unmoved, Lineage!lineage
  <2>3. ASSUME NEW s \in Carried(r) PROVE Lineage!Next
    <3>1. s.login \in SessionId /\ s \in issued
      BY <1>a DEF Session
    <3>2. \A l \in SessionId \ {s.login} : Unmoved(l)
      BY <2>1, RotatingCarried, RotatingCarriedNext DEF Others, Unmoved, PhaseOf, ValidOf
    <3>3. PhaseOf(s.login) = "rotating" /\ PhaseOf(s.login)' = "ended"
      BY <2>1, <3>1, RotatingCarried, RotatingCarriedNext DEF PhaseOf, Others
    <3>4. ValidOf(s.login)' = {}
      BY <2>1 DEF ValidOf
    <3>5. Lineage!End(s.login)
      BY <2>1, <3>1, <3>2, <3>3, <3>4, MoveOne DEF Lineage!End, Lineage!Move
    <3> QED BY <3>1, <3>5 DEF Lineage!Next
  <2> QED BY <2>2, <2>3
<1> QED BY <1>1, <1>2, <1>3, <1>4, <1>5, <1>6 DEF Effect

\* The rotation implements LoginLineage: every step gives out, takes or ends the
\* token of one login, or changes nothing of what LoginLineage is about.
THEOREM ImplementsLineageHolds == Spec => ImplementsLineage
<1>1. Typed /\ OneLine /\ [Next]_vars => [Lineage!Next]_Lineage!lineage
  BY StepEffects, RefineNext
<1> QED BY <1>1, RefineInit, OneLineAlways, PTL DEF Spec, ImplementsLineage, Lineage!Spec
=============================================================================
