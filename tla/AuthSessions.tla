---------------------------- MODULE AuthSessions ----------------------------
(***************************************************************************)
(* Login sessions: the session:{user}:{id} keys in Redis and the requests  *)
(* of app/modules/auth that create, rotate and delete them, interleaved.   *)
(*                                                                         *)
(* Redis commands take effect when they are sent.  What a request flushes  *)
(* to PostgreSQL is seen by its own session alone and is lost when get_db  *)
(* closes it: no route of app/modules/auth commits.  The committed rows of *)
(* users and password_reset_tokens are therefore somebody else's (Outside).*)
(*                                                                         *)
(* A session's key and the refresh token it is the hash of carry the same  *)
(* uuid4, and so do the access tokens issued with it: a session stands for *)
(* the three.  login is the id of the session that a chain of rotations    *)
(* started from; the code does not store it, the properties are about it.  *)
(* A process that dies between two commands is Die; a key that reaches its *)
(* 7 days, is evicted or goes with the Redis server is Lapse.              *)
(***************************************************************************)
EXTENDS FiniteSets

CONSTANTS
  User,      \* accounts
  SessionId, \* uuid4 values: bounds the sessions opened in a behaviour
  Slot,      \* requests that can be in flight at the same time
  None       \* no account

ASSUME AuthAssumption == None \notin User

VARIABLES
  users,     \* committed row of each account
  resets,    \* accounts with a committed, unused, unexpired reset token
  sessions,  \* the session keys in Redis
  issued,    \* every session whose tokens were sent to a client
  req        \* the request in each slot

vars == <<users, resets, sessions, issued, req>>
rows == <<users, resets>>

\* is_active false; is_active but not is_verified; both.
Account == {"absent", "disabled", "unverified", "verified"}

Session == [user : User, id : SessionId, login : SessionId]

\* "registered" and "reset" are the successful replies of those two routes.
Replied == {"done", "failed", "registered", "reset"}
Running == {"login:memberships", "login:store", "refresh:user", "refresh:store",
            "logout:delete", "reset:scan", "reset:delete", "register:insert"}

Request == [pc   : Replied \cup Running,
            user : User \cup {None},
            held : SUBSET Session]  \* the session it was sent with, or those a scan starts from

Answered(reply) == [pc |-> reply, user |-> None, held |-> {}]

\* refresh and get_current_user ask for is_active alone, login for is_verified too.
AnyAccount(u) == TRUE
IsActive(u) == users[u] \in {"unverified", "verified"}
MayLogin(u) == users[u] = "verified"

SessionsOf(u, set) == {s \in set : s.user = u}

----------------------------------------------------------------------------
Become(r, q) == req' = [req EXCEPT ![r] = q]

Goto(r, pc) == Become(r, [req[r] EXCEPT !.pc = pc])

Succeed(r) == Become(r, Answered("done"))

Fail(r) == Become(r, Answered("failed"))

Ready(r) == req[r].pc \in Replied

At(r, pc) == req[r].pc = pc

\* _store_refresh_token, under a new uuid4; the cookie goes out with the reply.
StoreSession(u, id, login) ==
  LET s == [user |-> u, id |-> id, login |-> login] IN
    /\ sessions' = sessions \cup {s}
    /\ issued' = issued \cup {s}

Fresh(id) == \A s \in issued : s.id # id

----------------------------------------------------------------------------
(* login                                                                   *)

\* The account by email; the password may be wrong.
LoginUser(r) == \E u \in User :
  /\ Ready(r)
  /\ \/ MayLogin(u) /\ Become(r, [Answered("login:memberships") EXCEPT !.user = u])
     \/ Fail(r)
  /\ UNCHANGED <<rows, sessions, issued>>

\* Several organizations and no org_id: the list to choose from, no session.
\* An org_id the user is no member of: 401.
LoginMemberships(r) ==
  /\ At(r, "login:memberships")
  /\ Goto(r, "login:store") \/ Succeed(r) \/ Fail(r)
  /\ UNCHANGED <<rows, sessions, issued>>

LoginStore(r) == \E id \in SessionId :
  /\ At(r, "login:store")
  /\ Fresh(id)
  /\ StoreSession(req[r].user, id, id)
  /\ Succeed(r)
  /\ UNCHANGED rows

----------------------------------------------------------------------------
(* refresh                                                                 *)

\* GETDEL: what is left in Redis.
PeekOnly(s) == sessions
Taken(s) == sessions \ {s}

\* Any client may present any refresh token it was sent; one that has expired
\* is refused by its signature's exp claim.
RefreshTake(r) == \E s \in issued :
  /\ Ready(r)
  /\ \/ /\ s \in sessions
        /\ sessions' = Taken(s)
        /\ Become(r, [pc |-> "refresh:user", user |-> s.user, held |-> {s}])
     \/ Fail(r) /\ UNCHANGED sessions
  /\ UNCHANGED <<rows, issued>>

\* The memberships are read too; they only fill the access token in.
RefreshUser(r) ==
  /\ At(r, "refresh:user")
  /\ IF IsActive(req[r].user) THEN Goto(r, "refresh:store") ELSE Fail(r)
  /\ UNCHANGED <<rows, sessions, issued>>

NewIdOrOld(id, s) == Fresh(id) \/ id = s.id
NewId(id, s) == Fresh(id)

RefreshStore(r) == \E id \in SessionId, s \in req[r].held :
  /\ At(r, "refresh:store")
  /\ NewId(id, s)
  /\ StoreSession(s.user, id, s.login)
  /\ Succeed(r)
  /\ UNCHANGED rows

----------------------------------------------------------------------------
(* logout                                                                  *)

\* get_current_user: any unexpired access token does, whether its session is
\* still in Redis or not.
LogoutUser(r) == \E s \in issued :
  /\ Ready(r)
  /\ \/ /\ IsActive(s.user)
        /\ Become(r, [pc |-> "logout:delete", user |-> s.user, held |-> {s}])
     \/ Fail(r)
  /\ UNCHANGED <<rows, sessions, issued>>

LogoutDelete(r) ==
  /\ At(r, "logout:delete")
  /\ sessions' = sessions \ req[r].held
  /\ Succeed(r)
  /\ UNCHANGED <<rows, issued>>

----------------------------------------------------------------------------
(* reset_password                                                          *)

ResetFindAny(r) == \E u \in User \cup {None} :
  /\ Ready(r)
  /\ \/ u \in resets \cup {None} /\ Become(r, [Answered("reset:scan") EXCEPT !.user = u])
     \/ u \notin resets /\ Fail(r)
  /\ UNCHANGED <<rows, sessions, issued>>

\* The unused token; the new password and used_at are flushed, not committed.
ResetFind(r) == \E u \in User :
  /\ Ready(r)
  /\ IF u \in resets THEN Become(r, [Answered("reset:scan") EXCEPT !.user = u])
                     ELSE Fail(r)
  /\ UNCHANGED <<rows, sessions, issued>>

\* SCAN starts: it returns every key that stays until its end, and may return
\* later ones.
ResetScan(r) ==
  /\ At(r, "reset:scan")
  /\ Become(r, [req[r] EXCEPT !.pc = "reset:delete",
                              !.held = SessionsOf(req[r].user, issued)])
  /\ UNCHANGED <<rows, sessions, issued>>

\* DEL of one key.
ResetDelete(r) == \E s \in SessionsOf(req[r].user, sessions) :
  /\ At(r, "reset:delete")
  /\ sessions' = sessions \ {s}
  /\ UNCHANGED <<rows, issued, req>>

\* The cursor is back at 0.
ResetReply(r) ==
  /\ At(r, "reset:delete")
  /\ req[r].held \cap sessions = {}
  /\ Goto(r, "reset")
  /\ UNCHANGED <<rows, sessions, issued>>

----------------------------------------------------------------------------
(* register                                                                *)

RegisterFind(r) == \E u \in User :
  /\ Ready(r)
  /\ IF users[u] = "absent" THEN Become(r, [Answered("register:insert") EXCEPT !.user = u])
                            ELSE Fail(r)
  /\ UNCHANGED <<rows, sessions, issued>>

\* The email is unique.  The INSERT is flushed, the reply is 201, and closing
\* the session takes the row back.
RegisterInsert(r) ==
  /\ At(r, "register:insert")
  /\ IF users[req[r].user] = "absent" THEN Goto(r, "registered") ELSE Fail(r)
  /\ UNCHANGED <<rows, sessions, issued>>

----------------------------------------------------------------------------
\* The process dies, or Redis or PostgreSQL raises an error.
Die(r) ==
  /\ req[r].pc \in Running
  /\ Fail(r)
  /\ UNCHANGED <<rows, sessions, issued>>

Lapse == \E s \in sessions :
  /\ sessions' = sessions \ {s}
  /\ UNCHANGED <<rows, issued, req>>

\* Another writer of the database commits a change to an account or to its
\* reset tokens.
Outside == \E u \in User :
  /\ \/ \E account \in Account \ {users[u], "absent"} :
          users' = [users EXCEPT ![u] = account] /\ UNCHANGED resets
     \/ users[u] # "absent" /\ UNCHANGED users
          /\ \E on \in {{}, {u}} : resets' = (resets \ {u}) \cup on
  /\ UNCHANGED <<sessions, issued, req>>

----------------------------------------------------------------------------
Init ==
  /\ users = [u \in User |-> "absent"]
  /\ resets = {}
  /\ sessions = {}
  /\ issued = {}
  /\ req = [r \in Slot |-> Answered("done")]

LoginOps(r)  == LoginUser(r) \/ LoginMemberships(r) \/ LoginStore(r)
RefreshOps(r) == RefreshTake(r) \/ RefreshUser(r) \/ RefreshStore(r)
LogoutOps(r) == LogoutUser(r) \/ LogoutDelete(r)
ResetOps(r)  == ResetFind(r) \/ ResetScan(r) \/ ResetDelete(r) \/ ResetReply(r)
RegisterOps(r) == RegisterFind(r) \/ RegisterInsert(r)

Next ==
  \/ \E r \in Slot : LoginOps(r) \/ RefreshOps(r) \/ LogoutOps(r) \/ ResetOps(r)
                       \/ RegisterOps(r) \/ Die(r)
  \/ Lapse
  \/ Outside

Spec == Init /\ [][Next]_vars

----------------------------------------------------------------------------
(* Properties.                                                             *)

\* Past the look-up that starts it, a request acts for an account.
HasUser == \A r \in Slot : req[r].pc \in Running \cup {"registered", "reset"} => req[r].user \in User

\* The variables have the types of the keys, the rows and the requests; no
\* request goes on after a look-up that found no account or no reset token, and
\* every key in Redis is that of a session whose tokens were given out.
TypeOK ==
  /\ users \in [User -> Account]
  /\ resets \in SUBSET User
  /\ sessions \in SUBSET Session
  /\ issued \in SUBSET Session
  /\ req \in [Slot -> Request]
  /\ HasUser
  /\ sessions \subseteq issued

\* However many tabs present the same cookie at once, and whatever dies between
\* GETDEL and SET, the rotations of one login keep at most one session alive.
OneSessionPerLogin ==
  \A s, t \in sessions : s.login = t.login => s = t

\* A session that was rotated, logged out, reset or lapsed never comes back.
EndedStaysEnded == [][(issued \ sessions) \cap sessions' = {}]_vars

\* A request that will give user u a session, past the check of is_active.
Passed(r, u) ==
  req[r].user = u /\ req[r].pc \in {"login:memberships", "login:store", "refresh:store"}

\* Disabled, and the requests that saw it active are over.
Barred(u) == users[u] = "disabled" /\ \A r \in Slot : ~Passed(r, u)

\* Until a barred account is enabled again it gets no session, whatever refresh
\* tokens its clients hold.
DisabledGetsNoSession ==
  [][\A u \in User : Barred(u) /\ users'[u] = "disabled"
       => Barred(u)' /\ SessionsOf(u, sessions') \subseteq sessions]_vars

\* The rotation promises what LoginLineage states.
Rotating(l) ==
  \E r \in Slot : /\ req[r].pc \in {"refresh:user", "refresh:store"}
                  /\ \E s \in req[r].held : s.login = l

PhaseOf(l) ==
  IF \E s \in sessions : s.login = l THEN "live"
  ELSE IF Rotating(l) THEN "rotating"
  ELSE IF \E s \in issued : s.login = l THEN "ended"
  ELSE "unopened"

ValidOf(l) == {s.id : s \in {t \in sessions : t.login = l}}

Lineage == INSTANCE LoginLineage WITH
  Login <- SessionId,
  Token <- SessionId,
  phase <- [l \in SessionId |-> PhaseOf(l)],
  valid <- [l \in SessionId |-> ValidOf(l)],
  given <- {s.id : s \in issued}

ImplementsLineage == Lineage!Spec

\* A password reset that has answered "reset successfully" has ended every login
\* the user had when it started ("Invalidate ALL active sessions for this user").
ResetEndsLogins ==
  \A r \in Slot : At(r, "reset") =>
    ~ \E s \in sessions, old \in req[r].held : s.login = old.login
=============================================================================
