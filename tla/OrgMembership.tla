--------------------------- MODULE OrgMembership ---------------------------
(***************************************************************************)
(* Organizations, their members and their invitations: the three tables    *)
(* of app/modules/organizations and the HTTP requests that read and write  *)
(* them, interleaved.                                                      *)
(*                                                                         *)
(* A request runs in one of the slots of Slot, in a database session of    *)
(* its own.  Each SELECT is one step, because the coroutine awaits it and  *)
(* READ COMMITTED lets other requests commit before the next statement.    *)
(* The final flush and commit are one step: the row locks and the unique   *)
(* and foreign keys order conflicting writers as if they ran one after the *)
(* other.  A request that raises an error is rolled back (Fail).           *)
(*                                                                         *)
(* The session keeps what it has loaded: an object the request still holds *)
(* (the caller's own membership) is not refreshed by a later SELECT of the *)
(* same row, an UPDATE is sent only for an attribute whose value changed,  *)
(* an UPDATE that matches no row raises StaleDataError unless others of    *)
(* its table are flushed with it, and a DELETE that matches no row is only *)
(* a warning.  The Organization that require_org_member loads is dropped   *)
(* when it returns, and the identity map holds it weakly, so that get_org  *)
(* reads the row again.                                                    *)
(*                                                                         *)
(* A row's primary key is (org, user, gen): gen separates a row from those *)
(* that were deleted before it.  Gen bounds how many of them may coexist.  *)
(* An email address is the user it belongs to and a spelling of it, upper  *)
(* or lower case: users have one account per address, whatever the case.   *)
(* An organization's slug is the organization, and the slug of a deleted   *)
(* one is not asked for again.                                             *)
(***************************************************************************)
EXTENDS Integers, FiniteSets

CONSTANTS
  Org,          \* organizations that can be created
  User,         \* registered users
  Slot,         \* requests that can be in flight at the same time
  Invitee,      \* users whose address is invited
  Spelling,     \* ways of writing an address
  PayloadRole,  \* roles that the requests' payloads name
  Gen,          \* bound on the generations of a row
  None          \* no user, no organization

Role == {"owner", "admin", "manager", "analyst", "employee", "viewer"}

ROLE_RANK == [r \in Role |-> CASE r = "owner"    -> 6
                               [] r = "admin"    -> 5
                               [] r = "manager"  -> 4
                               [] r = "analyst"  -> 3
                               [] r = "employee" -> 2
                               [] r = "viewer"   -> 1]

ASSIGNABLE_ROLES == Role \ {"owner"}

ASSUME OrgAssumption ==
  /\ Invitee \subseteq User
  /\ PayloadRole \subseteq ASSIGNABLE_ROLES
  /\ Gen \subseteq Nat
  /\ None \notin Org \cup User

VARIABLES
  orgs,     \* organizations: absent, active, suspended (is_active false) or deleted
  members,  \* rows of org_members
  invites,  \* rows of invitations
  req       \* the request in each slot, with what its session has loaded

tables == <<orgs, members, invites>>
vars   == <<orgs, members, invites, req>>

OrgState == {"absent", "active", "suspended", "deleted"}

OrgMember == [org : Org, user : User, gen : Gen, role : Role]

Invitation == [org : Org, user : User, spelling : Spelling, gen : Gen,
               role : ASSIGNABLE_ROLES, accepted : BOOLEAN, expired : BOOLEAN]

\* Where a request is: replied to, or about to take the step of that name.
Replied   == {"done", "failed"}
Gated     == {"member", "authorised", "update_org", "delete_org",
              "update_member", "remove_member", "transfer:new_owner",
              "transfer", "transfer:reply", "invite", "revoke"}
Ungated   == {"create_org", "accept:member", "accept"}

Session == [pc     : Replied \cup Gated \cup Ungated,
            user   : User \cup {None},       \* the authenticated user
            org    : Org \cup {None},        \* the org_id of its token
            active : BOOLEAN,                \* is_active as get_org loaded it
            caller : SUBSET OrgMember,       \* the caller's membership
            target : SUBSET OrgMember,       \* the member acted upon
            invite : SUBSET Invitation]      \* the invitation acted upon

\* A request in flight has a user and an organization.
Request == {q \in Session : q.pc \notin Replied => q.user \in User /\ q.org \in Org}

Answered(reply) == [pc |-> reply, user |-> None, org |-> None, active |-> FALSE,
                    caller |-> {}, target |-> {}, invite |-> {}]

----------------------------------------------------------------------------
(* Rows, and what a session makes of them.                                 *)

Key(row) == <<row.org, row.user, row.gen>>

InTable(row, table) == \E stored \in table : Key(stored) = Key(row)

Exists(o) == orgs[o] \in {"active", "suspended"}

MemberRows(o, u) == {m \in members : m.org = o /\ m.user = u}

\* invite_member looks for these: its comparison is exact.
InvitesTo(o, u, spelling) == {i \in invites : i.org = o /\ i.user = u /\ i.spelling = spelling}
PendingInverted(o, u, spelling) == {i \in InvitesTo(o, u, spelling) : i.accepted}
PendingRows(o, u, spelling) == {i \in InvitesTo(o, u, spelling) : ~i.accepted}

\* accept_invitation looks for these: it compares addresses in lower case.
AcceptableTwice(i, u) == ~i.expired /\ i.user = u
Acceptable(i, u) == ~i.accepted /\ ~i.expired /\ i.user = u

\* The unique key of org_members (declared by the migration alone) and the
\* foreign keys to organizations.
NoUniqueKey(o, u) == TRUE
UniqueKey(o, u) == MemberRows(o, u) = {}

NoForeignKey(o) == TRUE
ForeignKey(o) == Exists(o)

\* scalar_one_or_none returned a row: several would raise MultipleResultsFound.
OneRow(rows) == \E row \in rows : rows = {row}

\* The objects a SELECT returns: a row the session already holds keeps the
\* attributes it was loaded with.
Loaded(r, rows) ==
  {row \in rows : ~InTable(row, req[r].caller)}
    \cup {held \in req[r].caller : InTable(held, rows)}

\* UPDATEs of loaded rows: one that matches no row raises StaleDataError.
MatchIgnored(rows, table) == TRUE
AllMatch(rows, table) == \A row \in rows : InTable(row, table)

\* Assigning a role to loaded rows flushes those whose role it changes.  Several
\* are sent as one executemany, for which asyncpg reports no count to compare.
Changed(rows, role) == {row \in rows : row.role # role}
Flushable(changed) == OneRow(changed) => AllMatch(changed, members)

SetRole(table, rows, role) ==
  {IF \E row \in rows : Key(row) = Key(m) /\ row.role # role
     THEN [m EXCEPT !.role = role] ELSE m : m \in table}

Without(table, rows) == {row \in table : ~InTable(row, rows)}

\* The primary key of a new row is one that no table and no session knows.
KnownMembers == members \cup UNION {req[s].caller \cup req[s].target : s \in Slot}
KnownInvites == invites \cup UNION {req[s].invite : s \in Slot}

NextGen(g, known, o, u) ==
  LET used == {row.gen : row \in {k \in known : k.org = o /\ k.user = u}}
  IN  g \notin used /\ \A h \in Gen : h < g => h \in used

----------------------------------------------------------------------------
(* The life of a request.                                                  *)

At(r, pc) == req[r].pc = pc

Become(r, q) == req' = [req EXCEPT ![r] = q]

GotoFresh(r, pc) == Become(r, Answered(pc))
Goto(r, pc) == Become(r, [req[r] EXCEPT !.pc = pc])

Succeed(r) == Become(r, Answered("done"))

Fail(r) == Become(r, Answered("failed"))

\* The process dies, the connection drops or the database aborts the
\* transaction before its commit: get_db rolls it back.
Rollback(r) ==
  /\ req[r].pc \notin Replied \cup {"transfer:reply"}
  /\ Fail(r)
  /\ UNCHANGED tables

\* The organization that require_org_member loads must be active.
SuspendedToo(o) == Exists(o)
OrgActive(o) == orgs[o] = "active"

\* require_org_member, first read: the organization of the token is active.
CheckOrg(r) == \E u \in User, o \in Org :
  /\ req[r].pc \in Replied
  /\ orgs[o] # "absent"
  /\ IF OrgActive(o)
       THEN Become(r, [Answered("member") EXCEPT !.user = u, !.org = o])
       ELSE Fail(r)
  /\ UNCHANGED tables

\* require_org_member, second read: the caller is one of its members.
CheckMember(r) ==
  /\ At(r, "member")
  /\ LET rows == MemberRows(req[r].org, req[r].user) IN
       IF OneRow(rows)
         THEN Become(r, [req[r] EXCEPT !.pc = "authorised", !.caller = rows])
         ELSE Fail(r)
  /\ UNCHANGED tables

\* require_org_role(min_role), on the membership as it was loaded.
AnyRole(r, min_role) == req[r].caller # {}
HasRole(r, min_role) ==
  \E c \in req[r].caller : ROLE_RANK[c.role] >= ROLE_RANK[min_role]

\* The routes compare the org_id of the path with the token's.
AnyPath(r, min_role, path_org) == HasRole(r, min_role)
Admitted(r, min_role, path_org) == HasRole(r, min_role) /\ path_org = req[r].org

----------------------------------------------------------------------------
(* Organizations.                                                          *)

\* create_org: the slug is free, or 409.
CreateOrgCheck(r) == \E u \in User, o \in Org :
  /\ req[r].pc \in Replied
  /\ orgs[o] # "deleted"
  /\ IF orgs[o] = "absent"
       THEN Become(r, [Answered("create_org") EXCEPT !.user = u, !.org = o])
       ELSE Fail(r)
  /\ UNCHANGED tables

\* The organization and its owner are inserted; slug is UNIQUE.
CreateOrg(r) ==
  /\ At(r, "create_org")
  /\ LET o == req[r].org
         u == req[r].user IN
       IF orgs[o] = "absent"
         THEN /\ orgs' = [orgs EXCEPT ![o] = "active"]
              /\ \E g \in Gen :
                   /\ NextGen(g, KnownMembers, o, u)
                   /\ members' = members \cup
                        {[org |-> o, user |-> u, gen |-> g, role |-> "owner"]}
              /\ Succeed(r)
         ELSE Fail(r) /\ UNCHANGED <<orgs, members>>
  /\ UNCHANGED invites

\* update_org and delete_org read the organization again (get_org).
UpdateOrgCheck(r) == \E path_org \in Org :
  /\ At(r, "authorised")
  /\ IF Admitted(r, "admin", path_org) /\ Exists(path_org)
       THEN Become(r, [req[r] EXCEPT !.pc = "update_org",
                                     !.active = (orgs[path_org] = "active")])
       ELSE Fail(r)
  /\ UNCHANGED tables

\* is_active is flushed only when the payload changes the loaded value; the
\* flush or the refresh after it fails when the row is gone.
UpdateOrg(r) == \E is_active \in BOOLEAN :
  /\ At(r, "update_org")
  /\ IF Exists(req[r].org)
       THEN /\ orgs' = IF is_active = req[r].active THEN orgs
                       ELSE [orgs EXCEPT ![req[r].org] =
                               IF is_active THEN "active" ELSE "suspended"]
            /\ Succeed(r)
       ELSE Fail(r) /\ UNCHANGED orgs
  /\ UNCHANGED <<members, invites>>

DeleteOrgCheck(r) == \E path_org \in Org :
  /\ At(r, "authorised")
  /\ IF Admitted(r, "owner", path_org) /\ Exists(path_org)
       THEN Goto(r, "delete_org")
       ELSE Fail(r)
  /\ UNCHANGED tables

\* The children go with it: ORM cascade, and ON DELETE CASCADE for late ones.
DeleteOrg(r) ==
  /\ At(r, "delete_org")
  /\ orgs' = [orgs EXCEPT ![req[r].org] = "deleted"]
  /\ members' = {m \in members : m.org # req[r].org}
  /\ invites' = {i \in invites : i.org # req[r].org}
  /\ Succeed(r)

----------------------------------------------------------------------------
(* Members.                                                                *)

UpdateMemberCheck(r) == \E path_org \in Org, u \in User :
  /\ At(r, "authorised")
  /\ LET rows == Loaded(r, MemberRows(path_org, u)) IN
       IF Admitted(r, "manager", path_org) /\ OneRow(rows)
         THEN Become(r, [req[r] EXCEPT !.pc = "update_member", !.target = rows])
         ELSE Fail(r)
  /\ UNCHANGED tables

\* Nobody assigns a role as high as their own; the target's role is not looked at.
UpdateMember(r) == \E role \in PayloadRole :
  /\ At(r, "update_member")
  /\ IF /\ \A c \in req[r].caller : ROLE_RANK[role] < ROLE_RANK[c.role]
        /\ Flushable(Changed(req[r].target, role))
       THEN members' = SetRole(members, req[r].target, role) /\ Succeed(r)
       ELSE Fail(r) /\ UNCHANGED members
  /\ UNCHANGED <<orgs, invites>>

\* remove_member refuses the owner.
RemovableAnyRole(rows) == TRUE
Removable(rows) == \A m \in rows : m.role # "owner"

RemoveMemberCheck(r) == \E path_org \in Org, u \in User :
  /\ At(r, "authorised")
  /\ LET rows == Loaded(r, MemberRows(path_org, u)) IN
       IF /\ Admitted(r, "manager", path_org)
          /\ OneRow(rows)
          /\ Removable(rows)
         THEN Become(r, [req[r] EXCEPT !.pc = "remove_member", !.target = rows])
         ELSE Fail(r)
  /\ UNCHANGED tables

RemoveMember(r) ==
  /\ At(r, "remove_member")
  /\ members' = Without(members, req[r].target)
  /\ Succeed(r)
  /\ UNCHANGED <<orgs, invites>>

\* transfer_ownership, first read.  The path's org_id is not compared yet, and
\* a caller whose row is gone is passed over.
TransferCaller(r) ==
  /\ At(r, "authorised")
  /\ LET rows == Loaded(r, MemberRows(req[r].org, req[r].user)) IN
       IF HasRole(r, "owner") /\ (rows = {} \/ OneRow(rows))
         THEN Become(r, [req[r] EXCEPT !.pc = "transfer:new_owner", !.caller = rows])
         ELSE Fail(r)
  /\ UNCHANGED tables

TransferNewOwner(r) == \E u \in User :
  /\ At(r, "transfer:new_owner")
  /\ LET rows == Loaded(r, MemberRows(req[r].org, u)) IN
       IF OneRow(rows)
         THEN Become(r, [req[r] EXCEPT !.pc = "transfer", !.target = rows])
         ELSE Fail(r)
  /\ UNCHANGED tables

\* transfer_ownership demotes the caller, unless it is also the new owner.
DemotedNobody(r) == {}
Demoted(r) == req[r].caller \ req[r].target

\* The caller becomes admin, the new owner owner (last, so that handing over to
\* oneself changes nothing), in one flush: if both change and one of the rows is
\* gone, the other is written all the same.  The commit comes before the reply is
\* built.
Transfer(r) ==
  /\ At(r, "transfer")
  /\ IF Flushable(Changed(Demoted(r), "admin") \cup Changed(req[r].target, "owner"))
       THEN /\ members' = SetRole(SetRole(members, Demoted(r), "admin"), req[r].target, "owner")
            /\ Goto(r, "transfer:reply")
       ELSE Fail(r) /\ UNCHANGED members
  /\ UNCHANGED <<orgs, invites>>

\* get_org after the commit: 404 when the path names another organization or
\* the organization is gone.
TransferReply(r) == \E path_org \in Org :
  /\ At(r, "transfer:reply")
  /\ IF path_org = req[r].org /\ Exists(path_org) THEN Succeed(r) ELSE Fail(r)
  /\ UNCHANGED tables

----------------------------------------------------------------------------
(* Invitations.                                                            *)

\* invite_member: no pending invitation, expired ones included, or 409; the new
\* row is built in the session.
InviteCheck(r) == \E path_org \in Org, u \in Invitee, spelling \in Spelling,
                    role \in PayloadRole :
  /\ At(r, "authorised")
  /\ IF Admitted(r, "manager", path_org) /\ PendingRows(path_org, u, spelling) = {}
       THEN \E g \in Gen :
              /\ NextGen(g, KnownInvites, path_org, u)
              /\ Become(r, [req[r] EXCEPT !.pc = "invite",
                              !.invite = {[org |-> path_org, user |-> u, spelling |-> spelling,
                                           gen |-> g, role |-> role, accepted |-> FALSE,
                                           expired |-> FALSE]}])
       ELSE Fail(r)
  /\ UNCHANGED tables

\* INSERT: invitations.organization_id references organizations.
Invite(r) ==
  /\ At(r, "invite")
  /\ IF ForeignKey(req[r].org)
       THEN invites' = invites \cup req[r].invite /\ Succeed(r)
       ELSE Fail(r) /\ UNCHANGED invites
  /\ UNCHANGED <<orgs, members>>

\* revoke_invitation finds the invitation by id, accepted or not, or 404.
RevokeCheck(r) == \E path_org \in Org :
  /\ At(r, "authorised")
  /\ \/ /\ Admitted(r, "manager", path_org)
        /\ \E i \in invites :
             /\ i.org = path_org
             /\ Become(r, [req[r] EXCEPT !.pc = "revoke", !.invite = {i}])
     \/ Fail(r)
  /\ UNCHANGED tables

Revoke(r) ==
  /\ At(r, "revoke")
  /\ invites' = Without(invites, req[r].invite)
  /\ Succeed(r)
  /\ UNCHANGED <<orgs, members>>

\* accept_invitation: the token belongs to a pending, unexpired invitation to
\* the caller's own address.  Neither membership nor an active organization is
\* asked for.
AcceptInvite(r) == \E u \in Invitee :
  /\ req[r].pc \in Replied
  /\ \/ \E i \in invites :
          /\ Acceptable(i, u)
          /\ Become(r, [Answered("accept:member") EXCEPT !.user = u, !.org = i.org,
                                                         !.invite = {i}])
     \/ Fail(r)
  /\ UNCHANGED tables

AcceptCheckMember(r) ==
  /\ At(r, "accept:member")
  /\ IF MemberRows(req[r].org, req[r].user) = {} THEN Goto(r, "accept") ELSE Fail(r)
  /\ UNCHANGED tables

\* INSERT the membership (unique per organization and user, foreign key to the
\* organization) and UPDATE accepted_at, by primary key.
Accept(r) ==
  /\ At(r, "accept")
  /\ LET o == req[r].org
         u == req[r].user IN
       IF UniqueKey(o, u) /\ ForeignKey(o) /\ AllMatch(req[r].invite, invites)
         THEN /\ \E g \in Gen, i \in req[r].invite :
                   /\ NextGen(g, KnownMembers, o, u)
                   /\ members' = members \cup
                        {[org |-> o, user |-> u, gen |-> g, role |-> i.role]}
              /\ invites' = {IF InTable(i, req[r].invite)
                               THEN [i EXCEPT !.accepted = TRUE] ELSE i : i \in invites}
              /\ Succeed(r)
         ELSE Fail(r) /\ UNCHANGED <<members, invites>>
  /\ UNCHANGED orgs

\* 48 hours pass.
Expire == \E i \in invites :
  /\ ~i.accepted /\ ~i.expired
  /\ invites' = (invites \ {i}) \cup {[i EXCEPT !.expired = TRUE]}
  /\ UNCHANGED <<orgs, members, req>>

----------------------------------------------------------------------------
Init ==
  /\ orgs = [o \in Org |-> "absent"]
  /\ members = {}
  /\ invites = {}
  /\ req = [r \in Slot |-> Answered("done")]

Authorise(r) == CheckOrg(r) \/ CheckMember(r)

OrgOps(r) ==
  \/ CreateOrgCheck(r) \/ CreateOrg(r)
  \/ UpdateOrgCheck(r) \/ UpdateOrg(r)
  \/ DeleteOrgCheck(r) \/ DeleteOrg(r)

MemberOps(r) ==
  \/ UpdateMemberCheck(r) \/ UpdateMember(r)
  \/ RemoveMemberCheck(r) \/ RemoveMember(r)
  \/ TransferCaller(r) \/ TransferNewOwner(r) \/ Transfer(r) \/ TransferReply(r)

InviteOps(r) ==
  \/ InviteCheck(r) \/ Invite(r)
  \/ RevokeCheck(r) \/ Revoke(r)
  \/ AcceptInvite(r) \/ AcceptCheckMember(r) \/ Accept(r)

Next ==
  \/ \E r \in Slot : Authorise(r) \/ OrgOps(r) \/ MemberOps(r) \/ InviteOps(r) \/ Rollback(r)
  \/ Expire

Spec == Init /\ [][Next]_vars

----------------------------------------------------------------------------
(* Properties.                                                             *)

\* The variables have the types of the tables and of the requests.
TypeOK ==
  /\ orgs \in [Org -> OrgState]
  /\ members \in SUBSET OrgMember
  /\ invites \in SUBSET Invitation
  /\ req \in [Slot -> Request]

\* A user has at most one membership per organization, although accept_invitation
\* checks for one in an earlier statement than its INSERT.
UniqueMembership ==
  \A m, n \in members : m.org = n.org /\ m.user = n.user => m = n

\* A membership or an invitation never outlives its organization, whatever
\* requests are in flight when delete_org commits.
NoOrphans == \A row \in members \cup invites : Exists(row.org)

\* Suspended, and nothing that passed require_org_member's check is in flight.
Locked(o) == orgs[o] = "suspended" /\ \A r \in Slot : req[r].pc \in Gated => req[r].org # o

\* Once an organization is suspended and no request that passed the check of
\* require_org_member is in flight, no request ever makes it active again (or
\* deletes it): update_org, the only writer of is_active, is behind that check.
SuspensionIsFinal == [][\A o \in Org : Locked(o) => Locked(o)']_vars

\* How a row of org_members came to be there.
JoinedBy(m) ==
  \/ InTable(m, members)
  \/ orgs[m.org] = "absent"
  \/ \E i \in invites : /\ i.org = m.org /\ i.user = m.user /\ i.role = m.role
                        /\ [i EXCEPT !.accepted = TRUE] \in invites'

\* A user joins an existing organization only with an invitation of that
\* organization, to that user and for that role, which is still there when the
\* membership is committed and is then marked accepted: revoking an invitation
\* beats an acceptance that has read it already.
JoinsByInvitation == [][\A m \in members' : JoinedBy(m)]_members

\* An invitation that was accepted, and that no request has read to accept it again.
UsedUp(i) ==
  /\ i.accepted
  /\ \A r \in Slot : req[r].pc \in {"accept:member", "accept"} => ~InTable(i, req[r].invite)

\* Once the acceptances that read an invitation before it was accepted are over,
\* it admits nobody again, whoever leaves or is removed: until it is revoked no
\* request gets hold of it to accept it.
UsedUpStays == [][\A i \in invites : UsedUp(i) /\ i \in invites' => UsedUp(i)']_vars

SameAddress(i, j) == i.org = j.org /\ i.user = j.user /\ i.spelling = j.spelling

\* A request that found no pending invitation to the address is about to insert one.
OnItsWay(i) == \E r \in Slot : At(r, "invite") /\ \E j \in req[r].invite : SameAddress(i, j)

\* Only invitations whose pending checks overlapped give an address a second
\* pending invitation: while it has one, and none on its way, none is inserted and
\* no request starts to insert one.
OneInviteAtATime ==
  [][\A i \in invites : ~i.accepted /\ ~OnItsWay(i) =>
       /\ \A j \in invites' \ invites : ~j.accepted /\ SameAddress(i, j) => InTable(j, invites)
       /\ ~OnItsWay(i)']_<<invites, req>>

Owners(o) == {m \in members : m.org = o /\ m.role = "owner"}

\* The owner's own row is the one update_member writes to; the member that is
\* removed or made owner, or the owner who hands over, is no longer what the
\* request has read.
Overtaken(r) ==
  \/ At(r, "update_member") /\ \E m \in members : InTable(m, req[r].target) /\ m.role = "owner"
  \/ At(r, "remove_member") /\ ~(req[r].target \subseteq members)
  \/ At(r, "transfer") /\ ~(/\ req[r].target \subseteq members
                           /\ \E c \in req[r].caller : c \in members /\ c.role = "owner")

\* An organization that has one owner keeps having one, through every interleaving
\* of transfers, removals, role changes, acceptances and rollbacks.  Three commits
\* alone can end that: update_member on the owner, and a removal or a transfer that
\* another commit has overtaken since it read the rows it writes.
OneOwnerKept ==
  [][\A o \in Org :
       members' # members /\ OneRow(Owners(o)) /\ Exists(o)' =>
         \/ OneRow(Owners(o)')
         \/ \E r \in Slot : req[r].org = o /\ req[r] # req'[r] /\ Overtaken(r)]_members

\* What the database holds of an organization, the passing of time left out.
RowsOf(o) ==
  <<orgs[o], {m \in members : m.org = o},
    {[i EXCEPT !.expired = FALSE] : i \in {j \in invites : j.org = o}}>>

\* The step changes it (the first conjunct, which the second implies, is cheaper).
Touched(o) == tables' # tables /\ RowsOf(o)' # RowsOf(o)

\* The rows of an organization change only by a request that carries a token of
\* that organization or creates it, or that accepts its invitation: whatever
\* requests of other organizations, which may name it in their path, do meanwhile.
OrganizationsApart ==
  [][\A o \in Org : Touched(o) => \E r \in Slot : req[r].org = o /\ req[r] # req'[r]]_tables

\* The role that each route demands of the caller: docs/api/API.md says "admin+"
\* where the routes have "manager".
DemandedRole == [pc \in {"update_org", "delete_org", "update_member", "remove_member",
                         "transfer", "invite", "revoke"} |->
  CASE pc = "update_org" -> "admin"
    [] pc \in {"delete_org", "transfer"} -> "owner"
    [] OTHER -> "manager"]

\* A request about to write for o, whose caller had the role of its route in o when
\* its membership was read.
Entitled(r, o) ==
  /\ req[r].pc \in DOMAIN DemandedRole
  /\ \E c \in req[r].caller :
       /\ c.org = o /\ c.user = req[r].user
       /\ ROLE_RANK[c.role] >= ROLE_RANK[DemandedRole[req[r].pc]]

\* The rows of an existing organization change only by a request of that
\* organization whose caller was a member of it, of the role the route demands,
\* when the request read its membership (a demotion or removal since then does
\* not stop it), by accepting one of its invitations or by time passing.  Only a
\* transfer reads its caller again, and goes on without an owner.
ChangesAreAuthorised ==
  [][\A o \in Org :
       Touched(o) /\ orgs[o] # "absent" =>
         \E r \in Slot : /\ req[r].org = o /\ req[r] # req'[r]
                        /\ \/ At(r, "accept")
                           \/ Entitled(r, o)
                           \/ At(r, "transfer") /\ Overtaken(r)]_tables

----------------------------------------------------------------------------
(* What the documents promise and the code does not keep.                  *)

\* Never two owners ("only one active Owner at a time", docs/SRS.md).
AtMostOneOwner ==
  \A m, n \in members : m.org = n.org /\ m.role = "owner" /\ n.role = "owner" => m = n

\* Unless the organization is deleted, a membership that is removed is not the
\* owner's (remove_member: "Transfer ownership before removing the owner").
OwnerNotRemoved ==
  [][\A m \in members : m.role = "owner" => InTable(m, members') \/ ~Exists(m.org)']_members
=============================================================================
