--------------------------- MODULE OrgRulesProofs ---------------------------
(***************************************************************************)
(* The rules of an organization, for any number of concurrent requests:    *)
(* which commits can end its having one owner, who may change it, and how  *)
(* often an address is invited and an invitation accepted.  None of the    *)
(* handlers locks what it reads, so that each rule is proved from what a   *)
(* request still knows when it commits: the role it has checked, the rows  *)
(* it holds (which the table may no longer have), and the primary keys,    *)
(* which no other row ever gets.                                           *)
(***************************************************************************)
EXTENDS OrgMembershipProofs

----------------------------------------------------------------------------
(* What a request carries from its checks to its commit.                   *)

\* Its caller's rows are the caller's, and hold the role of its route; it does not
\* remove an owner; it hands ownership from at most one row to exactly one.
Proper(q) ==
  /\ \A c \in q.caller : c.user = q.user
  /\ q.pc \in DOMAIN DemandedRole \ {"transfer"} =>
       \E c \in q.caller : ROLE_RANK[c.role] >= ROLE_RANK[DemandedRole[q.pc]]
  /\ q.pc = "remove_member" => Removable(q.target)
  /\ q.pc \in {"transfer:new_owner", "transfer"} => q.caller = {} \/ OneRow(q.caller)
  /\ q.pc = "transfer" => OneRow(q.target)

AllProper == \A r \in Slot : Proper(req[r])

\* The routes that demand a role, and those of them that a request goes through
\* without reading its caller again.
LEMMA Demands ==
  /\ DOMAIN DemandedRole = {"update_org", "delete_org", "update_member", "remove_member",
                            "transfer", "invite", "revoke"}
  /\ DemandedRole["update_org"] = "admin"
  /\ DemandedRole["delete_org"] = "owner" /\ DemandedRole["transfer"] = "owner"
  /\ \A pc \in {"update_member", "remove_member", "invite", "revoke"} :
       DemandedRole[pc] = "manager"
BY DEF DemandedRole

\* A request that moves on to a proper state.
LEMMA BecomeProper ==
  ASSUME TypeOK, AllProper, NEW r \in Slot, NEW q, Become(r, q), Proper(q)
  PROVE  AllProper'
BY DEF Become, AllProper, TypeOK

\* A request that holds no rows of members and is at none of the routes.
LEMMA FreshProper ==
  ASSUME TypeOK, AllProper, NEW r \in Slot, NEW q, Become(r, q), q.caller = {},
         q.pc \in Replied \cup {"member", "create_org", "accept:member"}
  PROVE  AllProper'
<1>1. /\ q.pc \notin DOMAIN DemandedRole
      /\ q.pc \notin {"remove_member", "transfer:new_owner", "transfer"}
  BY Demands DEF Replied
<1>2. Proper(q) BY <1>1 DEF Proper
<1> QED BY <1>2, BecomeProper

\* Replying.
LEMMA ReplyProper ==
  ASSUME TypeOK, AllProper, NEW r \in Slot, Fail(r) \/ Succeed(r) PROVE AllProper'
<1>1. \A reply : Answered(reply).pc = reply /\ Answered(reply).caller = {} BY DEF Answered
<1> QED BY <1>1, FreshProper DEF Fail, Succeed, Replied

\* Passing the role check of a route, with the caller's rows as they were.
LEMMA AdmittedProper ==
  ASSUME TypeOK, AllProper, NEW r \in Slot, NEW q, Become(r, q),
         q.user = req[r].user, q.caller = req[r].caller,
         q.pc \in DOMAIN DemandedRole \ {"transfer"},
         HasRole(r, DemandedRole[q.pc]),
         q.pc = "remove_member" => Removable(q.target)
  PROVE  AllProper'
<1>1. q.pc \notin {"transfer:new_owner", "transfer"} BY Demands
<1>2. \A c \in q.caller : c.user = q.user BY DEF AllProper, Proper
<1>3. \E c \in q.caller : ROLE_RANK[c.role] >= ROLE_RANK[DemandedRole[q.pc]] BY DEF HasRole
<1>4. Proper(q) BY <1>1, <1>2, <1>3 DEF Proper
<1> QED BY <1>4, BecomeProper

\* require_org_member and rollbacks.
LEMMA AuthoriseProper ==
  ASSUME TypeOK, AllProper, NEW r \in Slot, Authorise(r) \/ Rollback(r) PROVE AllProper'
<1>1. CASE Fail(r) BY <1>1, ReplyProper
<1>2. CASE CheckOrg(r)
  <2>1. \A u, o : /\ [Answered("member") EXCEPT !.user = u, !.org = o].pc = "member"
                  /\ [Answered("member") EXCEPT !.user = u, !.org = o].caller = {}
    BY DEF Answered
  <2> QED BY <1>1, <1>2, <2>1, FreshProper DEF CheckOrg
<1>3. CASE CheckMember(r)
  <2> DEFINE rows == MemberRows(req[r].org, req[r].user)
             q == [req[r] EXCEPT !.pc = "authorised", !.caller = rows]
  <2>1. q.pc = "authorised" /\ q.caller = rows /\ q.user = req[r].user
    BY DEF TypeOK, Request, Session
  <2>2. \A c \in rows : c.user = req[r].user BY DEF MemberRows
  <2>3. Become(r, q) \/ Fail(r) BY <1>3 DEF CheckMember
  <2> HIDE DEF q, rows
  <2>4. Proper(q) BY <2>1, <2>2, Demands DEF Proper
  <2> QED BY <1>1, <2>3, <2>4, BecomeProper
<1> QED BY <1>1, <1>2, <1>3 DEF Authorise, Rollback

\* The routes on organizations.
LEMMA OrgOpsProper ==
  ASSUME TypeOK, AllProper, NEW r \in Slot, OrgOps(r) PROVE AllProper'
<1>0. req[r] \in Request BY DEF TypeOK
<1>1. CASE Fail(r) \/ Succeed(r) BY <1>1, ReplyProper
<1>2. CASE CreateOrgCheck(r)
  <2>1. \A u, o : /\ [Answered("create_org") EXCEPT !.user = u, !.org = o].pc = "create_org"
                  /\ [Answered("create_org") EXCEPT !.user = u, !.org = o].caller = {}
    BY DEF Answered
  <2> QED BY <1>1, <1>2, <2>1, FreshProper DEF CreateOrgCheck
<1>3. CASE UpdateOrgCheck(r)
  <2>1. ASSUME NEW b, HasRole(r, "admin"),
               Become(r, [req[r] EXCEPT !.pc = "update_org", !.active = b])
        PROVE  AllProper'
    <3> DEFINE q == [req[r] EXCEPT !.pc = "update_org", !.active = b]
    <3>1. q.pc = "update_org" /\ q.caller = req[r].caller /\ q.user = req[r].user
      BY <1>0 DEF Request, Session
    <3>2. Become(r, q) BY <2>1
    <3> HIDE DEF q
    <3> QED BY <2>1, <3>1, <3>2, AdmittedProper, Demands
  <2> QED BY <1>1, <1>3, <2>1 DEF UpdateOrgCheck, Admitted
<1>4. CASE DeleteOrgCheck(r)
  <2> DEFINE q == [req[r] EXCEPT !.pc = "delete_org"]
  <2>1. q.pc = "delete_org" /\ q.caller = req[r].caller /\ q.user = req[r].user
    BY <1>0 DEF Request, Session
  <2>2. (HasRole(r, "owner") /\ Become(r, q)) \/ Fail(r)
    BY <1>4 DEF DeleteOrgCheck, Admitted, Goto
  <2> HIDE DEF q
  <2> QED BY <1>1, <2>1, <2>2, AdmittedProper, Demands
<1> QED
  BY <1>1, <1>2, <1>3, <1>4 DEF OrgOps, CreateOrg, UpdateOrg, DeleteOrg

\* The routes on members.
LEMMA MemberOpsProper ==
  ASSUME TypeOK, AllProper, NEW r \in Slot, MemberOps(r) PROVE AllProper'
<1>0. req[r] \in Request /\ Proper(req[r]) BY DEF TypeOK, AllProper
<1>1. CASE Fail(r) \/ Succeed(r) BY <1>1, ReplyProper
<1>2. ASSUME NEW pc \in {"update_member", "remove_member"}, NEW rows, HasRole(r, "manager"),
             pc = "remove_member" => Removable(rows),
             Become(r, [req[r] EXCEPT !.pc = pc, !.target = rows])
      PROVE  AllProper'
  <2> DEFINE q == [req[r] EXCEPT !.pc = pc, !.target = rows]
  <2>1. /\ q.pc = pc /\ q.target = rows
        /\ q.caller = req[r].caller /\ q.user = req[r].user
    BY <1>0 DEF Request, Session
  <2>2. Become(r, q) BY <1>2
  <2> HIDE DEF q
  <2> QED BY <1>2, <2>1, <2>2, AdmittedProper, Demands
<1>3. CASE UpdateMemberCheck(r) \/ RemoveMemberCheck(r)
  BY <1>1, <1>2, <1>3 DEF UpdateMemberCheck, RemoveMemberCheck, Admitted
<1>4. CASE TransferCaller(r)
  <2> DEFINE rows == Loaded(r, MemberRows(req[r].org, req[r].user))
             q == [req[r] EXCEPT !.pc = "transfer:new_owner", !.caller = rows]
  <2>1. q.pc = "transfer:new_owner" /\ q.caller = rows /\ q.user = req[r].user
    BY <1>0 DEF Request, Session
  <2>2. \A c \in rows : c.user = req[r].user BY <1>0 DEF Loaded, MemberRows, Proper
  <2>3. (Become(r, q) /\ (rows = {} \/ OneRow(rows))) \/ Fail(r) BY <1>4 DEF TransferCaller
  <2> HIDE DEF q, rows
  <2>4. CASE Become(r, q) /\ (rows = {} \/ OneRow(rows))
    <3>1. Proper(q) BY <2>1, <2>2, <2>4, Demands DEF Proper
    <3> QED BY <2>4, <3>1, BecomeProper
  <2> QED BY <1>1, <2>3, <2>4
<1>5. CASE TransferNewOwner(r)
  <2>1. ASSUME NEW rows, OneRow(rows),
               Become(r, [req[r] EXCEPT !.pc = "transfer", !.target = rows])
        PROVE  AllProper'
    <3> DEFINE q == [req[r] EXCEPT !.pc = "transfer", !.target = rows]
    <3>1. /\ q.pc = "transfer" /\ q.target = rows
          /\ q.caller = req[r].caller /\ q.user = req[r].user
      BY <1>0 DEF Request, Session
    <3>2. Become(r, q) BY <2>1
    <3>3. q.caller = {} \/ OneRow(q.caller)
      BY <1>0, <1>5, <3>1 DEF Proper, TransferNewOwner, At
    <3> HIDE DEF q
    <3>4. Proper(q) BY <1>0, <2>1, <3>1, <3>3 DEF Proper
    <3> QED BY <3>2, <3>4, BecomeProper
  <2> QED BY <1>1, <1>5, <2>1 DEF TransferNewOwner
<1>6. CASE Transfer(r)
  <2> DEFINE q == [req[r] EXCEPT !.pc = "transfer:reply"]
  <2>1. q.pc = "transfer:reply" /\ q.caller = req[r].caller /\ q.user = req[r].user
    BY <1>0 DEF Request, Session
  <2>2. Become(r, q) \/ Fail(r) BY <1>6 DEF Transfer, Goto
  <2> HIDE DEF q
  <2>3. Proper(q) BY <1>0, <2>1, Demands DEF Proper
  <2> QED BY <1>1, <2>2, <2>3, BecomeProper
<1> QED
  BY <1>1, <1>3, <1>4, <1>5, <1>6 DEF MemberOps, UpdateMember, RemoveMember, TransferReply

\* The routes on invitations.
LEMMA InviteOpsProper ==
  ASSUME TypeOK, AllProper, NEW r \in Slot, InviteOps(r) PROVE AllProper'
<1>0. req[r] \in Request /\ Proper(req[r]) BY DEF TypeOK, AllProper
<1>1. CASE Fail(r) \/ Succeed(r) BY <1>1, ReplyProper
<1>2. ASSUME NEW pc \in {"invite", "revoke"}, NEW rows, HasRole(r, "manager"),
             Become(r, [req[r] EXCEPT !.pc = pc, !.invite = rows])
      PROVE  AllProper'
  <2> DEFINE q == [req[r] EXCEPT !.pc = pc, !.invite = rows]
  <2>1. q.pc = pc /\ q.caller = req[r].caller /\ q.user = req[r].user
    BY <1>0 DEF Request, Session
  <2>2. Become(r, q) BY <1>2
  <2> HIDE DEF q
  <2> QED BY <1>2, <2>1, <2>2, AdmittedProper, Demands
<1>3. CASE InviteCheck(r) \/ RevokeCheck(r)
  BY <1>1, <1>2, <1>3 DEF InviteCheck, RevokeCheck, Admitted
<1>4. CASE AcceptInvite(r)
  <2>1. \A u, i :
          /\ [Answered("accept:member") EXCEPT !.user = u, !.org = i.org,
                                               !.invite = {i}].pc = "accept:member"
          /\ [Answered("accept:member") EXCEPT !.user = u, !.org = i.org,
                                               !.invite = {i}].caller = {}
    BY DEF Answered
  <2> QED BY <1>1, <1>4, <2>1, FreshProper DEF AcceptInvite
<1>5. CASE AcceptCheckMember(r)
  <2> DEFINE q == [req[r] EXCEPT !.pc = "accept"]
  <2>1. q.pc = "accept" /\ q.caller = req[r].caller /\ q.user = req[r].user
    BY <1>0 DEF Request, Session
  <2>2. Become(r, q) \/ Fail(r) BY <1>5 DEF AcceptCheckMember, Goto
  <2> HIDE DEF q
  <2>3. Proper(q) BY <1>0, <2>1, Demands DEF Proper
  <2> QED BY <1>1, <2>2, <2>3, BecomeProper
<1> QED BY <1>1, <1>3, <1>4, <1>5 DEF InviteOps, Invite, Revoke, Accept

\* Every step keeps AllProper.
LEMMA ProperStep == ASSUME TypeOK, AllProper, [Next]_vars PROVE AllProper'
<1>1. CASE UNCHANGED vars \/ Expire BY <1>1 DEF vars, Expire, AllProper
<1> QED
  BY <1>1, AuthoriseProper, OrgOpsProper, MemberOpsProper, InviteOpsProper DEF Next

\* Whatever is in flight, a request acts on the checks of its route.
LEMMA ProperInvariant == Spec => []AllProper
<1>1. Init => AllProper
  <2>1. /\ Answered("done").pc = "done" /\ Answered("done").caller = {}
        /\ "done" \notin DOMAIN DemandedRole
    BY Demands DEF Answered
  <2> QED BY <2>1 DEF Init, AllProper, Proper
<1>2. TypeOK /\ AllProper /\ [Next]_vars => AllProper' BY ProperStep
<1> QED BY <1>1, <1>2, TypeCorrect, PTL DEF Spec

\* Memberships that requests hold are of their own organization.
LEMMA MembersOwnOrgInvariant == Spec => []MembersOwnOrg
<1>1. Init => MembersOwnOrg BY DEF Init, MembersOwnOrg, Answered
<1>2. TypeOK /\ MembersOwnOrg /\ [Next]_vars => MembersOwnOrg' BY OwnMembersStep
<1> QED BY <1>1, <1>2, TypeCorrect, PTL DEF Spec

----------------------------------------------------------------------------
(* Who changes an organization.                                            *)

\* A commit of a route is that of a caller who had its role.
LEMMA EntitledWrite ==
  ASSUME AllProper, MembersOwnOrg, NEW r \in Slot, req[r].pc \in DOMAIN DemandedRole
  PROVE  Entitled(r, req[r].org) \/ (At(r, "transfer") /\ Overtaken(r))
<1>1. Proper(req[r]) /\ \A c \in req[r].caller : c.org = req[r].org /\ c.user = req[r].user
  BY DEF AllProper, Proper, MembersOwnOrg
<1>2. CASE req[r].pc # "transfer" BY <1>1, <1>2 DEF Proper, Entitled
<1>3. CASE req[r].pc = "transfer" /\ ~Overtaken(r)
  <2>1. PICK c \in req[r].caller : c.role = "owner" BY <1>3 DEF Overtaken, At
  <2>2. ROLE_RANK[c.role] >= ROLE_RANK[DemandedRole[req[r].pc]]
    BY <1>3, <2>1, Demands DEF ROLE_RANK, Role
  <2> QED BY <1>1, <2>1, <2>2 DEF Entitled
<1> QED BY <1>2, <1>3 DEF At

\* Every step that changes the rows of an organization is one the property allows.
LEMMA AuthorisedStep ==
  ASSUME Consistent, MembersOwnOrg, AllProper, Next, NEW o \in Org, orgs[o] # "absent",
         RowsOf(o)' # RowsOf(o)
  PROVE  \E r \in Slot : /\ req[r].org = o /\ req[r] # req'[r]
                         /\ \/ At(r, "accept")
                            \/ Entitled(r, o)
                            \/ At(r, "transfer") /\ Overtaken(r)
<1>1. TypeOK /\ InvitesOwnOrg BY DEF Consistent
<1>2. PICK r \in Slot : Authorise(r) \/ OrgOps(r) \/ MemberOps(r) \/ InviteOps(r) \/ Rollback(r)
  BY <1>1, RowsAfterExpire DEF Next
<1>3. req[r].org = o BY <1>1, <1>2, OnlyOwnOrg, RowsKept
<1>4. ~UNCHANGED tables BY DEF tables, RowsOf
<1>5. ~CreateOrg(r) BY <1>3, <1>4 DEF CreateOrg, tables
<1>6. At(r, "accept") \/ req[r].pc \in DOMAIN DemandedRole
  BY <1>1, <1>2, <1>4, <1>5, WriteMoves, Demands
     DEF UpdateOrg, DeleteOrg, UpdateMember, RemoveMember, Transfer, Invite, Revoke, Accept, At
<1>7. req[r] # req'[r] BY <1>1, <1>2, <1>4, WriteMoves
<1> QED BY <1>3, <1>6, <1>7, EntitledWrite

\* However requests interleave, what an existing organization holds is changed only by
\* a request of its own whose caller had the role of the route when it was read, by an
\* acceptance, or by a transfer whose caller is no longer the owner.
THEOREM ChangesAreAuthorisedHolds == Spec => ChangesAreAuthorised
<1>1. Consistent /\ MembersOwnOrg /\ AllProper /\ [Next]_vars
        => [\A o \in Org :
              Touched(o) /\ orgs[o] # "absent" =>
                \E r \in Slot : /\ req[r].org = o /\ req[r] # req'[r]
                               /\ \/ At(r, "accept")
                                  \/ Entitled(r, o)
                                  \/ At(r, "transfer") /\ Overtaken(r)]_tables
  BY AuthorisedStep DEF vars, tables, Touched
<1> QED
  BY <1>1, ConsistentInvariant, ProperInvariant, MembersOwnOrgInvariant, PTL
     DEF Spec, ChangesAreAuthorised

----------------------------------------------------------------------------
(* One owner.                                                              *)

\* Assigning another role than owner makes no owner.
LEMMA SetRoleMakesNoOwner ==
  ASSUME NEW table \in SUBSET OrgMember, NEW rows, NEW role \in Role, role # "owner",
         NEW n \in SetRole(table, rows, role), n.role = "owner"
  PROVE  n \in table
<1>1. PICK m \in table : n = IF \E row \in rows : Key(row) = Key(m) /\ row.role # role
                               THEN [m EXCEPT !.role = role] ELSE m
  BY SetRoleRows
<1>2. [m EXCEPT !.role = role].role = role BY DEF OrgMember
<1> QED BY <1>1, <1>2

\* Rows whose key is not among those assigned to stay as they are.
LEMMA SetRoleSpares ==
  ASSUME NEW table, NEW rows, NEW role, NEW m \in table, ~InTable(m, rows)
  PROVE  m \in SetRole(table, rows, role)
BY DEF SetRole, InTable

\* Assigning a role keeps the primary keys.
LEMMA SetRoleKeeps ==
  ASSUME NEW table \in SUBSET OrgMember, NEW rows, NEW role, NEW m \in table
  PROVE  InTable(m, SetRole(table, rows, role))
<1> DEFINE n == IF \E row \in rows : Key(row) = Key(m) /\ row.role # role
                  THEN [m EXCEPT !.role = role] ELSE m
<1>1. n \in SetRole(table, rows, role) BY DEF SetRole
<1>2. Key(n) = Key(m) BY DEF Key, OrgMember
<1> QED BY <1>1, <1>2 DEF InTable

\* A step that changes no owner's row of an organization keeps its owners.
LEMMA SameOwners ==
  ASSUME NEW o, \A m : m.org = o /\ m.role = "owner" => (m \in members' <=> m \in members)
  PROVE  Owners(o)' = Owners(o)
BY DEF Owners

\* update_member makes no owner, and unmakes none unless it writes to one.
LEMMA UpdateMemberOwners ==
  ASSUME TypeOK, NEW r \in Slot, UpdateMember(r), ~Overtaken(r), NEW o
  PROVE  Owners(o)' = Owners(o)
<1>1. CASE members' = members BY <1>1 DEF Owners
<1>2. ASSUME NEW role \in PayloadRole, members' = SetRole(members, req[r].target, role)
      PROVE  Owners(o)' = Owners(o)
  <2>1. role \in Role /\ role # "owner" BY OrgAssumption DEF ASSIGNABLE_ROLES
  <2>2. \A m : m.role = "owner" /\ m \in members' => m \in members
    BY <1>2, <2>1, SetRoleMakesNoOwner DEF TypeOK
  <2>3. \A m \in members : m.role = "owner" => ~InTable(m, req[r].target)
    BY DEF Overtaken, UpdateMember, At
  <2>4. \A m \in members : m.role = "owner" => m \in members'
    BY <1>2, <2>3, SetRoleSpares
  <2> QED BY <2>2, <2>4, SameOwners
<1> QED BY <1>1, <1>2 DEF UpdateMember

\* remove_member deletes a row whose role it has checked, unless the row has changed.
LEMMA RemoveMemberOwners ==
  ASSUME UniqueMembership, AllProper, NEW r \in Slot, RemoveMember(r), ~Overtaken(r), NEW o
  PROVE  Owners(o)' = Owners(o)
<1>1. req[r].target \subseteq members /\ Removable(req[r].target)
  BY DEF AllProper, Proper, Overtaken, RemoveMember, At
<1>2. \A m \in members : m.role = "owner" => ~InTable(m, req[r].target)
  BY <1>1 DEF UniqueMembership, InTable, Key, Removable
<1>3. \A m \in members : m.role = "owner" => m \in members'
  BY <1>2 DEF RemoveMember, Without
<1>4. \A m : m \in members' => m \in members BY DEF RemoveMember, Without
<1> QED BY <1>3, <1>4, SameOwners

\* A transfer of ownership that has not been overtaken makes its new owner the only one.
LEMMA TransferOwners ==
  ASSUME Consistent, AllProper, MembersOwnOrg, NEW r \in Slot, Transfer(r), ~Overtaken(r),
         NEW o, o = req[r].org, OneRow(Owners(o))
  PROVE  OneRow(Owners(o)')
<1>1. TypeOK /\ UniqueMembership BY DEF Consistent
<1>2. PICK t : req[r].target = {t} BY DEF AllProper, Proper, Transfer, At, OneRow
<1>3. PICK c \in members : req[r].caller = {c} /\ c.role = "owner"
  BY DEF AllProper, Proper, Transfer, At, OneRow, Overtaken
<1>4. t \in members BY <1>2 DEF Overtaken, Transfer, At
<1>5. t.org = o /\ c.org = o BY <1>2, <1>3 DEF MembersOwnOrg
<1>6. Owners(o) = {c} BY <1>3, <1>5 DEF Owners, OneRow
<1>7. UniqueMembership' BY MemberOpsConsistent DEF MemberOps
<1>8. CASE members' = members BY <1>8 DEF Owners
<1> DEFINE demoted == SetRole(members, Demoted(r), "admin")
<1>9. CASE members' = SetRole(demoted, {t}, "owner")
  <2>1. demoted \in SUBSET OrgMember BY <1>1, SetRoleType DEF TypeOK, Role
  <2>2. \A n \in demoted : n.role = "owner" => n \in members
    BY <1>1, SetRoleMakesNoOwner DEF TypeOK, Role
  <2>3. CASE t = c
    <3>1. Demoted(r) = {} BY <1>2, <1>3, <2>3 DEF Demoted
    <3>2. demoted = members BY <3>1 DEF SetRole
    <3>3. members' = members
      <4>1. \A row \in {t} : row.role = "owner" BY <1>3, <2>3
      <4> QED BY <1>9, <3>2, <4>1 DEF SetRole
    <3> QED BY <1>8, <3>3
  <2>4. CASE t # c
    <3>1. t.role # "owner" BY <1>4, <1>5, <1>6, <2>4 DEF Owners
    <3>2. PICK n \in demoted : Key(n) = Key(t)
      BY <1>1, <1>4, SetRoleKeeps DEF TypeOK, InTable
    <3>3. c \notin demoted
      <4>1. Demoted(r) = {c} BY <1>2, <1>3, <2>4 DEF Demoted
      <4>2. ASSUME c \in demoted PROVE FALSE
        <5>0. c \in SetRole(members, {c}, "admin") BY <4>1, <4>2
        <5>1. PICK m \in members : /\ m.org = c.org /\ m.user = c.user
                                   /\ c = IF \E row \in {c} : Key(row) = Key(m) /\ row.role # "admin"
                                            THEN [m EXCEPT !.role = "admin"] ELSE m
          <6>1. members \in SUBSET OrgMember BY <1>1 DEF TypeOK
          <6> QED BY <5>0, <6>1, SetRoleRows
        <5>2. m = c BY <1>1, <1>3, <5>1 DEF UniqueMembership
        <5>3. [c EXCEPT !.role = "admin"].role = "admin" BY <1>1, <1>3 DEF TypeOK, OrgMember
        <5> QED BY <1>3, <5>1, <5>2, <5>3
      <4> QED BY <4>2
    <3> DEFINE new == [n EXCEPT !.role = "owner"]
    <3>4. new.org = o /\ new.role = "owner" /\ new.user = t.user
      BY <1>5, <2>1, <3>2 DEF OrgMember, Key
    <3>5. new \in members' BY <1>9, <3>1, <3>2 DEF SetRole
    <3> HIDE DEF new, demoted
    <3>6. ASSUME NEW m \in members', m.org = o, m.role = "owner" PROVE m = new
      <4>1. CASE m.user = t.user BY <1>7, <3>4, <3>5, <3>6, <4>1 DEF UniqueMembership
      <4>2. CASE m.user # t.user
        <5>1. m \in demoted BY <1>9, <2>1, <3>6, <4>2, SetRoleOthers
        <5>2. m \in members BY <2>2, <3>6, <5>1
        <5>3. m = c BY <1>6, <3>6, <5>2 DEF Owners
        <5> QED BY <3>3, <5>1, <5>3
      <4> QED BY <4>1, <4>2
    <3>7. Owners(o)' = {new} BY <3>4, <3>5, <3>6 DEF Owners
    <3> QED BY <3>7 DEF OneRow
  <2> QED BY <2>3, <2>4
<1> QED BY <1>2, <1>8, <1>9 DEF Transfer

\* No other step that leaves the organization there touches its owners.
LEMMA OtherOwners ==
  ASSUME Consistent, NEW o \in Org, Next, Exists(o)', OneRow(Owners(o)),
         \A r \in Slot : ~UpdateMember(r) /\ ~RemoveMember(r) /\ ~Transfer(r)
  PROVE  Owners(o)' = Owners(o)
<1>1. TypeOK /\ NoOrphans BY DEF Consistent
<1>2. CASE members' = members BY <1>2 DEF Owners
<1>3. ASSUME NEW r \in Slot, CreateOrg(r) PROVE Owners(o)' = Owners(o)
  <2>1. Exists(o) BY <1>1 DEF OneRow, Owners, NoOrphans
  <2>2. CASE orgs[req[r].org] = "absent"
    <3>1. PICK g \in Gen : members' = members \cup
            {[org |-> req[r].org, user |-> req[r].user, gen |-> g, role |-> "owner"]}
      BY <1>3, <2>2 DEF CreateOrg
    <3>2. req[r].org # o BY <2>1, <2>2 DEF Exists
    <3>3. \A m : m.org = o => (m \in members' <=> m \in members) BY <3>1, <3>2
    <3> QED BY <3>3, SameOwners
  <2>3. CASE orgs[req[r].org] # "absent" BY <1>2, <1>3, <2>3 DEF CreateOrg
  <2> QED BY <2>2, <2>3
<1>4. ASSUME NEW r \in Slot, DeleteOrg(r) PROVE Owners(o)' = Owners(o)
  <2>1. req[r].org # o BY <1>1, <1>4 DEF DeleteOrg, TypeOK, Exists
  <2>2. \A m : m.org = o => (m \in members' <=> m \in members) BY <1>4, <2>1 DEF DeleteOrg
  <2> QED BY <2>2, SameOwners
<1>5. ASSUME NEW r \in Slot, Accept(r) PROVE Owners(o)' = Owners(o)
  <2>1. ASSUME NEW g, NEW i \in req[r].invite,
               members' = members \cup
                 {[org |-> req[r].org, user |-> req[r].user, gen |-> g, role |-> i.role]}
        PROVE  Owners(o)' = Owners(o)
    <3>1. i.role # "owner" BY <1>1 DEF TypeOK, Request, Session, Invitation, ASSIGNABLE_ROLES
    <3>2. \A m : m.role = "owner" => (m \in members' <=> m \in members) BY <2>1, <3>1
    <3> QED BY <3>2, SameOwners
  <2> QED BY <1>2, <1>5, <2>1 DEF Accept
<1>6. ASSUME NEW r \in Slot, OrgOps(r) PROVE Owners(o)' = Owners(o)
  BY <1>2, <1>3, <1>4, <1>6
     DEF OrgOps, CreateOrgCheck, UpdateOrgCheck, UpdateOrg, DeleteOrgCheck, tables
<1>7. ASSUME NEW r \in Slot, MemberOps(r) PROVE members' = members
  BY <1>7 DEF MemberOps, UpdateMemberCheck, RemoveMemberCheck, TransferCaller,
              TransferNewOwner, TransferReply, tables
<1>8. ASSUME NEW r \in Slot, InviteOps(r) PROVE Owners(o)' = Owners(o)
  BY <1>2, <1>5, <1>8
     DEF InviteOps, InviteCheck, Invite, RevokeCheck, Revoke, AcceptInvite,
         AcceptCheckMember, tables
<1>9. ASSUME NEW r \in Slot, Authorise(r) \/ Rollback(r) PROVE members' = members
  BY <1>9 DEF Authorise, CheckOrg, CheckMember, Rollback, tables
<1>10. CASE Expire BY <1>2, <1>10 DEF Expire
<1> QED BY <1>2, <1>6, <1>7, <1>8, <1>9, <1>10 DEF Next

\* Every step that ends an organization's having one owner is an overtaken one.
LEMMA OwnerStep ==
  ASSUME Consistent, MembersOwnOrg, AllProper, Next, NEW o \in Org, OneRow(Owners(o)),
         Exists(o)', ~OneRow(Owners(o)')
  PROVE  \E r \in Slot : req[r].org = o /\ req[r] # req'[r] /\ Overtaken(r)
<1>1. TypeOK /\ InvitesOwnOrg /\ UniqueMembership BY DEF Consistent
<1>2. Owners(o)' # Owners(o) OBVIOUS
<1>3. PICK r \in Slot : UpdateMember(r) \/ RemoveMember(r) \/ Transfer(r)
  BY <1>2, OtherOwners
<1>4. MemberOps(r) BY <1>3 DEF MemberOps
<1>5. req[r].org = o
  <2>1. ~Untouched(o)
    <3>1. ASSUME Untouched(o) PROVE FALSE
      <4>1. \A m : m.org = o => (m \in members' <=> m \in members) BY <3>1 DEF Untouched
      <4> QED BY <1>2, <4>1, SameOwners
    <3> QED BY <3>1
  <2> QED BY <1>1, <1>4, <2>1, OnlyOwnOrg
<1>6. ~UNCHANGED tables BY <1>2 DEF tables, Owners
<1>7. req[r] # req'[r] BY <1>1, <1>4, <1>6, WriteMoves
<1>8. Overtaken(r)
  BY <1>1, <1>2, <1>3, <1>5, UpdateMemberOwners, RemoveMemberOwners, TransferOwners
<1> QED BY <1>5, <1>7, <1>8

\* Among all the interleavings of any number of requests, an organization that has one
\* owner stops having one only by update_member on the owner, or by a removal or a
\* transfer whose rows have changed since it read them.
THEOREM OneOwnerKeptHolds == Spec => OneOwnerKept
<1>1. Consistent /\ MembersOwnOrg /\ AllProper /\ [Next]_vars
        => [\A o \in Org :
              members' # members /\ OneRow(Owners(o)) /\ Exists(o)' =>
                \/ OneRow(Owners(o)')
                \/ \E r \in Slot : req[r].org = o /\ req[r] # req'[r] /\ Overtaken(r)]_members
  BY OwnerStep DEF vars
<1> QED
  BY <1>1, ConsistentInvariant, ProperInvariant, MembersOwnOrgInvariant, PTL
     DEF Spec, OneOwnerKept

----------------------------------------------------------------------------
(* Invitations.                                                            *)

\* Primary keys of invitations: no two rows share one, and the row that invite_member
\* is about to insert shares none with the table or with another request's rows.
InviteKeys ==
  /\ \A i, j \in invites : Key(i) = Key(j) => i = j
  /\ \A r \in Slot : At(r, "invite") =>
       /\ OneRow(req[r].invite)
       /\ \A i \in req[r].invite : /\ ~InTable(i, invites)
                                   /\ \A s \in Slot \ {r} : ~InTable(i, req[s].invite)

\* Which steps can add to the table or change a row of it.
LEMMA InviteWriters ==
  ASSUME Next, ~Expire, \A r \in Slot : ~Invite(r) /\ ~Accept(r) PROVE invites' \subseteq invites
<1> PICK r \in Slot : Authorise(r) \/ OrgOps(r) \/ MemberOps(r) \/ InviteOps(r) \/ Rollback(r)
  BY DEF Next
<1>1. CASE Authorise(r) \/ Rollback(r)
  BY <1>1 DEF Authorise, CheckOrg, CheckMember, Rollback, tables
<1>2. CASE OrgOps(r)
  BY <1>2 DEF OrgOps, CreateOrgCheck, CreateOrg, UpdateOrgCheck, UpdateOrg, DeleteOrgCheck,
              DeleteOrg, tables
<1>3. CASE MemberOps(r)
  BY <1>3 DEF MemberOps, UpdateMemberCheck, UpdateMember, RemoveMemberCheck, RemoveMember,
              TransferCaller, TransferNewOwner, Transfer, TransferReply, tables
<1>4. CASE InviteOps(r)
  BY <1>4 DEF InviteOps, InviteCheck, RevokeCheck, Revoke, Without, AcceptInvite,
              AcceptCheckMember, tables
<1> QED BY <1>1, <1>2, <1>3, <1>4

\* Every step but INSERT leaves the table with keys it had, each of one row.
LEMMA KeysKept ==
  ASSUME TypeOK, InviteKeys, Next, \A r \in Slot : ~Invite(r)
  PROVE  /\ \A i \in invites' : InTable(i, invites)
         /\ \A i, j \in invites' : Key(i) = Key(j) => i = j
<1>1. CASE invites' \subseteq invites BY <1>1 DEF InTable, InviteKeys
<1>2. \A i \in invites : Key([i EXCEPT !.accepted = TRUE]) = Key(i)
                         /\ Key([i EXCEPT !.expired = TRUE]) = Key(i)
  BY DEF TypeOK, Invitation, Key
<1>3. CASE Expire
  <2>1. PICK e \in invites : invites' = (invites \ {e}) \cup {[e EXCEPT !.expired = TRUE]}
    BY <1>3 DEF Expire
  <2>2. PICK late : late = [e EXCEPT !.expired = TRUE] OBVIOUS
  <2>3. Key(late) = Key(e) BY <1>2, <2>2
  <2>4. invites' = (invites \ {e}) \cup {late} BY <2>1, <2>2
  <2> QED BY <2>3, <2>4 DEF InTable, InviteKeys
<1>4. ASSUME NEW r \in Slot, Accept(r), invites' # invites
      PROVE  /\ \A i \in invites' : InTable(i, invites)
             /\ \A i, j \in invites' : Key(i) = Key(j) => i = j
  <2> DEFINE marked(i) == IF InTable(i, req[r].invite) THEN [i EXCEPT !.accepted = TRUE] ELSE i
  <2>1. invites' = {marked(i) : i \in invites} BY <1>4 DEF Accept
  <2>2. \A i \in invites : Key(marked(i)) = Key(i) BY <1>2
  <2> HIDE DEF marked
  <2>3. \A i \in invites' : InTable(i, invites) BY <2>1, <2>2 DEF InTable
  <2>4. \A i, j \in invites : Key(marked(i)) = Key(marked(j)) => i = j BY <2>2 DEF InviteKeys
  <2>5. \A i, j \in invites' : Key(i) = Key(j) => i = j BY <2>1, <2>4
  <2> QED BY <2>3, <2>5
<1> QED BY <1>1, <1>3, <1>4, InviteWriters

\* A request that moves on without building an invitation disturbs no key, when the
\* table gets rows of known keys only.
LEMMA MovedKeys ==
  ASSUME TypeOK, InviteKeys, NEW r \in Slot, NEW q, Become(r, q), q.pc # "invite",
         q.invite \subseteq req[r].invite \cup invites,
         \A i \in invites' : InTable(i, req[r].invite \cup invites),
         \A i, j \in invites' : Key(i) = Key(j) => i = j
  PROVE  InviteKeys'
<1>1. req'[r] = q /\ \A s \in Slot \ {r} : req'[s] = req[s] BY DEF Become, TypeOK
<1>2. ASSUME NEW s \in Slot, req'[s].pc = "invite"
      PROVE  /\ OneRow(req'[s].invite)
             /\ \A i \in req'[s].invite :
                  /\ ~InTable(i, invites')
                  /\ \A t \in Slot \ {s} : ~InTable(i, req'[t].invite)
  <2>1. s # r /\ req'[s] = req[s] /\ At(s, "invite") BY <1>1, <1>2 DEF At
  <2>2. OneRow(req[s].invite) BY <2>1 DEF InviteKeys
  <2>3. \A i \in req[s].invite : /\ ~InTable(i, invites)
                                 /\ \A t \in Slot \ {s} : ~InTable(i, req[t].invite)
    BY <2>1 DEF InviteKeys
  <2>4. \A i \in req[s].invite : ~InTable(i, req[r].invite \cup invites)
    BY <2>1, <2>3 DEF InTable
  <2>5. \A i \in req[s].invite : ~InTable(i, invites') /\ ~InTable(i, q.invite)
    BY <2>4 DEF InTable
  <2> QED BY <1>1, <2>1, <2>2, <2>3, <2>5
<1>3. \A s \in Slot : At(s, "invite")' <=> req'[s].pc = "invite" BY DEF At
<1> QED BY <1>2, <1>3 DEF InviteKeys, OneRow, InTable, Key

\* invite_member builds a row whose key neither the table nor a request has.
LEMMA InviteCheckKeys ==
  ASSUME TypeOK, InviteKeys, NEW r \in Slot, InviteCheck(r) PROVE InviteKeys'
<1>1. invites' = invites BY DEF InviteCheck, tables
<1>2. CASE Fail(r)
  <2>1. Answered("failed").pc # "invite" /\ Answered("failed").invite = {} BY DEF Answered
  <2>2. \A i \in invites' : InTable(i, req[r].invite \cup invites) BY <1>1 DEF InTable
  <2>3. \A i, j \in invites' : Key(i) = Key(j) => i = j BY <1>1 DEF InviteKeys
  <2> QED BY <1>2, <2>1, <2>2, <2>3, MovedKeys DEF Fail
<1>3. ASSUME NEW o, NEW u, NEW g, NextGen(g, KnownInvites, o, u),
             NEW n, n.org = o, n.user = u, n.gen = g,
             Become(r, [req[r] EXCEPT !.pc = "invite", !.invite = {n}])
      PROVE  InviteKeys'
  <2>1. req'[r].invite = {n} /\ \A s \in Slot \ {r} : req'[s] = req[s]
    BY <1>3 DEF Become, TypeOK, Request, Session
  <2>2. \A k \in KnownInvites : Key(k) # Key(n) BY <1>3 DEF NextGen, Key
  <2>3. ~InTable(n, invites) /\ \A s \in Slot : ~InTable(n, req[s].invite)
    BY <2>2 DEF InTable, KnownInvites
  <2>4. /\ OneRow(req'[r].invite)
        /\ \A i \in req'[r].invite : /\ ~InTable(i, invites)
                                     /\ \A s \in Slot \ {r} : ~InTable(i, req'[s].invite)
    BY <2>1, <2>3 DEF OneRow
  <2>5. ASSUME NEW s \in Slot \ {r}, At(s, "invite")
        PROVE  /\ OneRow(req'[s].invite)
               /\ \A i \in req'[s].invite :
                    /\ ~InTable(i, invites)
                    /\ \A t \in Slot \ {s} : ~InTable(i, req'[t].invite)
    <3>1. /\ OneRow(req[s].invite)
          /\ \A i \in req[s].invite : /\ ~InTable(i, invites)
                                      /\ \A t \in Slot \ {s} : ~InTable(i, req[t].invite)
      BY <2>5 DEF InviteKeys
    <3>2. \A i \in req[s].invite : ~InTable(i, {n}) BY <2>3 DEF InTable
    <3> QED BY <2>1, <3>1, <3>2
  <2>6. \A s \in Slot \ {r} : At(s, "invite")' <=> At(s, "invite") BY <2>1 DEF At
  <2>7. \A i, j \in invites' : Key(i) = Key(j) => i = j BY <1>1 DEF InviteKeys
  <2> QED BY <1>1, <2>4, <2>5, <2>6, <2>7 DEF InviteKeys, OneRow, InTable, Key
<1> QED
  <2>1. ASSUME NEW o, NEW u, NEW spelling, NEW role, NEW g, NextGen(g, KnownInvites, o, u),
               Become(r, [req[r] EXCEPT !.pc = "invite",
                            !.invite = {[org |-> o, user |-> u, spelling |-> spelling,
                                         gen |-> g, role |-> role, accepted |-> FALSE,
                                         expired |-> FALSE]}])
        PROVE  InviteKeys'
    <3>1. PICK n : n = [org |-> o, user |-> u, spelling |-> spelling, gen |-> g,
                        role |-> role, accepted |-> FALSE, expired |-> FALSE]
      OBVIOUS
    <3>2. n.org = o /\ n.user = u /\ n.gen = g BY <3>1
    <3> QED BY <1>3, <2>1, <3>1, <3>2
  <2> QED BY <1>2, <2>1 DEF InviteCheck

\* Every step keeps InviteKeys.
LEMMA InviteKeysStep == ASSUME TypeOK, InviteKeys, [Next]_vars PROVE InviteKeys'
<1>1. CASE UNCHANGED vars BY <1>1 DEF vars, InviteKeys, At, OneRow, InTable, Key
<1>2. CASE Expire
  <2>1. ASSUME NEW r \in Slot, Invite(r) PROVE FALSE
    <3>1. req'[r].pc # "invite" BY <2>1 DEF Invite, Succeed, Fail, Become, Answered, TypeOK
    <3> QED BY <1>2, <2>1, <3>1 DEF Expire, Invite, At
  <2>2. /\ \A i \in invites' : InTable(i, invites)
        /\ \A i, j \in invites' : Key(i) = Key(j) => i = j
    BY <1>2, <2>1, KeysKept DEF Next
  <2>3. req' = req BY <1>2 DEF Expire
  <2>4. \A r \in Slot : At(r, "invite") => \A i \in req[r].invite : ~InTable(i, invites')
    BY <2>2 DEF InviteKeys, InTable
  <2> QED BY <2>2, <2>3, <2>4 DEF InviteKeys, At, OneRow, InTable, Key
<1>3. ASSUME NEW r \in Slot,
             Authorise(r) \/ OrgOps(r) \/ MemberOps(r) \/ InviteOps(r) \/ Rollback(r)
      PROVE  InviteKeys'
  <2>1. CASE InviteCheck(r) BY <2>1, InviteCheckKeys
  <2>2. CASE Invite(r)
    <3>1. PICK q : Become(r, q) /\ q.pc # "invite" /\ q.invite = {}
      <4>1. \A reply \in Replied : Answered(reply).pc # "invite" /\ Answered(reply).invite = {}
        BY DEF Answered, Replied
      <4> QED BY <2>2, <4>1 DEF Invite, Succeed, Fail, Replied
    <3>2. invites' \subseteq req[r].invite \cup invites BY <2>2 DEF Invite
    <3>3. \A i \in invites' : InTable(i, req[r].invite \cup invites) BY <3>2 DEF InTable
    <3>4. \A i, j \in req[r].invite \cup invites : Key(i) = Key(j) => i = j
      BY <2>2 DEF Invite, InviteKeys, OneRow, InTable, At
    <3> QED BY <3>1, <3>2, <3>3, <3>4, MovedKeys
  <2>3. CASE ~InviteCheck(r) /\ ~Invite(r)
    <3>1. PICK q : /\ Become(r, q) /\ q.pc # "invite"
                   /\ q.invite \subseteq req[r].invite \cup invites
      BY <1>3, <2>3, HeldAfter
    <3>2. ASSUME NEW s \in Slot, Invite(s), invites' # invites PROVE FALSE
      <4>1. At(s, "invite") /\ req'[s].pc = "done"
        BY <3>2 DEF Invite, Succeed, Become, Answered, TypeOK
      <4>2. s = r BY <3>1, <4>1 DEF Become, TypeOK, At
      <4> QED BY <2>3, <3>2, <4>2
    <3>3. /\ \A i \in invites' : InTable(i, invites)
          /\ \A i, j \in invites' : Key(i) = Key(j) => i = j
      <4>1. CASE invites' = invites BY <4>1 DEF InTable, InviteKeys
      <4>2. CASE invites' # invites
        <5>1. \A s \in Slot : ~Invite(s) BY <3>2, <4>2
        <5>2. Next BY <1>3 DEF Next
        <5> QED BY <5>1, <5>2, KeysKept
      <4> QED BY <4>1, <4>2
    <3>4. \A i \in invites' : InTable(i, req[r].invite \cup invites) BY <3>3 DEF InTable
    <3> QED BY <3>1, <3>3, <3>4, MovedKeys
  <2> QED BY <2>1, <2>2, <2>3
<1> QED BY <1>1, <1>2, <1>3 DEF Next

\* An accepted invitation that nobody is accepting is never taken up again: a request
\* that starts to accept finds a row that is not accepted, hence of another key.
LEMMA UsedUpStep ==
  ASSUME TypeOK, InviteKeys, Next, NEW i \in invites, UsedUp(i), i \in invites'
  PROVE  UsedUp(i)'
<1>1. i.accepted /\ \A s \in Slot : req[s].pc \in Accepting => ~InTable(i, req[s].invite)
  BY DEF UsedUp, Accepting
<1>2. \A s \in Slot : req'[s].pc \in Accepting => ~InTable(i, req'[s].invite)
  <2>1. CASE Expire BY <1>1, <2>1 DEF Expire
  <2>2. ASSUME NEW r \in Slot, NEW q, Become(r, q),
               q.pc \in Accepting => ~InTable(i, q.invite)
        PROVE  \A s \in Slot : req'[s].pc \in Accepting => ~InTable(i, req'[s].invite)
    BY <1>1, <2>2 DEF Become, TypeOK
  <2>3. ASSUME NEW r \in Slot,
               Authorise(r) \/ OrgOps(r) \/ MemberOps(r) \/ InviteOps(r) \/ Rollback(r)
        PROVE  \A s \in Slot : req'[s].pc \in Accepting => ~InTable(i, req'[s].invite)
    <3>1. CASE InviteCheck(r)
      <4>1. req[r] \in Request BY DEF TypeOK
      <4>2. \A x : [req[r] EXCEPT !.pc = "invite", !.invite = x].pc \notin Accepting
        BY <4>1 DEF Request, Session, Accepting
      <4>3. Answered("failed").pc \notin Accepting BY DEF Answered, Accepting
      <4> QED BY <2>2, <3>1, <4>2, <4>3 DEF InviteCheck, Fail
    <3>2. CASE ~InviteCheck(r)
      <4>1. PICK q :
              /\ Become(r, q)
              /\ \/ q.pc \notin Accepting
                 \/ \A j \in q.invite : j \in invites /\ Acceptable(j, q.user)
                 \/ req[r].pc \in Accepting /\ q.user = req[r].user /\ q.invite = req[r].invite
        BY <2>3, <3>2, HeldAfter
      <4>2. ASSUME \A j \in q.invite : j \in invites /\ Acceptable(j, q.user)
            PROVE  ~InTable(i, q.invite)
        BY <1>1, <4>2 DEF InTable, InviteKeys, Acceptable
      <4> QED BY <1>1, <2>2, <4>1, <4>2
    <3> QED BY <3>1, <3>2
  <2> QED BY <2>1, <2>3 DEF Next
<1>3. \A s \in Slot : req'[s].pc \in {"accept:member", "accept"} => ~InTable(i, req'[s].invite)
  BY <1>2 DEF Accepting
<1> QED BY <1>1, <1>3 DEF UsedUp, InTable, Key

\* However requests interleave, an invitation admits nobody again once the acceptances
\* that read it before it was accepted are over.
THEOREM UsedUpStaysHolds == Spec => UsedUpStays
<1>1. Init => InviteKeys BY DEF Init, InviteKeys, Answered, At
<1>2. TypeOK /\ InviteKeys /\ [Next]_vars => InviteKeys' BY InviteKeysStep
<1>3. TypeOK /\ InviteKeys /\ [Next]_vars
        => [\A i \in invites : UsedUp(i) /\ i \in invites' => UsedUp(i)']_vars
  BY UsedUpStep
<1> QED BY <1>1, <1>2, <1>3, TypeCorrect, PTL DEF Spec, UsedUpStays

\* An address with a pending invitation and none on its way gets no other.
LEMMA PendingStep ==
  ASSUME TypeOK, Next, NEW i \in invites, ~OnItsWay(i),
         NEW j \in invites' \ invites, ~j.accepted, SameAddress(i, j)
  PROVE  InTable(j, invites)
<1>1. CASE Expire
  <2>1. PICK e \in invites : invites' = (invites \ {e}) \cup {[e EXCEPT !.expired = TRUE]}
    BY <1>1 DEF Expire
  <2>2. j = [e EXCEPT !.expired = TRUE] BY <2>1
  <2>3. Key(e) = Key(j) BY <2>2 DEF TypeOK, Invitation, Key
  <2> QED BY <2>3 DEF InTable
<1>2. ASSUME NEW r \in Slot, Invite(r) PROVE FALSE
  <2>1. invites' = invites \cup req[r].invite \/ invites' = invites BY <1>2 DEF Invite
  <2>2. j \in req[r].invite BY <2>1
  <2> QED BY <1>2, <2>2 DEF Invite, OnItsWay
<1>3. ASSUME NEW r \in Slot, Accept(r) PROVE FALSE
  <2>1. \A k \in invites : [k EXCEPT !.accepted = TRUE].accepted BY DEF TypeOK, Invitation
  <2>2. CASE invites' = {IF InTable(k, req[r].invite)
                           THEN [k EXCEPT !.accepted = TRUE] ELSE k : k \in invites}
    BY <2>1, <2>2
  <2> QED BY <1>3, <2>2 DEF Accept
<1> QED BY <1>1, <1>2, <1>3, InviteWriters

\* While it has one, no request gets as far as inserting another.
LEMMA SettledStep ==
  ASSUME TypeOK, Next, NEW i \in invites, ~i.accepted, ~OnItsWay(i)
  PROVE  ~OnItsWay(i)'
<1> DEFINE Elsewhere(q) == q.pc = "invite" => \A j \in q.invite : ~SameAddress(i, j)
<1>1. \A s \in Slot : Elsewhere(req[s]) BY DEF OnItsWay, At
<1>2. \A s \in Slot : Elsewhere(req'[s])
  <2>1. CASE Expire BY <1>1, <2>1 DEF Expire
  <2>2. ASSUME NEW r \in Slot, NEW q, Become(r, q), Elsewhere(q)
        PROVE  \A s \in Slot : Elsewhere(req'[s])
    <3>1. req'[r] = q /\ \A s \in Slot \ {r} : req'[s] = req[s] BY <2>2 DEF Become, TypeOK
    <3> HIDE DEF Elsewhere
    <3> QED BY <1>1, <2>2, <3>1
  <2>3. ASSUME NEW r \in Slot,
               Authorise(r) \/ OrgOps(r) \/ MemberOps(r) \/ InviteOps(r) \/ Rollback(r)
        PROVE  \A s \in Slot : Elsewhere(req'[s])
    <3>1. CASE ~InviteCheck(r)
      <4>1. PICK q : Become(r, q) /\ q.pc # "invite" BY <2>3, <3>1, HeldAfter
      <4> QED BY <2>2, <4>1
    <3>2. CASE InviteCheck(r)
      <4>1. CASE Fail(r)
        <5>1. Elsewhere(Answered("failed")) BY DEF Answered
        <5> QED BY <2>2, <4>1, <5>1 DEF Fail
      <4>2. ASSUME NEW o, NEW u, NEW spelling, NEW role, NEW g,
                   PendingRows(o, u, spelling) = {},
                   Become(r, [req[r] EXCEPT !.pc = "invite",
                                !.invite = {[org |-> o, user |-> u, spelling |-> spelling,
                                             gen |-> g, role |-> role, accepted |-> FALSE,
                                             expired |-> FALSE]}])
            PROVE  \A s \in Slot : Elsewhere(req'[s])
        <5>1. PICK n : n = [org |-> o, user |-> u, spelling |-> spelling, gen |-> g,
                            role |-> role, accepted |-> FALSE, expired |-> FALSE]
          OBVIOUS
        <5>2. n.org = o /\ n.user = u /\ n.spelling = spelling BY <5>1
        <5>3. ~SameAddress(i, n) BY <4>2, <5>2 DEF SameAddress, PendingRows, InvitesTo
        <5>4. PICK q : q = [req[r] EXCEPT !.pc = "invite", !.invite = {n}] OBVIOUS
        <5>5. q.invite = {n} BY <5>4 DEF TypeOK, Request, Session
        <5>6. Elsewhere(q) BY <5>3, <5>5
        <5>7. Become(r, q) BY <4>2, <5>1, <5>4
        <5> HIDE DEF Elsewhere
        <5> QED BY <2>2, <5>6, <5>7
      <4> QED BY <3>2, <4>1, <4>2 DEF InviteCheck
    <3> QED BY <3>1, <3>2
  <2> QED BY <2>1, <2>3 DEF Next
<1>3. \A s \in Slot : req'[s].pc = "invite" => \A j \in req'[s].invite : ~SameAddress(i, j)
  BY <1>2
<1> QED BY <1>3 DEF OnItsWay, At, SameAddress

\* However requests interleave, a second pending invitation of an address comes only of
\* pending checks that overlapped.
THEOREM OneInviteAtATimeHolds == Spec => OneInviteAtATime
<1>1. TypeOK /\ [Next]_vars
        => [\A i \in invites : ~i.accepted /\ ~OnItsWay(i) =>
              /\ \A j \in invites' \ invites :
                   ~j.accepted /\ SameAddress(i, j) => InTable(j, invites)
              /\ ~OnItsWay(i)']_<<invites, req>>
  BY PendingStep, SettledStep DEF vars
<1> QED BY <1>1, TypeCorrect, PTL DEF Spec, OneInviteAtATime
=============================================================================
