# A TLA+ verification of the business automation platform

The platform is a FastAPI backend (`backend/app`), on PostgreSQL and Redis, with a
Next.js front end (`frontend/src`). Implemented at this commit are accounts and
login sessions, organizations, the rate limiter, the workflow builder's API and
its graph validator, and the front end of these. Execution, workers, AI, files,
analytics, notifications and the platform administration are stub files.

Seven modules model the parts that hold the program's own logic. TLC checks each
of them on small instances, TLAPS proves their safety properties for all values
of the constants, and four places where the code does not do what the docs promise
come out as counterexamples; section 4 has these and the others we know of.

## 1. The system: an inventory

| Component | State | Operations | What is hard | Correct when |
|---|---|---|---|---|
| organizations, members, invitations (`modules/organizations`) | tables `organizations`, `org_members`, `invitations` | create, update, suspend, delete an organization; change, remove a member; transfer ownership; invite, revoke, accept | every `await` lets another request commit; the session's identity map keeps what it has loaded; checks come before writes | one membership per user, no rows of deleted organizations, one owner, one open invitation per address, a used invitation admits nobody, only those entitled change anything, a suspended organization stays so |
| departments, API keys (same files) | tables `departments`, `api_keys`, `org_members.department_id` | create, rename, delete, assign; create, revoke, look up | nobody looks before writing a name; deletions of a department and of its organization race with rows read earlier; a key is revoked under a request that has looked it up | names unique and a taken name answered 409, nothing dangles, revoked keys useless, organizations apart |
| auth (`modules/auth`, `core/security`) | `session:{user}:{id}` keys in Redis, tables `users`, `password_reset_tokens` | register, verify, login, refresh (rotation), logout, forgot and reset password | GETDEL and SET are two commands with SELECTs between them; a reset SCANs while sessions rotate; flushes nobody commits | one live session per login, ended sessions stay ended, a rotation loses no login, a reset ends all |
| rate limiter (`core/rate_limit`) | a sorted set per key | `check_rate_limit` | the clock is read before the pipeline runs; the key expires; timestamps are the members | no window lets more than the limit through |
| database session (`core/database`) | one `AsyncSession` per request | `get_db` | closes without a commit | what was announced is there |
| workflow service (`modules/workflows`) | `workflows`, `workflow_versions`, `workflow_nodes`, `workflow_edges` | create, update, publish, revert, duplicate, archive, delete | pointers, JSON and rows say the same thing three times; nothing commits | versions are an append-only history, which a delete keeps; everything agrees; organizations are apart |
| graph validator (`workflows/validator.py`) | a depth-first search | `validate_graph` | recursion; the search goes on after a cycle with its marks left behind | cycles reported exactly; what is accepted can be run |
| API client, auth store (`frontend/src/lib`) | access token of a tab, cookie of the browser, shared `_refreshing` promise | 401, refresh, retry; login, logout | calls of a tab share a refresh, tabs share one cookie, answers are lost or late | one refresh at a time, no tab defeats itself, signed out stays signed out, no call hangs |
| workflow builder (`frontend/src/lib/stores/builder.store.ts`, `Toolbar.tsx`) | canvas, `isDirty` | load, edit, save, publish | stale canvas, two editors, save then publish | what is published is what was on the canvas |
| wiring (`main.py`, middleware, exceptions, config) | none | | | |

The routes of `organizations` check the caller through `auth/dependencies`
(`get_current_user`) and `organizations/dependencies` (`require_org_member`,
`require_org_role`), as those of `workflows` do; `publish` and `revert` call the
validator; login, register and the others of auth call the rate limiter. All
share state through PostgreSQL (READ COMMITTED, one session per request) and
Redis. `PROJECT.json` lists every component, and every hazard at its line.

**Who commits.** The routes of `organizations` call `db.commit()`. No route of
`auth` and no route of `workflows` does, and `get_db` closes the session without
one. What those requests flush is therefore visible to themselves alone, and gone
with the reply. The tests do not see this: `tests/conftest.py` gives every
request the same session. The models take the code at its word:
`AuthSessions` has an action `Outside` for whoever else commits rows of `users`,
and `WorkflowVersions` has a constant `SharedSession` that says which of the two
arrangements it runs in.

## 2. The modules

Each component's module is parameterised by constants with named assumptions and
has one action per step of the code. `MC...` modules give the constants values.
An operator that comes just before a mapped one and reads like a mistaken version
of it (`NoUniqueKey`, `ResetFindAny`, `FoundAnywhere`, `LastOnly`...) is a
fault that the code could have had: putting it in the place of its neighbour breaks
the property `PROJECT.json` names with it, which shows that the property can fail.
They are used nowhere else.

### OrgMembership: `modules/organizations`, statement by statement

State: `orgs` (absent, active, suspended, deleted), `members`, `invites`, and for
each slot the request `req` with its program counter and what its session has
loaded. A SELECT is one step, since the coroutine awaits it and other requests
commit meanwhile. Flush and commit are one step: row locks and keys order
conflicting writers. Rows carry a generation `gen`, because a deleted and
re-inserted row is not the row a session has loaded. The session's identity map is
modelled (`Loaded`: a row already held is not refreshed by a SELECT; `Flushable`: an
UPDATE that matches no row raises `StaleDataError` when it is flushed alone, and goes
unnoticed when several rows of a table are flushed together, since the driver reports no
count for an executemany: a transfer whose one row is gone writes the other; `Changed`:
an attribute that gets the value it has is not written; a DELETE that matches no row is
no error). An address is a user and a `Spelling`: `invite_member` looks for a pending
invitation of the exact spelling, `accept_invitation` compares in lower case. `UniqueKey` is the key the migration declares and the ORM class does not.
`Authorise` is `require_org_member` and `require_org_role`; then each route has
its actions (`UpdateMemberCheck`, `UpdateMember`, `TransferCaller`,
`TransferNewOwner`, `Transfer`, `TransferReply`, and so on).

### AuthSessions and LoginLineage: login sessions

State: the session keys in Redis, every session ever `issued`, the committed
`users` and `resets`, and the requests in flight. Redis commands are steps of their
own: `RefreshTake` is GETDEL, `RefreshUser` the SELECT, `RefreshStore` the SET;
`ResetScan` and `ResetDelete` are the SCAN and the DELs of a password reset. `Die` is
a process that dies anywhere; `Lapse` a key that expires or is evicted. `LoginLineage`
is the abstract specification: a login has at most one valid token, a valid token
is taken before its successor is given out, and what has ended stays ended.
A session's `login` is a history variable, which Redis does not hold: the properties are
about it and no guard reads it.
`AuthSessions` implements it (`ImplementsLineage`; the mapping reads a login's
phase off the keys and the refreshes in flight).

### OrgResources: departments and API keys

State: `orgs`, `departments`, `members` (with their department), `keys`, the ids ever
`used`, and the requests in flight, in the style of `OrgMembership`: `FindDepartment`
is the SELECT of `update_department` and of `delete_department`, `UpdateDepartment` and
`DeleteDepartment` their flush and commit; `InsertDepartment` is `create_department`'s
flush with its `except IntegrityError`, which a name that is taken (`UniqueName`) and an
organization that is gone (`ForeignKey`) both raise. A request ends in `conflict`
(that 409), in `error` (an exception nobody catches, a 500) or in `replied`, any other answer. `FindMember` and `Assign` are the
part of `update_member` that sets a department: any that exists, which is why `SetNull`
reaches members of other organizations. `LookUpKey`, `KeyOrg` and `TouchKey` are the three
statements of `get_org_by_api_key`; no route depends on `get_api_key_context` yet, so
the look-up is modelled as a request of its own. `UpdateOrg` and `DeleteOrg` suspend and
delete an organization under them. The member's role is left to `OrgMembership`:
`Authorise` admits any member of an active organization.

### ApiClient: the browser's side of a session

State: what each tab and the browser hold (`access` in sessionStorage, `cookie`,
`refreshing`), the application's calls, the POSTs to `/auth/refresh` in progress (`flight`),
and the server, which is an instance of `LoginLineage`: `AuthSessions` is proved to
implement it, so that a client that is right with the one is right with the other.
`Unauthorized` is the 401 branch of the response interceptor: the first 401 of a tab
starts a refresh, the others wait for it. `Renewed` and `GaveUp` are the two ends of
`refreshAccessToken` together with its `finally` and with everybody who awaits it, all in
one step, because the callbacks of a settled promise run before any other event.
`ServerTake`, `ServerGive` and `ServerEnd` are the server's steps; a flight that has no tab is
one the server works on for nobody. `Break` and `Reload` cut requests off anywhere; an
answer that is cut off may have brought its Set-Cookie. `Send` reads the access token, as
the request interceptor does; `LoggedIn` and `LoggedOut` are `login` and `logout` of the store.

### RateLimit: `check_rate_limit`

State: the clock, the sorted set, its expiry, the timestamps of requests in flight,
and those that were let through. `Stamp` is `time.time()`, `Execute` the
MULTI/EXEC pipeline and the verdict. Requests may reach Redis in another order than
they read the clock, at most `Latency` later.

### GraphValidator: `validate_graph`

The recursive `dfs` is a state machine with an explicit `stack` of frames (node,
neighbours still to look at), `visited`, `in_stack` and `errors`, and one action per
thing the loop does: `Root`, `Descend`, `Close` (a cycle: every frame returns at
once and `in_stack` keeps its nodes, as in the code), `Pass`, `Return`, `Overflow`
(RecursionError) and `Finish`. The order of nodes and edges is nondeterministic:
the result holds for every order. The checks of types, orphans and condition
branches are `TypeErrors`, `Orphans` and `BranchErrors`.

### WorkflowVersions and VersionHistory: `modules/workflows`

State: the rows of the tables as the next request sees them, and the last reply. A
request is one step: with sessions of their own requests cannot meet, because
nothing commits, and a shared session serves one at a time. `Publish` is
`publish_workflow` with the version, its rows and the pointers; `RevertWorkflow`
publishes an old definition again. `Flush` is the end of the request's session.
`VersionHistory` is the abstract specification: a workflow's published definitions
only ever grow at the end and are all valid; a deleted workflow never returns.
`Valid` stands for the definitions that the validator of `GraphValidator` accepts.
`VersionHistory.Delete` lets the history go or stay as a whole: the code hard-deletes,
the docs promise a soft delete, and either is a `VersionHistory` (see section 4).

`Publish` is atomic although the service flushes twice, the version first
(`service.py:170`), its rows and the pointers after (`:178`). When the second flush fails (a label
too long for its column, a position beyond 32 bits), SQLAlchemy rolls back the session's
transaction, the version included; nothing commits between the two, and no other
session reads uncommitted rows. With a session per request nothing is left of the
publication; in the test suite's shared session, which has joined the one transaction of
the test, all of the test's rows are gone and the behaviour is over. No state has a
version without its rows.

## 3. The runs

| Run | Question | Result |
|---|---|---|
| `org_concurrent` | two requests in flight, one organization | types, one membership per user, no orphans, suspension is final, nobody joins without an invitation that is still there, one owner stays one owner but for three named commits, every change is by someone whose role the request has checked, a used invitation admits nobody once the overlapping acceptances are over, only overlapping checks make a second invitation |
| `org_apart` | two organizations, tokens of the one and paths of the other, addresses in two spellings | no request touches another organization's rows; the rules on roles and invitations again |
| `org_two_owners` | at most one owner, with two transfers in flight? | no: see findings |
| `org_owner_removed` | can the owner not be removed? | no: see findings |
| `auth_rotation` | three requests in flight, three sessions | one session per login, ended stays ended, a disabled account gets none, implements `LoginLineage` |
| `auth_reset` | does a reset end all sessions? | no: see findings |
| `org_resources` | two requests in flight, two organizations that are suspended and deleted | unique names, no dangling references, dead keys stay dead, organizations apart |
| `api_client` | two tabs, two calls, two refreshes, one cookie | one refresh per tab, no tab is refused for its own refresh, signed out stays signed out, every call settles |
| `rate_window` | limit 2, three requests in flight | the window is kept |
| `graph_search` | all graphs of three nodes and three edges | exact cycle reports, culprits on cycles, accepted graphs runnable, termination |
| `workflow_shared` | any sequence of requests, one session | pointers, rows, isolation, append-only history |
| `workflow_lost` | is a created workflow there? | no: see findings |

**Bounds.**
- Organizations: two slots let any step of one request fall between two steps of
  another, which is where the hazards listed for this component lie; three are beyond
  a run of a few minutes, and the proved properties hold for any number. Generations 0
  and 1 tell a stale row from its successor. `org_concurrent` (a million states, two
  minutes) has two users, one of whom is invited, in one spelling, and `viewer` in its
  payloads: admins and owners come from transfers, and a demoted one can do nothing.
  `FewRows` bounds it to three rows of members and invitations together: the only
  larger states, of both memberships and two invitations, are checked but not
  continued. Two organizations and two spellings are checked one request at a time,
  from states of at most two invitations (`FewInvites`), which may be the same address
  in either spelling: the organization of a path is a matter of a single request's
  token, the case of an address one of the rows a single SELECT finds. `SeededInit` is
  a state that `create_org`, `invite_member` and `accept_invitation` lead to; it keeps
  the counterexamples short.
- Sessions: with three ids a login rotates twice, or a rotation runs next to
  another login; three slots hold a refresh, a rival refresh and a logout or reset.
- Departments and keys: two ids and two names let a name be taken, freed and taken
  again; the member of each organization can be in a department of the other; one key is
  created, looked up, revoked or left to expire, and deleted with its organization. The
  look-up and the revocation of a key overlap in the two slots.
- API client: a second tab is the rival for the cookie, a second call is the one that
  waits for somebody else's refresh or for its own tab's, and a flight that was cut
  off leaves one for the tab to try again. One login with two tokens is enough for a
  token to be spent and for its successor to be good or lost; the successor's own
  refresh ends the login. An attempt to log in is only made while the bound leaves a
  login. A token's expiry is a step of its own, taken when a call carries the token: an
  earlier one could not be told from it.
- Rate limiter: the horizon of 11 ticks exceeds twice the window, so that the key
  expires and is used again. `WindowBound` counts a stretch of `Window - Latency`:
  with the full window TLC finds a request let through after a later-stamped one
  has trimmed the set, as soon as the latency exceeds the time between them.
  Requests with one timestamp share a member of the set and are counted as one.
- Graphs: three nodes and three edges have self-loops, two-cycles, three-cycles, two
  triggers, diamonds, and edges whose ends are no nodes. Graphs that differ by a
  renaming are taken once (ids in order, triggers first). `SafeDepth` 2 lets a
  call's depth be exceeded.
- Workflows: two organizations with two workflows in all, two valid definitions
  and an invalid one, three versions: enough to publish, revert to each earlier
  version, delete and duplicate in between.

**Symmetry** is used for slots, session ids, spellings, users nobody invites, workflows,
organizations, department ids, names and definitions, which no definition singles out, in runs without liveness
properties.

**Deadlock** is checked everywhere but in `rate_window`, where the clock stops at
its horizon, and `graph_search`, where the call has returned.

**Fairness** is assumed twice. `GraphValidator` has `WF_vars(Next)`, because
`validate_graph` is a synchronous function that awaits nothing, so that nothing but
a crash of the process stops it. `ApiClient` has weak fairness of the steps of each call
and of each refresh, `Break` and `Reject` among them: a request is answered or its
connection fails in the end. The client sets no timeout, so that this is a promise of
TCP and of the servers; that anything succeeds, that a tab is left alone or
that a server answers at all is not assumed. The other specifications are safety
specifications: a request may stop anywhere (a dropped connection, a dead process),
and no property of theirs relies on progress.

## 4. Findings

- **Two owners** (`org_two_owners`, `organizations/service.py:237`). Two transfers by the
  same owner that both passed the role check promote two members.
- **The owner is removed** (`org_owner_removed`, `organizations/service.py:205`).
  `remove_member` looks at the role it has read; a transfer in between makes that member
  the owner.
- **Sessions survive a reset** (`auth_reset`, `auth/service.py:446`). A refresh between
  its GETDEL and its SET has no key for the reset's SCAN to find.
- **Nothing is saved** (`workflow_lost`, `workflows/router.py:71`). The reply is 201,
  the row is rolled back. The routes of auth have the same gap (`register`, at
  `auth/router.py:71`): `RegisterInsert` leaves no account behind.

The following also differ from the docs. They have no run: a single test shows each, or a
passing property names the behaviour as the exception that it is. The models have the
code's behaviour in every case, and a passing property does not mean that the docs
are kept.

- **No owner** (`organizations/service.py:184`). `update_member` compares the new role with
  the caller's rank, and never looks at the target's: an admin or manager demotes the
  owner, or the owner itself. `docs/database/DatabaseDesign.md:368` says "exactly one owner".
  `OneOwnerKept` names this commit (`Overtaken`).
- **Two invitations** (`:269`). Nothing but an earlier SELECT keeps two pending invitations
  of an address apart (`DatabaseDesign.md:418`); afterwards each further invitation of it
  fails. `OneInviteAtATime` says that overlapping checks are the only way there. The
  SELECT does not look at `expires_at` either: an expired invitation answers 409 although
  `docs/api/API.md:743` says "pending (unexpired)".
- **Managers manage** (`organizations/router.py:136`, `:157`, `:187`, `:204`). Changing and
  removing members, inviting and revoking ask for a manager; `API.md:664`, `:687`, `:719` and
  `:780` say `[org: admin+]`, and `docs/SRS.md:448-449` denies "Invite users" and "Manage
  roles" to managers. So it is with departments (`router.py:250`, `:265`, `:283` against
  `API.md:836`, `:854`, `:866`). Creating, updating, publishing and duplicating workflows
  (`workflows/router.py:68`, `:104`, `:129`, `:189`) asks for a manager, too, where `API.md:992`,
  `:1055`, `:1095` and `:1144` say analyst. `DemandedRole` has what the code asks for:
  `ChangesAreAuthorised` says that this role was held, in the organization written to, when
  the request read it, and not that it is the role of the docs.
- **500 for a taken name** (`organizations/service.py:417`). `update_department` does not
  catch the `IntegrityError` that `create_department` turns into 409 (`API.md:226`): `Error`.
- **A login is lost** (`auth/service.py:307`). GETDEL and SET are not one transaction, as
  `API.md:370` has it: what fails in between (`Die`) has spent the token and given out
  none. `LoginLineage` allows it as `End`.
- **Deleted for good** (`workflows/service.py:131`). `API.md:1079` and
  `DatabaseDesign.md:64` promise a soft delete and a `deleted_at` column; `db.delete` takes the
  row and its versions. `VersionHistory` allows both.

Two things the runs confirm rather than refute, and a reader may not expect. A tab
that loses the race for the cookie drops its access token and rejects the calls that
wait, although the browser has just been given a good cookie: `SilentRefresh` allows a
refusal because of another tab. A refresh that is in flight when `logout` returns
signs the browser in again; `SignedOutStays` is about browsers with no such refresh.

## 5. The proofs

All theorems hold for every value of the constants that satisfies the module's
assumption (`OrgAssumption`, `AuthAssumption`, `RateAssumption`, `GraphAssumption`,
`WorkflowAssumption`, `ResourceAssumption`, `ClientAssumption`), which TLC evaluates
on the instances. They have the same shape: an inductive invariant, a lemma per
action or group of actions, and the property from the invariant.

- **OrgMembershipProofs**: `TypeCorrect`, `UniqueMembershipHolds`, `NoOrphansHolds`,
  `SuspensionIsFinalHolds`. The first two invariants need each other: a new
  organization gets its first member without a check, and has none because no rows
  of an absent organization exist. The invitation that a request holds must be of
  its own organization (`InvitesOwnOrg`). `SuspensionIsFinal` rests on `Locked` being
  closed under every step. `JoinsByInvitationHolds` needs a request's invitation to be
  one addressed to its user (`Addressed`) and a row that only changes its role to stay
  the same row (`SameRole`). `OrganizationsApartHolds` says that the rows of an
  organization are written by a request for that organization alone, however many are
  in flight: the memberships a session holds are of its
  organization (`MembersOwnOrg`), so that what it writes is (`OnlyOwnOrg`).
- **OrgRulesProofs**: `ChangesAreAuthorisedHolds`, `OneOwnerKeptHolds`, `UsedUpStaysHolds`,
  `OneInviteAtATimeHolds`, for any number of requests in flight and without any assumption
  on how they overlap. The code takes no locks, so that none of these rules can say that
  the tables are as a request has read them; each says what can be relied on in spite of
  that, and names the overlaps that break the plain rule (`Overtaken`, `UsedUp`, `OnItsWay`),
  which the findings show to be real. `AllProper` is what a request carries from its
  checks to its commit: the caller's rows are the caller's and have the role of the route,
  what it removes was no owner, a transfer goes from at most one row to exactly one.
  `OneOwnerKept` then compares the owners before and after each of the commits that write
  members (`UpdateMemberOwners`, `RemoveMemberOwners`, `TransferOwners`). The rules on
  invitations need that ids are never used twice (`InviteKeys`): a row that a request is about
  to insert is in no table, and one it holds is told from every other by its key.
- **AuthSessionsProofs**: `TypeCorrect`, `OneSessionPerLoginHolds`,
  `EndedStaysEndedHolds`, `DisabledGetsNoSessionHolds`, `ImplementsLineageHolds`.
  `StepEffects` sorts all actions by what they do to the keys and to the sessions
  that refreshes carry (`Opens`, `Takes`, `Renews`, `Gives`, `Drops`, `Silent`); `OneLine`,
  the inductive invariant, says that a login's keys and carried sessions together
  are at most one, which is why a rotation may store a successor. `TypeOK` includes that
  a request past its look-up acts for an account (`HasUser`). The refinement
  maps each of these effects to a step of `LoginLineage` or to a stutter.
- **RateLimitProofs**: `TypeCorrect`, `WindowBoundHolds`. Invariant `Past` and
  `Remembered`: what was let through within the last window is still in the sorted
  set, whatever has trimmed it since.
- **GraphValidatorProofs**: `TypeCorrect`, `CycleVerdictHolds`, `CulpritOnCycleHolds`,
  `AcceptedIsRunnableHolds`. Until a cycle is reported, the active calls form a path
  (`PathOK`), and the finished nodes are closed under edges and contain neither a
  set in which everyone has a neighbour nor one in which everyone is one
  (`FinishedOK`). `Onward` carries reachability along the path. The property on
  accepted graphs takes the second half: without a cycle, a set of unreached nodes
  has one that nobody in it feeds, which is an orphan or fed from a reached node.
- **WorkflowVersionsProofs**: `TypeCorrect`, `PointersMatchHolds`, `GraphsMatchHolds`,
  `TenantIsolationHolds`, for either session arrangement. `TablesOK` is about the
  tables that a session holds, so that one lemma per operation serves both: `Flush`
  makes them the next request's tables or drops them. `NextNumber` shows that
  MAX + 1 is the current version's successor. `ImplementsHistoryHolds` is the refinement
  of `VersionHistory`, by a `Delete` that drops the history: with the version numbers gapless from 1 (`Numbered`), each step
  leaves the tables alone, or creates, deletes or extends one workflow (`Effect`), and
  these are the steps of the abstract specification.
- **OrgResourcesProofs**: `TypeCorrect`, `NamesUniqueHolds`, `ReferencesHoldAlways`,
  `RevocationIsFinalHolds`, `ResourceIsolationHolds`. The
  invariant adds what sessions hold: the id of a row that is about to be inserted is in
  no table and in no other session (`Fresh`), and a row that was loaded to be written,
  and the stored row it came from, are of the token's organization (`OwnRows`); without
  the second, a flush could not be placed in an organization. Steps either release what
  the session holds (`Released`, with tables whose rows are `Kept`) or load and insert,
  which is proved one by one.
- **ApiClientProofs**: `TypeCorrect`, `OneRefreshHolds`, `SilentRefreshHolds`,
  `SignedOutStaysHolds`, for any number of tabs, calls, refreshes and logins, where the
  run has two tabs and one login. `SilentRefresh` is not inductive: the cookie is written
  by every tab, and an old token in it would be presented again. `Once` says that a token
  in an answer that has not arrived is in one answer only and was never in the browser,
  so that a cookie never goes back to a token that was exchanged; `Spent`, that an
  exchanged token is in the refresh that exchanges it or gone from cookie and tab.
  `TabCut` covers everything that makes a tab lose its refresh.

**Only model-checked**: the liveness properties `CallsSettle` and `Terminates`.
Liveness under fairness and ENABLED are out of the prover's reach, as is induction
over data; the modules have no RECURSIVE operators, the recursion of `dfs` being a
state machine. The findings are counterexamples and have no theorem.

## 6. What is not modelled

- The workflow builder (`builder.store.ts`, `Toolbar.tsx`, the builder's page). As wired, it
  does not run: its hooks ask for a QueryClient that no component provides, and what
  it saves is rolled back with the request (`workflow_lost`). A model would describe
  a program that is not there.
- What the auth store keeps for display, and `loadMe`: no request depends on it.
- Values that no property is about: names, descriptions, messages, timestamps of
  rows, password hashes, token encodings, the audit of `created_by`, HTTP bodies.
- Email delivery: there is none in the code.
- The connection pools, and PostgreSQL and Redis failing as a whole (a request that
  fails is modelled at every step).
- The stub packages, and deployment files.
- Routes that only read, and `me`, `verify_email`, `resend_verification` and
  `forgot_password`, whose flushes no other request sees.

## 7. Plan

1. Done: `OrgMembership`, `AuthSessions` (with `LoginLineage`), `RateLimit`,
   `GraphValidator`, `WorkflowVersions` (with `VersionHistory`), and their proofs;
   `OrgResources`; `ApiClient` (on `LoginLineage`); the proofs of each.
2. Done: every safety property of a passing run is a theorem, none under a hypothesis on
   how requests overlap.
3. Graphs whose edges end outside the graph: what of "connected subgraph"
   (`docs/DevelopmentPlan.md:211`) still holds.
