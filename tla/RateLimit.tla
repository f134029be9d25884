----------------------------- MODULE RateLimit -----------------------------
(***************************************************************************)
(* check_rate_limit of app/core/rate_limit.py for one key: a sliding       *)
(* window kept in a Redis sorted set.                                      *)
(*                                                                         *)
(* A request reads its process's clock, and later Redis executes its four  *)
(* commands as one MULTI/EXEC pipeline.  Requests that are in flight       *)
(* together may be executed in another order than they read the clock.     *)
(* Members of the sorted set are the timestamps themselves, so requests    *)
(* with the same timestamp share a member.  Latency bounds how long a      *)
(* request waits for its pipeline, in ticks of the clock; the processes'   *)
(* clocks agree with Redis's to within it.                                 *)
(***************************************************************************)
EXTENDS Integers, FiniteSets

CONSTANTS
  Limit,    \* limit
  Window,   \* window_seconds
  Latency,  \* between time.time() and the execution of the pipeline
  Slot,     \* requests that can be in flight at the same time
  Idle,     \* no request in a slot
  Horizon   \* bound on the clock

ASSUME RateAssumption ==
  /\ Limit \in Nat /\ Window \in Nat /\ Latency \in Nat /\ Horizon \in Nat
  /\ Latency <= Window
  /\ Idle \notin Int

VARIABLES
  clock,    \* the time
  members,  \* the sorted set
  deadline, \* when EXPIRE lets Redis delete it
  now,      \* the timestamp of the request in each slot
  admitted  \* the timestamps of the requests that were let through

vars == <<clock, members, deadline, now, admitted>>

Time == 0..Horizon

\* Time passes; Redis deletes the key when its deadline has come.
Tick ==
  /\ clock < Horizon
  /\ \A r \in Slot : now[r] # Idle => clock - now[r] < Latency
  /\ clock' = clock + 1
  /\ members' = IF deadline <= clock + 1 THEN {} ELSE members
  /\ UNCHANGED <<deadline, now, admitted>>

\* now = time.time()
Stamp(r) ==
  /\ now[r] = Idle
  /\ now' = [now EXCEPT ![r] = clock]
  /\ UNCHANGED <<clock, members, deadline, admitted>>

\* ZREMRANGEBYSCORE -inf window_start
Kept(t) == {m \in members : m > t - Window}

\* ZADD
AddedExpiry(set, t) == set \cup {t + Window}
Added(set, t) == set \cup {t}

\* ZCARD, after the request has been added itself.
WithinOneMore(set) == Cardinality(set) <= Limit + 1
Within(set) == Cardinality(set) <= Limit

\* The pipeline, and the verdict on its count: RateLimitError, or go on.  A
\* rejected request stays in the set.
Execute(r) ==
  /\ now[r] # Idle
  /\ members' = Added(Kept(now[r]), now[r])
  /\ deadline' = clock + Window
  /\ admitted' = IF Within(members') THEN admitted \cup {now[r]} ELSE admitted
  /\ now' = [now EXCEPT ![r] = Idle]
  /\ UNCHANGED clock

\* The request dies or Redis cannot be reached: nothing was executed.
Fail(r) ==
  /\ now[r] # Idle
  /\ now' = [now EXCEPT ![r] = Idle]
  /\ UNCHANGED <<clock, members, deadline, admitted>>

Init ==
  /\ clock = 0
  /\ members = {}
  /\ deadline = 0
  /\ now = [r \in Slot |-> Idle]
  /\ admitted = {}

Next == Tick \/ \E r \in Slot : Stamp(r) \/ Execute(r) \/ Fail(r)

Spec == Init /\ [][Next]_vars

----------------------------------------------------------------------------
(* Properties.                                                             *)

\* The variables have the types of the clock, the sorted set and the requests.
TypeOK ==
  /\ clock \in Time
  /\ members \in SUBSET Time
  /\ deadline \in Nat
  /\ now \in [Slot -> Time \cup {Idle}]
  /\ admitted \in SUBSET Time

\* Requests let through at different timestamps of any stretch of the window's
\* length, less the latency that can reorder them: never more than the limit,
\* although EXPIRE and other requests' ZREMRANGEBYSCORE remove members meanwhile.
Admitted(t) == {a \in admitted : t - (Window - Latency) < a /\ a <= t}

WindowBound == \A t \in Time : Cardinality(Admitted(t)) <= Limit
=============================================================================
