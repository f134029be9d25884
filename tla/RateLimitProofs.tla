-------------------------- MODULE RateLimitProofs --------------------------
(***************************************************************************)
(* RateLimit keeps its window for every limit, window, latency and number  *)
(* of requests in flight.  The invariant behind it: a timestamp that was   *)
(* let through stays in the sorted set until it has left the window of the *)
(* clock, because whatever removes it (another request's ZREMRANGEBYSCORE, *)
(* the key's expiry) counts from a time that is not ahead of the clock.    *)
(***************************************************************************)
EXTENDS RateLimit, FiniteSetTheorems, TLAPS

\* Timestamps lie in the past, those in flight by no more than the latency.
Past ==
  /\ deadline <= clock + Window
  /\ \A m \in members : m <= clock
  /\ \A a \in admitted : a <= clock
  /\ \A r \in Slot : now[r] # Idle => now[r] <= clock /\ clock - now[r] <= Latency

\* What was let through within the last Window is still a member, and the key
\* does not expire before it has left the window.
Remembered ==
  /\ \A a \in admitted : a > clock - Window => a \in members
  /\ \A m \in members : m + Window <= deadline

Inv == TypeOK /\ Past /\ Remembered

LEMMA InvInit == Init => Inv
  BY RateAssumption DEF Init, Inv, TypeOK, Past, Remembered, Time

LEMMA InvNext == Inv /\ [Next]_vars => Inv'
<1> SUFFICES ASSUME Inv, [Next]_vars PROVE Inv'
  OBVIOUS
<1> USE RateAssumption DEF Inv, TypeOK, Past, Remembered, Time
<1>1. CASE Tick
  <2>1. clock' = clock + 1 /\ deadline' = deadline /\ now' = now /\ admitted' = admitted
    BY <1>1 DEF Tick
  <2>2. \A r \in Slot : now[r] # Idle => clock - now[r] < Latency
    BY <1>1 DEF Tick
  <2>3. members' = IF deadline <= clock + 1 THEN {} ELSE members
    BY <1>1 DEF Tick
  <2>s. members' \subseteq members
    BY <2>3
  <2>4. TypeOK'
    BY <1>1, <2>1, <2>s DEF Tick
  <2>5. Past'
    <3>1. /\ deadline' <= clock' + Window
          /\ \A m \in members' : m <= clock'
          /\ \A a \in admitted' : a <= clock'
      <4>1. \A x \in Int : x <= clock => x <= clock + 1
        OBVIOUS
      <4>2. members' \subseteq Int /\ admitted' \subseteq Int
        BY <2>1, <2>s
      <4> QED BY <2>1, <2>s, <4>1, <4>2
    <3>2. ASSUME NEW r \in Slot, now[r] # Idle
          PROVE  now[r] <= clock' /\ clock' - now[r] <= Latency
      <4>1. now[r] \in Int /\ clock - now[r] < Latency /\ now[r] <= clock
        BY <2>2, <3>2
      <4> QED BY <2>1, <4>1
    <3> QED BY <2>1, <3>1, <3>2
  <2>6. Remembered'
    <3>1. ASSUME NEW a \in admitted, a > clock + 1 - Window PROVE a \in members'
      <4>1. a \in members /\ a + Window <= deadline
        BY <3>1
      <4> QED BY <2>3, <3>1, <4>1
    <3>2. \A m \in members' : m + Window <= deadline'
      BY <2>1, <2>s
    <3> QED BY <2>1, <3>1, <3>2
  <2> QED BY <2>4, <2>5, <2>6
<1>2. ASSUME NEW r \in Slot, Stamp(r) PROVE Inv'
  BY <1>2 DEF Stamp
<1>3. ASSUME NEW r \in Slot, Execute(r) PROVE Inv'
  <2>1. /\ now[r] \in Time /\ now[r] <= clock /\ clock - now[r] <= Latency
        /\ members' = {m \in members : m > now[r] - Window} \cup {now[r]}
        /\ admitted' \subseteq admitted \cup {now[r]}
        /\ now' = [now EXCEPT ![r] = Idle]
        /\ clock' = clock /\ deadline' = clock + Window
    BY <1>3 DEF Execute, Added, Kept
  <2>2. TypeOK'
    <3>1. members' \in SUBSET Time /\ admitted' \in SUBSET Time
      BY <2>1
    <3>2. deadline' \in Nat /\ clock' \in Time
      BY <2>1
    <3> QED BY <2>1, <3>1, <3>2
  <2>3. Past'
    BY <2>1
  <2>4. Remembered'
    <3>1. ASSUME NEW a \in admitted', a > clock - Window PROVE a \in members'
      BY <2>1, <3>1
    <3>2. ASSUME NEW m \in members' PROVE m + Window <= clock + Window
      <4>1. m \in Int /\ m <= clock
        BY <2>1, <3>2
      <4> QED BY <4>1
    <3> QED BY <2>1, <3>1, <3>2
  <2> QED BY <2>2, <2>3, <2>4
<1>4. ASSUME NEW r \in Slot, Fail(r) PROVE Inv'
  BY <1>4 DEF Fail
<1>5. CASE UNCHANGED vars
  BY <1>5 DEF vars
<1> QED BY <1>1, <1>2, <1>3, <1>4, <1>5 DEF Next

LEMMA InvAlways == Spec => []Inv
<1> QED BY InvInit, InvNext, PTL DEF Spec

\* The clock, the sorted set and the requests are well-typed in every reachable state.
THEOREM TypeCorrect == Spec => []TypeOK
<1>1. Inv => TypeOK
  BY DEF Inv
<1> QED BY <1>1, InvAlways, PTL

\* What a request that is let through finds of its window is in the sorted set.
LEMMA WindowRemembered ==
  ASSUME Inv, NEW r \in Slot, Execute(r), NEW t \in Time, now[r] \in Admitted(t)'
  PROVE  Admitted(t)' \subseteq members'
<1> SUFFICES ASSUME NEW a \in Admitted(t)', a # now[r] PROVE a \in members'
  BY DEF Execute, Added
<1> USE RateAssumption DEF Inv, TypeOK, Past, Remembered, Time
<1>1. a \in admitted
  BY DEF Admitted, Execute
<1>2. /\ now[r] \in Int /\ a \in Int /\ clock \in Int
      /\ now[r] <= t /\ t - (Window - Latency) < a /\ clock - now[r] <= Latency
      /\ now[r] <= clock
  BY <1>1 DEF Admitted, Execute
<1>3. a > clock - Window /\ a > now[r] - Window
  BY <1>2
<1> QED BY <1>1, <1>3 DEF Execute, Added, Kept

LEMMA WindowBoundNext == Inv /\ Inv' /\ WindowBound /\ [Next]_vars => WindowBound'
<1> SUFFICES ASSUME Inv, Inv', WindowBound, [Next]_vars, NEW t \in Time
             PROVE  Cardinality(Admitted(t)') <= Limit
  BY DEF WindowBound
<1>1. CASE admitted' = admitted
  BY <1>1 DEF WindowBound, Admitted
<1>2. ASSUME NEW r \in Slot, Execute(r), admitted' # admitted
      PROVE  Cardinality(Admitted(t)') <= Limit
  <2>1. Cardinality(members') <= Limit /\ admitted' = admitted \cup {now[r]}
    BY <1>2 DEF Execute, Within
  <2>2. CASE now[r] \in Admitted(t)'
    <3>1. Admitted(t)' \subseteq members'
      BY <1>2, <2>2, WindowRemembered
    <3>2. IsFiniteSet(members')
      <4>1. IsFiniteSet(Time)
        BY RateAssumption, FS_Interval DEF Time
      <4>2. members' \subseteq Time
        BY DEF Inv, TypeOK
      <4> QED BY <4>1, <4>2, FS_Subset
    <3>3. Cardinality(Admitted(t)') <= Cardinality(members')
      BY <3>1, <3>2, FS_Subset
    <3>4. Cardinality(Admitted(t)') \in Nat /\ Cardinality(members') \in Nat
      BY <3>1, <3>2, FS_Subset, FS_CardinalityType
    <3> QED BY <2>1, <3>3, <3>4, RateAssumption
  <2>3. CASE now[r] \notin Admitted(t)'
    <3>1. Admitted(t)' = Admitted(t)
      BY <2>1, <2>3 DEF Admitted
    <3> QED BY <3>1 DEF WindowBound
  <2> QED BY <2>2, <2>3
<1> QED BY <1>1, <1>2 DEF Next, Tick, Stamp, Fail, vars

\* At most Limit different timestamps of any stretch of Window - Latency are let
\* through, however many requests are in flight and in whatever order they arrive.
THEOREM WindowBoundHolds == Spec => []WindowBound
<1>1. Init => WindowBound
  <2> SUFFICES ASSUME Init, NEW t \in Time PROVE Cardinality(Admitted(t)) <= Limit
    BY DEF WindowBound
  <2>1. Admitted(t) = {}
    BY DEF Init, Admitted
  <2> QED BY <2>1, FS_EmptySet, RateAssumption
<1>2. Inv /\ Inv' /\ WindowBound /\ [Next]_vars => WindowBound'
  BY WindowBoundNext
<1> QED BY <1>1, <1>2, InvAlways, PTL DEF Spec
=============================================================================
