---------------------------- MODULE LoginLineage ----------------------------
(***************************************************************************)
(* What the rotation of refresh tokens promises for every login: from the  *)
(* login on there is at most one valid token, a valid token is taken       *)
(* before its successor is given out, no token is given out twice, and a   *)
(* lineage that has ended has ended for good.                              *)
(***************************************************************************)
CONSTANTS
  Login,  \* logins
  Token   \* refresh tokens

VARIABLES
  phase,  \* the phase of each login
  valid,  \* the valid tokens of each login
  given   \* every token that was ever given out

lineage == <<phase, valid, given>>

Phase == {"unopened", "live", "rotating", "ended"}

Init ==
  /\ phase = [l \in Login |-> "unopened"]
  /\ valid = [l \in Login |-> {}]
  /\ given = {}

Move(l, from, to) == phase[l] \in from /\ phase' = [phase EXCEPT ![l] = to]

\* A login or a completed rotation gives out a token nobody has seen.
Give(l) == \E t \in Token \ given :
  /\ Move(l, {"unopened", "rotating"}, "live")
  /\ valid' = [valid EXCEPT ![l] = {t}]
  /\ given' = given \cup {t}

\* A rotation takes the valid token.
Take(l) ==
  /\ Move(l, {"live"}, "rotating")
  /\ valid' = [valid EXCEPT ![l] = {}]
  /\ UNCHANGED given

\* Logout, password reset, expiry, or a rotation that fails half-way.
End(l) ==
  /\ Move(l, {"live", "rotating"}, "ended")
  /\ valid' = [valid EXCEPT ![l] = {}]
  /\ UNCHANGED given

Next == \E l \in Login : Give(l) \/ Take(l) \/ End(l)

Spec == Init /\ [][Next]_lineage
=============================================================================
