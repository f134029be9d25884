----------------------------- MODULE MCApiClient -----------------------------
(* An instance of ApiClient for TLC: two tabs with two calls, in which each *)
(* may refresh while the other does.  Liveness is checked: no symmetry.     *)
EXTENDS ApiClient

CONSTANTS tab1, tab2, c1, c2, f1, f2, l1

MCTab == {tab1, tab2}
MCCall == {c1, c2}
MCFlight == {f1, f2}
MCLogin == {l1}
=============================================================================
