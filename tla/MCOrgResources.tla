--------------------------- MODULE MCOrgResources ---------------------------
(* An instance of OrgResources for TLC: one member in each of two          *)
(* organizations, and the symmetry of ids, names and slots.                *)
EXTENDS OrgResources, TLC

CONSTANTS o1, o2, u1, d1, d2, n1, n2, k1, r1, r2

MCOrg == {o1, o2}
MCUser == {u1}
MCSeat == {<<o1, u1>>, <<o2, u1>>}
MCDeptId == {d1, d2}
MCName == {n1, n2}
MCKeyId == {k1}
MCSlot == {r1, r2}

Symmetry ==
  Permutations(MCDeptId) \cup Permutations(MCName) \cup Permutations(MCSlot)
=============================================================================
