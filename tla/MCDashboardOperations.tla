----------------------- MODULE MCDashboardOperations -----------------------
(* Three requests for one account and action: one may be trimmed while the  *)
(* next is remembered and the third is made.                                *)
EXTENDS DashboardOperations

CONSTANTS i1, i2, i3

\* The ids are drawn in one order: they are random, and none differs from another.
DrawnInOrder ==
  \A i \in Ids(queue') \ Ids(queue) : \A k \in Id :
    <<k, i>> \in {<<i1, i2>>, <<i1, i3>>, <<i2, i3>>} =>
      k \in Ids(queue) \/ file[k] # NoFile \/ ran[k] # "never" \/ (pc = "claimed" /\ held.id = k)
=============================================================================
