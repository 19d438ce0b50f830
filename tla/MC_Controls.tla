----------------------------- MODULE MC_Controls -----------------------------
(* Model-checking instance of Controls: two calls, so that two commands    *)
(* can be in flight together, both can end with HTTP errors and fill the  *)
(* log with two records, and a command can race the page's refetch; a     *)
(* clock with two readings, so that the records can carry different       *)
(* stamps.                                                                *)
EXTENDS Controls, TLC

CONSTANTS c1, c2

MC_Calls == {c1, c2}
MC_MaxTime == 1
\* The calls are interchangeable: each may serve any control.
MC_Symmetry == Permutations(MC_Calls)
=============================================================================
