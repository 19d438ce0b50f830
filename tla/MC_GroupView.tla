---------------------------- MODULE MC_GroupView ----------------------------
(* Model-checking instance of GroupView: one group of two servers (two     *)
(* rows whose indexes differ, so the spinner can move between them) and   *)
(* three calls, so that toggles of both rows and a command can be in      *)
(* flight together, or one row toggled twice.  The log panel and the     *)
(* clock are left to the adapter's own run: nothing here reads them.      *)
EXTENDS GroupView, TLC

CONSTANTS c1, c2, c3, g1

MC_Calls == {c1, c2, c3}
MC_MaxTime == 0

\* The calls are interchangeable: each may serve any handler.
MC_Symmetry == Permutations(MC_Calls)
MC_GroupIds == {g1}
MC_NServers == 2
=============================================================================
