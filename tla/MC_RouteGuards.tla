---------------------------- MODULE MC_RouteGuards ----------------------------
(* Two clusters of the navigation list, as model values. *)
EXTENDS RouteGuards

CONSTANTS k1, k2

MC_Clusters == {k1, k2}

=============================================================================
