----------------------------- MODULE MC_PcConfig -----------------------------
(* Model-checking instance of PcConfig: one config row and one content;    *)
(* the textarea can then hold its JSON, the JSON of null, or malformed     *)
(* text.  Four calls are enough for the mount's GET, an update, the GET    *)
(* it triggers and the sync it makes available.  The log panel and the    *)
(* clock are left to the adapter's own run.                               *)
EXTENDS PcConfig, TLC

CONSTANTS c1, c2, c3, c4

MC_Calls == {c1, c2, c3, c4}
MC_MaxTime == 0
MC_Items == {0}
MC_Contents == {"A"}
MC_MaxLog == 1

\* The calls are interchangeable: each may serve any request.  Renaming
\* the calls of a behaviour in the order it first issues them gives a
\* behaviour that issues c1 first, then c2, and so on; the constraint
\* keeps only those.
MC_Order == <<c1, c2, c3, c4>>
MC_CallsInOrder ==
    \A i, j \in 1 .. Len(MC_Order) :
        i < j /\ answer[MC_Order[j]] # "idle" => answer[MC_Order[i]] # "idle"

=============================================================================
