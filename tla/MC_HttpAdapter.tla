--------------------------- MODULE MC_HttpAdapter ---------------------------
(* Model-checking instance of HttpAdapter: three calls, so that an HTTP    *)
(* error, a network failure and a blocked request can all happen in one   *)
(* behaviour and the log can hold several records, and a clock with three *)
(* readings, so that records are stamped at different times.              *)
EXTENDS HttpAdapter

CONSTANTS c1, c2, c3

MC_Calls == {c1, c2, c3}
MC_MaxTime == 2
=============================================================================
