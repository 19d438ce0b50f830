-------------------------- MODULE ReplicaSpinner --------------------------
(***************************************************************************)
(* What the replica spinner of the group table (loading.index of           *)
(* views/home/group-view.tsx) promises, with the HTTP calls, the rows'     *)
(* values and the rollback left out.  The spinner is one index shared by   *)
(* all rows.  A toggle issues one call: if its request is sent, the        *)
(* spinner moves to the toggle's own row and the toggle waits, paired with *)
(* that row's index; if the token check stopped it, its finally block      *)
(* clears the spinner at once.  The answer of a waiting toggle clears the  *)
(* spinner, whichever row it shows and whatever other toggles still wait.  *)
(* Nothing else moves it.  So the spinner, when shown, is on the row of a  *)
(* toggle that still waits (SpinnerOnWaitingRow).                          *)
(***************************************************************************)
EXTENDS Integers

CONSTANTS
    Calls,  \* the calls a toggle may issue
    Spots   \* the row indexes the spinner can show

VARIABLES
    spin,       \* the index the spinner shows, or -1
    inflight,   \* <<c, i>>: toggle c of a row at index i awaits its answer
    issued      \* the calls toggles have issued

spinVars == <<spin, inflight, issued>>

SpinnerInit ==
    /\ spin = -1
    /\ inflight = {}
    /\ issued = {}

\* A toggle of a row at index i sends call c: the spinner moves to that row.
Show(c, i) ==
    /\ c \notin issued
    /\ issued' = issued \cup {c}
    /\ inflight' = inflight \cup {<<c, i>>}
    /\ spin' = i

\* A toggle's request on call c is stopped by the token check: its
\* finally block runs in the same task and clears the spinner.
Stop(c) ==
    /\ c \notin issued
    /\ issued' = issued \cup {c}
    /\ spin' = -1
    /\ UNCHANGED inflight

\* The answer to the waiting toggle p reaches its handler, whose finally
\* block clears the spinner.
Clear(p) ==
    /\ p \in inflight
    /\ inflight' = inflight \ {p}
    /\ spin' = -1
    /\ UNCHANGED issued

SpinnerNext ==
    \/ \E c \in Calls, i \in Spots : Show(c, i)
    \/ \E c \in Calls : Stop(c)
    \/ \E p \in inflight : Clear(p)

SpinnerSpec == SpinnerInit /\ [][SpinnerNext]_spinVars

\* The spinner is only ever shown on the row of a toggle still waiting for
\* its answer.
SpinnerOnWaitingRow == spin # -1 => \E p \in inflight : p[2] = spin

=============================================================================
