----------------------------- MODULE GroupView -----------------------------
(***************************************************************************)
(* The group table of the home page (views/home/group-view.tsx), composed  *)
(* with the HTTP adapter every one of its requests goes through.           *)
(*                                                                         *)
(* Each server row has a replica checkbox.  Its value is s.replica_group   *)
(* of the row object, passed to a v-checkbox as input-value.  The          *)
(* checkbox keeps its own lazyValue: a click flips it and fires            *)
(* onChangeItemReplica, and it only follows input-value when that prop     *)
(* changes.  The handler records the row index in loading.index, keeps    *)
(* state = s.replica_group and awaits the PUT of Number(!state).  On a     *)
(* payload other than 'OK', or on any exception (a rejection, or the       *)
(* destructuring of the undefined an HTTP error resolves to), it writes    *)
(* s.replica_group = !state; finally it resets loading.index to -1.        *)
(*                                                                         *)
(* The rows come from the computed list, which maps every group's servers  *)
(* to fresh copies {...s, ...stats} and stores them back in i.servers.     *)
(* It depends on the props and on the copies it read, not on the ones it   *)
(* made: new props from the page make the next render build new copies,   *)
(* so the object a pending handler captured is no longer drawn             *)
(* (req[c].live records whether it still is), while a write to a drawn     *)
(* copy's replica_group only re-renders the table.                         *)
(*                                                                         *)
(* The command buttons (@Emit('update') handlers) await their PUT and      *)
(* then emit update, which makes the page fetch the groups again; the      *)
(* decorator emits when the returned promise resolves and never when it    *)
(* rejects.  onClickGroupItemSync awaits the index instead of the request. *)
(***************************************************************************)
EXTENDS HttpAdapter

CONSTANTS
    GroupIds,   \* the groups of the table
    NServers    \* servers per group

ASSUME NServersAssumption == NServers \in Nat \ {0}

Idx == 0 .. NServers - 1

\* A row of the table: the group and the server's index within it.
Rows == GroupIds \X Idx

\* What a call was issued for: nothing yet, a replica toggle, the sync /
\* promote button, the degrade switch, or one of the other command buttons
\* (pending, node, delete server, compact, log compact, lru cache, delete
\* group), whose handlers all await their request and then emit.
Ops == {"none", "replica", "sync", "degrade", "other"}

\* The handler's view of a call: the row, the state it captured, the value
\* the checkbox showed before the click, and whether the row object it
\* captured is still the drawn one.
Req == [op : Ops, row : Rows, state : BOOLEAN, before : BOOLEAN, live : BOOLEAN]

NoReq == [op |-> "none", row |-> CHOOSE r \in Rows : TRUE, state |-> FALSE,
          before |-> FALSE, live |-> FALSE]

VARIABLES
    backend,        \* backend[r]: the replica flag the control plane holds
    model,          \* model[r]: s.replica_group of the drawn row object
    lazy,           \* lazy[r]: the checkbox's lazyValue, what it shows
    loadingIndex,   \* loading.index
    req,            \* req[c]: the handler that issued call c
    emitted,        \* emitted[c]: the handler of c emitted update
    degradeLoading  \* degradeLoading

viewVars == <<backend, model, lazy, loadingIndex, req, emitted, degradeLoading>>

allVars == <<adapterVars, viewVars>>

-----------------------------------------------------------------------------
(* Translation of the code.                                                *)

\* The checkbox's inputValue watcher: lazyValue takes the new prop value of
\* every row whose s.replica_group changed from m to m2.
Follow(m, m2, l) == [r \in Rows |-> IF m2[r] # m[r] THEN m2[r] ELSE l[r]]

\* A new computed list: every pending handler's row object is detached.
Detach(q) == [c \in Calls |-> [q[c] EXCEPT !.live = FALSE]]

\* The handler fails into the rollback: a payload other than 'OK', the
\* TypeError of destructuring undefined, or a rejection.
RollsBack(k) == k # "ok"

\* The rollback s.replica_group = !state of the handler whose call is q,
\* which ended with k; l and reqs are the lazy values and the calls as the
\* handler's rest finds them.  The write reaches the page only through a
\* row object that is still drawn, and the re-render that follows moves
\* the checkbox if its input-value changed.
Rollback(q, k, l, reqs) ==
    LET m2 == IF RollsBack(k) /\ q.live
              THEN [model EXCEPT ![q.row] = ~q.state] ELSE model
    IN  /\ model' = m2
        /\ lazy' = Follow(model, m2, l)
        /\ req' = reqs

\* Mutant: loading.index reset at the end of the try block, not in finally.
ReplicaSettleNoFinally(q, k, l, li, reqs) ==
    /\ Rollback(q, k, l, reqs)
    /\ loadingIndex' = IF RollsBack(k) THEN li ELSE -1

\* The rest of onChangeItemReplica once its call q ended with k; li is
\* loading.index as it finds it.
ReplicaSettle(q, k, l, li, reqs) ==
    /\ Rollback(q, k, l, reqs)
    /\ loadingIndex' = -1

\* Mutant: loading.index set after the awaited request instead of before
\* it, so the finally block that follows overwrites it at once.
ReplicaClickLateSpinner(r, c) ==
    /\ Request(c)
    /\ LET q == [op |-> "replica", row |-> r, state |-> model[r],
                 before |-> lazy[r], live |-> TRUE]
           l == [lazy EXCEPT ![r] = ~@]
           reqs == [req EXCEPT ![c] = q]
       IN  IF answer'[c] = "blocked"
           THEN ReplicaSettle(q, "blocked", l, r[2], reqs)
           ELSE /\ lazy' = l
                /\ loadingIndex' = loadingIndex
                /\ req' = reqs
                /\ UNCHANGED model
    /\ UNCHANGED <<backend, emitted, degradeLoading>>

\* A click on the checkbox of row r: lazyValue flips, then the handler sets
\* loading.index, captures state and runs up to its await on call c.
\* Without a token the request is stopped and, in the same task, the
\* rejection runs the handler's rest.
ReplicaClick(r, c) ==
    /\ Request(c)
    /\ LET q == [op |-> "replica", row |-> r, state |-> model[r],
                 before |-> lazy[r], live |-> TRUE]
           l == [lazy EXCEPT ![r] = ~@]
           reqs == [req EXCEPT ![c] = q]
       IN  IF answer'[c] = "blocked"
           THEN ReplicaSettle(q, "blocked", l, r[2], reqs)
           ELSE /\ lazy' = l
                /\ loadingIndex' = r[2]
                /\ req' = reqs
                /\ UNCHANGED model
    /\ UNCHANGED <<backend, emitted, degradeLoading>>

\* The backend's side of a replica PUT of value v answered with k: applied
\* on 'OK'; a network failure may come after the backend applied it.
ApplyReplica(r, v, k) ==
    CASE k = "ok"      -> backend' = [backend EXCEPT ![r] = v]
      [] k = "network" -> backend' \in {backend, [backend EXCEPT ![r] = v]}
      [] OTHER         -> UNCHANGED backend

\* The answer k to the replica call c reaches the handler.
ReplicaAnswer(c, k) ==
    /\ req[c].op = "replica"
    /\ Respond(c, k)
    /\ ApplyReplica(req[c].row, ~req[c].state, k)
    /\ ReplicaSettle(req[c], k, lazy, loadingIndex, req)
    /\ UNCHANGED <<emitted, degradeLoading>>

\* The confirm of a command button of group g issues call c.  The sync /
\* promote handler awaits the index, not the request, so it resolves and
\* emits update in the same task, whatever becomes of the request.  The
\* degrade handler first sets degradeLoading.  A stopped request rejects
\* the others' promises, so they never emit.
CommandClick(op, g, c) ==
    /\ Request(c)
    /\ req' = [req EXCEPT ![c] = [NoReq EXCEPT !.op = op, !.row = <<g, 0>>]]
    /\ emitted' = IF op = "sync" THEN [emitted EXCEPT ![c] = TRUE] ELSE emitted
    /\ degradeLoading' = IF op = "degrade" THEN TRUE ELSE degradeLoading
    /\ UNCHANGED <<backend, model, lazy, loadingIndex>>

\* The answer k to command call c: the handler's await returns unless the
\* promise rejected, then degradeLoading is cleared and update emitted.
CommandAnswer(c, k) ==
    /\ req[c].op \in {"sync", "degrade", "other"}
    /\ Respond(c, k)
    /\ LET resumes == req[c].op # "sync" /\ Outcome(k) # "rejected"
       IN  /\ emitted' = IF resumes THEN [emitted EXCEPT ![c] = TRUE] ELSE emitted
           /\ degradeLoading' = IF resumes /\ req[c].op = "degrade"
                                THEN FALSE ELSE degradeLoading
    /\ UNCHANGED <<backend, model, lazy, loadingIndex, req>>

\* The page passes new groups (its fetch after an update event, or a new
\* page load): every row's s.replica_group is the backend's, the computed
\* list builds new row objects, and each checkbox whose input-value
\* changed follows it.
Refresh ==
    /\ model' = backend
    /\ lazy' = Follow(model, backend, lazy)
    /\ req' = Detach(req)
    /\ UNCHANGED <<backend, loadingIndex, emitted, degradeLoading>>
    /\ UNCHANGED adapterVars

-----------------------------------------------------------------------------

GInit ==
    /\ Init
    /\ backend \in [Rows -> BOOLEAN]
    /\ model = backend
    /\ lazy = backend
    /\ loadingIndex = -1
    /\ req = [c \in Calls |-> NoReq]
    /\ emitted = [c \in Calls |-> FALSE]
    /\ degradeLoading = FALSE

GNext ==
    \/ \E r \in Rows, c \in Calls : ReplicaClick(r, c)
    \/ \E c \in Calls, k \in Answers : ReplicaAnswer(c, k)
    \/ \E op \in Ops \ {"none", "replica"}, g \in GroupIds, c \in Calls :
          CommandClick(op, g, c)
    \/ \E c \in Calls, k \in Answers : CommandAnswer(c, k)
    \/ Refresh
    \/ CookieChange /\ UNCHANGED viewVars

GSpec == GInit /\ [][GNext]_allVars

-----------------------------------------------------------------------------
(* Properties.                                                             *)

ViewTypeOK ==
    /\ backend \in [Rows -> BOOLEAN]
    /\ model \in [Rows -> BOOLEAN]
    /\ lazy \in [Rows -> BOOLEAN]
    /\ loadingIndex \in {-1} \cup Idx
    /\ req \in [Calls -> Req]
    /\ emitted \in [Calls -> BOOLEAN]
    /\ degradeLoading \in BOOLEAN

\* A replica call c whose handler has not finished.
Pending(c) == req[c].op = "replica" /\ answer[c] = "pending"

\* No spinner is left behind: once no replica toggle is waiting for its
\* answer, loading.index is back to -1, whatever the order in which the
\* answers of toggles on several rows came back and however they ended.
LoadingClearedWhenIdle ==
    (\A c \in Calls : ~Pending(c)) => loadingIndex = -1

\* The spinner behaves as ReplicaSpinner says: every replica toggle takes
\* a call of its own; loading.index moves only to the index of the row
\* whose toggle was just sent, which then waits until its answer; it goes
\* back to -1 when a waiting toggle's answer arrives, even while toggles of
\* other rows still wait, or when a new toggle's request is stopped.
Spinner == INSTANCE ReplicaSpinner
    WITH Spots <- Idx, spin <- loadingIndex,
         inflight <- {<<c, req[c].row[2]>> : c \in {d \in Calls : Pending(d)}},
         issued <- {c \in Calls : req[c].op = "replica"}

SpinnerRefined == Spinner!SpinnerSpec

\* The spec's optimistic rollback: when a replica toggle's request fails
\* (a payload other than 'OK', an HTTP error, a network failure, or no
\* token), the checkbox shows again the value it showed before the click.
RollbackRestores ==
    [][\A c \in Calls :
          /\ answer[c] \in {"idle", "pending"}
          /\ answer'[c] \in {"fail", "http", "network", "blocked"}
          /\ req'[c].op = "replica"
          => lazy'[req'[c].row] = req'[c].before]_allVars

\* The checkbox agrees with the page's data: once no toggle of a row is
\* waiting for its answer and the page's s.replica_group agrees with the
\* backend, the checkbox shows that value.  A refresh only moves a
\* checkbox whose input-value changes, so a disagreement here is never
\* repaired while the table is shown.
CheckboxMatchesData ==
    \A r \in Rows :
        (\A c \in Calls : Pending(c) => req[c].row # r) /\ model[r] = backend[r]
            => lazy[r] = model[r]

\* The page fetches the groups again on update to show the command's
\* effect, so update is only emitted once the command's request has been
\* answered.
UpdateAfterAnswer ==
    \A c \in Calls : emitted[c] => answer[c] \notin {"idle", "pending"}

=============================================================================
