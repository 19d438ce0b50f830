-------------------------- MODULE GroupViewProofs --------------------------
(***************************************************************************)
(* Proof that the group table never leaves its replica spinner behind      *)
(* (LoadingClearedWhenIdle), for every set of groups, servers and calls.   *)
(*                                                                         *)
(* Read the other way round, the invariant says that while loading.index   *)
(* is set some replica toggle is still waiting for its answer.  It is      *)
(* inductive once the requests are typed: a refresh detaches every         *)
(* pending handler's row with an EXCEPT on .live, which keeps .op only     *)
(* for a record that has it.  The type is not ViewTypeOK: with no groups   *)
(* there is no row, and the unused request record NoReq names none.        *)
(*                                                                         *)
(* The table composes the adapter: every step of it is an adapter step or  *)
(* leaves the adapter alone, so what HttpAdapterProofs proves of the       *)
(* adapter holds of the table's requests too.                              *)
(*                                                                         *)
(* The table also implements ReplicaSpinner: the waiting toggles paired    *)
(* with their rows' indexes, and the calls replica toggles have used, are  *)
(* the abstract inflight and issued.  The step proof needs, beside LIInv,  *)
(* that a call not yet issued has no handler (IdleUnused): a toggle's call *)
(* is then a new one, as Show and Stop demand.  A rollback keeps the       *)
(* handlers, so a toggle's answer removes exactly its own pair.            *)
(***************************************************************************)
EXTENDS GroupView, HttpAdapterProofs, TLAPS

\* A handler record, with the row of the unused record NoReq.
GReqT == [op : Ops, row : Rows \cup {NoReq.row}, state : BOOLEAN,
          before : BOOLEAN, live : BOOLEAN]

GTypeOK ==
    /\ answer \in [Calls -> Progress]
    /\ backend \in [Rows -> BOOLEAN]
    /\ model \in [Rows -> BOOLEAN]
    /\ lazy \in [Rows -> BOOLEAN]
    /\ req \in [Calls -> GReqT]

LIInv == GTypeOK /\ LoadingClearedWhenIdle

-----------------------------------------------------------------------------
(* Facts about the view's helpers.                                         *)

\* Detaching keeps every handler's operation, row and type.
LEMMA DetachKeeps ==
    ASSUME NEW q \in [Calls -> GReqT]
    PROVE  /\ Detach(q) \in [Calls -> GReqT]
           /\ \A c \in Calls : Detach(q)[c].op = q[c].op
           /\ \A c \in Calls : Detach(q)[c].row = q[c].row
BY DEF Detach, GReqT

\* The watcher leaves every checkbox a boolean.
LEMMA FollowType ==
    ASSUME NEW m \in [Rows -> BOOLEAN], NEW m2 \in [Rows -> BOOLEAN],
           NEW l \in [Rows -> BOOLEAN]
    PROVE  Follow(m, m2, l) \in [Rows -> BOOLEAN]
BY DEF Follow

\* The rollback keeps the rows and the checkboxes typed, and leaves the
\* handlers as the handler's rest found them.
LEMMA RollbackType ==
    ASSUME NEW q \in GReqT, NEW k, NEW l \in [Rows -> BOOLEAN],
           NEW reqs \in [Calls -> GReqT], model \in [Rows -> BOOLEAN],
           Rollback(q, k, l, reqs)
    PROVE  /\ model' \in [Rows -> BOOLEAN]
           /\ lazy' \in [Rows -> BOOLEAN]
           /\ req' = reqs
           /\ req' \in [Calls -> GReqT]
           /\ \A c \in Calls : req'[c].op = reqs[c].op
<1>1. PICK m2 \in [Rows -> BOOLEAN] :
         m2 = IF RollsBack(k) /\ q.live
              THEN [model EXCEPT ![q.row] = ~q.state] ELSE model
  BY DEF GReqT
<1>2. model' = m2 /\ lazy' = Follow(model, m2, l)
  BY <1>1 DEF Rollback
<1>3. req' = reqs
  BY DEF Rollback
<1>4. QED
  BY <1>2, <1>3, FollowType

\* The backend's side of a PUT keeps its flags booleans.
LEMMA ApplyType ==
    ASSUME backend \in [Rows -> BOOLEAN], NEW r, NEW v \in BOOLEAN, NEW k,
           ApplyReplica(r, v, k)
    PROVE  backend' \in [Rows -> BOOLEAN]
BY DEF ApplyReplica

-----------------------------------------------------------------------------
(* One lemma per action.                                                   *)

LEMMA InitLIInv == GInit => LIInv
<1> SUFFICES ASSUME GInit PROVE LIInv
  OBVIOUS
<1>1. NoReq \in GReqT
  BY DEF NoReq, GReqT, Ops
<1>2. GTypeOK
  BY <1>1 DEF GInit, Init, GTypeOK, Progress
<1>3. LoadingClearedWhenIdle
  BY DEF GInit, LoadingClearedWhenIdle
<1>4. QED
  BY <1>2, <1>3 DEF LIInv

\* A click sets loading.index only for a toggle whose request was sent, and
\* a click whose request the token check stopped runs the rollback, which
\* clears it.
LEMMA ReplicaClickStep ==
    ASSUME LIInv, NEW r \in Rows, NEW c \in Calls, ReplicaClick(r, c)
    PROVE  LIInv'
<1>1. answer[c] = "idle" /\ answer' = [answer EXCEPT ![c] = Sent]
  BY DEF ReplicaClick, Request
<1>2. Sent \in {"pending", "blocked"}
  BY DEF Sent
<1>3. answer' \in [Calls -> Progress]
  BY <1>1, <1>2 DEF LIInv, GTypeOK, Progress
<1>4. PICK q \in GReqT : q = [op |-> "replica", row |-> r, state |-> model[r],
                             before |-> lazy[r], live |-> TRUE]
  BY DEF LIInv, GTypeOK, GReqT, Ops
<1>5. PICK l \in [Rows -> BOOLEAN] : l = [lazy EXCEPT ![r] = ~@]
  BY DEF LIInv, GTypeOK
<1>6. PICK reqs \in [Calls -> GReqT] : reqs = [req EXCEPT ![c] = q]
  BY <1>4 DEF LIInv, GTypeOK
<1>7. IF answer'[c] = "blocked"
      THEN ReplicaSettle(q, "blocked", l, r[2], reqs)
      ELSE /\ lazy' = l /\ loadingIndex' = r[2] /\ req' = reqs
           /\ UNCHANGED model
  BY <1>4, <1>5, <1>6 DEF ReplicaClick
<1>8. UNCHANGED backend
  BY DEF ReplicaClick
<1>9. CASE answer'[c] = "blocked"
  <2>1. Rollback(q, "blocked", l, reqs) /\ loadingIndex' = -1
    BY <1>7, <1>9 DEF ReplicaSettle
  <2>2. model' \in [Rows -> BOOLEAN] /\ lazy' \in [Rows -> BOOLEAN]
        /\ req' \in [Calls -> GReqT]
    BY <2>1, RollbackType DEF LIInv, GTypeOK
  <2>3. QED
    BY <2>1, <2>2, <1>3, <1>8 DEF LIInv, GTypeOK, LoadingClearedWhenIdle
<1>10. CASE answer'[c] # "blocked"
  <2>1. lazy' = l /\ req' = reqs /\ model' = model
    BY <1>7, <1>10
  <2>2. answer'[c] = "pending"
    BY <1>1, <1>2, <1>10 DEF LIInv, GTypeOK
  <2>3. req'[c].op = "replica"
    BY <2>1, <1>6, <1>4
  <2>4. Pending(c)'
    BY <2>2, <2>3 DEF Pending
  <2>5. QED
    BY <2>1, <2>4, <1>3, <1>8 DEF LIInv, GTypeOK, LoadingClearedWhenIdle
<1>11. QED
  BY <1>9, <1>10

\* The answer to a toggle runs the rollback and the finally block.
LEMMA ReplicaAnswerStep ==
    ASSUME LIInv, NEW c \in Calls, NEW k \in Answers, ReplicaAnswer(c, k)
    PROVE  LIInv'
<1>1. answer' = [answer EXCEPT ![c] = k]
  BY DEF ReplicaAnswer, Respond
<1>2. answer' \in [Calls -> Progress]
  BY <1>1 DEF LIInv, GTypeOK, Progress
<1>3. req[c] \in GReqT
  BY DEF LIInv, GTypeOK
<1>4. backend' \in [Rows -> BOOLEAN]
  <2>1. ApplyReplica(req[c].row, ~req[c].state, k)
    BY DEF ReplicaAnswer
  <2>2. (~req[c].state) \in BOOLEAN
    BY <1>3 DEF GReqT
  <2>3. QED
    BY <2>1, <2>2, ApplyType DEF LIInv, GTypeOK
<1>5. Rollback(req[c], k, lazy, req) /\ loadingIndex' = -1
  BY DEF ReplicaAnswer, ReplicaSettle
<1>6. model' \in [Rows -> BOOLEAN] /\ lazy' \in [Rows -> BOOLEAN]
      /\ req' \in [Calls -> GReqT]
  BY <1>3, <1>5, RollbackType DEF LIInv, GTypeOK
<1>7. QED
  BY <1>2, <1>4, <1>5, <1>6 DEF LIInv, GTypeOK, LoadingClearedWhenIdle

\* A command button issues a call that was idle, so no waiting toggle is
\* touched.
LEMMA CommandClickStep ==
    ASSUME LIInv, NEW op \in Ops \ {"none", "replica"}, NEW g \in GroupIds,
           NEW c \in Calls, CommandClick(op, g, c)
    PROVE  LIInv'
<1>1. answer[c] = "idle" /\ answer' = [answer EXCEPT ![c] = Sent]
  BY DEF CommandClick, Request
<1>2. answer' \in [Calls -> Progress]
  BY <1>1 DEF LIInv, GTypeOK, Progress, Sent
<1>3. 0 \in Idx
  BY NServersAssumption DEF Idx
<1>4. [NoReq EXCEPT !.op = op, !.row = <<g, 0>>] \in GReqT
  BY <1>3 DEF NoReq, GReqT, Rows
<1>5. req' = [req EXCEPT ![c] = [NoReq EXCEPT !.op = op, !.row = <<g, 0>>]]
  BY DEF CommandClick
<1>6. req' \in [Calls -> GReqT]
  BY <1>4, <1>5 DEF LIInv, GTypeOK
<1>7. UNCHANGED <<backend, model, lazy, loadingIndex>>
  BY DEF CommandClick
<1>8. ASSUME NEW d \in Calls, Pending(d) PROVE Pending(d)'
  <2>1. d # c
    BY <1>1, <1>8 DEF Pending
  <2>2. QED
    BY <1>1, <1>5, <1>8, <2>1 DEF LIInv, GTypeOK, Pending
<1>9. QED
  BY <1>2, <1>6, <1>7, <1>8 DEF LIInv, GTypeOK, LoadingClearedWhenIdle

\* The answer to a command leaves loading.index and the handlers alone.
LEMMA CommandAnswerStep ==
    ASSUME LIInv, NEW c \in Calls, NEW k \in Answers, CommandAnswer(c, k)
    PROVE  LIInv'
<1>1. req[c].op \in {"sync", "degrade", "other"}
      /\ answer' = [answer EXCEPT ![c] = k]
  BY DEF CommandAnswer, Respond
<1>2. answer' \in [Calls -> Progress]
  BY <1>1 DEF LIInv, GTypeOK, Progress
<1>3. UNCHANGED <<backend, model, lazy, loadingIndex, req>>
  BY DEF CommandAnswer
<1>4. ASSUME NEW d \in Calls, Pending(d) PROVE Pending(d)'
  <2>1. d # c
    BY <1>1, <1>4 DEF Pending
  <2>2. QED
    BY <1>1, <1>3, <1>4, <2>1 DEF LIInv, GTypeOK, Pending
<1>5. QED
  BY <1>2, <1>3, <1>4 DEF LIInv, GTypeOK, LoadingClearedWhenIdle

\* New groups from the page detach the handlers' rows and keep their
\* operations.
LEMMA RefreshStep ==
    ASSUME LIInv, Refresh
    PROVE  LIInv'
<1>1. model' = backend /\ lazy' = Follow(model, backend, lazy)
      /\ req' = Detach(req)
      /\ UNCHANGED <<backend, loadingIndex, answer>>
  BY DEF Refresh, adapterVars, vars
<1>2. req' \in [Calls -> GReqT] /\ \A c \in Calls : req'[c].op = req[c].op
  BY <1>1, DetachKeeps DEF LIInv, GTypeOK
<1>3. lazy' \in [Rows -> BOOLEAN]
  BY <1>1, FollowType DEF LIInv, GTypeOK
<1>4. QED
  BY <1>1, <1>2, <1>3 DEF LIInv, GTypeOK, LoadingClearedWhenIdle, Pending

\* A cookie change touches no state of the table.
LEMMA CookieStep ==
    ASSUME LIInv, CookieChange, UNCHANGED viewVars
    PROVE  LIInv'
BY DEF CookieChange, viewVars, LIInv, GTypeOK, LoadingClearedWhenIdle, Pending

LEMMA NextLIInv == LIInv /\ [GNext]_allVars => LIInv'
<1> SUFFICES ASSUME LIInv, [GNext]_allVars PROVE LIInv'
  OBVIOUS
<1>1. CASE \E r \in Rows, c \in Calls : ReplicaClick(r, c)
  BY <1>1, ReplicaClickStep
<1>2. CASE \E c \in Calls, k \in Answers : ReplicaAnswer(c, k)
  BY <1>2, ReplicaAnswerStep
<1>3. CASE \E op \in Ops \ {"none", "replica"}, g \in GroupIds, c \in Calls :
              CommandClick(op, g, c)
  BY <1>3, CommandClickStep
<1>4. CASE \E c \in Calls, k \in Answers : CommandAnswer(c, k)
  BY <1>4, CommandAnswerStep
<1>5. CASE Refresh
  BY <1>5, RefreshStep
<1>6. CASE CookieChange /\ UNCHANGED viewVars
  BY <1>6, CookieStep
<1>7. CASE UNCHANGED allVars
  BY <1>7 DEF allVars, adapterVars, vars, viewVars, LIInv, GTypeOK,
              LoadingClearedWhenIdle, Pending
<1>8. QED
  BY <1>1, <1>2, <1>3, <1>4, <1>5, <1>6, <1>7 DEF GNext

\* The spinner of the group table is never left behind: in every
\* behaviour of the table, whatever the number of groups, servers and
\* calls, loading.index is -1 whenever no replica toggle awaits its answer.
THEOREM LoadingCorrect == GSpec => []LoadingClearedWhenIdle
<1>1. LIInv => LoadingClearedWhenIdle
  BY DEF LIInv
<1>2. QED
  BY InitLIInv, NextLIInv, <1>1, PTL DEF GSpec

-----------------------------------------------------------------------------
(* The composition with the adapter.                                       *)

\* Every step of the table is a step of the adapter or leaves it alone.
LEMMA GroupAdapterStep == [GNext]_allVars => [Next]_vars
<1> SUFFICES ASSUME [GNext]_allVars PROVE [Next]_vars
  OBVIOUS
<1>1. CASE \E r \in Rows, c \in Calls : ReplicaClick(r, c)
  BY <1>1 DEF ReplicaClick, Next
<1>2. CASE \E c \in Calls, k \in Answers : ReplicaAnswer(c, k)
  BY <1>2 DEF ReplicaAnswer, Next
<1>3. CASE \E op \in Ops \ {"none", "replica"}, g \in GroupIds, c \in Calls :
              CommandClick(op, g, c)
  BY <1>3 DEF CommandClick, Next
<1>4. CASE \E c \in Calls, k \in Answers : CommandAnswer(c, k)
  BY <1>4 DEF CommandAnswer, Next
<1>5. CASE Refresh
  BY <1>5 DEF Refresh, adapterVars
<1>6. CASE CookieChange /\ UNCHANGED viewVars
  BY <1>6 DEF Next, EnvNext
<1>7. CASE UNCHANGED allVars
  BY <1>7 DEF allVars, adapterVars
<1>8. QED
  BY <1>1, <1>2, <1>3, <1>4, <1>5, <1>6, <1>7 DEF GNext

\* The group table's behaviours are behaviours of the adapter its requests
\* go through; in particular its HTTP errors fill the error log as
\* LogCorrect says, and its calls settle as the caller contract says.
THEOREM GroupAdapter == GSpec => Spec
<1>1. GInit => Init
  BY DEF GInit
<1>2. QED
  BY <1>1, GroupAdapterStep, PTL DEF GSpec, Spec

-----------------------------------------------------------------------------
(* The spinner refines ReplicaSpinner.                                     *)

\* A call not yet issued has no handler.
IdleUnused == \A c \in Calls : answer[c] = "idle" => req[c].op = "none"

\* The images of ReplicaSpinner's variables under the mapping.
Waiting == {c \in Calls : Pending(c)}
Inflight == {<<c, req[c].row[2]>> : c \in Waiting}
Issued == {c \in Calls : req[c].op = "replica"}

\* Every step keeps the calls that are not yet issued free of handlers.
LEMMA IdleUnusedStep ==
    ASSUME LIInv, IdleUnused, [GNext]_allVars
    PROVE  IdleUnused'
<1>1. ASSUME NEW c \in Calls, Request(c), NEW q,
             req' = [req EXCEPT ![c] = q]
      PROVE  IdleUnused'
  BY <1>1 DEF Request, Sent, IdleUnused, LIInv, GTypeOK
<1>2. ASSUME NEW c \in Calls, NEW k \in Answers, Respond(c, k),
             \A d \in Calls : req'[d].op = req[d].op
      PROVE  IdleUnused'
  BY <1>2 DEF Respond, Answers, IdleUnused, LIInv, GTypeOK
<1>3. CASE \E r \in Rows, c \in Calls : ReplicaClick(r, c)
  <2>1. PICK r \in Rows, c \in Calls : ReplicaClick(r, c)
    BY <1>3
  <2>2. PICK q : req' = [req EXCEPT ![c] = q]
    <3>1. PICK q \in GReqT : q = [op |-> "replica", row |-> r,
                                  state |-> model[r], before |-> lazy[r],
                                  live |-> TRUE]
      BY DEF LIInv, GTypeOK, GReqT, Ops
    <3>2. PICK l \in [Rows -> BOOLEAN] : l = [lazy EXCEPT ![r] = ~@]
      BY DEF LIInv, GTypeOK
    <3>3. PICK reqs \in [Calls -> GReqT] : reqs = [req EXCEPT ![c] = q]
      BY <3>1 DEF LIInv, GTypeOK
    <3>4. IF answer'[c] = "blocked"
          THEN ReplicaSettle(q, "blocked", l, r[2], reqs)
          ELSE req' = reqs
      BY <2>1, <3>1, <3>2, <3>3 DEF ReplicaClick
    <3>5. req' = reqs
      BY <3>1, <3>2, <3>3, <3>4, RollbackType DEF ReplicaSettle, LIInv, GTypeOK
    <3>6. QED
      BY <3>3, <3>5
  <2>3. QED
    BY <2>1, <2>2, <1>1 DEF ReplicaClick
<1>4. CASE \E c \in Calls, k \in Answers : ReplicaAnswer(c, k)
  <2>1. PICK c \in Calls, k \in Answers : ReplicaAnswer(c, k)
    BY <1>4
  <2>2. req' = req
    <3>1. Rollback(req[c], k, lazy, req)
      BY <2>1 DEF ReplicaAnswer, ReplicaSettle
    <3>2. QED
      BY <3>1, RollbackType DEF LIInv, GTypeOK
  <2>3. QED
    BY <2>1, <2>2, <1>2 DEF ReplicaAnswer
<1>5. CASE \E op \in Ops \ {"none", "replica"}, g \in GroupIds, c \in Calls :
              CommandClick(op, g, c)
  BY <1>5, <1>1 DEF CommandClick
<1>6. CASE \E c \in Calls, k \in Answers : CommandAnswer(c, k)
  BY <1>6, <1>2 DEF CommandAnswer
<1>7. CASE Refresh
  <2>1. req' = Detach(req) /\ UNCHANGED answer
    BY <1>7 DEF Refresh, adapterVars, vars
  <2>2. QED
    BY <2>1, DetachKeeps DEF IdleUnused, LIInv, GTypeOK
<1>8. CASE CookieChange /\ UNCHANGED viewVars
  BY <1>8 DEF CookieChange, viewVars, IdleUnused
<1>9. CASE UNCHANGED allVars
  BY <1>9 DEF allVars, adapterVars, vars, viewVars, IdleUnused
<1>10. QED
  BY <1>3, <1>4, <1>5, <1>6, <1>7, <1>8, <1>9 DEF GNext

\* Pairing a set of calls with their rows' indexes under two call maps
\* that agree on the calls' rows gives the same set of pairs.
LEMMA PairsSame ==
    ASSUME NEW W, NEW f, NEW g, \A d \in W : f[d].row = g[d].row
    PROVE  {<<d, f[d].row[2]>> : d \in W} = {<<d, g[d].row[2]>> : d \in W}
OBVIOUS

\* A click whose request is sent shows the spinner on its row and the
\* toggle starts to wait; a click whose request is stopped clears it.
LEMMA ReplicaClickSpin ==
    ASSUME LIInv, IdleUnused, NEW r \in Rows, NEW c \in Calls,
           ReplicaClick(r, c)
    PROVE  Spinner!Show(c, r[2]) \/ Spinner!Stop(c)
<1>1. answer[c] = "idle" /\ answer' = [answer EXCEPT ![c] = Sent]
  BY DEF ReplicaClick, Request
<1>2. c \notin Waiting /\ c \notin Issued
  BY <1>1 DEF Waiting, Pending, Issued, IdleUnused
<1>3. PICK q \in GReqT : q = [op |-> "replica", row |-> r, state |-> model[r],
                             before |-> lazy[r], live |-> TRUE]
  BY DEF LIInv, GTypeOK, GReqT, Ops
<1>4. PICK l \in [Rows -> BOOLEAN] : l = [lazy EXCEPT ![r] = ~@]
  BY DEF LIInv, GTypeOK
<1>5. PICK reqs \in [Calls -> GReqT] : reqs = [req EXCEPT ![c] = q]
  BY <1>3 DEF LIInv, GTypeOK
<1>6. IF answer'[c] = "blocked"
      THEN ReplicaSettle(q, "blocked", l, r[2], reqs)
      ELSE /\ lazy' = l /\ loadingIndex' = r[2] /\ req' = reqs
           /\ UNCHANGED model
  BY <1>3, <1>4, <1>5 DEF ReplicaClick
<1>7. req' = reqs
  BY <1>3, <1>4, <1>5, <1>6, RollbackType DEF ReplicaSettle, LIInv, GTypeOK
<1>8. /\ req'[c].op = "replica" /\ req'[c].row = r
      /\ \A d \in Calls \ {c} : req'[d] = req[d] /\ answer'[d] = answer[d]
  BY <1>1, <1>3, <1>5, <1>7 DEF LIInv, GTypeOK
<1>9. Issued' = Issued \cup {c}
  BY <1>8 DEF Issued
<1>10. \A d \in Calls \ {c} : d \in Waiting' <=> d \in Waiting
  BY <1>8 DEF Waiting, Pending
<1>11. CASE answer'[c] = "blocked"
  <2>1. loadingIndex' = -1
    BY <1>6, <1>11 DEF ReplicaSettle
  <2>2. c \notin Waiting'
    BY <1>11 DEF Waiting, Pending
  <2>3. Waiting' = Waiting
    BY <1>2, <1>10, <2>2 DEF Waiting
  <2>4. Inflight' = Inflight
    <3>1. \A d \in Waiting : req'[d].row = req[d].row
      BY <1>2, <1>8 DEF Waiting
    <3>2. Inflight' = {<<d, req'[d].row[2]>> : d \in Waiting}
      BY <2>3 DEF Inflight
    <3>3. {<<d, req'[d].row[2]>> : d \in Waiting}
          = {<<d, req[d].row[2]>> : d \in Waiting}
      BY <3>1, PairsSame
    <3>4. QED
      BY <3>2, <3>3 DEF Inflight
  <2>5. QED
    BY <1>2, <1>9, <2>1, <2>4
    DEF Spinner!Stop, Spinner!spinVars, Inflight, Issued, Waiting
<1>12. CASE answer'[c] # "blocked"
  <2>1. loadingIndex' = r[2]
    BY <1>6, <1>12
  <2>2. answer'[c] = "pending"
    BY <1>1, <1>12 DEF LIInv, GTypeOK, Sent
  <2>3. c \in Waiting'
    BY <1>8, <2>2 DEF Waiting, Pending
  <2>4. Waiting' = Waiting \cup {c}
    BY <1>10, <2>3 DEF Waiting
  <2>5. Inflight' = Inflight \cup {<<c, r[2]>>}
    <3>1. \A d \in Waiting : req'[d].row = req[d].row
      BY <1>2, <1>8 DEF Waiting
    <3>2. {<<d, req'[d].row[2]>> : d \in Waiting} = Inflight
      <4>1. {<<d, req'[d].row[2]>> : d \in Waiting}
            = {<<d, req[d].row[2]>> : d \in Waiting}
        BY <3>1, PairsSame
      <4>2. QED
        BY <4>1 DEF Inflight
    <3>3. Inflight' = {<<d, req'[d].row[2]>> : d \in Waiting}
                      \cup {<<c, req'[c].row[2]>>}
      BY <2>4 DEF Inflight
    <3>4. QED
      BY <1>8, <3>2, <3>3
  <2>6. QED
    BY <1>2, <1>9, <2>1, <2>5
    DEF Spinner!Show, Spinner!spinVars, Inflight, Issued, Waiting
<1>13. QED
  BY <1>11, <1>12

\* The answer to a waiting toggle clears the spinner and ends its wait.
LEMMA ReplicaAnswerSpin ==
    ASSUME LIInv, NEW c \in Calls, NEW k \in Answers, ReplicaAnswer(c, k)
    PROVE  Spinner!Clear(<<c, req[c].row[2]>>)
<1>1. req[c].op = "replica" /\ answer[c] = "pending"
      /\ answer' = [answer EXCEPT ![c] = k]
  BY DEF ReplicaAnswer, Respond
<1>2. c \in Waiting /\ c \notin Waiting'
  BY <1>1 DEF LIInv, GTypeOK, Answers, Waiting, Pending
<1>3. Rollback(req[c], k, lazy, req) /\ loadingIndex' = -1
  BY DEF ReplicaAnswer, ReplicaSettle
<1>4. req' = req
  BY <1>3, RollbackType DEF LIInv, GTypeOK
<1>5. \A d \in Calls \ {c} : d \in Waiting' <=> d \in Waiting
  BY <1>1, <1>4 DEF LIInv, GTypeOK, Waiting, Pending
<1>6. Waiting' = Waiting \ {c}
  BY <1>2, <1>5 DEF Waiting
<1>7. Inflight' = Inflight \ {<<c, req[c].row[2]>>}
  BY <1>4, <1>6 DEF Inflight
<1>8. <<c, req[c].row[2]>> \in Inflight /\ Issued' = Issued
  BY <1>2, <1>4 DEF Inflight, Issued
<1>9. QED
  BY <1>3, <1>7, <1>8 DEF Spinner!Clear, Spinner!spinVars, Inflight, Issued,
                          Waiting

\* A command's click and answer touch neither loading.index nor a toggle.
LEMMA CommandSpin ==
    ASSUME LIInv, IdleUnused, NEW c \in Calls,
           \/ \E op \in Ops \ {"none", "replica"}, g \in GroupIds :
                 CommandClick(op, g, c)
           \/ \E k \in Answers : CommandAnswer(c, k)
    PROVE  UNCHANGED Spinner!spinVars
<1>1. /\ c \notin Waiting /\ c \notin Waiting'
      /\ c \notin Issued /\ c \notin Issued'
      /\ \A d \in Calls \ {c} : answer'[d] = answer[d] /\ req'[d] = req[d]
      /\ UNCHANGED loadingIndex
  <2>1. CASE \E op \in Ops \ {"none", "replica"}, g \in GroupIds :
                CommandClick(op, g, c)
    <3>0. PICK op \in Ops \ {"none", "replica"} :
                \E g \in GroupIds : CommandClick(op, g, c)
      BY <2>1
    <3>1. PICK g \in GroupIds : CommandClick(op, g, c)
      BY <3>0
    <3>2. answer[c] = "idle" /\ req[c].op = "none"
      BY <3>1 DEF CommandClick, Request, IdleUnused
    <3>3. /\ req'[c].op = op
          /\ answer' = [answer EXCEPT ![c] = Sent]
          /\ \A d \in Calls \ {c} : req'[d] = req[d]
          /\ UNCHANGED loadingIndex
      BY <3>1 DEF CommandClick, Request, NoReq, LIInv, GTypeOK
    <3>4. req'[c].op # "replica" /\ op # "none"
      BY <3>3
    <3>5. \A d \in Calls \ {c} : answer'[d] = answer[d]
      BY <3>3 DEF LIInv, GTypeOK
    <3>6. c \notin Waiting /\ c \notin Waiting' /\ c \notin Issued
          /\ c \notin Issued'
      BY <3>2, <3>4 DEF Waiting, Pending, Issued
    <3>7. QED
      BY <3>3, <3>5, <3>6
  <2>2. CASE \E k \in Answers : CommandAnswer(c, k)
    <3>1. PICK k \in Answers : CommandAnswer(c, k)
      BY <2>2
    <3>2. /\ req[c].op \notin {"none", "replica"}
          /\ UNCHANGED <<req, loadingIndex>>
          /\ answer' = [answer EXCEPT ![c] = k]
      BY <3>1 DEF CommandAnswer, Respond
    <3>3. QED
      BY <3>2 DEF Waiting, Pending, Issued, LIInv, GTypeOK
  <2>3. QED
    BY <2>1, <2>2
<1>2. Waiting' = Waiting /\ Issued' = Issued
  BY <1>1 DEF Waiting, Pending, Issued
<1>3. Inflight' = Inflight
  <2>1. \A d \in Waiting : req'[d].row = req[d].row
    BY <1>1 DEF Waiting
  <2>2. Inflight' = {<<d, req'[d].row[2]>> : d \in Waiting}
    BY <1>2 DEF Inflight
  <2>3. {<<d, req'[d].row[2]>> : d \in Waiting}
        = {<<d, req[d].row[2]>> : d \in Waiting}
    BY <2>1, PairsSame
  <2>4. QED
    BY <2>2, <2>3 DEF Inflight
<1>4. QED
  BY <1>1, <1>2, <1>3 DEF Spinner!spinVars, Inflight, Issued, Waiting

\* New groups keep every call's answer, operation and row, and
\* loading.index.
LEMMA RefreshSpin ==
    ASSUME LIInv, Refresh
    PROVE  UNCHANGED Spinner!spinVars
<1>1. req' = Detach(req) /\ UNCHANGED <<loadingIndex, answer>>
  BY DEF Refresh, adapterVars, vars
<1>2. \A d \in Calls : req'[d].op = req[d].op /\ req'[d].row = req[d].row
  BY <1>1, DetachKeeps DEF LIInv, GTypeOK
<1>3. Waiting' = Waiting /\ Issued' = Issued
  BY <1>1, <1>2 DEF Waiting, Pending, Issued
<1>4. Inflight' = Inflight
  <2>1. Inflight' = {<<d, req'[d].row[2]>> : d \in Waiting}
    BY <1>3 DEF Inflight
  <2>2. {<<d, req'[d].row[2]>> : d \in Waiting}
        = {<<d, req[d].row[2]>> : d \in Waiting}
    <3>1. \A d \in Waiting : req'[d].row = req[d].row
      BY <1>2 DEF Waiting
    <3>2. QED
      BY <3>1, PairsSame
  <2>3. QED
    BY <2>1, <2>2 DEF Inflight
<1>5. QED
  BY <1>1, <1>3, <1>4 DEF Spinner!spinVars, Inflight, Issued, Waiting

\* Every step of the table is a step of the spinner or leaves it alone.
LEMMA SpinnerStep ==
    LIInv /\ IdleUnused /\ [GNext]_allVars
        => [Spinner!SpinnerNext]_Spinner!spinVars
<1> SUFFICES ASSUME LIInv, IdleUnused, [GNext]_allVars
             PROVE  [Spinner!SpinnerNext]_Spinner!spinVars
  OBVIOUS
<1>1. CASE \E r \in Rows, c \in Calls : ReplicaClick(r, c)
  <2>1. PICK r \in Rows, c \in Calls : ReplicaClick(r, c)
    BY <1>1
  <2>2. r[2] \in Idx
    BY DEF Rows
  <2>3. QED
    BY <2>1, <2>2, ReplicaClickSpin DEF Spinner!SpinnerNext
<1>2. CASE \E c \in Calls, k \in Answers : ReplicaAnswer(c, k)
  <2>1. PICK c \in Calls, k \in Answers : ReplicaAnswer(c, k)
    BY <1>2
  <2>2. Spinner!Clear(<<c, req[c].row[2]>>)
    BY <2>1, ReplicaAnswerSpin
  <2>3. <<c, req[c].row[2]>> \in Inflight
    BY <2>2 DEF Spinner!Clear, Inflight, Waiting
  <2>4. QED
    BY <2>2, <2>3 DEF Spinner!SpinnerNext, Spinner!Clear, Inflight, Waiting
<1>3. CASE \E op \in Ops \ {"none", "replica"}, g \in GroupIds, c \in Calls :
              CommandClick(op, g, c)
  BY <1>3, CommandSpin
<1>4. CASE \E c \in Calls, k \in Answers : CommandAnswer(c, k)
  BY <1>4, CommandSpin
<1>5. CASE Refresh
  BY <1>5, RefreshSpin
<1>6. CASE CookieChange /\ UNCHANGED viewVars
  BY <1>6 DEF CookieChange, viewVars, Spinner!spinVars, Pending
<1>7. CASE UNCHANGED allVars
  BY <1>7 DEF allVars, adapterVars, vars, viewVars, Spinner!spinVars, Pending
<1>8. QED
  BY <1>1, <1>2, <1>3, <1>4, <1>5, <1>6, <1>7 DEF GNext

LEMMA InitSpin == GInit => Spinner!SpinnerInit /\ IdleUnused
BY DEF GInit, Init, Spinner!SpinnerInit, Pending, IdleUnused, NoReq

\* The group table implements ReplicaSpinner, for every set of groups,
\* servers and calls: each replica toggle takes a call of its own;
\* loading.index moves only to the index of the row whose toggle was just
\* sent, which then waits for its answer; and it goes back to -1 only when
\* a waiting toggle's answer arrives or a new toggle's request is stopped.
THEOREM SpinnerRefinement == GSpec => SpinnerRefined
<1>1. LIInv /\ IdleUnused /\ [GNext]_allVars => (LIInv /\ IdleUnused)'
  BY NextLIInv, IdleUnusedStep
<1>2. QED
  BY <1>1, InitSpin, InitLIInv, SpinnerStep, PTL
     DEF GSpec, SpinnerRefined, Spinner!SpinnerSpec

\* ReplicaSpinner keeps its spinner on a waiting toggle's row.
LEMMA SpinnerOnWaitingRowInv ==
    /\ Spinner!SpinnerInit => Spinner!SpinnerOnWaitingRow
    /\ Spinner!SpinnerOnWaitingRow /\ [Spinner!SpinnerNext]_Spinner!spinVars
           => Spinner!SpinnerOnWaitingRow'
<1>1. Spinner!SpinnerInit => Spinner!SpinnerOnWaitingRow
  BY DEF Spinner!SpinnerInit, Spinner!SpinnerOnWaitingRow
<1>2. ASSUME Spinner!SpinnerOnWaitingRow,
             [Spinner!SpinnerNext]_Spinner!spinVars
      PROVE  Spinner!SpinnerOnWaitingRow'
  <2>1. CASE \E c \in Calls, i \in Idx : Spinner!Show(c, i)
    <3>1. PICK c \in Calls, i \in Idx : Spinner!Show(c, i)
      BY <2>1
    <3>2. <<c, i>> \in Inflight' /\ loadingIndex' = i
      BY <3>1 DEF Spinner!Show, Inflight, Waiting
    <3>3. QED
      BY <3>2 DEF Spinner!SpinnerOnWaitingRow, Inflight, Waiting
  <2>2. CASE \E c \in Calls : Spinner!Stop(c) \/ \E p \in Inflight : Spinner!Clear(p)
    <3>1. loadingIndex' = -1
      BY <2>2 DEF Spinner!Stop, Spinner!Clear
    <3>2. QED
      BY <3>1 DEF Spinner!SpinnerOnWaitingRow
  <2>3. CASE UNCHANGED Spinner!spinVars
    BY <1>2, <2>3 DEF Spinner!SpinnerOnWaitingRow, Spinner!spinVars
  <2>4. QED
    BY <1>2, <2>1, <2>2, <2>3 DEF Spinner!SpinnerNext, Inflight, Waiting
<1>3. QED
  BY <1>1, <1>2

\* Whenever the group table shows its replica spinner, on whichever row
\* and however toggles and refreshes interleaved, some toggle of a row at
\* that index is still waiting for its answer.
THEOREM SpinnerOnWaiting == GSpec => []Spinner!SpinnerOnWaitingRow
<1>1. Spinner!SpinnerSpec => []Spinner!SpinnerOnWaitingRow
  BY SpinnerOnWaitingRowInv, PTL DEF Spinner!SpinnerSpec
<1>2. QED
  BY <1>1, SpinnerRefinement, PTL DEF SpinnerRefined

=============================================================================
