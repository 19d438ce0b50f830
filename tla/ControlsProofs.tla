--------------------------- MODULE ControlsProofs ---------------------------
(***************************************************************************)
(* Proofs about the command controls, for every set of calls: the         *)
(* controls' state stays well typed (ControlsTypeOK), and in particular    *)
(* the control plane and the page only hold groups the new-group button's  *)
(* guard lets through.  That is not inductive alone: the control plane     *)
(* adds Number(id) of a new group's text when it answers, which is a group *)
(* only because canAddGroup held when the request was issued, so every     *)
(* addGroup request in flight must carry the text of a group (AddGroupIds).*)
(*                                                                         *)
(* The controls compose the adapter: each of their steps is an adapter    *)
(* step (a click issues a Request, an answer passes Respond) or leaves the *)
(* adapter's state alone.  So the controls' behaviours are adapter         *)
(* behaviours, and what HttpAdapterProofs proves of the adapter (its type, *)
(* the error log) holds of them too.                                       *)
(***************************************************************************)
EXTENDS Controls, HttpAdapterProofs, TLAPS

\* The control plane's data and the page's copy of it.
BackOK ==
    /\ groups \subseteq {1, 2} /\ pageGroups \subseteq {1, 2}
    /\ disabled \in BOOLEAN /\ cross \in BOOLEAN
    /\ pageDisabled \in BOOLEAN /\ pageCross \in BOOLEAN

\* The forms and dialogs.
FormOK ==
    /\ created \in BOOLEAN /\ cloudList \in BOOLEAN
    /\ isOpenRange \in BOOLEAN /\ isOpenSome \in BOOLEAN
    /\ mDialog \in {-1, 0, 1} /\ pDialog \in {-1, 0, 1}

\* The calls, what they were issued for and what their handlers did.
CallsOK ==
    /\ answer \in [Calls -> Progress]
    /\ creq \in [Calls -> CReq]
    /\ emitted \in [Calls -> BOOLEAN]

AddGroupIds ==
    \A c \in Calls : creq[c].op = "addGroup" => Number(creq[c].id) \in {1, 2}

CIInv == BackOK /\ FormOK /\ CallsOK /\ AddGroupIds

-----------------------------------------------------------------------------
(* Facts about the handlers' continuation.                                 *)

\* Emit keeps the handlers' flags booleans.
LEMMA EmitFacts ==
    ASSUME emitted \in [Calls -> BOOLEAN], NEW c \in Calls, NEW q, NEW k,
           Emit(c, q, k)
    PROVE  /\ emitted' \in [Calls -> BOOLEAN]
BY DEF Emit

\* The strengthening includes the type invariant.
LEMMA CIInvImpliesTypeOK == CIInv => ControlsTypeOK
BY DEF CIInv, BackOK, FormOK, CallsOK, ControlsTypeOK

\* The texts canAddGroup lets through are those of the groups.
LEMMA PositiveNumber ==
    ASSUME NEW t \in IdTexts, Number(t) > 0
    PROVE  Number(t) \in {1, 2}
<1>1. CASE t = ""
  <2>1. Number(t) = 0
    BY <1>1 DEF Number
  <2>2. QED
    BY <2>1
<1>2. CASE t \in {"1", "01"}
  BY <1>2 DEF Number
<1>3. CASE t = "2"
  BY <1>3 DEF Number
<1>4. CASE t = "x"
  <2>1. Number(t) = -1
    BY <1>4 DEF Number
  <2>2. QED
    BY <2>1
<1>5. QED
  BY <1>1, <1>2, <1>3, <1>4 DEF IdTexts

\* A request record built from NoCReq is a CReq when its operation is one.
LEMMA NoCReqOp ==
    ASSUME NEW o \in COps
    PROVE  [NoCReq EXCEPT !.op = o] \in CReq /\ [NoCReq EXCEPT !.op = o].op = o
BY DEF NoCReq, CReq, IdTexts

LEMMA NoCReqVal ==
    ASSUME NEW o \in COps, NEW v \in {0, 1}
    PROVE  /\ [NoCReq EXCEPT !.op = o, !.val = v] \in CReq
           /\ [NoCReq EXCEPT !.op = o, !.val = v].op = o
BY DEF NoCReq, CReq, IdTexts

-----------------------------------------------------------------------------
(* The requests.                                                           *)

\* Issuing a request on an idle call.
LEMMA IssueStep ==
    ASSUME CIInv, NEW c \in Calls, NEW q \in CReq,
           q.op = "addGroup" => Number(q.id) \in {1, 2},
           Issue(c, q)
    PROVE  BackOK' /\ CallsOK' /\ AddGroupIds'
<1>1. /\ answer[c] = "idle"
      /\ answer' = [answer EXCEPT ![c] = Sent]
      /\ Sent \in {"pending", "blocked"}
  BY DEF Issue, Request, Sent
<1>2. creq' = [creq EXCEPT ![c] = q]
  BY DEF Issue
<1>3. UNCHANGED <<groups, disabled, cross, pageGroups, pageDisabled, pageCross>>
  BY DEF Issue, backVars, pageVars
<1>5. emitted' \in [Calls -> BOOLEAN]
  <2>1. CASE answer'[c] = "blocked"
    <3>1. Emit(c, q, "blocked")
      BY <2>1 DEF Issue
    <3>2. QED
      BY <3>1, EmitFacts DEF CIInv, CallsOK
  <2>2. CASE answer'[c] # "blocked"
    BY <2>2 DEF Issue, CIInv, CallsOK
  <2>3. QED
    BY <2>1, <2>2
<1>6. BackOK'
  BY <1>3 DEF CIInv, BackOK
<1>7. CallsOK'
  BY <1>1, <1>2, <1>5 DEF CIInv, CallsOK, Progress
<1>8. AddGroupIds'
  BY <1>2 DEF CIInv, CallsOK, AddGroupIds
<1>9. QED
  BY <1>6, <1>7, <1>8

\* The clicks that issue a request and leave the forms alone.
LEMMA ClickStep ==
    ASSUME CIInv, NEW c \in Calls, NEW q \in CReq,
           q.op = "addGroup" => Number(q.id) \in {1, 2},
           Issue(c, q), UNCHANGED formVars
    PROVE  CIInv'
BY IssueStep DEF CIInv, FormOK, formVars

LEMMA AddGroupStep ==
    ASSUME CIInv, NEW c \in Calls, NEW t \in IdTexts, AddGroupClick(c, t)
    PROVE  CIInv'
<1>1. Number(t) \in {1, 2}
  <2>1. Number(t) > 0
    BY DEF AddGroupClick, CanAddGroup
  <2>2. QED
    BY <2>1, PositiveNumber
<1>2. [NoCReq EXCEPT !.op = "addGroup", !.id = t] \in CReq
  BY DEF NoCReq, CReq, COps
<1>3. [NoCReq EXCEPT !.op = "addGroup", !.id = t].id = t
  BY DEF NoCReq
<1>4. QED
  BY <1>1, <1>2, <1>3, ClickStep DEF AddGroupClick

LEMMA AddServerStep ==
    ASSUME CIInv, NEW c \in Calls, NEW sv, NEW t \in IdTexts,
           AddServerClick(c, sv, t)
    PROVE  CIInv'
<1>1. [NoCReq EXCEPT !.op = "addServer", !.id = t] \in CReq
  BY DEF NoCReq, CReq, COps, EmitOps
<1>2. [NoCReq EXCEPT !.op = "addServer", !.id = t].op # "addGroup"
  BY DEF NoCReq
<1>3. QED
  BY <1>1, <1>2, ClickStep DEF AddServerClick

\* The buttons whose request carries only its operation.
LEMMA OpClickStep ==
    ASSUME CIInv, NEW c \in Calls,
           NEW op \in EmitOps \cup ProxyOps \cup {"forceDel"},
           \/ AllClick(op, c) \/ MigrateClick(op, c) \/ ProxyClick(op, c)
    PROVE  CIInv'
<1>0. op \in COps /\ op # "addGroup"
  BY DEF COps, EmitOps, ProxyOps, SilentOps
<1>1. [NoCReq EXCEPT !.op = op] \in CReq
  BY <1>0, NoCReqOp
<1>2. [NoCReq EXCEPT !.op = op].op # "addGroup"
  BY <1>0, NoCReqOp
<1>3. Issue(c, [NoCReq EXCEPT !.op = op]) /\ UNCHANGED formVars
  BY DEF AllClick, MigrateClick, ProxyClick
<1>4. QED
  BY <1>1, <1>2, <1>3, ClickStep

\* created() issues GET /constants once.
LEMMA CreatedStep ==
    ASSUME CIInv, NEW c \in Calls, Created(c)
    PROVE  CIInv'
<1>0. "cloudType" \in COps
  BY DEF COps
<1>1. [NoCReq EXCEPT !.op = "cloudType"] \in CReq
  BY <1>0, NoCReqOp
<1>2. [NoCReq EXCEPT !.op = "cloudType"].op # "addGroup"
  BY <1>0, NoCReqOp
<1>3. BackOK' /\ CallsOK' /\ AddGroupIds'
  BY <1>1, <1>2, IssueStep DEF Created
<1>4. FormOK'
  BY DEF Created, CIInv, FormOK
<1>5. QED
  BY <1>3, <1>4 DEF CIInv

\* The confirms of the two dialogs send the value the dialog holds.
LEMMA ConfirmStep ==
    ASSUME CIInv, NEW c \in Calls, MigrateConfirm(c) \/ CrossConfirm(c)
    PROVE  CIInv'
<1>1. CASE MigrateConfirm(c)
  <2>1. mDialog \in {0, 1}
    BY <1>1 DEF MigrateConfirm, CIInv, FormOK
  <2>0. "migrate" \in COps
    BY DEF COps, SilentOps
  <2>2. [NoCReq EXCEPT !.op = "migrate", !.val = mDialog] \in CReq
    BY <2>0, <2>1, NoCReqVal
  <2>3. [NoCReq EXCEPT !.op = "migrate", !.val = mDialog].op # "addGroup"
    BY <2>0, <2>1, NoCReqVal
  <2>4. BackOK' /\ CallsOK' /\ AddGroupIds'
    BY <1>1, <2>2, <2>3, IssueStep DEF MigrateConfirm
  <2>5. FormOK'
    BY <1>1 DEF MigrateConfirm, CIInv, FormOK
  <2>6. QED
    BY <2>4, <2>5 DEF CIInv
<1>2. CASE CrossConfirm(c)
  <2>1. pDialog \in {0, 1}
    BY <1>2 DEF CrossConfirm, CIInv, FormOK
  <2>0. "crossCloud" \in COps
    BY DEF COps, SilentOps
  <2>2. [NoCReq EXCEPT !.op = "crossCloud", !.val = pDialog] \in CReq
    BY <2>0, <2>1, NoCReqVal
  <2>3. [NoCReq EXCEPT !.op = "crossCloud", !.val = pDialog].op # "addGroup"
    BY <2>0, <2>1, NoCReqVal
  <2>4. BackOK' /\ CallsOK' /\ AddGroupIds'
    BY <1>2, <2>2, <2>3, IssueStep DEF CrossConfirm
  <2>5. FormOK'
    BY <1>2 DEF CrossConfirm, CIInv, FormOK
  <2>6. QED
    BY <2>4, <2>5 DEF CIInv
<1>3. QED
  BY <1>1, <1>2

-----------------------------------------------------------------------------
(* The answers.                                                            *)

\* What 'OK' makes the control plane apply keeps its data typed.
LEMMA AppliedType ==
    ASSUME BackOK, NEW q \in CReq,
           q.op = "addGroup" => Number(q.id) \in {1, 2},
           Applied(q)
    PROVE  groups' \subseteq {1, 2} /\ disabled' \in BOOLEAN /\ cross' \in BOOLEAN
<1>1. groups' \subseteq {1, 2}
  BY DEF Applied, BackOK
<1>2. disabled' \in BOOLEAN
  <2>1. CASE q.op = "migrate"
    <3>1. disabled' = (q.val = 1)
      BY <2>1 DEF Applied
    <3>2. QED
      BY <3>1
  <2>2. CASE q.op # "migrate"
    BY <2>2 DEF Applied, BackOK
  <2>3. QED
    BY <2>1, <2>2
<1>3. cross' \in BOOLEAN
  <2>1. CASE q.op = "crossCloud"
    <3>1. cross' = (q.val = 1)
      BY <2>1 DEF Applied
    <3>2. QED
      BY <3>1
  <2>2. CASE q.op # "crossCloud"
    BY <2>2 DEF Applied, BackOK
  <2>3. QED
    BY <2>1, <2>2
<1>4. QED
  BY <1>1, <1>2, <1>3

LEMMA ApplyType ==
    ASSUME BackOK, NEW q \in CReq,
           q.op = "addGroup" => Number(q.id) \in {1, 2},
           NEW k, Apply(q, k)
    PROVE  groups' \subseteq {1, 2} /\ disabled' \in BOOLEAN /\ cross' \in BOOLEAN
<1>1. Applied(q) \/ UNCHANGED backVars
  BY DEF Apply
<1>2. QED
  BY <1>1, AppliedType DEF BackOK, backVars

\* The answer to a command: the control plane applies what the request
\* carried, and the handler may emit.
LEMMA CommandAnswerStep ==
    ASSUME CIInv, NEW c \in Calls, NEW k \in Answers, CommandAnswer(c, k)
    PROVE  CIInv'
<1>1. /\ answer[c] = "pending"
      /\ answer' = [answer EXCEPT ![c] = k]
  BY DEF CommandAnswer, Respond
<1>2. UNCHANGED <<pageGroups, pageDisabled, pageCross, creq>>
      /\ UNCHANGED formVars
  BY DEF CommandAnswer, pageVars
<1>3. creq[c] \in CReq /\ (creq[c].op = "addGroup" => Number(creq[c].id) \in {1, 2})
  BY DEF CIInv, CallsOK, AddGroupIds
<1>4. groups' \subseteq {1, 2} /\ disabled' \in BOOLEAN /\ cross' \in BOOLEAN
  BY <1>3, ApplyType DEF CommandAnswer, CIInv
<1>5. emitted' \in [Calls -> BOOLEAN]
  BY EmitFacts DEF CommandAnswer, CIInv, CallsOK
<1>7. BackOK' /\ FormOK'
  BY <1>2, <1>4 DEF CIInv, BackOK, FormOK, formVars
<1>8. CallsOK' /\ AddGroupIds'
  BY <1>1, <1>2, <1>5 DEF CIInv, CallsOK, AddGroupIds, Progress, Answers
<1>9. QED
  BY <1>7, <1>8 DEF CIInv

\* The answer to GET /constants fills the cloud list or not, and emits
\* nothing.
LEMMA CloudTypeAnswerStep ==
    ASSUME CIInv, NEW c \in Calls, NEW k \in Answers, CloudTypeAnswer(c, k)
    PROVE  CIInv'
<1>1. /\ creq[c].op = "cloudType"
      /\ answer[c] = "pending"
      /\ answer' = [answer EXCEPT ![c] = k]
  BY DEF CloudTypeAnswer, Respond
<1>2. UNCHANGED <<groups, disabled, cross, pageGroups, pageDisabled, pageCross,
                  created, isOpenRange, isOpenSome, mDialog, pDialog,
                  creq, emitted>>
  BY DEF CloudTypeAnswer, backVars, pageVars
<1>3. cloudList' \in BOOLEAN
  BY DEF CloudTypeAnswer
<1>4. QED
  BY <1>1, <1>2, <1>3 DEF CIInv, BackOK, FormOK, CallsOK, AddGroupIds,
                          Progress, Answers

-----------------------------------------------------------------------------
(* The forms, the page and the rest of the adapter.                        *)

\* The toggles, the dialog buttons and the cancels touch only the forms.
LEMMA FormStep ==
    ASSUME CIInv,
           \/ ToggleRange \/ ToggleSome \/ MigrateBtn \/ MigrateCancel
           \/ CrossBtn \/ CrossCancel
    PROVE  CIInv'
<1>1. UNCHANGED <<adapterVars, backVars, pageVars, created, cloudList, creq, emitted>>
  BY DEF ToggleRange, ToggleSome, MigrateBtn, MigrateCancel, CrossBtn,
         CrossCancel
<1>2. FormOK'
  <2>1. CASE ToggleRange
    <3>1. isOpenRange' = ~isOpenRange
      BY <2>1 DEF ToggleRange
    <3>2. QED
      BY <2>1, <3>1 DEF ToggleRange, CIInv, FormOK
  <2>2. CASE ToggleSome
    <3>1. isOpenSome' = ~isOpenSome
      BY <2>2 DEF ToggleSome
    <3>2. QED
      BY <2>2, <3>1 DEF ToggleSome, CIInv, FormOK
  <2>3. CASE MigrateBtn \/ MigrateCancel \/ CrossBtn \/ CrossCancel
    BY <2>3 DEF MigrateBtn, MigrateCancel, CrossBtn, CrossCancel, CIInv, FormOK
  <2>4. QED
    BY <2>1, <2>2, <2>3
<1>3. QED
  BY <1>1, <1>2 DEF CIInv, BackOK, CallsOK, AddGroupIds,
                    adapterVars, vars, backVars, pageVars

\* The page's refetch copies the control plane's data.
LEMMA PageRefreshStep ==
    ASSUME CIInv, PageRefresh
    PROVE  CIInv'
<1>1. UNCHANGED <<answer, groups, disabled, cross, creq, emitted>>
      /\ UNCHANGED formVars
  BY DEF PageRefresh, adapterVars, vars, backVars
<1>2. pageGroups' = groups /\ pageDisabled' = disabled /\ pageCross' = cross
  BY DEF PageRefresh
<1>3. QED
  BY <1>1, <1>2 DEF CIInv, BackOK, FormOK, formVars, CallsOK,
                    AddGroupIds

\* The log panel, the cookie jar and the clock leave every call as it is.
LEMMA PanelEnvAnswer ==
    ASSUME PanelNext \/ EnvNext
    PROVE  UNCHANGED answer
BY DEF PanelNext, EnvNext, ToggleDialog, MenuInput, OpenDetail, CloseDetail,
       SetDetail, CookieChange, Tick

LEMMA PanelEnvStep ==
    ASSUME CIInv, PanelNext \/ EnvNext, UNCHANGED ctrlVars
    PROVE  CIInv'
BY PanelEnvAnswer DEF ctrlVars, backVars, pageVars, formVars, CIInv, BackOK,
                      FormOK, CallsOK, AddGroupIds

-----------------------------------------------------------------------------
(* The invariance proof.                                                   *)

LEMMA InitCIInv == CInit => CIInv
<1> SUFFICES ASSUME CInit PROVE CIInv
  OBVIOUS
<1>1. "none" \in COps
  BY DEF COps
<1>2. NoCReq \in CReq
  BY <1>1 DEF NoCReq, CReq, IdTexts
<1>3. QED
  BY <1>2 DEF CInit, Init, CIInv, BackOK, FormOK, CallsOK,
              AddGroupIds, NoCReq, Progress

LEMMA NextCIInv == CIInv /\ [CNext]_allVars => CIInv'
<1> SUFFICES ASSUME CIInv, [CNext]_allVars PROVE CIInv'
  OBVIOUS
<1>1. ASSUME NEW c \in Calls,
             \/ Created(c)
             \/ \E t \in IdTexts : AddGroupClick(c, t)
             \/ \E sv \in {"", "s"}, t \in IdTexts : AddServerClick(c, sv, t)
             \/ \E op \in {"syncAll", "enableAll", "disableAll"} : AllClick(op, c)
             \/ \E op \in {"migrateRange", "migrateSome"} : MigrateClick(op, c)
             \/ MigrateConfirm(c)
             \/ CrossConfirm(c)
             \/ \E op \in ProxyOps \cup {"forceDel"} : ProxyClick(op, c)
      PROVE  CIInv'
  <2>1. {"syncAll", "enableAll", "disableAll"} \cup {"migrateRange", "migrateSome"}
          \subseteq EmitOps
    BY DEF EmitOps
  <2>2. QED
    BY <1>1, <2>1, CreatedStep, AddGroupStep, AddServerStep, OpClickStep,
       ConfirmStep
<1>2. ASSUME NEW c \in Calls, NEW k \in Answers,
             CloudTypeAnswer(c, k) \/ CommandAnswer(c, k)
      PROVE  CIInv'
  BY <1>2, CloudTypeAnswerStep, CommandAnswerStep
<1>3. CASE ToggleRange \/ ToggleSome \/ MigrateBtn \/ MigrateCancel
           \/ CrossBtn \/ CrossCancel
  BY <1>3, FormStep
<1>4. CASE PageRefresh
  BY <1>4, PageRefreshStep
<1>5. CASE (PanelNext \/ EnvNext) /\ UNCHANGED ctrlVars
  BY <1>5, PanelEnvStep
<1>6. CASE UNCHANGED allVars
  BY <1>6 DEF allVars, adapterVars, vars, ctrlVars, backVars, pageVars,
              formVars, CIInv, BackOK, FormOK, CallsOK,
              AddGroupIds
<1>7. QED
  BY <1>1, <1>2, <1>3, <1>4, <1>5, <1>6 DEF CNext

\* The controls' state is always well typed, for every set of calls: in
\* particular the control plane and the page only ever hold the groups
\* the new-group button's guard lets through.
THEOREM ControlsTypeCorrect == CSpec => []ControlsTypeOK
BY InitCIInv, NextCIInv, CIInvImpliesTypeOK, PTL DEF CSpec

-----------------------------------------------------------------------------
(* The composition with the adapter.                                       *)

\* Every step of the controls is a step of the adapter or leaves it alone.
LEMMA AdapterStep == [CNext]_allVars => [Next]_vars
<1> SUFFICES ASSUME [CNext]_allVars PROVE [Next]_vars
  OBVIOUS
<1>1. ASSUME NEW c \in Calls, NEW q, Issue(c, q) PROVE Next
  BY <1>1 DEF Issue, Next
<1>2. ASSUME NEW c \in Calls,
             \/ Created(c)
             \/ \E t \in IdTexts : AddGroupClick(c, t)
             \/ \E sv \in {"", "s"}, t \in IdTexts : AddServerClick(c, sv, t)
             \/ \E op \in {"syncAll", "enableAll", "disableAll"} : AllClick(op, c)
             \/ \E op \in {"migrateRange", "migrateSome"} : MigrateClick(op, c)
             \/ MigrateConfirm(c)
             \/ CrossConfirm(c)
             \/ \E op \in ProxyOps \cup {"forceDel"} : ProxyClick(op, c)
      PROVE  Next
  BY <1>1, <1>2 DEF Created, AddGroupClick, AddServerClick, AllClick,
                    MigrateClick, MigrateConfirm, CrossConfirm, ProxyClick
<1>3. ASSUME NEW c \in Calls, NEW k \in Answers,
             CloudTypeAnswer(c, k) \/ CommandAnswer(c, k)
      PROVE  Next
  BY <1>3 DEF CloudTypeAnswer, CommandAnswer, Next
<1>4. CASE \/ ToggleRange \/ ToggleSome \/ MigrateBtn \/ MigrateCancel
           \/ CrossBtn \/ CrossCancel \/ PageRefresh
  BY <1>4 DEF ToggleRange, ToggleSome, MigrateBtn, MigrateCancel, CrossBtn,
              CrossCancel, PageRefresh, adapterVars
<1>5. CASE (PanelNext \/ EnvNext) /\ UNCHANGED ctrlVars
  BY <1>5 DEF Next
<1>6. CASE UNCHANGED allVars
  BY <1>6 DEF allVars, adapterVars
<1>7. QED
  BY <1>2, <1>3, <1>4, <1>5, <1>6 DEF CNext

\* The controls' behaviours are behaviours of the adapter they go through.
THEOREM ControlsAdapter == CSpec => Spec
<1>1. CInit => Init
  BY DEF CInit
<1>2. QED
  BY <1>1, AdapterStep, PTL DEF CSpec, Spec

\* With the controls issuing the requests, every call's progress, the
\* error log and the panel's open detail stay well typed, for every set of
\* calls and clock bound.
THEOREM ControlsTypeCorrectAdapter == CSpec => []TypeOK
BY ControlsAdapter, TypeCorrect, PTL

\* With the controls issuing the requests, the error log is exactly the
\* calls that ended with an HTTP error status, once each, newest first.
THEOREM ControlsLogCorrect == CSpec => []LogIsHttpErrors
BY ControlsAdapter, LogCorrect, PTL

=============================================================================
