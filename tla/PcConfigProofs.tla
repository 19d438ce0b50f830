-------------------------- MODULE PcConfigProofs --------------------------
(***************************************************************************)
(* Proof that the PC config card's debounced parse is right whenever it   *)
(* has caught up (ParsedWhenSettled), for every set of rows, contents and  *)
(* calls.                                                                  *)
(*                                                                         *)
(* ParsedWhenSettled is not inductive: opening a row's dialog without      *)
(* changing the text (pending stays false) copies the row's content into   *)
(* updateItem and keeps isParseSuccess, so the step is right only if the   *)
(* row's content is a config and the flags already agreed before the       *)
(* dialog opened.  The strengthening Settled says the content and the     *)
(* flag agree with the text whenever the debounce is idle, dialog open or  *)
(* not, except in the initial state, whose flag is true for the null       *)
(* updateItem; PTypeOK says every row the list can show is a config, which *)
(* needs the snapshots the GETs carry and the contents the PUTs store to   *)
(* be configs too.                                                         *)
(***************************************************************************)
EXTENDS PcConfig, TLAPS

\* What the subscriber makes of text t: the config it parses to, or null.
ParsedContent(t) == IF Parse(t) \in Contents THEN Parse(t) ELSE "null"

\* updateItem, with the null of the initial state's row index.
DraftT == [id : Items \cup {NoDraft.id}, content : Contents \cup {"null"}, text : Texts]

\* A request record, with the same row index.
ReqT == [op : {"none", "list", "update", "sync"}, id : Items \cup {NoDraft.id},
         content : Contents \cup {"null"}, text : Texts, snap : [Items -> Contents]]

PTypeOK ==
    /\ backend \in [Items -> Contents]
    /\ list \in {<< >>} \cup [Items -> Contents]
    /\ draft \in DraftT
    /\ editing \in BOOLEAN /\ pending \in BOOLEAN /\ isParseSuccess \in BOOLEAN
    /\ preq \in [Calls -> ReqT]
    /\ \A c \in Calls : preq[c].op = "update" => preq[c].content \in Contents

\* While the debounce is idle, content is the parse of the text, and the
\* error message shows exactly when it is null, unless no dialog is open
\* and the text is still the initial null one.
Settled ==
    ~pending =>
        /\ draft.content = ParsedContent(draft.text)
        /\ \/ isParseSuccess = (draft.content # "null")
           \/ ~editing /\ draft.text = Stringify("null")

PIInv == PTypeOK /\ Settled

-----------------------------------------------------------------------------
(* Facts about the abstract texts.                                         *)

\* The text of a config or of null parses back to it.
LEMMA ParseStringify ==
    ASSUME NEW x
    PROVE  Parse(Stringify(x)) = x /\ Stringify(x) # Malformed
BY DEF Parse, Stringify, Malformed

\* A config's text is not the text of null.
LEMMA StringifyNull ==
    ASSUME NEW x \in Contents
    PROVE  Stringify(x) # Stringify("null")
BY ContentsAssumption DEF Stringify

\* The request a GET of the list records is well typed.
LEMMA ListReqType ==
    ASSUME backend \in [Items -> Contents]
    PROVE  [NoReq EXCEPT !.op = "list", !.snap = backend] \in ReqT
           /\ [NoReq EXCEPT !.op = "list", !.snap = backend].op = "list"
           /\ [NoReq EXCEPT !.op = "list"] \in ReqT
           /\ [NoReq EXCEPT !.op = "list"].op = "list"
           /\ [NoReq EXCEPT !.op = "sync"] \in ReqT
           /\ [NoReq EXCEPT !.op = "sync"].op = "sync"
<1>1. Stringify("null") \in Texts
  BY DEF Texts
<1>2. QED
  BY <1>1 DEF NoReq, ReqT

-----------------------------------------------------------------------------
(* Initial states.                                                         *)

LEMMA InitPIInv == PInit => PIInv
<1> SUFFICES ASSUME PInit PROVE PIInv
  OBVIOUS
<1>1. Stringify("null") \in Texts
  BY DEF Texts
<1>2. draft \in DraftT
  BY <1>1 DEF PInit, NoDraft, DraftT
<1>3. preq \in [Calls -> ReqT]
  BY <1>1 DEF PInit, NoReq, ReqT
<1>4. PTypeOK
  BY <1>2, <1>3 DEF PInit, PTypeOK, NoReq
<1>5. Settled
  BY ParseStringify DEF PInit, Settled, NoDraft, ParsedContent
<1>6. QED
  BY <1>4, <1>5 DEF PIInv

-----------------------------------------------------------------------------
(* Steps that leave the dialog alone.                                      *)

\* A step that keeps updateItem, the debounce, the flag, the dialog and the
\* list keeps PIInv if the backend and the requests stay well typed.
LEMMA FormKeeps ==
    ASSUME PIInv,
           UNCHANGED <<draft, pending, isParseSuccess, editing, list>>,
           backend' \in [Items -> Contents],
           preq' \in [Calls -> ReqT],
           \A c \in Calls : preq'[c].op = "update" => preq'[c].content \in Contents
    PROVE  PIInv'
<1>1. PTypeOK'
  BY DEF PIInv, PTypeOK
<1>2. Settled'
  BY DEF PIInv, Settled
<1>3. QED
  BY <1>1, <1>2 DEF PIInv

LEMMA MountStep ==
    ASSUME PIInv, NEW c \in Calls, Mount(c)
    PROVE  PIInv'
<1>1. preq' = [preq EXCEPT ![c] = [NoReq EXCEPT !.op = "list", !.snap = backend]]
  BY DEF Mount, GetList
<1>2. preq' \in [Calls -> ReqT]
  BY <1>1, ListReqType DEF PIInv, PTypeOK
<1>3. \A c2 \in Calls : preq'[c2].op = "update" => preq'[c2].content \in Contents
  BY <1>1, ListReqType DEF PIInv, PTypeOK
<1>4. QED
  BY <1>2, <1>3, FormKeeps DEF Mount, PIInv, PTypeOK

LEMMA ListAnswerStep ==
    ASSUME PIInv, NEW c \in Calls, NEW k \in Answers, ListAnswer(c, k)
    PROVE  PIInv'
<1>1. list' \in {<< >>} \cup [Items -> Contents]
  BY DEF ListAnswer, PIInv, PTypeOK, ReqT
<1>2. PTypeOK'
  BY <1>1 DEF ListAnswer, PIInv, PTypeOK
<1>3. Settled'
  BY DEF ListAnswer, PIInv, Settled
<1>4. QED
  BY <1>2, <1>3 DEF PIInv

LEMMA UpdateAnswerStep ==
    ASSUME PIInv, NEW c \in Calls, NEW k \in Answers, NEW c2 \in Calls,
           UpdateAnswer(c, k, c2)
    PROVE  PIInv'
<1>1. backend' \in [Items -> Contents]
  <2>1. preq[c].content \in Contents
    BY DEF UpdateAnswer, PIInv, PTypeOK
  <2>2. [backend EXCEPT ![preq[c].id] = preq[c].content] \in [Items -> Contents]
    BY <2>1 DEF PIInv, PTypeOK
  <2>3. QED
    BY <2>2 DEF UpdateAnswer, PIInv, PTypeOK
<1>2. /\ [NoReq EXCEPT !.op = "list", !.snap = backend'] \in ReqT
      /\ [NoReq EXCEPT !.op = "list", !.snap = backend'].op = "list"
  BY <1>1 DEF NoReq, ReqT, Texts
<1>3. /\ preq' \in [Calls -> ReqT]
      /\ \A c3 \in Calls : preq'[c3].op = "update" => preq'[c3].content \in Contents
  <2>1. CASE k = "ok"
    <3>1. preq' = [preq EXCEPT ![c2] = [NoReq EXCEPT !.op = "list", !.snap = backend']]
      BY <2>1 DEF UpdateAnswer
    <3>2. QED
      BY <1>2, <3>1 DEF PIInv, PTypeOK
  <2>2. CASE k # "ok"
    <3>1. preq' = preq
      BY <2>2 DEF UpdateAnswer
    <3>2. QED
      BY <3>1 DEF PIInv, PTypeOK
  <2>3. QED
    BY <2>1, <2>2
<1>4. QED
  BY <1>1, <1>3, FormKeeps DEF UpdateAnswer

LEMMA SyncClickStep ==
    ASSUME PIInv, NEW c \in Calls, SyncClick(c)
    PROVE  PIInv'
<1>1. /\ preq' \in [Calls -> ReqT]
      /\ \A c2 \in Calls : preq'[c2].op = "update" => preq'[c2].content \in Contents
  BY ListReqType DEF SyncClick, PIInv, PTypeOK
<1>2. QED
  BY <1>1, FormKeeps DEF SyncClick, PIInv, PTypeOK

LEMMA SyncAnswerStep ==
    ASSUME PIInv, NEW c \in Calls, NEW k \in Answers, NEW c2 \in Calls,
           SyncAnswer(c, k, c2)
    PROVE  PIInv'
<1>1. /\ preq' \in [Calls -> ReqT]
      /\ \A c3 \in Calls : preq'[c3].op = "update" => preq'[c3].content \in Contents
  <2>1. CASE Outcome(k) # "rejected"
    <3>1. preq' = [preq EXCEPT ![c2] = [NoReq EXCEPT !.op = "list"]]
      BY <2>1 DEF SyncAnswer
    <3>2. QED
      BY <3>1, ListReqType DEF PIInv, PTypeOK
  <2>2. CASE Outcome(k) = "rejected"
    <3>1. preq' = preq
      BY <2>2 DEF SyncAnswer
    <3>2. QED
      BY <3>1 DEF PIInv, PTypeOK
  <2>3. QED
    BY <2>1, <2>2
<1>2. QED
  BY <1>1, FormKeeps DEF SyncAnswer, PIInv, PTypeOK

-----------------------------------------------------------------------------
(* Steps of the dialog.                                                    *)

\* Opening a row: content and text both come from the row, so content is
\* the parse of the text; if the text did not change, the flag was already
\* true for that config.
LEMMA OpenUpdateStep ==
    ASSUME PIInv, NEW i \in Items, OpenUpdate(i)
    PROVE  PIInv'
<1>1. list \in [Items -> Contents] /\ list[i] \in Contents
  BY DEF OpenUpdate, PIInv, PTypeOK
<1>2. draft' = [id |-> i, content |-> list[i], text |-> Stringify(list[i])]
  BY DEF OpenUpdate
<1>3. Stringify(list[i]) \in Texts
  BY <1>1 DEF Texts
<1>4. PTypeOK'
  BY <1>1, <1>2, <1>3 DEF OpenUpdate, PIInv, PTypeOK, DraftT
<1>5. draft'.content = ParsedContent(draft'.text)
  BY <1>1, <1>2, ParseStringify DEF ParsedContent
<1>6. ~pending' => isParseSuccess' = (draft'.content # "null")
  <2>1. SUFFICES ASSUME ~pending' PROVE isParseSuccess' = (draft'.content # "null")
    OBVIOUS
  <2>2. ~pending /\ draft.text = Stringify(list[i])
    <3>1. pending' = (pending \/ draft'.text # draft.text)
      BY DEF OpenUpdate
    <3>2. ~pending /\ draft'.text = draft.text
      BY <2>1, <3>1
    <3>3. draft'.text = Stringify(list[i])
      BY <1>2
    <3>4. QED
      BY <3>2, <3>3
  <2>3. draft.text # Stringify("null")
    BY <1>1, <2>2, StringifyNull
  <2>4. isParseSuccess = (draft.content # "null")
    BY <2>2, <2>3 DEF PIInv, Settled
  <2>5. draft.content = list[i]
    BY <1>1, <2>2, ParseStringify DEF PIInv, Settled, ParsedContent
  <2>6. QED
    BY <1>1, <1>2, <2>4, <2>5, ContentsAssumption DEF OpenUpdate
<1>7. QED
  BY <1>4, <1>5, <1>6 DEF PIInv, Settled

\* Typing re-arms the debounce.
LEMMA EditStep ==
    ASSUME PIInv, NEW t \in Texts, Edit(t)
    PROVE  PIInv'
<1>1. PTypeOK'
  BY DEF Edit, PIInv, PTypeOK, DraftT
<1>2. Settled'
  BY DEF Edit, Settled
<1>3. QED
  BY <1>1, <1>2 DEF PIInv

\* The subscriber writes the parse of the text and the flag with it.
LEMMA DebounceStep ==
    ASSUME PIInv, Debounce
    PROVE  PIInv'
<1>1. draft' = [draft EXCEPT !.content = ParsedContent(draft.text)]
  BY DEF Debounce, Fire, ParsedContent
<1>6. isParseSuccess' = (Parse(draft.text) \in Contents)
  BY DEF Debounce, Fire
<1>2. ParsedContent(draft.text) \in Contents \cup {"null"}
  BY DEF ParsedContent
<1>3. PTypeOK'
  <2>1. draft' = [id |-> draft.id, content |-> ParsedContent(draft.text),
                  text |-> draft.text]
    BY <1>1 DEF PIInv, PTypeOK, DraftT
  <2>2. draft' \in DraftT
    BY <1>2, <2>1 DEF PIInv, PTypeOK, DraftT
  <2>3. isParseSuccess' \in BOOLEAN /\ pending' \in BOOLEAN
    <3>1. isParseSuccess' \in BOOLEAN
      BY <1>6
    <3>2. pending' = FALSE
      BY DEF Debounce
    <3>3. QED
      BY <3>1, <3>2
  <2>4. UNCHANGED <<backend, list, editing, preq>>
    BY DEF Debounce
  <2>5. QED
    BY <2>2, <2>3, <2>4 DEF PIInv, PTypeOK
<1>4. Settled'
  BY <1>1, <1>6, ContentsAssumption DEF PIInv, PTypeOK, DraftT, Settled, ParsedContent
<1>5. QED
  BY <1>3, <1>4 DEF PIInv

\* Closing the dialog keeps what it held.
LEMMA CancelStep ==
    ASSUME PIInv, Cancel
    PROVE  PIInv'
BY DEF Cancel, PIInv, PTypeOK, Settled

\* Confirm closes the dialog; a PUT carries a content that is not null.
LEMMA ConfirmStep ==
    ASSUME PIInv, NEW c \in Calls, Confirm(c)
    PROVE  PIInv'
<1>1. CASE draft.content = "null"
  BY <1>1 DEF Confirm, PIInv, PTypeOK, Settled
<1>2. CASE draft.content # "null"
  <2>1. [op |-> "update", id |-> draft.id, content |-> draft.content,
         text |-> draft.text, snap |-> backend] \in ReqT
    BY DEF PIInv, PTypeOK, DraftT, ReqT
  <2>2. /\ preq' \in [Calls -> ReqT]
        /\ \A c2 \in Calls : preq'[c2].op = "update" => preq'[c2].content \in Contents
    BY <1>2, <2>1 DEF Confirm, PIInv, PTypeOK, DraftT
  <2>3. QED
    BY <1>2, <2>2 DEF Confirm, PIInv, PTypeOK, Settled
<1>3. QED
  BY <1>1, <1>2

-----------------------------------------------------------------------------

LEMMA NextPIInv == PIInv /\ [PNext]_allVars => PIInv'
<1> SUFFICES ASSUME PIInv, [PNext]_allVars PROVE PIInv'
  OBVIOUS
<1>1. CASE \E c \in Calls : Mount(c) \/ Confirm(c) \/ SyncClick(c)
  BY <1>1, MountStep, ConfirmStep, SyncClickStep
<1>2. CASE \E c \in Calls, k \in Answers : ListAnswer(c, k)
  BY <1>2, ListAnswerStep
<1>3. CASE \E c, c2 \in Calls, k \in Answers :
              UpdateAnswer(c, k, c2) \/ SyncAnswer(c, k, c2)
  BY <1>3, UpdateAnswerStep, SyncAnswerStep
<1>4. CASE \E i \in Items : OpenUpdate(i)
  BY <1>4, OpenUpdateStep
<1>5. CASE \E t \in Texts : Edit(t)
  BY <1>5, EditStep
<1>6. CASE Debounce
  BY <1>6, DebounceStep
<1>7. CASE Cancel
  BY <1>7, CancelStep
<1>8. CASE CookieChange /\ UNCHANGED viewVars
  BY <1>8, FormKeeps DEF viewVars, PIInv, PTypeOK
<1>9. CASE UNCHANGED allVars
  BY <1>9, FormKeeps DEF allVars, viewVars, PIInv, PTypeOK
<1>10. QED
  BY <1>1, <1>2, <1>3, <1>4, <1>5, <1>6, <1>7, <1>8, <1>9 DEF PNext

\* The debounced parse is right whenever it has caught up with the text:
\* content is what the text parses to, and the error message shows exactly
\* when that is null (onContentStrChange's subscriber, checked by Confirm).
THEOREM ParseCorrect == PSpec => []ParsedWhenSettled
<1>1. PIInv => ParsedWhenSettled
  BY DEF PIInv, Settled, ParsedWhenSettled, ParsedContent
<1>2. QED
  BY InitPIInv, NextPIInv, <1>1, PTL DEF PSpec

=============================================================================
