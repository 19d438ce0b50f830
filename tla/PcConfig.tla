------------------------------ MODULE PcConfig ------------------------------
(***************************************************************************)
(* The PC config card of the home page (views/home/pc-config.tsx),         *)
(* composed with the HTTP adapter its three requests go through.           *)
(*                                                                         *)
(* mounted() subscribes to the edited text and fetches the list.  The      *)
(* update button of a row copies the row into updateItem and opens a       *)
(* dialog whose textarea edits updateItem.contentStr.  The text reaches    *)
(* updateItem.content only through an rxjs pipeline: 500 ms after the      *)
(* last change, JSON.parse of the latest text; a truthy result becomes     *)
(* content, anything else (a parse error, or null, 0, false) sets content  *)
(* to null and isParseSuccess to false.  Confirm refuses a null content    *)
(* (it logs a client-side error record) and otherwise PUTs updateItem;     *)
(* an 'OK' answer fetches the list again and shows the sync button, whose  *)
(* handler PUTs resync-all, then hides the button and fetches the list.    *)
(*                                                                         *)
(* Texts and contents are abstract: a valid text is the JSON of one        *)
(* content or of null (a falsy value); Malformed is not JSON.              *)
(***************************************************************************)
EXTENDS HttpAdapter

CONSTANTS
    Items,      \* the rows of the config list, by index
    Contents,   \* the config objects ({blacklist, whitelist} values)
    MaxLog      \* bound on the error log's length (each refused confirm adds one)

ASSUME ContentsAssumption == Contents # {} /\ "null" \notin Contents

ASSUME MaxLogAssumption == MaxLog \in Nat

\* JSON.stringify(content, null, 2): the JSON text of a content, or of null.
Stringify(x) == <<"json", x>>

\* Text that is not JSON.
Malformed == <<"text", "bad">>

\* What the textarea can hold: the JSON of a content, the JSON of a falsy
\* value (null), or malformed text.
Texts == {Stringify(x) : x \in Contents \cup {"null"}} \cup {Malformed}

\* JSON.parse of a text: the value it is the JSON of, or "error".
Parse(t) == IF t = Malformed THEN "error" ELSE t[2]

\* updateItem: the row index, its content (or "null") and contentStr.
Draft == [id : Items, content : Contents \cup {"null"}, text : Texts]

NoDraft == [id |-> CHOOSE i \in Items : TRUE, content |-> "null",
            text |-> Stringify("null")]

\* What a call was issued for, and for an update what it carried.
Req == [op : {"none", "list", "update", "sync"}, id : Items,
        content : Contents \cup {"null"}, text : Texts, snap : [Items -> Contents]]

VARIABLES
    backend,        \* backend[i]: the config the control plane holds
    list,           \* list[i]: the content of row i ({} until a list arrives)
    draft,          \* updateItem (NoDraft while null)
    editing,        \* the update dialog is open
    pending,        \* a change of contentStr waits in the 500 ms debounce
    isParseSuccess, \* isParseSuccess
    loading,        \* loading: the row whose update is in flight, or -1
    isOutOfSync,    \* isOutOfSync
    mounted,        \* mounted() has run
    preq            \* preq[c]: what call c was issued for

viewVars == <<backend, list, draft, editing, pending, isParseSuccess, loading,
              isOutOfSync, mounted, preq>>

allVars == <<adapterVars, viewVars>>

NoReq == [op |-> "none", id |-> NoDraft.id, content |-> "null",
          text |-> Stringify("null"), snap |-> backend]

-----------------------------------------------------------------------------
(* Translation of the code.                                                *)

\* getList() on call c: the GET goes out (the control plane answers with
\* the configs as they are when it is sent).
GetList(c) ==
    /\ answer[c] = "idle"
    /\ preq' = [preq EXCEPT ![c] = [NoReq EXCEPT !.op = "list", !.snap = backend]]

\* mounted(): subscribe the debounce and fetch the list.
Mount(c) ==
    /\ ~mounted
    /\ mounted' = TRUE
    /\ Request(c)
    /\ GetList(c)
    /\ UNCHANGED <<backend, list, draft, editing, pending, isParseSuccess,
                   loading, isOutOfSync>>

\* The answer k to a GET of the list: a 2xx with a list replaces the rows
\* (each with contentStr the JSON of its content); otherwise the await
\* throws and the rows stay.
ListAnswer(c, k) ==
    /\ preq[c].op = "list"
    /\ Respond(c, k)
    /\ list' = IF k = "ok" THEN preq[c].snap ELSE list
    /\ UNCHANGED <<backend, draft, editing, pending, isParseSuccess, loading,
                   isOutOfSync, mounted, preq>>

\* onClickUpdate: updateItem becomes a copy of row i and the dialog opens;
\* the watcher sees contentStr change if the copy's text differs.
OpenUpdate(i) ==
    /\ mounted /\ ~editing
    /\ i \in DOMAIN list
    /\ draft' = [id |-> i, content |-> list[i], text |-> Stringify(list[i])]
    /\ pending' = (pending \/ draft'.text # draft.text)
    /\ editing' = TRUE
    /\ UNCHANGED <<backend, list, isParseSuccess, loading, isOutOfSync,
                   mounted, preq>>
    /\ UNCHANGED adapterVars

\* The textarea's input: contentStr changes and the debounce restarts.
Edit(t) ==
    /\ editing
    /\ t # draft.text
    /\ draft' = [draft EXCEPT !.text = t]
    /\ pending' = TRUE
    /\ UNCHANGED <<backend, list, editing, isParseSuccess, loading,
                   isOutOfSync, mounted, preq>>
    /\ UNCHANGED adapterVars

\* Mutant: the subscriber only writes content when the parse succeeded.
FireKeepOnFailure(t) ==
    LET flag == Parse(t) IN
    /\ isParseSuccess' = (flag \in Contents)
    /\ draft' = IF flag \in Contents THEN [draft EXCEPT !.content = flag] ELSE draft

\* The debounce's subscriber for the latest text t: isParseSuccess = !!flag
\* and content = flag or null.
Fire(t) ==
    LET flag == Parse(t) IN
    /\ isParseSuccess' = (flag \in Contents)
    /\ draft' = [draft EXCEPT !.content = IF flag \in Contents THEN flag ELSE "null"]

\* 500 ms without a change: the pipeline emits the latest contentStr.
Debounce ==
    /\ pending
    /\ pending' = FALSE
    /\ Fire(draft.text)
    /\ UNCHANGED <<backend, list, editing, loading, isOutOfSync, mounted, preq>>
    /\ UNCHANGED adapterVars

\* The dialog's cancel, or a click outside it.
Cancel ==
    /\ editing
    /\ editing' = FALSE
    /\ UNCHANGED <<backend, list, draft, pending, isParseSuccess, loading,
                   isOutOfSync, mounted, preq>>
    /\ UNCHANGED adapterVars

\* Confirm (onClickUpdatePcConfig): the dialog closes.  A null content adds
\* a client-side record to the error log and opens the panel; otherwise
\* loading is set and updateItem is PUT on call c (a stopped request
\* rejects into the catch, and finally clears loading at once).
Confirm(c) ==
    /\ editing
    /\ editing' = FALSE
    /\ IF draft.content = "null"
       THEN /\ Len(errLog) < MaxLog
            /\ errLog' = <<[url |-> "null", time |-> now]>> \o errLog
            /\ isOpen' = TRUE
            /\ UNCHANGED <<answer, page, loading, preq>>
       ELSE /\ Request(c)
            /\ preq' = [preq EXCEPT ![c] = [op |-> "update", id |-> draft.id,
                          content |-> draft.content, text |-> draft.text,
                          snap |-> backend]]
            /\ loading' = IF Sent = "blocked" THEN -1 ELSE draft.id
    /\ UNCHANGED <<utoken, openIndex, now>>
    /\ UNCHANGED <<backend, list, draft, pending, isParseSuccess, isOutOfSync,
                   mounted>>

\* The answer k to call c arrives and the handler issues getList on call
\* c2 in the same task: both calls' progress changes in one step.
RespondAndGetList(c, k, c2) ==
    /\ answer[c] = "pending" /\ answer[c2] = "idle" /\ c2 # c
    /\ answer' = [answer EXCEPT ![c] = k, ![c2] = Sent]
    /\ page' = Navigated
    /\ Logged(c, k)
    /\ UNCHANGED <<utoken, openIndex, now>>

\* The answer k to an update PUT.  The control plane stores the content on
\* 'OK' (a network failure may come after it did).  On 'OK' the handler
\* fetches the list on call c2 and shows the sync button; finally loading
\* is cleared.
UpdateAnswer(c, k, c2) ==
    /\ preq[c].op = "update"
    /\ LET stored == [backend EXCEPT ![preq[c].id] = preq[c].content]
       IN  backend' \in CASE k = "ok"      -> {stored}
                          [] k = "network" -> {backend, stored}
                          [] OTHER         -> {backend}
    /\ IF k = "ok"
       THEN /\ RespondAndGetList(c, k, c2)
            /\ preq' = [preq EXCEPT ![c2] = [NoReq EXCEPT !.op = "list",
                                                          !.snap = backend']]
            /\ isOutOfSync' = TRUE
       ELSE /\ Respond(c, k)
            /\ UNCHANGED <<preq, isOutOfSync>>
    /\ loading' = -1
    /\ UNCHANGED <<list, draft, editing, pending, isParseSuccess, mounted>>

\* The sync button, shown while isOutOfSync: PUT resync-all on call c.
SyncClick(c) ==
    /\ mounted /\ isOutOfSync
    /\ Request(c)
    /\ preq' = [preq EXCEPT ![c] = [NoReq EXCEPT !.op = "sync"]]
    /\ UNCHANGED <<backend, list, draft, editing, pending, isParseSuccess,
                   loading, isOutOfSync, mounted>>

\* The answer k to the sync PUT: unless the promise rejected, the button is
\* hidden and the list fetched on call c2.
SyncAnswer(c, k, c2) ==
    /\ preq[c].op = "sync"
    /\ IF Outcome(k) # "rejected"
       THEN /\ RespondAndGetList(c, k, c2)
            /\ preq' = [preq EXCEPT ![c2] = [NoReq EXCEPT !.op = "list"]]
            /\ isOutOfSync' = FALSE
       ELSE /\ Respond(c, k)
            /\ UNCHANGED <<preq, isOutOfSync>>
    /\ UNCHANGED <<backend, list, draft, editing, pending, isParseSuccess,
                   loading, mounted>>

-----------------------------------------------------------------------------

PInit ==
    /\ Init
    /\ backend \in [Items -> Contents]
    /\ list = << >>
    /\ draft = NoDraft
    /\ editing = FALSE
    /\ pending = FALSE
    /\ isParseSuccess = TRUE
    /\ loading = -1
    /\ isOutOfSync = FALSE
    /\ mounted = FALSE
    /\ preq = [c \in Calls |-> NoReq]

PNext ==
    \/ \E c \in Calls : Mount(c) \/ Confirm(c) \/ SyncClick(c)
    \/ \E c \in Calls, k \in Answers : ListAnswer(c, k)
    \/ \E c, c2 \in Calls, k \in Answers : UpdateAnswer(c, k, c2) \/ SyncAnswer(c, k, c2)
    \/ \E i \in Items : OpenUpdate(i)
    \/ \E t \in Texts : Edit(t)
    \/ Debounce
    \/ Cancel
    \/ CookieChange /\ UNCHANGED viewVars

PSpec == PInit /\ [][PNext]_allVars

-----------------------------------------------------------------------------
(* Properties.                                                             *)

\* Once the debounce has caught up with the dialog's text, what Confirm
\* would send is what the text says: content is the text's parse (null
\* for malformed or falsy JSON) and the error message shows exactly when
\* it is null, whichever rows were opened and edited before.
ParsedWhenSettled ==
    editing /\ ~pending =>
        /\ draft.content = (IF Parse(draft.text) \in Contents
                            THEN Parse(draft.text) ELSE "null")
        /\ isParseSuccess = (draft.content # "null")

\* The spec's client-side validation: a config whose text is malformed
\* JSON is refused in the browser with no network round trip, so every
\* update PUT carries a text that parses to a config.
NoUnparsableSent ==
    \A c \in Calls : preq[c].op = "update" => Parse(preq[c].text) \in Contents

=============================================================================
