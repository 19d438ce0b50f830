---------------------------- MODULE HttpAdapter ----------------------------
(***************************************************************************)
(* The HTTP adapter of the dashboard (api/index.ts), the error-log store   *)
(* it writes to (store/modules/server.ts) and the panel that shows the     *)
(* log (views/app/log-view.tsx, views/app/log-dialog.tsx).                 *)
(*                                                                         *)
(* Every request of the façade goes through two axios interceptors.  The  *)
(* request interceptor reads the utoken cookie: without one it sends the   *)
(* browser to the login route and returns undefined, so axios dispatches   *)
(* an undefined config, fails with a TypeError before anything is sent,    *)
(* and that error reaches the response interceptor.  The response          *)
(* interceptor's error handler builds an error record; it reads            *)
(* err.response.data, which throws a TypeError when there is no response   *)
(* (a network failure, or the TypeError above), so only an HTTP error      *)
(* status reaches the two dispatches: the record is unshifted onto the     *)
(* log and the panel is opened.  The handler then returns undefined, so    *)
(* the caller's promise resolves to undefined; in the other cases it       *)
(* rejects with the TypeError.                                             *)
(*                                                                         *)
(* A call is a model value; each is issued at most once.  answer[c] is     *)
(* the call's progress: "idle" (not issued), "pending" (sent, no answer    *)
(* yet), "blocked" (stopped by the request interceptor), or the answer     *)
(* that came back: a 2xx whose payload is "OK" ("ok") or something else   *)
(* ("fail"), an HTTP error status ("http"), or no response ("network").    *)
(***************************************************************************)
EXTENDS Integers, Sequences, FiniteSets

CONSTANTS
    Calls,     \* the requests the callers issue, one model value each
    MaxTime    \* the last value of the clock new Date() reads

ASSUME MaxTimeAssumption == MaxTime \in Nat

\* The answers the backend or the network can give to a request that was sent.
Answers == {"ok", "fail", "http", "network"}

Progress == {"idle", "pending", "blocked"} \cup Answers

\* A record of the error log: url and time; data, msg and type are only
\* shown.  The PC config card adds client-side records with url 'null'.
LogItem == [url : Calls \cup {"null"}, time : 0 .. MaxTime]

VARIABLES
    utoken,    \* the utoken cookie is present
    answer,    \* answer[c]: the progress of call c
    errLog,    \* the store's list (server/list), newest first
    isOpen,    \* the store's isOpen, the value of the panel's v-menu
    openIndex, \* the log dialog's openIndex: the record whose detail is shown, or -1
    page,      \* "login" once location.assign('/#/login') ran, else "app"
    now        \* the clock new Date() reads

vars == <<utoken, answer, errLog, isOpen, openIndex, page, now>>

adapterVars == vars

-----------------------------------------------------------------------------
(* Translation of the code.                                                *)

\* The promise the caller awaits: a 2xx resolves with the response, an HTTP
\* error resolves with the error handler's undefined result, and the rest
\* reject with the TypeError the handler (or axios) throws.
Outcome(k) ==
    CASE k \in {"ok", "fail"} -> "response"
      [] k = "http"           -> "undefined"
      [] OTHER                -> "rejected"

\* Mutant: the handler reads err.response.data only when there is a
\* response, so a network failure is logged as well.
ReachesDispatchGuarded(k) == k \in {"http", "network"}

\* The error handler gets past err.response.data.errmsg, and so reaches
\* the two dispatches, only for an error that carries a response.
ReachesDispatch(k) == k = "http"

\* The request interceptor: without the cookie the browser is sent to the
\* login route and axios fails on the undefined config; else the request
\* is sent.  Sent is what becomes of a request, Navigated where the
\* browser goes.
Sent == IF utoken THEN "pending" ELSE "blocked"

Navigated == IF utoken THEN page ELSE "login"

Request(c) ==
    /\ answer[c] = "idle"
    /\ answer' = [answer EXCEPT ![c] = Sent]
    /\ page' = Navigated
    /\ UNCHANGED <<utoken, errLog, isOpen, openIndex, now>>

\* The error handler's dispatches for the answer k to call c: ADD_ITEM
\* unshifts the record and SET_OPEN opens the panel.
Logged(c, k) ==
    IF ReachesDispatch(k)
    THEN /\ errLog' = <<[url |-> c, time |-> now]>> \o errLog
         /\ isOpen' = TRUE
    ELSE UNCHANGED <<errLog, isOpen>>

\* The answer k to call c passes the response interceptor.
Respond(c, k) ==
    /\ answer[c] = "pending"
    /\ answer' = [answer EXCEPT ![c] = k]
    /\ Logged(c, k)
    /\ UNCHANGED <<utoken, openIndex, page, now>>

\* The alert button: toggleDialog.
ToggleDialog ==
    /\ isOpen' = ~isOpen
    /\ UNCHANGED <<utoken, answer, errLog, openIndex, page, now>>

\* The v-menu's input event (a click outside it): closeDialog.
MenuInput ==
    /\ isOpen
    /\ isOpen' = FALSE
    /\ UNCHANGED <<utoken, answer, errLog, openIndex, page, now>>

\* The detail / hide buttons of the open panel: openDetail(index) and
\* closeDetail set openIndex; with fewer than 4 records they close the menu
\* and reopen it on the next tick, which no other event can come between.
\* Mutant: the index stored one past the record clicked.
SetDetailShifted(i) ==
    /\ openIndex' = i + 1
    /\ isOpen' = IF Len(errLog) < 4 THEN TRUE ELSE isOpen
    /\ UNCHANGED <<utoken, answer, errLog, page, now>>

SetDetail(i) ==
    /\ openIndex' = i
    /\ isOpen' = IF Len(errLog) < 4 THEN TRUE ELSE isOpen
    /\ UNCHANGED <<utoken, answer, errLog, page, now>>

OpenDetail(i) ==
    /\ isOpen
    /\ i \in 0 .. Len(errLog) - 1
    /\ openIndex # i
    /\ SetDetail(i)

CloseDetail ==
    /\ isOpen
    /\ openIndex \in 0 .. Len(errLog) - 1
    /\ SetDetail(-1)

\* The browser's cookie jar: a login sets utoken, expiry removes it.
CookieChange ==
    /\ utoken' = ~utoken
    /\ UNCHANGED <<answer, errLog, isOpen, openIndex, page, now>>

\* Time passes between events.
Tick ==
    /\ now < MaxTime
    /\ now' = now + 1
    /\ UNCHANGED <<utoken, answer, errLog, isOpen, openIndex, page>>

-----------------------------------------------------------------------------

Init ==
    /\ utoken \in BOOLEAN
    /\ answer = [c \in Calls |-> "idle"]
    /\ errLog = << >>
    /\ isOpen = FALSE
    /\ openIndex = -1
    /\ page = "app"
    /\ now = 0

\* The panel's own events, shared with the modules that compose the adapter.
PanelNext ==
    \/ ToggleDialog
    \/ MenuInput
    \/ \E i \in 0 .. Len(errLog) - 1 : OpenDetail(i)
    \/ CloseDetail

EnvNext == CookieChange \/ Tick

Next ==
    \/ \E c \in Calls : Request(c)
    \/ \E c \in Calls, k \in Answers : Respond(c, k)
    \/ PanelNext
    \/ EnvNext

Spec == Init /\ [][Next]_vars

-----------------------------------------------------------------------------
(* Properties.                                                             *)

TypeOK ==
    /\ utoken \in BOOLEAN
    /\ answer \in [Calls -> Progress]
    /\ errLog \in Seq(LogItem)
    /\ isOpen \in BOOLEAN
    /\ openIndex \in -1 .. Len(errLog) - 1
    /\ page \in {"app", "login"}
    /\ now \in 0 .. MaxTime

\* The error log is exactly the HTTP errors, newest first: a call is in the
\* log iff its answer was an HTTP error status, it is there once, no
\* record is stamped later than now, and the records are in the reverse
\* order of their answers.  Requests stopped for lack of a token and
\* network failures leave no record, because the error handler throws at
\* err.response.data before it dispatches.
LogIsHttpErrors ==
    /\ \A c \in Calls :
          answer[c] = "http" <=> \E j \in 1 .. Len(errLog) : errLog[j].url = c
    /\ \A i, j \in 1 .. Len(errLog) :
          /\ errLog[i].url = errLog[j].url => i = j
          /\ i < j => errLog[j].time <= errLog[i].time
    /\ \A j \in 1 .. Len(errLog) : errLog[j].time <= now

\* The spec's error propagation (its testable property, and its policy
\* that a transport failure and an HTTP error status are always surfaced
\* to the error log): a request that was sent and failed, with no
\* response or with an HTTP error status, both appends exactly one record
\* to the error log and rejects the caller's promise.  A request the token
\* check stopped is left out: the spec says it is not sent.
ErrorPropagation ==
    \A c \in Calls :
        answer[c] \in {"network", "http"} =>
            /\ Outcome(answer[c]) = "rejected"
            /\ Cardinality({j \in 1 .. Len(errLog) : errLog[j].url = c}) = 1

=============================================================================
