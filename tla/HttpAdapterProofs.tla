------------------------- MODULE HttpAdapterProofs -------------------------
(***************************************************************************)
(* Proofs about the HTTP adapter and its error log (HttpAdapter), for      *)
(* every set of calls and every clock bound.                               *)
(*                                                                         *)
(* TypeOK and LogIsHttpErrors are inductive together: a call that is      *)
(* still pending is not an HTTP error, so by LogIsHttpErrors it has no     *)
(* record, and the record its HTTP error unshifts is the only one with     *)
(* its url; it is stamped now, which no older record exceeds.              *)
(***************************************************************************)
EXTENDS HttpAdapter, SequenceTheorems, TLAPS

\* The inductive invariant.
IInv == TypeOK /\ LogIsHttpErrors

-----------------------------------------------------------------------------
(* Unshifting a record onto the log (ADD_ITEM).                            *)

\* What <<x>> \o s is: one longer, x first, then s shifted by one.
LEMMA PushFront ==
    ASSUME NEW S, NEW x \in S, NEW s \in Seq(S)
    PROVE  LET t == <<x>> \o s IN
           /\ t \in Seq(S)
           /\ Len(t) = Len(s) + 1
           /\ t[1] = x
           /\ \A j \in 2 .. Len(s) + 1 : t[j] = s[j - 1]
<1>1. <<x>> \in Seq(S) /\ Len(<<x>>) = 1
    OBVIOUS
<1>2. QED
    BY <1>1, ConcatProperties

-----------------------------------------------------------------------------
(* Initial states.                                                         *)

LEMMA InitIInv == Init => IInv
<1> SUFFICES ASSUME Init PROVE IInv
    OBVIOUS
<1>1. errLog = << >> /\ Len(errLog) = 0 /\ errLog \in Seq(LogItem)
    BY EmptySeq DEF Init
<1>2. TypeOK
    <2>1. answer \in [Calls -> Progress]
        BY DEF Init, Progress
    <2>2. openIndex \in -1 .. Len(errLog) - 1 /\ now \in 0 .. MaxTime
        BY <1>1, MaxTimeAssumption DEF Init
    <2>3. QED
        BY <1>1, <2>1, <2>2 DEF Init, TypeOK
<1>3. LogIsHttpErrors
    BY <1>1 DEF Init, LogIsHttpErrors
<1>4. QED
    BY <1>2, <1>3 DEF IInv

-----------------------------------------------------------------------------
(* The steps.  Every step but an HTTP error leaves the log alone.          *)

\* An answer that is not an HTTP error: the log is unchanged and the call,
\* pending before, had no record.
LEMMA RespondOther ==
    ASSUME IInv, NEW c \in Calls, NEW k \in Answers, k # "http", Respond(c, k)
    PROVE  IInv'
<1>1. errLog' = errLog /\ isOpen' = isOpen /\ now' = now /\ openIndex' = openIndex
    BY DEF Respond, Logged, ReachesDispatch
<1>2. answer' = [answer EXCEPT ![c] = k] /\ answer[c] = "pending"
    BY DEF Respond
<1>3. TypeOK'
    BY <1>1, <1>2 DEF IInv, TypeOK, Respond, Progress
<1>4. ~\E j \in 1 .. Len(errLog) : errLog[j].url = c
    BY <1>2 DEF IInv, LogIsHttpErrors
<1>5. LogIsHttpErrors'
    BY <1>1, <1>2, <1>4 DEF IInv, TypeOK, LogIsHttpErrors
<1>6. QED
    BY <1>3, <1>5 DEF IInv

\* An HTTP error of call c: its record is unshifted, stamped now.
LEMMA RespondHttp ==
    ASSUME IInv, NEW c \in Calls, Respond(c, "http")
    PROVE  IInv'
<1> DEFINE r == [url |-> c, time |-> now]
<1>1. r \in LogItem
    BY DEF IInv, TypeOK, LogItem
<1>2. /\ errLog' = <<r>> \o errLog
      /\ isOpen' = TRUE
      /\ now' = now /\ openIndex' = openIndex /\ utoken' = utoken /\ page' = page
      /\ answer' = [answer EXCEPT ![c] = "http"]
      /\ answer[c] = "pending"
    BY DEF Respond, Logged, ReachesDispatch
<1>3. /\ errLog' \in Seq(LogItem)
      /\ Len(errLog') = Len(errLog) + 1
      /\ errLog'[1] = r
      /\ \A j \in 2 .. Len(errLog) + 1 : errLog'[j] = errLog[j - 1]
    BY <1>1, <1>2, PushFront DEF IInv, TypeOK
<1>4. ~\E j \in 1 .. Len(errLog) : errLog[j].url = c
    BY <1>2 DEF IInv, LogIsHttpErrors
<1>5. TypeOK'
    BY <1>2, <1>3 DEF IInv, TypeOK, Progress, Answers
<1>6. \A d \in Calls :
          answer'[d] = "http" <=> \E j \in 1 .. Len(errLog') : errLog'[j].url = d
    <2> SUFFICES ASSUME NEW d \in Calls
                 PROVE  answer'[d] = "http" <=> \E j \in 1 .. Len(errLog') : errLog'[j].url = d
        OBVIOUS
    <2>1. CASE d = c
        BY <2>1, <1>2, <1>3 DEF IInv, TypeOK
    <2>2. CASE d # c
        <3>1. answer'[d] = answer[d]
            BY <2>2, <1>2 DEF IInv, TypeOK
        <3>2. errLog'[1].url # d
            BY <2>2, <1>3
        <3>3. (\E j \in 1 .. Len(errLog') : errLog'[j].url = d)
                <=> \E j \in 1 .. Len(errLog) : errLog[j].url = d
            <4>1. ASSUME NEW j \in 1 .. Len(errLog'), errLog'[j].url = d
                  PROVE  \E i \in 1 .. Len(errLog) : errLog[i].url = d
                <5>1. j # 1
                    BY <4>1, <3>2
                <5>2. j - 1 \in 1 .. Len(errLog) /\ errLog'[j] = errLog[j - 1]
                    BY <5>1, <1>3, <4>1 DEF IInv, TypeOK
                <5>3. QED
                    BY <5>2, <4>1
            <4>2. ASSUME NEW i \in 1 .. Len(errLog), errLog[i].url = d
                  PROVE  \E j \in 1 .. Len(errLog') : errLog'[j].url = d
                <5>1. i + 1 \in 2 .. Len(errLog) + 1 /\ errLog'[i + 1] = errLog[i]
                    BY <1>3 DEF IInv, TypeOK
                <5>2. i + 1 \in 1 .. Len(errLog')
                    BY <1>3 DEF IInv, TypeOK
                <5>3. QED
                    BY <5>1, <5>2, <4>2
            <4>3. QED
                BY <4>1, <4>2
        <3>4. QED
            BY <3>1, <3>3 DEF IInv, LogIsHttpErrors
    <2>3. QED
        BY <2>1, <2>2
<1>7. \A i, j \in 1 .. Len(errLog') :
          /\ errLog'[i].url = errLog'[j].url => i = j
          /\ i < j => errLog'[j].time <= errLog'[i].time
    <2> SUFFICES ASSUME NEW i \in 1 .. Len(errLog'), NEW j \in 1 .. Len(errLog')
                 PROVE  /\ errLog'[i].url = errLog'[j].url => i = j
                        /\ i < j => errLog'[j].time <= errLog'[i].time
        OBVIOUS
    <2>1. CASE i = 1 /\ j = 1
        BY <2>1
    <2>2. CASE i = 1 /\ j # 1
        <3>1. j - 1 \in 1 .. Len(errLog) /\ errLog'[j] = errLog[j - 1]
            BY <2>2, <1>3 DEF IInv, TypeOK
        <3>2. errLog[j - 1].url # c /\ errLog[j - 1].time <= now
            BY <3>1, <1>4 DEF IInv, LogIsHttpErrors
        <3>3. errLog'[i] = r
            BY <2>2, <1>3
        <3>4. QED
            BY <3>1, <3>2, <3>3, <2>2
    <2>3. CASE i # 1 /\ j = 1
        <3>1. i - 1 \in 1 .. Len(errLog) /\ errLog'[i] = errLog[i - 1]
            BY <2>3, <1>3 DEF IInv, TypeOK
        <3>2. errLog[i - 1].url # c
            BY <3>1, <1>4
        <3>3. errLog'[j] = r
            BY <2>3, <1>3
        <3>4. QED
            BY <3>1, <3>2, <3>3, <2>3
    <2>4. CASE i # 1 /\ j # 1
        <3>1. /\ i - 1 \in 1 .. Len(errLog) /\ errLog'[i] = errLog[i - 1]
              /\ j - 1 \in 1 .. Len(errLog) /\ errLog'[j] = errLog[j - 1]
            BY <2>4, <1>3 DEF IInv, TypeOK
        <3>2. /\ errLog[i - 1].url = errLog[j - 1].url => i - 1 = j - 1
              /\ i - 1 < j - 1 => errLog[j - 1].time <= errLog[i - 1].time
            BY <3>1 DEF IInv, LogIsHttpErrors
        <3>3. QED
            BY <3>1, <3>2 DEF IInv, TypeOK
    <2>5. QED
        BY <2>1, <2>2, <2>3, <2>4
<1>8. \A j \in 1 .. Len(errLog') : errLog'[j].time <= now'
    <2> SUFFICES ASSUME NEW j \in 1 .. Len(errLog')
                 PROVE  errLog'[j].time <= now'
        OBVIOUS
    <2>1. CASE j = 1
        BY <2>1, <1>2, <1>3 DEF IInv, TypeOK
    <2>2. CASE j # 1
        <3>1. j - 1 \in 1 .. Len(errLog) /\ errLog'[j] = errLog[j - 1]
            BY <2>2, <1>3 DEF IInv, TypeOK
        <3>2. QED
            BY <3>1, <1>2 DEF IInv, LogIsHttpErrors
    <2>3. QED
        BY <2>1, <2>2
<1>9. QED
    BY <1>5, <1>6, <1>7, <1>8 DEF IInv, LogIsHttpErrors

\* A step that leaves the log and the answers alone, moves now forward or
\* changes only the panel keeps the invariant.
LEMMA LogUntouched ==
    ASSUME IInv,
           errLog' = errLog, answer' = answer, now' \in now .. MaxTime,
           utoken' \in BOOLEAN, isOpen' \in BOOLEAN, page' \in {"app", "login"},
           openIndex' \in -1 .. Len(errLog) - 1
    PROVE  IInv'
<1>1. now \in Nat /\ now' \in Nat /\ now <= now'
    BY MaxTimeAssumption DEF IInv, TypeOK
<1>2. TypeOK'
    <2>1. now' \in 0 .. MaxTime
        BY <1>1, MaxTimeAssumption DEF IInv, TypeOK
    <2>2. answer' \in [Calls -> Progress] /\ errLog' \in Seq(LogItem)
        BY DEF IInv, TypeOK
    <2>3. openIndex' \in -1 .. Len(errLog') - 1
        OBVIOUS
    <2>4. QED
        BY <2>1, <2>2, <2>3 DEF TypeOK
<1>3. \A j \in 1 .. Len(errLog) : errLog[j].time \in Int
    <2> SUFFICES ASSUME NEW j \in 1 .. Len(errLog) PROVE errLog[j].time \in Int
        OBVIOUS
    <2>1. errLog[j] \in LogItem
        BY ElementOfSeq DEF IInv, TypeOK
    <2>2. QED
        BY <2>1, MaxTimeAssumption DEF LogItem
<1>4. \A j \in 1 .. Len(errLog') : errLog'[j].time <= now'
    BY <1>1, <1>3 DEF IInv, LogIsHttpErrors
<1>5. LogIsHttpErrors'
    BY <1>4 DEF IInv, LogIsHttpErrors
<1>6. QED
    BY <1>2, <1>5 DEF IInv

\* A request: the call leaves idle, for pending or blocked.
LEMMA RequestKeeps ==
    ASSUME IInv, NEW c \in Calls, Request(c)
    PROVE  IInv'
<1>1. answer' = [answer EXCEPT ![c] = Sent] /\ answer[c] = "idle"
      /\ errLog' = errLog /\ now' = now /\ openIndex' = openIndex
      /\ isOpen' = isOpen /\ utoken' = utoken /\ page' \in {"app", "login"}
    BY DEF Request, Navigated, IInv, TypeOK
<1>2. Sent \in {"pending", "blocked"}
    BY DEF Sent
<1>3. TypeOK'
    BY <1>1, <1>2 DEF IInv, TypeOK, Progress
<1>4. ~\E j \in 1 .. Len(errLog) : errLog[j].url = c
    BY <1>1 DEF IInv, LogIsHttpErrors
<1>5. LogIsHttpErrors'
    BY <1>1, <1>2, <1>4 DEF IInv, TypeOK, LogIsHttpErrors
<1>6. QED
    BY <1>3, <1>5 DEF IInv

-----------------------------------------------------------------------------
(* The invariants.                                                         *)

LEMMA NextIInv == IInv /\ [Next]_vars => IInv'
<1> SUFFICES ASSUME IInv, [Next]_vars PROVE IInv'
    OBVIOUS
<1>1. CASE \E c \in Calls : Request(c)
    BY <1>1, RequestKeeps
<1>2. CASE \E c \in Calls, k \in Answers : Respond(c, k)
    <2> PICK c \in Calls, k \in Answers : Respond(c, k)
        BY <1>2
    <2>1. CASE k = "http"
        BY <2>1, RespondHttp
    <2>2. CASE k # "http"
        BY <2>2, RespondOther
    <2>3. QED
        BY <2>1, <2>2
<1>3. CASE ToggleDialog
    BY <1>3, LogUntouched DEF ToggleDialog, IInv, TypeOK
<1>9. CASE MenuInput
    <2>1. isOpen' = FALSE /\ UNCHANGED <<utoken, answer, errLog, openIndex, page, now>>
        BY <1>9 DEF MenuInput
    <2>2. now \in now .. MaxTime
        BY MaxTimeAssumption DEF IInv, TypeOK
    <2>3. QED
        BY <2>1, <2>2, LogUntouched DEF IInv, TypeOK
<1>10. CASE CloseDetail
    <2>1. -1 \in -1 .. Len(errLog) - 1
        BY DEF IInv, TypeOK
    <2>2. QED
        BY <1>10, <2>1, LogUntouched DEF CloseDetail, SetDetail, IInv, TypeOK
<1>4. CASE \E i \in 0 .. Len(errLog) - 1 : OpenDetail(i)
    BY <1>4, LogUntouched DEF OpenDetail, SetDetail, IInv, TypeOK
<1>5. CASE CookieChange
    BY <1>5, LogUntouched DEF CookieChange, IInv, TypeOK
<1>6. CASE Tick
    <2>1. now \in Nat /\ MaxTime \in Nat
        BY MaxTimeAssumption DEF IInv, TypeOK
    <2>2. QED
        BY <1>6, <2>1, LogUntouched DEF Tick, IInv, TypeOK
<1>7. CASE UNCHANGED vars
    BY <1>7 DEF vars, IInv, TypeOK, LogIsHttpErrors
<1>8. QED
    BY <1>1, <1>2, <1>3, <1>4, <1>5, <1>6, <1>7, <1>9, <1>10 DEF Next, PanelNext, EnvNext

\* Every reachable state is well typed: the answers are progress values,
\* the log is a sequence of records and the open detail is one of them.
THEOREM TypeCorrect == Spec => []TypeOK
<1>1. Init => IInv
    BY InitIInv
<1>2. IInv /\ [Next]_vars => IInv'
    BY NextIInv
<1>3. IInv => TypeOK
    BY DEF IInv
<1>4. QED
    BY <1>1, <1>2, <1>3, PTL DEF Spec

\* The error log the panel shows is exactly the calls that ended with an
\* HTTP error status, once each, newest first and stamped no later than
\* now, for every set of calls and every clock bound (the interceptor's
\* dispatches are reached for those errors only).
THEOREM LogCorrect == Spec => []LogIsHttpErrors
<1>1. IInv => LogIsHttpErrors
    BY DEF IInv
<1>2. QED
    BY <1>1, InitIInv, NextIInv, PTL DEF Spec

=============================================================================
