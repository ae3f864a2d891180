----------------------------- MODULE SamsungRil -----------------------------
(***************************************************************************)
(* The core of the Samsung-RIL vendor library: the queue of solicited      *)
(* requests and the thread that dispatches it (samsung-ril.c), the         *)
(* per-request sequence numbers and the life of the FMT client that talks  *)
(* to the modem (ipc.c, client.c), the expected generic responses (gen.c)  *)
(* and the radio state (samsung-ril.c, power.c).                           *)
(*                                                                         *)
(* Three threads share this state.  libril's thread calls ril_on_request   *)
(* and ril_on_cancel, the request thread runs ril_request_loop, and the    *)
(* FMT client thread runs ipc_fmt_loop.  RIL_LOCK is held over each whole  *)
(* handler, so a handler is one step here; a pass of the request loop      *)
(* holds it over several dispatches (loopPc = "run"), and no step that     *)
(* needs the lock is taken meanwhile.  What a thread does outside the lock *)
(* is a step of its own: the wake-up that ril_on_request posts after it    *)
(* has released the lock, and the gap between ril_request_loop's waking up *)
(* and its taking the lock.                                                *)
(***************************************************************************)
EXTENDS Integers, Sequences, FiniteSets

CONSTANTS
    Token,       \* RIL_Token values libril uses
    Kind,        \* RIL_REQUEST_* codes
    Command,     \* IPC commands the handlers send
    Handler,     \* what the handler of each request does, see Profile
    SeqMax,      \* the largest sequence number, 0xfe in the code
    RetryCount,  \* RIL_CLIENT_RETRY_COUNT
    NoToken,     \* the NULL token
    MaxIssued,   \* bound: calls of ril_on_request
    MaxCancels   \* bound: calls of ril_on_cancel

\* The radio states the library sets, in the order of ril_radio_state_check.
UNAVAILABLE == 0
OFF == 1
SIM_NOT_READY == 2
SIM_LOCKED_OR_ABSENT == 3
SIM_READY == 4
RadioStates == UNAVAILABLE .. SIM_READY

\* What a request handler does, as far as the queue can tell.
Profile ==
    [ does : {"nothing", "answer", "send"},  \* no handler; answers at once;
                                             \* sends a command to the modem
      args : BOOLEAN,        \* malformed data is answered before anything else
      min : RadioStates,     \* needs at least this radio state, otherwise
      low : {"unhandled", "complete"},  \* ... waits, or is answered at once
      excl : BOOLEAN,        \* waits while another of its kind is handled
      cmd : Command,         \* the command it sends
      expect : {"none", "abort", "complete"},  \* its gen_phone_res expect
      resp : BOOLEAN,        \* the command has a response of its own
      respMin : RadioStates, \* ... that is dropped below this radio state
      sets : SUBSET (OFF .. SIM_READY) ]  \* ... and sets one of these states

ASSUME ConstantsAssumption ==
    /\ Handler \in [Kind -> Profile]
    /\ SeqMax \in Nat \ {0}
    /\ RetryCount \in Nat \ {0}
    /\ NoToken \notin Token
    /\ MaxIssued \in Nat
    /\ MaxCancels \in Nat

VARIABLES
    radioState,   \* ril_data->radio_state
    requests,     \* ril_data->requests, in list order
    fmtRequests,  \* ipc_fmt_data->requests, in list order
    fmtSeq,       \* ipc_fmt_data->seq
    expects,      \* ipc_fmt_data->gen_phone_res_expect, in list order
    fmt,          \* where the FMT client thread is
    failures,     \* client->failures
    loopSem,      \* request_loop_mutex is unlocked: a wake-up is due
    loopPc,       \* where the request thread is
    posting,      \* ril_on_request is between RIL_UNLOCK and LOOP_UNLOCK
    wire,         \* commands the modem has not fully answered
    owed,         \* history: answers libril still waits for, per token
    cancelled,    \* history: tokens libril cancelled
    orphans,      \* history: a cancel since the loop's last pass
    wrapped,      \* history: a sequence number was reused since the last flush
    issued,       \* history: calls of ril_on_request so far
    cancels       \* history: calls of ril_on_cancel so far

queueVars == <<requests, fmtRequests, owed>>
seqVars == <<fmtSeq, expects, wrapped, wire>>
clientVars == <<fmt, failures>>
loopVars == <<loopSem, loopPc, posting>>
histVars == <<cancelled, orphans, issued, cancels>>
vars == <<radioState, queueVars, seqVars, clientVars, loopVars, histVars>>

Status == {"PENDING", "HANDLED", "UNHANDLED"}
Seqs == 1 .. SeqMax
NoSeq == SeqMax + 1       \* 0xff: no number assigned yet
Request == [token : Token, kind : Kind, status : Status]
FmtRequest == [token : Token, kind : Kind, seq : 1 .. NoSeq]
Expect == [aseq : Seqs, cmd : Command, mode : {"abort", "complete"}]

\* A command the modem was sent: its sequence number, the request it was sent
\* for, the answers still to come, and whether it predates the last flush.
Sent == [seq : Seqs, token : Token, kind : Kind,
         due : SUBSET {"gen", "resp"}, old : BOOLEAN]

-----------------------------------------------------------------------------
(* Lists: the code walks a list from its head and takes the first match.   *)

FirstOf(I) == CHOOSE i \in I : \A j \in I : i <= j

\* list_head_free of the i-th element: the j-th one left was at Shift(i, j)
Shift(i, j) == IF j < i THEN j ELSE j + 1
Delete(q, i) == [j \in 1 .. Len(q) - 1 |-> q[Shift(i, j)]]

Positions(q, t) == {i \in 1 .. Len(q) : q[i].token = t}

\* ril_request_unregister, and ipc_fmt_request_unregister through the client
\* callback.
Unregister(q, t) ==
    IF Positions(q, t) = {} THEN q ELSE Delete(q, FirstOf(Positions(q, t)))

InStatus(s) == {i \in 1 .. Len(requests) : requests[i].status = s}

\* ipc_fmt_request_token: the token of the first request with that number
FmtToken(s) ==
    LET I == {i \in 1 .. Len(fmtRequests) : fmtRequests[i].seq = s}
    IN  IF I = {} THEN NoToken ELSE fmtRequests[FirstOf(I)].token

\* Mutants of NextSeq: the wrap or the increment is missing.
NextSeqNoWrap == fmtSeq + 1
NextSeqStuck == IF fmtSeq = 0 THEN 1 ELSE fmtSeq

\* ipc_fmt_seq: 0xff is skipped and 1 follows it
NextSeq == IF fmtSeq + 1 > SeqMax THEN 1 ELSE fmtSeq + 1

\* RIL_LOCK is free: the request loop is not in the middle of a pass.
LockFree == loopPc # "run"

\* Mutant of Wakes: a new radio state does not wake the loop up.
WakesNever(s) == FALSE

\* ril_radio_state_update to a state at or above OFF: only a change to a
\* state above OFF wakes the request loop up.
Wakes(s) == s # radioState /\ s > OFF

\* Mutant of Complete: the FMT client is not told.
CompleteKeepsFmt(t) ==
    /\ requests' = Unregister(requests, t)
    /\ fmtRequests' = fmtRequests
    /\ owed' = IF t = NoToken THEN owed ELSE [owed EXCEPT ![t] = @ - 1]

\* ril_request_complete
Complete(t) ==
    /\ requests' = Unregister(requests, t)
    /\ fmtRequests' = Unregister(fmtRequests, t)
    /\ owed' = IF t = NoToken THEN owed ELSE [owed EXCEPT ![t] = @ - 1]

-----------------------------------------------------------------------------
Init ==
    /\ radioState = UNAVAILABLE
    /\ requests = <<>> /\ fmtRequests = <<>>
    /\ fmtSeq = 0 /\ expects = <<>>
    /\ fmt = "open" /\ failures = 0
    /\ loopSem = FALSE /\ loopPc = "wait" /\ posting = FALSE
    /\ wire = {}
    /\ owed = [t \in Token |-> 0]
    /\ cancelled = {} /\ orphans = FALSE
    /\ wrapped = FALSE /\ issued = 0 /\ cancels = 0

-----------------------------------------------------------------------------
(* libril's thread.  A token is a pointer to a request libril waits on, so *)
(* it is new as long as libril waits; it may come back after the answer.   *)

\* ril_on_request up to RIL_UNLOCK: a request with the same token is dropped,
\* the new one is queued here and, while it lives, in the FMT client.
OnRequest(t, k) ==
    /\ LockFree /\ ~posting
    /\ issued < MaxIssued
    /\ owed[t] = 0
    /\ requests' = Append(Unregister(requests, t),
                          [token |-> t, kind |-> k, status |-> "PENDING"])
    /\ fmtRequests' =
          IF fmt = "dead" THEN fmtRequests
          ELSE Append(Unregister(fmtRequests, t),
                      [token |-> t, kind |-> k, seq |-> NoSeq])
    /\ owed' = [owed EXCEPT ![t] = @ + 1]
    /\ posting' = TRUE
    /\ issued' = issued + 1
    /\ UNCHANGED <<radioState, seqVars, clientVars, loopSem, loopPc,
                   cancelled, orphans, cancels>>

\* Mutant of OnRequestSignal: the loop is not signalled.
OnRequestNoSignal ==
    /\ posting
    /\ posting' = FALSE
    /\ UNCHANGED <<radioState, queueVars, seqVars, clientVars, loopSem, loopPc,
                   histVars>>

\* RIL_REQUEST_LOOP_UNLOCK at the end of ril_on_request, without RIL_LOCK
OnRequestSignal ==
    /\ posting
    /\ posting' = FALSE /\ loopSem' = TRUE
    /\ UNCHANGED <<radioState, queueVars, seqVars, clientVars, loopPc, histVars>>

\* ril_on_cancel: unregisters the request; it neither answers the token nor
\* wakes the request loop up.
OnCancel(t) ==
    /\ LockFree
    /\ cancels < MaxCancels
    /\ Positions(requests, t) # {}
    /\ requests' = Unregister(requests, t)
    /\ fmtRequests' = Unregister(fmtRequests, t)
    /\ cancelled' = cancelled \cup {t}
    /\ orphans' = TRUE
    /\ cancels' = cancels + 1
    /\ UNCHANGED <<radioState, owed, seqVars, clientVars, loopVars, issued>>

-----------------------------------------------------------------------------
(* The request thread, ril_request_loop.                                   *)

\* RIL_REQUEST_LOOP_LOCK returns
LoopWake ==
    /\ loopPc = "wait" /\ loopSem
    /\ loopSem' = FALSE /\ loopPc' = "lock"
    /\ UNCHANGED <<radioState, queueVars, seqVars, clientVars, posting, histVars>>

\* RIL_LOCK; below OFF the loop goes back to waiting, otherwise every
\* UNHANDLED request is PENDING again.
LoopLock ==
    /\ loopPc = "lock"
    /\ \/ /\ radioState < OFF
          /\ loopPc' = "wait"
          /\ UNCHANGED <<requests, orphans>>
       \/ /\ radioState >= OFF
          /\ loopPc' = "run"
          /\ requests' = [i \in 1 .. Len(requests) |->
                IF requests[i].status = "UNHANDLED"
                THEN [requests[i] EXCEPT !.status = "PENDING"]
                ELSE requests[i]]
          /\ orphans' = FALSE
    /\ UNCHANGED <<radioState, fmtRequests, owed, seqVars, clientVars, loopSem,
                   posting, cancelled, issued, cancels>>

\* A request of kind k whose handler would send must wait for another one.
Busy(k) ==
    /\ Handler[k].excl
    /\ \E i \in InStatus("HANDLED") : requests[i].kind = k

SetStatus(i, s) == requests' = [requests EXCEPT ![i].status = s]

\* ril_request_find_status(RIL_REQUEST_PENDING), while it finds one
Dispatching == loopPc = "run" /\ InStatus("PENDING") # {}

\* Mutant of Current: the last one is taken.
CurrentLast == CHOOSE i \in InStatus("PENDING") :
                 \A j \in InStatus("PENDING") : j <= i

Current == FirstOf(InStatus("PENDING"))

\* ril_request_dispatch of the first PENDING request, when the handler
\* answers it without sending anything: no handler, malformed data, a radio
\* state too low for a question that has an answer anyway, or a request that
\* the library answers by itself.
DispatchAnswer ==
    /\ Dispatching
    /\ LET r == requests[Current]
           h == Handler[r.kind]
       IN  /\ \/ h.does = "nothing"
              \/ h.args
              \/ radioState < h.min /\ h.low = "complete"
              \/ radioState >= h.min /\ ~Busy(r.kind) /\ h.does = "answer"
           /\ Complete(r.token)
    /\ loopSem' = TRUE
    /\ UNCHANGED <<radioState, seqVars, clientVars, loopPc, posting, histVars>>

\* ... when the handler returns RIL_REQUEST_UNHANDLED
DispatchUnhandled ==
    /\ Dispatching
    /\ LET r == requests[Current]
           h == Handler[r.kind]
       IN  /\ h.does # "nothing"
           /\ \/ radioState < h.min /\ h.low = "unhandled"
              \/ radioState >= h.min /\ Busy(r.kind)
           /\ SetStatus(Current, "UNHANDLED")
    /\ UNCHANGED <<radioState, fmtRequests, owed, seqVars, clientVars, loopVars,
                   histVars>>

\* ipc_fmt_request_seq and ipc_gen_phone_res_expect_{abort,complete}, the two
\* calls that every sending handler makes before ipc_fmt_send
AssignSeq(i) == fmtRequests' = [fmtRequests EXCEPT ![i].seq = NextSeq]

RegisterExpect(h) ==
    /\ fmtSeq' = NextSeq
    /\ wrapped' = (wrapped \/ fmtSeq + 1 > SeqMax)
    /\ expects' = IF h.expect = "none" THEN expects
                  ELSE Append(expects, [aseq |-> NextSeq, cmd |-> h.cmd,
                                        mode |-> h.expect])

\* ... when the handler sends its command and returns RIL_REQUEST_HANDLED
DispatchSend ==
    /\ Dispatching
    /\ fmt \in {"open", "erring"}   \* client->available
    /\ LET r == requests[Current]
           h == Handler[r.kind]
       IN  /\ h.does = "send" /\ radioState >= h.min /\ ~Busy(r.kind)
           /\ SetStatus(Current, "HANDLED")
           /\ AssignSeq(FirstOf(Positions(fmtRequests, r.token)))
           /\ RegisterExpect(h)
           /\ wire' = wire \cup
                {[seq |-> NextSeq, token |-> r.token, kind |-> r.kind,
                  due |-> IF h.resp THEN {"gen", "resp"} ELSE {"gen"},
                  old |-> FALSE]}
    /\ UNCHANGED <<radioState, owed, clientVars, loopVars, histVars>>

\* ... when ipc_fmt_send fails: the request is answered with an error, its
\* expect stays in the list
DispatchSendFails ==
    /\ Dispatching
    /\ LET r == requests[Current]
           h == Handler[r.kind]
       IN  /\ h.does = "send" /\ radioState >= h.min /\ ~Busy(r.kind)
           /\ RegisterExpect(h)
           /\ Complete(r.token)
    /\ loopSem' = TRUE
    /\ UNCHANGED <<radioState, wire, clientVars, loopPc, posting, histVars>>

\* No PENDING request is left: RIL_UNLOCK, back to RIL_REQUEST_LOOP_LOCK
LoopDone ==
    /\ loopPc = "run" /\ InStatus("PENDING") = {}
    /\ loopPc' = "wait"
    /\ UNCHANGED <<radioState, queueVars, seqVars, clientVars, loopSem, posting,
                   histVars>>

-----------------------------------------------------------------------------
(* The FMT client thread: messages from the modem.  ipc_fmt_loop receives  *)
(* a message and dispatches it under RIL_LOCK; a message dispatched        *)
(* without error resets the failure count.                                 *)

Receiving == fmt = "open" /\ LockFree

\* ipc_pwr_phone_pwr_up, ipc_pwr_phone_reset
PwrUp ==
    /\ Receiving
    /\ radioState' = OFF
    /\ failures' = 0
    /\ UNCHANGED <<queueVars, seqVars, fmt, loopVars, histVars>>

\* ipc_sec_pin_status of an unsolicited notification, seen from the queue
SimStatus(s) ==
    /\ Receiving
    /\ radioState >= SIM_NOT_READY
    /\ s >= SIM_NOT_READY
    /\ radioState' = s
    /\ loopSem' = (loopSem \/ Wakes(s))
    /\ failures' = 0
    /\ UNCHANGED <<queueVars, seqVars, fmt, loopPc, posting, histVars>>

\* The modem gives answer a of command m: nothing more is due afterwards, or
\* the other answer still is.
Answered(m, a) ==
    (wire \ {m}) \cup IF m.due = {a} THEN {}
                      ELSE {[m EXCEPT !.due = @ \ {a}]}

\* ipc_fmt_dispatch of the response to command m: below respMin the handler
\* returns at once, otherwise it answers the request that carries m's number
\* and sets the radio state, if it is one that does.
RecvResp(m, s) ==
    /\ Receiving
    /\ "resp" \in m.due
    /\ wire' = Answered(m, "resp")
    /\ LET h == Handler[m.kind]
           t == FmtToken(m.seq)
       IN  \/ /\ radioState < h.respMin /\ s = radioState
              /\ UNCHANGED <<queueVars, radioState, loopSem>>
           \/ /\ radioState >= h.respMin
              /\ IF h.sets = {} THEN s = radioState ELSE s \in h.sets
              /\ Complete(t)
              /\ radioState' = s
              /\ loopSem' = (loopSem \/ t # NoToken \/ Wakes(s))
    /\ failures' = 0
    /\ UNCHANGED <<fmtSeq, expects, wrapped, fmt, loopPc, posting, histVars>>

\* ipc_gen_phone_res for command m, reporting success (ok) or failure.  The
\* first expect with that number decides: none, the message is ignored; one
\* for another command, the handler fails and the loop is about to end.
RecvGen(m, ok) ==
    /\ Receiving
    /\ "gen" \in m.due
    /\ wire' = IF ok THEN Answered(m, "gen") ELSE wire \ {m}
    /\ LET I == {i \in 1 .. Len(expects) : expects[i].aseq = m.seq}
           e == expects[FirstOf(I)]
           t == FmtToken(m.seq)
       IN  \/ /\ I = {}
              /\ failures' = 0
              /\ UNCHANGED <<queueVars, expects, fmt, loopSem>>
           \/ /\ I # {} /\ e.cmd # Handler[m.kind].cmd
              /\ expects' = Delete(expects, FirstOf(I))
              /\ fmt' = "erring"
              /\ UNCHANGED <<queueVars, failures, loopSem>>
           \/ /\ I # {} /\ e.cmd = Handler[m.kind].cmd
              /\ expects' = Delete(expects, FirstOf(I))
              /\ failures' = 0
              /\ IF e.mode = "complete" \/ ~ok
                 THEN /\ Complete(t)
                      /\ loopSem' = (loopSem \/ t # NoToken)
                 ELSE UNCHANGED <<queueVars, loopSem>>
              /\ UNCHANGED fmt
    /\ UNCHANGED <<radioState, fmtSeq, wrapped, loopPc, posting, histVars>>

-----------------------------------------------------------------------------
(* The FMT client thread: failure and retry (ril_client_thread).           *)

\* Mutants of Outage: the requests are dropped without an answer; the flush
\* leaves the number where it was; the radio state is not updated.
OutageSilent ==
    /\ radioState' = UNAVAILABLE
    /\ IF radioState = UNAVAILABLE
       THEN UNCHANGED <<queueVars, seqVars, loopSem>>
       ELSE /\ requests' = <<>> /\ fmtRequests' = <<>> /\ expects' = <<>>
            /\ fmtSeq' = 0 /\ wrapped' = FALSE
            /\ wire' = {[m EXCEPT !.old = TRUE] : m \in wire}
            /\ UNCHANGED <<owed, loopSem>>
OutageUnnoticed == UNCHANGED <<radioState, queueVars, seqVars, loopSem>>

\* ipc_fmt_request_flush, ipc_gen_phone_res_expect_flush and ipc_fmt_flush,
\* which calls both and starts the numbers again.
FmtRequestFlush == fmtRequests' = <<>>
ExpectFlush == expects' = <<>>
FmtFlush == FmtRequestFlush /\ ExpectFlush /\ fmtSeq' = 0 /\ wrapped' = FALSE

\* ril_radio_state_update(RADIO_STATE_UNAVAILABLE): every request is answered
\* with RADIO_NOT_AVAILABLE and the lists are flushed, unless the radio is
\* unavailable already.  What the modem still has to answer is old then.
Outage ==
    /\ radioState' = UNAVAILABLE
    /\ IF radioState = UNAVAILABLE
       THEN UNCHANGED <<queueVars, seqVars, loopSem>>
       ELSE /\ requests' = <<>>
            /\ FmtFlush
            /\ wire' = {[m EXCEPT !.old = TRUE] : m \in wire}
            /\ owed' = [t \in Token |->
                          owed[t] - Cardinality(Positions(requests, t))]
            /\ loopSem' = (loopSem \/ requests # <<>>)

\* The error exit of ipc_fmt_loop, after a message it could not dispatch or
\* because polling, receiving or the event descriptor failed; the client
\* thread counts the failure.
FmtError ==
    /\ fmt \in {"open", "erring"} /\ LockFree
    /\ Outage
    /\ fmt' = "failed"
    /\ failures' = failures + 1
    /\ UNCHANGED <<loopPc, posting, histVars>>

Retrying == fmt \in {"failed", "closed"} /\ failures < RetryCount /\ LockFree

\* ril_client_close and ril_client_open.  After the first failure the modem
\* keeps running and the radio is OFF at once; after a later one the modem is
\* power cycled and the radio is OFF when it says so.
FmtReopen ==
    /\ Retrying
    /\ fmt' = "open"
    /\ IF failures = 1
       THEN radioState' = OFF /\ UNCHANGED wire
       ELSE wire' = {} /\ UNCHANGED radioState
    /\ UNCHANGED <<queueVars, fmtSeq, expects, wrapped, failures, loopVars,
                   histVars>>

\* One of the two fails
FmtRetryFails ==
    /\ Retrying
    /\ fmt' = "closed"
    /\ failures' = failures + 1
    /\ wire' \in IF failures = 1 THEN {wire} ELSE {wire, {}}
    /\ UNCHANGED <<radioState, queueVars, fmtSeq, expects, wrapped, loopVars,
                   histVars>>

\* The thread ends: ril_client_close and ril_client_destroy
FmtGiveUp ==
    /\ fmt \in {"failed", "closed"} /\ failures >= RetryCount /\ LockFree
    /\ fmt' = "dead"
    /\ FmtFlush
    /\ wire' = {}
    /\ UNCHANGED <<radioState, requests, owed, failures, loopVars, histVars>>

-----------------------------------------------------------------------------
LibrilNext ==
    \/ \E t \in Token, k \in Kind : OnRequest(t, k)
    \/ OnRequestSignal
    \/ \E t \in Token : OnCancel(t)

LoopNext ==
    \/ LoopWake \/ LoopLock \/ DispatchAnswer \/ DispatchUnhandled
    \/ DispatchSend \/ DispatchSendFails \/ LoopDone

ModemNext ==
    \/ PwrUp
    \/ \E s \in RadioStates : SimStatus(s)
    \/ \E m \in wire, s \in RadioStates : RecvResp(m, s)
    \/ \E m \in wire, ok \in BOOLEAN : RecvGen(m, ok)

RetryNext == FmtReopen \/ FmtRetryFails \/ FmtGiveUp

Next == LibrilNext \/ LoopNext \/ ModemNext \/ FmtError \/ RetryNext

Spec == Init /\ [][Next]_vars

\* The threads run: ril_on_request gets to its signal, the request thread and
\* the client thread take their next step, and the client thread, which needs
\* RIL_LOCK for each message, is not starved of it between the loop's passes.
\* The modem gives the answers it owes.  Nothing forces libril to issue or
\* cancel requests, a descriptor to fail, or the modem to report a new state.
Fairness ==
    /\ WF_vars(OnRequestSignal)
    /\ WF_vars(LoopNext)
    /\ WF_vars(fmt = "erring" /\ FmtError)
    /\ WF_vars(RetryNext)
    /\ SF_vars(\E m \in wire, s \in RadioStates : RecvResp(m, s))
    /\ SF_vars(\E m \in wire, ok \in BOOLEAN : RecvGen(m, ok))

FairSpec == Spec /\ Fairness
-----------------------------------------------------------------------------
(* Properties.                                                             *)

TypeOK ==
    /\ radioState \in RadioStates
    /\ requests \in Seq(Request)
    /\ fmtRequests \in Seq(FmtRequest)
    /\ fmtSeq \in 0 .. SeqMax
    /\ expects \in Seq(Expect)
    /\ fmt \in {"open", "erring", "failed", "closed", "dead"}
    /\ failures \in 0 .. RetryCount
    /\ loopSem \in BOOLEAN
    /\ loopPc \in {"wait", "lock", "run"}
    /\ posting \in BOOLEAN
    /\ wire \in SUBSET Sent
    /\ owed \in [Token -> Int]
    /\ cancelled \in SUBSET Token
    /\ orphans \in BOOLEAN
    /\ wrapped \in BOOLEAN
    /\ issued \in Nat
    /\ cancels \in Nat

\* While it lives, the FMT client's list names the same requests, in the same
\* order, as the library's own list: the two are changed by separate calls of
\* ril_request_register, ril_request_unregister and the flush functions.
Mirrored ==
    fmt # "dead" =>
      /\ Len(fmtRequests) = Len(requests)
      /\ \A i \in 1 .. Len(requests) :
            /\ fmtRequests[i].token = requests[i].token
            /\ fmtRequests[i].kind = requests[i].kind

\* libril waits for exactly one answer to each request in the queue, and for
\* none to any other token: no request is dropped unanswered by a handler, an
\* outage or a restart, none is answered twice, and OnRequestComplete is never
\* called with a token libril no longer knows (ril_request_complete calls it
\* even for a token it does not find).  A cancelled request is answered at
\* most once.
AnsweredOnce ==
    \A t \in Token :
        IF t \in cancelled THEN owed[t] \in {0, 1}
        ELSE owed[t] = Cardinality(Positions(requests, t))

\* No wake-up is lost: the request loop never sleeps on a PENDING request
\* while the radio is on, although ril_on_request signals it after releasing
\* RIL_LOCK and a pass with the radio unavailable consumes the signal.
NoLostWakeup ==
    (loopPc = "wait" /\ ~loopSem /\ ~posting /\ radioState > OFF)
        => InStatus("PENDING") = {}

\* The reasons for which a handler returns RIL_REQUEST_UNHANDLED.
Blocked(i) ==
    \/ radioState < Handler[requests[i].kind].min
    \/ Busy(requests[i].kind)

\* The loop never sleeps on an UNHANDLED request that could be dispatched:
\* whatever removes the reason (an answer, a radio state) wakes the loop up.
\* The exception is ril_on_cancel, which takes a request away silently.
UnhandledHasReason ==
    (loopPc = "wait" /\ ~loopSem /\ ~orphans)
        => \A i \in InStatus("UNHANDLED") : Blocked(i)

\* Exclusive requests of one kind go to the modem one at a time and in the
\* order libril issued them, whatever is cancelled, answered or retried.
ExclusiveInOrder ==
    \A i, j \in 1 .. Len(requests) :
        (/\ i < j /\ requests[i].kind = requests[j].kind
         /\ Handler[requests[i].kind].excl)
            => requests[j].status # "HANDLED"

\* A modem outage leaves nothing behind: while the radio is unavailable no
\* queued request was ever dispatched, none has a number, and no generic
\* response is expected.
OutageLeavesNothing ==
    radioState = UNAVAILABLE =>
      /\ \A i \in 1 .. Len(requests) : requests[i].status = "PENDING"
      /\ \A i \in 1 .. Len(fmtRequests) : fmtRequests[i].seq = NoSeq
      /\ expects = <<>> /\ fmtSeq = 0

\* The radio is only reported as present while the FMT client can send: the
\* request loop relies on it, it checks the radio state and not the client.
RadioNeedsClient == radioState >= OFF => fmt \in {"open", "erring"}

\* Until the numbers wrap around, an answer to a command sent since the last
\* flush finds the request the command was sent for, or none if that was
\* cancelled, and the expect of its own command: no answer is given to the
\* wrong request and no well-formed generic response fails the client.
AnswersFindTheirRequest ==
    ~wrapped =>
      \A m \in wire : ~m.old =>
        /\ \A i \in 1 .. Len(fmtRequests) :
              fmtRequests[i].seq = m.seq =>
                fmtRequests[i].token = m.token /\ fmtRequests[i].kind = m.kind
        /\ \A i \in 1 .. Len(expects) :
              expects[i].aseq = m.seq => expects[i].cmd = Handler[m.kind].cmd

Waiting(t, s) == \E i \in InStatus(s) : requests[i].token = t

\* A request that is PENDING while the radio is on is picked up by the request
\* loop, without the modem's help: the loop is woken up, and a pass ends.
PendingDispatched ==
    \A t \in Token :
        (Waiting(t, "PENDING") /\ radioState > OFF)
            ~> (~Waiting(t, "PENDING") \/ radioState <= OFF)

OfKinds(t, K) ==
    \E i \in Positions(requests, t) : requests[i].kind \in K

RadioStaysOn == <>[](radioState >= SIM_NOT_READY)

\* If the radio comes on for good and the numbers do not wrap around, every
\* request that a generic response completes and that only needs the radio on
\* is answered, whatever was cancelled, failed or restarted before, and
\* whichever answer from before a restart carries its number.
ExecuteAnswered ==
    LET K == {k \in Kind : /\ Handler[k].does = "send"
                           /\ Handler[k].expect = "complete"
                           /\ Handler[k].min <= SIM_NOT_READY}
    IN  RadioStaysOn /\ []~wrapped =>
          \A t \in Token : OfKinds(t, K) ~> Positions(requests, t) = {}

\* "Must succeed if radio is on" (ril.h, RIL_REQUEST_SIGNAL_STRENGTH): if the
\* radio comes on for good, the request is answered.
SignalStrengthAnswered ==
    RadioStaysOn =>
      \A t \in Token :
         OfKinds(t, {"SIGNAL_STRENGTH"}) ~> Positions(requests, t) = {}

-----------------------------------------------------------------------------
(* The abstract specification.                                             *)

\* libril waits for a token that is owed an answer; the queue is the list of
\* requests without its status; HANDLED requests are with the modem.
serviceQueue ==
    [i \in 1 .. Len(requests) |->
        [token |-> requests[i].token, kind |-> requests[i].kind]]
serviceWaiting == {t \in Token : owed[t] > 0}
serviceServed == {requests[i].token : i \in InStatus("HANDLED")}

Service == INSTANCE RequestService WITH
    Exclusive <- {k \in Kind : Handler[k].excl},
    waiting <- serviceWaiting, queue <- serviceQueue, served <- serviceServed

\* The queue with its two lists, its loop, its numbers and its restarts does
\* nothing that the request service does not allow: whatever thread takes a
\* step, a request enters when libril issues it, leaves with one answer or
\* cancelled, and exclusive kinds are served in order.
ServiceSpec == Service!Spec
=============================================================================
