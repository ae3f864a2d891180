------------------------------- MODULE OemHook --------------------------------
(***************************************************************************)
(* The service mode of the modem behind RIL_REQUEST_OEM_HOOK_RAW (oem.c):   *)
(* entering and leaving it, keys, and the screens the modem sends, which    *)
(* answer a request that waits or are kept for a query (the request data of *)
(* samsung-ril.c).                                                         *)
(*                                                                         *)
(* Handlers run under RIL_LOCK and are one step.  Requests are numbered as  *)
(* they are issued and the number stands for the token and the sequence     *)
(* number of the message; screens are numbered as the modem sends them.     *)
(***************************************************************************)
EXTENDS Integers, Sequences, FiniteSets, SequencesExt, Scenario

\* The instances.
MaxRequests == 3  \* requests that are issued
MaxRefreshes == 1  \* screens the modem sends on its own
MaxOutages == InRun([safety |-> 1, progress |-> 0])  \* times the modem is lost

VARIABLES
    issued,      \* the commands of the requests, by token
    requests,    \* the requests registered: token and status, in order
    expects,     \* the generic responses expected: token and what they do
    svcSession,  \* svc_session
    stored,      \* the request data of OEM_HOOK_RAW, a list of screens
    toModem, fromModem,
    inService,   \* the modem is in its service mode
    screens,     \* screens sent so far
    refreshes, outages,
    received,    \* ghost: the screens that were valid
    answers      \* the answers: token, success, and the screen or 0

data == <<svcSession, stored>>
links == <<toModem, fromModem>>
modem == <<inService, screens, refreshes>>
vars == <<issued, requests, expects, data, links, modem, outages, received, answers>>

Token == 1 .. MaxRequests
Commands == {"ENTER", "ENTER_QUERY", "END", "KEY", "KEY_QUERY", "OTHER", "SHORT"}
Queries == {"ENTER_QUERY", "KEY_QUERY"}

Init ==
    /\ issued = <<>> /\ requests = <<>> /\ expects = <<>>
    /\ svcSession = FALSE /\ stored = <<>> /\ toModem = <<>> /\ fromModem = <<>>
    /\ inService = FALSE /\ screens = 0 /\ refreshes = 0 /\ outages = 0
    /\ received = {} /\ answers = <<>>

\* onRequest registers the request.
Issue(c) ==
    /\ Len(issued) < MaxRequests
    /\ issued' = Append(issued, c)
    /\ requests' = Append(requests, [tok |-> Len(issued) + 1, status |-> "pending"])
    /\ UNCHANGED <<expects, data, links, modem, outages, received, answers>>

Handled == {i \in DOMAIN requests : requests[i].status = "handled"}
Registered(t) == \E i \in DOMAIN requests : requests[i].tok = t

\* ril_request_complete and unregistering the request.
Complete(t, ok, screen) ==
    /\ answers' = Append(answers, [tok |-> t, ok |-> ok, screen |-> screen])
    /\ requests' = SelectSeq(requests, LAMBDA r : r.tok # t)

-----------------------------------------------------------------------------
(* The request data.                                                       *)

ril_request_data_free == <<>>

\* ril_request_data_set_uniq: all that is there is freed, and a copy kept.
ril_request_data_set_uniq(screen) == Append(ril_request_data_free, screen)

\* ril_request_data_size_get and ril_request_data_get: the first, or nothing.
ril_request_data_get == IF stored = <<>> THEN 0 ELSE Head(stored)
Unregistered == IF stored = <<>> THEN stored ELSE Tail(stored)

-----------------------------------------------------------------------------
(* ril_request_oem_hook_raw.                                               *)

\* ipc_gen_phone_res_expect_abort, and _complete for leaving.
ipc_gen_phone_res_expect(t) ==
    Append(expects, [tok |-> t, effect |-> IF issued[t] = "END" THEN "complete" ELSE "abort"])

Send(t) ==
    /\ toModem' = Append(toModem, [tok |-> t, command |-> issued[t]])
    /\ expects' = ipc_gen_phone_res_expect(t)
    /\ requests' = [i \in DOMAIN requests |->
                        IF requests[i].tok = t THEN [tok |-> t, status |-> "handled"]
                        ELSE requests[i]]
    /\ UNCHANGED answers

Query(t) ==
    /\ Complete(t, TRUE, ril_request_data_get)
    /\ stored' = Unregistered
    /\ UNCHANGED <<expects, svcSession, toModem>>

Enter(t) == Send(t) /\ UNCHANGED data

\* The session is over, and its screen freed, as soon as the message is sent.
End(t) ==
    /\ Send(t)
    /\ svcSession' = FALSE /\ stored' = ril_request_data_free

Key(t) == svcSession /\ Send(t) /\ UNCHANGED data

\* The label error: the screen that is kept is freed as well.
Failed(t) ==
    /\ Complete(t, FALSE, 0)
    /\ stored' = ril_request_data_free /\ UNCHANGED <<svcSession, toModem>>

\* A key without a session, or a command that is none of these.
Error(t) ==
    /\ issued[t] \in {"OTHER", "SHORT"} \cup IF svcSession THEN {} ELSE {"KEY"}
    /\ Failed(t) /\ UNCHANGED expects

\* ipc_fmt_send fails, as the link to the modem is about to go: the response
\* stays expected.
SendFails(t) ==
    /\ outages < MaxOutages
    /\ issued[t] \in {"ENTER", "END"} \cup IF svcSession THEN {"KEY"} ELSE {}
    /\ Failed(t)
    /\ expects' = ipc_gen_phone_res_expect(t)

\* A request is left unhandled while another waits for the modem.
MayHandle == Handled = {}

\* The request loop gives the i-th request to its handler.  Data that is too short
\* is refused before the handler looks for a request under way.
Dispatch(i) ==
    /\ requests[i].status = "pending" /\ (MayHandle \/ issued[requests[i].tok] = "SHORT")
    /\ \A j \in 1 .. i - 1 :
          requests[j].status = "pending" => ~MayHandle /\ issued[requests[j].tok] # "SHORT"
    /\ LET t == requests[i].tok IN
        \/ issued[t] \in Queries /\ Query(t)
        \/ issued[t] = "ENTER" /\ Enter(t)
        \/ issued[t] = "END" /\ End(t)
        \/ issued[t] = "KEY" /\ Key(t)
        \/ Error(t)
        \/ SendFails(t)
    /\ UNCHANGED <<issued, fromModem, modem, outages, received>>

-----------------------------------------------------------------------------
(* Messages of the modem.                                                  *)

Phone(t, ok) == [kind |-> "PHONE_RES", tok |-> t, ok |-> ok, screen |-> 0]
Screen(n, kind) == [kind |-> kind, tok |-> 0, ok |-> TRUE, screen |-> n]
Refreshes == {"SCREEN", "BOGUS", "CUT"} \* whole, bogus first index, too short

\* The modem answers a command it takes with a screen, and leaving with the
\* screen that has no lines; the generic response comes before or after.
ModemTakes ==
    /\ toModem # <<>> /\ toModem' = Tail(toModem)
    /\ LET m == Head(toModem)
           taken == m.command = "ENTER" \/ inService
           screen == IF m.command = "END" THEN Screen(screens + 1, "END_SCREEN")
                     ELSE Screen(screens + 1, "SCREEN")
       IN  \/ /\ taken /\ screens' = screens + 1 /\ inService' = (m.command # "END")
              /\ \/ fromModem' = fromModem \o <<Phone(m.tok, TRUE), screen>>
                 \/ fromModem' = fromModem \o <<screen, Phone(m.tok, TRUE)>>
           \/ /\ ~taken \/ m.command # "END"
              /\ fromModem' = Append(fromModem, Phone(m.tok, FALSE))
              /\ UNCHANGED <<inService, screens>>
    /\ UNCHANGED <<issued, requests, expects, data, refreshes, outages, received, answers>>

\* The display changes, or a message is invalid or cut.
Refresh(kind) ==
    /\ inService /\ refreshes < MaxRefreshes /\ refreshes' = refreshes + 1
    /\ screens' = screens + 1
    /\ fromModem' = Append(fromModem, Screen(screens + 1, kind))
    /\ UNCHANGED <<issued, requests, expects, data, toModem, inService, outages, received, answers>>

\* ipc_fmt_request_token: the request is still there.
Answerable(t) == Registered(t)

\* ipc_gen_phone_res: a response that is expected completes the request, or
\* does so if it reports an error.
ipc_gen_phone_res(m) ==
    LET e == SelectSeq(expects, LAMBDA x : x.tok = m.tok) IN
    /\ expects' = SelectSeq(expects, LAMBDA x : x.tok # m.tok)
    /\ IF /\ e # <<>> /\ (Head(e).effect = "complete" \/ ~m.ok)
          /\ Answerable(m.tok)
       THEN Complete(m.tok, m.ok, 0) ELSE UNCHANGED <<requests, answers>>
    /\ UNCHANGED <<data, received>>

\* A request that waits is completed with the screen; otherwise it is kept.
ShowOrKeep(m, kept) ==
    /\ received' = received \cup {m.screen}
    /\ IF Handled # {}
       THEN /\ Complete(requests[CHOOSE i \in Handled : TRUE].tok, TRUE, m.screen)
            /\ stored' = kept
       ELSE /\ stored' = ril_request_data_set_uniq(m.screen)
            /\ UNCHANGED <<requests, answers>>
    /\ UNCHANGED expects

\* The label error: the request that waits fails.
CutScreen ==
    /\ IF Handled # {}
       THEN Complete(requests[CHOOSE i \in Handled : TRUE].tok, FALSE, 0)
       ELSE UNCHANGED <<requests, answers>>
    /\ UNCHANGED <<expects, stored, received>>

\* ipc_svc_display_screen with lines: the session is on; a bogus index in the
\* first line makes the message invalid.
DisplayScreen(m) ==
    /\ svcSession' = TRUE
    /\ \/ m.kind = "SCREEN" /\ ShowOrKeep(m, stored)
       \/ m.kind = "CUT" /\ CutScreen
       \/ m.kind = "BOGUS" /\ UNCHANGED <<requests, expects, stored, received, answers>>

EndsSession == svcSession' = FALSE

\* ipc_svc_display_screen without lines: the session is over.
DisplayEnd(m) == EndsSession /\ ShowOrKeep(m, ril_request_data_free)

\* ipc_fmt_dispatch.
Receive ==
    /\ fromModem # <<>> /\ fromModem' = Tail(fromModem)
    /\ LET m == Head(fromModem) IN
        \/ m.kind = "PHONE_RES" /\ ipc_gen_phone_res(m)
        \/ m.kind \in Refreshes /\ DisplayScreen(m)
        \/ m.kind = "END_SCREEN" /\ DisplayEnd(m)
    /\ UNCHANGED <<issued, toModem, modem, outages>>

\* The modem is lost: ril_radio_state_update answers and flushes everything, and
\* ipc_fmt_flush ends the session.
Outage ==
    /\ outages < MaxOutages /\ outages' = outages + 1
    /\ answers' = answers \o [i \in DOMAIN requests |->
                                [tok |-> requests[i].tok, ok |-> FALSE, screen |-> 0]]
    /\ requests' = <<>> /\ expects' = <<>> /\ svcSession' = FALSE /\ stored' = <<>>
    /\ toModem' = <<>> /\ fromModem' = <<>> /\ inService' = FALSE
    /\ UNCHANGED <<issued, screens, refreshes, received>>

Next ==
    \/ \E c \in Commands : Issue(c)
    \/ \E i \in DOMAIN requests : Dispatch(i)
    \/ ModemTakes \/ Receive \/ Outage
    \/ \E kind \in Refreshes : Refresh(kind)

Spec == Init /\ [][Next]_vars

-----------------------------------------------------------------------------
(* Properties.                                                             *)

\* The types of the variables.
TypeOK ==
    /\ Range(issued) \subseteq Commands
    /\ \A r \in Range(requests) : r.tok \in Token /\ r.status \in {"pending", "handled"}
    /\ Range(stored) \subseteq 1 .. screens /\ svcSession \in BOOLEAN
    /\ \A a \in Range(answers) : a.screen \in 0 .. screens
    /\ Cardinality(Handled) <= 1

\* A request has exactly one answer or is registered: the screen and the generic
\* response to it, or an outage, do not both answer it.
AnsweredOnce ==
    \A t \in DOMAIN issued :
        Cardinality({i \in DOMAIN answers : answers[i].tok = t})
        + Cardinality({i \in DOMAIN requests : requests[i].tok = t}) = 1

\* Keys and queries show the display as it is: no screen is shown twice, and the
\* one kept for the next query is newer than all others that nobody has seen.
NewestShown ==
    LET shown == {answers[i].screen : i \in DOMAIN answers} \ {0} IN
    /\ \A i, j \in DOMAIN answers : answers[i].screen = answers[j].screen => i = j \/ answers[i].screen = 0
    /\ \A s \in Range(stored) : s \notin shown /\ \A n \in received : n > s => n \in shown

\* Screens kept for a query belong to the session: with no message under way, the
\* library thinks there is a session exactly when the modem is in service mode.
SessionMatches ==
    toModem = <<>> /\ fromModem = <<>> => svcSession = inService
=============================================================================
