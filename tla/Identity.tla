------------------------------ MODULE Identity ------------------------------
(***************************************************************************)
(* The two queries of the serial number of the device in Samsung-RIL       *)
(* (misc.c): IMEI and its software version IMEISV are two parts of one     *)
(* answer.  A query that finds the other one handled sends nothing and     *)
(* gets no number, and the answer completes whichever of the two it finds. *)
(***************************************************************************)
EXTENDS QueueView

VARIABLE refused  \* history: the modem refused a command

vars == <<queueVars, refused>>

Kind == {"IMEI", "IMEISV"}
Other(k) == IF k = "IMEI" THEN "IMEISV" ELSE "IMEI"

\* A request is handled without a number.
NoNumber == -1

Request == [token : Token, kind : Kind, seq : Int]
Command == [cmd : {"MISC_ME_SN"}, seq : Nat, old : BOOLEAN]

Init == QueueInit /\ refused = FALSE

OnRequest(t, k) ==
    Issue(t, [token |-> t, kind |-> k, seq |-> 0]) /\ UNCHANGED refused

CanRun(r) == radio \in {"sim", "ready"} /\ ~Busy(r.kind)
Ready == {i \in 1 .. Len(requests) : CanRun(requests[i])}

\* Mutant of Shares: a request that was only issued counts as well.
SharesAny(k) == \E i \in 1 .. Len(requests) : requests[i].kind = Other(k)

\* The answer to the other query will hold this one's as well.
Shares(k) == Busy(Other(k))

\* ril_request_get_imei, ril_request_get_imeisv
GetSerialNumber(i, k) ==
    /\ Dispatched(i, Ready) /\ requests[i].kind = k
    /\ \/ /\ Shares(k)
          /\ requests' = [requests EXCEPT ![i].seq = NoNumber]
          /\ UNCHANGED <<radio, seq, expects, wire, asked, answer, outages, stale>>
       \/ /\ ~Shares(k)
          /\ Send(i, [cmd |-> "MISC_ME_SN", seq |-> seq + 1, old |-> FALSE], <<>>)
       \/ ~Shares(k) /\ CompleteNow(i, "GENERIC_FAILURE")
    /\ UNCHANGED refused

GetImei(i) == GetSerialNumber(i, "IMEI")
GetImeisv(i) == GetSerialNumber(i, "IMEISV")

\* The first request of kind k that is handled, if there is one
HandledOf(k) ==
    LET H == {i \in 1 .. Len(requests) :
                requests[i].kind = k /\ Handled(requests[i])}
    IN  IF H = {} THEN None
        ELSE requests[CHOOSE i \in H : \A j \in H : i <= j].token

\* The requests that an answer completes
Found == {HandledOf(k) : k \in Kind} \ {None}

\* ipc_misc_me_sn: both queries are answered, if the number can be read
MeSn(c) ==
    /\ Receive(c, {})
    /\ \E e \in {"SUCCESS", "GENERIC_FAILURE"} :
          /\ requests' = Unregister(Unregister(requests, HandledOf("IMEI")),
                                    HandledOf("IMEISV"))
          /\ answer' = [t \in Token |-> IF t \in Found THEN e ELSE answer[t]]
    /\ UNCHANGED <<expects, refused>>

\* The modem refuses; no generic response is expected.
Refused(c) == GenResponse(c, FALSE) /\ refused' = TRUE

Outage == QueueOutage /\ UNCHANGED refused
RadioChange(s) == RadioState(s) /\ UNCHANGED refused

Next ==
    \/ \E t \in Token, k \in Kind : OnRequest(t, k)
    \/ \E i \in 1 .. Len(requests) : GetImei(i) \/ GetImeisv(i)
    \/ \E c \in wire : MeSn(c) \/ Refused(c)
    \/ Outage
    \/ \E s \in {"off", "sim"} : RadioChange(s)

Spec == Init /\ [][Next]_vars

-----------------------------------------------------------------------------
(* Properties.                                                             *)

TypeOK ==
    /\ requests \in Seq(Request) /\ wire \subseteq Command
    /\ answer \in [Token -> {"none", "SUCCESS", "GENERIC_FAILURE",
                             "RADIO_NOT_AVAILABLE"}]

\* A query that waits, with a number or without, waits for a command that the
\* modem has: the one it relies on was not answered before it was queued.
SerialWaits ==
    (\E i \in 1 .. Len(requests) : Handled(requests[i]))
        => wire # {} \/ refused \/ stale
=============================================================================
