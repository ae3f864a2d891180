--------------------------- MODULE DataConnections ---------------------------
(***************************************************************************)
(* Packet data connections (data.c).                                       *)
(*                                                                         *)
(* A connection is set up in several messages: the context is defined, the *)
(* callback of the generic response activates it, the modem reports an IP  *)
(* configuration and finally a call status, which completes the request.   *)
(* Between the messages the request is only known as the token of the      *)
(* connection, which the next request for that connection overwrites.      *)
(* Two exits release a connection twice, which is not defined: the process *)
(* may end there, where a behaviour of the model stops, or go on with the  *)
(* list as the code leaves it.                                             *)
(***************************************************************************)
EXTENDS QueueView, TLC

CONSTANT CidCount  \* gprs_capabilities.cid_count of the device

ASSUME DataAssumption == CidCount \in Nat \ {0}

VARIABLES
    connections,  \* ril_data->data_connections, in list order
    sets,         \* history: the activations sent since the last outage
    leftOver      \* history: a flush left connections in the list

dataVars == <<connections, sets, leftOver>>
vars == <<queueVars, dataVars>>

Kind == {"SETUP_DATA_CALL", "DEACTIVATE_DATA_CALL", "DATA_CALL_LIST"}
Cid == 1 .. CidCount

\* bad: the data of the request is missing or too short
Request == [token : Token, kind : Kind, cid : Cid, bad : BOOLEAN, seq : Nat]

\* owner is history: the request the connection was started for
Connection == [cid : Cid, token : Token \cup {None}, ip : BOOLEAN,
               enabled : BOOLEAN, owner : Token]

Command == [cmd : {"DEFINE_PDP_CONTEXT", "PDP_CONTEXT", "PDP_CONTEXT_GET"},
            cid : Cid, seq : Nat, old : BOOLEAN]

Com(name, c, s) == [cmd |-> name, cid |-> c, seq |-> s, old |-> FALSE]

\* ril_data_connection_find_cid, _find_token: the positions that match; the
\* code takes the first.  A token that was not found is NULL and matches the
\* connections that wait for nothing.
WithCid(c) == {p \in 1 .. Len(connections) : connections[p].cid = c}
WithToken(t) == {p \in 1 .. Len(connections) : connections[p].token = t}
Least(P) == CHOOSE p \in P : \A q \in P : p <= q

\* Mutant of FreeCids: cids in use are taken too.
FreeCidsAny == Cid

FreeCids == {c \in Cid : WithCid(c) = {}}

\* ril_data_connection_stop, with ril_data_connection_unregister
Stopped(p) == Delete(connections, p)

Init ==
    /\ QueueInit
    /\ connections = <<>> /\ sets = {} /\ leftOver = FALSE

OnRequest(t, k, c, b) ==
    /\ k # "DEACTIVATE_DATA_CALL" => c = 1   \* only this one names a cid
    /\ k = "DATA_CALL_LIST" => ~b
    /\ Issue(t, [token |-> t, kind |-> k, cid |-> c, bad |-> b, seq |-> 0])
    /\ UNCHANGED dataVars

\* The handlers do not return RIL_REQUEST_UNHANDLED.
CanRun(r) ==
    \/ r.bad \/ r.kind = "DATA_CALL_LIST"
    \/ r.kind = "SETUP_DATA_CALL" /\ (radio # "ready" \/ ~Busy(r.kind))
    \/ r.kind = "DEACTIVATE_DATA_CALL" /\ radio = "ready" /\ ~Busy(r.kind)

Ready == {i \in 1 .. Len(requests) : CanRun(requests[i])}

Runs(i, k) == Dispatched(i, Ready) /\ requests[i].kind = k

-----------------------------------------------------------------------------
(* The handlers of the requests.                                           *)

\* The request is answered without a command: malformed data, a radio state
\* that makes the question pointless, no free cid, no connection with that
\* cid, or a failure to send before anything is stored or after which what
\* was stored is taken back.
AnswerNow(i, e) ==
    /\ CompleteNow(i, e)
    /\ UNCHANGED dataVars

SetupDataCallAnswered(i) ==
    /\ Runs(i, "SETUP_DATA_CALL")
    /\ \/ AnswerNow(i, "GENERIC_FAILURE") /\ (requests[i].bad \/ radio = "ready")
       \/ AnswerNow(i, "OP_NOT_ALLOWED_BEFORE_REG_TO_NW")
             /\ ~requests[i].bad /\ radio # "ready"

\* ril_data_connection_start takes the lowest free cid; a set-up replaces the
\* defining of the context by its callback.
SetupDataCall(i) ==
    /\ Runs(i, "SETUP_DATA_CALL") /\ ~requests[i].bad /\ radio = "ready"
    /\ FreeCids # {}
    /\ LET t == requests[i].token
           c == Com("DEFINE_PDP_CONTEXT", Least(FreeCids), seq + 1)
       IN  /\ connections' = Append(connections,
                [cid |-> c.cid, token |-> t, ip |-> FALSE, enabled |-> FALSE,
                 owner |-> t])
           /\ Send(i, c, Expecting(c, "callback"))
    /\ UNCHANGED <<sets, leftOver>>

\* ril_request_deactivate_data_call: the connection's token is overwritten
DeactivateDataCall(i) ==
    /\ Runs(i, "DEACTIVATE_DATA_CALL") /\ ~requests[i].bad
    /\ WithCid(requests[i].cid) # {}
    /\ LET c == Com("PDP_CONTEXT", requests[i].cid, seq + 1)
           p == Least(WithCid(c.cid))
       IN  /\ connections' = [connections EXCEPT ![p].token = requests[i].token]
           /\ sets' = sets \cup {[cid |-> c.cid, seq |-> c.seq]}
           /\ Send(i, c, Expecting(c, "callback"))
    /\ UNCHANGED leftOver

\* ... with malformed data, for a cid without connection, or when the command
\* cannot be sent, which stops the connection
DeactivateDataCallFails(i) ==
    /\ Runs(i, "DEACTIVATE_DATA_CALL")
    /\ CompleteNow(i, "GENERIC_FAILURE")
    /\ LET P == WithCid(requests[i].cid)
       IN  connections' \in
             (IF requests[i].bad \/ radio = "ready" THEN {connections} ELSE {})
             \cup (IF requests[i].bad THEN {} ELSE {Stopped(p) : p \in P})
    /\ UNCHANGED <<sets, leftOver>>

\* ril_request_data_call_list
DataCallList(i) ==
    /\ Runs(i, "DATA_CALL_LIST") /\ radio \in {"sim", "ready"}
    /\ Send(i, Com("PDP_CONTEXT_GET", 1, seq + 1), <<>>)
    /\ UNCHANGED dataVars

DataCallListAnswered(i) ==
    /\ Runs(i, "DATA_CALL_LIST")
    /\ \/ radio = "off" /\ AnswerNow(i, "SUCCESS")
       \/ radio # "off" /\ AnswerNow(i, "GENERIC_FAILURE")

-----------------------------------------------------------------------------
(* The answers and notifications of the modem.                             *)

\* A callback finds no connection for its request.
NoConnection(c) ==
    /\ WithToken(FindToken(c.seq)) = {}
    /\ Receive(c, {}) /\ Unexpect(c, <<>>)
    /\ CompleteToken(FindToken(c.seq), "GENERIC_FAILURE")
    /\ UNCHANGED dataVars

\* The command was refused, or the next one cannot be sent.
CallbackFails(c) ==
    /\ WithToken(FindToken(c.seq)) # {}
    /\ Receive(c, {}) /\ Unexpect(c, <<>>)
    /\ connections' = Stopped(Least(WithToken(FindToken(c.seq))))
    /\ CompleteToken(FindToken(c.seq), "GENERIC_FAILURE")
    /\ UNCHANGED <<sets, leftOver>>

\* ipc_gprs_define_pdp_context_callback when the context is defined: the
\* connection is activated under the number of the set-up
DefinePdpContextCallback(c) ==
    /\ c.cmd = "DEFINE_PDP_CONTEXT" /\ Mode(c) = "callback"
    /\ \/ NoConnection(c)
       \/ CallbackFails(c)
       \/ LET P == WithToken(FindToken(c.seq))
              s == Com("PDP_CONTEXT", connections[Least(P)].cid, c.seq)
          IN  /\ P # {}
              /\ Receive(c, {s}) /\ Unexpect(c, Expecting(s, "callback"))
              /\ sets' = sets \cup {[cid |-> s.cid, seq |-> s.seq]}
              /\ UNCHANGED <<requests, answer, connections, leftOver>>

\* ipc_gprs_pdp_context_callback
PdpContextCallback(c) ==
    /\ c.cmd = "PDP_CONTEXT" /\ Mode(c) = "callback"
    /\ \/ NoConnection(c)
       \/ CallbackFails(c)
       \/ /\ WithToken(FindToken(c.seq)) # {}
          /\ Receive(c, {}) /\ Unexpect(c, <<>>)
          /\ UNCHANGED <<requests, answer, dataVars>>

\* ipc_gprs_pdp_context: the list, for the request or as a notification
PdpContext(c) ==
    /\ c.cmd = "PDP_CONTEXT_GET"
    /\ Receive(c, {}) /\ UNCHANGED expects
    /\ CompleteToken(IF c.seq = 0 THEN None ELSE FindToken(c.seq), "SUCCESS")
    /\ UNCHANGED dataVars

\* A generic response that no callback waits for
Ignored(c) ==
    /\ Mode(c) = "ignore"
    /\ GenResponse(c, FALSE)
    /\ UNCHANGED dataVars

\* A notification of the modem for cid c carries no number, or that of the
\* activation or deactivation it belongs to.
\* It does not report a context that nobody asked it to activate, unless it
\* remembers one from before an outage.
Known(c) == outages > 0 \/ \E x \in sets : x.cid = c
Numbers(c) == {0} \cup {s.seq : s \in {x \in sets : x.cid = c}}

Notified ==
    /\ radio # "out"
    /\ UNCHANGED <<radio, seq, expects, asked, outages, stale>>

\* ipc_gprs_ip_configuration, also when no connection has that cid
IpConfiguration(c, s) ==
    /\ Notified
    /\ IF WithCid(c) = {}
       THEN /\ CompleteToken(IF s = 0 THEN None ELSE FindToken(s),
                             "GENERIC_FAILURE")
            /\ UNCHANGED connections
       ELSE /\ connections' = [connections EXCEPT ![Least(WithCid(c))].ip = TRUE]
            /\ UNCHANGED <<requests, answer>>
    /\ UNCHANGED <<wire, sets, leftOver>>

\* What ipc_gprs_call_status finds: the connection, and the request that its
\* token names, if that is still queued
Requested(p, k) ==
    \E i \in 1 .. Len(requests) :
        requests[i].token = connections[p].token /\ requests[i].kind = k
Orphan(p) == \A i \in 1 .. Len(requests) :
                requests[i].token # connections[p].token

\* A connection without request: the list is asked for.
AskList(C) == wire' = wire \cup C
Listing(p) == IF Orphan(p) THEN {Com("PDP_CONTEXT_GET", 1, 0)} ELSE {}

\* Its error exit: the connection is stopped, the request fails.
CallStatusError(p) ==
    /\ connections' = Stopped(p)
    /\ CompleteToken(IF Orphan(p) THEN None ELSE connections[p].token,
                     "GENERIC_FAILURE")
    /\ UNCHANGED <<wire, leftOver>>

\* Mutant of CallStatusEnabled: the token outlives the request.
CallStatusEnabledKeeps(p) ==
    LET r == connections[p]
    IN  \/ /\ r.enabled /\ Requested(p, "DEACTIVATE_DATA_CALL")
           /\ CallStatusError(p)
        \/ /\ r.enabled /\ ~Requested(p, "DEACTIVATE_DATA_CALL")
           /\ AskList(Listing(p))
           /\ UNCHANGED <<requests, answer, connections, leftOver>>
        \/ ~r.enabled /\ CallStatusError(p)
        \/ /\ ~r.enabled /\ r.ip
           /\ connections' = [connections EXCEPT ![p].enabled = TRUE]
           /\ IF Requested(p, "SETUP_DATA_CALL")
              THEN CompleteToken(r.token, "SUCCESS")
              ELSE UNCHANGED <<requests, answer>>
           /\ AskList(Listing(p))
           /\ UNCHANGED leftOver

\* Mutant of CallStatusEnabled: the IP configuration is not checked.
CallStatusEnabledNoIp(p) ==
    LET r == connections[p]
    IN  \/ /\ r.enabled /\ Requested(p, "DEACTIVATE_DATA_CALL")
           /\ CallStatusError(p)
        \/ /\ r.enabled /\ ~Requested(p, "DEACTIVATE_DATA_CALL")
           /\ AskList(Listing(p))
           /\ UNCHANGED <<requests, answer, connections, leftOver>>
        \/ ~r.enabled /\ CallStatusError(p)
        \/ /\ ~r.enabled
           /\ connections' = [connections EXCEPT ![p].enabled = TRUE,
                 ![p].token = IF Requested(p, "SETUP_DATA_CALL") THEN None
                              ELSE @]
           /\ IF Requested(p, "SETUP_DATA_CALL")
              THEN CompleteToken(r.token, "SUCCESS")
              ELSE UNCHANGED <<requests, answer>>
           /\ AskList(Listing(p))
           /\ UNCHANGED leftOver

\* ... status ENABLED: ril_data_connection_enable needs an IP configuration,
\* the interface and the device and may fail; a set-up succeeds.
CallStatusEnabled(p) ==
    LET r == connections[p]
    IN  \/ /\ r.enabled /\ Requested(p, "DEACTIVATE_DATA_CALL")
           /\ CallStatusError(p)
        \/ /\ r.enabled /\ ~Requested(p, "DEACTIVATE_DATA_CALL")
           /\ AskList(Listing(p))
           /\ UNCHANGED <<requests, answer, connections, leftOver>>
        \/ ~r.enabled /\ CallStatusError(p)
        \/ /\ ~r.enabled /\ r.ip
           /\ connections' = [connections EXCEPT ![p].enabled = TRUE,
                 ![p].token = IF Requested(p, "SETUP_DATA_CALL") THEN None
                              ELSE @]
           /\ IF Requested(p, "SETUP_DATA_CALL")
              THEN CompleteToken(r.token, "SUCCESS")
              ELSE UNCHANGED <<requests, answer>>
           /\ AskList(Listing(p))
           /\ UNCHANGED leftOver

\* Mutant of CallStatusDisabled: the request succeeds, the connection stays.
CallStatusDisabledKeeps(p) ==
    LET r == connections[p]
    IN  /\ r.enabled
        /\ UNCHANGED connections
        /\ IF Requested(p, "DEACTIVATE_DATA_CALL")
           THEN CompleteToken(r.token, "SUCCESS")
           ELSE UNCHANGED <<requests, answer>>
        /\ AskList(Listing(p))
        /\ UNCHANGED leftOver

\* ... status DISABLED or NOT_ENABLED: an enabled connection is disabled and
\* stopped and its deactivation succeeds; when then asking for the list fails,
\* the connection is stopped again.  A set-up is answered as failed, with
\* RIL_E_SUCCESS and a status; a deactivation is not answered.
CallStatusDisabled(p) ==
    LET r == connections[p]
    IN  \/ r.enabled /\ CallStatusError(p)
        \/ /\ r.enabled
           /\ connections' = Stopped(p)
           /\ IF Requested(p, "DEACTIVATE_DATA_CALL")
              THEN CompleteToken(r.token, "SUCCESS")
              ELSE UNCHANGED <<requests, answer>>
           /\ \/ AskList(Listing(p)) /\ UNCHANGED leftOver
              \/ Orphan(p) /\ UNCHANGED <<wire, leftOver>>
        \/ /\ ~r.enabled /\ Requested(p, "SETUP_DATA_CALL")
           /\ connections' = Stopped(p)
           /\ CompleteToken(r.token, "SETUP_FAILED")
           /\ UNCHANGED <<wire, leftOver>>
        \/ /\ ~r.enabled /\ ~Requested(p, "SETUP_DATA_CALL")
           /\ \/ AskList(Listing(p)) /\ UNCHANGED connections
              \/ Orphan(p) /\ connections' = Stopped(p) /\ UNCHANGED wire
           /\ UNCHANGED <<requests, answer, leftOver>>

\* ipc_gprs_call_status for cid c with number s
CallStatus(c, s) ==
    /\ Notified
    /\ radio = "ready"
    /\ \/ /\ WithCid(c) = {}
          /\ CompleteToken(IF s = 0 THEN None ELSE FindToken(s),
                           "GENERIC_FAILURE")
          /\ UNCHANGED <<wire, connections, leftOver>>
       \/ /\ WithCid(c) # {}
          /\ \/ CallStatusEnabled(Least(WithCid(c)))
             \/ CallStatusDisabled(Least(WithCid(c)))
    /\ UNCHANGED sets

-----------------------------------------------------------------------------
\* ril_data_connection_flush: the first connection is stopped, which takes its
\* node from the list, clears and releases it.  The flush then clears and
\* releases the connection again and reads the next node from the released one:
\* if the process lives on and finds it as it was cleared, there is none, and
\* the other connections stay.
Flush ==
    /\ connections' = IF connections = <<>> THEN connections ELSE Stopped(1)
    /\ leftOver' = (leftOver \/ Len(connections) > 1)

Outage == QueueOutage /\ Flush /\ sets' = {}

\* ril_radio_state_update: OFF flushes the connections as well
RadioChange ==
    \E s \in RadioStates :
        /\ RadioState(s)
        /\ IF s = "off" THEN Flush ELSE UNCHANGED <<connections, leftOver>>
        /\ UNCHANGED sets

Next ==
    \/ \E t \in Token, k \in Kind, c \in Cid, b \in BOOLEAN :
          OnRequest(t, k, c, b)
    \/ \E i \in 1 .. Len(requests) :
          \/ SetupDataCall(i) \/ SetupDataCallAnswered(i)
          \/ DeactivateDataCall(i) \/ DeactivateDataCallFails(i)
          \/ DataCallList(i) \/ DataCallListAnswered(i)
    \/ \E c \in wire :
          \/ DefinePdpContextCallback(c) \/ PdpContextCallback(c)
          \/ PdpContext(c) \/ Ignored(c)
    \/ \E c \in {x \in Cid : Known(x)} : \E s \in Numbers(c) :
          IpConfiguration(c, s) \/ CallStatus(c, s)
    \/ Outage \/ RadioChange

Spec == Init /\ [][Next]_vars
-----------------------------------------------------------------------------
(* Properties.                                                             *)

\* The types of the state; a cid has at most one connection.
TypeOK ==
    /\ radio \in RadioStates
    /\ requests \in Seq(Request)
    /\ seq \in Nat
    /\ expects \in Seq([seq : Nat, mode : {"callback"},
                        cmd : {"DEFINE_PDP_CONTEXT", "PDP_CONTEXT"}])
    /\ wire \in SUBSET Command
    /\ asked \in [Token -> Kind \cup {"none"}]
    /\ answer \in [Token -> {"none", "SUCCESS", "GENERIC_FAILURE",
          "SETUP_FAILED", "OP_NOT_ALLOWED_BEFORE_REG_TO_NW",
          "RADIO_NOT_AVAILABLE"}]
    /\ outages \in Nat /\ stale \in BOOLEAN
    /\ connections \in Seq(Connection)
    /\ \A p, q \in 1 .. Len(connections) :
          connections[p].cid = connections[q].cid => p = q
    /\ sets \in SUBSET [cid : Cid, seq : Nat]
    /\ leftOver \in BOOLEAN

\* A connection's token is NULL or names a request that is still queued and
\* was dispatched: ipc_gprs_call_status, which completes the request that the
\* token names, never completes one that was answered before and whose token
\* libril may have given to another request.  The exception is a connection
\* that the flush of an outage left in the list: its request was answered by
\* the outage.  (An answer from before an outage carries the number of another
\* request.)
TokenQueued ==
    ~stale => \A p \in 1 .. Len(connections) :
        LET t == connections[p].token
        IN  t # None =>
              \/ \E i \in 1 .. Len(requests) :
                    requests[i].token = t /\ Handled(requests[i])
              \/ leftOver /\ answer[t] = "RADIO_NOT_AVAILABLE"

\* A set-up that succeeds does so for the connection that was started for it,
\* which is up with an address then, although the connection forgets its
\* set-up when it is to be deactivated and cids are used again.
SetupOwnConnection ==
    [][\A t \in Token :
         (~stale' /\ asked[t] = "SETUP_DATA_CALL" /\ answer[t] # answer'[t]
            /\ answer'[t] = "SUCCESS") =>
            \E p \in 1 .. Len(connections') :
               /\ connections'[p].owner = t
               /\ connections'[p].enabled /\ connections'[p].ip]_vars

\* "Deactivate packet data connection and remove from the data call list if
\* SUCCESS is returned" (ril.h): with the answer to DEACTIVATE_DATA_CALL the
\* connection that was up when the request was dispatched is gone.
DeactivatedRemoved ==
    [][\A t \in Token :
         (~stale' /\ asked[t] = "DEACTIVATE_DATA_CALL" /\ answer[t] # answer'[t]
            /\ answer'[t] = "SUCCESS") =>
            /\ Len(connections') < Len(connections)
            /\ \A p \in 1 .. Len(connections') : connections'[p].token # t]_vars

\* "In any event a RIL_REQUEST_RADIO_POWER off/on must clear the list"
\* (ril.h, RIL_REQUEST_DEACTIVATE_DATA_CALL): when the radio is off there is no
\* connection.  It fails with two connections, of which ril_data_connection_
\* flush stops one.
OffClears == radio = "off" => connections = <<>>

-----------------------------------------------------------------------------
\* For TLC: tokens are opaque pointers, nothing depends on their names.
TokenSymmetry == Permutations(Token)
=============================================================================
