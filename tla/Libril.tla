-------------------------------- MODULE Libril --------------------------------
(***************************************************************************)
(* libril (ril/libril/ril.cpp): the daemon's side of the command sockets.  *)
(*                                                                         *)
(* The dispatch thread runs the event loop: it accepts the phone process   *)
(* on a listening socket, reads its requests, keeps each in the list of    *)
(* pending requests and passes it to the RIL, and cleans up when the       *)
(* socket ends.  The RIL completes requests and reports the network time   *)
(* (NITZ) on threads of its own.  The phone process may close its          *)
(* connection at any time and connect again.  The steps of a thread are    *)
(* delimited by the mutexes and by the reads of fdCommand, which none      *)
(* protects.  The number of a descriptor that was closed is the one the    *)
(* next connection gets, so a thread that read the number before writes    *)
(* to whichever connection has it then.                                    *)
(***************************************************************************)
EXTENDS Integers, Sequences, FiniteSets, Scenario

\* The instances.
\* 1 .. SIM_COUNT: one (the default of ril.h), or two
Socket == InRun([safety |-> {1}, further |-> {1, 2}])
\* the requests the phone process issues (none where two sockets are listened on)
Request == InRun([safety |-> {"r1", "r2"}, further |-> {}])
\* the threads of the RIL that complete requests
Thread == InRun([safety |-> {"h1", "h2"}, further |-> {}, progress |-> {"h1"}])
\* bound: connections to each socket
MaxSessions == 2
MaxNitz == InRun([safety |-> 1, further |-> 0, progress |-> 0])  \* bound: network times

VARIABLES
    peer,       \* the connection that the phone process has open, 0 if none
    count,      \* connections made so far
    listening,  \* how often the listen event is in the watch table
    fd,         \* fdCommand: the connection it denotes, 0 if it is -1
    watched,    \* how often commands_event is in the watch table
    bad,        \* the watched descriptor was closed behind the event loop
    disp,       \* the dispatch thread, and the socket it is about
    inbox,      \* the requests in the socket
    pending,    \* s_pendingRequests
    cancelled,  \* the requests with cancelled set
    held,       \* the requests passed to the RIL and not completed
    thread,     \* what each thread of the RIL is doing
    clock,      \* the thread that reports network times
    nitz,       \* s_lastNITZTimeData, 0 if none
    issuer,     \* history: socket and connection of each request
    answers,    \* history: request and connection of each answer
    missed,     \* history: requests a thread was answering when their connection was over
    dead        \* the daemon killed itself, to be restarted by init

vars == <<peer, count, listening, fd, watched, bad, disp, inbox, pending,
          cancelled, held, thread, clock, nitz, issuer, answers, missed, dead>>

clientVars == <<peer, count, issuer>>
requestVars == <<inbox, pending, cancelled, held, missed>>
connVars == <<listening, fd, watched, bad>>
rilVars == <<thread, clock, nitz, answers>>

Idle == [at |-> "idle", req |-> None]

\* startListen: its event is added once, for one connection at a time.
StartListen == [s \in Socket |-> 1]

\* RIL_register
Init ==
    /\ peer = [s \in Socket |-> 0] /\ count = [s \in Socket |-> 0]
    /\ listening = StartListen
    /\ fd = [s \in Socket |-> 0]
    /\ watched = [s \in Socket |-> 0] /\ bad = [s \in Socket |-> FALSE]
    /\ disp = [at |-> "select", sock |-> 1]
    /\ inbox = [s \in Socket |-> <<>>]
    /\ pending = {} /\ cancelled = {} /\ held = {}
    /\ thread = [h \in Thread |-> Idle]
    /\ clock = [at |-> "idle", time |-> 0] /\ nitz = 0
    /\ issuer = [r \in Request |-> <<0, 0>>]
    /\ answers = {} /\ missed = {}
    /\ dead = FALSE

-----------------------------------------------------------------------------
(* The phone process.                                                      *)

\* Also before the daemon has found the former connection ended: the process
\* waits until it is accepted.
Connect(s) ==
    /\ ~dead /\ peer[s] = 0 /\ count[s] < MaxSessions
    /\ count' = [count EXCEPT ![s] = @ + 1]
    /\ peer' = [peer EXCEPT ![s] = count'[s]]
    /\ UNCHANGED <<issuer, requestVars, connVars, rilVars, disp, dead>>

Hangup(s) ==
    /\ ~dead /\ peer[s] # 0 /\ fd[s] = peer[s]
    /\ peer' = [peer EXCEPT ![s] = 0]
    /\ UNCHANGED <<count, issuer, requestVars, connVars, rilVars, disp, dead>>

\* RILSender writes a request
Write(s, r) ==
    /\ ~dead /\ peer[s] # 0 /\ issuer[r] = <<0, 0>>
    /\ issuer' = [issuer EXCEPT ![r] = <<s, peer[s]>>]
    /\ inbox' = [inbox EXCEPT ![s] = Append(@, r)]
    /\ UNCHANGED <<peer, count, pending, cancelled, held, missed, connVars,
                   rilVars, disp, dead>>

-----------------------------------------------------------------------------
(* The dispatch thread.                                                    *)

Selecting == ~dead /\ disp.at = "select"

\* The requests of socket s among those pending
Of(s) == {r \in pending : issuer[r][1] = s}

\* onCommandsSocketClosed: "mark pending requests as cancelled"
Cancelled(s) == cancelled \cup Of(s)

\* An event that is in the watch table twice is put into the list of what is
\* to be fired twice, which leaves the list without an end: the daemon crashes.
Fires(times) == dead' = (times > 1)

\* listenCallback: the peer is the phone process.  The listen event is not
\* persistent.  With more than one socket the event of the first may be there
\* while it has a connection, whose descriptor is overwritten and whose
\* commands_event is added once more.
ListenCallback(s) ==
    /\ Selecting /\ listening[s] > 0 /\ peer[s] # 0 /\ fd[s] # peer[s]
    /\ listening' = [listening EXCEPT ![s] = 0]
    /\ fd' = [fd EXCEPT ![s] = peer[s]]
    /\ watched' = [watched EXCEPT ![s] = @ + 1]
    /\ disp' = [at |-> "connect", sock |-> s]
    /\ Fires(listening[s])
    /\ UNCHANGED <<clientVars, requestVars, bad, rilVars>>

\* listenCallback: accept fails, or the peer is another process
ListenRefused(s) ==
    /\ Selecting /\ listening[s] > 0
    /\ cancelled' \in {cancelled, Cancelled(s)}
    /\ Fires(listening[s])
    /\ UNCHANGED <<clientVars, inbox, pending, held, missed, connVars, rilVars,
                   disp>>

\* onNewCommandConnect: the network time that was missed
OnNewCommandConnect ==
    /\ ~dead /\ disp.at = "connect"
    /\ nitz' = 0
    /\ disp' = [disp EXCEPT !.at = "select"]
    /\ UNCHANGED <<clientVars, requestVars, connVars, thread, clock, answers,
                   dead>>

\* The requests written to the connection that fdCommand denotes.
ToRead(s) == {n \in 1 .. Len(inbox[s]) : issuer[inbox[s][n]][2] = fd[s]}

\* Mutant of ProcessCommandBuffer: the request is not kept.
ProcessCommandBufferForgets(s) ==
    /\ Selecting /\ watched[s] > 0 /\ ~bad[s] /\ ToRead(s) # {}
    /\ inbox' = [inbox EXCEPT ![s] = Tail(@)]
    /\ held' = held \cup {Head(inbox[s])}
    /\ UNCHANGED <<clientVars, pending, cancelled, missed, connVars, rilVars, disp, dead>>

\* processCommandBuffer and the dispatch function: a request code that is not
\* supported is dropped, a request block that is invalid stays pending.
ProcessCommandBuffer(s) ==
    /\ Selecting /\ watched[s] > 0 /\ ~bad[s] /\ ToRead(s) # {}
    /\ inbox' = [inbox EXCEPT ![s] = Tail(@)]
    /\ \/ UNCHANGED <<pending, held>>
       \/ /\ pending' = pending \cup {Head(inbox[s])}
          /\ held' \in {held, held \cup {Head(inbox[s])}}
    /\ Fires(watched[s])
    /\ UNCHANGED <<clientVars, cancelled, missed, connVars, rilVars, disp>>

\* Mutant of Relisten: the event is not added.
RelistenNot(s) == listening

\* The event that processCommandsCallback adds is s_listen_event, whichever
\* the socket.
Relisten(s) == [listening EXCEPT ![1] = @ + 1]

\* processCommandsCallback at the end of the stream, or at an error: also of
\* a descriptor that was closed after select had returned it
CommandsClosed(s) ==
    /\ Selecting /\ watched[s] > 0
    /\ bad[s] \/ (peer[s] # fd[s] /\ ToRead(s) = {})
    /\ fd' = [fd EXCEPT ![s] = 0]
    /\ watched' = [watched EXCEPT ![s] = @ - 1]
    /\ bad' = [bad EXCEPT ![s] = FALSE]
    /\ inbox' = [inbox EXCEPT ![s] =
                    SelectSeq(@, LAMBDA r : issuer[r][2] = peer[s])]
    /\ listening' = Relisten(s)
    /\ disp' = [at |-> "close", sock |-> s]
    /\ Fires(watched[s])
    /\ UNCHANGED <<clientVars, pending, cancelled, held, missed, rilVars>>

\* The requests that threads of the RIL are answering: no longer in the list.
Answering == {thread[h].req : h \in Thread} \ {None}

OnCommandsSocketClosed ==
    /\ ~dead /\ disp.at = "close"
    /\ cancelled' = Cancelled(disp.sock)
    /\ missed' = missed \cup {r \in Answering : issuer[r][1] = disp.sock}
    /\ disp' = [disp EXCEPT !.at = "select"]
    /\ UNCHANGED <<clientVars, inbox, pending, held, connVars, rilVars, dead>>

\* debugCallback, radio power off: the command socket is closed.  The request
\* it issues has no answer.
DebugPowerOff(s) ==
    /\ Selecting /\ fd[s] # 0
    /\ fd' = [fd EXCEPT ![s] = 0]
    /\ bad' = [bad EXCEPT ![s] = TRUE]
    /\ peer' = [peer EXCEPT ![s] = IF @ = fd[s] THEN 0 ELSE @]
    /\ UNCHANGED <<count, issuer, requestVars, listening, watched, rilVars,
                   disp, dead>>

\* select fails on a descriptor that was closed: ril_event_loop returns and
\* eventLoop kills the daemon.
EventLoopEnds ==
    /\ Selecting /\ \E s \in Socket : bad[s]
    /\ dead' = TRUE
    /\ UNCHANGED <<clientVars, requestVars, connVars, rilVars, disp>>

-----------------------------------------------------------------------------
(* The threads of the RIL.                                                 *)

Start(h, r) == thread' = [thread EXCEPT ![h] = [at |-> "dequeued", req |-> r]]

\* RIL_onRequestComplete, checkAndDequeueRequestInfo: the RIL may complete a
\* token again, which is no longer in the list then.
Dequeue(h, r) ==
    /\ ~dead /\ thread[h].at = "idle" /\ r \in pending /\ r \in held
    /\ Start(h, r)
    /\ pending' = pending \ {r}
    /\ held' = held \ {r}
    /\ UNCHANGED <<clientVars, inbox, cancelled, missed, connVars, clock, nitz,
                   answers, disp, dead>>

\* It is dropped if it was cancelled or if fdCommand is -1 in sendResponseRaw.
Drop(h) ==
    /\ ~dead /\ thread[h].at = "dequeued"
    /\ thread[h].req \in cancelled \/ fd[issuer[thread[h].req][1]] = 0
    /\ thread' = [thread EXCEPT ![h] = Idle]
    /\ UNCHANGED <<clientVars, requestVars, connVars, clock, nitz, answers,
                   disp, dead>>

Respond(h) ==
    /\ ~dead /\ thread[h].at = "dequeued"
    /\ thread[h].req \notin cancelled /\ fd[issuer[thread[h].req][1]] # 0
    /\ thread' = [thread EXCEPT ![h].at = "send"]
    /\ UNCHANGED <<clientVars, requestVars, connVars, clock, nitz, answers,
                   disp, dead>>

\* blockingWrite of what a thread sends to socket s: it fails on a descriptor
\* that is closed, and closes one whose peer has gone; or SIGPIPE ends the
\* daemon, if the RIL has not had it ignored.
Writable(s) == fd[s] # 0 /\ ~bad[s] /\ peer[s] = fd[s]

WriteFails(s) ==
    /\ ~Writable(s)
    /\ \/ /\ bad' = [bad EXCEPT ![s] = @ \/ fd[s] # 0]
          /\ dead' = FALSE
       \/ fd[s] # 0 /\ ~bad[s] /\ dead' = TRUE /\ UNCHANGED bad
    /\ UNCHANGED <<listening, fd, watched>>

SendResponse(h) ==
    LET r == thread[h].req
        s == issuer[r][1]
    IN  /\ ~dead /\ thread[h].at = "send"
        /\ thread' = [thread EXCEPT ![h] = Idle]
        /\ \/ /\ Writable(s)
              /\ answers' = answers \cup {[req |-> r, to |-> <<s, fd[s]>>]}
              /\ UNCHANGED <<connVars, dead>>
           \/ WriteFails(s) /\ UNCHANGED answers
        /\ UNCHANGED <<clientVars, requestVars, clock, nitz, disp>>

-----------------------------------------------------------------------------
(* RIL_onUnsolicitedResponse with a network time, on socket 1.             *)

Quiet == clock.at = "idle"

Nitz ==
    /\ ~dead /\ Quiet /\ clock.time < MaxNitz
    /\ clock' = [at |-> IF fd[1] = 0 THEN "fail" ELSE "send",
                 time |-> clock.time + 1]
    /\ UNCHANGED <<clientVars, requestVars, connVars, thread, nitz, answers,
                   disp, dead>>

NitzSend ==
    /\ ~dead /\ clock.at = "send"
    /\ \/ /\ Writable(1)
          /\ clock' = [clock EXCEPT !.at = "idle"]
          /\ UNCHANGED <<connVars, dead>>
       \/ WriteFails(1) /\ clock' = [clock EXCEPT !.at = "fail"]
    /\ UNCHANGED <<clientVars, requestVars, thread, nitz, answers, disp>>

\* "keep a copy of the last NITZ response"
NitzKeep ==
    /\ ~dead /\ clock.at = "fail"
    /\ nitz' = clock.time
    /\ clock' = [clock EXCEPT !.at = "idle"]
    /\ UNCHANGED <<clientVars, requestVars, connVars, thread, answers, disp,
                   dead>>

-----------------------------------------------------------------------------
Client(s) == Connect(s) \/ Hangup(s) \/ \E r \in Request : Write(s, r)

Dispatch ==
    \/ \E s \in Socket :
          \/ ListenCallback(s) \/ ProcessCommandBuffer(s) \/ CommandsClosed(s)
    \/ OnNewCommandConnect \/ OnCommandsSocketClosed
    \/ EventLoopEnds

Ril(h) == (\E r \in Request : Dequeue(h, r)) \/ Drop(h) \/ Respond(h)
          \/ SendResponse(h)

Next ==
    \/ \E s \in Socket : Client(s) \/ DebugPowerOff(s) \/ ListenRefused(s)
    \/ Dispatch
    \/ \E h \in Thread : Ril(h)
    \/ Nitz \/ NitzSend \/ NitzKeep

Spec == Init /\ [][Next]_vars

-----------------------------------------------------------------------------
(* Properties.                                                             *)

TypeOK ==
    /\ peer \in [Socket -> 0 .. MaxSessions] /\ fd \in [Socket -> 0 .. MaxSessions]
    /\ pending \subseteq Request /\ cancelled \subseteq Request
    /\ held \subseteq pending /\ missed \subseteq Request
    /\ nitz \in 0 .. MaxNitz
    /\ \A h \in Thread : thread[h].at \in {"idle", "dequeued", "send"}

\* A request that was still pending when its connection ended is not answered,
\* whatever the connections made since: of those that are not cancelled, every
\* one belongs to the connection that is open.
PendingIsCurrent ==
    \A r \in pending \ cancelled :
        LET s == issuer[r][1]
        IN  \/ fd[s] = issuer[r][2]
            \/ disp = [at |-> "close", sock |-> s]
            \/ bad[s]

\* An answer is sent once, also when two threads complete the request.
AnsweredOnce ==
    \A h \in Thread : thread[h].req # None =>
        /\ \A a \in answers : a.req # thread[h].req
        /\ \A i \in Thread \ {h} : thread[i].req # thread[h].req

\* An answer goes to the connection its request came from, unless a thread was
\* on its way with it when that connection was over: what has left the list is
\* not marked, and fdCommand is read anew for every answer.
AnswersToIssuer == \A a \in answers : a.to = issuer[a.req] \/ a.req \in missed

\* The request is answered, or the connection it came from has ended.
Over(r) ==
    \/ \E a \in answers : a.req = r
    \/ \E t \in Socket : issuer[r] = <<t, issuer[r][2]>> /\ peer[t] # issuer[r][2]

\* The phone process can reach the daemon: a socket without a connection is
\* listened on, until the event loop finds a descriptor closed and the daemon
\* restarts.  A socket other than the first is listened on only for its first
\* connection: when that ends, the event of the first socket is added again.
Reachable ==
    \A s \in Socket : \/ fd[s] # 0 \/ listening[s] > 0 \/ bad[s] \/ dead
                       \/ (s # 1 /\ count[s] > 0)
=============================================================================
