--------------------------------- MODULE Srs ---------------------------------
(***************************************************************************)
(* The SRS socket of Samsung-RIL (srs.c, client.c, srs-client.c): a thread  *)
(* that accepts connections, the client thread that reads commands from all *)
(* of them, the list of clients they share, and the programs on the other  *)
(* side.                                                                   *)
(*                                                                         *)
(* After a failure the client thread closes and opens the server.  That     *)
(* starts a new accepting thread without waiting for the old one, because   *)
(* a detached thread cannot be joined.  A step ends where RIL_CLIENT_LOCK   *)
(* is released or a descriptor is polled, read or closed without it.       *)
(***************************************************************************)
EXTENDS Integers, Sequences, FiniteSets, SequencesExt, Scenario

\* The instances.
\* the programs that connect, each of them once
Peers == InRun([safety |-> {"p1", "p2"}, progress |-> {"p1"}])
\* the commands each of them writes
Script ==
    InRun([
     safety |-> [p \in Peers |-> IF p = "p1" THEN <<"ping", "set">> ELSE << >>],
     progress |-> [p \in Peers |-> <<"set", "short">>]])
RetryCount == 2  \* RIL_CLIENT_RETRY_COUNT
NoPeer == None  \* a NULL client

Servers == 1 .. RetryCount     \* accepting threads, one for each srs_open
Loop == 0                      \* the client thread
Actors == {Loop} \cup Servers

\* Values written to the event descriptors (srs.h); 0 is nothing to read.
SRS_SERVER_CLOSE == 1
SRS_CLIENT_CHANGE == 2
SRS_CLIENT_IO_ERROR == 3

VARIABLES
    pc,        \* where each thread is
    cur,       \* the client each thread points to
    failures,  \* failed rounds of each thread
    ends,      \* the closing of the server under way is a thread's last step
    sfd,       \* server_fd: 0 for none, or the number of times it was opened
    watch,     \* the server descriptor each accepting thread polls
    event, sevent,  \* event_fd and server_event_fd
    clients,   \* the list of registered clients
    fds, ready,     \* descriptors the client thread polls, and found readable
    msg,       \* the command being dispatched
    backlog,   \* connections that are not accepted
    open,      \* peers whose connection the server has accepted and not closed
    peer,      \* each program is "idle", "up" or "down"
    sent,      \* how many commands each program has written
    stream,    \* what was written and not read
    applied,   \* the commands carried out, in order, each as <<peer, number>>
    pongs      \* programs a ping was answered to

srv == <<sfd, watch, sevent, backlog>>
prog == <<peer, sent>>
work == <<event, fds, ready, msg, applied, pongs>>
vars == <<pc, cur, failures, ends, clients, open, stream, srv, prog, work>>

Init ==
    /\ pc = [a \in Actors |-> CASE a = Loop -> "setup" [] a = 1 -> "enter"
                                [] OTHER -> "none"]
    /\ cur = [a \in Actors |-> NoPeer]
    /\ failures = [a \in Actors |-> 0]
    /\ ends = [a \in Actors |-> FALSE]
    /\ sfd = 1 /\ watch = [t \in Servers |-> 0]
    /\ event = 0 /\ sevent = 0
    /\ clients = <<>> /\ fds = {} /\ ready = {} /\ msg = <<>>
    /\ backlog = <<>> /\ open = {}
    /\ peer = [p \in Peers |-> "idle"]
    /\ sent = [p \in Peers |-> 0]
    /\ stream = [p \in Peers |-> <<>>]
    /\ applied = <<>> /\ pongs = {}

Registered == ToSet(clients)
Goto(a, l) == pc' = [pc EXCEPT ![a] = l]
Point(a, p) == cur' = [cur EXCEPT ![a] = p]

\* What a freed client is used for goes wrong, or hits another descriptor.
Freed(a) == cur[a] \notin Registered
UseFreed(a) == Freed(a) /\ Goto(Loop, "crashed")

-----------------------------------------------------------------------------
(* srs_server_close, by the client thread or by an accepting one.           *)

\* srs_client_find.
Find(a) ==
    /\ pc[a] = "find"
    /\ IF clients = <<>> THEN Goto(a, "signal") /\ Point(a, NoPeer)
       ELSE Goto(a, "shut") /\ Point(a, Head(clients))
    /\ UNCHANGED <<failures, ends, clients, open, stream, srv, prog, work>>

\* close(client->fd), also of a client that was not read from successfully.
Shut(a) ==
    /\ pc[a] \in {"shut", "drop"}
    /\ \/ UseFreed(a) /\ UNCHANGED <<open, stream>>
       \/ /\ Goto(a, IF pc[a] = "shut" THEN "unregister" ELSE "dropped")
          /\ open' = IF Freed(a) THEN open ELSE open \ {cur[a]}
          /\ stream' = IF Freed(a) THEN stream
                       ELSE [stream EXCEPT ![cur[a]] = <<>>]
    /\ UNCHANGED <<cur, failures, ends, clients, srv, prog, work>>

\* srs_client_unregister: a client that is not listed any more is left alone.
Unregister(a) ==
    /\ pc[a] \in {"unregister", "dropped"}
    /\ clients' = SelectSeq(clients, LAMBDA p : p # cur[a])
    /\ Goto(a, IF pc[a] = "unregister" THEN "find" ELSE "serve")
    /\ UNCHANGED <<cur, failures, ends, open, stream, srv, prog, work>>

\* The end of srs_server_close, under the lock, and what follows it: an
\* accepting thread ends or opens the server again; the client thread flushes
\* the clients, does not wait for the accepting thread, and opens.
Signal(a) ==
    /\ pc[a] = "signal"
    /\ sevent' = SRS_SERVER_CLOSE
    /\ sfd' = 0
    /\ stream' = [p \in Peers |->
          IF sfd # 0 /\ p \in ToSet(backlog) THEN <<>> ELSE stream[p]]
    /\ backlog' = IF sfd # 0 THEN <<>> ELSE backlog
    /\ clients' = IF a = Loop THEN <<>> ELSE clients
    /\ Goto(a, IF ends[a] THEN "done" ELSE "open")
    /\ UNCHANGED <<cur, failures, ends, open, watch, prog, work>>

\* A round of a thread fails: it closes the server, to open it again or as
\* its last step.  What srs_close writes to event_fd, srs_open clears.
Fail(a) ==
    /\ failures' = [failures EXCEPT ![a] = @ + 1]
    /\ ends' = [ends EXCEPT ![a] = failures[a] + 1 >= RetryCount]
    /\ Goto(a, "find")

\* srs_server_open, and for srs_open the new thread and the flush of event_fd.
Open(a) ==
    /\ pc[a] = "open"
    /\ sfd = 0
    /\ sfd' = Max({0} \cup {watch[t] : t \in Servers}) + 1
    /\ sevent' = 0
    /\ IF a = Loop
       THEN LET t == Min({s \in Servers : pc[s] = "none"})
            IN  pc' = [pc EXCEPT ![Loop] = "setup", ![t] = "enter"]
       ELSE Goto(a, "enter")
    /\ event' = IF a = Loop THEN 0 ELSE event
    /\ UNCHANGED <<cur, failures, ends, clients, open, stream, watch, backlog,
                   prog, fds, ready, msg, applied, pongs>>

\* The address is in use: by the socket another thread has opened, or by one
\* that is closed and still polled.
OpenFails(a) ==
    /\ pc[a] = "open"
    /\ sfd # 0 \/ \E t \in Servers : pc[t] = "select"
    /\ Fail(a)
    /\ UNCHANGED <<cur, clients, open, stream, srv, prog, work>>

-----------------------------------------------------------------------------
(* srs_server_loop, an accepting thread.                                   *)

\* It polls server_event_fd and the server descriptor, if there is one.
Enter(t) ==
    /\ pc[t] = "enter"
    /\ watch' = [watch EXCEPT ![t] = sfd]
    /\ Goto(t, "select")
    /\ UNCHANGED <<cur, failures, ends, clients, open, stream, prog, work,
                   sfd, sevent, backlog>>

Knock(t) == watch[t] = sfd /\ backlog # <<>>

\* select returns; an event is read before a connection is accepted.
Select(t) ==
    /\ pc[t] = "select"
    /\ \/ sevent # 0 /\ Goto(t, IF Knock(t) THEN "eventAccept" ELSE "event")
       \/ sevent = 0 /\ Knock(t) /\ Goto(t, "accept")
    /\ UNCHANGED <<cur, failures, ends, clients, open, stream, srv, prog, work>>

\* Another thread cleared the event, or is about to write it once more: the
\* read fails.
SelectedNothing(t) ==
    /\ pc[t] \in {"event", "eventAccept"}
    /\ sevent = 0 \/ \E a \in Actors : pc[a] = "signal"
    /\ Fail(t)
    /\ UNCHANGED <<cur, clients, open, stream, srv, prog, work>>

\* SRS_SERVER_CLOSE: the thread ends, closing the server that is open now.
ServerEvent(t) ==
    /\ pc[t] \in {"event", "eventAccept"} /\ sevent # 0
    /\ sevent' = 0
    /\ ends' = [ends EXCEPT ![t] = TRUE]
    /\ Goto(t, "find")
    /\ UNCHANGED <<cur, failures, clients, open, stream, sfd, watch, backlog,
                   prog, work>>

\* accept fails when another thread has closed the socket or was faster.
Accept(t) ==
    /\ pc[t] = "accept"
    /\ IF sfd # 0 /\ backlog # <<>>
       THEN /\ Point(t, Head(backlog))
            /\ backlog' = Tail(backlog)
            /\ open' = open \cup {Head(backlog)}
            /\ Goto(t, "register")
            /\ UNCHANGED <<failures, ends>>
       ELSE Fail(t) /\ UNCHANGED <<cur, backlog, open>>
    /\ UNCHANGED <<clients, stream, sfd, watch, sevent, prog, work>>

\* srs_client_register.
Register(t) ==
    /\ pc[t] = "register"
    /\ clients' = Append(clients, cur[t])
    /\ Goto(t, "notify")
    /\ UNCHANGED <<cur, failures, ends, open, stream, srv, prog, work>>

\* eventfd_send: whatever was written before is cleared.
Notify(t) ==
    /\ pc[t] = "notify"
    /\ event' = SRS_CLIENT_CHANGE
    /\ Goto(t, "enter")
    /\ UNCHANGED <<cur, failures, ends, clients, open, stream, srv, prog,
                   fds, ready, msg, applied, pongs>>

-----------------------------------------------------------------------------
(* srs_loop, the client thread.                                            *)

\* srs_client_fd_set_setup.
Setup ==
    /\ pc[Loop] = "setup"
    /\ fds' = Registered
    /\ Goto(Loop, "poll")
    /\ UNCHANGED <<cur, failures, ends, clients, open, stream, srv, prog,
                   event, ready, msg, applied, pongs>>

\* A descriptor is readable when something was written or the program has
\* closed its end.
Readable(p) == p \in open /\ (stream[p] # <<>> \/ peer[p] = "down")

Poll ==
    /\ pc[Loop] = "poll"
    /\ ready' = {p \in fds : Readable(p)}
    /\ \/ event # 0 /\ Goto(Loop, "read")
       \/ event = 0 /\ ready' # {} /\ Goto(Loop, "serve")
    /\ UNCHANGED <<cur, failures, ends, clients, open, stream, srv, prog,
                   event, fds, msg, applied, pongs>>

\* select fails on a descriptor another thread has closed, eventfd_read when
\* an accepting thread has cleared the event to write it again.
LoopFails ==
    /\ \/ pc[Loop] = "poll" /\ ~ (fds \subseteq open)
       \/ pc[Loop] = "read" /\ \E t \in Servers : pc[t] = "notify"
    /\ Fail(Loop)
    /\ UNCHANGED <<cur, clients, open, stream, srv, prog, work>>

\* A change goes on to what is readable.  After an I/O error the client is
\* closed that the loop points to, which is none: the former round over the
\* readable clients has ended with NULL.
ReadEvent ==
    /\ pc[Loop] = "read"
    /\ event' = 0
    /\ Goto(Loop, IF event = SRS_CLIENT_IO_ERROR THEN "crashed" ELSE "serve")
    /\ UNCHANGED <<cur, failures, ends, clients, open, stream, srv, prog,
                   fds, ready, msg, applied, pongs>>

\* srs_client_find_fd_set: the first listed client that was readable.
Serve ==
    /\ pc[Loop] = "serve"
    /\ LET found == SelectSeq(clients, LAMBDA p : p \in ready)
       IN  IF found = <<>>
           THEN Point(Loop, NoPeer) /\ Goto(Loop, "setup") /\ UNCHANGED ready
           ELSE /\ Point(Loop, Head(found))
                /\ ready' = ready \ {Head(found)}
                /\ Goto(Loop, "recv")
    /\ UNCHANGED <<failures, ends, clients, open, stream, srv, prog,
                   event, fds, msg, applied, pongs>>

\* srs_client_recv reads all there is and takes its first command.
Recv ==
    LET p == cur[Loop]
    IN  /\ pc[Loop] = "recv"
        /\ IF p \in open /\ stream[p] # <<>>
           THEN /\ msg' = Head(stream[p])
                /\ stream' = [stream EXCEPT ![p] = <<>>]
                /\ Goto(Loop, "dispatch")
           ELSE Goto(Loop, "drop") /\ UNCHANGED <<msg, stream>>
        /\ UNCHANGED <<cur, failures, ends, clients, open, srv, prog,
                       event, fds, ready, applied, pongs>>

Command == Script[msg[1]][msg[2]]

\* The client srs_send writes to: client_fd is that of the client read from.
Answered == cur[Loop]

\* srs_client_send: the connection is there and the program reads it.
Writable(p) == p \in open /\ peer[p] = "up"

\* srs_dispatch: a command that is too short closes its client; a ping that
\* cannot be answered, because the program is gone or the connection closed,
\* raises an I/O error.
Dispatch ==
    /\ pc[Loop] = "dispatch"
    /\ Goto(Loop, IF Command = "short" THEN "drop" ELSE "serve")
    /\ applied' = IF Command = "short" THEN applied ELSE Append(applied, msg)
    /\ pongs' = IF Command = "ping" /\ Writable(Answered)
                THEN pongs \cup {Answered} ELSE pongs
    /\ event' = IF Command = "ping" /\ ~ Writable(Answered)
                THEN SRS_CLIENT_IO_ERROR ELSE event
    /\ UNCHANGED <<cur, failures, ends, clients, open, stream, srv, prog,
                   fds, ready, msg>>

-----------------------------------------------------------------------------
(* The programs: srs_client_open, srs_client_send, srs_client_close.       *)

Connect(p) ==
    /\ peer[p] = "idle" /\ sfd # 0
    /\ peer' = [peer EXCEPT ![p] = "up"]
    /\ backlog' = Append(backlog, p)
    /\ UNCHANGED <<pc, cur, failures, ends, clients, open, stream, sfd, watch,
                   sevent, sent, work>>

\* A command can be written until the server closes the connection.
Send(p) ==
    /\ peer[p] = "up" /\ sent[p] < Len(Script[p])
    /\ p \in open \cup ToSet(backlog)
    /\ sent' = [sent EXCEPT ![p] = @ + 1]
    /\ stream' = [stream EXCEPT ![p] = Append(@, <<p, sent[p] + 1>>)]
    /\ UNCHANGED <<pc, cur, failures, ends, clients, open, srv, peer, work>>

\* Nobody waits for an answer for long: srs_ping gives up after 50 ms.
Hangup(p) ==
    /\ peer[p] = "up" /\ sent[p] = Len(Script[p])
    /\ peer' = [peer EXCEPT ![p] = "down"]
    /\ UNCHANGED <<pc, cur, failures, ends, clients, open, stream, srv, sent,
                   work>>

-----------------------------------------------------------------------------
Closing(a) ==
    Find(a) \/ Shut(a) \/ Unregister(a) \/ Signal(a) \/ Open(a) \/ OpenFails(a)

ServerStep(t) ==
    \/ Enter(t) \/ Select(t) \/ SelectedNothing(t) \/ ServerEvent(t)
    \/ Accept(t) \/ Register(t) \/ Notify(t) \/ Closing(t)

LoopStep ==
    \/ Setup \/ Poll \/ LoopFails \/ ReadEvent \/ Serve \/ Recv \/ Dispatch
    \/ Closing(Loop)

PeerStep(p) == Connect(p) \/ Send(p) \/ Hangup(p)

\* The process runs until it crashes or gives the client up, which frees what
\* the accepting threads use.
Running == pc[Loop] \notin {"crashed", "done"}

Next ==
    /\ Running
    /\ LoopStep \/ (\E t \in Servers : ServerStep(t))
       \/ (\E p \in Peers : PeerStep(p))

Spec == Init /\ [][Next]_vars

-----------------------------------------------------------------------------
(* Properties.                                                             *)

TypeOK ==
    /\ DOMAIN pc = Actors /\ cur \in [Actors -> Peers \cup {NoPeer}]
    /\ failures \in [Actors -> 0 .. RetryCount]
    /\ sfd \in 0 .. RetryCount * RetryCount
    /\ event \in {0, SRS_CLIENT_CHANGE, SRS_CLIENT_IO_ERROR}
    /\ sevent \in {0, SRS_SERVER_CLOSE}
    /\ Registered \cup fds \cup ready \cup open \subseteq Peers
    /\ peer \in [Peers -> {"idle", "up", "down"}]
    /\ \A p \in Peers : sent[p] \in 0 .. Len(Script[p])

\* Whatever happens to the threads and the list, a command is carried out
\* only after it was sent, at most once, and in the order of its program.
InOrder ==
    \A i \in DOMAIN applied :
        /\ applied[i][2] <= sent[applied[i][1]]
        /\ \A j \in 1 .. i - 1 : applied[j][1] = applied[i][1]
                                   => applied[j][2] < applied[i][2]

\* A ping is answered on the connection it came from, whatever clients come
\* and go while it is dispatched.
PongToPinger ==
    \A p \in pongs : \E i \in DOMAIN applied :
        applied[i][1] = p /\ Script[p][applied[i][2]] = "ping"
=============================================================================
