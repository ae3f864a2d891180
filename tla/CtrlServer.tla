------------------------------- MODULE CtrlServer -------------------------------
(****************************************************************************)
(* The control server of the mock RIL: a thread that accepts one client at a *)
(* time and reads its commands, the JavaScript workers that process them and *)
(* write the answers, and the V8 lock they share.                            *)
(*                                                                           *)
(* A message is its header and its data, written and read one after the      *)
(* other.  A token is a 64-bit number; JavaScript has it as a double.        *)
(****************************************************************************)
EXTENDS Integers, Sequences, FiniteSets, SequencesExt, Scenario

\* The instances.
Clients == {"a", "b"}
\* those of the run
Commands == InRun([
     safety |-> {"ECHO", "GET_RADIO_STATE", "SET_MT_CALL", "UNKNOWN"},
     further |-> {"ECHO", "SET_MT_CALL"}])
Token == [a |-> 17, b |-> 1]  \* the token of each client's commands
Mantissa == 4  \* integers below 2^Mantissa are exact in a double (53 in the code)
MaxCommands == 2  \* commands one client sends
\* clients wait for their answers before they close
Patient == InRun([safety |-> TRUE, further |-> FALSE])
Stops == InRun([safety |-> FALSE, further |-> TRUE])  \* the server may be told to stop

VARIABLES
    conn,           \* each client's end of its connection
    accepted,       \* clients the server has accepted
    asked,          \* the commands each client sent
    midway,         \* clients that have sent the header of their last command only
    inbox,          \* parts of commands the server has not read
    got,            \* parts of answers each client was sent
    served,         \* server_to_client_socket_
    pc,             \* where the server thread is
    mh,             \* the command it read last
    lock,           \* who has the V8 lock
    queue,          \* the workers' queues
    out,            \* what each thread has still to write
    state, done_    \* of the WorkerThread, of the CtrlServerThread

clientVars == <<conn, asked, midway>>
stopVars == <<state, done_>>
vars == <<clientVars, accepted, inbox, got, served, pc, mh, lock, queue, out, stopVars>>

Workers == {"ctrlWorker", "simulatedRadioWorker"}
Threads == Workers \cup {"server"}
NoOne == "nobody"

Pieces(message) == <<[part |-> "header", of |-> message], [part |-> "data", of |-> message]>>

-----------------------------------------------------------------------------
(* v8::Number: the double nearest to a token, the even one of two.           *)
Unit(token) ==
    CHOOSE u \in {2^i : i \in 0 .. token} :
        /\ token \div u < 2^Mantissa
        /\ u = 1 \/ token \div (u \div 2) >= 2^Mantissa

Number(token) ==
    LET u == Unit(token)
        low == token \div u
        rest == 2 * (token % u)
    IN  u * (IF rest > u \/ (rest = u /\ low % 2 = 1) THEN low + 1 ELSE low)

(* CtrlServerThread overrides isRunning.                                     *)
isRunning == done_ \/ state = "running"

Init ==
    /\ conn = [c \in Clients |-> "none"] /\ accepted = {}
    /\ asked = [c \in Clients |-> <<>>] /\ midway = {}
    /\ inbox = [c \in Clients |-> <<>>] /\ got = [c \in Clients |-> <<>>]
    /\ served = NoOne /\ pc = "accepting" /\ mh = [cmd |-> "ECHO", token |-> 0]
    /\ lock = NoOne /\ queue = [w \in Workers |-> <<>>] /\ out = [t \in Threads |-> <<>>]
    /\ state = "running" /\ done_ = FALSE

-----------------------------------------------------------------------------
(* The clients.                                                              *)
Connect(c) ==
    /\ conn[c] = "none"
    /\ conn' = [conn EXCEPT ![c] = "open"]
    /\ UNCHANGED <<accepted, asked, midway, inbox, got, served, pc, mh, lock, queue, out, stopVars>>

SendHeader(c, cmd, token) ==
    /\ conn[c] = "open" /\ c \notin midway /\ Len(asked[c]) < MaxCommands
    /\ LET request == [cmd |-> cmd, token |-> token]
       IN  /\ asked' = [asked EXCEPT ![c] = Append(@, request)]
           /\ inbox' = [inbox EXCEPT ![c] = Append(@, Pieces(request)[1])]
    /\ midway' = midway \cup {c}
    /\ UNCHANGED <<conn, accepted, got, served, pc, mh, lock, queue, out, stopVars>>

SendData(c) ==
    /\ c \in midway /\ conn[c] = "open"
    /\ inbox' = [inbox EXCEPT ![c] = Append(@, Pieces(Last(asked[c]))[2])]
    /\ midway' = midway \ {c}
    /\ UNCHANGED <<conn, accepted, asked, got, served, pc, mh, lock, queue, out, stopVars>>

Close(c) ==
    /\ conn[c] = "open"
    /\ Patient => c \notin midway /\ Len(got[c]) = 2 * Len(asked[c])
    /\ conn' = [conn EXCEPT ![c] = "closed"]
    /\ UNCHANGED <<accepted, asked, midway, inbox, got, served, pc, mh, lock, queue, out, stopVars>>

-----------------------------------------------------------------------------
(* The server thread has the V8 lock but where it waits in select.           *)
Leave ==
    /\ pc' = "ended" /\ state' = "stopped"
    /\ UNCHANGED <<clientVars, accepted, inbox, got, served, mh, lock, queue, out, done_>>

(* Awake from the first select: a client has come, or Stop was called.  With *)
(* the stop alone and isRunning true it goes back to the select.             *)
AwakeToAccept ==
    /\ pc = "accepting" /\ lock = NoOne
    /\ IF ~isRunning
       THEN Leave
       ELSE \E c \in {d \in Clients : conn[d] # "none"} \ accepted :
                /\ served' = c /\ accepted' = accepted \cup {c} /\ pc' = "waiting"
                /\ UNCHANGED <<clientVars, inbox, got, mh, lock, queue, out, stopVars>>

CloseClient ==
    /\ served' = NoOne /\ pc' = "accepting" /\ lock' = NoOne

(* Awake from the second: there is something to read, or Stop was called.    *)
AwakeToRead ==
    /\ pc = "waiting" /\ lock = NoOne
    /\ inbox[served] # <<>> \/ conn[served] = "closed" \/ done_
    /\ IF isRunning
       THEN /\ pc' = "reading" /\ lock' = "server" /\ UNCHANGED served
       ELSE CloseClient
    /\ UNCHANGED <<clientVars, accepted, inbox, got, mh, queue, out, stopVars>>

(* ReadAll finds the connection closed.                                      *)
ReadFails ==
    /\ pc \in {"reading", "readingData"} /\ inbox[served] = <<>> /\ conn[served] = "closed"
    /\ CloseClient
    /\ UNCHANGED <<clientVars, accepted, inbox, got, mh, queue, out, stopVars>>

ReadHeader ==
    /\ pc = "reading" /\ inbox[served] # <<>>
    /\ mh' = Head(inbox[served]).of
    /\ inbox' = [inbox EXCEPT ![served] = Tail(@)]
    /\ pc' = "readingData"
    /\ UNCHANGED <<clientVars, accepted, got, served, lock, queue, out, stopVars>>

(* The worker onCtrlServerCmd hands a command to.                            *)
WorkerOf(cmd) == IF cmd = "SET_MT_CALL" THEN "simulatedRadioWorker" ELSE "ctrlWorker"

(* The command an answer of JavaScript carries.                              *)
Returned(request) == [request EXCEPT !.token = Number(@)]

(* The rest of a message is read: an echo is written by this thread, a       *)
(* command nobody knows is refused by it, the others go to a worker.         *)
ReadData ==
    /\ pc = "readingData" /\ inbox[served] # <<>>
    /\ inbox' = [inbox EXCEPT ![served] = Tail(@)]
    /\ CASE mh.cmd = "ECHO" ->
              /\ out' = [out EXCEPT !["server"] = Pieces(mh)]
              /\ pc' = "writing" /\ UNCHANGED <<queue, lock>>
         [] mh.cmd = "UNKNOWN" ->
              /\ out' = [out EXCEPT !["server"] = Pieces(Returned(mh))]
              /\ pc' = "writing" /\ UNCHANGED <<queue, lock>>
         [] OTHER ->
              /\ queue' = [queue EXCEPT ![WorkerOf(mh.cmd)] = Append(@, mh)]
              /\ pc' = "waiting" /\ lock' = NoOne /\ UNCHANGED out
    /\ UNCHANGED <<clientVars, accepted, got, served, mh, stopVars>>

(* A worker takes the lock and processes a command.                          *)
Process(w) ==
    /\ queue[w] # <<>> /\ lock = NoOne
    /\ lock' = w
    /\ out' = [out EXCEPT ![w] = Pieces(Returned(Head(queue[w])))]
    /\ queue' = [queue EXCEPT ![w] = Tail(@)]
    /\ UNCHANGED <<clientVars, accepted, inbox, got, served, pc, mh, stopVars>>

(* A thread that has written all lets the lock go; the server thread goes    *)
(* back to its select.                                                       *)
Written(t) ==
    /\ lock' = NoOne
    /\ pc' = IF t = "server" THEN "waiting" ELSE pc

(* WriteMessage, to the client the server has at that moment.                *)
Write(t) ==
    /\ out[t] # <<>> /\ served # NoOne /\ conn[served] = "open"
    /\ got' = [got EXCEPT ![served] = Append(@, Head(out[t]))]
    /\ out' = [out EXCEPT ![t] = Tail(@)]
    /\ IF Len(out[t]) = 1 THEN Written(t) ELSE UNCHANGED <<lock, pc>>
    /\ UNCHANGED <<clientVars, accepted, inbox, served, mh, queue, stopVars>>

(* The client has closed, or there is none: a worker takes no notice.        *)
WriteFails(t) ==
    /\ out[t] # <<>> /\ (IF served = NoOne THEN TRUE ELSE conn[served] = "closed")
    /\ out' = [out EXCEPT ![t] = <<>>]
    /\ IF t = "server" THEN CloseClient ELSE Written(t) /\ UNCHANGED served
    /\ UNCHANGED <<clientVars, accepted, inbox, got, mh, queue, stopVars>>

(* CtrlServerThread::Stop, up to its wait for STATE_STOPPED.                 *)
Stop ==
    /\ Stops /\ state = "running"
    /\ state' = "stopping" /\ done_' = TRUE
    /\ UNCHANGED <<clientVars, accepted, inbox, got, served, pc, mh, lock, queue, out>>

-----------------------------------------------------------------------------
ServerStep == AwakeToAccept \/ AwakeToRead \/ ReadFails \/ ReadHeader \/ ReadData
WriteStep(t) == Write(t) \/ WriteFails(t)
ClientStep(c) ==
    \/ Connect(c) \/ SendData(c) \/ Close(c)
    \/ \E cmd \in Commands : SendHeader(c, cmd, Token[c])

Next ==
    \/ ServerStep \/ Stop
    \/ \E w \in Workers : Process(w)
    \/ \E t \in Threads : WriteStep(t)
    \/ \E c \in Clients : ClientStep(c)

Spec == Init /\ [][Next]_vars

-----------------------------------------------------------------------------
(* The server's descriptors, queues and threads have the values they can.    *)
TypeOK ==
    /\ conn \in [Clients -> {"none", "open", "closed"}]
    /\ accepted \subseteq Clients /\ midway \subseteq Clients
    /\ served \in accepted \cup {NoOne}
    /\ pc \in {"accepting", "waiting", "reading", "readingData", "writing", "ended"}
    /\ (pc \in {"waiting", "reading", "readingData", "writing"}) = (served # NoOne)
    /\ lock \in Threads \cup {NoOne} /\ state \in {"running", "stopping", "stopped"}
    /\ \A t \in Threads : out[t] # <<>> => lock = t

(* The two parts of an answer arrive one after the other, whatever threads   *)
(* write to the socket.                                                      *)
FramesWhole ==
    \A c \in Clients : \A i \in 1 .. Len(got[c]) :
        /\ got[c][i].part = (IF i % 2 = 1 THEN "header" ELSE "data")
        /\ i % 2 = 0 => got[c][i].of = got[c][i - 1].of

Occurrences(seq, x) == Cardinality({i \in 1 .. Len(seq) : seq[i] = x})

(* A token that no double can hold comes back rounded with every answer but  *)
(* an echo, which does not pass through JavaScript.                          *)
Answers(message, request) ==
    \/ message = request
    \/ request.cmd # "ECHO" /\ request.token >= 2^Mantissa /\ message = Returned(request)

(* The answers of a client that waits for them before it closes are to       *)
(* commands it sent, none is answered twice, and the tokens are unmodified   *)
(* unless they were rounded.  (An answer to a client that has left goes to   *)
(* the next one: see Write.)                                                 *)
TokensReturned ==
    \A c \in Clients : \A i \in 1 .. Len(got[c]) :
        Occurrences(got[c], got[c][i])
            <= Cardinality({j \in DOMAIN asked[c] : Answers(got[c][i].of, asked[c][j])})
================================================================================
