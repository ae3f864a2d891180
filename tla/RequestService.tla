--------------------------- MODULE RequestService ---------------------------
(***************************************************************************)
(* What the library promises libril about requests (RIL_RequestFunc and    *)
(* RIL_onRequestComplete), without saying how: a request is issued, then   *)
(* it may be served by the modem, and it leaves with its one answer or     *)
(* with a cancellation.  Requests of an exclusive kind are served one at a *)
(* time and in the order they were issued.                                 *)
(***************************************************************************)
EXTENDS Integers, Sequences

CONSTANTS
    Token,     \* the requests libril can have outstanding
    Kind,      \* the codes of requests
    Exclusive  \* the kinds that are served one at a time

VARIABLES
    waiting,   \* tokens libril waits for
    queue,     \* the requests not answered, in the order of issue
    served     \* tokens of the requests the modem works on

serviceVars == <<waiting, queue, served>>

Tokens(q) == {q[i].token : i \in 1 .. Len(q)}
Without(q, i) == SubSeq(q, 1, i - 1) \o SubSeq(q, i + 1, Len(q))

Init == waiting = {} /\ queue = <<>> /\ served = {}

\* libril issues a request it does not wait for yet.
Issue(t, k) ==
    /\ t \notin waiting
    /\ waiting' = waiting \cup {t}
    /\ queue' = Append(queue, [token |-> t, kind |-> k])
    /\ UNCHANGED served

\* The modem is given the i-th request; one of an exclusive kind is not given
\* to it before those of its kind that were issued earlier have left.
Serve(i) ==
    /\ queue[i].token \notin served
    /\ queue[i].kind \in Exclusive =>
          \A j \in 1 .. i - 1 : queue[j].kind # queue[i].kind
    /\ served' = served \cup {queue[i].token}
    /\ UNCHANGED <<waiting, queue>>

\* The i-th request is answered.
Answer(i) ==
    /\ queue' = Without(queue, i)
    /\ served' = served \ {queue[i].token}
    /\ waiting' = waiting \ {queue[i].token}

\* It is cancelled: libril is not told.
Cancel(i) ==
    /\ queue' = Without(queue, i)
    /\ served' = served \ {queue[i].token}
    /\ UNCHANGED waiting

\* The modem is lost: all that is queued is answered at once.
Lose ==
    /\ waiting' = waiting \ Tokens(queue)
    /\ queue' = <<>> /\ served' = {}

Next ==
    \/ \E t \in Token, k \in Kind : Issue(t, k)
    \/ \E i \in 1 .. Len(queue) : Serve(i) \/ Answer(i) \/ Cancel(i)
    \/ Lose

Spec == Init /\ [][Next]_serviceVars
=============================================================================
