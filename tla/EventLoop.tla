------------------------------ MODULE EventLoop ------------------------------
(***************************************************************************)
(* The event loop of libril (ril/libril/ril_event.cpp, and eventLoop and   *)
(* triggerEvLoop of ril.cpp).  The loop takes a copy of the descriptors to *)
(* watch and the time of the first timer, blocks in select, and then moves *)
(* what is due to the pending list and calls it.  Other threads add events *)
(* and timers meanwhile and write to a pipe to get the loop out of select. *)
(* The time is that of the monotonic clock.                                *)
(***************************************************************************)
EXTENDS Integers, Sequences, FiniteSets, SequencesExt, Scenario

\* The instances.
Event == InRun([safety |-> {}, progress |-> {"e1"}])  \* the events on descriptors
OneShot == Event  \* those that are not persistent (all but Wakeup)
Timer == InRun([safety |-> {"x1", "x2", "x3"}, progress |-> {"x1"}])
Wakeup == "wakeup"                                  \* s_wakeupfd_event
TableSize == 3                                      \* MAX_FD_EVENTS (8 in the code)
MaxTime == 2  \* the time
MaxDelay == 2  \* delay of a timer
MaxInputs == 1                                      \* inputs on each descriptor

VARIABLES
    pc,       \* the step of the loop
    table,    \* watch_table
    readFds,  \* the events whose descriptors are set in readFds
    rfds,     \* the copy passed to select, and what select leaves in it
    until,    \* when select returns at the latest, MaxTime + 1 if never
    timers,   \* timer_list: timers and their times
    pending,  \* pending_list: timers and events
    now,      \* the time
    ready,    \* the events whose descriptors have input
    adding,   \* what the thread that adds an event or a timer has done
    inputs,   \* history: inputs so far
    fired     \* history: the timers that fired, with their times, in order

vars == <<pc, table, readFds, rfds, until, timers, pending, now, ready,
          adding, inputs, fired>>

envVars == <<now, inputs>>
Watch == Event \cup {Wakeup}
Never == MaxTime + 1
Slots == 1 .. TableSize

\* RIL_startEventLoop has returned: ril_event_init is done, the pipe is not
\* open yet.
Init ==
    /\ pc = "start"
    /\ table = [i \in Slots |-> None] /\ readFds = {}
    /\ rfds = {} /\ until = Never
    /\ timers = <<>> /\ pending = <<>>
    /\ now = 0 /\ ready = {}
    /\ adding = [x \in Event \cup Timer |-> "new"]
    /\ inputs = [e \in Event |-> 0]
    /\ fired = <<>>

-----------------------------------------------------------------------------
(* The lists.                                                              *)

Free == {i \in Slots : table[i] = None}

\* ril_event_add: nothing happens if the table is full.
EventAdd(e) ==
    IF Free = {} THEN UNCHANGED <<table, readFds>>
    ELSE LET i == CHOOSE i \in Free : \A j \in Free : i <= j
         IN  /\ table' = [table EXCEPT ![i] = e]
             /\ readFds' = readFds \cup {e}

\* removeWatch: the slots of these events are free again.
RemoveWatch(gone) ==
    /\ table' = [i \in Slots |-> IF table[i] \in gone THEN None ELSE table[i]]
    /\ readFds' = readFds \ gone

\* ril_timer_add: before the first timer that is not earlier
Position(list, t) == 1 + Cardinality({i \in 1 .. Len(list) : list[i].time < t})

TimerAdd(x, t) ==
    timers' = InsertAt(timers, Position(timers, t), [timer |-> x, time |-> t])

-----------------------------------------------------------------------------
(* The threads that add events and timers.                                 *)

Adds(e) ==
    /\ adding[e] = "new"
    /\ EventAdd(e)
    /\ adding' = [adding EXCEPT ![e] = "added"]
    /\ UNCHANGED <<pc, rfds, until, timers, pending, ready, envVars, fired>>

AddsTimer(x, d) ==
    /\ adding[x] = "new" /\ now + d < MaxTime
    /\ TimerAdd(x, now + d)
    /\ adding' = [adding EXCEPT ![x] = "added"]
    /\ UNCHANGED <<pc, table, readFds, rfds, until, pending, ready, envVars,
                   fired>>

\* triggerEvLoop; without the pipe the byte goes elsewhere
TriggerEvLoop(x) ==
    /\ adding[x] = "added"
    /\ adding' = [adding EXCEPT ![x] = "done"]
    /\ ready' = IF pc = "start" THEN ready ELSE ready \cup {Wakeup}
    /\ UNCHANGED <<pc, table, readFds, rfds, until, timers, pending, envVars,
                   fired>>

-----------------------------------------------------------------------------
(* The loop.                                                               *)

\* eventLoop: the pipe is opened and watched.
Open ==
    /\ pc = "start" /\ pc' = "copy"
    /\ EventAdd(Wakeup)
    /\ UNCHANGED <<rfds, until, timers, pending, ready, adding, envVars, fired>>

\* ril_event_loop: the copy of readFds
CopyFds ==
    /\ pc = "copy" /\ pc' = "calc"
    /\ rfds' = readFds
    /\ UNCHANGED <<table, readFds, until, timers, pending, ready, adding,
                   envVars, fired>>

\* calcNextTimeout
CalcNextTimeout ==
    /\ pc = "calc" /\ pc' = "select"
    /\ until' = IF timers = <<>> THEN Never ELSE Head(timers).time
    /\ UNCHANGED <<table, readFds, rfds, timers, pending, ready, adding,
                   envVars, fired>>

Select ==
    /\ pc = "select" /\ pc' = "timeouts"
    /\ rfds \cap ready # {} \/ now >= until
    /\ rfds' = rfds \cap ready
    /\ UNCHANGED <<table, readFds, until, timers, pending, ready, adding,
                   envVars, fired>>

\* timercmp(&now, &tev->timeout, >)
Expired(e) == now > e.time

\* processTimeouts: the expired timers at the head of the list
ProcessTimeouts ==
    LET n == Cardinality({i \in 1 .. Len(timers) :
                            \A j \in 1 .. i : Expired(timers[j])})
    IN  /\ pc = "timeouts" /\ pc' = "readies"
        /\ pending' = pending \o SubSeq(timers, 1, n)
        /\ timers' = SubSeq(timers, n + 1, Len(timers))
        /\ UNCHANGED <<table, readFds, rfds, until, ready, adding, envVars,
                       fired>>

\* processReadReadies: an event that is not persistent leaves the table.
ProcessReadReadies ==
    LET hits == SelectSeq([i \in Slots |-> [event |-> table[i]]], LAMBDA h : h.event \in rfds)
    IN  /\ pc = "readies" /\ pc' = "fire"
        /\ pending' = pending \o hits
        /\ RemoveWatch({h.event : h \in ToSet(hits)} \cap OneShot)
        /\ UNCHANGED <<rfds, until, timers, ready, adding, envVars, fired>>

\* firePending: a timer is called and freed, the callback of an event takes
\* the input, and that of one which is not persistent adds it again.
FireTimer ==
    /\ pc = "fire" /\ pending # <<>> /\ "timer" \in DOMAIN Head(pending)
    /\ pending' = Tail(pending)
    /\ fired' = Append(fired, Head(pending))
    /\ UNCHANGED <<pc, table, readFds, rfds, until, timers, ready, adding,
                   envVars>>

FireEvent ==
    /\ pc = "fire" /\ pending # <<>> /\ "event" \in DOMAIN Head(pending)
    /\ pending' = Tail(pending)
    /\ ready' = ready \ {Head(pending).event}
    /\ IF Head(pending).event \in OneShot THEN EventAdd(Head(pending).event)
       ELSE UNCHANGED <<table, readFds>>
    /\ UNCHANGED <<pc, rfds, until, timers, adding, envVars, fired>>

FireEnds ==
    /\ pc = "fire" /\ pending = <<>> /\ pc' = "copy"
    /\ UNCHANGED <<table, readFds, rfds, until, timers, pending, ready,
                   adding, envVars, fired>>

-----------------------------------------------------------------------------
(* The environment.                                                        *)

Input(e) ==
    /\ inputs[e] < MaxInputs
    /\ inputs' = [inputs EXCEPT ![e] = @ + 1]
    /\ ready' = ready \cup {e}
    /\ UNCHANGED <<pc, table, readFds, rfds, until, timers, pending, now,
                   adding, fired>>

Tick ==
    /\ now < MaxTime /\ now' = now + 1
    /\ UNCHANGED <<pc, table, readFds, rfds, until, timers, pending, ready,
                   adding, inputs, fired>>

Loop ==
    \/ Open \/ CopyFds \/ CalcNextTimeout \/ Select \/ ProcessTimeouts
    \/ ProcessReadReadies \/ FireTimer \/ FireEvent \/ FireEnds

Adder(x) == \/ x \in Event /\ Adds(x)
            \/ x \in Timer /\ \E d \in 0 .. MaxDelay : AddsTimer(x, d)

Next ==
    \/ Loop
    \/ \E x \in Event \cup Timer : Adder(x) \/ TriggerEvLoop(x)
    \/ \E e \in Event : Input(e)
    \/ Tick

Spec == Init /\ [][Next]_vars

-----------------------------------------------------------------------------
(* Properties.                                                             *)

Entry == [timer : Timer, time : 0 .. MaxTime]

TypeOK ==
    /\ table \in [Slots -> Watch \cup {None}]
    /\ readFds \subseteq Watch /\ rfds \subseteq Watch
    /\ timers \in Seq(Entry) /\ fired \in Seq(Entry)
    /\ pending \in Seq(Entry \cup [event : Watch])
    /\ \A e \in Watch : Cardinality({i \in Slots : table[i] = e}) <= 1

\* Events that are watched and have input; the timer has fired.
Unserved == {e \in Event : adding[e] # "new" /\ e \in ready}
HasFired(x) == \E i \in DOMAIN fired : fired[i].timer = x

\* Timers fire in the order of their times, whatever the order they were
\* added in, and none before its time.
TimersInOrder ==
    /\ \A i, j \in 1 .. Len(timers) : i < j => timers[i].time <= timers[j].time
    /\ \A i \in 1 .. Len(fired) : fired[i].time < now
=============================================================================
