# Samsung-RIL: models and proofs

This directory specifies and checks the Android radio interface library for
Samsung modems kept in `old resources/hardware_ril_samsung-ril` (below:
"Samsung-RIL"; file names without a path are files of that directory). Around
it, and modelled too, are the parts it works with: Android's libril in four
versions (`ril`, `libril`, `libril2`, `libril3`) with their reference RILs, the
modem message library in two versions (`external_libsamsung-ipc` and
`external_libsamsung-ipc 2`), the client of the library's socket server, the
framework's `SamsungRIL.java` and the mock RIL.

## 1. Inventory

### How the system works

libril calls `ril_on_request` for every request of the telephony stack and
waits for one `RIL_onRequestComplete` with the request's token. The library
queues the request; its *request thread* (`ril_request_loop`) walks the queue
and calls the request's handler, which answers at once, sends a command to the
modem (`HANDLED`), or puts the request off (`UNHANDLED`) because the radio is
not in the needed state or another request of the kind is on its way. The *FMT
client thread* receives the modem's messages (`ipc_fmt_loop`) and calls their
handlers. An answer is tied to its request by an 8-bit sequence number; a
command may also be answered by a *generic response*, which is matched with a
list of *expects*. When the client thread fails, all requests are answered
with `RADIO_NOT_AVAILABLE`, everything is flushed and the client is opened
again, up to `RIL_CLIENT_RETRY_COUNT` times in a row. `RIL_LOCK` is held over
each handler and over a whole pass of the request loop.

### Components

| Part | State | Operations | What is hard | What makes it correct |
|---|---|---|---|---|
| Request queue and loop (`samsung-ril.c`) | list of requests with status, radio state, wake-up mutex | register, dispatch, complete, cancel, flush, radio state update | signal after unlock, wake-ups used up, cancel in between, answers from four places | each request answered once; no lost wake-up; a request that could run is not slept on; exclusive kinds in order |
| FMT client (`ipc.c`, `client.c`) | mirror list with sequence numbers, last number, client status, failures | send, number, open, close, loop, retry, give up | numbers that wrap around or restart, late answers, failure at any point | lists agree; outage leaves nothing; an answer finds its own request; radio present only with a client |
| Generic responses (`gen.c`) | list of expects | register, find, apply, flush | leftovers meet later commands | an expect is met by its own command |
| Radio power (`power.c`) | radio state | power up, phone state, `RADIO_POWER` | state changes while requests wait | waiting requests are woken up |
| Short messages (`sms.c`) | stored PDU, stored identifier | send (in two messages), acknowledge, incoming | stored data keyed by request code; late answers | success means sent; retry means not sent; each message acknowledged once |
| DTMF (`call.c`) | registered tone, tones for the callback | start, stop, burst, callback | a tone replaces another in several messages | success means the tone was sent; the registered tone is the one that plays |
| Calls, network, misc, sound, oem | cached registration and operator data, fail causes | one request, one answer | responses dropped below a radio state | every request answered |
| SIM (`sim.c`) | cached status and PIN, request data | PIN entry, locks, SIM I/O | PIN re-entered after a restart | status request answered; radio follows the SIM |
| Data connections (`data.c`) | list of connections with token, type, IP data | set up in several messages, deactivate, list, flush | tokens overwritten, connection freed and used | one answer per set-up; no use after release |
| SRS server (`srs.c`) and its clients | clients, sockets, event descriptors | accept, poll, send, restart, retry | two threads share the list of clients; a client leaves while it is written to | commands reach the right side once; nobody waits for ever |
| RFS (`rfs.c`, `ipc.c`) | modem power, NV file | open, close, read and write items | two clients share one modem; writes that fail half way | neither client takes the modem from the other; the modem reads what it wrote |
| OEM hook (`oem.c`) | session flag, screen kept | enter, leave, key, query, screens | a screen or a generic response answers first | one answer; the newest screen shown |
| libril (`ril.cpp`, `ril_event.cpp`) | pending requests, timers, watch table, sockets, wake lock, parcels | request, response, report, debug port, timers | lists shared by threads; descriptors closed while watched; a timer racing an event | answer or time-out once; the socket is listened on again; the lock is released and held over reports |
| `record_stream.c` | buffer and three pointers | read, grow, take a record | records over the end of the buffer | every record whole, in order |
| AT channel and reference RIL | command under way, intermediate lines, radio and SIM state | send, time-out, reader, close | late answer meets the next command; close in the middle | the answer is the command's own; state follows the modem |
| libsamsung-ipc | boot protocol, transport, NV files, clients, messages | boot, send, receive, restore, build, extract | short reads, acknowledgements that come twice, crash between two files | image whole; message whole; data survives; nothing read behind the end |
| Mock RIL | worker queues, V8 handles, simulated calls | request, timers, control commands | workers, collector and control clients interleave | requests answered once with their own data |
| `SamsungRIL.java`, `samsung-ril-client` | pending messages, receivers, sockets | request, answer, connect | broadcasts and answers cross | caller told once |

Requests reach the components through the handler table; components call
`ril_request_complete`, `ipc_fmt_send` and the expect functions, and share the
radio state and the request data list. `PROJECT.json` lists every component
with its status and every hazard at its line.

## 2. Layout

Three kinds of modules:

- The **core**: `SamsungRil`, the queue with its three threads, `RilHandlers`,
  the handler table, and `RequestService`, the abstract specification the core
  is shown to implement.
- The **families of handlers that keep data of their own**: `QueueView`, the
  queue as such a handler sees it, and on it `DataConnections`, `Sms`, `Dtmf`,
  `Calls`, `Network`, `Identity` and `Sim`.
- **Components around them**, each a specification of its own, with their
  bounds for the runs in the module itself.

What does not share state is checked together but not at once. A *suite*
(`Handlers`, `AndroidSide`, `ReferenceRils`, `ModemLibrary`) instantiates its
components over one set of variables; the variable `part` says which of them a
behaviour is of and never changes, and the variables of the others have the
value `None` and keep it (`Idle`, `Still`). A property of a suite is a
conjunction of properties of its components, each defined and commented in the
suite or in the component and guarded by its `part`; a violation names the part
in every state of the trace. `CONSTANT Parts` selects the parts of a run. A
component may be instantiated more than once, for different questions; how
large it is in each is said in the component by `InRun` of `Scenario`
("safety"; "further", a second instance; "progress", liveness), so that every
bound is next to the state it bounds.

Definitions marked "Mutant of" are variations of the definition after them with
a bug the code could have. They show that the properties notice it and are no
part of the specifications.

## 3. Modules

### The core

**`SamsungRil`** (`samsung-ril.c`, `ipc.c`, `client.c`, `gen.c`, `power.c`).
Its variables are the fields of `ril_data` and `ipc_fmt_data` they are named
after in the module. A step of a thread is what it does under `RIL_LOCK`; what
the code does outside is a step of its own:

| Action | Code |
|---|---|
| `OnRequest`, `OnRequestSignal` | `ril_on_request` up to `RIL_UNLOCK`, and the signal after it |
| `OnCancel` | `ril_on_cancel` |
| `LoopWake`, `LoopLock`, `LoopDone` | `ril_request_loop`: woken up, locked (back to waiting if the radio is unavailable, otherwise `UNHANDLED` becomes `PENDING`), pass over |
| `DispatchAnswer`, `DispatchUnhandled`, `DispatchSend`, `DispatchSendFails` | `ril_request_dispatch` of the first `PENDING` request, by what its handler does |
| `PwrUp`, `SimStatus` | messages of the modem that change the radio state |
| `RecvResp`, `RecvGen` | the response to a command and the generic response |
| `FmtError`, `FmtReopen`, `FmtRetryFails`, `FmtGiveUp` | error exit of `ipc_fmt_loop`, the retries of `ril_client_thread` and its end |

A handler is a record (`Profile`): whether it checks its data first, the radio
state it needs and what it does below it, whether it waits for its own kind,
its command, its expect, its response. The modem is external: it may answer
any command it has, in any order, with success or failure, and give its own
messages at any time. After the first failure it is not power cycled
(`ipc_fmt_open` skips the boot when `failures` is 1), so commands from before
the flush are kept, marked `old`, and may still be answered. History variables
record what libril is owed (`owed`), what it cancelled, and whether numbers
wrapped around; no action depends on them but for the bounds `MaxIssued` and
`MaxCancels`.

**`RilHandlers`** is the table: one definition per handler, named after it, in
the order of the handler's checks. **`RequestService`** says what libril may
rely on: a request is issued, possibly served, and answered or cancelled once;
exclusive kinds are served one at a time in order. `SamsungRil!ServiceSpec` is
the refinement.

### Handlers with data

**`QueueView`** is the queue reduced to what a handler with data sees: a pass of
the loop dispatches in list order those whose handlers do not put them off, an
answer finds its request by number, a generic response its expect, an outage
answers all and marks what the modem still has as `old`. Numbers do not wrap around and requests are not
cancelled (libril never calls `onCancel`). Its lemmas about the list are used by
all of the proofs on it. `stale` is a history variable: an answer from before an
outage came in (it may then meet a new request with its number; that hazard is
the core's).

| Module | Code | Kept between messages |
|---|---|---|
| `DataConnections` | `data.c` | the connections: token, cid, enabled, IP; activations sent |
| `Sms` | `sms.c` | the PDU of the message that waits for the service centre, the identifier to acknowledge |
| `Dtmf` | `call.c` | the tone registered, the tone for the callback |
| `Calls` | `call.c` | the cause of the last call, the hang-up flag |
| `Network` | `network.c` | registration states and operator reported and not yet asked for |
| `Identity` | `misc.c` | nothing of its own: IMEI and IMEISV share one command |
| `Sim` | `sim.c` | card state, stored PIN, verdict per kind of request, lock or file access that waits for PIN2 |

Each has an action per handler and per way it can end. Messages and tones are
named after the token of their request, so that it can be told whose data was
sent. `Handlers` is the suite of all of them but `DataConnections`, which has a
run of its own.

### Around Samsung-RIL (suite `AndroidSide`)

| Module | Code | Subject |
|---|---|---|
| `Clients` | `client.c`, `ipc.c`, `utils.c`, `RIL_Init` | the FMT and RFS threads, event descriptors, retries, one modem's power |
| `Srs` | `srs.c`, `client.c`, `srs-client.c` | accepting thread, client thread, list of clients, restart |
| `OemHook` | `oem.c` | service mode: session, screens, refreshes |
| `JavaRil` | `libril3/SamsungRIL.java` | what callers are told, the SIM toolkit's early commands |
| `Libril` | `ril/libril/ril.cpp` | sockets, pending requests, answers and NITZ from other threads |
| `EventLoop` | `ril/libril/ril_event.cpp` | watch table, timers, wake-up pipe |
| `RequestMemory` | `ril/libril/ril.cpp`, `utils.c` | the strings of a request from parcel to handler; who frees them |
| `Responses` | `ril/libril/ril.cpp` | which structure libril takes an answer for, by its length |
| `SamsungDispatch`, `SamsungAnswers` | `libril/ril.cpp` | the libril adapted to Samsung's own RIL: requests, answers, reports |
| `RadioState` | `libril2/libril/ril.cpp` | the radio state of older RILs, what is derived from it, the debug port |

### Reference RILs and mock RIL (suite `ReferenceRils`)

The mock RIL is `libril3/mock-ril`.

| Module | Code | Subject |
|---|---|---|
| `AtChannel` | `ril/reference-ril/atchannel.c` | command, reader and opening threads; answers found by order alone |
| `ReferenceRil` | `ril/reference-ril/reference-ril.c` | each request by its completions; radio power, technology |
| `ReferenceSim` | `libril2/reference-ril/reference-ril.c` | radio and SIM state of the older version |
| `MockMessages` | `requests.cpp`, `responses.cpp`, `worker_v8.cpp`, `mock_ril.js`, `simulated_icc.js` | a request through queue, workers and back; weak handles |
| `SimulatedRadio` | `simulated_radio.js` | the array of calls and delayed requests |
| `CtrlServer` | `ctrl_server.cpp`, `ctrl_server.js` | control clients, their messages, the V8 lock |

### libsamsung-ipc (suite `ModemLibrary`)

Paths are relative to `external_libsamsung-ipc/samsung-ipc`; "old" is
`external_libsamsung-ipc 2`.

| Module | Code | Subject |
|---|---|---|
| `BootSequences`, `ModemBoot` | `devices/`, old `device/` | each boot function as its sequence of operations, run against a boot loader |
| `Transport` | `devices/`, `ipc_utils.c`, old `device/` | messages in pieces over a driver that fails |
| `IpcClient` | `ipc.c`, `devices/` | descriptors of two clients and their reuse |
| `ModemTool` | `tools/ipc-modem.c`, old `tools/modemctrl.c` | start-up and message handling |
| `IpcMessages` | `call.c`, `gprs.c`, `misc.c`, `net.c`, `sec.c`, `sms.c`, `svc.c`, `utils.c` | layouts, also of messages that arrive cut |
| `NvData`, `NvDataOld` | `rfs.c`, `utils.c`; old `rfs.c` | NV data, backup and checksums over crashes and failing writes |
| `RfsItems` | `rfs.c` here and of Samsung-RIL | items the modem reads and writes |

## 4. Runs

| Run | Module | Result | Properties |
|---|---|---|---|
| `queue` | `RilHandlers` | holds | `TypeOK`, `Mirrored`, `AnsweredOnce`, `NoLostWakeup`, `UnhandledHasReason`, `ExclusiveInOrder`, `RadioNeedsClient`, `AnswersFindTheirRequest`, `ServiceSpec` |
| `live` | `RilHandlers` | holds | `PendingDispatched`, `ExecuteAnswered` |
| `signal` | `RilHandlers` | violated | `SignalStrengthAnswered` |
| `data` | `DataConnections` | holds | `TypeOK`, `TokenQueued`, `SetupOwnConnection`, `DeactivatedRemoved` |
| `data_off` | `DataConnections` | violated | `OffClears` |
| `handlers` | `Handlers` | holds | `TypeOK`, `StoredPduMatches`, `ReportedOnce`, `TonesFollowed`, `CauseOnce`, `SerialWaits`, `CardAsked`, `FreshAfterOutage` |
| `sms_mixed` | `Sms` | violated | `SuccessMeansSent` |
| `android` | `AndroidSide` | holds | `TypeOK`, `RequestsKept`, `DataCarried`, `StateShown`, `AnsweredTruly` |
| `reference` | `ReferenceRils` | holds | `TypeOK`, `CommandsAnswered`, `RadioAsReported`, `CallsConsistent` |
| `modem` | `ModemLibrary` | holds | `TypeOK`, `BootsAndCloses`, `MessagesWhole`, `StorageHolds`, `EverythingEnds` |
| `android_live`, `reference_live` | the same | holds | `EverythingEnds` |

The comment above each property says what it means for the code; a grouped
property of a suite is followed, in the module, by those it consists of. In the
liveness runs of the suites, `Begun(n)` is what must end and `Ended(n)` how, for
each part, and `EverythingEnds` is `Begun(n) ~> Ended(n)` for the first and the
second of them.

**What the violated properties show.**

- `signal`: a `SIGNAL_STRENGTH` answer that arrives below `SIM_NOT_READY` is
  dropped, and a refusal is ignored: the request is never answered. `ril.h`:
  "Must succeed if radio is on."
- `data_off`: the flush frees the first connection and reads its successor from
  the freed node, so that of two connections one stays. `ril.h`: "In any event a
  RIL_REQUEST_RADIO_POWER off/on must clear the list".
- `sms_mixed`: a message sent while a `SEND_SMS_EXPECT_MORE` waits for the
  service centre replaces its PDU; it is reported as sent and was not.

**Bounds.** They are in the `.cfg` files for the core and the handlers, and next
to the state they bound, in the component, for the suites.

- `queue`: three requests of four kinds that differ in how their handlers use
  the queue, so that one can be held back by another and one overtaken; one
  cancel; `SeqMax` 2, so that numbers wrap around with a request outstanding;
  `RetryCount` 3, so that the client is opened again without (first failure)
  and with a power cycle, and gives up. Symmetric in the requests. `live` and
  `signal` have two requests and no symmetry.
- `data`: three requests on two connections and an outage: a cid used again, a
  set-up behind a deactivation, and one more request to meet what they left.
- `handlers`: three requests and an outage; two requests for the SIM, with two
  PINs and two tries, in any order of the modem's answers; two incoming
  messages, two calls, two changes of the registration.
- The suites have two or three actors or messages of each sort, one or two
  failures, crashes or closings, and counters that are cut as the next section
  says, always past the point where the code does something else (a buffer one
  unit shorter than a long message, a table that is full, a retry that is the
  last).

**Deadlock** is not checked in any run: with the bounded requests issued and
answered the programs rest, and in a suite a part may end (a tool exits, a
daemon kills itself, a client gives up).

**Fairness.** `live` and `signal`: `ril_on_request` gets to its signal; the
request thread and the client thread take their next step (weak fairness); the
client thread gets `RIL_LOCK` between passes of the loop and the modem gives
the answers it owes (strong fairness of receiving, because the lock is free and
taken again). Nothing is assumed of libril, of descriptors, or of the modem's
own messages. `ExecuteAnswered` also supposes that the radio stays on from some
time and that numbers do not wrap around: with `SeqMax` 1 it fails, because an
answer is then given to another request.

In the suites, threads, event loops and boot loaders that can go on do (weak
fairness per thread, never of a whole `Next`), a thread that needs a mutex that
is free again and again gets it (strong fairness: the client threads of
`Clients`, the V8 lock of `CtrlServer`), and the outside does its part: the
modem answers or closes the channel, a RIL completes every request it was
given, a client of the control server finishes a message it has begun, reading
from the tool's device fails again and again in the end. Failures, hang-ups,
crashes and reports have no fairness.

## 5. What the models assume

What is outside (modems, SIM cards, the phone process, Samsung's closed RIL of
version 4, V8, `SamsungRIL`'s superclass) is modelled from how the code uses it.
Beyond that, by module:

- `SamsungRil`: `SeqMax` for 255, `RetryCount` for 10. An `old` command is one
  from before a flush.
- `DataConnections`: the flush ends with the first connection. What the code
  does then is undefined (it reads a released node); the model is the outcome in
  which the process lives on and the node is still as it was cleared.
- `Sms`: the part number in the header of a PDU only selects a type of message
  and is not parsed.
- `Clients`, `IpcClient`, `Srs`: `RetryCount` 4, 3 and 2 for 10. `Srs` ends
  when the client is destroyed: what follows an I/O error with no client is not
  defined. `IpcClient` has descriptors up to 5.
- `OemHook`: a handler is one step; its modem answers each command once.
- `JavaRil`: `persist.ril.enable` is false in the first instance, true in the
  second.
- `Libril`: the phone process may break off and connect again at any time; a
  number of a closed descriptor is used again. A second instance has two sockets
  and makes no requests.
- `EventLoop`: a table of 3 places for 8, a clock of 2 steps.
- `RequestMemory`: pointers of 4 bytes, as on the devices; parcels may end
  anywhere. The radio may be ready or not at any time. An IMS message of unknown
  format counts as a parcel that is dropped; one data profile to a request (libril
  never frees its strings).
- `Responses`: structures have the layouts of the compilers' ABIs. At most 8
  calls: the length of 9 calls of version 9 is also that of calls of version 6 on
  32 bits. Cell information, hardware configuration and data connection rates are
  left out.
- `SamsungDispatch`, `SamsungAnswers`: `libril/ril.cpp` does not compile as it
  stands (`CALL_ONREQUEST` with a `socket_id` at line 929, undefined
  `SAMSUNG_UNSOL_STK_SEND_SMS_RESULT` and `RIL_UNSOL_RESPONSE`; `errors.txt` is
  the log of a failed build). The evident meaning is taken, with asserts compiled
  out. One application on the SIM, parcels whole or cut, networks in multiples of
  five strings.
- `RadioState`: writing a message is one step. `OnMain` means that reports are
  made through `RIL_requestTimedCallback`. The states are those of older RILs or
  `ON`. The debug port's power-off closes a watched socket.
- `AtChannel`: the modem sends no `NO CARRIER` while a command waits for its
  answer, which `isFinalResponseError` would take for it.
- `ReferenceSim`: sleeps take no time. In the instance of `StateFollowsModem` the
  modem answers no command with an error.
- `MockMessages`: what runs under the V8 `Locker` is one step; `mock_ril.js`
  loads; the collector may free Buffers C++ still points to and `malloc` may give
  their memory out again, in an instance of its own. `setSignalStrength` is not
  reachable.
- `SimulatedRadio`: `Requests` selects the requests of an instance, delays are
  counted in seconds, the timer of the signal strength is left out.
- `CtrlServer`: `Patient` clients read their answers; the mantissa of a double
  has 4 bits for 53, and one of the tokens does not fit in it.
- `ModemBoot`: words arrive whole; closing discards unread data;
  `IOCTL_MODEM_ON` starts the ROM again. 2 for 51 ATATs, 7 for 50 reads in search
  of an acknowledgement, 2 blocks for an image. `AnswersEach` is false for the
  older loaders.
- `Transport`: the pieces of a message are queued together, a closed device drops
  its queue, the header is in the first piece, lengths of 16 bits are left out, a
  sender that does not loop is given no short writes, `recv` and `send` are
  serialised by their caller's lock. The older xmm6260 is excused after a fault it
  hides. The h1 device is left out.
- `NvData`, `NvDataOld`: writes reach the disk in the order they are made. The
  older library is checked with one crash.
- `RfsItems`: a block too small for its header does not come.
- `IpcMessages`: a hexadecimal digit has 4 values for 16; the byte behind a
  message is arbitrary.
- `ModemTool`: sequence numbers up to 7 for 255; two commands on the command line.

## 6. What the properties except

Where the code as it stands does not keep what a property is about, the model
has that behaviour and the property names it as an exception, so that everything
else is held to it. These are the exceptions. (What a document of the repository
promises and the code does not do is a violated property instead, section 4.)

**Core and handlers**

- `AnswersFindTheirRequest` ends with the first wrap-around of the numbers
  (`ipc.c:99`): after that an answer may reach another request. An expect that
  was left over may restart the client (`gen.c:224`).
- `NoLostWakeup` holds while the radio is on. Going from unavailable to off wakes
  nobody up (`samsung-ril.c:1173-1180`), so that the loop
  may sleep on a `RADIO_POWER` it could dispatch. `UnhandledHasReason` holds until a request is
  cancelled, which wakes nobody up either.
- `TokenQueued` excepts the connections a flush leaves in the list
  (`data.c:132-164`, `utils.c:50-62`), whose requests the outage has answered.
- A set-up whose token is overwritten by a deactivation (`data.c:726`) is never
  answered; the model does so, and no property is about that set-up.
- `CardAsked`: a SIM request is left without an answer when its own was dropped
  below `SIM_NOT_READY`, was a refusal nothing expects, or was a status on which
  the stored PIN was entered instead (`sim.c:226-248`); or when its verdict, which
  is kept by kind of request and looked for in a fixed order (`sim.c:1262`), went
  to another.
- `CauseOnce` says that a cause is given once; the hang-up flag (`call.c:214`)
  goes to whichever call status comes first.
- `TonesFollowed`, second half, ends with the first refusal (`call.c:376`): a tone
  may be left playing.
- A message behind one that was refused is wedged (`sms.c:249`): the model has
  it, no property speaks of it.

**Around Samsung-RIL**

- `AnswersToIssuer`: an answer that a thread is sending when the connection
  ends may go to the next one (`ril/libril/ril.cpp:4124-4186`; line 3398 marks
  only what is in the list).
- `Reachable`: a socket other than the first is listened on for one connection
  (`ril.cpp:3456` adds the event of the first; added twice, it ends the daemon).
- `OwnNumber`: `libril/ril_commands.h` has no row 91, from which on the RIL is
  asked for another request.
- `WholeIsSafe`: request 8, the empty rows 103 and 104, and Samsung's own numbers
  10001 to 10023 end the daemon whatever comes with them, and so does a query of
  a lock without its facility.
- `AcceptedBySize`: an integer of the size of a pointer whose first byte is a
  printable character is taken for a text (`samsung-ril.c:1368`).
- `NoStrayUse`: of a parcel without its single string, or without its bytes, a
  null pointer is used (`ril.cpp:575-583`, `1089-1096`; `samsung-ril.c:543-546`),
  and so is the second string of `SET_FACILITY_LOCK` (`sim.c:550`).
- `Released`: outages, cancellations and early refusals leave strings behind.
- `AnswersCarryData`: the two queries of the registration state (rows 20 and 21,
  `libril/ril_commands.h:37-38`) are answered without their strings.
- `LastToldIsCurrent`: of two reporting threads the one with the older state may
  write last (`libril2/libril/ril.cpp:3197`).
- `LockAsReported` is about one application on the card.

**Reference RILs and mock RIL**

- `AnsweredOnce` of the reference RIL, by `Miscounted`: `SIGNAL_STRENGTH` and
  `SMS_ACKNOWLEDGE` are answered twice, `SET_NETWORK_SELECTION_AUTOMATIC` never,
  and a registration query uses a line an error does not have
  (`reference-ril.c:872-894`, `1762-1784`, `2217`, `1339`).
- `RadioFollows`: a `+CFUN: 0` between the test and the setting of the state is
  overwritten (`reference-ril.c:379-390`), and a response to `AT+CFUN=0` may be
  lost with the channel.
- `TechTold`: EVDO is not taken from a `+CTEC` line; a modem without `AT+CTEC` is
  left out.
- `StateFollowsModem`: after a PIN is entered the older RIL polls the SIM no more
  (`requestEnterSimPin`) and goes on reporting it locked.
- `ErrorsSurvive`: an error of `DIAL` becomes a success. `DataArrives`: `ReqDial`
  loses the user-user information, and a Buffer may be collected under its
  reader. `AnswerAsSent`: nothing sets the index of the CDMA application, nor the
  signal strength.
- `TokensReturned`: JavaScript rounds tokens that no double holds.
- `NoPhantomRing`: six handlers end an incoming call, or cannot place it, without
  stopping its ring (`simulated_radio.js:429-436`, `492-494`, `543-546`,
  `724-727`, `927`, `995-1001`); `mistaken` is then `"unset"`. `RingsUntilAnswered`:
  the hang-up of held calls may stop the ring and not get to the call
  (`450-468`); `mistaken` is `"set"`.

**libsamsung-ipc**

- `NoneLost`, `OwnDescriptors`: on aries an open that fails behind `socket()` loses
  the socket (`aries.c:522-555`) and leaves a 0 (`aries.c:499`) that the retry
  closes, whoever has descriptor 0 (`aries.c:566-575`).
- `DescriptorsBalanced`: the oldest boots close nothing when they fail; those of
  the older library that start from a zeroed record close descriptor 0 as well.
- `HealthyModemBoots`: the boot of aries turns the modem off. `RetriesReachModem`:
  the close handlers of aries and crespo fail without a descriptor and use up the
  retries. `BootedIsLoaded`: the older boots in `Overlooks` return 0 after some failures.
  The old Galaxy Tab's boot may wait for ever (`WaitsForever`, in `Ended`).
- `WholeOrNothing`: the length of an IMSI is not compared with the size of its
  message (`misc.c:43-57`), so that a cut one ends with what lies behind.
- `AnswersFit`, `ReadsSeeWrites`: a write past the end of the NV data is confirmed
  and lets the file grow, after which every read and write is refused
  (`rfs.c:574`, `610`); how many bytes a response carries was never set
  (`rfs.c:667`). The properties speak of what is asked, confirmed and carried, not
  of what is refused for that reason nor of the number of bytes.

## 7. Proofs

Eight modules hold proofs; those of `QueueView`, `Network`, `Dtmf` and `Sim`
follow the specification in the module itself. Everything is for any set of
requests, any kinds, and any values of the bounds: from `ConstantsAssumption`
(`SamsungRil`: any handler table, any positive `SeqMax` and `RetryCount`),
`QueueAssumption` (`None` is no request), `DataAssumption` (at least one cid),
and the assumption of each family of handlers, which only types its constants.

**`SamsungRilProofs`**

- `TypeCorrect`: `Spec => []TypeOK`. Inductive with `RetryLeft`: a client that
  is up has a retry left, otherwise one more failure would take the counter out
  of its range.
- `QueueCorrect` (`ListsAgree`, `OutageClean`, `RadioImpliesClient`):
  `Mirrored`, `AnsweredOnce`, `OutageLeavesNothing` and `RadioNeedsClient`. The
  inductive invariant `QueueInv` adds that tokens in the queue are distinct
  (without it `ril_request_complete`, which removes the first match, could leave a
  request behind), that a request is owed one answer exactly when it is in the
  list, and that the loop only dispatches while the radio is there. It uses that
  removing the first match from two lists with the same tokens removes the same
  position.
- `LoopCorrect` (`WakeupsKept`, `OrderKept`): `NoLostWakeup` (with the radio on;
  at `OFF` it would be false of the code), `UnhandledHasReason` (until a cancel)
  and `ExclusiveInOrder`. `LoopInv` states the second for
  every point of a pass and not only for the sleeping loop: an `UNHANDLED`
  request is blocked, or the loop waits with a wake-up due or a cancel since its
  last pass, or it is about to take the lock and put the request back to
  `PENDING`. The step uses `QueueInv`.
- `AnswersFindRequests`: until the numbers wrap around, an answer to a command
  sent since the last flush finds the request it was sent for, or none, and the
  expect of its own command. `NumberInv` adds that every number in a list, in an
  expect or on the wire is at most the last one given, so the next number is in
  nobody's hands. The step uses `QueueInv`: the client numbers the first request
  of its list with a token, and only because the two lists mirror each other and
  tokens are distinct is that the request the loop dispatched.
- `ServiceImplemented`: `Spec => ServiceSpec`, the refinement of
  `RequestService`. `ServiceStep` maps each action: `OnRequest` issues,
  `DispatchSend` serves (no earlier request of an exclusive kind is left, which
  is `LoopInv` after the step, where the request is `HANDLED`), a completion
  answers, `OnCancel` cancels, an outage answers all that is queued (each is
  owed one answer, by `QueueInv`, so that nobody is left waiting), and every
  other step stutters.

**`QueueView`** has the lemmas the handlers' proofs cite: its `QueueInv` (a
request is in the queue from its being issued until it is answered, once, and
its number was given) is kept by each of the queue's operations, whatever the
types of requests and commands are (`Numberable`, `Ageable`).

**`DataConnectionsProofs`**: `TypesHold`, `TokensQueued`, `SetupsOwnConnection`,
`DeactivatedAreRemoved`. `TokenQueued` is not inductive: whether
the call status that clears a token is about the same connection depends on the
activations under way. For a connection that an outage's flush left in the list
(`leftOver`) it says that the request it names was answered by the outage and is
gone. `Linked`, which is inductive, adds that a waiting connection was
started for its request, that no two wait for one request, that numbers are
distinct, and that the activation sent with a number names the cid of the
connection that waits for it (`Link`). The two action properties follow from it
step by step: a success is answered in `ipc_gprs_call_status` only, for the
token of the connection the status is about.

**`HandlersProofs`** puts together what the modules of the components prove:
a step of the suite is a step of one component (`part` does not change), so each
invariant has the form `part = "x" => X!Inv`.

- `TypesHold`: types, component by component.
- `PdusMatch` (`SmsProofs`): with messages of one kind, `StoredPduMatches`.
  `Matched` ties each command that is under way to the request with its number:
  the request of a service centre query has not been sent and its PDU is the one
  stored. It needs `OneSent`, one handled message at a time, which is what the
  check at `sms.c:211` is for; that check does not see
  `SEND_SMS_EXPECT_MORE`, hence the assumption, and without it run `sms_mixed`
  finds the property violated.
- `MessagesReportedOnce`: the stored identifier is that of the last message and
  larger than all that were acknowledged (`ReportsInv`).
- `TonesAreFollowed` (`Dtmf`): `PlayedInv` (a callback waits for the stop of the
  one request whose tone is stored; every other command's tone was handed over)
  and `FollowedInv` (without failures there is one command at a time and it leads
  to the tone that is registered).
- `CausesGivenOnce`: `CausesKept` says where the cause of a call can be.
- `SerialsWait`: a query that shares the command of another still has a command
  to wait for, by one handled query of each kind.
- `FreshStates` (`Network`): an action property, from `FreshInv`: what is kept is
  not older than the last outage.
- `CardsAsked` (`Sim`): `Asked` says of each command what the request with its
  number is and has been told; the lock is set and the file accessed only after
  the PIN2 of that request was accepted. `AllSpent` says what
  an answer leaves behind: a request that still has its number was left in one of
  the ways of section 6, so that a handled request with no command under way is
  one of those.

Invariants that speak of requests and commands hold `~stale =>`, until an answer
from before an outage comes in: it may have the number of a new request. That
the code cannot tell is a hazard of the core (`AnswersFindTheirRequest`).

**Only model-checked.**

- Liveness (`PendingDispatched`, `ExecuteAnswered`, `EverythingEnds`): fairness
  and ENABLED are out of the prover's reach.
- The grouped properties of `AndroidSide`, `ReferenceRils` and `ModemLibrary`:
  many small components with finite constants of their own, which TLC explores
  whole; several compute with recursive or folding operators over data, where an
  induction over data would be needed.
Before each proof the inductive invariant was an invariant of a run of TLC.

## 8. Not modelled

`rild` (start-up and privileges), `record_stream.c` (one thread's buffer
arithmetic), `samsung-ril-client` (one caller at a time; the server it talks to
is `Srs`), the logs and firmware lists. Of modelled parts: the wake lock and the
network time of libril, its printed summaries, and the copies of its functions in
the other versions where only one is named in `PROJECT.json`; the worker threads
of the mock RIL beyond their queues; the V8 and protobuf glue; the text of AT
commands and lines, the polled list of calls and the TI and QMI variants of the
reference RIL; the preferred network, conversions of responses and the CDMA
service of `SamsungRIL.java`; in libsamsung-ipc device detection from `/proc`, the h1
device, network interfaces, hex dumps and names of commands; in Samsung-RIL
`ipc_gprs_ps`, the HSDPA status and the sound commands' fields.

Of the libril adapted to Samsung's RIL, the functions no row of its tables
refers to; of `ril/libril`, `dispatchVoiceRadioTech` and
`dispatchCdmaSubscriptionSource`, which answer from the radio state and may
complete a request a second time, are modelled in the older version
(`RadioState`).
