# A formal model of the OPTIGA Trust M Arduino library

TLA+ modules, TLC configurations and TLAPS proofs for the host library in
`src/src`: the stack that carries commands from an Arduino sketch to the
Infineon OPTIGA(TM) Trust M security chip over I2C. Line numbers refer to the
files of this repository.

## 1. Inventory

The library is single-threaded and event-driven. A sketch calls the wrapper
class, which starts an operation and spins on `pal_os_event_process()`; every
layer below is a state machine that a one-shot timer or a completion of the
layer beneath it enters. Nothing blocks, nothing is pre-empted; all concurrency
is the interleaving of callbacks, of the device, and of what callers do from
within completion handlers.

| Component | Source (`src/src/...`) | State | Operations and events |
|---|---|---|---|
| Arduino wrapper | `OPTIGATrustM.cpp` | one global `optiga_lib_status`, `me_util`, `me_crypt`, `active` | `begin`, `end`, `pairMCU`, and a synchronous method per command |
| Service layer | `optiga_trustm/optiga_util.c`, `optiga_crypt.c` | `instance_state` of each instance, its parameters | create, destroy, one call per command, completion handler |
| Command layer | `optiga_trustm/optiga_cmd.c` | execution queue, sessions, `last_time_stamp`, per instance `cmd_next_execution_state`, `device_error_status` | create, destroy, `optiga_cmd_execute`, scheduler, execute handler, a handler per command |
| Communication layer | `optiga_trustm/optiga_comms_ifx_i2c.c` | `state` FREE/INUSE | open, transceive, close, reset, event handler |
| I2C stack entry | `optiga_trustm/ifx_i2c.c` | `state`, `status`, `close_state`, reset steps | open, close, transceive, reset, timer callback, PRL callback |
| Presentation layer | `optiga_trustm/ifx_i2c_presentation_layer.c` | handshake state, master/slave sequence numbers, retransmit counter, saved context | init, close, transceive, event handler |
| Transport layer | `optiga_trustm/ifx_i2c_transport_layer.c` | state, packet offsets, chaining error counters, exit timeout | init, transceive, event handler |
| Data link layer | `optiga_trustm/ifx_i2c_data_link_layer.c` | state, two-bit frame numbers, `resynced`, retransmit counter, two frame buffers | init, send frame, receive frame, event handler |
| Physical layer | `optiga_trustm/ifx_i2c_physical_layer.c` | frame state, register access state, negotiation state, retry counter | init, send, receive, PAL event handler, polling timer |
| Event/timer PAL | `optiga_trustm/pal_os_event_arduino.cpp`, `simple_timer/SimpleTimer.cpp` | `is_event_triggered`, a table of 64 timer slots | register one-shot, start, stop, process |
| Other PAL | `pal_i2c_arduino.cpp`, `pal_gpio_arduino.cpp`, `pal_os_timer_arduino.cpp`, `pal_os_datastore_arduino.cpp`, `pal_os_lock_arduino.cpp`, `pal_crypt_mbedtls.c` | buffers, data store | synchronous I/O |
| Support | `Util.c`, `optiga_lib_common.c`, `optiga_lib_logger.c`, `pal_logger_arduino.cpp` | none | conversion, logging |
| Demo code | `optiga_example.c`, `src/examples` | – | sample programs |
| mbed TLS | `src/src/mbedtls` | – | vendored |

**Interaction.** Calls go down, events come up, both synchronous:
wrapper -> util/crypt -> cmd -> comms -> ifx_i2c -> prl -> tl -> dl -> pl -> PAL.
Return values tell whether an operation was started; its result arrives with the
event. The command layer and the physical layer also register one-shot timers.
State is shared across layers through `ifx_i2c_context_t` (frame buffers,
`tl.api_start_time` read by the data link layer, `frame_size` written by the
physical layer's negotiation) and `optiga_context_t` (APDU buffer, queue).

**What is hard.**
* The data link: lost and damaged frames, retransmission, frame numbers modulo
  four, re-synchronisation unknown to the peer, frames built in shared buffers,
  returned errors that are deliberately ignored, a wall-clock exit timeout.
* The command layer: several instances wait for a lock, for one of four
  sessions or for the strict sequence of a protected update; exactly one timer
  must be alive; a 32-bit microsecond clock orders the requests; any step may
  fail; error analysis re-enters the state machine.
* The presentation layer: sequence number windows, retransmissions and
  renegotiation; contexts saved over a hibernate.
* The timers: a full timer table and timers registered from within callbacks.

**What makes each component correct.** Physical layer: each accepted operation
ends with exactly one event, in its ready state. Data link: a reported success
is true, nothing is delivered twice or out of order, every request is answered,
by the exit timeout at the latest unless damaged frames arrive without end (F2).
Transport: fragments are reassembled in
order or the transceive fails, and the layer is usable again. Presentation: a
sequence number is never reused under one key, a replay is refused. `ifx_i2c`
and comms: one operation at a time, one event for it, then free. Command layer:
one command at a time, one completion for each, fairness, sessions, exclusive
strict sequence. Service layer: an instance is busy from call to completion.
Timers: a registered callback is called, once. Wrapper: every method returns.

## 2. Modules

| Module | What it is |
|---|---|
| `DataLink` | `ifx_i2c_data_link_layer.c`, complete: one action per `case` of the handler, per request and per event of the physical layer |
| `Link` | `DataLink` composed with a bus that damages frames and the device at its other end |
| `FrameTransfer` | what an exchange promises to the layer above, abstractly: implemented by `Link`, `Transport` and `Session` |
| `SimpleTimer` | the timer table of `SimpleTimer.cpp`, as operators |
| `Physical` | `ifx_i2c_physical_layer.c` over the timer table and a bus that may refuse any access |
| `FrameService` | what the physical layer promises to the data link, abstractly: implemented by `Physical` |
| `Transport` | `ifx_i2c_transport_layer.c` with a device that chains by the same rules |
| `Session` | `ifx_i2c_presentation_layer.c`, `ifx_i2c.c` and `optiga_comms_ifx_i2c.c` with the device's side of the shielded connection |
| `CmdQueue` | the queue, scheduler and execution state machine of `optiga_cmd.c` |
| `DataLinkProofs` | theorems about `DataLink` |
| `PhysicalProofs` | theorems about `Physical` and its timer table |
| `LinkProofs` | theorems about `Link`: the two ends of the data link agree |
| `TransportProofs` | theorems about `Transport`: types, usable after every exchange |
| `TransportExchangeProofs` | theorems about the contents of `Transport`'s messages, and its refinement |
| `SessionProofs` | theorems about `Session`: numbers, usable after every operation |
| `SessionAnswerProofs` | theorems about what host and device agree on in `Session`, and its refinement |
| `CmdQueueProofs` | theorems about `CmdQueue`: types, one activity, one answer, sessions, strict sequences, order of service |
| `MCDataLink`, `MCLink`, `MCPhysical`, `MCTransport`, `MCSession`, `MCCmdQueue` | small instances for TLC |

The modules stack as the layers do, each resting on what the one below is shown
to promise: `Physical` implements `FrameService`, which is how `DataLink` sees the
physical layer; `Link` implements `FrameTransfer`, and `Transport` uses the data
link as one transfer at a time with one event for each; `Transport` implements
`FrameTransfer` for whole messages, and `Session` uses it as one exchange at a
time; `CmdQueue` uses the communication layer of `Session` as one operation at a
time. The composition is by these interfaces, not one product machine, which
TLC could not explore.

### DataLink and Link

The handler `ifx_i2c_pl_event_handler` is a loop around a `switch`; one action of
`DataLink` is one pass of it, and `event` holds the handler's argument while it
runs (nothing else can happen then). A frame is a record of its type, sequence
control, two numbers, the outcome of the length and CRC tests and its body. A
buffer is a payload plus whether it is still the payload (`whole`): control
frames are built over it. The physical layer appears as what the data link sees
of it: `pl` is ready, writing, reading or negotiating; it accepts a call only
when ready, and is ready again before it calls the handler. A write ends with
success or a fatal error only (`ifx_i2c_physical_layer.c`: a write is retried
until `PL_POLLING_MAX_CNT` runs out, which is fatal), so the branches for a
write that failed without being fatal are dead code and left out.

In `DataLink` the device may answer any frame. In `Link` it is the peer the
protocol expects (it is external to the repository): it acknowledges, NACKs,
repeats, answers, and resets its numbers on a re-sync. `Link` counts what the
device takes and what the host hands up, as history variables.

`FrameTransfer` says: a request ends with an event; a success means that the
peer has the frame; the peer only ever takes the latest frame. `Link` implements
it with `peer <- taken.pay` (`ImplementsTransfer`). Two weaknesses of the
protocol show in the abstraction, not only in the detail: an outcome is
"doubtful" while a re-sync that the host has sent was lost on the bus (both ends
then disagree on the numbers, and a frame may be acknowledged as its
predecessor), and a frame may be taken again after a re-sync.

### Physical and SimpleTimer

Everything in the physical layer happens in callbacks of the timer table, and the
accesses to the bus complete before the call returns (`pal_i2c_arduino.cpp`), so the
handlers are functions: from the layer's state to its new state, the timer it
registers and the event it hands up. `Dispatch` and `Return` are the two halves
of a callback in `SimpleTimer::run`: its slot is freed only after it has returned,
so a callback that registers the next one needs a second slot. The table is
scanned (`Scan`) before any callback is called. What the layer above may do is one
timer of its own and calls from the events it is handed, which is what the command
layer does (`CmdQueue: OneActivity`).

`FrameService` has one action that is not a service: `Stall`. When the bit rate
wanted cannot be set, `PL_AGREE_FREQ` breaks out without an event and without a
timer (`ifx_i2c_physical_layer.c:474`). `pal_i2c_set_bitrate` of the Arduino PAL
(`pal_i2c_arduino.cpp:147`) clamps the rate to 400 kHz and fails only without a
hardware context, so it does not bite with the shipped configuration.

### Transport

One action per way through the handler's `switch`; `event` holds the handler's
argument while it runs. A fragment is told by its chaining field, its presence
bit and its place in the message, not by its bytes. The device executes a command
when its last fragment has come and then has an answer to say; a new fragment of
a command replaces whatever it had to say. It may also say anything out of turn
(`DlStrange`). The link may fail, and may deliver a fragment twice (which `Link`
shows for a lost re-sync). History variables note what was taken twice, because
the protocol cannot tell an INTERMEDIATE fragment from its repetition: the
properties except exactly that, and an exchange in which the device spoke out of
turn ends "doubtful".

### Session

`event` is the event being handled: first as an error (`EnterError`), then in the
loop over the `switch` (one action per way through a case), then in the handler of
the upper layer ("report"), from which calls may come. `call` remembers that the
loop runs inside `ifx_i2c_transceive`, which marks the stack busy when it returns.
`CommsOpen`, `CommsReset`, `CommsTransceive` and `CommsClose` are the whole calls
through the three layers; a call that is refused changes nothing that the next one
does not set. `InitTimer` is the reset sequence of `ifx_i2c_init`.

Keys are numbered by the handshakes that made them; a record is protected with a
key and a number, and can be read only if it is intact. The payload is encrypted
in place, which the model keeps as `sealed`: a payload that is sent again must be
decrypted first, or the device gets it encrypted twice (`dev.garbled`). The
device's own replies, damaged records (also in their number), answers out of turn
and replays of its last answer come through the transport layer. The data store
may be absent, and it and the cryptography may fail.

When the host tells the device that it could not read an answer, the repetition is
decrypted with a length that was set before (`ifx_i2c_presentation_layer.c:438-450`), so an
intact repetition may be read or not (`Misread`). What is not read ends in another
alert or an error; that something is accepted under a wrong length although its
authentication tag was computed over another one is excluded.

### CmdQueue

An instance is its slot. The variables are the fields of the queue slots, the
sessions, the fields of each instance the state machine reads, the registered
timers and the operation the communication layer works on. Application calls
(`Create`, `Destroy`, `Request`, `ReleaseSequence`) interleave with the callbacks:
the scheduler's timer (`Pick`, `PickNone`; a tick that finds nothing to do only
registers itself again, a stutter), an instance's timer and the completion of a
communication, which enter the same state machine (`ExecuteHandler`). The state
decides what happens, so each case is one action whoever enters it. Commands are
abstracted to nine kinds: what lock they take and what the state machine does
after their response; what a handler puts into the APDU is left out.

The clock is modelled by the time stamps taken from it, modulo `Round`; it never
shows the arrival time of a request that still waits, so no two waiting requests
have equal times. `cmd`, `notify` and `chunks` are reset when a command ends;
the code leaves stale values, which the next command overwrites before it reads
them.

A failure to store the hibernate context (`StoreMayFail`) leads to a defect (see
F4). The model follows it through the layer but lets the application make no
more calls, because the stray timer makes everything possible afterwards.

## 3. Runs

| Run | Instance | Shows |
|---|---|---|
| `datalink` | `MCDataLink`: one payload, all frames the handler tells apart, 2 retransmissions | type invariant; no ignored return value ever hides a refused call; a wake-up is never lost; the layer is idle when it answers; completions meet the state that expects them; under fairness, only frames that arrive without end leave a request unanswered |
| `link` | `MCLink`: 3 requests, 2 answers, 2 damaged frames, 1 fatal error, 1 repetition, 1 retransmission | no false success, no double delivery, answers neither lost nor reordered nor damaged |
| `link_live` | the instance of `link` with 2 requests and 1 answer, under fairness: a device that follows the protocol, 2 damaged frames and 1 repetition at most | under these bounds on the damage every request is answered, and `Link` implements `FrameTransfer` |
| `physical` | `MCPhysical`: 2 timer slots, a clock of 13 ticks, 1 retry, 2 addresses | one timer for each request, never two, none dropped; retries and waits keep their limits over the wrap of counter and clock; `Physical` implements `FrameService` |
| `transport` | `MCTransport`: 2 exchanges of 1 to 3 fragments, buffers that fit and that do not, 3 faults, 1 re-initialisation | a success is the whole answer to this command, a command is executed whole and once, the rest of an answer too long is drained, the layer is usable again; `Transport` implements `FrameTransfer` |
| `session` | `MCSession`: 2 requests, 2 openings or resets, 1 close, 2 faults | numbers are used once per key, a success is the genuine answer, what is sent has the protection asked for, a command is executed once, the stack is usable again; `Session` implements `FrameTransfer` |
| `cmdqueue` | 3 instances, 1 session, clock of 5 values, data and session commands | sessions are sound; locks are served in the order of arrival |
| `cmdqueue_all` | 2 instances, all kinds of command but plain, context store may fail, under fairness | one activity, one answer, uninterrupted strict sequence, no starvation |
| `datalink_exit_timeout` | `MCDataLink` with a device that only sends damaged frames | F2 |
| `link_resend` | `MCLink` with one request | F1 |
| `cmdqueue_earliest` | as `cmdqueue` | F3 |
| `cmdqueue_hibernate` | as `cmdqueue_all` | F4 |

**Bounds and why they are enough.** Frame numbers are modulo four in the model
as in the code; three requests and the re-syncs pass the wrap. Two damaged
frames are enough for the known hard cases of a stop-and-wait link: the frame
and its repetition, or the frame and the acknowledgement. `DL_TRANS_REPEAT` is 3
in the code; 1 (2 in `datalink`) reaches the re-sync with fewer steps. Three
instances and one session are the least in which one holds the session, one
waits for it and one overtakes; the scheduler treats slots alike. A clock of 3
or 5 values wraps in every long behaviour. `MaxChunks` = 1 gives a second APDU
for one command, the only case in which the error analysis differs.
`CHECK_DEADLOCK FALSE` in the `cmdqueue` runs: the idle scheduler is a stutter,
and an idle system may rest. In `transport` and `session` nobody has to start
another exchange, so the system may rest as well; that it never rests with an
exchange under way is `Usable` and `ImplementsExchange`.

`physical`: the clock (2^32 in the code) has to exceed the longest limit plus the
time between two readings, which 13 ticks do for limits of 2 and 4; it wraps in
every behaviour. Two slots are the least with which a callback can register the
next one (the code has 64). The retry counter is 1, so that its wrap below zero
(2^16 in the code) is one failed access away. `transport`: fragments of two bytes,
lengths below, at and above the boundaries; three faults are a broken chain in
each direction and one more. `session`: the threshold is 3 of 6 numbers (2^32 - 16
of 2^32) and one repetition (3), which `NumberAssumption` relates as the code's
values are related: a session is exhausted after two or three records, so that a
restored session can be exhausted as well.

**Fairness.** `DataLink` and `Link`: the handler's loop runs to its end; the
physical layer ends every operation, since each of its waits has a retry counter
or a timeout and its timers are served by the event loop; time passes. Steps of
the device and the bus are never obliged to happen, but **liveness rests on an end
of the damage**: in `Link` the bus damages at most `MaxNoise` frames and the device,
which follows the protocol, repeats itself unasked at most `MaxRepeats` times.
Without these bounds `Answered` is false, of the model as of the code: F2 is a
behaviour, fair to the host, in which a request is never answered. What holds of any
device and any bus is `AnsweredUnlessFlooded`: either frames are received again and
again for ever, or every request is answered. `ImplementsTransfer` needs the same
end of the damage for its liveness, and the fairness of the layers above, which
says that the layer below answers, inherits it. `Physical`: the
main loop calls `pal_os_event_process`, at most `MaxLate` ticks after a timer is due,
and callbacks return. `Transport`: the handler's loop runs to its
end and the data link answers (`Link`: `Answered`, as long as the damage ends).
`Session`: the handler's loop,
the timers of the reset sequence and the transport layer; only one of them is ever
to continue (`Usable`), so one condition on their disjunction is enough. Nothing is
assumed of the upper layer. `CmdQueue`: the event loop serves every
registered timer, and the communication layer ends every operation (`ImplementsExchange`
of `Session`, over `Transport`, over `Answered` with its end of the damage); so
`Served` is about the order of service, not about the link. Nothing is assumed of the application; so
`Served` excludes a strict sequence that its owner never ends.

## 4. Findings

* **F1, code bug** (`link_resend`, `TakenWhole`). A NACK is built in
  `tx_frame_buffer` like an ACK to a new data frame; its CRC lands in bytes 3
  and 4, which hold the transport header and the first payload byte
  (`ifx_i2c_data_link_layer.c:219-260`). If the frame is retransmitted after that, it goes out
  with a fresh, valid CRC and a corrupted content, although the code means to
  "Re-Transmit frame" (line 469).
* **F2, code and comment disagree** (`datalink_exit_timeout`,
  `ExitTimeoutHonoured`). `TL_MAX_EXIT_TIMEOUT` is tested on retransmissions only
  (line 291). As long as the device's frames arrive damaged, the handler answers
  each with a NACK and never looks at the time, so a request may stay unanswered for
ever. `AnsweredUnlessFlooded` shows that nothing but frames without end does this.
* **F3, code and comment disagree** (`cmdqueue_earliest`, `EarliestFirst`).
  Rule 4 of the scheduler (`optiga_cmd.c:603`) promises the earliest arrival. A
  session request that was passed over while the sessions were taken stays
  behind `last_time_stamp` and is overtaken by later requests even when a
  session is free; it is served only when nothing newer waits, or after the
  clock has wrapped.
* **F4, code bug** (`cmdqueue_hibernate`, `HandlerOnce`). When the close for a
  hibernate succeeds on the device but the context cannot be stored, the state
  machine reads the last error code, finds 0, and both registers its timer
  (`optiga_cmd.c:1280`) and releases the lock (line 1122). The timer then calls
  the completion handler a second time, or runs the instance's next command
  without the lock. The store of this PAL never fails for this context
  (`pal_os_datastore_arduino.cpp:142-152`, a place marked "!!!OPTIGA_LIB_PORTING_REQUIRED"),
  so the defect needs a ported one. A response that breaks the format of its command
  (`optiga_cmd.c:2585`, `3064-3081`) takes the same path, but needs a device that sends
  one; the model leaves it out.

Behaviours the models follow and their properties except by name, without a
document of the repository that says otherwise:

* `optiga_comms_close` with SAVE after an exchange that asked for RE_ESTABLISH sends
  the last payload again in place of the request to save
  (`ifx_i2c_presentation_layer.c:645-652`); `hist.sent_at_close` in `Session`.
* An answer too long for the buffer ends with MEM_ERROR and keeps the session, but
  its number was never looked at, so the window does not move; the same for an
  answer that the device replaced by an alert. `hist.lost` in `Session`.
* After a volatile change of the slave address a soft reset is sent to the first
  address, at which the device no longer listens (`ifx_i2c_physical_layer.c:154`);
  `hist.strayed` in `Physical`.
* An INTERMEDIATE fragment that is delivered twice cannot be told from the next
  one; `hist.repeated_tx`, `hist.repeated_rx` in `Transport`.
* A fatal alert of the device keeps the session unless repetitions are used up.
* `OPTIGATrustM.cpp` (`pairMCU`) does not look at the result of writing the secret
  into the data store.

## 5. Proofs

`DataLinkProofs` proves for every `Payload`, every set of answers and every
`DL_TRANS_REPEAT`: `TypeCorrect`, `NeverRefused`, `WakeupNeverLost`,
`IdleAfterAnswer` and `CompletionExpected`, that is, all five invariants of the run
`datalink` (`AnsweredUnlessFlooded` is liveness and stays with TLC).
None but the type invariant is inductive: whether a call is refused depends on the physical layer being ready while the handler runs, which depends
on no request being under way when it is not. The inductive invariant of the
module joins the five properties with what ties `state`, `pl`, `event` and
`request` together at the points between two passes of the loop; there is one
step lemma per action. The assumptions are those of `DataLink`: `NoPayload` is no
payload, `DL_TRANS_REPEAT` a natural number, the answers are frames.

`CmdQueueProofs` proves for any number of instances and sessions, any range of
the clock and any set of commands: `CmdTypeCorrect`, `OneActivityHolds`,
`OneAnswerHolds` and `SessionsSoundHolds`. That the layer has exactly one thing to
do is not inductive: whether a callback may register the scheduler's timer
depends on whether it was the only thing under way, and that on who has the
lock. The inductive invariant `IInv` says:

* `Turn`: either the scheduler has its timer or one instance works, and while
  one works the scheduler is not even marked as registered (`triggered`, the
  flag on which `pal_os_event_start` decides);
* `Lock`: at most one slot is PROCESSING or RESUME. A holder that does not work is
  between two fragments of a strict sequence (`Paused`), and then the scheduler
  is marked: without this, releasing the sequence would start a second timer;
* `Entry`: how the queue entry, the caller and the timers of an instance belong
  together; `Command`: in which states the state machine can be with which
  command; `Started`: nothing happens before the first instance;
* `Stray`: a timer without a command, and a handler called once too often, need
  a failed store (F4).

The lemmas follow the code: `EndStep`, `WorkStep` and `PauseStep` are the three ways
in which a callback may leave the state machine (lock released, still at work,
sequence paused), and every case of `optiga_cmd_execute_handler` is shown to be one
of them. `SchedulerAlone` is the heart of the scheduler's steps: if rule 1 and 2 of
`optiga_cmd_queue_scheduler` do not apply, nobody but a resuming instance has the
lock. The sessions have a small invariant of their own.

The second part of the module builds on `IInv` and proves the two action properties.
`StrictSequenceHolds`: between two fragments of a strict sequence, and until the next
one is sent, the last APDU on the wire was the previous fragment of the same
instance. Its invariant `WInv` also has to know that a fragment the device has
rejected is not reported as the end of a fragment. `LockFifoHolds`: as long as the
clock does not wrap, a request for a lock is never overtaken. Its invariant `FInv`
says that time stamps are in the order of arrival, that who has the lock was
scheduled last, and that no request but one for a session is older than that: the
second is what keeps the third when a strict sequence is resumed, which sets
`last_time_stamp` to the arrival of its first fragment. TLC has checked `FInv` on
the instances of both runs.

`PhysicalProofs` proves for every number of slots of at least two, every number of retries,
every range of counter and clock, and whatever the bus and the device do, all
properties of the run `physical` but liveness: `PhysicalTypeCorrect`,
`PhysicalOneWakeup`, `PhysicalNothingDropped`, `PhysicalRetryBounded`,
`PhysicalSameAddress`, the action property `PhysicalPatience`, and
`PhysicalImplementsService`: initial state and steps of `FrameService` are simulated
(its fairness is left to TLC). The invariant `PInv` says that at most one timer is yet
to run (`Sound`), in which states a request can meet which callback (`Waits`), how
failed attempts and attempts left add up (`Counts`: the counter may be beyond the
limit, having wrapped, only where no access is under way), and that a read is
at least as old as the difference of the clock shows (`Aged`). The handlers
are functions, so most of the proof is about them: `Leaves` is what a handler may
leave behind, and the lemmas that conclude it follow the handlers one by one;
`HandlesStep` and `StartStep` turn it into the step of the invariant and of the
service. The table has its own lemmas (`SetTimerFacts`, `CalledFacts`,
`DeletedFacts`, `ScannedFacts`).

`TransportProofs` proves for fragments, commands, answers and buffers of every size
and any number of exchanges and faults: `TransportTypeCorrect`, which contains the
bounds of the buffers (what has been received fits, what has been sent is within
the command, whatever the device sends), and `TransportUsable`. `Usable` is not
inductive: the silent acknowledgement of the last fragment would leave the layer
waiting in another state. `TInv` adds which operation of the data link each state
waits for and which events can therefore meet it (`Expected`); there is one step
lemma per action and one about the device.

`TransportExchangeProofs` proves the other properties of the run `transport`, again
for every length and any number of faults: `TransportWholeAnswer`,
`TransportExecutesWhole`, `TransportExecutesOnce`, `TransportDrained` and
`TransportImplementsExchange`, the simulation of the abstract exchange. Its invariant
`Contents` follows a message across the two ends: what the device has of a command
ends where the next fragment begins (`CommandSync`), once it has executed the
command it has no reason to complain, so that nothing is sent again (`Once`), and what
the host has copied ends where the device goes on with its answer, or the device
begins again (`Offered`, `AnswerSync`). The device's side is reasoned about once
(`TakesAgrees`, `TakesAgain`). TLC has checked `TInv /\ Contents` on all 592,352 states
of the run.

`LinkProofs` proves for every set of payloads, any number of requests, answers,
damaged frames and failed operations: `LinkTypeCorrect`, `LinkNoFalseSuccess`,
`LinkTakenOnce`, `LinkAnswerNotLost`, `LinkAnswersInOrder` and `LinkImplementsTransfer`.
None but the type invariant could be inductive: each is about a frame and its acknowledgement, which may have been
written, taken, damaged or answered already. The invariant `Agreed` says that the numbers
of the two ends differ by at most the frame under way, except between a re-sync and its
arrival (`SendSync`, `RecvSync`); what is being written (`Written`), also after a re-sync
(`Restarted`); that an undamaged frame of the device speaks of the device as it is now
(`Said`, `Looked`); and what an accepted answer implies while its acknowledgement
is being written (`Accepted`). The numbers are those of the code, modulo 4. TLC has checked
`IInv /\ Agreed` on the 1,633,204 states of the run's instance and, past a wrap of the
frame numbers, on the 6,475,603 states of one with six requests.

`SessionProofs` proves for every threshold, window and number of repetitions that
`NumberAssumption` allows, any number of calls, sessions and faults:

* `SessionTypeCorrect`: neither number ever wraps, nor does the end of the receive
  window. Numbers go past the threshold while a record is repeated, so the
  bound is not of a state but of a path: `MasterBound` and `SlaveBound` say how far
  the numbers of the two sides can be in each state, from the counters of
  repetitions and of unreadable answers. The margin needed is R (R + 2) numbers for
  R repetitions: 15 for the code's 3, where the code leaves 16.
* `SessionUsable`: exactly one thing continues an operation, and a free stack takes the
  next call, also one made from within the completion handler. It needs `Called`: which
  states an event can find while `ifx_i2c_transceive` has not returned, because
  that call marks the stack busy afterwards unless the last event was an error.
* `SessionNumbersUsedOnce`: no number protects two records under one key. `Numbers`
  says that no number above the current one was used with the key in use, nor with
  the key of the session that is saved; that these are two different keys, unless
  there is none; and that the saved session is given up before the device is
  asked to restore it. `Keys` says that every key comes from an earlier handshake.

The lemmas `LoopStep`, `SendStep`, `ErrorStep`, `CalmStep`, `OuterStep` and
`TransportStep` are the ways a step can go; every action is shown to be one of
them. What the device may say is bounded once (`DeviceFacts`, `DamagedTakes`,
`StrangeTakes`). Before the proof, TLC met no violation of the
inductive invariant in the first millions of states of two instances, with one
repetition and with two; neither was searched to the end.

`SessionAnswerProofs` goes on from there, for any number of requests, sessions, faults and
answers out of turn. Its five invariants rest on each other:

* `Asked` says what is sent in each state and under which key, from the call to the record,
  through alerts, repetition, renegotiation and restoring: `SessionAsAsked`.
* `Once`: up to the point where the device has taken the record, and again when it has
  refused it, the device has not executed the request (`Untouched`), and a payload
  that is still encrypted is only sent again where a record is repeated (`Sealing`):
  `SessionExecutesOnce`.
* `Agrees` is about the two ends: the device has the host's key and has seen no
  number the host has yet to use, in the session in use (`Shared`) and in the one
  that is saved or being restored (`Stored`); and it is asked for its last
  answer only when it has it (`Ordered`). `SessionAgrees`.
* `Story` says that a request under way keeps the layers engaged until it is reported,
  which is what the simulation of the abstract exchange needs: `SessionImplementsExchange`.
* `Answers` gives `SessionGenuineAnswer`. The window lets in whatever is newer than the last
  answer accepted, so the invariant says where every such answer is: the
  last answer of the device, if the window would let it in, is the one the host waits for
  or was lost (`Last`, and `LastSaved` for a session that is saved); no answer was given
  yet under a key that is being agreed (`Distinct`); what has been received is the
  current answer or a lost one (`Received`); a session that was asked for anew
  begins with no lost answer (`Renewed`).

TLC has checked the conjuncts of `Agrees` and `Answers` on the 8,761,758 states of an
instance with three requests, two faults and two answers out of turn, before `Misread`
and the key of a failed handshake were added to the model; the proof covers both.
The attempt to
prove `GenuineAnswer` strengthened what is stated: the exception for a lost answer does not
apply when a new session was asked for, the device has always executed the
command that success is reported for, and `AsAsked` also says that a new session is
new. It also showed a branch of the model that the code does not have: the
MEM_ERROR that keeps the session comes only from a data answer
(`ifx_i2c_transport_layer.c:418` and `:461`), never from the reply to a handshake or
to a request to save or restore.

The assumptions are those of `CmdQueue`: at least one slot, a clock with more
values than there are slots, `MaxChunks` and `MAX_SESSIONS` natural numbers; those of
`Transport`: fragments and messages are not empty; those of `Link`: payloads are
numbered, and the answers are payloads as well; those of
`Physical`: two timer slots, a counter that holds the number of retries; those of `Session`: the margin
above the threshold, and that a device starts below it. TLC has
checked the inductive invariants of `CmdQueue` on the instance of `cmdqueue_all`.

Every invariant of the passing runs, and every action property among their properties,
is stated by a theorem, and for every abstract specification a theorem says that initial
states and steps are simulated. Only proved: `LinkTypeOK`, the type invariant of `Link` (its run leaves
the frame numbers to `TypeOK` of `datalink`). Only model-checked: liveness (`Answered`, `AnsweredUnlessFlooded`, `Served`) and the fairness in
`ImplementsTransfer`, `ImplementsExchange` and `ImplementsFrameService`, since
fairness and ENABLED are beyond the prover. Facts by induction over data and
RECURSIVE operators are out of its reach as well; no module uses them.

## 6. Not modelled

* CRC arithmetic, frame and APDU layout, the ciphers themselves: data, not
  control. `optiga_cmd.c` builds an APDU per command and takes its response apart;
  that is half of its lines, and `CmdQueue` has the control around it.
* The service layer (`optiga_util.c`, `optiga_crypt.c`) beyond what `CmdQueue` needs
  of it: one command per instance at a time, completion in the handler. Its functions
  are straight lines that fill in parameters.
* The Arduino wrapper: it waits in a loop for one global status. `pairMCU` is a
  straight sequence of commands without recovery.
* The UNINIT state before the first initialisation of the data link, and a
  failing physical layer initialisation (it cannot fail in this configuration).
* `ifx_i2c_set_slave_address` while an operation is under way: nobody calls it then
  (the code tests only that the stack is idle, `ifx_i2c.c:212`).
* The size of a fragment is computed by `ifx_i2c_tl_init` before the negotiation may
  lower the frame size; the frame lengths are not compared over the layers.
* The receive length of the presentation layer, which grows by the overhead
  a second time when the master's threshold makes it negotiate again.
* The calls of the timer library nobody makes: intervals, restart, enable, toggle.
* Use of an instance after a stray timer (F4).
* `src/src/mbedtls` (vendored; four fifths of the lines of `src/`), logging,
  `Util.c`, `optiga_example.c`, the examples.

## 7. Plan

Done: data link, physical layer with timers, transport layer, presentation layer
with stack entry and communication layer, command layer; the abstract
specifications between them. What is left, in this order:

1. An abstract specification of the command layer (who waits, who is served, one
   answer each), with the proof that `CmdQueue` simulates it.
2. `DataObject`: chained reads and writes of `optiga_cmd.c` with their offsets,
   against a reference; the error code taken for data (hazard list).
3. `Service`: util and crypt instances with re-entry from the handler, and the
   wrapper's wait loop, over `CmdQueue`.
