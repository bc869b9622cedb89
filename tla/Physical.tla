------------------------------ MODULE Physical -------------------------------
(***************************************************************************)
(* The physical layer of the I2C stack (ifx_i2c_physical_layer.c) on top   *)
(* of the timer table it waits with and an I2C bus that may refuse any     *)
(* access: soft reset, negotiation of bit rate and frame size, reading and *)
(* writing of registers with retries, polling for a frame of the device.   *)
(*                                                                         *)
(* Everything happens in callbacks of the timer table.  The layer above    *)
(* calls in from the events it is handed and from a timer of its own, of   *)
(* which it has one, and none while it waits for the physical layer: so    *)
(* does the command layer (CmdQueue: OneActivity).                         *)
(*                                                                         *)
(* A frequency is one of three classes and a frame size one of three.      *)
(* MaxLate bounds how late the main loop comes to a timer that is due.     *)
(***************************************************************************)
EXTENDS SimpleTimer

CONSTANTS
  PL_POLLING_MAX_CNT,  \* further attempts after a failed access to the bus
  CounterSize,         \* retry_counter counts modulo CounterSize
  Delay,               \* the delay each callback is registered with
  Timeouts,            \* values of dl.data_poll_timeout
  Frequency,           \* p_ctx->frequency, the bit rate wanted
  FullFrame,           \* p_ctx->frame_size before the negotiation
  Addresses,           \* slave addresses
  MaxLate

Callbacks == {"poll", "guard", "status_poll", "negotiation", "soft_reset", "upper"}

ASSUME PhysicalAssumption ==
  /\ PL_POLLING_MAX_CNT \in Nat \ {0} /\ CounterSize \in Nat
  /\ PL_POLLING_MAX_CNT < CounterSize
  /\ Delay \in [Callbacks -> Nat \ {0}]
  /\ Timeouts \subseteq Nat \ {0}
  /\ Frequency \in Nat /\ FullFrame \in Nat \ {0}
  /\ MaxLate \in Nat /\ Addresses # {}
\* One timer at a time is enough: its slot is still taken while it is replaced.
ASSUME SlotAssumption == MAX_TIMERS >= 2
ASSUME ClockAssumption ==
  \A c \in Callbacks : Delay[c] + MaxLate < ClockSize

VARIABLES
  pl,      \* p_ctx->pl, with frame_size, dl.frame_start_time and
           \* dl.data_poll_timeout; register is the one addressed in buffer[0]
  timer,   \* the timer table
  now,     \* the clock
  addr,    \* slave addresses: of the context, of the PAL, of the device now and
           \* of the device after a reset
  event,   \* what is being handed to the layer above; "wake": its own timer
  hist     \* for the properties: the request under way, what was last
           \* reported, failed accesses since the register was addressed, the
           \* age of the read up to its limit, whether a timer was dropped, and
           \* whether a soft reset began at another address than the device's

vars == <<pl, timer, now, addr, event, hist>>

SM_FM_MAX == 2     \* PL_SM_FM_MAX_FREQUENCY
Sizes == 0 .. FullFrame + 1

\* What the device may answer to the reading of a register.
Blank == [ready |-> FALSE, soft |-> FALSE, value |-> 0]
Readings(register) ==
  CASE register = "I2C_STATE" ->
         {Blank, [Blank EXCEPT !.soft = TRUE]} \cup {[Blank EXCEPT !.ready = TRUE, !.value = v] : v \in Sizes}
    [] register = "MAX_SCL_FREQU" -> {[Blank EXCEPT !.value = v] : v \in 1 .. SM_FM_MAX + 1}
    [] register = "DATA_REG_LEN" -> {[Blank EXCEPT !.value = v] : v \in 1 .. FullFrame + 1}
    [] OTHER -> {Blank}

-----------------------------------------------------------------------------
(* The handlers, as functions: the new state of the layer, the timer they   *)
(* register and the event they hand up.  "ok" and "rate" are the answers of *)
(* the PAL to an access to the bus and to the setting of the bit rate.      *)

After(p, callback) == [pl |-> p, callback |-> callback, event |-> "none"]

\* Nothing reads these after a request has been answered before they are set
\* again; blanking them keeps the instances small.
Forgotten(p) ==
  [p EXCEPT !.buffer = Blank, !.register = "none", !.register_action = "none",
            !.i2c_cmd = "none", !.frame_action = "none",
            !.negotiate_state = "DONE", !.request_soft_reset = "none",
            !.frame_start_time = 0, !.data_poll_timeout = 0]

Report(p, state, e) ==
  [pl |-> [Forgotten(p) EXCEPT !.frame_state = state], callback |-> "none", event |-> e]

\* Mutant: a signed counter.
DecrementedSigned(p) == [p EXCEPT !.retry_counter = @ - 1]

\* The counter is decremented in the test, also from zero.
Decremented(p) == [p EXCEPT !.retry_counter = (@ + CounterSize - 1) % CounterSize]

\* ifx_i2c_pl_pal_event_handler, called from within the access to the bus
pal_event_handler(p, ok) ==
  IF ok THEN After(p, "guard")
  ELSE IF p.retry_counter # 0 THEN After(Decremented(p), "poll")
  ELSE Report(Decremented(p), "READY", "FATAL")

\* Mutant: a new access goes on with the counter of the last.
AddressedUncounted(p, action, register) ==
  [p EXCEPT !.register_action = action, !.register = register, !.i2c_cmd = "WRITE",
            !.buffer = Blank]

Addressed(p, action, register) ==
  [p EXCEPT !.register_action = action, !.register = register, !.i2c_cmd = "WRITE",
            !.buffer = Blank, !.retry_counter = PL_POLLING_MAX_CNT]

read_register(p, register, ok) == pal_event_handler(Addressed(p, "READ", register), ok)
write_register(p, register, ok) == pal_event_handler(Addressed(p, "WRITE", register), ok)

\* PL_INIT_DONE
NegotiationDone(p, e) == Report(p, IF e = "SUCCESS" THEN "READY" ELSE "UNINIT", e)

\* ifx_i2c_pl_set_bit_rate: further attempts come from a timer.
BitRateAgain(p, otherwise) ==
  IF p.retry_counter # 0 THEN After(Decremented(p), "negotiation")
  ELSE [After(Decremented(p), otherwise) EXCEPT !.pl.negotiate_state = "DONE"]

\* PL_INIT_SET_FREQ_DEFAULT, GET_FREQ_REG
SetFreqDefault(p, ok, rate) ==
  IF rate THEN read_register([p EXCEPT !.negotiate_state = "SET_FREQ_REG"], "MAX_SCL_FREQU", ok)
  ELSE BitRateAgain(p, "negotiation")

\* PL_INIT_AGREE_FREQ, SET_DATA_REG_LEN: when the attempts are used up, nothing
\* will call the handler again.
AgreeFreq(p, ok, rate) ==
  IF rate THEN write_register([p EXCEPT !.negotiate_state = "GET_DATA_REG_LEN"], "DATA_REG_LEN", ok)
  ELSE BitRateAgain([p EXCEPT !.negotiate_state = "AGREE_FREQ"], "none")

VerifyFreq(p, ok, rate) ==
  IF Frequency > p.buffer.value THEN NegotiationDone([p EXCEPT !.negotiate_state = "DONE"], "ERROR")
  ELSE AgreeFreq(p, ok, rate)

\* The device is put into the mode the bit rate wanted belongs to.
SetFreqReg(p, ok, rate) ==
  IF (Frequency > SM_FM_MAX) # (p.buffer.value > SM_FM_MAX)
    THEN write_register([p EXCEPT !.negotiate_state = "READ_FREQ"], "I2C_MODE", ok)
    ELSE VerifyFreq(p, ok, rate)

VerifyDataReg(p) ==
  LET done == [p EXCEPT !.negotiate_state = "DONE"]
  IN IF p.frame_size >= p.buffer.value
       THEN NegotiationDone([done EXCEPT !.frame_size = p.buffer.value], "SUCCESS")
       ELSE NegotiationDone(done, "ERROR")

\* ifx_i2c_pl_negotiation_event_handler
negotiation_event_handler(p, ok, rate) ==
  CASE p.negotiate_state = "SET_FREQ_DEFAULT" -> SetFreqDefault(p, ok, rate)
    [] p.negotiate_state = "SET_FREQ_REG"     -> SetFreqReg(p, ok, rate)
    [] p.negotiate_state = "READ_FREQ"        ->
         read_register([p EXCEPT !.negotiate_state = "VERIFY_FREQ"], "MAX_SCL_FREQU", ok)
    [] p.negotiate_state = "VERIFY_FREQ"      -> VerifyFreq(p, ok, rate)
    [] p.negotiate_state = "AGREE_FREQ"       -> AgreeFreq(p, ok, rate)
    [] p.negotiate_state = "GET_DATA_REG_LEN" ->
         read_register([p EXCEPT !.negotiate_state = "VERIFY_DATA_REG"], "DATA_REG_LEN", ok)
    [] p.negotiate_state = "VERIFY_DATA_REG"  -> VerifyDataReg(p)
    [] p.negotiate_state = "DONE"             -> NegotiationDone(p, "ERROR")

\* Mutant: the correction for a wrapped clock is off by one.
TimeStampDiffOff(p) ==
  IF p.frame_start_time > now THEN Elapsed(now, p.frame_start_time) + 1
  ELSE now - p.frame_start_time

time_stamp_diff(p) == Elapsed(now, p.frame_start_time)

\* No frame yet, or one that cannot be: look again later, or give up.
PollAgain(p) ==
  IF time_stamp_diff(p) < p.data_poll_timeout
    THEN After(p, "status_poll")
    ELSE Report(p, "READY", "ERROR")

DataAvailable(p, ok) ==
  IF p.buffer.ready /\ p.buffer.value \in 1 .. p.frame_size
    THEN read_register([p EXCEPT !.frame_state = "RXTX"], "DATA", ok)
    ELSE PollAgain(p)

\* ifx_i2c_pl_soft_reset
soft_reset(p, ok, rate) ==
  CASE p.request_soft_reset = "GET_STATUS_REG" ->
         read_register([p EXCEPT !.request_soft_reset = "WRITE"], "I2C_STATE", ok)
    [] p.request_soft_reset = "WRITE" ->
         IF p.buffer.soft
           THEN write_register([p EXCEPT !.request_soft_reset = "STARTUP"], "SOFT_RESET", ok)
           ELSE Report(p, "READY", "ERROR")
    [] p.request_soft_reset = "STARTUP" ->
         After([p EXCEPT !.request_soft_reset = "INIT"], "soft_reset")
    [] p.request_soft_reset = "INIT" ->
         negotiation_event_handler([p EXCEPT !.frame_state = "INIT"], ok, rate)

\* ifx_i2c_pl_frame_event_handler with IFX_I2C_STACK_SUCCESS; a write does not
\* look at the status.
frame_event_handler(p, ok, rate) ==
  CASE p.frame_state = "SOFT_RESET"     -> soft_reset(p, ok, rate)
    [] p.frame_state = "INIT"           -> negotiation_event_handler(p, ok, rate)
    [] p.frame_state = "READY" /\ p.frame_action = "READ" ->
         read_register([p EXCEPT !.frame_state = "DATA_AVAILABLE"], "I2C_STATE", ok)
    [] p.frame_state = "READY" /\ p.frame_action = "WRITE" ->
         write_register([p EXCEPT !.frame_state = "RXTX"], "DATA", ok)
    [] p.frame_state = "DATA_AVAILABLE" -> DataAvailable(p, ok)
    [] p.frame_state = "RXTX"           -> Report(p, "READY", "SUCCESS")
    [] p.frame_state = "UNINIT"         -> Report(p, "INIT", "ERROR")

-----------------------------------------------------------------------------
(* The callbacks of the timer table                                         *)

\* An access reaches the device at its address only.
Answers(ok) == ok => addr.pal = addr.device

\* What a handler has left behind: its state, its timer, its event.  "failed"
\* says that an access to the bus was made, and refused.
Effect(r, t) ==
  /\ pl' = r.pl
  /\ timer' = IF r.callback = "none" THEN t ELSE setTimer(t, r.callback, Delay[r.callback], now)
  /\ event' = r.event
  /\ UNCHANGED now

Noted(h, r, t) ==
  [h EXCEPT !.request = IF r.event = "none" THEN h.request ELSE "none",
            !.reported = IF r.event = "none" THEN h.reported ELSE r.event,
            !.dropped = @ \/ (r.callback # "none" /\ FreeSlots(t) = {}),
            !.age = IF r.event = "none" THEN @ ELSE 0,
            !.fails = IF r.callback = "guard" \/ r.event # "none" THEN 0
                      ELSE IF r.callback = "poll" THEN h.fails + 1 ELSE h.fails]

Dispatch(callback) ==
  /\ timer.calling = 0 /\ timer.toBeCalled # {}
  /\ timer.slots[Next_called(timer)].callback = callback

Handles(r) == Effect(r, Called(timer)) /\ hist' = Noted(hist, r, Called(timer))

\* ifx_i2c_pal_poll_callback: the access is made again.
PollCallback(ok, reading) ==
  /\ Dispatch("poll") /\ Answers(ok)
  /\ reading \in IF pl.i2c_cmd = "READ" /\ ok THEN Readings(pl.register) ELSE {Blank}
  /\ Handles(pal_event_handler([pl EXCEPT !.buffer = reading], ok))
  /\ UNCHANGED addr

\* ifx_i2c_pl_guard_time_callback: the register has been addressed and is read,
GuardTimeRead(ok, reading) ==
  /\ Dispatch("guard") /\ Answers(ok)
  /\ pl.register_action = "READ" /\ pl.i2c_cmd = "WRITE"
  /\ reading \in IF ok THEN Readings(pl.register) ELSE {Blank}
  /\ Handles(pal_event_handler([pl EXCEPT !.i2c_cmd = "READ", !.buffer = reading], ok))
  /\ UNCHANGED addr

\* or the access is complete.  A device that was told to reset itself has its
\* first address again.
GuardTimeDone(ok, rate) ==
  /\ Dispatch("guard") /\ Answers(ok)
  /\ pl.register_action = "WRITE" \/ pl.i2c_cmd = "READ"
  /\ Handles(frame_event_handler(pl, ok, rate))
  /\ addr' = IF pl.register = "SOFT_RESET" THEN [addr EXCEPT !.device = addr.reset] ELSE addr

\* ifx_i2c_pl_status_poll_callback
StatusPollCallback(ok) ==
  /\ Dispatch("status_poll") /\ Answers(ok)
  /\ Handles(read_register(pl, "I2C_STATE", ok))
  /\ UNCHANGED addr

NegotiationCallback(ok, rate) ==
  /\ Dispatch("negotiation") /\ Answers(ok)
  /\ Handles(negotiation_event_handler(pl, ok, rate))
  /\ UNCHANGED addr

SoftResetCallback(ok, rate) ==
  /\ Dispatch("soft_reset") /\ Answers(ok)
  /\ Handles(soft_reset(pl, ok, rate))
  /\ UNCHANGED addr

UpperCallback ==
  /\ Dispatch("upper")
  /\ timer' = Called(timer)
  /\ event' = "wake"
  /\ UNCHANGED <<pl, now, addr, hist>>

\* The callback returns to run(), which frees its slot.
Return ==
  /\ timer.calling # 0 /\ event = "none"
  /\ timer' = Deleted(timer)
  /\ UNCHANGED <<pl, now, addr, event, hist>>

-----------------------------------------------------------------------------
(* The layer above.  It acts when it is handed an event or by its timer.    *)

Upper == event # "none"

Requested(r, kind) ==
  [Noted(hist, r, timer) EXCEPT !.request = kind, !.reported = "none", !.age = 0]

Requests(r, kind) == Effect(r, timer) /\ hist' = Requested(r, kind)

\* ifx_i2c_pl_init, from ifx_i2c_init; pins reset the device before unless a
\* soft reset is asked for.
Initialised(soft) ==
  [pl EXCEPT !.frame_state = IF soft THEN "SOFT_RESET" ELSE "INIT",
             !.negotiate_state = "SET_FREQ_DEFAULT",
             !.request_soft_reset = IF soft THEN "GET_STATUS_REG" ELSE @,
             !.retry_counter = PL_POLLING_MAX_CNT]

PlInit(soft, ok, rate) ==
  /\ event = "wake" /\ hist.request = "none"
  /\ soft => hist.reported # "none"
  /\ addr' = [addr EXCEPT !.pal = addr.ctx, !.device = IF soft THEN @ ELSE addr.reset]
  /\ ok => addr'.pal = addr'.device
  /\ LET r == frame_event_handler(Initialised(soft), ok, rate)
     IN /\ Effect(r, timer)
        /\ hist' = [Requested(r, "init") EXCEPT !.strayed = soft /\ addr.ctx # addr.device]

Accepted == hist.request = "none" /\ hist.reported # "none" /\ pl.frame_state \in {"INIT", "READY"}

\* ifx_i2c_pl_send_frame
PlSendFrame(ok, rate) ==
  /\ Upper /\ Accepted /\ Answers(ok)
  /\ Requests(frame_event_handler([pl EXCEPT !.frame_action = "WRITE"], ok, rate), "tx")
  /\ UNCHANGED addr

\* ifx_i2c_pl_receive_frame; the data link sets the time and the limit first.
PlReceiveFrame(timeout, ok, rate) ==
  /\ Upper /\ Accepted /\ Answers(ok)
  /\ Requests(frame_event_handler([pl EXCEPT !.frame_action = "READ", !.frame_start_time = now,
                                             !.data_poll_timeout = timeout], ok, rate), "rx")
  /\ UNCHANGED addr

\* The layer above is done with the event, and may leave a timer behind.
UpperReturns(again) ==
  /\ Upper
  /\ again => hist.request = "none" /\ Waiting(timer) = {}
  /\ timer' = IF again THEN setTimer(timer, "upper", Delay["upper"], now) ELSE timer
  /\ hist' = [hist EXCEPT !.dropped = @ \/ (again /\ FreeSlots(timer) = {})]
  /\ event' = "none"
  /\ UNCHANGED <<pl, now, addr>>

\* The application starts something between two rounds of the main loop.
AppStarts ==
  /\ timer.calling = 0 /\ hist.request = "none" /\ InUse(timer) = {}
  /\ timer' = setTimer(timer, "upper", Delay["upper"], now)
  /\ hist' = [hist EXCEPT !.dropped = @ \/ FreeSlots(timer) = {}]
  /\ UNCHANGED <<pl, now, addr, event>>

\* Mutant: the context keeps its address.
ReaddressedHere(address, persistent) ==
  [addr EXCEPT !.pal = address, !.device = address,
               !.reset = IF persistent THEN address ELSE @]

Readdressed(address, persistent) ==
  [addr EXCEPT !.pal = address, !.device = address,
               !.ctx = IF persistent THEN address ELSE @,
               !.reset = IF persistent THEN address ELSE @]

\* ifx_i2c_pl_write_slave_address: a loop that waits for the bus; it ends with
\* the first success or with retry_counter at zero.  It is called from outside the
\* main loop's callbacks and with no request under way; ifx_i2c_set_slave_address
\* itself tests only that the stack is idle.
PlWriteSlaveAddress(address, persistent, ok) ==
  /\ timer.calling = 0 /\ timer.toBeCalled = {}
  /\ hist.request = "none" /\ pl.frame_state = "READY" /\ hist.reported = "SUCCESS"
  /\ Answers(ok)
  /\ pl' = [pl EXCEPT !.buffer = Blank, !.retry_counter = IF ok THEN PL_POLLING_MAX_CNT ELSE 0]
  /\ addr' = IF ok THEN Readdressed(address, persistent) ELSE addr
  /\ UNCHANGED <<timer, now, event, hist>>

-----------------------------------------------------------------------------
(* The main loop and the clock                                              *)

\* SimpleTimer::run, first pass
Scan ==
  /\ timer.calling = 0 /\ timer.toBeCalled = {} /\ Due(timer, now) # {}
  /\ timer' = Scanned(timer, now)
  /\ UNCHANGED <<pl, now, addr, event, hist>>

\* The main loop is not late for any timer by more than MaxLate; a round of
\* callbacks is taken to last less than a tick.
Tick ==
  /\ timer.calling = 0 /\ timer.toBeCalled = {}
  /\ \A i \in InUse(timer) :
       Elapsed(now, timer.slots[i].prev) < timer.slots[i].delay + MaxLate
  /\ now' = (now + 1) % ClockSize
  /\ hist' = [hist EXCEPT !.age = IF hist.request = "rx" /\ @ < pl.data_poll_timeout
                                        THEN @ + 1 ELSE @]
  /\ UNCHANGED <<pl, timer, addr, event>>

Init ==
  /\ pl = [frame_state |-> "UNINIT", negotiate_state |-> "SET_FREQ_DEFAULT",
           request_soft_reset |-> "none", frame_action |-> "none",
           register_action |-> "none", register |-> "none", i2c_cmd |-> "none",
           retry_counter |-> 0, buffer |-> Blank, frame_size |-> FullFrame,
           frame_start_time |-> 0, data_poll_timeout |-> 0]
  /\ timer = EmptyTable
  /\ now \in Clock
  /\ \E a \in Addresses : addr = [ctx |-> a, pal |-> a, device |-> a, reset |-> a]
  /\ event = "none"
  /\ hist = [request |-> "none", reported |-> "none", fails |-> 0, age |-> 0,
             dropped |-> FALSE, strayed |-> FALSE]

AnyReading == UNION {Readings(r) : r \in {"I2C_STATE", "MAX_SCL_FREQU", "DATA_REG_LEN", "DATA"}}

Callback ==
  \/ \E ok \in BOOLEAN, reading \in AnyReading : PollCallback(ok, reading) \/ GuardTimeRead(ok, reading)
  \/ \E ok \in BOOLEAN, rate \in BOOLEAN :
       GuardTimeDone(ok, rate) \/ NegotiationCallback(ok, rate) \/ SoftResetCallback(ok, rate)
  \/ \E ok \in BOOLEAN : StatusPollCallback(ok)
  \/ UpperCallback

UpperActs ==
  \/ \E ok \in BOOLEAN, rate \in BOOLEAN, soft \in BOOLEAN : PlInit(soft, ok, rate)
  \/ \E ok \in BOOLEAN, rate \in BOOLEAN : PlSendFrame(ok, rate)
  \/ \E ok \in BOOLEAN, rate \in BOOLEAN, timeout \in Timeouts : PlReceiveFrame(timeout, ok, rate)
  \/ \E again \in BOOLEAN : UpperReturns(again)

Next ==
  \/ Scan \/ Callback \/ Return \/ UpperActs \/ Tick \/ AppStarts
  \/ \E a \in Addresses, persistent \in BOOLEAN, ok \in BOOLEAN : PlWriteSlaveAddress(a, persistent, ok)

Spec == Init /\ [][Next]_vars

\* The main loop runs the table again and again, time passes, and the layer
\* above returns from what it is called for.
Fairness ==
  /\ WF_vars(Scan) /\ WF_vars(Callback) /\ WF_vars(Return) /\ WF_vars(Tick)
  /\ WF_vars(\E again \in BOOLEAN : UpperReturns(again))

FairSpec == Spec /\ Fairness

-----------------------------------------------------------------------------
(* Properties                                                               *)

FrameStates == {"UNINIT", "INIT", "READY", "DATA_AVAILABLE", "RXTX", "SOFT_RESET"}
NegotiateStates == {"SET_FREQ_DEFAULT", "SET_FREQ_REG", "READ_FREQ", "VERIFY_FREQ",
                    "AGREE_FREQ", "GET_DATA_REG_LEN", "VERIFY_DATA_REG", "DONE"}
Registers == {"none", "I2C_STATE", "MAX_SCL_FREQU", "DATA_REG_LEN", "DATA", "I2C_MODE", "SOFT_RESET"}

\* Types; the table counts its timers, and a slot that is to be called, or is
\* being called, holds a callback.
PhysicalTypeOK ==
  /\ pl \in [frame_state : FrameStates, negotiate_state : NegotiateStates,
             request_soft_reset : {"none", "GET_STATUS_REG", "WRITE", "STARTUP", "INIT"},
             frame_action : {"none", "READ", "WRITE"}, register_action : {"none", "READ", "WRITE"},
             register : Registers, i2c_cmd : {"none", "READ", "WRITE"},
             retry_counter : 0 .. CounterSize - 1, buffer : {Blank} \cup AnyReading,
             frame_size : 1 .. FullFrame, frame_start_time : Clock,
             data_poll_timeout : {0} \cup Timeouts]
  /\ timer.slots \in [Slots -> [callback : Callbacks \cup {"none"}, delay : Nat, prev : Clock]]
  /\ timer.numTimers = Cardinality(InUse(timer))
  /\ timer.toBeCalled \subseteq Waiting(timer) /\ timer.calling \in {0} \cup InUse(timer)
  /\ now \in Clock
  /\ addr \in [ctx : Addresses, pal : Addresses, device : Addresses, reset : Addresses]
  /\ event \in {"none", "wake", "SUCCESS", "ERROR", "FATAL"}
  /\ hist \in [request : {"none", "init", "tx", "rx"}, reported : {"none", "SUCCESS", "ERROR", "FATAL"},
               fails : Nat, age : Nat,
               dropped : BOOLEAN, strayed : BOOLEAN]

\* The bit rate wanted could not be set: nothing will go on.
Stalled ==
  /\ hist.request = "init" /\ pl.negotiate_state = "DONE"
  /\ \A i \in Waiting(timer) : timer.slots[i].callback = "upper"

\* While a request is under way exactly one timer will continue it, and
\* otherwise none is left of it.  (A second one would work on the buffer and
\* the counters of the first; without one the caller waits for ever.)
OneWakeup ==
  Cardinality({i \in Waiting(timer) : timer.slots[i].callback # "upper"})
    = IF hist.request = "none" \/ Stalled THEN 0 ELSE 1

\* No timer is dropped for want of a slot, although a running callback keeps
\* its own: one more slot than the layers have timers is enough.
NothingDropped == ~hist.dropped

\* An access is given up after PL_POLLING_MAX_CNT further attempts, although
\* the counter wraps below zero then.
RetryBounded == hist.fails <= PL_POLLING_MAX_CNT

\* A read is not given up before its time has passed, also when the clock
\* wraps in between.
Patience ==
  [][(hist.request = "rx" /\ event' = "ERROR" /\ event # "ERROR")
       => hist.age = pl.data_poll_timeout]_vars

\* The host speaks to the address the device listens to.  (Not when a soft
\* reset follows a volatile change of the address: ifx_i2c_pl_init goes back to
\* the first address before the device has been told to.)
SameAddress ==
  addr.pal = addr.device \/ hist.strayed

Service == INSTANCE FrameService WITH
  request <- IF Stalled THEN "stalled" ELSE hist.request,
  reported <- hist.reported,
  ready <- hist.request = "none" /\ pl.frame_state = "READY"

\* The layer is the frame service the data link is built on.
ImplementsFrameService == Service!Spec
=============================================================================
