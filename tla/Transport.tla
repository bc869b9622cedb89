------------------------------ MODULE Transport ------------------------------
(***************************************************************************)
(* The transport layer of the I2C stack (ifx_i2c_transport_layer.c): it    *)
(* cuts a command into fragments, puts the answer together from fragments, *)
(* and repairs a broken chain once in each direction.                      *)
(*                                                                         *)
(* Below it stands the data link as DataLink and Link show it: one         *)
(* transfer at a time, one event for each, and a fragment that is taken    *)
(* twice only when the frame numbers were reset in between.  The peer is a *)
(* device that chains by the same rules; its code is not part of the       *)
(* repository.                                                             *)
(*                                                                         *)
(* A fragment is told by its place in the message, not by its bytes.       *)
(* MaxRequests bounds the exchanges, MaxInits the re-initialisations, and  *)
(* MaxFaults, together, the failures of the link, the fragments delivered  *)
(* twice and the frames the device sends out of turn.                      *)
(***************************************************************************)
EXTENDS Naturals

CONSTANTS
  MaxPacket,       \* tl.max_packet_length: the bytes of a full fragment
  CommandLengths,  \* lengths of the commands the upper layer sends
  AnswerLengths,   \* lengths of the device's answers
  BufferSizes,     \* sizes of the upper layer's receive buffer
  MaxRequests, MaxFaults, MaxInits

ASSUME SizeAssumption ==
  /\ MaxPacket \in Nat \ {0}
  /\ CommandLengths \subseteq Nat \ {0} /\ AnswerLengths \subseteq Nat \ {0}
  /\ BufferSizes \subseteq Nat
ASSUME BudgetAssumption ==
  MaxRequests \in Nat /\ MaxFaults \in Nat /\ MaxInits \in Nat

\* The chaining field of a fragment's header (pctr).
Chain == {"NO", "FIRST", "INTERMEDIATE", "LAST", "ERROR"}

\* A fragment: bytes from + 1 .. from + len of the message of exchange "of";
\* pres is the presence bit.
Fragment == [chain : Chain, pres : BOOLEAN, of : Nat, from : Nat, len : Nat]
BlankFragment == [chain |-> "NO", pres |-> FALSE, of |-> 0, from |-> 0, len |-> 0]
ChainingError == [BlankFragment EXCEPT !.chain = "ERROR"]

VARIABLES
  tl,     \* p_ctx->tl
  event,  \* the data link's event being handled; kind "none": no handler runs
  dl,     \* the data link: "idle", or busy with "tx" or "rx"
  dl_frame, \* the fragment being sent
  dev,    \* the device
  used,   \* faults used up
  hist    \* history of the current exchange, for the properties only:
          \* its number, how it ended ("pending" before), what was last
          \* reported, whether the buffer holds the beginning of the answer,
          \* the chaining of the fragments taken twice (tx, rx), and whether
          \* the device spoke out of turn (odd)

vars == <<tl, event, dl, dl_frame, dev, used, hist>>

NoEvent == [kind |-> "none", frame |-> BlankFragment, data_len |-> 0]
EventOf(kind, f) == [kind |-> kind, frame |-> f, data_len |-> f.len + 1]
Silent(kind) == [NoEvent EXCEPT !.kind = kind]

Lesser(a, b) == IF a < b THEN a ELSE b
Again(n) == IF n = 0 THEN 1 ELSE 2

\* ifx_i2c_tl_calculate_pctr
calculate_pctr(offset, length) ==
  IF length - offset <= MaxPacket
    THEN IF offset = 0 THEN "NO" ELSE "LAST"
    ELSE IF offset = 0 THEN "FIRST" ELSE "INTERMEDIATE"

FragmentAt(of, offset, length) ==
  [chain |-> calculate_pctr(offset, length), pres |-> TRUE, of |-> of,
   from |-> offset, len |-> Lesser(MaxPacket, length - offset)]

\* g_pctr_states_table: the chaining that may come before
AllowedBefore(chain) ==
  CASE chain \in {"NO", "FIRST"}          -> {"NO", "LAST"}
    [] chain \in {"INTERMEDIATE", "LAST"} -> {"FIRST", "INTERMEDIATE"}
    [] chain = "ERROR"                    -> {"ERROR"}

-----------------------------------------------------------------------------
(* The device                                                               *)

DeviceReset ==
  [prev |-> "NO", got |-> 0, sound |-> TRUE,  \* the command so far
   complains |-> FALSE,                       \* a chaining error is to be sent
   of |-> 0, length |-> 0, sent |-> 0,        \* the answer and what is sent of it
   executed |-> 0, times |-> 0, whole |-> TRUE] \* the last command executed,
                                              \* how often, and unaltered

\* A fragment is added to the command; a complete command is executed and its
\* answer of n bytes replaces all there was to say.
Accepts(d, f, n) ==
  LET before == IF f.chain \in {"NO", "FIRST"} THEN 0 ELSE d.got
      sound  == f.from = before /\ (before = 0 \/ d.sound)
      taken  == [d EXCEPT !.got = before + f.len, !.sound = sound,
                          !.complains = FALSE, !.of = 0]
  IN IF f.chain \in {"NO", "LAST"}
       THEN [taken EXCEPT !.prev = "NO", !.of = f.of, !.length = n, !.sent = 0,
                          !.executed = f.of, !.whole = sound,
                          !.times = IF d.executed = f.of THEN Again(d.times) ELSE 1]
       ELSE [taken EXCEPT !.prev = f.chain]

Refuses(d) == [d EXCEPT !.prev = "NO", !.got = 0, !.complains = TRUE, !.of = 0]

\* The host's chaining error makes the device start its answer again.
DeviceTakes(d, f, n) ==
  IF f.chain = "ERROR" THEN [d EXCEPT !.sent = 0, !.complains = FALSE]
  ELSE IF d.prev \in AllowedBefore(f.chain) THEN Accepts(d, f, n)
  ELSE Refuses(d)

HasToSay(d) == d.complains \/ (d.of # 0 /\ d.sent < d.length)
Says(d) == IF d.complains THEN ChainingError ELSE FragmentAt(d.of, d.sent, d.length)
HasSaid(d) ==
  IF d.complains THEN [d EXCEPT !.complains = FALSE]
  ELSE [d EXCEPT !.sent = @ + Lesser(MaxPacket, d.length - d.sent)]

\* What the device may send out of turn: any chaining, with and without data,
\* and a fragment that lacks the presence bit.
StrangeFragments ==
  {BlankFragment} \cup
  {[chain |-> c, pres |-> TRUE, of |-> 0, from |-> 0, len |-> l] :
     c \in Chain, l \in {0, MaxPacket}}

-----------------------------------------------------------------------------
(* ifx_i2c_dl_event_handler: one action for each way through its switch.    *)
(* An action either leaves the handler or goes round the loop again with    *)
(* the same event in another state.                                         *)

Running   == event.kind # "none"
data_len  == event.data_len
chaining  == event.frame.chain
TxSuccess == event.kind \in {"tx", "txrx"}
RxSuccess == event.kind \in {"rx", "txrx"}

\* presence_bit_check: not for the first event after the initialisation
PresenceFails ==
  /\ data_len # 0 /\ ~tl.initialization_state
  /\ chaining \in {"NO", "FIRST"} /\ ~event.frame.pres

Broken == event.kind = "error" \/ PresenceFails

Pass(s) == Running /\ ~Broken /\ tl.state = s
Entered == [tl EXCEPT !.initialization_state = FALSE]

Again_in(t, s) ==
  /\ tl' = [t EXCEPT !.state = s]
  /\ UNCHANGED <<event, dl, dl_frame>>

\* ifx_i2c_dl_send_frame and ifx_i2c_dl_receive_frame are refused unless the
\* data link is idle; only some callers look at the return value.
dl_send_frame(f) ==
  IF dl = "idle" THEN dl' = "tx" /\ dl_frame' = f ELSE UNCHANGED <<dl, dl_frame>>

dl_receive_frame ==
  IF dl = "idle" THEN dl' = "rx" /\ UNCHANGED dl_frame ELSE UNCHANGED <<dl, dl_frame>>

StateAfterCall(s) == IF dl = "idle" THEN s ELSE "ERROR"

\* ifx_i2c_tl_send_next_fragment
NextFragment(t, number) == FragmentAt(number, t.packet_offset, t.actual_packet_length)
\* Mutant: the header is counted with the data.
FragmentSentWithHeader(t, number) ==
  [t EXCEPT !.packet_offset = Lesser(@ + NextFragment(t, number).len + 1, t.actual_packet_length)]

FragmentSent(t, number) == [t EXCEPT !.packet_offset = @ + NextFragment(t, number).len]

\* The upper layer is told; what it starts in answer is a step of its own.
Told(h, what) ==
  [h EXCEPT !.reported = what,
            !.outcome = IF what # "SUCCESS" THEN "failed"
                        ELSE IF h.odd THEN "doubtful" ELSE "ok"]

UnsentRest == tl.packet_offset < tl.actual_packet_length

TxNextFragment ==
  /\ Pass("TX") /\ TxSuccess /\ UnsentRest /\ chaining # "ERROR" /\ data_len = 0
  /\ tl' = FragmentSent(Entered, hist.current)
  /\ dl_send_frame(NextFragment(tl, hist.current))
  /\ event' = NoEvent
  /\ UNCHANGED <<dev, used, hist>>

TxChainingError ==
  /\ Pass("TX") /\ TxSuccess /\ UnsentRest /\ chaining = "ERROR"
  /\ Again_in(Entered, "RESEND")
  /\ UNCHANGED <<dev, used, hist>>

TxUnexpected ==
  /\ Pass("TX")
  /\ ~TxSuccess \/ (UnsentRest /\ chaining # "ERROR" /\ data_len # 0)
  /\ Again_in(Entered, "ERROR")
  /\ UNCHANGED <<dev, used, hist>>

\* Mutant: the reception is not started.
TxCompleteWaits ==
  /\ Pass("TX") /\ TxSuccess /\ ~UnsentRest
  /\ tl' = [Entered EXCEPT !.total_recv_length = 0, !.previous_chaining = "NO",
                            !.transmission_completed = TRUE, !.state = "RX"]
  /\ event' = IF RxSuccess THEN event ELSE NoEvent
  /\ UNCHANGED <<dl, dl_frame, dev, used, hist>>

\* All is sent.  The answer may have come with the acknowledgement.
TxComplete ==
  /\ Pass("TX") /\ TxSuccess /\ ~UnsentRest
  /\ LET t == [Entered EXCEPT !.total_recv_length = 0, !.previous_chaining = "NO",
                              !.transmission_completed = TRUE]
     IN IF RxSuccess
          THEN Again_in(t, "RX")
          ELSE /\ tl' = [t EXCEPT !.state = StateAfterCall("RX")]
               /\ dl_receive_frame
               /\ event' = NoEvent
  /\ UNCHANGED <<dev, used, hist>>

Draining == tl.error_event = "MEM_ERROR"
\* Mutant: the chaining is not checked.
ChainedAlways == chaining \in Chain
Chained  == tl.previous_chaining \in AllowedBefore(chaining)
Received == tl.total_recv_length + data_len - 1
\* Mutant: the fragment itself is not counted.
OverflowBefore == tl.total_recv_length > tl.rx_size
Overflow == Received > tl.rx_size

RxData == Pass("RX") /\ RxSuccess /\ data_len # 0

\* memcpy to the receive buffer at total_recv_length
Copied(h) ==
  [h EXCEPT !.sound = /\ event.frame.of = hist.current
                      /\ event.frame.from = tl.total_recv_length
                      /\ tl.total_recv_length = 0 \/ hist.sound]

RxUnexpected ==
  /\ Pass("RX") /\ (~RxSuccess \/ data_len = 0 \/ (Draining /\ chaining = "LAST"))
  /\ Again_in(Entered, "ERROR")
  /\ UNCHANGED <<dev, used, hist>>

\* The rest of an answer that does not fit is received and dropped.
RxDrain ==
  /\ RxData /\ Draining /\ chaining # "LAST"
  /\ dl_receive_frame
  /\ IF dl = "idle" THEN tl' = Entered /\ event' = NoEvent
                    ELSE tl' = [Entered EXCEPT !.state = "ERROR"] /\ event' = event
  /\ UNCHANGED <<dev, used, hist>>

RxNotChained ==
  /\ RxData /\ ~Draining /\ ~Chained
  /\ Again_in(Entered, "RESEND")
  /\ UNCHANGED <<dev, used, hist>>

RxAccepted == RxData /\ ~Draining /\ Chained
Accepted == [Entered EXCEPT !.previous_chaining = chaining]

RxComplete ==
  /\ RxAccepted /\ chaining \in {"NO", "LAST"} /\ ~Overflow
  /\ tl' = [Accepted EXCEPT !.state = "IDLE", !.total_recv_length = Received]
  /\ event' = NoEvent
  /\ hist' = [Told(Copied(hist), "SUCCESS") EXCEPT !.length = Received]
  /\ UNCHANGED <<dl, dl_frame, dev, used>>

RxOverflow ==
  /\ RxAccepted /\ chaining \in {"NO", "LAST"} /\ Overflow
  /\ Again_in([Accepted EXCEPT !.error_event = "MEM_ERROR"], "ERROR")
  /\ UNCHANGED <<dev, used, hist>>

RxChaining ==
  /\ RxAccepted /\ chaining \notin {"NO", "LAST"}
  /\ Again_in(Accepted, "CHAINING")
  /\ UNCHANGED <<dev, used, hist>>

ChainingBadLength ==
  /\ Pass("CHAINING") /\ data_len # MaxPacket + 1
  /\ Again_in(Entered, "CHAINING_ERROR")
  /\ UNCHANGED <<dev, used, hist>>

\* Mutant: the rest of the answer is not waited for.
ChainingOverflowReports ==
  /\ Pass("CHAINING") /\ data_len = MaxPacket + 1 /\ Overflow
  /\ Again_in([Entered EXCEPT !.error_event = "MEM_ERROR"], "ERROR")
  /\ UNCHANGED <<dev, used, hist>>

ChainingOverflow ==
  /\ Pass("CHAINING") /\ data_len = MaxPacket + 1 /\ Overflow
  /\ Again_in([Entered EXCEPT !.error_event = "MEM_ERROR"], "RX")
  /\ UNCHANGED <<dev, used, hist>>

ChainingCopy ==
  /\ Pass("CHAINING") /\ data_len = MaxPacket + 1 /\ ~Overflow
  /\ tl' = [Entered EXCEPT !.state = StateAfterCall("RX"), !.total_recv_length = Received,
                           !.previous_chaining = chaining]
  /\ dl_receive_frame
  /\ event' = NoEvent
  /\ hist' = Copied(hist)
  /\ UNCHANGED <<dev, used>>

\* Mutant: whatever does not chain makes the host send again.
NeverForDevice == data_len > 1 /\ ~tl.transmission_completed

\* An answer with data that does not chain is for the device to repeat.
ForDeviceToRepeat == data_len > 1 /\ tl.transmission_completed

ResendToChainingError ==
  /\ Pass("RESEND") /\ ForDeviceToRepeat
  /\ Again_in(Entered, "CHAINING_ERROR")
  /\ UNCHANGED <<dev, used, hist>>

ResendCounted == [Entered EXCEPT !.chaining_error_count = @ + 1]

\* ifx_i2c_tl_resend_packets; transmission_completed keeps its value
Resend ==
  /\ Pass("RESEND") /\ ~ForDeviceToRepeat /\ tl.chaining_error_count = 0
  /\ LET t == [ResendCounted EXCEPT !.packet_offset = 0, !.total_recv_length = 0]
     IN /\ tl' = [FragmentSent(t, hist.current) EXCEPT !.state = StateAfterCall("TX")]
        /\ dl_send_frame(NextFragment(t, hist.current))
  /\ event' = IF dl = "idle" THEN NoEvent ELSE event
  /\ UNCHANGED <<dev, used, hist>>

ResendTooOften ==
  /\ Pass("RESEND") /\ ~ForDeviceToRepeat /\ tl.chaining_error_count # 0
  /\ Again_in(ResendCounted, "ERROR")
  /\ UNCHANGED <<dev, used, hist>>

ChainingErrorCounted == [Entered EXCEPT !.master_chaining_error_count = @ + 1]

\* ifx_i2c_tl_send_chaining_error
SendChainingError ==
  /\ Pass("CHAINING_ERROR") /\ tl.master_chaining_error_count = 0
  /\ tl' = [ChainingErrorCounted EXCEPT !.total_recv_length = 0,
                                        !.state = StateAfterCall("TX")]
  /\ dl_send_frame(ChainingError)
  /\ event' = IF dl = "idle" THEN NoEvent ELSE event
  /\ UNCHANGED <<dev, used, hist>>

ChainingErrorTooOften ==
  /\ Pass("CHAINING_ERROR") /\ tl.master_chaining_error_count # 0
  /\ Again_in(ChainingErrorCounted, "ERROR")
  /\ UNCHANGED <<dev, used, hist>>

\* Mutant: only a frame with data brings the layer back to idle.
ReportErrorSticks ==
  /\ Running /\ (Broken \/ tl.state = "ERROR")
  /\ LET what == IF Broken THEN "STACK_ERROR" ELSE tl.error_event
     IN /\ tl' = [Entered EXCEPT !.error_event = what,
                    !.state = IF data_len # 0 THEN "IDLE" ELSE "ERROR"]
        /\ hist' = Told(hist, what)
  /\ event' = NoEvent
  /\ UNCHANGED <<dl, dl_frame, dev, used>>

\* A broken event ends the exchange whatever the state.  Without an error of
\* the link and without data the state stays ERROR.
ReportError ==
  /\ Running /\ (Broken \/ tl.state = "ERROR")
  /\ LET what == IF Broken THEN "STACK_ERROR" ELSE tl.error_event
     IN /\ tl' = [Entered EXCEPT !.error_event = what,
                    !.state = IF event.kind = "error" \/ data_len # 0
                                THEN "IDLE" ELSE "ERROR"]
        /\ hist' = Told(hist, what)
  /\ event' = NoEvent
  /\ UNCHANGED <<dl, dl_frame, dev, used>>

Handler ==
  \/ TxNextFragment \/ TxChainingError \/ TxUnexpected \/ TxComplete
  \/ RxUnexpected \/ RxDrain \/ RxNotChained \/ RxComplete \/ RxOverflow \/ RxChaining
  \/ ChainingBadLength \/ ChainingOverflow \/ ChainingCopy
  \/ ResendToChainingError \/ Resend \/ ResendTooOften
  \/ SendChainingError \/ ChainingErrorTooOften
  \/ ReportError

-----------------------------------------------------------------------------
(* The upper layer                                                          *)

TlReset(t) == [t EXCEPT !.state = "IDLE", !.initialization_state = TRUE]

\* ifx_i2c_tl_transceive
Transceive(length, size) ==
  /\ ~Running /\ tl.state = "IDLE" /\ hist.current < MaxRequests
  /\ LET t == [tl EXCEPT !.state = "TX", !.actual_packet_length = length,
                         !.packet_offset = 0, !.rx_size = size,
                         !.total_recv_length = 0, !.chaining_error_count = 0,
                         !.master_chaining_error_count = 0,
                         !.transmission_completed = FALSE,
                         !.error_event = "STACK_ERROR"]
         number == hist.current + 1
     IN /\ tl' = FragmentSent(t, number)
        /\ dl_send_frame(NextFragment(t, number))
        /\ hist' = [hist EXCEPT !.current = number, !.outcome = "pending",
                                !.reported = "none", !.length = 0, !.sound = TRUE,
                                !.repeated_tx = {}, !.repeated_rx = {}, !.odd = FALSE]
  /\ UNCHANGED <<event, dev, used>>

\* ifx_i2c_tl_init, when the stack is opened again; the device is reset first.
TlInit ==
  /\ ~Running /\ hist.outcome # "pending" /\ used.inits < MaxInits
  /\ tl' = TlReset(tl)
  /\ dl' = "idle"
  /\ dev' = [dev EXCEPT !.prev = "NO", !.got = 0, !.complains = FALSE, !.of = 0]
  /\ used' = [used EXCEPT !.inits = @ + 1]
  /\ UNCHANGED <<event, dl_frame, hist>>

-----------------------------------------------------------------------------
(* The data link and the device                                             *)

LinkEvent(e) == ~Running /\ dl' = "idle" /\ event' = e /\ UNCHANGED <<tl, dl_frame>>

Noted(h, twice) ==
  IF ~twice THEN h
  ELSE IF dl = "tx" THEN [h EXCEPT !.repeated_tx = @ \cup {dl_frame.chain}]
  ELSE [h EXCEPT !.repeated_rx = @ \cup {Says(dev).chain}]

Fault == used.faults < MaxFaults /\ used' = [used EXCEPT !.faults = @ + 1]
FaultIf(twice) == IF twice THEN Fault ELSE used' = used

\* The fragment has been taken and acknowledged; a frame of the device may
\* have come with the acknowledgement.
DlSent(n, twice, answered) ==
  /\ dl = "tx"
  /\ LET once == DeviceTakes(dev, dl_frame, n)
         d    == IF twice THEN DeviceTakes(once, dl_frame, n) ELSE once
     IN IF answered
          THEN /\ HasToSay(d)
               /\ LinkEvent(EventOf("txrx", Says(d))) /\ dev' = HasSaid(d)
          ELSE LinkEvent(Silent("tx")) /\ dev' = d
  /\ hist' = Noted(hist, twice)
  /\ FaultIf(twice)

\* A frame of the device is delivered; "twice": it will come again.
DlReceived(twice) ==
  /\ dl = "rx" /\ HasToSay(dev)
  /\ LinkEvent(EventOf("rx", Says(dev)))
  /\ dev' = IF twice THEN dev ELSE HasSaid(dev)
  /\ hist' = Noted(hist, twice)
  /\ FaultIf(twice)

\* A frame out of turn, also along with an acknowledgement.
DlStrange(f, n) ==
  /\ dl # "idle" /\ Fault
  /\ LinkEvent(EventOf(IF dl = "tx" THEN "txrx" ELSE "rx", f))
  /\ dev' = IF dl = "tx" THEN DeviceTakes(dev, dl_frame, n) ELSE dev
  /\ hist' = [hist EXCEPT !.odd = TRUE]

\* The link gives up; a fragment may have been taken all the same.
DlFailed(n, taken) ==
  /\ dl # "idle" /\ Fault
  /\ taken => dl = "tx"
  /\ LinkEvent(Silent("error"))
  /\ dev' = IF taken THEN DeviceTakes(dev, dl_frame, n) ELSE dev
  /\ UNCHANGED hist

\* The exit timeout: the device has nothing to say.
DlTimeout ==
  /\ dl = "rx" /\ ~HasToSay(dev)
  /\ LinkEvent(Silent("error"))
  /\ UNCHANGED <<dev, used, hist>>

-----------------------------------------------------------------------------
Init ==
  /\ tl = [state |-> "IDLE", packet_offset |-> 0, actual_packet_length |-> 0,
           rx_size |-> 0, total_recv_length |-> 0, previous_chaining |-> "NO",
           transmission_completed |-> FALSE, chaining_error_count |-> 0,
           master_chaining_error_count |-> 0, error_event |-> "STACK_ERROR",
           initialization_state |-> TRUE]
  /\ event = NoEvent
  /\ dl = "idle" /\ dl_frame = BlankFragment
  /\ dev = DeviceReset
  /\ used = [faults |-> 0, inits |-> 0]
  /\ hist = [current |-> 0, outcome |-> "none", reported |-> "none", length |-> 0,
             sound |-> TRUE, repeated_tx |-> {}, repeated_rx |-> {}, odd |-> FALSE]

DlSends == \E n \in AnswerLengths, twice \in BOOLEAN, answered \in BOOLEAN :
             DlSent(n, twice, answered)
DlReceives == \E twice \in BOOLEAN : DlReceived(twice)

Next ==
  \/ Handler
  \/ (\E length \in CommandLengths, size \in BufferSizes : Transceive(length, size))
  \/ TlInit
  \/ DlSends \/ DlReceives \/ DlTimeout
  \/ (\E f \in StrangeFragments, n \in AnswerLengths : DlStrange(f, n))
  \/ (\E n \in AnswerLengths, taken \in BOOLEAN : DlFailed(n, taken))

Spec == Init /\ [][Next]_vars

\* The handler is a synchronous loop; the data link answers every call as long
\* as the damage on the bus ends (Link: Answered).  Nothing obliges the upper
\* layer.
Fairness ==
  /\ WF_vars(Handler)
  /\ WF_vars(DlSends \/ DlReceives \/ DlTimeout)

FairSpec == Spec /\ Fairness

-----------------------------------------------------------------------------
(* Properties                                                               *)

States == {"IDLE", "TX", "RX", "CHAINING", "RESEND", "CHAINING_ERROR", "ERROR"}
Errors == {"STACK_ERROR", "MEM_ERROR"}

\* Types, and the bounds the code must keep: what has been received fits the
\* buffer, what has been sent is within the command.
TransportTypeOK ==
  /\ tl \in [state : States, packet_offset : Nat, actual_packet_length : Nat,
             rx_size : Nat, total_recv_length : Nat, previous_chaining : Chain,
             transmission_completed : BOOLEAN, chaining_error_count : Nat,
             master_chaining_error_count : Nat, error_event : Errors,
             initialization_state : BOOLEAN]
  /\ tl.packet_offset <= tl.actual_packet_length
  /\ tl.total_recv_length <= tl.rx_size
  /\ event \in [kind : {"none", "tx", "rx", "txrx", "error"}, frame : Fragment,
                data_len : 0 .. MaxPacket + 1]
  /\ dl \in {"idle", "tx", "rx"} /\ dl_frame \in Fragment
  /\ dev \in [prev : Chain, got : Nat, sound : BOOLEAN, complains : BOOLEAN, of : Nat,
              length : Nat, sent : Nat, executed : Nat, times : 0 .. 2, whole : BOOLEAN]
  /\ used \in [faults : 0 .. MaxFaults, inits : 0 .. MaxInits]
  /\ hist \in [current : Nat, outcome : {"none", "pending", "ok", "doubtful", "failed"},
               reported : {"none", "SUCCESS"} \cup Errors, length : Nat, sound : BOOLEAN,
               repeated_tx : SUBSET Chain, repeated_rx : SUBSET Chain, odd : BOOLEAN]

\* After the end of an exchange the layer takes the next one: it is idle, and
\* so is the data link.  Until the end there is always something that will
\* continue it.  (The ERROR state is left by the next event only, and calls
\* that the data link refuses are not reported.)
Usable ==
  IF hist.outcome = "pending"
    THEN Running # (dl # "idle")
    ELSE ~Running /\ dl = "idle" /\ tl.state = "IDLE"

\* What a success hands up is the whole answer to this command, whatever broke
\* the chain in between, unless an INTERMEDIATE fragment came twice: the
\* chaining cannot tell that.
WholeAnswer ==
  hist.outcome = "ok" =>
    \/ hist.sound /\ dev.executed = hist.current /\ hist.length = dev.length
    \/ "INTERMEDIATE" \in hist.repeated_rx

\* The device executes a command only unaltered, with the same exception.
ExecutesWhole ==
  dev.executed = hist.current =>
    dev.whole \/ "INTERMEDIATE" \in hist.repeated_tx

\* It executes it once, even when the host sends all of it again: the reason
\* to do so is that the chain broke before its end, unless its last fragment
\* came twice.
ExecutesOnce ==
  (dev.executed = hist.current /\ ~hist.odd) =>
    dev.times <= 1 \/ hist.repeated_tx \cap {"NO", "LAST"} # {}

\* An answer that does not fit has been received to its end when that is
\* reported: the next exchange does not begin with the rest of it.
Drained ==
  (hist.outcome = "failed" /\ hist.reported = "MEM_ERROR" /\ ~hist.odd) =>
    ~HasToSay(dev) \/ hist.repeated_rx # {}

\* Every exchange ends, and with success only if the device has executed the
\* command: the same transfer the data link implements for one fragment.
Exchange == INSTANCE FrameTransfer WITH
  Payload <- 1 .. MaxRequests, current <- hist.current,
  peer <- dev.executed, outcome <- hist.outcome
ImplementsExchange == Exchange!Spec
=============================================================================
