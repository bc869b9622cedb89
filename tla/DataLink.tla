------------------------------- MODULE DataLink -------------------------------
(***************************************************************************)
(* The data link layer of the host's I2C stack                             *)
(* (ifx_i2c_data_link_layer.c): a stop-and-wait link with two-bit frame    *)
(* numbers, acknowledgements, retransmission and re-synchronisation.       *)
(*                                                                         *)
(* The handler ifx_i2c_pl_event_handler is a do-while loop around a switch *)
(* on dl.state; one action models one case of that switch, and "event"     *)
(* holds the argument of the handler while the loop runs.  The stack is    *)
(* single-threaded, so nothing else happens while event is pending.        *)
(*                                                                         *)
(* Below is the physical layer's frame service: a write completes or dies  *)
(* (IFX_I2C_FATAL_ERROR), a read also times out (IFX_I2C_STACK_ERROR).     *)
(* What a read returns is a parameter: the device may answer anything.     *)
(* A write never ends with IFX_I2C_STACK_ERROR in the physical layer, so   *)
(* the branches of DL_STATE_TX and DL_STATE_ACK for it are left out.       *)
(* dl.error is set and cleared within one pass of DL_STATE_ERROR and needs *)
(* no variable.                                                            *)
(***************************************************************************)
EXTENDS Naturals

CONSTANTS
  Payload,           \* what the transport layer asks to transmit
  NoPayload,         \* the payload of a control frame
  DL_TRANS_REPEAT,   \* retransmissions before the frame numbers are reset
  Answers            \* the frames a read may return

ASSUME NoPayloadAssumption == NoPayload \notin Payload
ASSUME RepeatAssumption == DL_TRANS_REPEAT \in Nat

VARIABLES
  state,               \* dl.state
  tx_seq_nr,           \* dl.tx_seq_nr, the number of the last data frame sent
  rx_seq_nr,           \* dl.rx_seq_nr, the number of the last data frame taken
  resynced,            \* dl.resynced
  action_rx_only,      \* dl.action_rx_only
  retransmit_counter,  \* dl.retransmit_counter
  txbuf,               \* tx_frame_buffer: the payload, and whether it is whole
  rxbuf,               \* rx_frame_buffer, likewise
  event,               \* the call of the handler that is running, or NoEvent
  pl,                  \* what the physical layer is doing
  pl_frame,            \* the frame it is writing
  expired,             \* TL_MAX_EXIT_TIMEOUT has passed since tl.api_start_time
  request,             \* what the transport layer waits for
  reported             \* the last event propagated to it

seqvars  == <<tx_seq_nr, rx_seq_nr, resynced>>
bufvars  == <<txbuf, rxbuf>>
plvars   == <<pl, pl_frame>>
modevars == <<action_rx_only, retransmit_counter>>
upvars   == <<request, reported>>
vars == <<state, seqvars, modevars, bufvars, event, plvars, expired, upvars>>

-----------------------------------------------------------------------------
(* Frames and buffers                                                       *)

DL_MAX_FRAME_NUM == 3
SeqNr == 0 .. DL_MAX_FRAME_NUM
\* Mutant: the two-bit mask is forgotten.
NextNrUnmasked(n) == n + 1
NextNr(n) == (n + 1) % (DL_MAX_FRAME_NUM + 1)

Buffer == [pay : Payload \cup {NoPayload}, whole : BOOLEAN]
Empty  == [pay |-> NoPayload, whole |-> FALSE]

\* "check" abstracts the length and CRC tests: a frame passes both, fails the
\* CRC, contradicts its length field, or is shorter than a header.
Frame == [ftype : {"data", "control"}, seqctr : {"ACK", "NACK", "RESYNC", "RFU"},
          fr_nr : SeqNr, ack_nr : SeqNr,
          check : {"ok", "crc", "length", "short"}, body : Buffer]

DataFrame(nr, ack, body) ==
  [ftype |-> "data", seqctr |-> "ACK", fr_nr |-> nr, ack_nr |-> ack,
   check |-> "ok", body |-> body]

ControlFrame(seqctr, ack) ==
  [ftype |-> "control", seqctr |-> seqctr, fr_nr |-> 0, ack_nr |-> ack,
   check |-> "ok", body |-> Empty]

ASSUME AnswersAssumption == Answers \subseteq Frame

NoFrame == ControlFrame("ACK", 0)
NoEvent == [kind |-> "none", frame |-> NoFrame]
Running == event.kind # "none"

-----------------------------------------------------------------------------
(* Calls down to the physical layer: refused unless it is ready.            *)

PlAccepts == pl = "ready"

PlSendFrame(f) ==
  IF PlAccepts THEN pl' = "write" /\ pl_frame' = f ELSE UNCHANGED plvars

PlReceiveFrame ==
  /\ pl' = IF PlAccepts THEN "read" ELSE pl
  /\ UNCHANGED pl_frame

\* Mutant: every transmission gets a number of its own.
SendDataRenumbered(resend) ==
  /\ tx_seq_nr' = NextNr(tx_seq_nr)
  /\ resynced' = FALSE
  /\ PlSendFrame(DataFrame(tx_seq_nr', rx_seq_nr, txbuf'))

\* Mutant: the frame acknowledges the one expected next.
SendDataEarlyAck(resend) ==
  /\ tx_seq_nr' = IF ~resend \/ resynced THEN NextNr(tx_seq_nr) ELSE tx_seq_nr
  /\ resynced' = FALSE
  /\ PlSendFrame(DataFrame(tx_seq_nr', NextNr(rx_seq_nr), txbuf'))

\* ifx_i2c_dl_send_frame_internal with a payload.  A retransmission keeps its
\* number unless the numbers have been reset since.
SendData(resend) ==
  /\ tx_seq_nr' = IF ~resend \/ resynced THEN NextNr(tx_seq_nr) ELSE tx_seq_nr
  /\ resynced' = FALSE
  /\ PlSendFrame(DataFrame(tx_seq_nr', rx_seq_nr, txbuf'))

\* The same without a payload: header and CRC are written over the first five
\* bytes of the buffer the frame is built in.
ControlOverTx(f) ==
  /\ PlSendFrame(f)
  /\ txbuf' = [txbuf EXCEPT !.whole = FALSE]

ControlOverRx(f) ==
  /\ PlSendFrame(f)
  /\ rxbuf' = [rxbuf EXCEPT !.whole = FALSE]

\* ifx_i2c_dl_resync
Resync ==
  /\ tx_seq_nr' = DL_MAX_FRAME_NUM
  /\ rx_seq_nr' = DL_MAX_FRAME_NUM
  /\ resynced' = TRUE
  /\ ControlOverRx(ControlFrame("RESYNC", 0))
  /\ UNCHANGED txbuf

\* Mutant: the handler calls up before it is idle again.
ReportBusy(r) ==
  /\ state' = state
  /\ request' = "none"
  /\ reported' = r
  /\ event' = NoEvent

\* Calls up to the transport layer, made with dl.state already idle.
Report(r) ==
  /\ state' = "IDLE"
  /\ request' = "none"
  /\ reported' = r
  /\ event' = NoEvent

-----------------------------------------------------------------------------
(* Requests of the transport layer                                          *)

Init ==
  /\ state = "IDLE"
  /\ tx_seq_nr = DL_MAX_FRAME_NUM /\ rx_seq_nr = DL_MAX_FRAME_NUM
  /\ resynced = FALSE
  /\ action_rx_only = FALSE /\ retransmit_counter = 0
  /\ txbuf = Empty /\ rxbuf = Empty
  /\ event = NoEvent
  /\ pl = "negotiate" /\ pl_frame = NoFrame
  /\ expired = FALSE
  /\ request = "init" /\ reported = "none"

\* ifx_i2c_dl_init on a stack that was opened before: the physical layer
\* starts its negotiation with the device.
DlInit ==
  /\ request = "none" /\ ~Running
  /\ state' = "IDLE"
  /\ tx_seq_nr' = DL_MAX_FRAME_NUM /\ rx_seq_nr' = DL_MAX_FRAME_NUM
  /\ resynced' = FALSE
  /\ pl' = "negotiate"
  /\ request' = "init" /\ reported' = "none"
  /\ UNCHANGED <<modevars, bufvars, event, pl_frame, expired>>

\* What was reported to a transport layer that may start a transceive, or go
\* on with the one it is in.
Going  == {"tx", "rx", "txrx"}
Usable == Going \cup {"open", "error"}

\* ifx_i2c_dl_send_frame.  The first frame of a transceive sets
\* tl.api_start_time; the transport layer goes on only after a success.
DlSendFrame(p, first) ==
  /\ request = "none" /\ ~Running /\ state = "IDLE" /\ pl = "ready"
  /\ reported \in IF first THEN Usable ELSE Going
  /\ state' = "TX"
  /\ retransmit_counter' = 0 /\ action_rx_only' = FALSE
  /\ txbuf' = [pay |-> p, whole |-> TRUE]
  /\ SendData(FALSE)
  /\ expired' = (expired /\ ~first)
  /\ request' = "tx" /\ reported' = "none"
  /\ UNCHANGED <<rx_seq_nr, rxbuf, event>>

\* ifx_i2c_dl_receive_frame
DlReceiveFrame ==
  /\ request = "none" /\ ~Running /\ state = "IDLE" /\ pl = "ready"
  /\ reported \in Going
  /\ state' = "RX"
  /\ retransmit_counter' = 0 /\ action_rx_only' = TRUE
  /\ PlReceiveFrame
  /\ request' = "rx" /\ reported' = "none"
  /\ UNCHANGED <<seqvars, bufvars, event, expired>>

-----------------------------------------------------------------------------
(* Events of the physical layer and of the clock                            *)

\* Mutant: the physical layer calls the handler before it is ready again.
PlEventBusy(kind, f) ==
  /\ event' = [kind |-> kind, frame |-> f]
  /\ UNCHANGED <<seqvars, modevars, bufvars, plvars, expired, upvars>>

\* The physical layer returns to its ready state before it calls the handler.
\* (After a failed negotiation it is not ready; "failed" lets nothing follow but
\* another initialisation, so the difference does not show.)
PlEvent(kind, f) ==
  /\ event' = [kind |-> kind, frame |-> f]
  /\ pl' = "ready"
  /\ UNCHANGED <<seqvars, modevars, bufvars, pl_frame, expired, upvars>>

PlNegotiated ==
  /\ pl = "negotiate" /\ ~Running
  /\ \E kind \in {"success", "timeout"} : PlEvent(kind, NoFrame)
  /\ UNCHANGED state

PlWriteDone ==
  /\ pl = "write" /\ ~Running
  /\ PlEvent("success", NoFrame)
  /\ UNCHANGED state

PlReadDone(f) ==
  /\ pl = "read" /\ ~Running
  /\ PlEvent("success", f)
  /\ UNCHANGED state

\* dl.data_poll_timeout: short after a transmission, as long as the exit
\* timeout in a pure reception, which started later.
PlReadTimeout ==
  /\ pl = "read" /\ ~Running
  /\ action_rx_only => expired
  /\ PlEvent("timeout", NoFrame)
  /\ UNCHANGED state

\* PL_POLLING_MAX_CNT attempts failed.  The handler's loop turns this event
\* into DL_STATE_ERROR, whatever the state, unless it is idle.
PlFatal ==
  /\ pl \in {"write", "read", "negotiate"} /\ ~Running
  /\ PlEvent("fatal", NoFrame)
  /\ state' = IF state # "IDLE" THEN "ERROR" ELSE state

ExitTimeout ==
  /\ request \in {"tx", "rx"} /\ ~expired
  /\ expired' = TRUE
  /\ UNCHANGED <<state, seqvars, modevars, bufvars, event, plvars, upvars>>

-----------------------------------------------------------------------------
(* ifx_i2c_pl_event_handler, one action per case and early break            *)

\* A pass of the loop in state s that only moves on to state t.
Goto(s, t) ==
  /\ Running /\ state = s
  /\ state' = t
  /\ UNCHANGED <<event, expired, upvars, plvars, bufvars, modevars>>

\* The negotiation of ifx_i2c_pl_init has ended.
CaseIdle ==
  /\ Running /\ state = "IDLE"
  /\ Report(IF event.kind = "success" THEN "open" ELSE "failed")
  /\ UNCHANGED <<seqvars, modevars, bufvars, plvars, expired>>

\* Mutant: the state is not moved on with the read.
CaseTxStays ==
  /\ Running /\ state = "TX"
  /\ state' = IF PlAccepts THEN "TX" ELSE "NACK"
  /\ event' = IF PlAccepts THEN NoEvent ELSE event
  /\ PlReceiveFrame
  /\ UNCHANGED <<seqvars, modevars, bufvars, expired, upvars>>

CaseTx ==
  /\ Running /\ state = "TX"
  /\ state' = IF PlAccepts THEN "RX" ELSE "NACK"
  /\ event' = IF PlAccepts THEN NoEvent ELSE event
  /\ PlReceiveFrame
  /\ UNCHANGED <<seqvars, modevars, bufvars, expired, upvars>>

CaseRx ==
  /\ UNCHANGED seqvars
  /\ \/ event.kind = "timeout" /\ Goto("RX", "RESEND")
     \/ event.kind = "success" /\ event.frame.check = "short" /\ Goto("RX", "NACK")
     \/ /\ event.kind = "success" /\ event.frame.check # "short"
        /\ Goto("RX", IF event.frame.ftype = "control" THEN "RX_CF" ELSE "RX_DF")

\* DL_STATE_RX_DF: the tests of a data frame, in the order of the code
DfBroken ==
  event.frame.check # "ok" \/ event.frame.seqctr \in {"RFU", "RESYNC"}
\* Mutant: frames that repeat a number are taken as new ones.
DfAnyNumber == FALSE

DfOther == event.frame.fr_nr # NextNr(rx_seq_nr)
DfAckOther == event.frame.ack_nr # tx_seq_nr
DfNack == event.frame.seqctr = "NACK"

\* A frame with another number is acknowledged with the last number taken.
DfAckOldFrame ==
  /\ Running /\ state = "RX_DF"
  /\ ~DfBroken /\ DfOther
  /\ state' = "DISCARD"
  /\ ControlOverRx(ControlFrame("ACK", rx_seq_nr))
  /\ event' = NoEvent
  /\ UNCHANGED <<seqvars, modevars, txbuf, expired, upvars>>

DfAccept ==
  /\ Running /\ state = "RX_DF"
  /\ ~DfBroken /\ ~DfOther /\ ~DfAckOther /\ ~DfNack
  /\ rx_seq_nr' = NextNr(rx_seq_nr)
  /\ rxbuf' = event.frame.body
  /\ retransmit_counter' = 0
  /\ state' = "ACK"
  /\ ControlOverTx(ControlFrame("ACK", NextNr(rx_seq_nr)))
  /\ event' = NoEvent
  /\ UNCHANGED <<tx_seq_nr, resynced, action_rx_only, expired, upvars>>

CaseRxDf ==
  \/ DfBroken /\ Goto("RX_DF", "NACK") /\ UNCHANGED seqvars
  \/ DfAckOldFrame
  \/ ~DfBroken /\ ~DfOther /\ DfAckOther /\ Goto("RX_DF", "DISCARD") /\ UNCHANGED seqvars
  \/ /\ ~DfBroken /\ ~DfOther /\ ~DfAckOther /\ DfNack
     /\ Goto("RX_DF", "RESEND") /\ UNCHANGED seqvars
  \/ DfAccept

\* DL_STATE_RX_CF: the tests of a control frame, in the order of the code
CfWrongMode == action_rx_only # (event.frame.seqctr = "RESYNC")
\* Mutant: the acknowledged number is not tested.
CfAnyAck == event.frame.fr_nr # 0 \/ event.frame.seqctr = "RFU"

CfOther ==
  event.frame.fr_nr # 0 \/ event.frame.seqctr = "RFU" \/ event.frame.ack_nr # tx_seq_nr

CfDiscard ==
  \/ CfWrongMode
  \/ event.frame.check = "length"
  \/ event.frame.check = "ok" /\ event.frame.seqctr # "RESYNC" /\ CfOther

CfResend ==
  /\ ~CfWrongMode
  /\ \/ event.frame.check = "crc"
     \/ event.frame.check = "ok" /\ event.frame.seqctr = "NACK" /\ ~CfOther

\* The device resets the frame numbers.
CfResync ==
  /\ ~CfWrongMode /\ event.frame.check = "ok" /\ event.frame.seqctr = "RESYNC"
  /\ Goto("RX_CF", "DISCARD")
  /\ resynced' = TRUE
  /\ tx_seq_nr' = DL_MAX_FRAME_NUM /\ rx_seq_nr' = DL_MAX_FRAME_NUM

\* Mutant: any control frame for the last frame sent counts as its acknowledgement.
CfAckAny ==
  /\ Running /\ state = "RX_CF"
  /\ ~CfWrongMode /\ event.frame.check = "ok" /\ ~CfOther
  /\ Report("tx")
  /\ UNCHANGED <<seqvars, modevars, bufvars, plvars, expired>>

CfAck ==
  /\ Running /\ state = "RX_CF"
  /\ ~CfWrongMode /\ event.frame.check = "ok" /\ event.frame.seqctr = "ACK" /\ ~CfOther
  /\ Report("tx")
  /\ UNCHANGED <<seqvars, modevars, bufvars, plvars, expired>>

CaseRxCf ==
  \/ CfDiscard /\ Goto("RX_CF", "DISCARD") /\ UNCHANGED seqvars
  \/ CfResend /\ Goto("RX_CF", "RESEND") /\ UNCHANGED seqvars
  \/ CfResync
  \/ CfAck

\* Mutant: the next read is not started.
CaseDiscardStops ==
  /\ Running /\ state = "DISCARD"
  /\ state' = "RX"
  /\ event' = NoEvent
  /\ UNCHANGED <<seqvars, modevars, bufvars, plvars, expired, upvars>>

CaseDiscard ==
  /\ Running /\ state = "DISCARD"
  /\ state' = "RX"
  /\ PlReceiveFrame
  /\ event' = NoEvent
  /\ UNCHANGED <<seqvars, modevars, bufvars, expired, upvars>>

CaseAck ==
  /\ Running /\ state = "ACK"
  /\ Report(IF action_rx_only THEN "rx" ELSE "txrx")
  /\ UNCHANGED <<seqvars, modevars, bufvars, plvars, expired>>

CaseNack ==
  /\ Running /\ state = "NACK"
  /\ state' = "TX"
  /\ ControlOverTx(ControlFrame("NACK", NextNr(rx_seq_nr)))
  /\ event' = NoEvent
  /\ UNCHANGED <<seqvars, modevars, rxbuf, expired, upvars>>

\* ifx_i2c_dl_resend_frame
ResendFrame ==
  /\ retransmit_counter # DL_TRANS_REPEAT
  /\ retransmit_counter' = retransmit_counter + 1
  /\ UNCHANGED <<rx_seq_nr, bufvars>>
  /\ SendData(TRUE)
  /\ state' = IF PlAccepts THEN "TX" ELSE "NACK"

ResendResync ==
  /\ retransmit_counter = DL_TRANS_REPEAT
  /\ retransmit_counter' = 0
  /\ Resync
  /\ state' = IF PlAccepts THEN "RESEND" ELSE "NACK"

\* Mutant: the exit timeout is not tested.
CaseResendForever ==
  /\ Running /\ state = "RESEND"
  /\ ResendFrame \/ ResendResync
  /\ event' = NoEvent
  /\ UNCHANGED <<action_rx_only, expired, upvars>>

CaseResend ==
  \/ /\ Running /\ state = "RESEND" /\ ~expired
     /\ ResendFrame \/ ResendResync
     /\ event' = NoEvent
     /\ UNCHANGED <<action_rx_only, expired, upvars>>
  \/ expired /\ Goto("RESEND", "ERROR") /\ UNCHANGED seqvars

\* DL_STATE_ERROR: one re-sync to the device, unless one is under way, and
\* then the error to the transport layer.
ErrorResync ==
  /\ Running /\ state = "ERROR" /\ ~resynced
  /\ Resync
  /\ event' = NoEvent
  /\ UNCHANGED <<state, modevars, expired, upvars>>

ErrorReport ==
  /\ Running /\ state = "ERROR" /\ resynced
  /\ Report("error")
  /\ UNCHANGED <<seqvars, modevars, bufvars, plvars, expired>>

Handler ==
  \/ CaseIdle \/ CaseTx \/ CaseRx \/ CaseRxDf \/ CaseRxCf \/ CaseDiscard
  \/ CaseAck \/ CaseNack \/ CaseResend \/ ErrorResync \/ ErrorReport

Requests ==
  \/ DlInit
  \/ \E p \in Payload, first \in BOOLEAN : DlSendFrame(p, first)
  \/ DlReceiveFrame

PlWriteSide == PlNegotiated \/ PlWriteDone \/ PlFatal

Next ==
  \/ Handler
  \/ Requests
  \/ PlWriteSide \/ PlReadTimeout \/ (\E f \in Answers : PlReadDone(f))
  \/ ExitTimeout

\* The event loop runs every handler to its end, and every operation of the
\* physical layer ends: it is bounded by its own retry counter and timeout.
\* How a read ends, with which frame or none, is up to the device.
Fairness ==
  /\ WF_vars(Handler)
  /\ WF_vars(PlWriteSide \/ PlReadTimeout \/ (\E f \in Answers : PlReadDone(f)))
  /\ WF_vars(ExitTimeout)

Spec == Init /\ [][Next]_vars
FairSpec == Spec /\ Fairness

-----------------------------------------------------------------------------
(* Properties                                                               *)

TypeOK ==
  /\ state \in {"IDLE", "TX", "RX", "RX_DF", "RX_CF", "ACK", "NACK", "RESEND",
                "DISCARD", "ERROR"}
  /\ tx_seq_nr \in SeqNr /\ rx_seq_nr \in SeqNr
  /\ resynced \in BOOLEAN /\ action_rx_only \in BOOLEAN /\ expired \in BOOLEAN
  /\ retransmit_counter \in 0 .. DL_TRANS_REPEAT
  /\ txbuf \in Buffer /\ rxbuf \in Buffer
  /\ event \in [kind : {"none", "success", "timeout", "fatal"}, frame : Frame]
  /\ pl \in {"negotiate", "ready", "write", "read"}
  /\ pl_frame \in Frame
  /\ request \in {"none", "init", "tx", "rx"}
  /\ reported \in {"none", "open", "failed", "error"} \cup Going

\* The handler ignores what the physical layer's calls return in six places
\* ("Error handling is not required so return value is not checked").  A
\* refused call there would leave the link without any further event.
CallsNeverRefused == Running => PlAccepts

\* As long as the transport layer waits for an event, something that leads to
\* it is under way: the handler runs or the physical layer works.  And the
\* other way round: once the event is propagated nothing is left behind that
\* would call the handler again.
NoLostWakeup ==
  (request # "none") <=> (Running \/ pl # "ready")

\* The link can take the next request as soon as it has answered the last.
IdleWhenAnswered == request = "none" => state = "IDLE"

\* A completed write is always one the handler's state expects, a read is
\* always one of a frame: a completion never meets the state of another call.
ExpectedCompletion ==
  ~Running =>
    /\ pl = "read" => state = "RX"
    /\ pl = "write" => state \in {"TX", "ACK", "DISCARD", "RESEND", "ERROR"}
    /\ pl = "negotiate" => state = "IDLE"

\* Every request of the transport layer is answered.  Not in this module, where
\* the device may send damaged frames for ever (ExitTimeoutHonoured); in Link,
\* where MaxNoise bounds the damage and the device follows the protocol.
Answered == (request # "none") ~> (request = "none")

\* What the exit timeout does guarantee, whatever the device and the bus do: a
\* request is left unanswered only by frames that never end.  When the device
\* falls silent, however it has confused the link before, the retransmissions
\* and re-syncs come to their end.
FrameRead == pl = "read" /\ ~Running /\ event'.kind = "success"
AnsweredUnlessFlooded == []<><<FrameRead>>_vars \/ Answered

\* The exit timeout: when it has passed, the transaction comes to its end.
ExitTimeoutHonoured == (expired /\ request # "none") ~> (request = "none")
=============================================================================
