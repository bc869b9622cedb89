--------------------------- MODULE DataLinkProofs ---------------------------
(***************************************************************************)
(* Type correctness of the data link layer and the four facts that relate  *)
(* its state to the physical layer's and to the transport layer's, for     *)
(* every set of payloads, every retry count and every behaviour of the     *)
(* device.                                                                 *)
(*                                                                         *)
(* None of the four is inductive alone: that a call is not refused depends *)
(* on the physical layer being idle whenever the handler runs, that the    *)
(* handler's state is one it is idle in depends on which completion was    *)
(* outstanding.  Their conjunction with the types is.                      *)
(***************************************************************************)
EXTENDS DataLink, TLAPS

\* The inductive invariant.
IInv ==
  /\ TypeOK
  /\ CallsNeverRefused
  /\ NoLostWakeup
  /\ IdleWhenAnswered
  /\ ExpectedCompletion

-----------------------------------------------------------------------------
(* Frames and numbers                                                       *)

\* A frame number's successor is a frame number.
LEMMA NextNrType == \A n \in SeqNr : NextNr(n) \in SeqNr
  BY DEF SeqNr, NextNr, DL_MAX_FRAME_NUM

\* The frames the host builds are frames.
LEMMA DataFrameType ==
  ASSUME NEW nr \in SeqNr, NEW ack \in SeqNr, NEW b \in Buffer
  PROVE  DataFrame(nr, ack, b) \in Frame
  BY DEF DataFrame, Frame

LEMMA EmptyType == Empty \in Buffer
  BY DEF Empty, Buffer

LEMMA ControlFrameType ==
  ASSUME NEW s \in {"ACK", "NACK", "RESYNC", "RFU"}, NEW ack \in SeqNr
  PROVE  ControlFrame(s, ack) \in Frame
  BY EmptyType DEF ControlFrame, Frame, SeqNr, DL_MAX_FRAME_NUM

LEMMA NumbersType == 0 \in SeqNr /\ DL_MAX_FRAME_NUM \in SeqNr
  BY DEF SeqNr, DL_MAX_FRAME_NUM

LEMMA NoFrameType == NoFrame \in Frame
  BY ControlFrameType, NumbersType DEF NoFrame
-----------------------------------------------------------------------------
(* Initial states and the calls                                             *)

LEMMA InitIInv ==
  ASSUME Init
  PROVE  IInv
<1>1. NoEvent \in [kind : {"none", "success", "timeout", "fatal"}, frame : Frame]
  BY NoFrameType DEF NoEvent
<1>2. retransmit_counter \in 0 .. DL_TRANS_REPEAT
  BY RepeatAssumption DEF Init
<1>3. TypeOK
  BY <1>1, <1>2, EmptyType, NoFrameType, NumbersType DEF Init, TypeOK
<1>4. ~Running
  BY DEF Init, NoEvent, Running
<1> QED
  BY <1>3, <1>4
  DEF Init, IInv, CallsNeverRefused, NoLostWakeup, IdleWhenAnswered,
      ExpectedCompletion

\* What is sent while the physical layer is ready is written by it.
LEMMA SendDataEffect ==
  ASSUME TypeOK, pl = "ready", txbuf' \in Buffer,
         NEW resend \in BOOLEAN, SendData(resend)
  PROVE  /\ tx_seq_nr' \in SeqNr /\ resynced' = FALSE
         /\ pl' = "write" /\ pl_frame' \in Frame
<1>1. tx_seq_nr' \in SeqNr
  BY NextNrType DEF SendData, TypeOK
<1>2. DataFrame(tx_seq_nr', rx_seq_nr, txbuf') \in Frame
  BY <1>1, DataFrameType DEF TypeOK
<1> QED
  BY <1>1, <1>2 DEF SendData, PlSendFrame, PlAccepts

LEMMA ControlOverTxEffect ==
  ASSUME TypeOK, pl = "ready", NEW f \in Frame, ControlOverTx(f)
  PROVE  txbuf' \in Buffer /\ pl' = "write" /\ pl_frame' \in Frame
  BY DEF ControlOverTx, PlSendFrame, PlAccepts, TypeOK, Buffer

LEMMA ControlOverRxEffect ==
  ASSUME TypeOK, pl = "ready", NEW f \in Frame, ControlOverRx(f)
  PROVE  rxbuf' \in Buffer /\ pl' = "write" /\ pl_frame' \in Frame
  BY DEF ControlOverRx, PlSendFrame, PlAccepts, TypeOK, Buffer

LEMMA ResyncEffect ==
  ASSUME TypeOK, pl = "ready", Resync
  PROVE  /\ tx_seq_nr' \in SeqNr /\ rx_seq_nr' \in SeqNr /\ resynced' = TRUE
         /\ rxbuf' \in Buffer /\ txbuf' = txbuf
         /\ pl' = "write" /\ pl_frame' \in Frame
<1>1. ControlFrame("RESYNC", 0) \in Frame
  BY ControlFrameType, NumbersType
<1> QED
  BY <1>1, ControlOverRxEffect, NumbersType DEF Resync

-----------------------------------------------------------------------------
(* Requests of the transport layer                                          *)

LEMMA DlInitStep == IInv /\ DlInit => IInv'
  BY NumbersType
  DEF IInv, DlInit, TypeOK, CallsNeverRefused, NoLostWakeup, IdleWhenAnswered,
      ExpectedCompletion, Running, PlAccepts, modevars, bufvars

LEMMA DlSendFrameStep ==
  ASSUME IInv, NEW p \in Payload, NEW first \in BOOLEAN, DlSendFrame(p, first)
  PROVE  IInv'
<1>1. txbuf' \in Buffer
  BY DEF DlSendFrame, Buffer
<1>2. /\ tx_seq_nr' \in SeqNr /\ resynced' = FALSE
      /\ pl' = "write" /\ pl_frame' \in Frame
  BY <1>1, SendDataEffect DEF DlSendFrame, IInv
<1>3. TypeOK'
  <2>1. expired' \in BOOLEAN
    BY DEF DlSendFrame
  <2>2. retransmit_counter' \in 0 .. DL_TRANS_REPEAT
    BY RepeatAssumption DEF DlSendFrame
  <2>3. /\ state' = "TX" /\ action_rx_only' = FALSE
        /\ rx_seq_nr' = rx_seq_nr /\ rxbuf' = rxbuf /\ event' = event
        /\ request' = "tx" /\ reported' = "none"
    BY DEF DlSendFrame
  <2> QED
    BY <1>1, <1>2, <2>1, <2>2, <2>3 DEF IInv, TypeOK
<1>4. ~Running' /\ request' = "tx" /\ state' = "TX"
  BY DEF DlSendFrame, Running
<1> QED
  BY <1>2, <1>3, <1>4
  DEF IInv, CallsNeverRefused, NoLostWakeup, IdleWhenAnswered,
      ExpectedCompletion

LEMMA DlReceiveFrameStep == IInv /\ DlReceiveFrame => IInv'
  BY RepeatAssumption
  DEF IInv, DlReceiveFrame, PlReceiveFrame, TypeOK, CallsNeverRefused,
      NoLostWakeup, IdleWhenAnswered, ExpectedCompletion, Running, PlAccepts,
      seqvars, bufvars

-----------------------------------------------------------------------------
(* Events of the physical layer and of the clock                            *)

\* The physical layer calls the handler when it is ready again.
LEMMA PlEventStep ==
  ASSUME IInv, NEW kind \in {"success", "timeout", "fatal"}, NEW f \in Frame,
         pl # "ready", ~Running, PlEvent(kind, f),
         state' \in {state, "ERROR"}, state' = "ERROR" => state # "IDLE"
  PROVE  IInv'
<1>1. event' \in [kind : {"none", "success", "timeout", "fatal"}, frame : Frame]
  BY DEF PlEvent
<1>2. Running'
  BY DEF PlEvent, Running
<1>3. TypeOK'
  BY <1>1 DEF IInv, TypeOK, PlEvent, seqvars, modevars, bufvars, upvars
<1>4. request' # "none"
  BY DEF IInv, NoLostWakeup, PlEvent, upvars
<1> QED
  BY <1>2, <1>3, <1>4
  DEF IInv, PlEvent, PlAccepts, CallsNeverRefused, NoLostWakeup,
      IdleWhenAnswered, ExpectedCompletion

LEMMA PlNegotiatedStep == IInv /\ PlNegotiated => IInv'
  BY PlEventStep, NoFrameType DEF PlNegotiated, IInv, ExpectedCompletion

LEMMA PlWriteDoneStep == IInv /\ PlWriteDone => IInv'
  BY PlEventStep, NoFrameType DEF PlWriteDone, IInv, ExpectedCompletion

LEMMA PlReadDoneStep ==
  ASSUME IInv, NEW f \in Answers, PlReadDone(f)
  PROVE  IInv'
  BY PlEventStep, AnswersAssumption DEF PlReadDone, IInv, ExpectedCompletion

LEMMA PlReadTimeoutStep == IInv /\ PlReadTimeout => IInv'
  BY PlEventStep, NoFrameType DEF PlReadTimeout, IInv, ExpectedCompletion

LEMMA PlFatalStep == IInv /\ PlFatal => IInv'
  BY PlEventStep, NoFrameType DEF PlFatal, IInv

LEMMA ExitTimeoutStep == IInv /\ ExitTimeout => IInv'
  BY DEF IInv, ExitTimeout, TypeOK, CallsNeverRefused, NoLostWakeup,
         IdleWhenAnswered, ExpectedCompletion, Running, PlAccepts,
         seqvars, modevars, bufvars, plvars, upvars
-----------------------------------------------------------------------------
(* The cases of the handler                                                 *)

\* While the handler runs, a request is waiting and the physical layer is ready.
LEMMA RunningFacts ==
  ASSUME IInv, Running
  PROVE  TypeOK /\ pl = "ready" /\ request # "none"
  BY DEF IInv, CallsNeverRefused, NoLostWakeup, PlAccepts

\* The handler goes round its loop once more.
LEMMA GotoStep ==
  ASSUME IInv, NEW s, NEW t \in {"NACK", "RESEND", "RX_DF", "RX_CF", "DISCARD", "ERROR"},
         Goto(s, t), tx_seq_nr' \in SeqNr, rx_seq_nr' \in SeqNr, resynced' \in BOOLEAN
  PROVE  IInv'
<1>1. Running /\ Running' /\ pl' = "ready" /\ request' # "none"
  BY RunningFacts DEF Goto, Running, upvars, plvars
<1>2. TypeOK'
  BY DEF IInv, TypeOK, Goto, upvars, plvars, bufvars, modevars
<1> QED
  BY <1>1, <1>2
  DEF IInv, CallsNeverRefused, NoLostWakeup, IdleWhenAnswered, ExpectedCompletion,
      PlAccepts

\* The handler breaks out of its loop after starting an operation below.
LEMMA StartedStep ==
  ASSUME IInv, Running, event' = NoEvent, TypeOK',
         UNCHANGED upvars,
         \/ pl' = "read" /\ state' = "RX"
         \/ pl' = "write" /\ state' \in {"TX", "ACK", "DISCARD", "RESEND", "ERROR"}
  PROVE  IInv'
<1>1. ~Running' /\ request' # "none"
  BY RunningFacts DEF Running, NoEvent, upvars
<1> QED
  BY <1>1
  DEF IInv, CallsNeverRefused, NoLostWakeup, IdleWhenAnswered, ExpectedCompletion

LEMMA NoEventType ==
  NoEvent \in [kind : {"none", "success", "timeout", "fatal"}, frame : Frame]
  BY NoFrameType DEF NoEvent

\* The handler breaks out of its loop with an event for the transport layer.
LEMMA ReportStep ==
  ASSUME IInv, Running, NEW r \in {"open", "failed", "error"} \cup Going, Report(r),
         UNCHANGED <<seqvars, modevars, bufvars, plvars, expired>>
  PROVE  IInv'
<1>1. TypeOK'
  BY NoEventType DEF IInv, TypeOK, Report, seqvars, modevars, bufvars, plvars
<1>2. ~Running' /\ pl' = "ready"
  BY RunningFacts DEF Report, Running, NoEvent, plvars
<1> QED
  BY <1>1, <1>2
  DEF IInv, Report, CallsNeverRefused, NoLostWakeup, IdleWhenAnswered,
      ExpectedCompletion

LEMMA CaseIdleStep == IInv /\ CaseIdle => IInv'
  BY ReportStep DEF CaseIdle

LEMMA CaseTxStep ==
  ASSUME IInv, CaseTx
  PROVE  IInv'
<1>1. Running /\ PlAccepts
  BY RunningFacts DEF CaseTx, PlAccepts
<1>2. state' = "RX" /\ event' = NoEvent /\ pl' = "read" /\ pl_frame' = pl_frame
  BY <1>1 DEF CaseTx, PlReceiveFrame
<1>3. TypeOK'
  BY <1>2, NoEventType DEF CaseTx, IInv, TypeOK, seqvars, modevars, bufvars, upvars
<1> QED
  BY <1>1, <1>2, <1>3, StartedStep DEF CaseTx

\* What GotoStep asks of a step that leaves the frame numbers alone.
LEMMA SeqUnchanged ==
  ASSUME IInv, UNCHANGED seqvars
  PROVE  tx_seq_nr' \in SeqNr /\ rx_seq_nr' \in SeqNr /\ resynced' \in BOOLEAN
  BY DEF IInv, TypeOK, seqvars

LEMMA CaseRxStep == IInv /\ CaseRx => IInv'
  BY GotoStep, SeqUnchanged DEF CaseRx

LEMMA DfAckOldFrameStep ==
  ASSUME IInv, DfAckOldFrame
  PROVE  IInv'
<1>1. Running /\ TypeOK /\ pl = "ready"
  BY RunningFacts DEF DfAckOldFrame
<1>2. ControlFrame("ACK", rx_seq_nr) \in Frame
  BY <1>1, ControlFrameType DEF TypeOK
<1>3. rxbuf' \in Buffer /\ pl' = "write" /\ pl_frame' \in Frame
  BY <1>1, <1>2, ControlOverRxEffect DEF DfAckOldFrame
<1>4. TypeOK'
  BY <1>1, <1>3, NoEventType
  DEF DfAckOldFrame, TypeOK, seqvars, modevars, upvars
<1> QED
  BY <1>1, <1>3, <1>4, StartedStep DEF DfAckOldFrame

LEMMA DfAcceptStep ==
  ASSUME IInv, DfAccept
  PROVE  IInv'
<1>1. Running /\ TypeOK /\ pl = "ready"
  BY RunningFacts DEF DfAccept
<1>2. NextNr(rx_seq_nr) \in SeqNr
  BY <1>1, NextNrType DEF TypeOK
<1>3. ControlFrame("ACK", NextNr(rx_seq_nr)) \in Frame
  BY <1>2, ControlFrameType
<1>4. txbuf' \in Buffer /\ pl' = "write" /\ pl_frame' \in Frame
  BY <1>1, <1>3, ControlOverTxEffect DEF DfAccept
<1>5. event.frame.body \in Buffer
  BY <1>1 DEF TypeOK, Frame
<1>6. 0 \in 0 .. DL_TRANS_REPEAT
  BY RepeatAssumption
<1>7. TypeOK'
  BY <1>1, <1>2, <1>4, <1>5, <1>6, NoEventType DEF DfAccept, TypeOK, upvars
<1> QED
  BY <1>1, <1>4, <1>7, StartedStep DEF DfAccept

LEMMA CaseRxDfStep ==
  ASSUME IInv, CaseRxDf
  PROVE  IInv'
<1>1. CASE DfAckOldFrame
  BY <1>1, DfAckOldFrameStep
<1>2. CASE DfAccept
  BY <1>2, DfAcceptStep
<1>3. CASE /\ UNCHANGED seqvars
           /\ \E t \in {"NACK", "DISCARD", "RESEND"} : Goto("RX_DF", t)
  BY <1>3, GotoStep, SeqUnchanged
<1> QED
  BY <1>1, <1>2, <1>3 DEF CaseRxDf

LEMMA CaseRxCfStep ==
  ASSUME IInv, CaseRxCf
  PROVE  IInv'
<1>1. CASE CfAck
  BY <1>1, ReportStep DEF CfAck, Going
<1>2. CASE CfResync
  BY <1>2, GotoStep, NumbersType DEF CfResync
<1>3. CASE /\ UNCHANGED seqvars
           /\ \E t \in {"DISCARD", "RESEND"} : Goto("RX_CF", t)
  BY <1>3, GotoStep, SeqUnchanged
<1> QED
  BY <1>1, <1>2, <1>3 DEF CaseRxCf

LEMMA CaseDiscardStep ==
  ASSUME IInv, CaseDiscard
  PROVE  IInv'
<1>1. Running /\ TypeOK /\ pl = "ready"
  BY RunningFacts DEF CaseDiscard
<1>2. pl' = "read" /\ pl_frame' = pl_frame
  BY <1>1 DEF CaseDiscard, PlReceiveFrame, PlAccepts
<1>3. TypeOK'
  BY <1>1, <1>2, NoEventType
  DEF CaseDiscard, TypeOK, seqvars, modevars, bufvars, upvars
<1> QED
  BY <1>1, <1>2, <1>3, StartedStep DEF CaseDiscard

LEMMA CaseAckStep == IInv /\ CaseAck => IInv'
  BY ReportStep DEF CaseAck, Going

LEMMA CaseNackStep ==
  ASSUME IInv, CaseNack
  PROVE  IInv'
<1>1. Running /\ TypeOK /\ pl = "ready"
  BY RunningFacts DEF CaseNack
<1>2. ControlFrame("NACK", NextNr(rx_seq_nr)) \in Frame
  BY <1>1, NextNrType, ControlFrameType DEF TypeOK
<1>3. txbuf' \in Buffer /\ pl' = "write" /\ pl_frame' \in Frame
  BY <1>1, <1>2, ControlOverTxEffect DEF CaseNack
<1>4. TypeOK'
  BY <1>1, <1>3, NoEventType DEF CaseNack, TypeOK, seqvars, modevars, upvars
<1> QED
  BY <1>1, <1>3, <1>4, StartedStep DEF CaseNack

LEMMA ResendFrameStep ==
  ASSUME IInv, Running, ResendFrame, event' = NoEvent,
         UNCHANGED <<action_rx_only, expired, upvars>>
  PROVE  IInv'
<1>1. TypeOK /\ pl = "ready" /\ PlAccepts
  BY RunningFacts DEF PlAccepts
<1>2. /\ tx_seq_nr' \in SeqNr /\ resynced' = FALSE
      /\ pl' = "write" /\ pl_frame' \in Frame
  <2>1. txbuf' \in Buffer
    BY <1>1 DEF ResendFrame, TypeOK, bufvars
  <2> QED
    BY <1>1, <2>1, SendDataEffect DEF ResendFrame
<1>3. retransmit_counter' \in 0 .. DL_TRANS_REPEAT
  BY <1>1, RepeatAssumption DEF ResendFrame, TypeOK
<1>4. state' = "TX"
  BY <1>1 DEF ResendFrame
<1>5. TypeOK'
  BY <1>1, <1>2, <1>3, <1>4, NoEventType DEF ResendFrame, TypeOK, bufvars, upvars
<1> QED
  BY <1>2, <1>4, <1>5, StartedStep

LEMMA ResendResyncStep ==
  ASSUME IInv, Running, ResendResync, event' = NoEvent,
         UNCHANGED <<action_rx_only, expired, upvars>>
  PROVE  IInv'
<1>1. TypeOK /\ pl = "ready" /\ PlAccepts
  BY RunningFacts DEF PlAccepts
<1>2. /\ tx_seq_nr' \in SeqNr /\ rx_seq_nr' \in SeqNr /\ resynced' = TRUE
      /\ rxbuf' \in Buffer /\ txbuf' = txbuf
      /\ pl' = "write" /\ pl_frame' \in Frame
  BY <1>1, ResyncEffect DEF ResendResync
<1>3. retransmit_counter' \in 0 .. DL_TRANS_REPEAT /\ state' = "RESEND"
  BY <1>1, RepeatAssumption DEF ResendResync
<1>4. TypeOK'
  BY <1>1, <1>2, <1>3, NoEventType DEF TypeOK, upvars
<1> QED
  BY <1>2, <1>3, <1>4, StartedStep

LEMMA CaseResendStep ==
  ASSUME IInv, CaseResend
  PROVE  IInv'
<1>1. CASE expired /\ Goto("RESEND", "ERROR") /\ UNCHANGED seqvars
  BY <1>1, GotoStep, SeqUnchanged
<1> QED
  BY <1>1, ResendFrameStep, ResendResyncStep DEF CaseResend

LEMMA ErrorResyncStep ==
  ASSUME IInv, ErrorResync
  PROVE  IInv'
<1>1. Running /\ TypeOK /\ pl = "ready"
  BY RunningFacts DEF ErrorResync
<1>2. /\ tx_seq_nr' \in SeqNr /\ rx_seq_nr' \in SeqNr /\ resynced' = TRUE
      /\ rxbuf' \in Buffer /\ txbuf' = txbuf
      /\ pl' = "write" /\ pl_frame' \in Frame
  BY <1>1, ResyncEffect DEF ErrorResync
<1>3. TypeOK'
  BY <1>1, <1>2, NoEventType DEF ErrorResync, TypeOK, modevars, upvars
<1> QED
  BY <1>1, <1>2, <1>3, StartedStep DEF ErrorResync

LEMMA ErrorReportStep == IInv /\ ErrorReport => IInv'
  BY ReportStep DEF ErrorReport

-----------------------------------------------------------------------------
(* The theorems                                                             *)

\* Every step of the specification preserves the inductive invariant.
LEMMA NextIInv ==
  ASSUME IInv, [Next]_vars
  PROVE  IInv'
<1>1. CASE Handler
  BY <1>1, CaseIdleStep, CaseTxStep, CaseRxStep, CaseRxDfStep, CaseRxCfStep,
     CaseDiscardStep, CaseAckStep, CaseNackStep, CaseResendStep, ErrorResyncStep,
     ErrorReportStep DEF Handler
<1>2. CASE Requests
  BY <1>2, DlInitStep, DlSendFrameStep, DlReceiveFrameStep DEF Requests
<1>3. CASE PlWriteSide
  BY <1>3, PlNegotiatedStep, PlWriteDoneStep, PlFatalStep DEF PlWriteSide
<1>4. CASE PlReadTimeout \/ (\E f \in Answers : PlReadDone(f)) \/ ExitTimeout
  BY <1>4, PlReadTimeoutStep, PlReadDoneStep, ExitTimeoutStep
<1>5. CASE UNCHANGED vars
  BY <1>5
  DEF IInv, TypeOK, CallsNeverRefused, NoLostWakeup, IdleWhenAnswered,
      ExpectedCompletion, Running, PlAccepts, vars, seqvars, modevars, bufvars,
      plvars, upvars
<1> QED
  BY <1>1, <1>2, <1>3, <1>4, <1>5 DEF Next

LEMMA Invariance == Spec => []IInv
  BY InitIInv, NextIInv, PTL DEF Spec

\* Every variable of the handler keeps its type, the frame numbers stay within
\* two bits and the retransmission counter within DL_TRANS_REPEAT.
THEOREM TypeCorrect == Spec => []TypeOK
<1>1. IInv => TypeOK
  BY DEF IInv
<1> QED
  BY <1>1, Invariance, PTL

\* The return values the handler ignores are never refusals: whenever it runs,
\* the physical layer is ready for its next call.
THEOREM NeverRefused == Spec => []CallsNeverRefused
<1>1. IInv => CallsNeverRefused
  BY DEF IInv
<1> QED
  BY <1>1, Invariance, PTL

\* No wake-up is lost: a request of the transport layer is waiting exactly when
\* the handler runs or an operation of the physical layer will call it.
THEOREM WakeupNeverLost == Spec => []NoLostWakeup
<1>1. IInv => NoLostWakeup
  BY DEF IInv
<1> QED
  BY <1>1, Invariance, PTL

\* Whatever way a request ended, the link is idle again and takes the next.
THEOREM IdleAfterAnswer == Spec => []IdleWhenAnswered
<1>1. IInv => IdleWhenAnswered
  BY DEF IInv
<1> QED
  BY <1>1, Invariance, PTL

\* The completion of a write or of a read meets the state that waits for it.
THEOREM CompletionExpected == Spec => []ExpectedCompletion
<1>1. IInv => ExpectedCompletion
  BY DEF IInv
<1> QED
  BY <1>1, Invariance, PTL
=============================================================================
