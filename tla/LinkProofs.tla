----------------------------- MODULE LinkProofs -----------------------------
(***************************************************************************)
(* The data link between host and device, for every number of requests,    *)
(* answers, damaged frames, failed operations and retransmissions: what is *)
(* reported as sent has been taken, nothing is taken twice, no answer is   *)
(* lost, and the answers arrive whole and in order.                        *)
(*                                                                         *)
(* The two ends agree on the frame numbers up to the frame that is under   *)
(* way in each direction (SendSync, RecvSync), except between a re-sync    *)
(* and its arrival.  Everything else follows from that: a frame is taken   *)
(* when its number is new, an acknowledgement is believed when it names    *)
(* the last number.  The agreement is inductive only with what the frames  *)
(* under way say (Said, Written), with what a re-sync leaves behind        *)
(* (Restarted) and with what an accepted answer that is not acknowledged   *)
(* yet implies (Accepted).                                                 *)
(***************************************************************************)
EXTENDS Link, DataLinkProofs

\* The host sends a re-sync; the device has heard of all that were sent.
Resyncing == pl = "write" /\ pl_frame.seqctr = "RESYNC"
Heard == ~resync_lost /\ ~Resyncing

Busy == request \in {"tx", "rx"}
Answer == [pay |-> answers, whole |-> TRUE]
History == [pay : Nat, times : 0 .. 2]

LinkTypes ==
  /\ dev_tx \in SeqNr /\ dev_rx \in SeqNr
  /\ noise \in 0 .. MaxNoise /\ fatal \in 0 .. MaxFatal
  /\ answers \in 0 .. MaxAnswers /\ repeats \in 0 .. MaxRepeats
  /\ current \in Nat
  /\ taken \in History /\ handed \in History
  /\ outcome \in {"none", "pending", "ok", "failed", "doubtful"}
  /\ resyncs \in 0 .. 2 /\ damaged \in BOOLEAN /\ resync_lost \in BOOLEAN

\* An undamaged frame of the device speaks of the device as it is now.
Genuine(f) ==
  f.check = "ok" =>
    \/ /\ f.ftype = "data" /\ dev_unacked = <<f.body>>
       /\ f.fr_nr = dev_tx /\ f.ack_nr = dev_rx
    \/ /\ f.ftype = "control" /\ f.seqctr \in {"ACK", "NACK"}
       /\ f.seqctr = "ACK" => f.ack_nr = dev_rx

Said ==
  /\ dev_unacked = <<>> \/ (answers # 0 /\ dev_unacked = <<Answer>>)
  /\ dev_out = <<>> \/ \E f \in Frame : dev_out = <<f>> /\ Genuine(f)

\* So does the frame that the handler is looking at.
Looked ==
  Running =>
    /\ (event.kind = "success" /\ state \in {"RX", "RX_DF", "RX_CF"}) =>
         Genuine(event.frame)
    /\ state = "RX_DF" => (event.kind = "success" /\ event.frame.ftype = "data")
    /\ state = "RX_CF" => (event.kind = "success" /\ event.frame.ftype = "control")

\* What the transport layer waits for, and what the buffer keeps for it.
Modes ==
  /\ request # "none" => reported = "none"
  /\ request = "init" => (state = "IDLE" /\ pl \in {"negotiate", "ready"})
  /\ Busy => (state # "IDLE" /\ pl # "negotiate")
  /\ (Busy \/ reported \in Going) => (current # 0 /\ txbuf.pay = current)
  /\ outcome = "pending" <=> request = "tx"

\* The frame the host is writing.
Written ==
  pl = "write" =>
    /\ pl_frame.ftype = "data" =>
         /\ pl_frame.seqctr = "ACK" /\ pl_frame.body.pay = current
         /\ pl_frame.fr_nr = tx_seq_nr
    /\ pl_frame.seqctr = "ACK" => (pl_frame.ack_nr = rx_seq_nr /\ state # "ERROR")
    /\ pl_frame.seqctr = "RESYNC" => resynced
    /\ pl_frame.seqctr = "NACK" => state = "TX"
    /\ state = "ACK" => (pl_frame.ftype = "control" /\ pl_frame.seqctr = "ACK")

\* After a re-sync, until the next data frame.
Restarted ==
  resynced =>
    /\ tx_seq_nr = DL_MAX_FRAME_NUM /\ rx_seq_nr = DL_MAX_FRAME_NUM
    /\ resyncs # 0 /\ handed.times = 0
    /\ request # "none" => state \in {"RESEND", "ERROR"}
    /\ reported \notin Going

\* The device has taken the host's last data frame, or the one before it.
SendSync ==
  Heard =>
    /\ \/ dev_rx = tx_seq_nr
       \/ NextNr(dev_rx) = tx_seq_nr /\ Busy /\ ~resynced
    /\ (request = "tx" /\ ~resynced /\ dev_rx = tx_seq_nr) => taken.pay = current

\* The host has taken the device's last data frame, or the one before it.
RecvSync ==
  Heard =>
    IF dev_unacked = <<>> THEN dev_tx = rx_seq_nr
    ELSE \/ dev_tx = NextNr(rx_seq_nr)
         \/ /\ dev_tx = rx_seq_nr
            /\ \/ handed.pay = answers \/ state = "ACK"
               \/ state = "ERROR" /\ ~resynced

\* An answer is accepted and its acknowledgement is being written.
Accepted ==
  state = "ACK" =>
    /\ dev_tx = rx_seq_nr /\ dev_rx = tx_seq_nr
    /\ rxbuf = Answer
    /\ handed.pay = answers => handed.times = 0
    /\ ~Running => dev_unacked # <<>>

HandedOnce ==
  /\ handed.pay <= answers
  /\ (handed.pay = answers /\ handed.times # 0) => dev_tx = rx_seq_nr

TakenSync ==
  /\ taken.pay <= current
  /\ (taken.pay = current /\ resyncs = 0) =>
       (taken.times <= 1 /\ (current # 0 => dev_rx = tx_seq_nr))

\* What the exchange of frames preserves, and the inductive invariant.
Agreed ==
  /\ LinkTypes /\ Said /\ Looked /\ Modes /\ Written /\ Restarted
  /\ SendSync /\ RecvSync /\ Accepted /\ HandedOnce /\ TakenSync
  /\ NoFalseSuccess

LInv == IInv /\ Agreed

-----------------------------------------------------------------------------
(* Frame numbers, frames and histories                                      *)

\* Four frame numbers in a ring: the next is another one, and so is the one
\* after it.
LEMMA Ring ==
  \A n, m \in SeqNr :
    /\ NextNr(n) \in SeqNr /\ NextNr(n) # n
    /\ NextNr(n) = NextNr(m) => n = m
    /\ NextNr(DL_MAX_FRAME_NUM) = 0 /\ 0 \in SeqNr /\ DL_MAX_FRAME_NUM \in SeqNr
<1>1. SeqNr = {0, 1, 2, 3} /\ DL_MAX_FRAME_NUM = 3
  BY DEF SeqNr, DL_MAX_FRAME_NUM
<1>2. NextNr(0) = 1 /\ NextNr(1) = 2 /\ NextNr(2) = 3 /\ NextNr(3) = 0
  BY DEF NextNr, DL_MAX_FRAME_NUM
<1> QED
  BY <1>1, <1>2

LEMMA OneElement ==
  \A a, b : /\ <<a>> # <<>> /\ <<a>>[1] = a /\ Len(<<a>>) = 1
            /\ <<a>> = <<b>> => a = b
  OBVIOUS

\* An answer of the device is a payload.
LEMMA AnswerType ==
  ASSUME answers \in 0 .. MaxAnswers, answers # 0
  PROVE  Answer \in Buffer
<1>1. answers \in Payload
  BY BoundAssumption, AnswerPayloadAssumption
<1> QED
  BY <1>1 DEF Answer, Buffer

LEMMA CountedType ==
  ASSUME NEW h \in History, NEW p \in Nat
  PROVE  Counted(h, p) \in History /\ Counted(h, p).pay = p
  BY DEF Counted, Again, History

LEMMA NewSequenceType ==
  ASSUME NEW h \in History
  PROVE  /\ NewSequence(h) \in History
         /\ NewSequence(h).pay = h.pay /\ NewSequence(h).times = 0
  BY DEF NewSequence, History

-----------------------------------------------------------------------------
(* The host's own invariant                                                 *)

LEMMA LinkPlReadDone ==
  ASSUME IInv, NEW f \in Frame, PlReadDone(f)
  PROVE  IInv'
  BY PlEventStep DEF PlReadDone, IInv, ExpectedCompletion

\* The frames a read may return are frames, damaged or not.
LEMMA DamagedType ==
  ASSUME NEW f \in Frame, NEW g \in DamagedForms(f)
  PROVE  g \in Frame /\ g.check # "ok"
<1>1. [f.body EXCEPT !.whole = FALSE] \in Buffer
  BY DEF Frame, Buffer
<1>2. CASE g = [f EXCEPT !.check = "short"]
  BY <1>2 DEF Frame
<1>3. CASE \E t \in {"data", "control"}, s \in {"ACK", "RESYNC"} :
             g = [f EXCEPT !.check = "crc", !.ftype = t, !.seqctr = s, !.body.whole = FALSE]
  <2>1. PICK t \in {"data", "control"}, s \in {"ACK", "RESYNC"} :
          g = [f EXCEPT !.check = "crc", !.ftype = t, !.seqctr = s, !.body.whole = FALSE]
    BY <1>3
  <2>2. g = [f EXCEPT !.check = "crc", !.ftype = t, !.seqctr = s,
                      !.body = [f.body EXCEPT !.whole = FALSE]]
    BY <2>1
  <2> QED
    BY <1>1, <2>2 DEF Frame
<1> QED
  BY <1>2, <1>3 DEF DamagedForms

LEMMA LinkHostStep ==
  ASSUME LInv, [LinkNext]_linkvars
  PROVE  IInv'
<1>1. CASE LinkReadDone
  <2>1. PICK f \in Frame : dev_out = <<f>>
    BY <1>1 DEF LInv, Agreed, Said, LinkReadDone
  <2>2. dev_out[1] = f
    BY <2>1
  <2>3. CASE PlReadDone(dev_out[1])
    BY <2>2, <2>3, LinkPlReadDone DEF LInv
  <2>4. CASE \E g \in DamagedForms(dev_out[1]) : PlReadDone(g)
    BY <2>2, <2>4, LinkPlReadDone, DamagedType DEF LInv
  <2> QED
    BY <1>1, <2>3, <2>4 DEF LinkReadDone
<1>2. CASE \E first \in BOOLEAN : LinkSend(first)
  BY <1>2, DlSendFrameStep DEF LinkSend, LInv
<1>3. CASE LinkHandler
  BY <1>3, NextIInv DEF LinkHandler, Next, LInv
<1>4. CASE DevAnswer \/ DevRepeat \/ UNCHANGED linkvars
  BY <1>4, NextIInv DEF DevAnswer, DevRepeat, linkvars, LInv
<1>5. CASE LinkWriteDone \/ LinkFatal \/ LinkQuiet(PlNegotiated)
             \/ LinkQuiet(PlReadTimeout) \/ LinkQuiet(ExitTimeout)
  BY <1>5, PlWriteDoneStep, PlFatalStep, PlNegotiatedStep, PlReadTimeoutStep,
     ExitTimeoutStep DEF LinkWriteDone, LinkFatal, LinkQuiet, LInv
<1>6. CASE LinkReceive \/ LinkInitAgain
  BY <1>6, DlReceiveFrameStep, DlInitStep DEF LinkReceive, LinkInitAgain, LInv
<1> QED
  BY <1>1, <1>2, <1>3, <1>4, <1>5, <1>6 DEF LinkNext

-----------------------------------------------------------------------------
(* The cases of the handler                                                 *)

\* Where the handler starts from.
LEMMA HandlerFacts ==
  ASSUME LInv, Running
  PROVE  /\ TypeOK /\ pl = "ready" /\ request # "none" /\ reported = "none"
         /\ state # "IDLE" <=> Busy
         /\ resynced => state \in {"RESEND", "ERROR"}
         /\ Heard <=> ~resync_lost
<1>1. TypeOK /\ pl = "ready" /\ request # "none"
  BY RunningFacts DEF LInv
<1> QED
  BY <1>1 DEF LInv, Agreed, Modes, Restarted, Busy, TypeOK, Heard, Resyncing

\* What a case leaves alone unless it reports or sends a re-sync.
LEMMA HandlerQuiet ==
  ASSUME LInv, LinkHandler, Running, request' = request,
         pl' = "write" => pl_frame'.seqctr # "RESYNC"
  PROVE  /\ handed' = handed /\ outcome' = outcome /\ resyncs' = resyncs
         /\ UNCHANGED <<dev_tx, dev_rx, dev_out, dev_unacked, answers, repeats>>
         /\ UNCHANGED <<noise, fatal, current, taken, damaged, resync_lost>>
         /\ (Heard' <=> Heard) /\ (Busy' <=> Busy) /\ Answer' = Answer
  BY HandlerFacts
  DEF LinkHandler, Propagates, SendsResync, devvars, Heard, Resyncing, Busy, Answer

\* A case that only moves on.
LEMMA MovesOn ==
  ASSUME LInv, LinkHandler, UNCHANGED seqvars, NEW s,
         NEW t \in {"NACK", "RESEND", "RX_DF", "RX_CF", "DISCARD", "ERROR"},
         Goto(s, t), s \in {"RX", "RX_DF", "RX_CF", "RESEND"},
         s = "RESEND" <=> t = "ERROR",
         t \in {"RX_DF", "RX_CF"} => s = "RX",
         t = "RX_DF" => (event.kind = "success" /\ event.frame.ftype = "data"),
         t = "RX_CF" => (event.kind = "success" /\ event.frame.ftype = "control")
  PROVE  Agreed'
<1>1. /\ Running /\ state = s /\ state' = t
      /\ event' = event /\ pl' = pl /\ pl_frame' = pl_frame
      /\ txbuf' = txbuf /\ rxbuf' = rxbuf /\ request' = request /\ reported' = reported
      /\ tx_seq_nr' = tx_seq_nr /\ rx_seq_nr' = rx_seq_nr /\ resynced' = resynced
  BY DEF Goto, upvars, plvars, bufvars, seqvars
<1>2. Running' /\ pl = "ready" /\ Busy
  BY <1>1, HandlerFacts DEF Running
<1>3. /\ handed' = handed /\ outcome' = outcome /\ resyncs' = resyncs
      /\ UNCHANGED <<dev_tx, dev_rx, dev_out, dev_unacked, answers, repeats>>
      /\ UNCHANGED <<noise, fatal, current, taken, damaged, resync_lost>>
      /\ (Heard' <=> Heard) /\ (Busy' <=> Busy) /\ Answer' = Answer
  BY <1>1, <1>2, HandlerQuiet
<1>4. LinkTypes' /\ Said' /\ HandedOnce' /\ TakenSync' /\ NoFalseSuccess'
  BY <1>1, <1>3
  DEF LInv, Agreed, LinkTypes, Said, Genuine, HandedOnce, TakenSync, NoFalseSuccess
<1>5. Looked'
  BY <1>1, <1>3 DEF LInv, Agreed, Looked, Genuine
<1>6. Modes' /\ Written' /\ Restarted'
  BY <1>1, <1>2, <1>3 DEF LInv, Agreed, Modes, Written, Restarted, Busy
<1>7. SendSync' /\ RecvSync' /\ Accepted'
  BY <1>1, <1>2, <1>3 DEF LInv, Agreed, SendSync, RecvSync, Accepted
<1> QED
  BY <1>4, <1>5, <1>6, <1>7 DEF Agreed

\* A case that starts a read.
LEMMA StartsRead ==
  ASSUME LInv, LinkHandler, Running, state \in {"TX", "DISCARD"},
         state' = "RX", event' = NoEvent, pl' = "read", pl_frame' = pl_frame,
         UNCHANGED <<seqvars, modevars, bufvars, expired, upvars>>
  PROVE  Agreed'
<1>1. /\ txbuf' = txbuf /\ rxbuf' = rxbuf /\ request' = request /\ reported' = reported
      /\ tx_seq_nr' = tx_seq_nr /\ rx_seq_nr' = rx_seq_nr /\ resynced' = resynced
  BY DEF upvars, bufvars, seqvars
<1>2. ~Running' /\ pl = "ready" /\ Busy /\ ~resynced
  BY HandlerFacts DEF Running, NoEvent
<1>3. /\ handed' = handed /\ outcome' = outcome /\ resyncs' = resyncs
      /\ UNCHANGED <<dev_tx, dev_rx, dev_out, dev_unacked, answers, repeats>>
      /\ UNCHANGED <<noise, fatal, current, taken, damaged, resync_lost>>
      /\ (Heard' <=> Heard) /\ (Busy' <=> Busy) /\ Answer' = Answer
  BY <1>1, <1>2, HandlerQuiet
<1>4. LinkTypes' /\ Said' /\ HandedOnce' /\ TakenSync' /\ NoFalseSuccess'
  BY <1>1, <1>3
  DEF LInv, Agreed, LinkTypes, Said, Genuine, HandedOnce, TakenSync, NoFalseSuccess
<1>5. Looked' /\ Modes' /\ Written' /\ Restarted'
  BY <1>1, <1>2, <1>3 DEF LInv, Agreed, Looked, Modes, Written, Restarted, Busy
<1>6. SendSync' /\ RecvSync' /\ Accepted'
  BY <1>1, <1>2, <1>3 DEF LInv, Agreed, SendSync, RecvSync, Accepted
<1> QED
  BY <1>4, <1>5, <1>6 DEF Agreed

LEMMA CaseTxAgreed == LInv /\ LinkHandler /\ CaseTx => Agreed'
<1> SUFFICES ASSUME LInv, LinkHandler, CaseTx PROVE Agreed'
  OBVIOUS
<1>1. Running /\ pl = "ready"
  BY HandlerFacts DEF CaseTx
<1>2. state' = "RX" /\ event' = NoEvent /\ pl' = "read" /\ pl_frame' = pl_frame
  BY <1>1 DEF CaseTx, PlReceiveFrame, PlAccepts
<1> QED
  BY <1>1, <1>2, StartsRead DEF CaseTx

LEMMA CaseDiscardAgreed == LInv /\ LinkHandler /\ CaseDiscard => Agreed'
<1> SUFFICES ASSUME LInv, LinkHandler, CaseDiscard PROVE Agreed'
  OBVIOUS
<1>1. Running /\ pl = "ready"
  BY HandlerFacts DEF CaseDiscard
<1>2. pl' = "read" /\ pl_frame' = pl_frame
  BY <1>1 DEF CaseDiscard, PlReceiveFrame, PlAccepts
<1> QED
  BY <1>1, <1>2, StartsRead DEF CaseDiscard

LEMMA CaseRxAgreed == LInv /\ LinkHandler /\ CaseRx => Agreed'
<1> SUFFICES ASSUME LInv, LinkHandler, CaseRx PROVE Agreed'
  OBVIOUS
<1>1. CASE Goto("RX", "RESEND")
  BY <1>1, MovesOn DEF CaseRx
<1>2. CASE Goto("RX", "NACK")
  BY <1>2, MovesOn DEF CaseRx
<1>3. CASE /\ event.kind = "success"
           /\ Goto("RX", IF event.frame.ftype = "control" THEN "RX_CF" ELSE "RX_DF")
  <2>1. TypeOK
    BY DEF LInv, IInv
  <2>2. event.frame.ftype \in {"data", "control"}
    BY <2>1 DEF TypeOK, Frame
  <2>3. CASE event.frame.ftype = "control"
    BY <1>3, <2>3, MovesOn DEF CaseRx
  <2>4. CASE event.frame.ftype = "data"
    BY <1>3, <2>4, MovesOn DEF CaseRx
  <2> QED
    BY <2>2, <2>3, <2>4
<1> QED
  BY <1>1, <1>2, <1>3 DEF CaseRx

\* A case that starts writing an acknowledgement or a NACK.
LEMMA SendsControl ==
  ASSUME LInv, LinkHandler, Running, state \in {"RX_DF", "NACK"},
         state' \in {"DISCARD", "TX"}, event' = NoEvent, pl' = "write",
         NEW s \in {"ACK", "NACK"}, NEW n, pl_frame' = ControlFrame(s, n),
         s = "ACK" => n = rx_seq_nr, s = "NACK" => state' = "TX",
         txbuf'.pay = txbuf.pay, UNCHANGED <<seqvars, upvars>>
  PROVE  Agreed'
<1>1. /\ request' = request /\ reported' = reported
      /\ tx_seq_nr' = tx_seq_nr /\ rx_seq_nr' = rx_seq_nr /\ resynced' = resynced
  BY DEF upvars, seqvars
<1>2. ~Running' /\ pl = "ready" /\ Busy /\ ~resynced
  BY HandlerFacts DEF Running, NoEvent
<1>3. /\ pl_frame'.ftype = "control" /\ pl_frame'.seqctr = s
      /\ pl_frame'.ack_nr = n
  BY DEF ControlFrame
<1>4. /\ handed' = handed /\ outcome' = outcome /\ resyncs' = resyncs
      /\ UNCHANGED <<dev_tx, dev_rx, dev_out, dev_unacked, answers, repeats>>
      /\ UNCHANGED <<noise, fatal, current, taken, damaged, resync_lost>>
      /\ (Heard' <=> Heard) /\ (Busy' <=> Busy) /\ Answer' = Answer
  BY <1>1, <1>2, <1>3, HandlerQuiet
<1>5. LinkTypes' /\ Said' /\ HandedOnce' /\ TakenSync' /\ NoFalseSuccess'
  BY <1>1, <1>4
  DEF LInv, Agreed, LinkTypes, Said, Genuine, HandedOnce, TakenSync, NoFalseSuccess
<1>6. Looked' /\ Modes' /\ Restarted'
  BY <1>1, <1>2, <1>4 DEF LInv, Agreed, Looked, Modes, Restarted, Busy
<1>7. Written'
  BY <1>1, <1>3 DEF Written
<1>8. SendSync' /\ RecvSync' /\ Accepted'
  BY <1>1, <1>2, <1>4 DEF LInv, Agreed, SendSync, RecvSync, Accepted
<1> QED
  BY <1>5, <1>6, <1>7, <1>8 DEF Agreed

\* The bytes of a control frame leave the payload's identity in the buffer.
LEMMA OverTx ==
  ASSUME TypeOK, pl = "ready", NEW f, ControlOverTx(f)
  PROVE  txbuf'.pay = txbuf.pay /\ pl' = "write" /\ pl_frame' = f
  BY DEF ControlOverTx, PlSendFrame, PlAccepts, TypeOK, Buffer

LEMMA DfAckOldFrameAgreed == LInv /\ LinkHandler /\ DfAckOldFrame => Agreed'
<1> SUFFICES ASSUME LInv, LinkHandler, DfAckOldFrame PROVE Agreed'
  OBVIOUS
<1>1. Running /\ pl = "ready"
  BY HandlerFacts DEF DfAckOldFrame
<1>2. pl' = "write" /\ pl_frame' = ControlFrame("ACK", rx_seq_nr)
  BY <1>1 DEF DfAckOldFrame, ControlOverRx, PlSendFrame, PlAccepts
<1> QED
  BY <1>1, <1>2, SendsControl DEF DfAckOldFrame

LEMMA CaseNackAgreed == LInv /\ LinkHandler /\ CaseNack => Agreed'
<1> SUFFICES ASSUME LInv, LinkHandler, CaseNack PROVE Agreed'
  OBVIOUS
<1>1. Running /\ TypeOK /\ pl = "ready"
  BY HandlerFacts DEF CaseNack
<1>2. /\ txbuf'.pay = txbuf.pay /\ pl' = "write"
      /\ pl_frame' = ControlFrame("NACK", NextNr(rx_seq_nr))
  BY <1>1, OverTx DEF CaseNack
<1> QED
  BY <1>1, <1>2, SendsControl DEF CaseNack

\* What an accepted data frame is: the device's answer, with the next number,
\* from a device that has taken what the host sent.
LEMMA AcceptedFrame ==
  ASSUME LInv, DfAccept
  PROVE  /\ dev_unacked = <<Answer>> /\ event.frame.body = Answer
         /\ dev_tx = NextNr(rx_seq_nr) /\ dev_rx = tx_seq_nr
<1>1. /\ Running /\ state = "RX_DF" /\ event.frame.check = "ok"
      /\ event.frame.fr_nr = NextNr(rx_seq_nr) /\ event.frame.ack_nr = tx_seq_nr
  BY DEF DfAccept, DfBroken, DfOther, DfAckOther
<1>2. Genuine(event.frame) /\ event.frame.ftype = "data"
  BY <1>1 DEF LInv, Agreed, Looked
<1>3. /\ dev_unacked = <<event.frame.body>> /\ event.frame.fr_nr = dev_tx
      /\ event.frame.ack_nr = dev_rx
  BY <1>1, <1>2 DEF Genuine
<1>4. dev_unacked = <<Answer>>
  BY <1>3, OneElement DEF LInv, Agreed, Said
<1> QED
  BY <1>1, <1>3, <1>4, OneElement

LEMMA DfAcceptAgreed == LInv /\ LinkHandler /\ DfAccept => Agreed'
<1> SUFFICES ASSUME LInv, LinkHandler, DfAccept PROVE Agreed'
  OBVIOUS
<1>1. Running /\ state = "RX_DF" /\ TypeOK /\ pl = "ready" /\ Busy /\ ~resynced
  BY HandlerFacts DEF DfAccept
<1>2. /\ txbuf'.pay = txbuf.pay /\ pl' = "write"
      /\ pl_frame' = ControlFrame("ACK", NextNr(rx_seq_nr))
  BY <1>1, OverTx DEF DfAccept
<1>3. /\ rx_seq_nr' = NextNr(rx_seq_nr) /\ rxbuf' = event.frame.body
      /\ state' = "ACK" /\ tx_seq_nr' = tx_seq_nr /\ resynced' = resynced
      /\ request' = request /\ reported' = reported /\ ~Running'
  BY DEF DfAccept, upvars, Running, NoEvent
<1>4. /\ pl_frame'.ftype = "control" /\ pl_frame'.seqctr = "ACK"
      /\ pl_frame'.ack_nr = NextNr(rx_seq_nr)
  BY <1>2 DEF ControlFrame
<1>5. /\ handed' = handed /\ outcome' = outcome /\ resyncs' = resyncs
      /\ UNCHANGED <<dev_tx, dev_rx, dev_out, dev_unacked, answers, repeats>>
      /\ UNCHANGED <<noise, fatal, current, taken, damaged, resync_lost>>
      /\ (Heard' <=> Heard) /\ (Busy' <=> Busy) /\ Answer' = Answer
  BY <1>1, <1>3, <1>4, HandlerQuiet
<1>6. NextNr(rx_seq_nr) # rx_seq_nr
  BY <1>1, Ring DEF TypeOK
<1>7. LinkTypes' /\ Said' /\ TakenSync' /\ NoFalseSuccess'
  BY <1>3, <1>5
  DEF LInv, Agreed, LinkTypes, Said, Genuine, TakenSync, NoFalseSuccess
<1>8. Looked' /\ Modes' /\ Restarted'
  BY <1>1, <1>2, <1>3, <1>5 DEF LInv, Agreed, Looked, Modes, Restarted, Busy
<1>9. Written' /\ SendSync'
  BY <1>3, <1>4, <1>5 DEF LInv, Agreed, Written, SendSync
<1>10. RecvSync' /\ Accepted' /\ HandedOnce'
  BY <1>3, <1>5, <1>6, AcceptedFrame, OneElement
  DEF LInv, Agreed, RecvSync, Accepted, HandedOnce
<1> QED
  BY <1>7, <1>8, <1>9, <1>10 DEF Agreed

LEMMA CaseRxDfAgreed == LInv /\ LinkHandler /\ CaseRxDf => Agreed'
<1> SUFFICES ASSUME LInv, LinkHandler, CaseRxDf PROVE Agreed'
  OBVIOUS
<1>1. CASE Goto("RX_DF", "NACK") /\ UNCHANGED seqvars
  BY <1>1, MovesOn
<1>2. CASE Goto("RX_DF", "DISCARD") /\ UNCHANGED seqvars
  BY <1>2, MovesOn
<1>3. CASE Goto("RX_DF", "RESEND") /\ UNCHANGED seqvars
  BY <1>3, MovesOn
<1> QED
  BY <1>1, <1>2, <1>3, DfAckOldFrameAgreed, DfAcceptAgreed DEF CaseRxDf

\* How a request to send ends is recorded truthfully.
LEMMA Outcome ==
  ASSUME LInv, LinkHandler, request' = "none",
         (request = "tx" /\ reported' # "error" /\ ~resync_lost) => taken.pay = current
  PROVE  /\ outcome' \in {"none", "ok", "failed", "doubtful"}
         /\ outcome' = "ok" => taken.pay = current
<1>1. CASE request = "tx"
  BY <1>1 DEF LinkHandler
<1>2. CASE request # "tx"
  <2>1. outcome' = outcome
    BY <1>2 DEF LinkHandler
  <2> QED
    BY <1>2, <2>1 DEF LInv, Agreed, Modes, LinkTypes, NoFalseSuccess
<1> QED
  BY <1>1, <1>2

\* A case that ends the request with an event for the transport layer.
LEMMA Reports ==
  ASSUME LInv, LinkHandler, Running,
         NEW r \in {"open", "failed", "error"} \cup Going, Report(r),
         UNCHANGED <<seqvars, modevars, bufvars, plvars, expired>>,
         r \in Going => (Busy /\ ~resynced),
         Heard => dev_rx = tx_seq_nr,
         r \in {"rx", "txrx"} <=> state = "ACK",
         state = "ERROR" => resynced,
         request = "tx" => r \in Going \cup {"error"}
  PROVE  Agreed'
<1>1. /\ txbuf' = txbuf /\ rxbuf' = rxbuf /\ pl' = pl /\ pl_frame' = pl_frame
      /\ tx_seq_nr' = tx_seq_nr /\ rx_seq_nr' = rx_seq_nr /\ resynced' = resynced
      /\ state' = "IDLE" /\ request' = "none" /\ reported' = r /\ ~Running'
  BY DEF plvars, bufvars, seqvars, Report, Running, NoEvent
<1>2. /\ pl = "ready" /\ request # "none" /\ (Heard <=> ~resync_lost)
      /\ (Heard' <=> ~resync_lost') /\ ~Busy'
  BY <1>1, HandlerFacts DEF Heard, Resyncing, Busy
<1>3. /\ handed' = IF state = "ACK" THEN Counted(handed, rxbuf.pay) ELSE handed
      /\ resyncs' = resyncs /\ Answer' = Answer
      /\ UNCHANGED <<dev_tx, dev_rx, dev_out, dev_unacked, answers, repeats>>
      /\ UNCHANGED <<noise, fatal, current, taken, damaged, resync_lost>>
  BY <1>1, <1>2 DEF LinkHandler, Propagates, SendsResync, devvars, Answer
<1>4. /\ outcome' \in {"none", "ok", "failed", "doubtful"}
      /\ outcome' = "ok" => taken.pay = current
  BY <1>1, <1>2, Outcome DEF LInv, Agreed, SendSync
<1>5. /\ handed' \in History
      /\ handed'.pay = IF state = "ACK" THEN answers ELSE handed.pay
  <2>1. CASE state = "ACK"
    <3>1. rxbuf.pay = answers /\ answers \in Nat
      BY <2>1, BoundAssumption DEF LInv, Agreed, Accepted, Answer, LinkTypes
    <3> QED
      BY <1>3, <2>1, <3>1, CountedType DEF LInv, Agreed, LinkTypes
  <2> QED
    BY <1>3, <2>1 DEF LInv, Agreed, LinkTypes
<1>6. LinkTypes'
  BY <1>3, <1>4, <1>5 DEF LInv, Agreed, LinkTypes
<1>7. Said' /\ Looked' /\ TakenSync' /\ NoFalseSuccess'
  BY <1>1, <1>3, <1>4
  DEF LInv, Agreed, Said, Looked, Genuine, TakenSync, NoFalseSuccess
<1>8. Modes' /\ Written'
  BY <1>1, <1>2, <1>3, <1>4 DEF LInv, Agreed, Modes, Written, Busy
<1>9. Restarted'
  BY <1>1, <1>2, <1>3, HandlerFacts DEF LInv, Agreed, Restarted, Going
<1>10. SendSync' /\ Accepted'
  BY <1>1, <1>2, <1>3 DEF LInv, Agreed, SendSync, Accepted
<1>11. RecvSync'
  BY <1>1, <1>2, <1>3, <1>5 DEF LInv, Agreed, RecvSync
<1>12. HandedOnce'
  <2>1. CASE state = "ACK"
    BY <1>1, <1>3, <1>5, <2>1 DEF LInv, Agreed, HandedOnce, Accepted, LinkTypes
  <2> QED
    BY <1>1, <1>3, <2>1 DEF LInv, Agreed, HandedOnce
<1> QED
  BY <1>6, <1>7, <1>8, <1>9, <1>10, <1>11, <1>12 DEF Agreed

LEMMA CaseIdleAgreed == LInv /\ LinkHandler /\ CaseIdle => Agreed'
<1> SUFFICES ASSUME LInv, LinkHandler, CaseIdle PROVE Agreed'
  OBVIOUS
<1>1. Running /\ state = "IDLE" /\ ~Busy
  BY HandlerFacts DEF CaseIdle
<1>2. Heard => dev_rx = tx_seq_nr
  BY <1>1 DEF LInv, Agreed, SendSync
<1>3. PICK r \in {"open", "failed"} : Report(r)
  BY DEF CaseIdle
<1> QED
  BY <1>1, <1>2, <1>3, Reports DEF CaseIdle, Busy, Going

LEMMA CaseAckAgreed == LInv /\ LinkHandler /\ CaseAck => Agreed'
<1> SUFFICES ASSUME LInv, LinkHandler, CaseAck PROVE Agreed'
  OBVIOUS
<1>1. Running /\ state = "ACK" /\ Busy /\ ~resynced
  BY HandlerFacts DEF CaseAck
<1>2. dev_rx = tx_seq_nr
  BY <1>1 DEF LInv, Agreed, Accepted
<1>3. PICK r \in {"rx", "txrx"} : Report(r)
  BY DEF CaseAck
<1> QED
  BY <1>1, <1>2, <1>3, Reports DEF CaseAck, Going

\* An acknowledgement with the last number sent comes from a device that has
\* taken that frame.
LEMMA CfAckAgreed == LInv /\ LinkHandler /\ CfAck => Agreed'
<1> SUFFICES ASSUME LInv, LinkHandler, CfAck PROVE Agreed'
  OBVIOUS
<1>1. /\ Running /\ state = "RX_CF" /\ event.frame.check = "ok"
      /\ event.frame.seqctr = "ACK" /\ event.frame.ack_nr = tx_seq_nr
  BY DEF CfAck, CfOther
<1>2. Genuine(event.frame) /\ event.frame.ftype = "control"
  BY <1>1 DEF LInv, Agreed, Looked
<1>3. dev_rx = tx_seq_nr
  BY <1>1, <1>2 DEF Genuine
<1>4. Busy /\ ~resynced
  BY <1>1, HandlerFacts
<1> QED
  BY <1>1, <1>3, <1>4, Reports DEF CfAck, Going

LEMMA ErrorReportAgreed == LInv /\ LinkHandler /\ ErrorReport => Agreed'
<1> SUFFICES ASSUME LInv, LinkHandler, ErrorReport PROVE Agreed'
  OBVIOUS
<1>1. Running /\ state = "ERROR" /\ resynced
  BY DEF ErrorReport
<1>2. Heard => dev_rx = tx_seq_nr
  BY <1>1 DEF LInv, Agreed, SendSync
<1> QED
  BY <1>1, <1>2, Reports DEF ErrorReport, Going

LEMMA CaseRxCfAgreed == LInv /\ LinkHandler /\ CaseRxCf => Agreed'
<1> SUFFICES ASSUME LInv, LinkHandler, CaseRxCf PROVE Agreed'
  OBVIOUS
<1>1. CASE Goto("RX_CF", "DISCARD") /\ UNCHANGED seqvars
  BY <1>1, MovesOn
<1>2. CASE Goto("RX_CF", "RESEND") /\ UNCHANGED seqvars
  BY <1>2, MovesOn
\* The device never sends a re-sync.
<1>3. ~CfResync
  <2> SUFFICES ASSUME CfResync PROVE FALSE
    OBVIOUS
  <2>1. /\ Running /\ state = "RX_CF" /\ event.frame.check = "ok"
        /\ event.frame.seqctr = "RESYNC"
    BY DEF CfResync, Goto
  <2> QED
    BY <2>1 DEF LInv, Agreed, Looked, Genuine
<1> QED
  BY <1>1, <1>2, <1>3, CfAckAgreed DEF CaseRxCf

\* A retransmission: with the number it had, or with the first one after the
\* numbers have been reset, which the device then has not taken yet.
LEMMA ResendFrameAgreed ==
  ASSUME LInv, LinkHandler, Running, state = "RESEND", ResendFrame, event' = NoEvent,
         UNCHANGED <<action_rx_only, expired, upvars>>
  PROVE  Agreed'
<1>1. TypeOK /\ pl = "ready" /\ Busy
  BY HandlerFacts
<1>2. /\ state' = "TX" /\ pl' = "write" /\ ~Running' /\ resynced' = FALSE
      /\ tx_seq_nr' = IF resynced THEN NextNr(tx_seq_nr) ELSE tx_seq_nr
      /\ rx_seq_nr' = rx_seq_nr /\ txbuf' = txbuf /\ rxbuf' = rxbuf
      /\ request' = request /\ reported' = reported
      /\ pl_frame' = DataFrame(tx_seq_nr', rx_seq_nr, txbuf)
  BY <1>1
  DEF ResendFrame, SendData, PlSendFrame, PlAccepts, bufvars, upvars, Running, NoEvent
<1>3. /\ pl_frame'.ftype = "data" /\ pl_frame'.seqctr = "ACK"
      /\ pl_frame'.ack_nr = rx_seq_nr /\ pl_frame'.fr_nr = tx_seq_nr'
      /\ pl_frame'.body = txbuf
  BY <1>2 DEF DataFrame
<1>4. /\ handed' = handed /\ outcome' = outcome /\ resyncs' = resyncs
      /\ UNCHANGED <<dev_tx, dev_rx, dev_out, dev_unacked, answers, repeats>>
      /\ UNCHANGED <<noise, fatal, current, taken, damaged, resync_lost>>
      /\ (Heard' <=> Heard) /\ (Busy' <=> Busy) /\ Answer' = Answer
  BY <1>2, <1>3, HandlerQuiet
<1>5. NextNr(tx_seq_nr) # tx_seq_nr
  BY <1>1, Ring DEF TypeOK
<1>6. LinkTypes' /\ Said' /\ HandedOnce' /\ NoFalseSuccess'
  BY <1>2, <1>4
  DEF LInv, Agreed, LinkTypes, Said, Genuine, HandedOnce, NoFalseSuccess
<1>7. Looked' /\ Modes' /\ Restarted'
  BY <1>1, <1>2, <1>4 DEF LInv, Agreed, Looked, Modes, Restarted, Busy
<1>8. Written'
  BY <1>1, <1>2, <1>3, <1>4 DEF LInv, Agreed, Written, Modes
<1>9. SendSync'
  <2>1. CASE resynced
    BY <1>1, <1>2, <1>4, <1>5, <2>1 DEF LInv, Agreed, SendSync
  <2>2. CASE ~resynced
    BY <1>1, <1>2, <1>4, <2>2 DEF LInv, Agreed, SendSync
  <2> QED
    BY <2>1, <2>2
<1>10. RecvSync' /\ Accepted'
  BY <1>2, <1>4 DEF LInv, Agreed, RecvSync, Accepted
<1>11. TakenSync'
  BY <1>2, <1>4 DEF LInv, Agreed, TakenSync, Restarted
<1> QED
  BY <1>6, <1>7, <1>8, <1>9, <1>10, <1>11 DEF Agreed

\* A re-sync: until the device has heard of it the ends need not agree.
LEMMA ResyncAgreed ==
  ASSUME LInv, LinkHandler, Running, state \in {"RESEND", "ERROR"}, state' = state,
         Resync, event' = NoEvent, UNCHANGED <<action_rx_only, expired, upvars>>
  PROVE  Agreed'
<1>1. TypeOK /\ pl = "ready" /\ Busy /\ request # "none" /\ reported = "none"
  BY HandlerFacts
<1>2. /\ pl' = "write" /\ ~Running' /\ resynced' = TRUE
      /\ tx_seq_nr' = DL_MAX_FRAME_NUM /\ rx_seq_nr' = DL_MAX_FRAME_NUM
      /\ txbuf' = txbuf /\ request' = request /\ reported' = reported
      /\ pl_frame' = ControlFrame("RESYNC", 0)
  BY <1>1 DEF Resync, ControlOverRx, PlSendFrame, PlAccepts, upvars, Running, NoEvent
<1>3. pl_frame'.ftype = "control" /\ pl_frame'.seqctr = "RESYNC"
  BY <1>2 DEF ControlFrame
<1>4. /\ handed' = NewSequence(handed) /\ outcome' = outcome
      /\ resyncs' = Again(resyncs)
      /\ UNCHANGED <<dev_tx, dev_rx, dev_out, dev_unacked, answers, repeats>>
      /\ UNCHANGED <<noise, fatal, current, taken, damaged, resync_lost>>
      /\ ~Heard' /\ (Busy' <=> Busy) /\ Answer' = Answer
  BY <1>1, <1>2, <1>3
  DEF LinkHandler, Propagates, SendsResync, devvars, Heard, Resyncing, Busy, Answer
<1>5. /\ handed' \in History /\ handed'.pay = handed.pay /\ handed'.times = 0
      /\ resyncs' \in 1 .. 2
  BY <1>4, NewSequenceType DEF LInv, Agreed, LinkTypes, Again
<1>6. LinkTypes' /\ Said' /\ NoFalseSuccess'
  BY <1>4, <1>5 DEF LInv, Agreed, LinkTypes, Said, Genuine, NoFalseSuccess
<1>7. HandedOnce' /\ TakenSync'
  BY <1>4, <1>5 DEF LInv, Agreed, HandedOnce, TakenSync
<1>8. Looked' /\ Modes'
  BY <1>1, <1>2, <1>4 DEF LInv, Agreed, Looked, Modes, Busy
<1>9. Written' /\ Restarted'
  BY <1>1, <1>2, <1>3, <1>5 DEF Written, Restarted, Going
<1>10. SendSync' /\ RecvSync' /\ Accepted'
  BY <1>4 DEF SendSync, RecvSync, Accepted
<1> QED
  BY <1>6, <1>7, <1>8, <1>9, <1>10 DEF Agreed

LEMMA CaseResendAgreed == LInv /\ LinkHandler /\ CaseResend => Agreed'
<1> SUFFICES ASSUME LInv, LinkHandler, CaseResend PROVE Agreed'
  OBVIOUS
<1>1. CASE expired /\ Goto("RESEND", "ERROR") /\ UNCHANGED seqvars
  BY <1>1, MovesOn
<1>2. CASE /\ Running /\ state = "RESEND" /\ (ResendFrame \/ ResendResync)
           /\ event' = NoEvent /\ UNCHANGED <<action_rx_only, expired, upvars>>
  <2>1. CASE ResendFrame
    BY <1>2, <2>1, ResendFrameAgreed
  <2>2. CASE ResendResync
    <3>1. pl = "ready"
      BY <1>2, HandlerFacts
    <3>2. Resync /\ state' = "RESEND"
      BY <2>2, <3>1 DEF ResendResync, PlAccepts
    <3> QED
      BY <1>2, <3>2, ResyncAgreed
  <2> QED
    BY <1>2, <2>1, <2>2
<1> QED
  BY <1>1, <1>2 DEF CaseResend

LEMMA ErrorResyncAgreed == LInv /\ LinkHandler /\ ErrorResync => Agreed'
  BY ResyncAgreed DEF ErrorResync, modevars

LEMMA LinkHandlerStep == LInv /\ LinkHandler => Agreed'
  BY CaseIdleAgreed, CaseTxAgreed, CaseRxAgreed, CaseRxDfAgreed, CaseRxCfAgreed,
     CaseDiscardAgreed, CaseAckAgreed, CaseNackAgreed, CaseResendAgreed,
     ErrorResyncAgreed, ErrorReportAgreed DEF LinkHandler, Handler

-----------------------------------------------------------------------------
(* A frame of the host has been written                                     *)

\* What the device can say is made of frames.
LEMMA SaidType ==
  ASSUME LInv
  PROVE  /\ \A s \in {"ACK", "NACK"}, n \in SeqNr : ControlFrame(s, n) \in Frame
         /\ dev_unacked # <<>> => DataFrame(dev_tx, dev_rx, dev_unacked[1]) \in Frame
<1>1. dev_unacked # <<>> => dev_unacked[1] \in Buffer
  BY AnswerType, OneElement DEF LInv, Agreed, Said, LinkTypes
<1> QED
  BY <1>1, ControlFrameType, DataFrameType DEF LInv, Agreed, LinkTypes

\* The host's side of the completion of a write.
LEMMA WriteDone ==
  ASSUME LInv, LinkWriteDone
  PROVE  /\ pl = "write" /\ pl' = "ready" /\ ~Running
         /\ state' = state /\ state \in {"TX", "ACK", "DISCARD", "RESEND", "ERROR"}
         /\ Busy /\ request # "none" /\ request' = request /\ reported' = reported
         /\ tx_seq_nr' = tx_seq_nr /\ rx_seq_nr' = rx_seq_nr /\ resynced' = resynced
         /\ txbuf' = txbuf /\ rxbuf' = rxbuf
         /\ noise' \in 0 .. MaxNoise /\ fatal' = fatal
         /\ answers' = answers /\ repeats' = repeats
         /\ current' = current /\ handed' = handed
         /\ outcome' = outcome /\ resyncs' = resyncs
         /\ (Heard <=> ~resync_lost /\ pl_frame.seqctr # "RESYNC")
         /\ (Heard' <=> ~resync_lost')
         /\ Busy' /\ Answer' = Answer
         /\ Looked' /\ Modes' /\ Written' /\ Restarted'
<1>1. /\ pl = "write" /\ pl' = "ready" /\ ~Running
      /\ state' = state /\ request' = request /\ reported' = reported
      /\ tx_seq_nr' = tx_seq_nr /\ rx_seq_nr' = rx_seq_nr /\ resynced' = resynced
      /\ txbuf' = txbuf /\ rxbuf' = rxbuf
  BY DEF LinkWriteDone, PlWriteDone, PlEvent, seqvars, bufvars, upvars
<1>2. state \in {"TX", "ACK", "DISCARD", "RESEND", "ERROR"} /\ request # "none"
  BY <1>1 DEF LInv, IInv, ExpectedCompletion, NoLostWakeup
<1>3. Busy
  BY <1>1, <1>2 DEF LInv, Agreed, Modes, IInv, TypeOK, Busy
<1>4. /\ noise' \in 0 .. MaxNoise /\ fatal' = fatal
      /\ answers' = answers /\ repeats' = repeats
      /\ current' = current /\ handed' = handed
      /\ outcome' = outcome /\ resyncs' = resyncs
  BY BoundAssumption DEF LinkWriteDone, LInv, Agreed, LinkTypes
<1>5. Looked'
  BY <1>1, <1>2 DEF Looked
<1>6. Modes' /\ Written' /\ Restarted'
  BY <1>1, <1>3, <1>4 DEF LInv, Agreed, Modes, Written, Restarted, Busy
<1> QED
  BY <1>1, <1>2, <1>3, <1>4, <1>5, <1>6 DEF Heard, Resyncing, Busy, Answer

\* The device looks at the acknowledged number of a frame: by RecvSync its
\* data frame is released only when the host has its answer.
LEMMA SeesAck ==
  ASSUME LInv, Heard, pl = "write", pl_frame.ack_nr = rx_seq_nr,
         pl_frame.seqctr = "ACK", DevSeesAck(pl_frame), dev_tx' = dev_tx
  PROVE  /\ dev_unacked' \in {<<>>, dev_unacked}
         /\ dev_unacked' = <<>> => dev_tx = rx_seq_nr
         /\ (dev_unacked # <<>> /\ dev_unacked' = <<>>) =>
              \/ handed.pay = answers
              \/ state = "ACK" /\ rxbuf = Answer
<1>1. dev_unacked' = IF dev_tx = rx_seq_nr THEN <<>> ELSE dev_unacked
  BY DEF DevSeesAck
<1>2. dev_tx = rx_seq_nr /\ dev_unacked # <<>> => (handed.pay = answers \/ state = "ACK")
  <2>1. NextNr(rx_seq_nr) # rx_seq_nr /\ state # "ERROR"
    BY Ring DEF LInv, Agreed, Written, IInv, TypeOK
  <2> QED
    BY <2>1 DEF LInv, Agreed, RecvSync
<1> QED
  BY <1>1, <1>2 DEF LInv, Agreed, RecvSync, Accepted

\* The device offers an acknowledgement or a NACK.
LEMMA OffersControl ==
  ASSUME LInv, NEW s \in {"ACK", "NACK"}, NEW n \in SeqNr,
         dev_out' = <<ControlFrame(s, n)>>, s = "ACK" => n = dev_rx',
         dev_unacked' \in {<<>>, dev_unacked}, answers' = answers
  PROVE  Said'
<1>1. PICK f \in Frame : f = ControlFrame(s, n)
  BY SaidType
<1>2. f.ftype = "control" /\ f.seqctr = s /\ f.ack_nr = n
  BY <1>1 DEF ControlFrame
<1>3. Genuine(f)'
  BY <1>2 DEF Genuine
<1> QED
  BY <1>1, <1>3 DEF LInv, Agreed, Said, Answer

LEMMA DevDataAgreed ==
  ASSUME LInv, LinkWriteDone, DevData
  PROVE  Agreed'
<1>1. /\ pl_frame.ftype = "data" /\ pl_frame.seqctr = "ACK"
      /\ pl_frame.ack_nr = rx_seq_nr /\ pl_frame.fr_nr = tx_seq_nr
      /\ pl_frame.body.pay = current /\ state # "ACK"
  BY WriteDone DEF DevData, LInv, Agreed, Written
<1>2. /\ DevSeesAck(pl_frame) /\ dev_tx' = dev_tx /\ resync_lost' = resync_lost
      /\ dev_out' = <<ControlFrame("ACK", dev_rx')>>
  BY DEF DevData, Offer
<1>3. (Heard <=> ~resync_lost) /\ (Heard' <=> Heard)
  BY <1>1, <1>2, WriteDone
\* Heard or not: the acknowledged frame is released or kept.
<1>4. dev_unacked' \in {<<>>, dev_unacked}
  BY <1>2 DEF DevSeesAck
<1>5. Heard => (dev_unacked' = <<>> => dev_tx = rx_seq_nr)
  BY <1>1, <1>2, WriteDone, SeesAck
<1>6. CASE tx_seq_nr = NextNr(dev_rx)
  <2>1. /\ dev_rx' = tx_seq_nr /\ taken' = Counted(taken, current)
        /\ damaged' \in BOOLEAN
    BY <1>1, <1>6 DEF DevData, DevTake
  <2>2. /\ taken' \in History /\ taken'.pay = current
    BY <2>1, CountedType DEF LInv, Agreed, LinkTypes
  <2>3. dev_rx' # dev_rx /\ dev_rx' \in SeqNr
    BY <1>6, <2>1, Ring DEF LInv, Agreed, LinkTypes, IInv, TypeOK
  <2>4. LinkTypes'
    BY <1>2, <2>1, <2>2, <2>3, WriteDone DEF LInv, Agreed, LinkTypes
  <2>5. Said'
    BY <1>2, <1>4, <2>3, OffersControl, WriteDone DEF LInv, Agreed, LinkTypes
  <2>6. SendSync' /\ NoFalseSuccess'
    BY <2>1, <2>2, WriteDone DEF SendSync, NoFalseSuccess
  <2>7. RecvSync' /\ Accepted' /\ HandedOnce'
    BY <1>1, <1>2, <1>3, <1>4, <1>5, WriteDone
    DEF LInv, Agreed, RecvSync, Accepted, HandedOnce
  <2>8. TakenSync'
    <3>1. (taken.pay = current /\ resyncs = 0) => current = 0
      BY <2>1, <2>3 DEF LInv, Agreed, TakenSync
    <3>2. current # 0
      BY WriteDone DEF LInv, Agreed, Modes
    <3>3. resyncs = 0 => taken'.times = 1
      BY <2>1, <3>1, <3>2 DEF Counted
    <3>4. current \in Nat
      BY DEF LInv, Agreed, LinkTypes
    <3> QED
      BY <2>1, <2>2, <3>3, <3>4, WriteDone DEF TakenSync
  <2> QED
    BY <2>4, <2>5, <2>6, <2>7, <2>8, WriteDone DEF Agreed
<1>7. CASE tx_seq_nr # NextNr(dev_rx)
  <2>1. dev_rx' = dev_rx /\ taken' = taken /\ damaged' = damaged
    BY <1>1, <1>7 DEF DevData
  <2>2. LinkTypes' /\ TakenSync' /\ NoFalseSuccess'
    BY <1>2, <2>1, WriteDone
    DEF LInv, Agreed, LinkTypes, TakenSync, NoFalseSuccess
  <2>3. Said'
    BY <1>2, <1>4, <2>1, OffersControl, WriteDone DEF LInv, Agreed, LinkTypes
  <2>4. SendSync'
    BY <1>3, <1>7, <2>1, WriteDone DEF LInv, Agreed, SendSync
  <2>5. RecvSync' /\ Accepted' /\ HandedOnce'
    BY <1>1, <1>2, <1>3, <1>4, <1>5, WriteDone
    DEF LInv, Agreed, RecvSync, Accepted, HandedOnce
  <2> QED
    BY <2>2, <2>3, <2>4, <2>5, WriteDone DEF Agreed
<1> QED
  BY <1>6, <1>7

\* A re-sync arrives: both ends start again at the last number of the ring.
LEMMA DevResyncAgreed ==
  ASSUME LInv, LinkWriteDone, DevResync
  PROVE  Agreed'
<1>1. /\ resynced /\ state # "ACK"
      /\ tx_seq_nr = DL_MAX_FRAME_NUM /\ rx_seq_nr = DL_MAX_FRAME_NUM
      /\ resyncs # 0 /\ handed.times = 0
  BY WriteDone DEF DevResync, LInv, Agreed, Written, Restarted
<1>2. /\ dev_tx' = IF dev_unacked = <<>> THEN DL_MAX_FRAME_NUM ELSE 0
      /\ dev_rx' = DL_MAX_FRAME_NUM /\ dev_out' = <<>> /\ resync_lost' = FALSE
      /\ dev_unacked' = dev_unacked /\ taken' = taken /\ damaged' = damaged
  BY DEF DevResync
<1>3. LinkTypes'
  BY <1>2, NumbersType, WriteDone DEF LInv, Agreed, LinkTypes
<1>4. Said' /\ SendSync' /\ NoFalseSuccess'
  BY <1>1, <1>2, WriteDone DEF LInv, Agreed, Said, SendSync, NoFalseSuccess
<1>5. RecvSync'
  <2>1. rx_seq_nr' = DL_MAX_FRAME_NUM /\ NextNr(DL_MAX_FRAME_NUM) = 0
    BY <1>1, NumbersType, Ring, WriteDone
  <2>2. NextNr(rx_seq_nr') = 0
    BY <2>1
  <2> QED
    BY <1>2, <2>1, <2>2 DEF RecvSync
<1>6. Accepted' /\ HandedOnce' /\ TakenSync'
  BY <1>1, <1>2, WriteDone DEF LInv, Agreed, Accepted, HandedOnce, TakenSync
<1> QED
  BY <1>3, <1>4, <1>5, <1>6, WriteDone DEF Agreed

LEMMA DevAckAgreed ==
  ASSUME LInv, LinkWriteDone, DevAck
  PROVE  Agreed'
<1>1. pl_frame.seqctr = "ACK" /\ pl_frame.ack_nr = rx_seq_nr
  BY WriteDone DEF DevAck, LInv, Agreed, Written
<1>2. /\ DevSeesAck(pl_frame) /\ dev_tx' = dev_tx /\ dev_rx' = dev_rx
      /\ taken' = taken /\ damaged' = damaged /\ resync_lost' = resync_lost
      /\ dev_out' = IF dev_unacked' = <<>> THEN <<>> ELSE dev_out
  BY DEF DevAck
<1>3. (Heard <=> ~resync_lost) /\ (Heard' <=> Heard)
  BY <1>1, <1>2, WriteDone
<1>4. dev_unacked' \in {<<>>, dev_unacked}
  BY <1>2 DEF DevSeesAck
<1>5. Heard => (dev_unacked' = <<>> => dev_tx = rx_seq_nr)
  BY <1>1, <1>2, WriteDone, SeesAck
<1>6. LinkTypes' /\ HandedOnce' /\ TakenSync' /\ NoFalseSuccess'
  BY <1>2, WriteDone
  DEF LInv, Agreed, LinkTypes, HandedOnce, TakenSync, NoFalseSuccess
<1>7. Said'
  <2>1. CASE dev_unacked' = <<>>
    BY <1>2, <2>1 DEF Said
  <2>2. CASE dev_unacked' # <<>>
    <3>1. dev_unacked' = dev_unacked /\ dev_out' = dev_out
      BY <1>2, <1>4, <2>2
    <3> QED
      BY <1>2, <3>1, WriteDone DEF LInv, Agreed, Said, Genuine
  <2> QED
    BY <2>1, <2>2
<1>8. SendSync'
  BY <1>2, <1>3, WriteDone DEF LInv, Agreed, SendSync
<1>9. RecvSync'
  BY <1>2, <1>3, <1>4, <1>5, WriteDone DEF LInv, Agreed, RecvSync
<1>10. Accepted'
  <2>1. Running'
    BY DEF LinkWriteDone, PlWriteDone, PlEvent, Running
  <2> QED
    BY <1>2, <2>1, WriteDone DEF LInv, Agreed, Accepted
<1> QED
  BY <1>6, <1>7, <1>8, <1>9, <1>10, WriteDone DEF Agreed

\* The device's numbers stay; it only has something to say.
LEMMA OnlySays ==
  ASSUME LInv, LinkWriteDone, Said',
         UNCHANGED <<dev_tx, dev_rx, dev_unacked, taken, damaged>>,
         resync_lost' \in BOOLEAN, Heard' <=> Heard
  PROVE  Agreed'
<1>1. Running'
  BY DEF LinkWriteDone, PlWriteDone, PlEvent, Running
<1>2. LinkTypes' /\ HandedOnce' /\ TakenSync' /\ NoFalseSuccess'
  BY WriteDone DEF LInv, Agreed, LinkTypes, HandedOnce, TakenSync, NoFalseSuccess
<1>3. SendSync' /\ RecvSync' /\ Accepted'
  BY <1>1, WriteDone DEF LInv, Agreed, SendSync, RecvSync, Accepted
<1> QED
  BY <1>2, <1>3, WriteDone DEF Agreed

LEMMA DevNackAgreed ==
  ASSUME LInv, LinkWriteDone, DevNack
  PROVE  Agreed'
<1>1. /\ UNCHANGED <<dev_tx, dev_rx, dev_unacked, taken, damaged>>
      /\ resync_lost' = resync_lost /\ pl_frame.seqctr = "NACK"
  BY DEF DevNack
<1>2. resync_lost' \in BOOLEAN /\ (Heard' <=> Heard)
  BY <1>1, WriteDone DEF LInv, Agreed, LinkTypes
<1>3. Said'
  <2>1. CASE dev_unacked = <<>>
    <3>1. dev_out' = <<ControlFrame("ACK", dev_rx)>>
      BY <2>1 DEF DevNack, Offer
    <3> QED
      BY <1>1, <3>1, OffersControl, WriteDone DEF LInv, Agreed, LinkTypes
  <2>2. CASE dev_unacked # <<>>
    <3>1. PICK f \in Frame : f = DataFrame(dev_tx, dev_rx, dev_unacked[1])
      BY <2>2, SaidType
    <3>2. dev_out' = <<f>>
      BY <2>2, <3>1 DEF DevNack, Offer
    <3>3. /\ f.ftype = "data" /\ f.fr_nr = dev_tx /\ f.ack_nr = dev_rx
          /\ f.body = dev_unacked[1]
      BY <3>1 DEF DataFrame
    <3>4. dev_unacked = <<f.body>>
      BY <2>2, <3>3, OneElement DEF LInv, Agreed, Said
    <3>5. Genuine(f)'
      BY <1>1, <3>3, <3>4 DEF Genuine
    <3> QED
      BY <1>1, <3>2, <3>5, WriteDone DEF LInv, Agreed, Said
  <2> QED
    BY <2>1, <2>2
<1> QED
  BY <1>1, <1>2, <1>3, OnlySays

LEMMA DevDamagedAgreed ==
  ASSUME LInv, LinkWriteDone, DevDamaged
  PROVE  Agreed'
<1>1. /\ UNCHANGED <<dev_tx, dev_rx, dev_unacked, taken, damaged>>
      /\ resync_lost' = (resync_lost \/ pl_frame.seqctr = "RESYNC")
      /\ dev_out' = <<ControlFrame("NACK", NextNr(dev_rx))>>
  BY DEF DevDamaged, Offer
<1>2. resync_lost' \in BOOLEAN /\ (Heard' <=> Heard)
  BY <1>1, WriteDone DEF LInv, Agreed, LinkTypes
<1>3. Said'
  BY <1>1, OffersControl, Ring, WriteDone DEF LInv, Agreed, LinkTypes
<1> QED
  BY <1>1, <1>2, <1>3, OnlySays

LEMMA LinkWriteDoneStep == LInv /\ LinkWriteDone => Agreed'
  BY DevDataAgreed, DevResyncAgreed, DevAckAgreed, DevNackAgreed, DevDamagedAgreed
  DEF LinkWriteDone

-----------------------------------------------------------------------------
(* The other events of the physical layer, and of the clock                 *)

\* An event for the handler, without a change of what the two ends say.
LEMMA Called ==
  ASSUME LInv, ~Running, NEW kind \in {"success", "timeout", "fatal"}, NEW f \in Frame,
         PlEvent(kind, f), pl \in {"negotiate", "write", "read"},
         kind = "success" => (pl \in {"negotiate", "read"} /\ (pl = "read" => Genuine(f))),
         \/ state' = state /\ pl # "write"
         \/ state' = (IF state # "IDLE" THEN "ERROR" ELSE state) /\ kind = "fatal",
         UNCHANGED <<dev_tx, dev_rx, dev_unacked, answers, current, taken, handed>>,
         UNCHANGED <<outcome, resyncs>>,
         dev_out' \in {<<>>, dev_out}, LinkTypes', Heard' <=> Heard
  PROVE  Agreed'
<1>1. /\ pl' = "ready" /\ Running' /\ event' = [kind |-> kind, frame |-> f]
      /\ request' = request /\ reported' = reported
      /\ tx_seq_nr' = tx_seq_nr /\ rx_seq_nr' = rx_seq_nr /\ resynced' = resynced
      /\ txbuf' = txbuf /\ rxbuf' = rxbuf
  BY DEF PlEvent, seqvars, bufvars, upvars, Running
<1>2. /\ request # "none"
      /\ state # "IDLE" <=> Busy
      /\ resynced => state \in {"RESEND", "ERROR", "IDLE"}
  BY DEF LInv, IInv, NoLostWakeup, TypeOK, Agreed, Modes, Restarted, Busy
<1>3. (Busy' <=> Busy) /\ Answer' = Answer
  BY <1>1 DEF Busy, Answer
<1>4. Said'
  BY <1>3 DEF LInv, Agreed, Said, Genuine
<1>5. Looked'
  <2>1. state \notin {"RX_DF", "RX_CF"} /\ (pl = "negotiate" => state = "IDLE")
    BY DEF LInv, IInv, ExpectedCompletion
  <2>2. Genuine(f)' <=> Genuine(f)
    BY DEF Genuine
  <2>3. event'.kind = kind /\ event'.frame = f
    BY <1>1
  <2>4. (kind = "success" /\ state' \in {"RX", "RX_DF", "RX_CF"}) => Genuine(f)
    BY <2>1
  <2>5. (event'.kind = "success" /\ state' \in {"RX", "RX_DF", "RX_CF"}) => Genuine(event.frame)'
    BY <2>2, <2>3, <2>4 DEF Genuine
  <2>6. state' \notin {"RX_DF", "RX_CF"}
    BY <2>1
  <2> QED
    BY <2>5, <2>6 DEF Looked
<1>6. Modes' /\ Written'
  BY <1>1, <1>2, <1>3 DEF LInv, Agreed, Modes, Written, Busy
<1>7. Restarted'
  BY <1>1, <1>2 DEF LInv, Agreed, Restarted
<1>8. SendSync' /\ HandedOnce' /\ TakenSync' /\ NoFalseSuccess'
  BY <1>1, <1>3 DEF LInv, Agreed, SendSync, HandedOnce, TakenSync, NoFalseSuccess
<1>9. RecvSync'
  BY <1>1, <1>2 DEF LInv, Agreed, RecvSync
<1>10. Accepted'
  BY <1>1, <1>3 DEF LInv, Agreed, Accepted
<1> QED
  BY <1>4, <1>5, <1>6, <1>7, <1>8, <1>9, <1>10 DEF Agreed

LEMMA LinkReadDoneStep ==
  ASSUME LInv, LinkReadDone
  PROVE  Agreed'
<1>1. PICK f \in Frame : dev_out = <<f>> /\ Genuine(f)
  BY DEF LinkReadDone, LInv, Agreed, Said
<1>2. PICK g \in Frame : PlReadDone(g) /\ Genuine(g)
  <2>1. dev_out[1] = f
    BY <1>1, OneElement
  <2>2. CASE PlReadDone(dev_out[1])
    BY <1>1, <2>1, <2>2
  <2>3. CASE \E h \in DamagedForms(dev_out[1]) : PlReadDone(h)
    BY <2>1, <2>3, DamagedType DEF Genuine
  <2> QED
    BY <2>2, <2>3 DEF LinkReadDone
<1>3. pl = "read" /\ ~Running /\ PlEvent("success", g) /\ state' = state
  BY <1>2 DEF PlReadDone
<1>4. /\ UNCHANGED <<dev_tx, dev_rx, dev_unacked, answers, current, taken, handed>>
      /\ UNCHANGED <<outcome, resyncs, repeats, fatal, damaged, resync_lost>>
      /\ dev_out' = <<>> /\ noise' \in 0 .. MaxNoise
  BY BoundAssumption DEF LinkReadDone, histvars, LInv, Agreed, LinkTypes
<1>5. LinkTypes' /\ (Heard' <=> Heard)
  BY <1>3, <1>4 DEF LInv, Agreed, LinkTypes, Heard, Resyncing, PlEvent
<1> QED
  BY <1>2, <1>3, <1>4, <1>5, Called

\* An operation is given up: a re-sync that is lost this way leaves the two
\* ends to themselves.
LEMMA LinkFatalStep ==
  ASSUME LInv, LinkFatal
  PROVE  Agreed'
<1>1. /\ pl \in {"write", "read", "negotiate"} /\ ~Running /\ PlEvent("fatal", NoFrame)
      /\ state' = IF state # "IDLE" THEN "ERROR" ELSE state
  BY DEF LinkFatal, PlFatal
<1>2. /\ UNCHANGED <<dev_tx, dev_rx, dev_unacked, answers, current, taken, handed>>
      /\ UNCHANGED <<outcome, resyncs, repeats, noise, damaged, dev_out>>
      /\ fatal' \in 0 .. MaxFatal
      /\ resync_lost' = (resync_lost \/ Resyncing)
  BY BoundAssumption DEF LinkFatal, devvars, LInv, Agreed, LinkTypes, Resyncing
<1>3. Heard' <=> Heard
  BY <1>1, <1>2 DEF LInv, Agreed, LinkTypes, Heard, Resyncing, PlEvent
<1>4. LinkTypes'
  BY <1>2 DEF LInv, Agreed, LinkTypes
<1> QED
  BY <1>1, <1>2, <1>3, <1>4, NoFrameType, Called

\* What a quiet step leaves alone.
LEMMA Quiet ==
  ASSUME LInv, UNCHANGED <<devvars, noise, fatal, histvars>>
  PROVE  /\ UNCHANGED <<dev_tx, dev_rx, dev_unacked, dev_out, answers, current, taken>>
         /\ UNCHANGED <<handed, outcome, resyncs, repeats, noise, fatal, damaged>>
         /\ resync_lost' = resync_lost /\ LinkTypes' /\ Answer' = Answer
  BY DEF devvars, histvars, LInv, Agreed, LinkTypes, Answer

LEMMA LinkNegotiatedStep ==
  ASSUME LInv, LinkQuiet(PlNegotiated)
  PROVE  Agreed'
<1>1. PICK kind \in {"success", "timeout"} : PlEvent(kind, NoFrame)
  BY DEF LinkQuiet, PlNegotiated
<1>2. pl = "negotiate" /\ ~Running /\ state' = state
  BY DEF LinkQuiet, PlNegotiated
<1>3. Heard' <=> Heard
  BY <1>1, <1>2, Quiet DEF LinkQuiet, Heard, Resyncing, PlEvent
<1> QED
  BY <1>1, <1>2, <1>3, Quiet, NoFrameType, Called DEF LinkQuiet

LEMMA LinkReadTimeoutStep ==
  ASSUME LInv, LinkQuiet(PlReadTimeout)
  PROVE  Agreed'
<1>1. pl = "read" /\ ~Running /\ state' = state /\ PlEvent("timeout", NoFrame)
  BY DEF LinkQuiet, PlReadTimeout
<1>2. Heard' <=> Heard
  BY <1>1, Quiet DEF LinkQuiet, Heard, Resyncing, PlEvent
<1> QED
  BY <1>1, <1>2, Quiet, NoFrameType, Called DEF LinkQuiet

\* The clock, and a step of something else.
LEMMA NothingHere ==
  ASSUME LInv, UNCHANGED <<devvars, noise, fatal, histvars>>,
         UNCHANGED <<state, seqvars, bufvars, event, plvars, upvars>>
  PROVE  Agreed'
<1>1. /\ UNCHANGED <<state, tx_seq_nr, rx_seq_nr, resynced, txbuf, rxbuf, event>>
      /\ UNCHANGED <<pl, pl_frame, request, reported>>
  BY DEF seqvars, bufvars, plvars, upvars
<1>2. /\ Running' <=> Running
      /\ Heard' <=> Heard
      /\ Busy' <=> Busy
  BY <1>1, Quiet DEF Running, Heard, Resyncing, Busy
<1>3. Said' /\ Looked' /\ Modes' /\ Written' /\ Restarted'
  BY <1>1, <1>2, Quiet DEF LInv, Agreed, Said, Looked, Genuine, Modes, Written, Restarted
<1>4. SendSync' /\ RecvSync' /\ Accepted' /\ HandedOnce' /\ TakenSync' /\ NoFalseSuccess'
  BY <1>1, <1>2, Quiet
  DEF LInv, Agreed, SendSync, RecvSync, Accepted, HandedOnce, TakenSync, NoFalseSuccess
<1> QED
  BY <1>3, <1>4, Quiet DEF Agreed

LEMMA LinkExitTimeoutStep == LInv /\ LinkQuiet(ExitTimeout) => Agreed'
  BY NothingHere DEF LinkQuiet, ExitTimeout

-----------------------------------------------------------------------------
(* Requests of the transport layer                                          *)

LEMMA LinkSendStep ==
  ASSUME LInv, NEW first \in BOOLEAN, LinkSend(first)
  PROVE  Agreed'
<1>1. /\ request = "none" /\ ~Running /\ state = "IDLE" /\ pl = "ready"
      /\ state' = "TX" /\ request' = "tx" /\ reported' = "none" /\ event' = event
      /\ txbuf' = [pay |-> current + 1, whole |-> TRUE] /\ rxbuf' = rxbuf
      /\ tx_seq_nr' = NextNr(tx_seq_nr) /\ rx_seq_nr' = rx_seq_nr
      /\ resynced' = FALSE /\ pl' = "write"
      /\ pl_frame' = DataFrame(tx_seq_nr', rx_seq_nr, txbuf')
  BY DEF LinkSend, DlSendFrame, SendData, PlSendFrame, PlAccepts
<1>2. /\ pl_frame'.ftype = "data" /\ pl_frame'.seqctr = "ACK"
      /\ pl_frame'.ack_nr = rx_seq_nr /\ pl_frame'.fr_nr = tx_seq_nr'
      /\ pl_frame'.body.pay = current + 1
  BY <1>1 DEF DataFrame
<1>3. /\ current' = current + 1 /\ resyncs' = 0 /\ outcome' = "pending"
      /\ handed' = handed
      /\ UNCHANGED <<dev_tx, dev_rx, dev_out, dev_unacked, answers, repeats>>
      /\ UNCHANGED <<noise, fatal, taken, damaged, resync_lost>>
  BY DEF LinkSend, devvars
<1>4. (Heard <=> ~resync_lost) /\ (Heard' <=> Heard) /\ ~Busy /\ Busy' /\ Answer' = Answer
  BY <1>1, <1>2, <1>3 DEF Heard, Resyncing, Busy, Answer
<1>5. LinkTypes' /\ current \in Nat
  BY <1>3 DEF LInv, Agreed, LinkTypes
<1>6. ~Running'
  BY <1>1 DEF Running
<1>7. Said' /\ Looked' /\ Restarted' /\ NoFalseSuccess'
  BY <1>1, <1>3, <1>4, <1>6
  DEF LInv, Agreed, Said, Looked, Genuine, Restarted, NoFalseSuccess
<1>8. Modes' /\ Written'
  BY <1>1, <1>2, <1>3, <1>5 DEF Modes, Written, Busy
<1>9. SendSync'
  <2>1. NextNr(tx_seq_nr) # tx_seq_nr
    BY Ring DEF LInv, IInv, TypeOK
  <2> QED
    BY <1>1, <1>3, <1>4, <2>1 DEF LInv, Agreed, SendSync
<1>10. RecvSync' /\ Accepted' /\ HandedOnce'
  BY <1>1, <1>3, <1>4 DEF LInv, Agreed, RecvSync, Accepted, HandedOnce
<1>11. TakenSync'
  <2>1. taken.pay < current + 1
    BY <1>5 DEF LInv, Agreed, TakenSync, LinkTypes, History
  <2> QED
    BY <1>3, <1>5, <2>1 DEF LInv, Agreed, TakenSync, LinkTypes, History
<1> QED
  BY <1>5, <1>7, <1>8, <1>9, <1>10, <1>11 DEF Agreed

LEMMA LinkReceiveStep ==
  ASSUME LInv, LinkReceive
  PROVE  Agreed'
<1>1. /\ request = "none" /\ ~Running /\ state = "IDLE" /\ pl = "ready"
      /\ reported \in Going
      /\ state' = "RX" /\ request' = "rx" /\ reported' = "none" /\ event' = event
      /\ tx_seq_nr' = tx_seq_nr /\ rx_seq_nr' = rx_seq_nr /\ resynced' = resynced
      /\ txbuf' = txbuf /\ rxbuf' = rxbuf /\ pl' = "read"
  BY DEF LinkReceive, DlReceiveFrame, PlReceiveFrame, PlAccepts, seqvars, bufvars
<1>2. (Heard <=> ~resync_lost) /\ (Heard' <=> Heard) /\ ~Busy /\ Busy' /\ ~Running'
  BY <1>1, Quiet DEF LinkReceive, Heard, Resyncing, Busy, Running
<1>3. ~resynced
  BY <1>1 DEF LInv, Agreed, Restarted
<1>4. Said' /\ Looked' /\ Restarted' /\ NoFalseSuccess' /\ Written'
  BY <1>1, <1>2, <1>3, Quiet
  DEF LinkReceive, LInv, Agreed, Said, Looked, Genuine, Restarted, NoFalseSuccess, Written
<1>5. Modes'
  BY <1>1, Quiet DEF LinkReceive, LInv, Agreed, Modes, Busy
<1>6. SendSync' /\ RecvSync' /\ Accepted' /\ HandedOnce' /\ TakenSync'
  BY <1>1, <1>2, Quiet
  DEF LinkReceive, LInv, Agreed, SendSync, RecvSync, Accepted, HandedOnce, TakenSync
<1> QED
  BY <1>4, <1>5, <1>6, Quiet DEF LinkReceive, Agreed

LEMMA LinkInitAgainStep ==
  ASSUME LInv, LinkInitAgain
  PROVE  Agreed'
<1>1. /\ request = "none" /\ ~Running
      /\ state' = "IDLE" /\ request' = "init" /\ reported' = "none" /\ event' = event
      /\ tx_seq_nr' = DL_MAX_FRAME_NUM /\ rx_seq_nr' = DL_MAX_FRAME_NUM
      /\ resynced' = FALSE /\ pl' = "negotiate"
      /\ txbuf' = txbuf /\ rxbuf' = rxbuf
  BY DEF LinkInitAgain, DlInit, bufvars
<1>2. /\ dev_tx' = DL_MAX_FRAME_NUM /\ dev_rx' = DL_MAX_FRAME_NUM
      /\ dev_out' = <<>> /\ dev_unacked' = <<>> /\ resync_lost' = FALSE
      /\ handed' = NewSequence(handed)
      /\ UNCHANGED <<answers, repeats, noise, fatal, current, taken, damaged>>
      /\ outcome' = outcome /\ resyncs' = resyncs
  BY DEF LinkInitAgain
<1>3. handed' \in History /\ handed'.pay = handed.pay /\ handed'.times = 0
  BY <1>2, NewSequenceType DEF LInv, Agreed, LinkTypes
<1>4. LinkTypes' /\ ~Running'
  BY <1>1, <1>2, <1>3, NumbersType DEF LInv, Agreed, LinkTypes, Running
<1>5. Said' /\ Looked' /\ Restarted' /\ NoFalseSuccess' /\ Written'
  BY <1>1, <1>2, <1>4
  DEF LInv, Agreed, Said, Looked, Restarted, NoFalseSuccess, Written
<1>6. Modes'
  BY <1>1, <1>2 DEF LInv, Agreed, Modes, Busy, Going
<1>7. SendSync' /\ RecvSync' /\ Accepted' /\ HandedOnce' /\ TakenSync'
  BY <1>1, <1>2, <1>3
  DEF LInv, Agreed, SendSync, RecvSync, Accepted, HandedOnce, TakenSync
<1> QED
  BY <1>4, <1>5, <1>6, <1>7 DEF Agreed

-----------------------------------------------------------------------------
(* The device speaks                                                        *)

LEMMA DevAnswerStep ==
  ASSUME LInv, DevAnswer
  PROVE  Agreed'
<1>1. /\ ~Running /\ dev_unacked = <<>> /\ answers' = answers + 1
      /\ dev_tx' = NextNr(dev_tx) /\ dev_rx' = dev_rx
      /\ dev_unacked' = <<Answer'>>
      /\ dev_out' = <<DataFrame(dev_tx', dev_rx, Answer')>>
      /\ UNCHANGED <<repeats, noise, fatal, current, taken, damaged, handed>>
      /\ UNCHANGED <<outcome, resyncs, resync_lost>>
  <2>1. dev_unacked' = <<Answer'>>
    BY DEF DevAnswer, Answer
  <2>2. dev_unacked'[1] = Answer'
    BY <2>1, OneElement
  <2> QED
    BY <2>1, <2>2 DEF DevAnswer, Offer, histvars
<1>2. /\ UNCHANGED <<state, tx_seq_nr, rx_seq_nr, resynced, txbuf, rxbuf, event>>
      /\ UNCHANGED <<pl, pl_frame, request, reported>>
  BY DEF DevAnswer, vars, seqvars, bufvars, plvars, upvars
<1>3. /\ ~Running'
      /\ Heard' <=> Heard
      /\ Busy' <=> Busy
  BY <1>1, <1>2 DEF Running, Heard, Resyncing, Busy
<1>4. answers' \in 0 .. MaxAnswers /\ answers' # 0
  BY <1>1, BoundAssumption DEF DevAnswer, LInv, Agreed, LinkTypes
<1>5. LinkTypes'
  BY <1>1, <1>4, Ring DEF LInv, Agreed, LinkTypes
<1>6. Said'
  <2>1. DataFrame(dev_tx', dev_rx, Answer') \in Frame
    <3>1. Answer' \in Buffer
      <4>1. answers' \in Payload
        BY <1>4, BoundAssumption, AnswerPayloadAssumption
      <4> QED
        BY <4>1 DEF Answer, Buffer
    <3> QED
      BY <1>5, <3>1, <1>1, DataFrameType DEF LinkTypes
  <2>2. PICK f \in Frame : f = DataFrame(dev_tx', dev_rx, Answer')
    BY <2>1
  <2>3. /\ f.ftype = "data" /\ f.fr_nr = dev_tx' /\ f.ack_nr = dev_rx
        /\ f.body = Answer'
    BY <2>2 DEF DataFrame
  <2>4. Genuine(f)'
    BY <1>1, <2>3 DEF Genuine
  <2> QED
    BY <1>1, <1>4, <2>2, <2>4 DEF Said
<1>7. Looked' /\ Modes' /\ Written' /\ Restarted'
  BY <1>1, <1>2, <1>3 DEF LInv, Agreed, Looked, Modes, Written, Restarted, Busy
<1>8. SendSync' /\ TakenSync' /\ NoFalseSuccess'
  BY <1>1, <1>2, <1>3 DEF LInv, Agreed, SendSync, TakenSync, NoFalseSuccess
<1>9. RecvSync' /\ Accepted'
  BY <1>1, <1>2, <1>3, OneElement DEF LInv, Agreed, RecvSync, Accepted
<1>10. HandedOnce'
  BY <1>1, <1>4, BoundAssumption DEF LInv, Agreed, HandedOnce, LinkTypes, History
<1> QED
  BY <1>5, <1>6, <1>7, <1>8, <1>9, <1>10 DEF Agreed

LEMMA DevRepeatStep ==
  ASSUME LInv, DevRepeat
  PROVE  Agreed'
<1>1. /\ UNCHANGED <<dev_tx, dev_rx, dev_unacked, answers, noise, fatal, current>>
      /\ UNCHANGED <<taken, damaged, handed, outcome, resyncs, resync_lost>>
      /\ dev_unacked # <<>> /\ repeats' \in 0 .. MaxRepeats
  BY BoundAssumption DEF DevRepeat, histvars, LInv, Agreed, LinkTypes
<1>2. /\ UNCHANGED <<state, tx_seq_nr, rx_seq_nr, resynced, txbuf, rxbuf, event>>
      /\ UNCHANGED <<pl, pl_frame, request, reported>>
  BY DEF DevRepeat, vars, seqvars, bufvars, plvars, upvars
<1>3. /\ Running' <=> Running
      /\ Heard' <=> Heard
      /\ Busy' <=> Busy
      /\ Answer' = Answer
  BY <1>1, <1>2 DEF Running, Heard, Resyncing, Busy, Answer
<1>4. LinkTypes'
  BY <1>1 DEF LInv, Agreed, LinkTypes
<1>5. Said'
  <2>1. PICK f \in Frame : f = DataFrame(dev_tx, dev_rx, dev_unacked[1])
    BY <1>1, SaidType
  <2>2. dev_out' = <<f>>
    BY <2>1 DEF DevRepeat, Offer
  <2>3. /\ f.ftype = "data" /\ f.fr_nr = dev_tx /\ f.ack_nr = dev_rx
        /\ f.body = dev_unacked[1]
    BY <2>1 DEF DataFrame
  <2>4. dev_unacked = <<f.body>>
    BY <1>1, <2>3, OneElement DEF LInv, Agreed, Said
  <2>5. Genuine(f)'
    BY <1>1, <2>3, <2>4 DEF Genuine
  <2> QED
    BY <1>1, <1>3, <2>2, <2>5 DEF LInv, Agreed, Said
<1>6. Looked' /\ Modes' /\ Written' /\ Restarted'
  BY <1>1, <1>2, <1>3
  DEF LInv, Agreed, Looked, Genuine, Modes, Written, Restarted
<1>7. SendSync' /\ RecvSync' /\ Accepted' /\ HandedOnce' /\ TakenSync' /\ NoFalseSuccess'
  BY <1>1, <1>2, <1>3
  DEF LInv, Agreed, SendSync, RecvSync, Accepted, HandedOnce, TakenSync, NoFalseSuccess
<1> QED
  BY <1>4, <1>5, <1>6, <1>7 DEF Agreed

-----------------------------------------------------------------------------
(* The invariant                                                            *)

LEMMA LinkInitInv == LinkInit => LInv
<1> SUFFICES ASSUME LinkInit PROVE LInv
  OBVIOUS
<1>1. Init
  BY DEF LinkInit
<1>2. IInv
  BY <1>1, InitIInv
<1>3. ~Running /\ pl = "negotiate" /\ request = "init" /\ state = "IDLE"
  BY <1>1 DEF Init, Running, NoEvent
<1>4. LinkTypes
  <2>1. [pay |-> 0, times |-> 0] \in History
    BY DEF History
  <2>2. 0 \in 0 .. MaxNoise /\ 0 \in 0 .. MaxFatal
        /\ 0 \in 0 .. MaxAnswers /\ 0 \in 0 .. MaxRepeats
    BY BoundAssumption
  <2>3. taken \in History /\ handed \in History
    BY <2>1 DEF LinkInit
  <2>4. /\ dev_tx \in SeqNr /\ dev_rx \in SeqNr
        /\ noise \in 0 .. MaxNoise /\ fatal \in 0 .. MaxFatal
        /\ answers \in 0 .. MaxAnswers /\ repeats \in 0 .. MaxRepeats
    BY <2>2, NumbersType DEF LinkInit
  <2>5. /\ current \in Nat /\ resyncs \in 0 .. 2
        /\ outcome \in {"none", "pending", "ok", "failed", "doubtful"}
    BY DEF LinkInit
  <2>6. damaged \in BOOLEAN /\ resync_lost \in BOOLEAN
    BY DEF LinkInit
  <2> QED
    BY <2>3, <2>4, <2>5, <2>6, Zenon DEF LinkTypes
<1>5. Said /\ Looked /\ Modes /\ Written /\ Restarted
  BY <1>1, <1>3
  DEF LinkInit, Init, Said, Looked, Modes, Written, Restarted, Busy, Going
<1>6. SendSync /\ RecvSync /\ Accepted /\ HandedOnce /\ TakenSync /\ NoFalseSuccess
  BY <1>1, <1>3
  DEF LinkInit, Init, SendSync, RecvSync, Accepted, HandedOnce, TakenSync,
      NoFalseSuccess
<1> QED
  BY <1>2, <1>4, <1>5, <1>6 DEF LInv, Agreed

LEMMA LinkNextInv ==
  ASSUME LInv, [LinkNext]_linkvars
  PROVE  LInv'
<1>1. IInv'
  BY LinkHostStep
<1>2. CASE LinkHandler \/ LinkWriteDone \/ LinkReadDone \/ LinkFatal
  BY <1>2, LinkHandlerStep, LinkWriteDoneStep, LinkReadDoneStep, LinkFatalStep,
     <1>1 DEF LInv
<1>3. CASE LinkQuiet(PlNegotiated) \/ LinkQuiet(PlReadTimeout) \/ LinkQuiet(ExitTimeout)
  BY <1>3, LinkNegotiatedStep, LinkReadTimeoutStep, LinkExitTimeoutStep, <1>1 DEF LInv
<1>4. CASE (\E first \in BOOLEAN : LinkSend(first)) \/ LinkReceive \/ LinkInitAgain
  BY <1>4, LinkSendStep, LinkReceiveStep, LinkInitAgainStep, <1>1 DEF LInv
<1>5. CASE DevAnswer \/ DevRepeat
  BY <1>5, DevAnswerStep, DevRepeatStep, <1>1 DEF LInv
<1>6. CASE UNCHANGED linkvars
  BY <1>6, NothingHere, <1>1
  DEF LInv, linkvars, vars
<1> QED
  BY <1>2, <1>3, <1>4, <1>5, <1>6 DEF LinkNext

LEMMA LinkInvariance == LinkSpec => []LInv
  BY LinkInitInv, LinkNextInv, PTL DEF LinkSpec

-----------------------------------------------------------------------------
(* The theorems                                                             *)

\* Host, device and the record of what happened keep their types: the numbers
\* of both ends stay within two bits, and neither the device's register
\* nor its memory of an unacknowledged frame ever holds two.
THEOREM LinkTypeCorrect == LinkSpec => []LinkTypeOK
<1>1. LInv => LinkTypeOK
  <2> SUFFICES ASSUME LInv PROVE LinkTypeOK
    OBVIOUS
  <2>1. Len(dev_out) <= 1
    <3>1. CASE dev_out = <<>>
      BY <3>1
    <3>2. CASE \E f \in Frame : dev_out = <<f>>
      BY <3>2
    <3> QED
      BY <3>1, <3>2 DEF LInv, Agreed, Said
  <2>2. Len(dev_unacked) <= 1
    <3>1. CASE dev_unacked = <<>>
      BY <3>1
    <3>2. CASE dev_unacked = <<Answer>>
      BY <3>2
    <3> QED
      BY <3>1, <3>2 DEF LInv, Agreed, Said
  <2> QED
    BY <2>1, <2>2 DEF LInv, IInv, Agreed, LinkTypes, LinkTypeOK, History
<1> QED
  BY <1>1, LinkInvariance, PTL

\* A success the data link reports to the transport layer is true: the device
\* has taken the very frame, whatever was damaged, repeated or given up on the
\* way, unless a re-sync was lost.
THEOREM LinkNoFalseSuccess == LinkSpec => []NoFalseSuccess
<1>1. LInv => NoFalseSuccess
  BY DEF LInv, Agreed
<1> QED
  BY <1>1, LinkInvariance, PTL

\* A frame that is retransmitted is taken once: a retransmission keeps its
\* number until the numbers are reset.
THEOREM LinkTakenOnce == LinkSpec => []TakenOnce
<1>1. LInv => TakenOnce
  BY DEF LInv, Agreed, TakenSync, TakenOnce
<1> QED
  BY <1>1, LinkInvariance, PTL

\* What a step that releases the device's frame says of the host.
LEMMA Released ==
  ASSUME LInv, LinkNext, dev_unacked # <<>>, dev_unacked' = <<>>,
         request # "none", ~resync_lost
  PROVE  \/ handed.pay = dev_unacked[1].pay
         \/ state = "ACK" /\ rxbuf.pay = dev_unacked[1].pay
<1>1. dev_unacked[1].pay = answers
  BY OneElement DEF LInv, Agreed, Said, Answer
<1>2. LinkWriteDone /\ (DevData \/ DevAck)
  BY DEF LinkNext, LinkHandler, LinkWriteDone, LinkReadDone, LinkFatal, LinkQuiet,
         LinkSend, LinkReceive, LinkInitAgain, DlInit, DevAnswer, DevRepeat,
         DevDamaged, DevResync, DevNack, devvars
<1>3. /\ pl_frame.seqctr = "ACK" /\ pl_frame.ack_nr = rx_seq_nr
      /\ DevSeesAck(pl_frame) /\ dev_tx' = dev_tx /\ pl = "write" /\ Heard
  BY <1>2, WriteDone DEF DevData, DevAck, LInv, Agreed, Written
<1>4. handed.pay = answers \/ (state = "ACK" /\ rxbuf = Answer)
  BY <1>3, SeesAck
<1> QED
  BY <1>1, <1>4 DEF Answer

\* The device stops repeating an answer only when the host has it: it has been
\* propagated, or the handler is about to, having accepted it.
THEOREM LinkAnswerNotLost == LinkSpec => AnswerNotLost
<1>1. ASSUME LInv, [LinkNext]_linkvars
      PROVE  [(dev_unacked # <<>> /\ dev_unacked' = <<>> /\ request # "none"
                 /\ ~resync_lost)
               => \/ handed.pay = dev_unacked[1].pay
                  \/ state = "ACK" /\ rxbuf.pay = dev_unacked[1].pay]_linkvars
  BY <1>1, Released
<1> QED
  BY <1>1, LinkInvariance, PTL DEF LinkSpec, AnswerNotLost

\* Only DL_STATE_ACK propagates a frame, and it is the accepted answer.
LEMMA Propagated ==
  ASSUME LInv, LinkNext, Propagates
  PROVE  /\ rxbuf.whole /\ rxbuf.pay >= handed.pay
         /\ rxbuf.pay = handed.pay => handed.times = 0
<1>1. LinkHandler
  <2>1. request # "none" /\ request' = "none"
    BY DEF Propagates
  <2> QED
    BY <2>1
    DEF LinkNext, LinkWriteDone, LinkReadDone, LinkFatal, LinkQuiet, LinkSend,
        LinkReceive, LinkInitAgain, DlInit, DlSendFrame, DlReceiveFrame,
        DevAnswer, DevRepeat, PlWriteDone, PlReadDone, PlFatal, PlNegotiated,
        PlReadTimeout, ExitTimeout, PlEvent, vars, upvars
<1>2. state = "ACK"
  <2>1. request # "none" /\ request' = "none" /\ reported' \in {"rx", "txrx"}
    BY DEF Propagates
  <2>2. ~CaseIdle /\ ~CfAck /\ ~ErrorReport
    BY <2>1 DEF CaseIdle, CfAck, ErrorReport, Report
  <2>3. ~CaseTx /\ ~CaseDiscard /\ ~CaseNack /\ ~ErrorResync /\ ~CaseRx
    BY <2>1 DEF CaseTx, CaseDiscard, CaseNack, ErrorResync, CaseRx, Goto, upvars
  <2>4. ~CaseRxDf /\ ~CaseResend
    BY <2>1 DEF CaseRxDf, DfAckOldFrame, DfAccept, CaseResend, Goto, upvars
  <2>5. ~CaseRxCf
    BY <2>1, <2>2 DEF CaseRxCf, CfResync, Goto, upvars
  <2> QED
    BY <1>1, <2>2, <2>3, <2>4, <2>5 DEF LinkHandler, Handler, CaseAck
<1>3. rxbuf = Answer /\ (handed.pay = answers => handed.times = 0)
  BY <1>2 DEF LInv, Agreed, Accepted
<1>4. handed.pay <= answers
  BY DEF LInv, Agreed, HandedOnce
<1>5. rxbuf.pay = answers /\ rxbuf.whole = TRUE
  BY <1>3 DEF Answer
<1> QED
  BY <1>3, <1>4, <1>5

\* The transport layer gets the device's answers whole, in the order they were
\* given, and each of them once unless the numbers were reset in between.
THEOREM LinkAnswersInOrder == LinkSpec => AnswersInOrder
<1>1. ASSUME LInv, [LinkNext]_linkvars
      PROVE  [Propagates => /\ rxbuf.whole
                            /\ rxbuf.pay >= handed.pay
                            /\ rxbuf.pay = handed.pay => handed.times = 0]_linkvars
  BY <1>1, Propagated
<1> QED
  BY <1>1, LinkInvariance, PTL DEF LinkSpec, AnswersInOrder

-----------------------------------------------------------------------------
(* The link implements the abstract transfer                                *)

\* A step of the abstract transfer, or one it does not see.
Transfers == [Transfer!Next]_(Transfer!vars)

\* The end of a request.
LEMMA HandlerTransfers ==
  ASSUME LInv, NoFalseSuccess', LinkHandler
  PROVE  Transfers
<1>1. current' = current /\ taken' = taken
  BY DEF LinkHandler
<1>2. CASE request = "tx" /\ request' = "none"
  <2>1. outcome = "pending" /\ outcome' \in {"failed", "doubtful", "ok"}
    BY <1>2 DEF LinkHandler, LInv, Agreed, Modes
  <2>2. CASE outcome' = "ok"
    BY <1>1, <2>1, <2>2
    DEF NoFalseSuccess, Transfers, Transfer!Next, Transfer!Acknowledge
  <2>3. CASE outcome' # "ok"
    BY <1>1, <2>1, <2>3 DEF Transfers, Transfer!Next, Transfer!Fail
  <2> QED
    BY <2>2, <2>3
<1>3. CASE ~(request = "tx" /\ request' = "none")
  <2>1. outcome' = outcome
    BY <1>3 DEF LinkHandler
  <2> QED
    BY <1>1, <2>1 DEF Transfers, Transfer!vars
<1> QED
  BY <1>2, <1>3

\* A frame is taken: it is the one of the latest request.
LEMMA WriteTransfers ==
  ASSUME LInv, LinkWriteDone
  PROVE  Transfers
<1>1. current' = current /\ outcome' = outcome /\ current # 0
  BY WriteDone DEF LInv, Agreed, Modes
<1>2. CASE taken' = taken
  BY <1>1, <1>2 DEF Transfers, Transfer!vars
<1>3. CASE DevData /\ taken' # taken
  <2>1. taken' = Counted(taken, current)
    BY <1>3, WriteDone DEF DevData, DevTake, LInv, Agreed, Written
  <2>2. taken'.pay = current
    BY <2>1, CountedType DEF LInv, Agreed, LinkTypes
  <2> QED
    BY <1>1, <2>2 DEF Transfers, Transfer!Next, Transfer!Take
<1> QED
  BY <1>2, <1>3 DEF LinkWriteDone, DevResync, DevAck, DevNack, DevDamaged

LEMMA SendTransfers ==
  ASSUME LInv, NEW first \in BOOLEAN, LinkSend(first)
  PROVE  Transfers
<1>1. request = "none" /\ current + 1 \in Payload /\ current' = current + 1
      /\ outcome' = "pending" /\ taken' = taken
  BY DEF LinkSend, DlSendFrame
<1>2. outcome # "pending"
  BY <1>1 DEF LInv, Agreed, Modes
<1> QED
  BY <1>1, <1>2 DEF Transfers, Transfer!Next, Transfer!Request

\* Every behaviour of the two ends and the bus between them is one of the
\* abstract transfer, fairness aside: a request ends once, as a success only
\* after the peer has taken its frame, and the peer takes no other
\* (ifx_i2c_dl_send_frame, ifx_i2c_pl_event_handler).
THEOREM LinkImplementsTransfer ==
  LinkSpec => Transfer!Init /\ [][Transfer!Next]_(Transfer!vars)
<1>1. LinkInit => Transfer!Init
  BY DEF LinkInit, Transfer!Init
<1>2. LInv /\ LInv' /\ [LinkNext]_linkvars => [Transfer!Next]_(Transfer!vars)
  <2> SUFFICES ASSUME LInv, LInv', [LinkNext]_linkvars PROVE Transfers
    BY DEF Transfers
  <2>1. CASE LinkHandler
    BY <2>1, HandlerTransfers DEF LInv, Agreed
  <2>2. CASE LinkWriteDone
    BY <2>2, WriteTransfers
  <2>3. CASE \E first \in BOOLEAN : LinkSend(first)
    BY <2>3, SendTransfers
  <2>4. CASE UNCHANGED <<current, taken, outcome>>
    BY <2>4 DEF Transfers, Transfer!vars
  <2> QED
    BY <2>1, <2>2, <2>3, <2>4
    DEF LinkNext, LinkReadDone, LinkFatal, LinkQuiet, LinkReceive, LinkInitAgain,
        DevAnswer, DevRepeat, histvars, linkvars
<1> QED
  BY <1>1, <1>2, LinkInvariance, PTL DEF LinkSpec

=============================================================================
