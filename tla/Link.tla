-------------------------------- MODULE Link --------------------------------
(***************************************************************************)
(* The data link between the host (DataLink) and the device over a bus     *)
(* that may damage a frame in either direction.                            *)
(*                                                                         *)
(* The device is the other end of the same protocol.  Its code is not part *)
(* of the repository: it is modelled by what the host's handler expects of *)
(* it.  It takes a data frame with the next number and acknowledges it,    *)
(* acknowledges other data frames again without taking them, answers a     *)
(* damaged frame with a NACK, resets its numbers on a re-sync, and repeats *)
(* its own data frame until that is acknowledged.                          *)
(*                                                                         *)
(* MaxNoise bounds the damaged frames, MaxFatal the operations the         *)
(* physical layer gives up, MaxAnswers what the device has to say and      *)
(* MaxRepeats how often it says it again without being asked to.           *)
(***************************************************************************)
EXTENDS DataLink, Sequences

CONSTANTS MaxNoise, MaxFatal, MaxAnswers, MaxRepeats

ASSUME PayloadAssumption == Payload \subseteq Nat \ {0}
ASSUME BoundAssumption ==
  /\ MaxNoise \in Nat /\ MaxFatal \in Nat
  /\ MaxAnswers \in Nat /\ MaxRepeats \in Nat
\* The two ends exchange payloads of the same kind.
ASSUME AnswerPayloadAssumption == 1 .. MaxAnswers \subseteq Payload

VARIABLES
  dev_tx,      \* number of the device's last data frame
  dev_rx,      \* number of the last data frame the device took
  dev_out,     \* the frame ready in the device's data register: <<>> or <<f>>
  dev_unacked, \* the device's data frame not yet acknowledged: <<>> or <<pay>>
  noise,       \* frames damaged so far
  fatal,       \* operations given up so far
  answers,     \* answers the device has produced
  repeats,     \* times it repeated one unasked
  current,     \* history: the payload the host last asked to send
  taken,       \* history: the last payload the device took, and how often
  damaged,     \* history: it took one that is not what the host asked to send
  handed,      \* history: the last answer propagated to the transport layer, and
               \* how often in this sequence of frame numbers
  outcome,     \* history: how the last request to send ended
  resyncs,     \* history: re-syncs sent since the current payload was requested
  resync_lost  \* history: the last re-sync did not reach the device

devvars  == <<dev_tx, dev_rx, dev_out, dev_unacked, answers, repeats>>
histvars == <<current, taken, damaged, handed, outcome, resyncs, resync_lost>>
linkvars == <<vars, devvars, noise, fatal, histvars>>

LinkInit ==
  /\ Init
  /\ dev_tx = DL_MAX_FRAME_NUM /\ dev_rx = DL_MAX_FRAME_NUM
  /\ dev_out = <<>> /\ dev_unacked = <<>> /\ answers = 0 /\ repeats = 0
  /\ noise = 0 /\ fatal = 0
  /\ current = 0 /\ outcome = "none"
  /\ handed = [pay |-> 0, times |-> 0]
  /\ taken = [pay |-> 0, times |-> 0] /\ damaged = FALSE
  /\ resyncs = 0 /\ resync_lost = FALSE

\* A count of what happened is capped: more than once is all that is told apart.
Again(n) == IF n = 0 THEN 1 ELSE 2
Counted(h, p) == [pay |-> p, times |-> IF p = h.pay THEN Again(h.times) ELSE 1]

-----------------------------------------------------------------------------
(* The device                                                               *)

Offer(f) == dev_out' = <<f>>

DevTake(b) ==
  /\ taken' = Counted(taken, b.pay)
  /\ damaged' = (damaged \/ ~b.whole)

DevSeesAck(f) ==
  dev_unacked' = IF f.ack_nr = dev_tx THEN <<>> ELSE dev_unacked

\* A frame of the host has been written: whole, or damaged on the bus.
DevDamaged ==
  /\ Offer(ControlFrame("NACK", NextNr(dev_rx)))
  /\ resync_lost' = (resync_lost \/ pl_frame.seqctr = "RESYNC")
  /\ UNCHANGED <<dev_tx, dev_rx, dev_unacked, taken, damaged>>

DevData ==
  /\ pl_frame.ftype = "data"
  /\ DevSeesAck(pl_frame)
  /\ IF pl_frame.fr_nr = NextNr(dev_rx)
       THEN dev_rx' = pl_frame.fr_nr /\ DevTake(pl_frame.body)
       ELSE UNCHANGED <<dev_rx, taken, damaged>>
  /\ Offer(ControlFrame("ACK", dev_rx'))
  /\ UNCHANGED <<dev_tx, resync_lost>>

\* The unacknowledged frame gets the first number of the new sequence.
DevResync ==
  /\ pl_frame.ftype = "control" /\ pl_frame.seqctr = "RESYNC"
  /\ dev_tx' = IF dev_unacked = <<>> THEN DL_MAX_FRAME_NUM ELSE 0
  /\ dev_rx' = DL_MAX_FRAME_NUM
  /\ dev_out' = <<>>
  /\ resync_lost' = FALSE
  /\ UNCHANGED <<dev_unacked, taken, damaged>>

DevAck ==
  /\ pl_frame.ftype = "control" /\ pl_frame.seqctr = "ACK"
  /\ DevSeesAck(pl_frame)
  /\ dev_out' = IF dev_unacked' = <<>> THEN <<>> ELSE dev_out
  /\ UNCHANGED <<dev_tx, dev_rx, taken, damaged, resync_lost>>

DevNack ==
  /\ pl_frame.ftype = "control" /\ pl_frame.seqctr = "NACK"
  /\ Offer(IF dev_unacked = <<>>
             THEN ControlFrame("ACK", dev_rx)
             ELSE DataFrame(dev_tx, dev_rx, dev_unacked[1]))
  /\ UNCHANGED <<dev_tx, dev_rx, dev_unacked, taken, damaged, resync_lost>>

\* The device has an answer to what it took: a data frame, which also
\* acknowledges the host's.
DevAnswer ==
  /\ ~Running /\ dev_unacked = <<>> /\ answers < MaxAnswers /\ taken.times > 0
  /\ answers' = answers + 1
  /\ dev_tx' = NextNr(dev_tx)
  /\ dev_unacked' = <<[pay |-> answers + 1, whole |-> TRUE]>>
  /\ Offer(DataFrame(dev_tx', dev_rx, dev_unacked'[1]))
  /\ UNCHANGED <<vars, dev_rx, repeats, noise, fatal, histvars>>

DevRepeat ==
  /\ ~Running /\ dev_unacked # <<>> /\ dev_out = <<>> /\ repeats < MaxRepeats
  /\ repeats' = repeats + 1
  /\ Offer(DataFrame(dev_tx, dev_rx, dev_unacked[1]))
  /\ UNCHANGED <<vars, dev_tx, dev_rx, dev_unacked, answers, noise, fatal, histvars>>

-----------------------------------------------------------------------------
(* The host's steps, joined with what they do to the bus and the device     *)

LinkWriteDone ==
  /\ PlWriteDone
  /\ \/ noise' = noise /\ (DevData \/ DevResync \/ DevAck \/ DevNack)
     \/ noise < MaxNoise /\ noise' = noise + 1 /\ DevDamaged
  /\ UNCHANGED <<answers, repeats, fatal, current, handed, outcome, resyncs>>

\* Damage may change the frame's type and control bits.
DamagedForms(f) ==
  {[f EXCEPT !.check = "crc", !.ftype = t, !.seqctr = s, !.body.whole = FALSE] :
     t \in {"data", "control"}, s \in {"ACK", "RESYNC"}}
  \cup {[f EXCEPT !.check = "short"]}

LinkReadDone ==
  /\ dev_out # <<>>
  /\ dev_out' = <<>>
  /\ \/ PlReadDone(dev_out[1]) /\ noise' = noise
     \/ /\ noise < MaxNoise /\ noise' = noise + 1
        /\ \E f \in DamagedForms(dev_out[1]) : PlReadDone(f)
  /\ UNCHANGED <<dev_tx, dev_rx, dev_unacked, answers, repeats, fatal, histvars>>

LinkFatal ==
  /\ fatal < MaxFatal /\ fatal' = fatal + 1
  /\ PlFatal
  /\ resync_lost' = (resync_lost \/ (pl = "write" /\ pl_frame.seqctr = "RESYNC"))
  /\ UNCHANGED <<devvars, noise, current, taken, damaged, handed, outcome, resyncs>>

LinkQuiet(A) == A /\ UNCHANGED <<devvars, noise, fatal, histvars>>

Propagates ==
  request # "none" /\ request' = "none" /\ reported' \in {"rx", "txrx"}
SendsResync == pl' = "write" /\ pl_frame'.seqctr = "RESYNC"
NewSequence(h) == [h EXCEPT !.times = 0]

LinkHandler ==
  /\ Handler
  /\ handed' = IF Propagates THEN Counted(handed, rxbuf.pay)
               ELSE IF SendsResync THEN NewSequence(handed)
               ELSE handed
  /\ outcome' = IF request = "tx" /\ request' = "none"
                  THEN CASE reported' = "error" -> "failed"
                         [] resync_lost -> "doubtful"
                         [] OTHER -> "ok"
                  ELSE outcome
  /\ resyncs' = IF SendsResync THEN Again(resyncs) ELSE resyncs
  /\ UNCHANGED <<devvars, noise, fatal, current, taken, damaged, resync_lost>>

\* Each request carries a payload of its own.
LinkSend(first) ==
  /\ current + 1 \in Payload
  /\ DlSendFrame(current + 1, first)
  /\ current' = current + 1
  /\ resyncs' = 0 /\ outcome' = "pending"
  /\ UNCHANGED <<devvars, noise, fatal, taken, damaged, handed, resync_lost>>

LinkReceive ==
  /\ DlReceiveFrame
  /\ UNCHANGED <<devvars, noise, fatal, histvars>>

\* The stack is opened again: the device is reset first.
LinkInitAgain ==
  /\ DlInit
  /\ dev_tx' = DL_MAX_FRAME_NUM /\ dev_rx' = DL_MAX_FRAME_NUM
  /\ dev_out' = <<>> /\ dev_unacked' = <<>>
  /\ resync_lost' = FALSE
  /\ handed' = NewSequence(handed)
  /\ UNCHANGED <<answers, repeats, noise, fatal, current, taken, damaged, outcome, resyncs>>

LinkNext ==
  \/ LinkHandler \/ LinkWriteDone \/ LinkReadDone \/ LinkFatal
  \/ LinkQuiet(PlNegotiated) \/ LinkQuiet(PlReadTimeout) \/ LinkQuiet(ExitTimeout)
  \/ (\E first \in BOOLEAN : LinkSend(first)) \/ LinkReceive \/ LinkInitAgain
  \/ DevAnswer \/ DevRepeat

\* As in DataLink: the handler runs, the physical layer's operations end, time
\* passes.  No fairness is asked of the device's own steps.  But liveness here
\* rests on the bounds: the bus damages finitely many frames (MaxNoise), and the
\* device follows the protocol and repeats itself unasked finitely often
\* (MaxAnswers, MaxRepeats).  A bus that damages frames for ever leaves a
\* request unanswered (DataLink: ExitTimeoutHonoured).
LinkFairness ==
  /\ WF_linkvars(LinkHandler)
  /\ WF_linkvars(LinkQuiet(PlNegotiated) \/ LinkWriteDone)
  /\ WF_linkvars(LinkReadDone \/ LinkQuiet(PlReadTimeout))
  /\ WF_linkvars(LinkQuiet(ExitTimeout))

LinkSpec == LinkInit /\ [][LinkNext]_linkvars
LinkFairSpec == LinkSpec /\ LinkFairness

-----------------------------------------------------------------------------
(* Properties                                                               *)

LinkTypeOK ==
  /\ TypeOK
  /\ dev_tx \in SeqNr /\ dev_rx \in SeqNr
  /\ Len(dev_out) <= 1 /\ Len(dev_unacked) <= 1
  /\ noise \in 0 .. MaxNoise /\ fatal \in 0 .. MaxFatal
  /\ answers \in 0 .. MaxAnswers /\ repeats \in 0 .. MaxRepeats
  /\ current \in Nat
  /\ {taken, handed} \subseteq [pay : Nat, times : 0 .. 2]
  /\ outcome \in {"none", "pending", "ok", "failed", "doubtful"}
  /\ resyncs \in 0 .. 2 /\ damaged \in BOOLEAN /\ resync_lost \in BOOLEAN

\* A success reported to the transport layer is true: the device has taken the
\* frame.  The exception is a re-sync lost on the bus: the host restarts at
\* number 0 unheard, and 0 may be a number the device has just taken.
NoFalseSuccess == outcome = "ok" => taken.pay = current

\* The device takes a frame once, however often it is sent, unless the frame
\* numbers were reset in between.
TakenOnce == (taken.pay = current /\ resyncs = 0) => taken.times <= 1

\* When the device regards its answer as acknowledged, the host has it: it has
\* been propagated to the transport layer or is about to be.
AnswerNotLost ==
  [][(dev_unacked # <<>> /\ dev_unacked' = <<>> /\ request # "none" /\ ~resync_lost)
       => \/ handed.pay = dev_unacked[1].pay
          \/ state = "ACK" /\ rxbuf.pay = dev_unacked[1].pay]_linkvars

\* Answers are propagated whole, in the order the device gave them, and each
\* of them once unless the frame numbers were reset in between.
AnswersInOrder ==
  [][Propagates => /\ rxbuf.whole
                   /\ rxbuf.pay >= handed.pay
                   /\ rxbuf.pay = handed.pay => handed.times = 0]_linkvars

\* The link implements the abstract transfer of frames; that every transfer
\* ends rests on the bounds, as LinkFairness says.
Transfer == INSTANCE FrameTransfer WITH peer <- taken.pay
ImplementsTransfer == Transfer!Spec

\* Retransmission: whatever the device takes is what the host was asked to send.
TakenWhole == ~damaged
=============================================================================
