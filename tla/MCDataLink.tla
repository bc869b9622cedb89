----------------------------- MODULE MCDataLink -----------------------------
(***************************************************************************)
(* A small instance of DataLink: one payload, and a device that answers    *)
(* any frame the tests of the handler tell apart.                          *)
(***************************************************************************)
EXTENDS DataLink

CONSTANT p1

MCPayload == {p1}

Body == [pay |-> p1, whole |-> TRUE]

\* Sound frames of either type with any frame numbers.
Sound ==
  {[DataFrame(nr, ack, Body) EXCEPT !.seqctr = s] :
     nr \in SeqNr, ack \in SeqNr, s \in {"ACK", "NACK", "RFU"}}
  \cup
  {[ControlFrame(s, ack) EXCEPT !.fr_nr = nr] :
     nr \in {0, 1}, ack \in SeqNr, s \in {"ACK", "NACK", "RESYNC", "RFU"}}

\* Damaged ones: their type and control bits are all that is looked at.
Damaged ==
  {[f EXCEPT !.check = c] :
     f \in {DataFrame(0, 0, Body), ControlFrame("ACK", 0), ControlFrame("RESYNC", 0)},
     c \in {"crc", "length", "short"}}

MCAnswers == Sound \cup Damaged

\* A device, or a bus, that never lets a sound data frame through.
MCDamagedAnswers == Damaged
=============================================================================
