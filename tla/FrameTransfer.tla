---------------------------- MODULE FrameTransfer ----------------------------
(***************************************************************************)
(* What the data link promises to the transport layer                      *)
(* (ifx_i2c_data_link_layer.h): a request to send ends with an event; a    *)
(* success says that the peer has taken the frame; the peer only ever      *)
(* takes the frame of the latest request.  It may take it again, after the *)
(* frame numbers have been reset, even when the request is over.           *)
(***************************************************************************)
EXTENDS Naturals

CONSTANT Payload

VARIABLES current, peer, outcome

vars == <<current, peer, outcome>>

Init == current = 0 /\ peer = 0 /\ outcome = "none"

Request ==
  /\ outcome # "pending"
  /\ current + 1 \in Payload
  /\ current' = current + 1
  /\ outcome' = "pending"
  /\ UNCHANGED peer

Take ==
  /\ current # 0
  /\ peer' = current
  /\ UNCHANGED <<current, outcome>>

Acknowledge ==
  /\ outcome = "pending" /\ peer = current
  /\ outcome' = "ok"
  /\ UNCHANGED <<current, peer>>

\* "doubtful": a success while the two ends disagree on the frame numbers.
Fail ==
  /\ outcome = "pending"
  /\ outcome' \in {"failed", "doubtful"}
  /\ UNCHANGED <<current, peer>>

Next == Request \/ Take \/ Acknowledge \/ Fail

Spec == Init /\ [][Next]_vars /\ WF_vars(Acknowledge \/ Fail)
=============================================================================
