---------------------------- MODULE FrameService -----------------------------
(***************************************************************************)
(* What the physical layer promises to the data link layer                 *)
(* (ifx_i2c_physical_layer.h): it is negotiated with the device first and  *)
(* then reads or writes one frame at a time; each request ends with one    *)
(* event, and by then the layer takes the next request.  Only a failed     *)
(* negotiation leaves it unready, and only a bit rate that cannot be set   *)
(* leaves a negotiation without an event ("stalled").                      *)
(***************************************************************************)

VARIABLES request, reported, ready

vars == <<request, reported, ready>>

Init == request = "none" /\ reported = "none" /\ ready = FALSE

Open ==
  /\ request = "none"
  /\ request' = "init" /\ reported' = "none" /\ ready' = FALSE

Transfer ==
  /\ request = "none" /\ ready
  /\ request' \in {"tx", "rx"} /\ reported' = "none" /\ ready' = FALSE

Answer ==
  /\ request \in {"init", "tx", "rx"}
  /\ request' = "none"
  /\ reported' \in {"SUCCESS", "ERROR", "FATAL"}
  /\ ready' \in BOOLEAN
  /\ ~ready' => request = "init" /\ reported' = "ERROR"

Stall ==
  /\ request = "init"
  /\ request' = "stalled"
  /\ UNCHANGED <<reported, ready>>

Next == Open \/ Transfer \/ Answer \/ Stall

Spec == Init /\ [][Next]_vars /\ WF_vars(Answer)
=============================================================================
