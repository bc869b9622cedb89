------------------------------- MODULE MCLink -------------------------------
(* A small instance of Link: requests 1 .. MaxRequests.                    *)
EXTENDS Link

CONSTANT MaxRequests

MCPayload == 1 .. MaxRequests
MCAnswers == Frame
=============================================================================
