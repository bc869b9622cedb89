----------------------------- MODULE MCTransport -----------------------------
(* A small instance of Transport: fragments of two bytes; commands of one   *)
(* to three fragments, answers of one to three, a buffer that fits all of   *)
(* them and one that does not.                                              *)
EXTENDS Transport

MCCommandLengths == {2, 5}
MCAnswerLengths  == {2, 3, 5}
MCBufferSizes    == {3, 5}
=============================================================================
