----------------------------- MODULE MCPhysical ------------------------------
(* A small instance of Physical: one retry with a counter of three values,  *)
(* a clock of thirteen ticks, a short and a long limit for reads, two       *)
(* slots: one for the timer that runs, one for the next one.  The clock has *)
(* to exceed the longest limit and the time between two readings.           *)
EXTENDS Physical

MCDelay == [c \in Callbacks |-> IF c \in {"soft_reset"} THEN 2 ELSE 1]
MCTimeouts == {2, 4}
=============================================================================
