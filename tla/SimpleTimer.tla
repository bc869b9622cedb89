----------------------------- MODULE SimpleTimer -----------------------------
(***************************************************************************)
(* The timer table every layer waits with (SimpleTimer.cpp), as            *)
(* pal_os_event_arduino.cpp uses it: each timer runs its callback once.    *)
(* Operators only; the machine that owns the table has the table and the   *)
(* clock as variables.  The clock counts modulo ClockSize (2^32 in the     *)
(* code) and callbacks are names.                                          *)
(***************************************************************************)
EXTENDS Naturals, FiniteSets

CONSTANTS MAX_TIMERS, ClockSize

ASSUME TimerAssumption ==
  MAX_TIMERS \in Nat \ {0} /\ ClockSize \in Nat /\ ClockSize > 1

Slots == 1 .. MAX_TIMERS
Clock == 0 .. ClockSize - 1

Free == [callback |-> "none", delay |-> 0, prev |-> 0]

\* slots; numTimers; toBeCalled, the slots found due by the scan; calling, the
\* slot whose callback runs (0: none)
EmptyTable == [slots |-> [i \in Slots |-> Free], numTimers |-> 0,
               toBeCalled |-> {}, calling |-> 0]

\* Mutant: a time is compared that does not wrap.
ElapsedAbsolute(now, prev) == IF now >= prev THEN now - prev ELSE 0

\* The difference of two unsigned readings of the clock.
Elapsed(now, prev) == (now + ClockSize - prev) % ClockSize

InUse(t) == {i \in Slots : t.slots[i].callback # "none"}
FreeSlots(t) == IF t.numTimers >= MAX_TIMERS THEN {} ELSE Slots \ InUse(t)
First(S) == CHOOSE i \in S : \A j \in S : i <= j

\* setTimer: without a free slot nothing happens, and its callers ignore the -1.
setTimer(t, callback, delay, now) ==
  IF FreeSlots(t) = {} THEN t
  ELSE [t EXCEPT !.slots[First(FreeSlots(t))] =
                   [callback |-> callback, delay |-> delay, prev |-> now],
                 !.numTimers = @ + 1]

\* The first pass of run(): the timers that are due at "now".
Due(t, now) == {i \in InUse(t) : Elapsed(now, t.slots[i].prev) >= t.slots[i].delay}
Scanned(t, now) ==
  [t EXCEPT !.toBeCalled = Due(t, now),
            !.slots = [i \in Slots |->
               IF i \in Due(t, now) THEN [t.slots[i] EXCEPT !.prev = now] ELSE t.slots[i]]]

\* The second pass: a callback runs while its slot is still taken ...
Next_called(t) == First(t.toBeCalled)
Called(t) == [t EXCEPT !.calling = Next_called(t), !.toBeCalled = @ \ {Next_called(t)}]

\* Mutant: the count of timers is not kept.
DeletedUncounted(t) == [t EXCEPT !.slots[t.calling] = Free, !.calling = 0]

\* Mutant: the timer is left to run again.
DeletedNever(t) == [t EXCEPT !.calling = 0]

\* ... and deleteTimer frees it when the callback has returned.
Deleted(t) == [t EXCEPT !.slots[t.calling] = Free, !.numTimers = @ - 1, !.calling = 0]

\* The timers that are yet to run.
Waiting(t) == InUse(t) \ {t.calling}
=============================================================================
