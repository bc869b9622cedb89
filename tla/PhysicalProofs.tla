--------------------------- MODULE PhysicalProofs ----------------------------
(***************************************************************************)
(* Theorems about the physical layer and the timer table, for every number *)
(* of slots, of retries and of values of the counter and the clock, and    *)
(* whatever the bus and the device do.                                     *)
(***************************************************************************)
EXTENDS Physical, FiniteSetTheorems, TLAPS

-----------------------------------------------------------------------------
(* The timer table                                                          *)

Slot == [callback : Callbacks \cup {"none"}, delay : Nat, prev : Clock]
Table == [slots : [Slots -> Slot], numTimers : Nat, toBeCalled : SUBSET Slots,
          calling : 0 .. MAX_TIMERS]

\* The table counts its timers, of which at most one is yet to run.
Sound(t) ==
  /\ t \in Table
  /\ t.numTimers = Cardinality(InUse(t))
  /\ t.toBeCalled \subseteq Waiting(t) /\ t.calling \in {0} \cup InUse(t)
  /\ \A i \in Waiting(t), j \in Waiting(t) : i = j

LEMMA SlotsFacts ==
  /\ Slots \subseteq Nat \ {0} /\ 1 \in Slots /\ 2 \in Slots /\ IsFiniteSet(Slots)
  /\ Slots \subseteq 0 .. MAX_TIMERS
  <1>1. MAX_TIMERS \in Nat /\ MAX_TIMERS >= 2
    BY TimerAssumption, SlotAssumption
  <1>2. IsFiniteSet(1 .. MAX_TIMERS)
    BY <1>1, FS_Interval
  <1> QED BY <1>1, <1>2 DEF Slots

LEMMA FirstOfOne ==
  ASSUME NEW i \in Slots
  PROVE  First({i}) = i
  <1>1. i \in {i} /\ \A j \in {i} : i <= j
    BY SlotsFacts
  <1> QED BY <1>1 DEF First

\* Beside one slot there is always another.
LEMMA FirstOfRest ==
  ASSUME NEW c
  PROVE  First(Slots \ {c}) \in Slots \ {c}
  <1>1. \E i \in Slots \ {c} : \A j \in Slots \ {c} : i <= j
    <2>1. CASE c = 1
      BY <2>1, SlotsFacts
    <2>2. CASE c # 1
      BY <2>2, SlotsFacts
    <2> QED BY <2>1, <2>2
  <1> QED BY <1>1 DEF First

\* While nothing waits there is room for a timer, and that waits then.
LEMMA SetTimerFacts ==
  ASSUME NEW t, Sound(t), Waiting(t) = {},
         NEW c \in Callbacks, NEW d \in Nat, NEW n \in Clock
  PROVE  /\ FreeSlots(t) # {}
         /\ Sound(setTimer(t, c, d, n))
         /\ setTimer(t, c, d, n).calling = t.calling
         /\ setTimer(t, c, d, n).toBeCalled = {}
         /\ \E i \in Slots : /\ Waiting(setTimer(t, c, d, n)) = {i}
                             /\ setTimer(t, c, d, n).slots[i].callback = c
                             /\ setTimer(t, c, d, n).slots[i].prev = n
  <1>1. t \in Table /\ t.toBeCalled = {}
    BY DEF Sound
  <1>2. InUse(t) = {t.calling} \cap Slots
    <2>1. InUse(t) \subseteq Slots /\ InUse(t) \subseteq {t.calling}
      BY DEF Waiting, InUse
    <2>2. t.calling \in InUse(t) \/ t.calling \notin Slots
      BY SlotsFacts DEF Sound
    <2> QED BY <2>1, <2>2
  <1>3. t.numTimers < MAX_TIMERS
    <2>1. Cardinality({}) = 0 /\ Cardinality({t.calling}) = 1
      BY FS_EmptySet, FS_Singleton
    <2>2. InUse(t) = {} \/ InUse(t) = {t.calling}
      BY <1>2
    <2> QED BY <2>1, <2>2, TimerAssumption, SlotAssumption DEF Sound
  <1>4. FreeSlots(t) = Slots \ {t.calling}
    BY <1>1, <1>2, <1>3, TimerAssumption DEF FreeSlots, Table
  <1> DEFINE i == First(FreeSlots(t))
             s == [callback |-> c, delay |-> d, prev |-> n]
             u == setTimer(t, c, d, n)
  <1>5. i \in Slots \ {t.calling}
    BY <1>4, FirstOfRest
  <1>6. u = [t EXCEPT !.slots[i] = s, !.numTimers = @ + 1]
    BY <1>4, <1>5 DEF setTimer
  <1>7. s \in Slot /\ s.callback = c /\ s.prev = n /\ c # "none"
    BY DEF Slot, Callbacks
  <1> HIDE DEF i, s, u
  <1>8. /\ u.slots = [t.slots EXCEPT ![i] = s] /\ u.numTimers = t.numTimers + 1
        /\ u.calling = t.calling /\ u.toBeCalled = {}
        /\ u \in Table
    <2>1. /\ u.slots = [t.slots EXCEPT ![i] = s] /\ u.numTimers = t.numTimers + 1
          /\ u.calling = t.calling /\ u.toBeCalled = {}
          /\ u = [slots |-> u.slots, numTimers |-> u.numTimers,
                  toBeCalled |-> u.toBeCalled, calling |-> u.calling]
      BY <1>1, <1>6 DEF Table
    <2>2. u.slots \in [Slots -> Slot] /\ u.numTimers \in Nat /\ u.calling \in 0 .. MAX_TIMERS
      BY <1>1, <1>5, <1>7, <2>1 DEF Table
    <2> QED BY <2>1, <2>2 DEF Table
  <1>9. InUse(u) = InUse(t) \cup {i}
    BY <1>1, <1>5, <1>7, <1>8 DEF InUse, Table
  <1>10. Waiting(u) = {i}
    BY <1>2, <1>5, <1>8, <1>9 DEF Waiting
  <1>11. Cardinality(InUse(u)) = Cardinality(InUse(t)) + 1
    <2>1. IsFiniteSet(InUse(t)) /\ i \notin InUse(t)
      BY <1>2, <1>5, FS_Subset, SlotsFacts
    <2> QED BY <1>9, <2>1, FS_AddElement
  <1>12. u.calling \in {0} \cup InUse(u)
    BY <1>8, <1>9 DEF Sound
  <1>13. Sound(u)
    BY <1>8, <1>10, <1>11, <1>12 DEF Sound
  <1>14. u.slots[i] = s
    BY <1>1, <1>5, <1>8 DEF Table
  <1> QED BY <1>4, <1>5, <1>7, <1>8, <1>10, <1>13, <1>14 DEF u
\* The callback that is called was the only one waiting.
LEMMA CalledFacts ==
  ASSUME NEW t, Sound(t), t.calling = 0, t.toBeCalled # {}
  PROVE  /\ Sound(Called(t)) /\ Waiting(Called(t)) = {}
         /\ Called(t).calling = Next_called(t)
         /\ Next_called(t) \in Waiting(t) /\ Waiting(t) = {Next_called(t)}
         /\ Next_called(t) # 0
  <1>1. PICK i \in Waiting(t) : t.toBeCalled = {i}
    BY DEF Sound
  <1>2. i \in InUse(t) /\ i \in Slots /\ i # 0 /\ Waiting(t) = {i}
    BY <1>1, SlotsFacts DEF Waiting, InUse, Sound
  <1>3. Next_called(t) = i
    BY <1>1, <1>2, FirstOfOne DEF Next_called
  <1> DEFINE u == Called(t)
  <1>4. /\ u.slots = t.slots /\ u.numTimers = t.numTimers /\ u.toBeCalled = {}
        /\ u.calling = i /\ u \in Table
    BY <1>1, <1>2, <1>3, SlotsFacts DEF Called, Sound, Table
  <1> HIDE DEF u
  <1>5. InUse(u) = InUse(t) /\ Waiting(u) = {}
    <2>1. InUse(u) = InUse(t) /\ InUse(t) \subseteq Slots
      BY <1>4 DEF InUse
    <2>2. Waiting(t) = InUse(t)
      BY <2>1, SlotsFacts DEF Waiting
    <2> QED BY <1>2, <1>4, <2>1, <2>2 DEF Waiting
  <1>6. Sound(u)
    BY <1>2, <1>4, <1>5 DEF Sound
  <1> QED BY <1>1, <1>2, <1>3, <1>4, <1>5, <1>6 DEF u

\* A callback that has returned frees its slot and no other.
LEMMA DeletedFacts ==
  ASSUME NEW t, Sound(t), t.calling # 0
  PROVE  /\ Sound(Deleted(t)) /\ Waiting(Deleted(t)) = Waiting(t)
         /\ Deleted(t).calling = 0
         /\ \A i \in Waiting(t) : Deleted(t).slots[i] = t.slots[i]
  <1> DEFINE u == Deleted(t)
             c == t.calling
  <1>1. t \in Table /\ c \in InUse(t) /\ c \in Slots /\ InUse(t) \subseteq Slots
    BY DEF Sound, InUse
  <1>2. IsFiniteSet(InUse(t))
    BY <1>1, FS_Subset, SlotsFacts
  <1>3. /\ Cardinality(InUse(t)) \in Nat
        /\ Cardinality(InUse(t) \ {c}) = Cardinality(InUse(t)) - 1
        /\ Cardinality(InUse(t) \ {c}) \in Nat
    <2>1. IsFiniteSet(InUse(t) \ {c}) /\ Cardinality(InUse(t) \ {c}) = Cardinality(InUse(t)) - 1
      BY <1>1, <1>2, FS_RemoveElement
    <2> QED BY <1>2, <2>1, FS_CardinalityType
  <1>4. Free \in Slot /\ Free.callback = "none"
    BY TimerAssumption DEF Free, Slot, Clock
  <1>5. /\ u.slots = [t.slots EXCEPT ![c] = Free] /\ u.numTimers = t.numTimers - 1
        /\ u.calling = 0 /\ u.toBeCalled = t.toBeCalled
        /\ u = [slots |-> u.slots, numTimers |-> u.numTimers,
                toBeCalled |-> u.toBeCalled, calling |-> u.calling]
    <2>1. u = [t EXCEPT !.slots[c] = Free, !.numTimers = t.numTimers - 1, !.calling = 0]
      BY <1>1 DEF Deleted, Table
    <2> HIDE DEF u, c
    <2> QED BY <1>1, <2>1 DEF Table
  <1> HIDE DEF u
  <1>6. InUse(u) = InUse(t) \ {c} /\ \A i \in Slots \ {c} : u.slots[i] = t.slots[i]
    BY <1>1, <1>4, <1>5 DEF InUse, Table
  <1>7. Waiting(u) = Waiting(t)
    BY <1>1, <1>5, <1>6, SlotsFacts DEF Waiting
  <1>8. u \in Table
    <2>1. u.slots \in [Slots -> Slot] /\ u.numTimers \in Nat /\ u.calling \in 0 .. MAX_TIMERS
      BY <1>1, <1>3, <1>4, <1>5, TimerAssumption DEF Table, Sound
    <2> QED BY <1>1, <1>5, <2>1 DEF Table
  <1>9. Sound(u)
    BY <1>3, <1>5, <1>6, <1>7, <1>8 DEF Sound
  <1> QED BY <1>5, <1>6, <1>7, <1>9 DEF u, Waiting, InUse

\* The scan restarts the timers that are due; it starts and frees none.
LEMMA ScannedFacts ==
  ASSUME NEW t, Sound(t), t.calling = 0, NEW n \in Clock
  PROVE  /\ Sound(Scanned(t, n)) /\ Waiting(Scanned(t, n)) = Waiting(t)
         /\ Scanned(t, n).calling = 0
         /\ \A i \in Waiting(t) : Scanned(t, n).slots[i].callback = t.slots[i].callback
  <1> DEFINE u == Scanned(t, n)
  <1>1. t \in Table /\ Due(t, n) \subseteq InUse(t) /\ InUse(t) \subseteq Slots
    BY DEF Sound, Due, InUse
  <1>2. /\ u.slots = [i \in Slots |-> IF i \in Due(t, n)
                                        THEN [t.slots[i] EXCEPT !.prev = n] ELSE t.slots[i]]
        /\ u.numTimers = t.numTimers /\ u.calling = 0 /\ u.toBeCalled = Due(t, n)
        /\ u = [slots |-> u.slots, numTimers |-> u.numTimers,
                toBeCalled |-> u.toBeCalled, calling |-> u.calling]
    <2> DEFINE D == Due(t, n)
               S == [i \in Slots |-> IF i \in D THEN [t.slots[i] EXCEPT !.prev = n] ELSE t.slots[i]]
    <2>1. u = [t EXCEPT !.toBeCalled = D, !.slots = S]
      BY DEF Scanned
    <2> HIDE DEF u, D, S
    <2>2. /\ u.slots = S /\ u.numTimers = t.numTimers /\ u.calling = t.calling
          /\ u.toBeCalled = D
          /\ u = [slots |-> u.slots, numTimers |-> u.numTimers,
                  toBeCalled |-> u.toBeCalled, calling |-> u.calling]
      BY <1>1, <2>1 DEF Table
    <2> QED BY <2>2 DEF D, S
  <1> HIDE DEF u
  <1>3. \A i \in Slots : u.slots[i] \in Slot /\ u.slots[i].callback = t.slots[i].callback
    BY <1>1, <1>2 DEF Table, Slot
  <1>4. InUse(u) = InUse(t) /\ Waiting(u) = Waiting(t) /\ Waiting(t) = InUse(t)
    BY <1>2, <1>3, SlotsFacts DEF InUse, Waiting
  <1>5. u \in Table
    <2>1. u.slots \in [Slots -> Slot]
      BY <1>2, <1>3
    <2> QED BY <1>1, <1>2, <2>1, TimerAssumption DEF Table
  <1>6. Sound(u)
    BY <1>1, <1>2, <1>4, <1>5 DEF Sound
  <1> QED BY <1>1, <1>2, <1>3, <1>4, <1>6 DEF u

-----------------------------------------------------------------------------
(* The clock and the counter                                                *)

LEMMA ElapsedFacts ==
  ASSUME NEW n \in Clock, NEW s \in Clock
  PROVE  /\ Elapsed(n, s) \in Nat
         /\ Elapsed(n, s) = IF n >= s THEN n - s ELSE n + ClockSize - s
  <1>1. n \in Nat /\ s \in Nat /\ n < ClockSize /\ s < ClockSize /\ ClockSize \in Nat
    BY TimerAssumption DEF Clock
  <1>2. CASE n >= s
    <2>1. (n - s + ClockSize) % ClockSize = n - s
      BY <1>1, <1>2
    <2> QED BY <1>1, <1>2, <2>1 DEF Elapsed
  <1>3. CASE n < s
    BY <1>1, <1>3 DEF Elapsed
  <1> QED BY <1>1, <1>2, <1>3

\* A tick adds one to the time since a start, unless the clock comes round.
LEMMA TickFacts ==
  ASSUME NEW n \in Clock, NEW s \in Clock
  PROVE  /\ (n + 1) % ClockSize \in Clock
         /\ Elapsed((n + 1) % ClockSize, s) <= Elapsed(n, s) + 1
  <1>1. n \in Nat /\ s \in Nat /\ n < ClockSize /\ s < ClockSize /\ ClockSize \in Nat
    BY TimerAssumption DEF Clock
  <1> DEFINE m == (n + 1) % ClockSize
  <1>2. m = IF n + 1 = ClockSize THEN 0 ELSE n + 1
    BY <1>1
  <1> HIDE DEF m
  <1>3. m \in Clock
    BY <1>1, <1>2 DEF Clock
  <1>4. Elapsed(m, s) <= Elapsed(n, s) + 1
    BY <1>1, <1>2, <1>3, ElapsedFacts
  <1> QED BY <1>3, <1>4 DEF m

Counter == 0 .. CounterSize - 1

LEMMA CounterFacts ==
  /\ PL_POLLING_MAX_CNT \in Counter /\ 0 \in Counter
  /\ \A n \in Counter : /\ (n + CounterSize - 1) % CounterSize \in Counter
                        /\ n # 0 => (n + CounterSize - 1) % CounterSize = n - 1
  <1>1. CounterSize \in Nat /\ PL_POLLING_MAX_CNT \in Nat /\ PL_POLLING_MAX_CNT < CounterSize
    BY PhysicalAssumption
  <1>2. ASSUME NEW n \in Counter, n # 0
        PROVE  (n + CounterSize - 1) % CounterSize = n - 1
    <2>1. n - 1 \in Nat /\ n - 1 < CounterSize
      BY <1>1, <1>2 DEF Counter
    <2>2. (n - 1 + CounterSize) % CounterSize = n - 1
      BY <1>1, <2>1
    <2> QED BY <1>1, <2>1, <2>2 DEF Counter
  <1>3. (0 + CounterSize - 1) % CounterSize = CounterSize - 1
    BY <1>1
  <1> QED BY <1>1, <1>2, <1>3 DEF Counter

-----------------------------------------------------------------------------
(* The inductive invariant                                                  *)

PLs == [frame_state : FrameStates, negotiate_state : NegotiateStates,
        request_soft_reset : {"none", "GET_STATUS_REG", "WRITE", "STARTUP", "INIT"},
        frame_action : {"none", "READ", "WRITE"}, register_action : {"none", "READ", "WRITE"},
        register : Registers, i2c_cmd : {"none", "READ", "WRITE"},
        retry_counter : Counter, buffer : {Blank} \cup AnyReading,
        frame_size : 1 .. FullFrame, frame_start_time : Clock,
        data_poll_timeout : {0} \cup Timeouts]
Addrs == [ctx : Addresses, pal : Addresses, device : Addresses, reset : Addresses]
Kinds == {"init", "tx", "rx"}
Reports == {"SUCCESS", "ERROR", "FATAL"}
Hists == [request : {"none"} \cup Kinds, reported : {"none"} \cup Reports,
          fails : Nat, age : Nat, dropped : BOOLEAN, strayed : BOOLEAN]

\* Where a request of each kind can be while a register is accessed.
Doing(p, kind) ==
  \/ kind = "tx" /\ p.frame_state = "RXTX" /\ p.register # "SOFT_RESET"
  \/ kind = "rx" /\ p.frame_state \in {"DATA_AVAILABLE", "RXTX"} /\ p.register # "SOFT_RESET"
  \/ /\ kind = "init" /\ p.frame_state = "SOFT_RESET"
     /\ p.request_soft_reset \in {"WRITE", "STARTUP"} /\ p.negotiate_state = "SET_FREQ_DEFAULT"
  \/ /\ kind = "init" /\ p.frame_state = "INIT"
     /\ p.negotiate_state \in {"SET_FREQ_REG", "READ_FREQ", "VERIFY_FREQ", "GET_DATA_REG_LEN",
                               "VERIFY_DATA_REG"}
     /\ p.negotiate_state = "VERIFY_DATA_REG"
          => p.register = "DATA_REG_LEN" /\ p.register_action = "READ"

\* The same for each callback that may continue it; what has been read is an
\* answer of the register it was read from.
Waits(p, callback, kind) ==
  \/ callback = "poll" /\ Doing(p, kind)
  \/ /\ callback = "guard" /\ Doing(p, kind)
     /\ p.i2c_cmd = "READ" => p.buffer \in Readings(p.register)
  \/ callback = "status_poll" /\ kind = "rx" /\ p.frame_state = "DATA_AVAILABLE"
  \/ /\ callback = "soft_reset" /\ kind = "init" /\ p.frame_state = "SOFT_RESET"
     /\ p.request_soft_reset = "INIT" /\ p.negotiate_state = "SET_FREQ_DEFAULT"
  \/ /\ callback = "negotiation" /\ kind = "init" /\ p.frame_state = "INIT"
     /\ p.negotiate_state \in {"SET_FREQ_DEFAULT", "AGREE_FREQ", "DONE"}

\* Failed accesses and attempts left make up the limit; the counter may be
\* beyond it, having wrapped, only where no access is under way.
Counts(p, callback, fails) ==
  /\ callback \in {"poll", "guard"} => fails + p.retry_counter <= PL_POLLING_MAX_CNT
  /\ callback # "poll" => fails = 0

Resting(p) == p.frame_state \in {"UNINIT", "READY"}

\* The time a read has taken is no shorter than it looks.
Aged(age, p) ==
  age < p.data_poll_timeout => Elapsed(now, p.frame_start_time) <= age

WaitsFor(i) == timer.slots[i].callback

PInv ==
  /\ pl \in PLs /\ Sound(timer) /\ now \in Clock /\ addr \in Addrs
  /\ event \in {"none", "wake"} \cup Reports /\ hist \in Hists
  /\ event # "none" => timer.calling # 0 /\ Waiting(timer) = {} /\ hist.request = "none"
  /\ hist.request = "none" => /\ Resting(pl) /\ hist.fails = 0
                              /\ \A i \in Waiting(timer) : WaitsFor(i) = "upper"
  /\ hist.request # "none" =>
       \/ \E i \in Waiting(timer) : /\ WaitsFor(i) # "upper"
                                    /\ Waits(pl, WaitsFor(i), hist.request)
                                    /\ Counts(pl, WaitsFor(i), hist.fails)
       \/ /\ Waiting(timer) = {} /\ hist.request = "init" /\ hist.fails = 0
          /\ pl.negotiate_state = "DONE"
  /\ hist.request = "rx" => hist.age <= pl.data_poll_timeout /\ Aged(hist.age, pl)
  /\ addr.ctx = addr.reset /\ SameAddress
  /\ hist.request = "init" => addr.pal = addr.ctx
  /\ ~hist.dropped

-----------------------------------------------------------------------------
(* The handlers                                                             *)

LEMMA ReadingFacts ==
  /\ \A r \in Registers : Readings(r) \subseteq {Blank} \cup AnyReading
  /\ \A b \in Readings("DATA_REG_LEN") : b.value \in 1 .. FullFrame + 1
  <1>1. \A r \in Registers : Readings(r) \subseteq {Blank} \cup AnyReading
    <2>1. \A r \in {"I2C_STATE", "MAX_SCL_FREQU", "DATA_REG_LEN", "DATA"} :
            Readings(r) \subseteq AnyReading
      BY DEF AnyReading
    <2>2. /\ Readings("none") = {Blank} /\ Readings("I2C_MODE") = {Blank}
          /\ Readings("SOFT_RESET") = {Blank}
      BY DEF Readings
    <2> QED BY <2>1, <2>2 DEF Registers
  <1>2. Readings("DATA_REG_LEN") = {[Blank EXCEPT !.value = v] : v \in 1 .. FullFrame + 1}
    BY DEF Readings
  <1>3. \A v \in 1 .. FullFrame + 1 : [Blank EXCEPT !.value = v].value = v
    BY DEF Blank
  <1> QED BY <1>1, <1>2, <1>3

\* What a handler may leave behind while a request of a kind is under way that
\* began at "start" and may take "limit".
Leaves(r, kind, fails, start, limit) ==
  /\ r.pl \in PLs
  /\ r.event \in {"none"} \cup Reports
  /\ r.callback \in {"none"} \cup (Callbacks \ {"upper"})
  /\ r.event # "none" =>
       /\ r.callback = "none" /\ Resting(r.pl)
       /\ r.pl.frame_state = "UNINIT" => kind = "init" /\ r.event = "ERROR"
       /\ kind = "rx" /\ r.event = "ERROR" => Elapsed(now, start) >= limit
  /\ r.event = "none" => /\ r.pl.frame_start_time = start
                         /\ r.pl.data_poll_timeout = limit
  /\ r.event = "none" /\ r.callback = "none" =>
       kind = "init" /\ r.pl.negotiate_state = "DONE" /\ fails = 0
  /\ r.callback # "none" =>
       /\ Waits(r.pl, r.callback, kind)
       /\ Counts(r.pl, r.callback, IF r.callback = "guard" THEN 0
                                   ELSE IF r.callback = "poll" THEN fails + 1 ELSE fails)

Times(p, start, limit) == p.frame_start_time = start /\ p.data_poll_timeout = limit

LEMMA TimesFacts ==
  ASSUME NEW p \in PLs
  PROVE  /\ p.frame_start_time \in Clock /\ p.data_poll_timeout \in Nat
         /\ Times(p, p.frame_start_time, p.data_poll_timeout)
  <1>1. {0} \cup Timeouts \subseteq Nat
    BY PhysicalAssumption
  <1>2. p.frame_start_time \in Clock /\ p.data_poll_timeout \in {0} \cup Timeouts
    BY DEF PLs
  <1>3. p.data_poll_timeout \in Nat
    BY <1>1, <1>2, Zenon
  <1> QED BY <1>2, <1>3 DEF Times

LEMMA ReportFacts ==
  ASSUME NEW p \in PLs, NEW kind \in Kinds, NEW fails \in Nat, NEW start, NEW limit,
         NEW state \in {"UNINIT", "READY"}, NEW e \in Reports,
         state = "UNINIT" => kind = "init" /\ e = "ERROR",
         kind = "rx" /\ e = "ERROR" => Elapsed(now, start) >= limit
  PROVE  Leaves(Report(p, state, e), kind, fails, start, limit)
  <1> DEFINE q == [Forgotten(p) EXCEPT !.frame_state = state]
  <1>1. Blank \in {Blank} \cup AnyReading /\ 0 \in Clock /\ 0 \in {0} \cup Timeouts
    BY TimerAssumption DEF Clock
  <1>2. Forgotten(p) \in PLs
    <2>1. /\ "none" \in Registers /\ "none" \in {"none", "READ", "WRITE"}
          /\ "none" \in {"none", "GET_STATUS_REG", "WRITE", "STARTUP", "INIT"}
          /\ "DONE" \in NegotiateStates
      BY DEF Registers, NegotiateStates
    <2> QED BY <1>1, <2>1 DEF Forgotten, PLs
  <1>3. q \in PLs /\ q.frame_state = state
    <2>1. state \in FrameStates
      BY DEF FrameStates
    <2> HIDE DEF Forgotten
    <2> QED BY <1>2, <2>1 DEF PLs
  <1>4. Report(p, state, e) = [pl |-> q, callback |-> "none", event |-> e]
    BY DEF Report
  <1> HIDE DEF q
  <1> QED BY <1>3, <1>4 DEF Leaves, Resting, Reports

\* An access to the bus.
LEMMA AccessFacts ==
  ASSUME NEW p \in PLs, NEW kind \in Kinds, NEW fails \in Nat, NEW start, NEW limit,
         NEW ok \in BOOLEAN, Times(p, start, limit), Doing(p, kind),
         fails + p.retry_counter <= PL_POLLING_MAX_CNT,
         ok /\ p.i2c_cmd = "READ" => p.buffer \in Readings(p.register)
  PROVE  Leaves(pal_event_handler(p, ok), kind, fails, start, limit)
  <1>1. p.retry_counter \in Nat /\ p.retry_counter \in Counter
    BY DEF PLs, Counter
  <1> DEFINE q == Decremented(p)
  <1>2. /\ q \in PLs /\ Times(q, start, limit) /\ Doing(q, kind)
        /\ p.retry_counter # 0 => q.retry_counter = p.retry_counter - 1
    BY <1>1, CounterFacts DEF Decremented, PLs, Times, Doing, Counter
  <1>3. CASE ok
    <2>1. Waits(p, "guard", kind)
      BY <1>3 DEF Waits
    <2>2. Counts(p, "guard", 0)
      BY <1>1, PhysicalAssumption DEF Counts
    <2> QED BY <1>3, <2>1, <2>2 DEF pal_event_handler, After, Leaves, Callbacks, Times, Reports
  <1>4. CASE ~ok /\ p.retry_counter # 0
    <2>1. Waits(q, "poll", kind)
      BY <1>2 DEF Waits
    <2>2. Counts(q, "poll", fails + 1)
      BY <1>1, <1>2, <1>4, PhysicalAssumption DEF Counts
    <2>3. pal_event_handler(p, ok) = [pl |-> q, callback |-> "poll", event |-> "none"]
      BY <1>4 DEF pal_event_handler, After
    <2> HIDE DEF q
    <2> QED BY <1>2, <2>1, <2>2, <2>3 DEF Leaves, Callbacks, Times, Reports
  <1>5. CASE ~ok /\ p.retry_counter = 0
    <2>1. pal_event_handler(p, ok) = Report(q, "READY", "FATAL")
      BY <1>5 DEF pal_event_handler
    <2> HIDE DEF q
    <2> QED BY <1>2, <2>1, ReportFacts DEF Reports
  <1> QED BY <1>3, <1>4, <1>5

\* A new access to a register.
LEMMA AddressedFacts ==
  ASSUME NEW p \in PLs, NEW kind \in Kinds, NEW start, NEW limit,
         NEW ok \in BOOLEAN, Times(p, start, limit),
         NEW action \in {"READ", "WRITE"}, NEW register \in Registers,
         Doing([p EXCEPT !.register_action = action, !.register = register], kind)
  PROVE  Leaves(pal_event_handler(Addressed(p, action, register), ok), kind, 0, start, limit)
  <1> DEFINE q == Addressed(p, action, register)
  <1>1. /\ q \in PLs /\ Times(q, start, limit) /\ q.i2c_cmd = "WRITE"
        /\ q.retry_counter = PL_POLLING_MAX_CNT
    BY CounterFacts DEF Addressed, PLs, Times
  <1>2. Doing(q, kind)
    BY DEF Addressed, PLs, Doing
  <1> HIDE DEF q
  <1>3. 0 + q.retry_counter <= PL_POLLING_MAX_CNT
    BY <1>1, PhysicalAssumption
  <1> QED BY <1>1, <1>2, <1>3, AccessFacts DEF q

\* The bit rate could not be set.
LEMMA BitRateFacts ==
  ASSUME NEW p \in PLs, NEW start, NEW limit, Times(p, start, limit),
         p.frame_state = "INIT", p.negotiate_state \in {"SET_FREQ_DEFAULT", "AGREE_FREQ"},
         NEW otherwise \in {"negotiation", "none"}
  PROVE  Leaves(BitRateAgain(p, otherwise), "init", 0, start, limit)
  <1> DEFINE q == Decremented(p)
             s == [q EXCEPT !.negotiate_state = "DONE"]
  <1>1. /\ q \in PLs /\ Times(q, start, limit)
        /\ q.frame_state = "INIT" /\ q.negotiate_state = p.negotiate_state
    BY CounterFacts DEF Decremented, PLs, Times
  <1> HIDE DEF q
  <1>2. /\ s \in PLs /\ Times(s, start, limit)
        /\ s.frame_state = "INIT" /\ s.negotiate_state = "DONE"
    BY <1>1 DEF PLs, Times, NegotiateStates
  <1>3. CASE p.retry_counter # 0
    <2>1. BitRateAgain(p, otherwise) = [pl |-> q, callback |-> "negotiation", event |-> "none"]
      BY <1>3 DEF BitRateAgain, After, q
    <2> QED BY <1>1, <2>1 DEF Leaves, Waits, Counts, Times, Callbacks
  <1>4. CASE p.retry_counter = 0
    <2>1. BitRateAgain(p, otherwise) = [pl |-> s, callback |-> otherwise, event |-> "none"]
      BY <1>4 DEF BitRateAgain, After, q
    <2> HIDE DEF s
    <2> QED BY <1>2, <2>1 DEF Leaves, Waits, Counts, Times, Callbacks
  <1> QED BY <1>3, <1>4

\* One step of the negotiation writes or reads a register.
LEMMA NegotiationAccess ==
  ASSUME NEW p \in PLs, NEW start, NEW limit, Times(p, start, limit), p.frame_state = "INIT",
         NEW ok \in BOOLEAN,
         NEW state \in {"SET_FREQ_REG", "READ_FREQ", "VERIFY_FREQ", "GET_DATA_REG_LEN",
                        "VERIFY_DATA_REG"},
         NEW action \in {"READ", "WRITE"}, NEW register \in Registers,
         state = "VERIFY_DATA_REG" => register = "DATA_REG_LEN" /\ action = "READ"
  PROVE  Leaves(pal_event_handler(Addressed([p EXCEPT !.negotiate_state = state], action, register), ok),
                "init", 0, start, limit)
  <1> DEFINE q == [p EXCEPT !.negotiate_state = state]
  <1>1. /\ q \in PLs /\ Times(q, start, limit)
        /\ q.frame_state = "INIT" /\ q.negotiate_state = state
    BY DEF PLs, Times, NegotiateStates
  <1> HIDE DEF q
  <1>2. Doing([q EXCEPT !.register_action = action, !.register = register], "init")
    BY <1>1 DEF Doing, PLs
  <1> QED BY <1>1, <1>2, AddressedFacts DEF q, Kinds

LEMMA NegotiationDoneFacts ==
  ASSUME NEW p \in PLs, NEW start, NEW limit, NEW e \in {"SUCCESS", "ERROR"}
  PROVE  Leaves(NegotiationDone(p, e), "init", 0, start, limit)
  BY ReportFacts DEF NegotiationDone, Reports, Kinds

LEMMA AgreeFacts ==
  ASSUME NEW p \in PLs, NEW start, NEW limit, Times(p, start, limit), p.frame_state = "INIT",
         NEW ok \in BOOLEAN, NEW rate \in BOOLEAN
  PROVE  /\ Leaves(AgreeFreq(p, ok, rate), "init", 0, start, limit)
         /\ Leaves(VerifyFreq(p, ok, rate), "init", 0, start, limit)
  <1>1. Leaves(AgreeFreq(p, ok, rate), "init", 0, start, limit)
    <2>1. CASE rate
      <3>1. "DATA_REG_LEN" \in Registers
        BY DEF Registers
      <3> QED BY <2>1, <3>1, NegotiationAccess DEF AgreeFreq, write_register
    <2>2. CASE ~rate
      <3> DEFINE q == [p EXCEPT !.negotiate_state = "AGREE_FREQ"]
      <3>1. /\ q \in PLs /\ Times(q, start, limit)
            /\ q.frame_state = "INIT" /\ q.negotiate_state = "AGREE_FREQ"
        BY DEF PLs, Times, NegotiateStates
      <3> HIDE DEF q
      <3>2. Leaves(BitRateAgain(q, "none"), "init", 0, start, limit)
        BY <3>1, BitRateFacts
      <3> QED BY <2>2, <3>2 DEF AgreeFreq, q
    <2> QED BY <2>1, <2>2
  <1>2. Leaves(NegotiationDone([p EXCEPT !.negotiate_state = "DONE"], "ERROR"),
               "init", 0, start, limit)
    <2>1. [p EXCEPT !.negotiate_state = "DONE"] \in PLs
      BY DEF PLs, NegotiateStates
    <2> QED BY <2>1, NegotiationDoneFacts
  <1> QED BY <1>1, <1>2 DEF VerifyFreq

LEMMA VerifyDataFacts ==
  ASSUME NEW p \in PLs, NEW start, NEW limit, p.buffer \in Readings("DATA_REG_LEN")
  PROVE  Leaves(VerifyDataReg(p), "init", 0, start, limit)
  <1> DEFINE q == [p EXCEPT !.negotiate_state = "DONE"]
             s == [q EXCEPT !.frame_size = p.buffer.value]
  <1>1. q \in PLs
    BY DEF PLs, NegotiateStates
  <1>2. p.frame_size >= p.buffer.value => p.buffer.value \in 1 .. FullFrame
    BY ReadingFacts, PhysicalAssumption DEF PLs
  <1> HIDE DEF q
  <1>3. p.frame_size >= p.buffer.value => s \in PLs
    BY <1>1, <1>2 DEF PLs
  <1> HIDE DEF s
  <1>4. Leaves(NegotiationDone(q, "ERROR"), "init", 0, start, limit)
    BY <1>1, NegotiationDoneFacts
  <1>5. p.frame_size >= p.buffer.value =>
          Leaves(NegotiationDone(s, "SUCCESS"), "init", 0, start, limit)
    BY <1>3, NegotiationDoneFacts
  <1> QED BY <1>4, <1>5 DEF VerifyDataReg, q, s

LEMMA NegotiationFacts ==
  ASSUME NEW p \in PLs, NEW start, NEW limit, Times(p, start, limit), p.frame_state = "INIT",
         NEW ok \in BOOLEAN, NEW rate \in BOOLEAN,
         p.negotiate_state = "VERIFY_DATA_REG" => p.buffer \in Readings("DATA_REG_LEN")
  PROVE  Leaves(negotiation_event_handler(p, ok, rate), "init", 0, start, limit)
  <1> DEFINE r == negotiation_event_handler(p, ok, rate)
  <1>0. /\ {"MAX_SCL_FREQU", "DATA_REG_LEN", "I2C_MODE"} \subseteq Registers
    BY DEF Registers
  <1>1. CASE p.negotiate_state = "SET_FREQ_DEFAULT"
    <2>1. r = SetFreqDefault(p, ok, rate)
      BY <1>1 DEF negotiation_event_handler
    <2>2. Leaves(BitRateAgain(p, "negotiation"), "init", 0, start, limit)
      BY <1>1, BitRateFacts
    <2>3. Leaves(read_register([p EXCEPT !.negotiate_state = "SET_FREQ_REG"], "MAX_SCL_FREQU", ok),
                 "init", 0, start, limit)
      BY <1>0, NegotiationAccess DEF read_register
    <2> QED BY <2>1, <2>2, <2>3 DEF SetFreqDefault
  <1>2. CASE p.negotiate_state = "SET_FREQ_REG"
    <2>1. r = SetFreqReg(p, ok, rate)
      BY <1>2 DEF negotiation_event_handler
    <2>2. Leaves(write_register([p EXCEPT !.negotiate_state = "READ_FREQ"], "I2C_MODE", ok),
                 "init", 0, start, limit)
      BY <1>0, NegotiationAccess DEF write_register
    <2>3. \/ SetFreqReg(p, ok, rate)
                = write_register([p EXCEPT !.negotiate_state = "READ_FREQ"], "I2C_MODE", ok)
          \/ SetFreqReg(p, ok, rate) = VerifyFreq(p, ok, rate)
      BY Zenon DEF SetFreqReg
    <2> QED BY <2>1, <2>2, <2>3, AgreeFacts
  <1>3. CASE p.negotiate_state = "READ_FREQ"
    <2>1. r = read_register([p EXCEPT !.negotiate_state = "VERIFY_FREQ"], "MAX_SCL_FREQU", ok)
      BY <1>3 DEF negotiation_event_handler
    <2>2. Leaves(read_register([p EXCEPT !.negotiate_state = "VERIFY_FREQ"], "MAX_SCL_FREQU", ok),
                 "init", 0, start, limit)
      BY <1>0, NegotiationAccess DEF read_register
    <2> QED BY <2>1, <2>2
  <1>4. CASE p.negotiate_state = "VERIFY_FREQ"
    BY <1>4, AgreeFacts DEF negotiation_event_handler
  <1>5. CASE p.negotiate_state = "AGREE_FREQ"
    BY <1>5, AgreeFacts DEF negotiation_event_handler
  <1>6. CASE p.negotiate_state = "GET_DATA_REG_LEN"
    <2>1. r = read_register([p EXCEPT !.negotiate_state = "VERIFY_DATA_REG"], "DATA_REG_LEN", ok)
      BY <1>6 DEF negotiation_event_handler
    <2> QED BY <1>0, <2>1, NegotiationAccess DEF read_register
  <1>7. CASE p.negotiate_state = "VERIFY_DATA_REG"
    BY <1>7, VerifyDataFacts DEF negotiation_event_handler
  <1>8. CASE p.negotiate_state = "DONE"
    BY <1>8, NegotiationDoneFacts DEF negotiation_event_handler
  <1> QED BY <1>1, <1>2, <1>3, <1>4, <1>5, <1>6, <1>7, <1>8 DEF PLs, NegotiateStates

LEMMA SoftResetFacts ==
  ASSUME NEW p \in PLs, NEW start, NEW limit, Times(p, start, limit),
         p.frame_state = "SOFT_RESET", p.negotiate_state = "SET_FREQ_DEFAULT",
         p.request_soft_reset # "none", NEW ok \in BOOLEAN, NEW rate \in BOOLEAN
  PROVE  Leaves(soft_reset(p, ok, rate), "init", 0, start, limit)
  <1> DEFINE r == soft_reset(p, ok, rate)
  <1>1. ASSUME NEW state \in {"WRITE", "STARTUP"}, NEW action \in {"READ", "WRITE"},
               NEW register \in {"I2C_STATE", "SOFT_RESET"}
        PROVE  Leaves(pal_event_handler(
                        Addressed([p EXCEPT !.request_soft_reset = state], action, register), ok),
                      "init", 0, start, limit)
    <2> DEFINE q == [p EXCEPT !.request_soft_reset = state]
    <2>1. /\ q \in PLs /\ Times(q, start, limit) /\ q.frame_state = "SOFT_RESET"
          /\ q.negotiate_state = "SET_FREQ_DEFAULT" /\ q.request_soft_reset = state
      BY DEF PLs, Times
    <2>2. register \in Registers
      BY DEF Registers
    <2> HIDE DEF q
    <2>3. Doing([q EXCEPT !.register_action = action, !.register = register], "init")
      BY <2>1 DEF Doing, PLs
    <2> QED BY <2>1, <2>2, <2>3, AddressedFacts DEF q, Kinds
  <1>2. CASE p.request_soft_reset = "GET_STATUS_REG"
    <2>1. r = read_register([p EXCEPT !.request_soft_reset = "WRITE"], "I2C_STATE", ok)
      BY <1>2 DEF soft_reset
    <2> QED BY <1>1, <2>1 DEF read_register
  <1>3. CASE p.request_soft_reset = "WRITE"
    <2>1. r = IF p.buffer.soft
                THEN write_register([p EXCEPT !.request_soft_reset = "STARTUP"], "SOFT_RESET", ok)
                ELSE Report(p, "READY", "ERROR")
      BY <1>3 DEF soft_reset
    <2>2. Leaves(Report(p, "READY", "ERROR"), "init", 0, start, limit)
      BY ReportFacts DEF Reports, Kinds
    <2> QED BY <1>1, <2>1, <2>2 DEF write_register
  <1>4. CASE p.request_soft_reset = "STARTUP"
    <2> DEFINE q == [p EXCEPT !.request_soft_reset = "INIT"]
    <2>1. /\ q \in PLs /\ Times(q, start, limit) /\ q.frame_state = "SOFT_RESET"
          /\ q.negotiate_state = "SET_FREQ_DEFAULT" /\ q.request_soft_reset = "INIT"
      BY DEF PLs, Times
    <2>2. r = [pl |-> q, callback |-> "soft_reset", event |-> "none"]
      BY <1>4 DEF soft_reset, After
    <2> HIDE DEF q
    <2> QED BY <2>1, <2>2 DEF Leaves, Waits, Counts, Times, Callbacks
  <1>5. CASE p.request_soft_reset = "INIT"
    <2> DEFINE q == [p EXCEPT !.frame_state = "INIT"]
    <2>1. /\ q \in PLs /\ Times(q, start, limit) /\ q.frame_state = "INIT"
          /\ q.negotiate_state = "SET_FREQ_DEFAULT"
      BY DEF PLs, Times, FrameStates
    <2>2. r = negotiation_event_handler(q, ok, rate)
      BY <1>5 DEF soft_reset
    <2> HIDE DEF q
    <2> QED BY <2>1, <2>2, NegotiationFacts
  <1> QED BY <1>2, <1>3, <1>4, <1>5 DEF PLs

\* The read of a frame, and the polling for it.
LEMMA ReadFrameFacts ==
  ASSUME NEW p \in PLs, NEW start, NEW limit, Times(p, start, limit), NEW ok \in BOOLEAN,
         NEW state \in {"DATA_AVAILABLE", "RXTX"}, NEW register \in {"I2C_STATE", "DATA"}
  PROVE  Leaves(read_register([p EXCEPT !.frame_state = state], register, ok),
                "rx", 0, start, limit)
  <1> DEFINE q == [p EXCEPT !.frame_state = state]
  <1>1. q \in PLs /\ Times(q, start, limit) /\ q.frame_state = state
    BY DEF PLs, Times, FrameStates
  <1>2. register \in Registers
    BY DEF Registers
  <1> HIDE DEF q
  <1>3. Doing([q EXCEPT !.register_action = "READ", !.register = register], "rx")
    BY <1>1 DEF Doing, PLs
  <1> QED BY <1>1, <1>2, <1>3, AddressedFacts DEF q, Kinds, read_register

LEMMA WriteFrameFacts ==
  ASSUME NEW p \in PLs, NEW start, NEW limit, Times(p, start, limit), NEW ok \in BOOLEAN
  PROVE  Leaves(write_register([p EXCEPT !.frame_state = "RXTX"], "DATA", ok),
                "tx", 0, start, limit)
  <1> DEFINE q == [p EXCEPT !.frame_state = "RXTX"]
  <1>1. q \in PLs /\ Times(q, start, limit) /\ q.frame_state = "RXTX"
    BY DEF PLs, Times, FrameStates
  <1>2. "DATA" \in Registers
    BY DEF Registers
  <1> HIDE DEF q
  <1>3. Doing([q EXCEPT !.register_action = "WRITE", !.register = "DATA"], "tx")
    BY <1>1 DEF Doing, PLs
  <1> QED BY <1>1, <1>2, <1>3, AddressedFacts DEF q, Kinds, write_register

LEMMA DataAvailableFacts ==
  ASSUME NEW p \in PLs, NEW start \in Clock, NEW limit \in Nat, Times(p, start, limit),
         p.frame_state = "DATA_AVAILABLE", NEW ok \in BOOLEAN,
         now \in Clock
  PROVE  Leaves(DataAvailable(p, ok), "rx", 0, start, limit)
  <1>1. Leaves(read_register([p EXCEPT !.frame_state = "RXTX"], "DATA", ok), "rx", 0, start, limit)
    BY ReadFrameFacts
  <1>2. Leaves(After(p, "status_poll"), "rx", 0, start, limit)
    BY DEF After, Leaves, Waits, Counts, Times, Callbacks
  <1>3. time_stamp_diff(p) = Elapsed(now, start)
    BY DEF time_stamp_diff, Times
  <1>4. Elapsed(now, start) >= limit => Leaves(Report(p, "READY", "ERROR"), "rx", 0, start, limit)
    BY ReportFacts DEF Reports, Kinds
  <1>5. Elapsed(now, start) < limit \/ Elapsed(now, start) >= limit
    BY ElapsedFacts
  <1>6. Leaves(PollAgain(p), "rx", 0, start, limit)
    BY <1>2, <1>3, <1>4, <1>5 DEF PollAgain, Times
  <1> QED BY <1>1, <1>6 DEF DataAvailable

\* Whatever the access was for: a complete access is followed by the next one,
\* by a timer or by the answer to the request.
LEMMA FrameFacts ==
  ASSUME NEW p \in PLs, NEW start \in Clock, NEW limit \in Nat, Times(p, start, limit),
         NEW kind \in Kinds, Doing(p, kind), now \in Clock,
         p.register_action = "WRITE" \/ p.i2c_cmd = "READ",
         p.i2c_cmd = "READ" => p.buffer \in Readings(p.register),
         NEW ok \in BOOLEAN, NEW rate \in BOOLEAN
  PROVE  Leaves(frame_event_handler(p, ok, rate), kind, 0, start, limit)
  <1> DEFINE r == frame_event_handler(p, ok, rate)
  <1>1. CASE p.frame_state = "SOFT_RESET"
    <2>1. /\ kind = "init" /\ p.request_soft_reset # "none"
          /\ p.negotiate_state = "SET_FREQ_DEFAULT"
      BY <1>1 DEF Doing
    <2>2. r = soft_reset(p, ok, rate)
      BY <1>1 DEF frame_event_handler
    <2> QED BY <1>1, <2>1, <2>2, SoftResetFacts
  <1>2. CASE p.frame_state = "INIT"
    <2>1. /\ kind = "init"
          /\ p.negotiate_state = "VERIFY_DATA_REG" => p.buffer \in Readings("DATA_REG_LEN")
      BY <1>2 DEF Doing
    <2>2. r = negotiation_event_handler(p, ok, rate)
      BY <1>2 DEF frame_event_handler
    <2> QED BY <1>2, <2>1, <2>2, NegotiationFacts
  <1>3. CASE p.frame_state = "DATA_AVAILABLE"
    <2>1. kind = "rx"
      BY <1>3 DEF Doing
    <2>2. r = DataAvailable(p, ok)
      BY <1>3 DEF frame_event_handler
    <2> QED BY <1>3, <2>1, <2>2, DataAvailableFacts
  <1>4. CASE p.frame_state = "RXTX"
    <2>1. r = Report(p, "READY", "SUCCESS")
      BY <1>4 DEF frame_event_handler
    <2> QED BY <2>1, ReportFacts DEF Reports
  <1> QED BY <1>1, <1>2, <1>3, <1>4 DEF Doing

-----------------------------------------------------------------------------
(* What a step is for the layer above                                       *)

Served == [Service!Next]_(Service!vars)
Patient ==
  (hist.request = "rx" /\ event' = "ERROR" /\ event # "ERROR") => hist.age = pl.data_poll_timeout
Keeps == Served /\ Patient

\* Under the invariant a negotiation has stalled when nothing waits.
LEMMA StalledFacts ==
  PInv => (Stalled <=> hist.request # "none" /\ Waiting(timer) = {})
  <1> SUFFICES ASSUME PInv
               PROVE  Stalled <=> hist.request # "none" /\ Waiting(timer) = {}
    OBVIOUS
  <1>1. CASE hist.request = "none"
    BY <1>1 DEF Stalled
  <1>2. CASE hist.request # "none"
    <2>1. CASE Waiting(timer) = {}
      BY <1>2, <2>1 DEF Stalled, PInv
    <2>2. CASE Waiting(timer) # {}
      <3>1. PICK i \in Waiting(timer) : WaitsFor(i) # "upper"
        BY <1>2, <2>2 DEF PInv
      <3> QED BY <2>2, <3>1 DEF Stalled, WaitsFor
    <2> QED BY <1>2, <2>1, <2>2
  <1> QED BY <1>1, <1>2

LEMMA StalledAfter ==
  (PInv => (Stalled <=> hist.request # "none" /\ Waiting(timer) = {}))'
  BY StalledFacts, PTL

LEMMA ServiceStutter ==
  ASSUME Stalled' <=> Stalled, UNCHANGED <<hist.request, hist.reported>>,
         hist.request = "none" => pl'.frame_state = pl.frame_state
  PROVE  Served
  <1>1. /\ (IF Stalled THEN "stalled" ELSE hist.request)'
             = IF Stalled THEN "stalled" ELSE hist.request
        /\ hist'.reported = hist.reported
    OBVIOUS
  <1>2. (hist'.request = "none" /\ pl'.frame_state = "READY")
          = (hist.request = "none" /\ pl.frame_state = "READY")
    <2>1. hist'.request = hist.request
      OBVIOUS
    <2>2. CASE hist.request = "none"
      BY <2>1, <2>2
    <2>3. CASE hist.request # "none"
      BY <2>1, <2>3
    <2> QED BY <2>2, <2>3
  <1> QED BY <1>1, <1>2 DEF Served, Service!vars

LEMMA ServiceStart ==
  ASSUME ~Stalled, ~Stalled', hist.request = "none", NEW kind \in Kinds,
         kind # "init" => pl.frame_state = "READY",
         hist'.request = kind, hist'.reported = "none"
  PROVE  Served
  <1>1. (hist'.request = "none" /\ pl'.frame_state = "READY") = FALSE
    BY DEF Kinds
  <1>2. CASE kind = "init"
    <2>1. Service!Open
      BY <1>1, <1>2 DEF Service!Open
    <2> QED BY <2>1 DEF Served, Service!Next
  <1>3. CASE kind \in {"tx", "rx"}
    <2>1. Service!Transfer
      BY <1>1, <1>3 DEF Service!Transfer
    <2> QED BY <2>1 DEF Served, Service!Next
  <1> QED BY <1>2, <1>3 DEF Kinds

LEMMA ServiceAnswer ==
  ASSUME ~Stalled, ~Stalled', hist.request \in Kinds, hist'.request = "none",
         hist'.reported \in Reports,
         pl'.frame_state # "READY" => hist.request = "init" /\ hist'.reported = "ERROR"
  PROVE  Served
  <1>1. (hist'.request = "none" /\ pl'.frame_state = "READY") \in BOOLEAN
    OBVIOUS
  <1>2. Service!Answer
    BY <1>1 DEF Service!Answer, Kinds, Reports
  <1> QED BY <1>2 DEF Served, Service!Next

LEMMA ServiceStall ==
  ASSUME ~Stalled, Stalled', hist.request = "init", hist'.request = "init",
         hist'.reported = hist.reported
  PROVE  Served
  <1>1. (hist'.request = "none" /\ pl'.frame_state = "READY")
          = (hist.request = "none" /\ pl.frame_state = "READY")
    OBVIOUS
  <1>2. Service!Stall
    BY <1>1 DEF Service!Stall
  <1> QED BY <1>2 DEF Served, Service!Next

\* A step that leaves the request and its timer alone.
LEMMA QuietFacts ==
  ASSUME PInv, PInv', UNCHANGED <<hist.request, hist.reported>>,
         hist.request = "none" => pl'.frame_state = pl.frame_state,
         hist.request = "none" \/ Waiting(timer') = Waiting(timer),
         hist.request = "none" \/ event' # "ERROR" \/ event = "ERROR"
  PROVE  Keeps
  <1>1. Stalled <=> hist.request # "none" /\ Waiting(timer) = {}
    BY StalledFacts
  <1>2. Stalled' <=> hist'.request # "none" /\ Waiting(timer') = {}
    BY StalledAfter
  <1>3. Served
    BY <1>1, <1>2, ServiceStutter
  <1> QED BY <1>3 DEF Keeps, Patient

-----------------------------------------------------------------------------
(* The steps                                                                *)

LEMMA NotedFacts ==
  ASSUME NEW h \in Hists, NEW r, NEW t, NEW kind, NEW start, NEW limit,
         Leaves(r, kind, h.fails, start, limit)
  PROVE  /\ Noted(h, r, t) \in Hists
         /\ Noted(h, r, t).strayed = h.strayed
         /\ r.event = "none" => /\ Noted(h, r, t).request = h.request
                                /\ Noted(h, r, t).age = h.age
                                /\ Noted(h, r, t).reported = h.reported
         /\ r.event # "none" => /\ Noted(h, r, t).request = "none" /\ Noted(h, r, t).fails = 0
                                /\ Noted(h, r, t).reported = r.event
         /\ r.event = "none" /\ r.callback = "none" => Noted(h, r, t).fails = 0
         /\ r.callback # "none" => Counts(r.pl, r.callback, Noted(h, r, t).fails)
         /\ ~h.dropped /\ (r.callback # "none" => FreeSlots(t) # {}) => ~Noted(h, r, t).dropped
  <1> DEFINE n == Noted(h, r, t)
             fails == IF r.callback = "guard" \/ r.event # "none" THEN 0
                      ELSE IF r.callback = "poll" THEN h.fails + 1 ELSE h.fails
             dropped == h.dropped \/ (r.callback # "none" /\ FreeSlots(t) = {})
  <1>1. /\ n.request = (IF r.event = "none" THEN h.request ELSE "none")
        /\ n.reported = (IF r.event = "none" THEN h.reported ELSE r.event)
        /\ n.age = (IF r.event = "none" THEN h.age ELSE 0)
        /\ n.fails = fails /\ n.dropped = dropped /\ n.strayed = h.strayed
        /\ n = [request |-> n.request, reported |-> n.reported, fails |-> n.fails,
                age |-> n.age, dropped |-> n.dropped, strayed |-> n.strayed]
    <2>1. n = [h EXCEPT !.request = IF r.event = "none" THEN h.request ELSE "none",
                        !.reported = IF r.event = "none" THEN h.reported ELSE r.event,
                        !.dropped = dropped,
                        !.age = IF r.event = "none" THEN h.age ELSE 0,
                        !.fails = fails]
      BY Zenon DEF Noted
    <2> HIDE DEF n, dropped, fails
    <2> QED BY <2>1 DEF Hists
  <1> HIDE DEF n, dropped
  <1>2. n.dropped \in BOOLEAN
    BY <1>1, Zenon DEF dropped
  <1>3. fails \in Nat
    BY DEF Hists
  <1>4. n \in Hists
    BY <1>1, <1>2, <1>3 DEF Hists, Leaves
  <1>5. r.event # "none" => r.callback = "none"
    BY DEF Leaves
  <1>6. r.callback # "none" => Counts(r.pl, r.callback, fails)
    BY <1>5 DEF Leaves
  <1>7. ~h.dropped /\ (r.callback # "none" => FreeSlots(t) # {}) => ~n.dropped
    BY <1>1, Zenon DEF dropped
  <1> QED BY <1>1, <1>4, <1>5, <1>6, <1>7 DEF Leaves, n

\* The timer a handler has registered is the only one that waits.
LEMMA EffectFacts ==
  ASSUME NEW r, NEW t, NEW kind, NEW fails, NEW start, NEW limit,
         Sound(t), Waiting(t) = {}, now \in Clock,
         Leaves(r, kind, fails, start, limit), Effect(r, t)
  PROVE  /\ Sound(timer') /\ timer'.calling = t.calling
         /\ r.callback = "none" => Waiting(timer') = {}
         /\ r.callback # "none" =>
              /\ FreeSlots(t) # {}
              /\ \E i \in Waiting(timer') : timer'.slots[i].callback = r.callback
  <1>1. CASE r.callback = "none"
    BY <1>1 DEF Effect
  <1>2. CASE r.callback # "none"
    <2> DEFINE d == Delay[r.callback]
               u == setTimer(t, r.callback, d, now)
    <2>1. r.callback \in Callbacks /\ d \in Nat
      BY <1>2, PhysicalAssumption DEF Leaves
    <2>2. timer' = u
      BY <1>2 DEF Effect
    <2>3. /\ FreeSlots(t) # {} /\ Sound(u) /\ u.calling = t.calling
          /\ \E i \in Slots : Waiting(u) = {i} /\ u.slots[i].callback = r.callback
      BY <2>1, SetTimerFacts
    <2> HIDE DEF u
    <2> QED BY <1>2, <2>2, <2>3
  <1> QED BY <1>1, <1>2

\* A callback of the layer comes while its request is under way, and nothing
\* else waits then.
LEMMA DispatchFacts ==
  ASSUME PInv, NEW callback \in Callbacks \ {"upper"}, Dispatch(callback)
  PROVE  /\ hist.request \in Kinds /\ hist \in Hists /\ event = "none"
         /\ Waits(pl, callback, hist.request) /\ Counts(pl, callback, hist.fails)
         /\ Sound(Called(timer)) /\ Waiting(Called(timer)) = {} /\ Called(timer).calling # 0
         /\ Waiting(timer) # {}
  <1> DEFINE i == Next_called(timer)
  <1>1. /\ timer.calling = 0 /\ timer.toBeCalled # {} /\ WaitsFor(i) = callback
        /\ Sound(timer)
    BY DEF Dispatch, PInv, WaitsFor
  <1>2. /\ Sound(Called(timer)) /\ Waiting(Called(timer)) = {} /\ Called(timer).calling # 0
        /\ i \in Waiting(timer) /\ Waiting(timer) = {i}
    BY <1>1, CalledFacts
  <1> HIDE DEF i
  <1>3. event = "none" /\ hist \in Hists
    BY <1>1 DEF PInv
  <1>4. hist.request # "none"
    BY <1>1, <1>2 DEF PInv
  <1>5. Waits(pl, callback, hist.request) /\ Counts(pl, callback, hist.fails)
    BY <1>1, <1>2, <1>4 DEF PInv
  <1> QED BY <1>2, <1>3, <1>4, <1>5 DEF Hists

\* A handler leaves the invariant behind.
LEMMA HandlesStep ==
  ASSUME PInv, NEW r, NEW t,
         Sound(t), Waiting(t) = {}, t.calling # 0, hist.request \in Kinds,
         Leaves(r, hist.request, hist.fails, pl.frame_start_time, pl.data_poll_timeout),
         Effect(r, t), hist' = Noted(hist, r, t), Waiting(timer) # {},
         addr' \in Addrs, addr'.ctx = addr'.reset, addr'.pal = addr'.device \/ hist.strayed,
         hist.request = "init" => addr'.pal = addr'.ctx
  PROVE  PInv' /\ Keeps
  <1>1. hist \in Hists /\ now \in Clock /\ ~hist.dropped
    BY DEF PInv
  <1>2. pl' = r.pl /\ event' = r.event /\ now' = now
    BY DEF Effect
  <1>3. /\ Sound(timer') /\ timer'.calling # 0
        /\ r.callback = "none" => Waiting(timer') = {}
        /\ r.callback # "none" =>
              /\ FreeSlots(t) # {}
              /\ \E i \in Waiting(timer') : timer'.slots[i].callback = r.callback
    BY <1>1, EffectFacts
  <1>4. /\ hist' \in Hists /\ hist'.strayed = hist.strayed /\ ~hist'.dropped
        /\ r.event = "none" => /\ hist'.request = hist.request /\ hist'.age = hist.age
                               /\ hist'.reported = hist.reported
        /\ r.event # "none" => /\ hist'.request = "none" /\ hist'.fails = 0
                               /\ hist'.reported = r.event
        /\ r.event = "none" /\ r.callback = "none" => hist'.fails = 0
        /\ r.callback # "none" => Counts(r.pl, r.callback, hist'.fails)
    <2> DEFINE n == Noted(hist, r, t)
    <2>1. /\ n \in Hists /\ n.strayed = hist.strayed
          /\ r.event = "none" /\ r.callback = "none" => n.fails = 0
      BY <1>1, NotedFacts
    <2>2. r.event = "none" => /\ n.request = hist.request /\ n.age = hist.age
                              /\ n.reported = hist.reported
      BY <1>1 DEF Noted, Hists
    <2>3. r.event # "none" => n.request = "none" /\ n.fails = 0 /\ n.reported = r.event
      BY <1>1, NotedFacts
    <2>4. r.callback # "none" => Counts(r.pl, r.callback, n.fails)
      BY <1>1, NotedFacts, Zenon
    <2>5. ~n.dropped
      BY <1>1, <1>3, NotedFacts
    <2> QED BY <2>1, <2>2, <2>3, <2>4, <2>5
  <1>5. /\ pl' \in PLs /\ event' \in {"none", "wake"} \cup Reports
        /\ r.callback # "none" => r.event = "none" /\ r.callback # "upper"
        /\ r.event # "none" => r.callback = "none"
    BY <1>2 DEF Leaves
  <1>6. ~Stalled
    BY StalledFacts
  <1>7. CASE r.event # "none"
    <2>1. Waiting(timer') = {} /\ hist'.request = "none" /\ hist'.fails = 0 /\ Resting(pl')
      BY <1>2, <1>3, <1>4, <1>5, <1>7 DEF Leaves
    <2>2. PInv'
      BY <1>1, <1>2, <1>3, <1>4, <1>5, <2>1 DEF PInv, SameAddress, WaitsFor
    <2>3. ~Stalled /\ ~Stalled'
      BY <2>1, StalledFacts, <1>6 DEF Stalled
    <2>4. /\ hist'.reported \in Reports
          /\ pl'.frame_state # "READY" => hist.request = "init" /\ hist'.reported = "ERROR"
      BY <1>2, <1>4, <1>7 DEF Leaves, Resting
    <2>5. Served
      BY <2>1, <2>3, <2>4, ServiceAnswer
    <2>6. Patient
      <3>1. ASSUME hist.request = "rx", r.event = "ERROR"
            PROVE  hist.age = pl.data_poll_timeout
        <4>1. Elapsed(now, pl.frame_start_time) >= pl.data_poll_timeout
          BY <1>7, <3>1 DEF Leaves
        <4>2. /\ pl.data_poll_timeout \in Nat /\ hist.age \in Nat
              /\ Elapsed(now, pl.frame_start_time) \in Nat
          BY <1>1, TimesFacts, ElapsedFacts DEF PInv, Hists
        <4>3. hist.age <= pl.data_poll_timeout /\ Aged(hist.age, pl)
          BY <3>1 DEF PInv
        <4> QED BY <4>1, <4>2, <4>3 DEF Aged
      <3> QED BY <1>2, <3>1 DEF Patient
    <2> QED BY <2>2, <2>5, <2>6 DEF Keeps
  <1>8. CASE r.event = "none"
    <2>1. hist'.request = hist.request /\ hist'.request # "none"
      BY <1>4, <1>8 DEF Kinds
    <2>2. hist'.request = "rx" => hist'.age <= pl'.data_poll_timeout /\ Aged(hist.age, pl)'
      BY <1>2, <1>4, <1>8, <2>1 DEF PInv, Aged, Leaves
    <2>3. \/ \E i \in Waiting(timer') : /\ timer'.slots[i].callback # "upper"
                                        /\ Waits(pl', timer'.slots[i].callback, hist'.request)
                                        /\ Counts(pl', timer'.slots[i].callback, hist'.fails)
          \/ /\ Waiting(timer') = {} /\ hist'.request = "init" /\ hist'.fails = 0
             /\ pl'.negotiate_state = "DONE"
      <3>1. CASE r.callback # "none"
        <4>1. PICK i \in Waiting(timer') : timer'.slots[i].callback = r.callback
          BY <1>3, <3>1
        <4>2. Waits(pl', r.callback, hist'.request)
          BY <1>2, <2>1, <3>1 DEF Leaves
        <4> QED BY <1>2, <1>4, <1>5, <3>1, <4>1, <4>2
      <3>2. CASE r.callback = "none"
        BY <1>2, <1>3, <1>4, <1>8, <2>1, <3>2 DEF Leaves
      <3> QED BY <3>1, <3>2
    <2>4. PInv'
      BY <1>1, <1>2, <1>3, <1>4, <1>5, <1>8, <2>1, <2>2, <2>3 DEF PInv, SameAddress, WaitsFor
    <2>5. Stalled' <=> Waiting(timer') = {}
      BY <2>1, <2>4, StalledAfter
    <2>6. CASE Waiting(timer') = {}
      <3>1. hist.request = "init"
        BY <2>1, <2>3, <2>6
      <3>2. Served
        BY <1>4, <1>8, <1>6, <2>1, <2>5, <2>6, <3>1, ServiceStall
      <3> QED BY <1>2, <1>8, <2>4, <3>2 DEF Keeps, Patient
    <2>7. CASE Waiting(timer') # {}
      <3>1. Served
        BY <1>4, <1>8, <1>6, <2>1, <2>5, <2>7, ServiceStutter
      <3> QED BY <1>2, <1>8, <2>4, <3>1 DEF Keeps, Patient
    <2> QED BY <2>4, <2>6, <2>7
  <1> QED BY <1>7, <1>8

\* The same for a callback that has nothing to do with the addresses.
LEMMA CallbackStep ==
  ASSUME PInv, NEW callback \in Callbacks \ {"upper"}, Dispatch(callback), NEW r,
         Leaves(r, hist.request, hist.fails, pl.frame_start_time, pl.data_poll_timeout),
         Handles(r), UNCHANGED addr
  PROVE  PInv' /\ Keeps
  <1>1. /\ hist.request \in Kinds
        /\ Sound(Called(timer)) /\ Waiting(Called(timer)) = {} /\ Called(timer).calling # 0
        /\ Waiting(timer) # {}
    BY DispatchFacts
  <1>2. /\ addr' \in Addrs /\ addr'.ctx = addr'.reset
        /\ addr'.pal = addr'.device \/ hist.strayed
        /\ hist.request = "init" => addr'.pal = addr'.ctx
    BY DEF PInv, SameAddress
  <1>3. Effect(r, Called(timer)) /\ hist' = Noted(hist, r, Called(timer))
    BY DEF Handles
  <1> QED BY <1>1, <1>2, <1>3, HandlesStep

LEMMA PollStep ==
  ASSUME PInv, NEW ok \in BOOLEAN, NEW reading, PollCallback(ok, reading)
  PROVE  PInv' /\ Keeps
  <1> DEFINE p == [pl EXCEPT !.buffer = reading]
  <1>1. /\ Dispatch("poll") /\ UNCHANGED addr /\ Handles(pal_event_handler(p, ok))
        /\ reading \in IF pl.i2c_cmd = "READ" /\ ok THEN Readings(pl.register) ELSE {Blank}
    BY DEF PollCallback
  <1>2. "poll" \in Callbacks \ {"upper"}
    BY DEF Callbacks
  <1>3. hist.request \in Kinds /\ hist.fails \in Nat /\ pl \in PLs
    BY <1>1, <1>2, DispatchFacts DEF Hists, PInv
  <1>4. Doing(pl, hist.request) /\ hist.fails + pl.retry_counter <= PL_POLLING_MAX_CNT
    BY <1>1, <1>2, DispatchFacts DEF Waits, Counts
  <1>5. reading \in {Blank} \cup AnyReading
    BY <1>1, <1>3, ReadingFacts DEF PLs
  <1>6. /\ p \in PLs /\ Times(p, pl.frame_start_time, pl.data_poll_timeout)
        /\ Doing(p, hist.request) /\ p.retry_counter = pl.retry_counter
        /\ ok /\ p.i2c_cmd = "READ" => p.buffer \in Readings(p.register)
    BY <1>1, <1>3, <1>4, <1>5 DEF PLs, Times, Doing
  <1> HIDE DEF p
  <1>7. Leaves(pal_event_handler(p, ok), hist.request, hist.fails,
               pl.frame_start_time, pl.data_poll_timeout)
    BY <1>3, <1>4, <1>6, AccessFacts
  <1> QED BY <1>1, <1>2, <1>7, CallbackStep

LEMMA GuardReadStep ==
  ASSUME PInv, NEW ok \in BOOLEAN, NEW reading, GuardTimeRead(ok, reading)
  PROVE  PInv' /\ Keeps
  <1> DEFINE p == [pl EXCEPT !.i2c_cmd = "READ", !.buffer = reading]
  <1>1. /\ Dispatch("guard") /\ UNCHANGED addr /\ Handles(pal_event_handler(p, ok))
        /\ reading \in IF ok THEN Readings(pl.register) ELSE {Blank}
    BY DEF GuardTimeRead
  <1>2. "guard" \in Callbacks \ {"upper"}
    BY DEF Callbacks
  <1>3. hist.request \in Kinds /\ hist.fails \in Nat /\ pl \in PLs
    BY <1>1, <1>2, DispatchFacts DEF Hists, PInv
  <1>4. Doing(pl, hist.request) /\ hist.fails + pl.retry_counter <= PL_POLLING_MAX_CNT
    BY <1>1, <1>2, DispatchFacts DEF Waits, Counts
  <1>5. reading \in {Blank} \cup AnyReading
    BY <1>1, <1>3, ReadingFacts DEF PLs
  <1>6. /\ p \in PLs /\ Times(p, pl.frame_start_time, pl.data_poll_timeout)
        /\ Doing(p, hist.request) /\ p.retry_counter = pl.retry_counter
        /\ ok /\ p.i2c_cmd = "READ" => p.buffer \in Readings(p.register)
    <2>1. /\ p \in PLs /\ p.register = pl.register /\ p.buffer = reading
          /\ Times(p, pl.frame_start_time, pl.data_poll_timeout)
          /\ p.retry_counter = pl.retry_counter
      BY <1>3, <1>5 DEF PLs, Times
    <2>2. Doing(p, hist.request)
      BY <1>3, <1>4 DEF Doing, PLs
    <2> HIDE DEF p
    <2> QED BY <1>1, <2>1, <2>2
  <1> HIDE DEF p
  <1>7. Leaves(pal_event_handler(p, ok), hist.request, hist.fails,
               pl.frame_start_time, pl.data_poll_timeout)
    BY <1>3, <1>4, <1>6, AccessFacts
  <1> QED BY <1>1, <1>2, <1>7, CallbackStep

\* A soft reset gives the device the address the host has gone back to.
LEMMA GuardDoneStep ==
  ASSUME PInv, NEW ok \in BOOLEAN, NEW rate \in BOOLEAN, GuardTimeDone(ok, rate)
  PROVE  PInv' /\ Keeps
  <1> DEFINE r == frame_event_handler(pl, ok, rate)
  <1>1. /\ Dispatch("guard") /\ Handles(r)
        /\ pl.register_action = "WRITE" \/ pl.i2c_cmd = "READ"
        /\ addr' = IF pl.register = "SOFT_RESET" THEN [addr EXCEPT !.device = addr.reset] ELSE addr
    BY DEF GuardTimeDone
  <1>2. "guard" \in Callbacks \ {"upper"}
    BY DEF Callbacks
  <1>3. /\ hist.request \in Kinds /\ pl \in PLs /\ now \in Clock /\ addr \in Addrs
        /\ Sound(Called(timer)) /\ Waiting(Called(timer)) = {} /\ Called(timer).calling # 0
        /\ Waiting(timer) # {}
    BY <1>1, <1>2, DispatchFacts DEF PInv
  <1>4. /\ Doing(pl, hist.request) /\ hist.fails = 0
        /\ pl.i2c_cmd = "READ" => pl.buffer \in Readings(pl.register)
    BY <1>1, <1>2, DispatchFacts DEF Waits, Counts
  <1>5. /\ pl.frame_start_time \in Clock /\ pl.data_poll_timeout \in Nat
        /\ Times(pl, pl.frame_start_time, pl.data_poll_timeout)
    BY <1>3, TimesFacts
  <1> HIDE DEF r
  <1>6. Leaves(r, hist.request, hist.fails, pl.frame_start_time, pl.data_poll_timeout)
    BY <1>1, <1>3, <1>4, <1>5, FrameFacts DEF r
  <1>7. pl.register = "SOFT_RESET" => hist.request = "init"
    BY <1>4 DEF Doing
  <1>8. /\ addr' \in Addrs /\ addr'.ctx = addr'.reset
        /\ addr'.pal = addr'.device \/ hist.strayed
        /\ hist.request = "init" => addr'.pal = addr'.ctx
    BY <1>1, <1>3, <1>7 DEF PInv, SameAddress, Addrs
  <1>9. Effect(r, Called(timer)) /\ hist' = Noted(hist, r, Called(timer))
    BY <1>1 DEF Handles
  <1> QED BY <1>3, <1>6, <1>8, <1>9, HandlesStep

LEMMA StatusPollStep ==
  ASSUME PInv, NEW ok \in BOOLEAN, StatusPollCallback(ok)
  PROVE  PInv' /\ Keeps
  <1> DEFINE r == read_register(pl, "I2C_STATE", ok)
  <1>1. Dispatch("status_poll") /\ UNCHANGED addr /\ Handles(r)
    BY DEF StatusPollCallback
  <1>2. "status_poll" \in Callbacks \ {"upper"}
    BY DEF Callbacks
  <1>3. hist.request = "rx" /\ pl.frame_state = "DATA_AVAILABLE" /\ hist.fails = 0 /\ pl \in PLs
    BY <1>1, <1>2, DispatchFacts DEF Waits, Counts, PInv
  <1>4. Doing([pl EXCEPT !.register_action = "READ", !.register = "I2C_STATE"], "rx")
    BY <1>3 DEF Doing, PLs
  <1>5. "I2C_STATE" \in Registers /\ "rx" \in Kinds
        /\ Times(pl, pl.frame_start_time, pl.data_poll_timeout)
    BY DEF Registers, Kinds, Times
  <1>6. Leaves(r, "rx", 0, pl.frame_start_time, pl.data_poll_timeout)
    BY <1>3, <1>4, <1>5, AddressedFacts DEF read_register
  <1> HIDE DEF r
  <1> QED BY <1>1, <1>2, <1>3, <1>6, CallbackStep

LEMMA NegotiationStep ==
  ASSUME PInv, NEW ok \in BOOLEAN, NEW rate \in BOOLEAN, NegotiationCallback(ok, rate)
  PROVE  PInv' /\ Keeps
  <1> DEFINE r == negotiation_event_handler(pl, ok, rate)
  <1>1. Dispatch("negotiation") /\ UNCHANGED addr /\ Handles(r)
    BY DEF NegotiationCallback
  <1>2. "negotiation" \in Callbacks \ {"upper"}
    BY DEF Callbacks
  <1>3. /\ hist.request = "init" /\ pl.frame_state = "INIT" /\ hist.fails = 0 /\ pl \in PLs
        /\ pl.negotiate_state # "VERIFY_DATA_REG"
    BY <1>1, <1>2, DispatchFacts DEF Waits, Counts, PInv
  <1>4. Leaves(r, "init", 0, pl.frame_start_time, pl.data_poll_timeout)
    BY <1>3, NegotiationFacts DEF Times
  <1> HIDE DEF r
  <1> QED BY <1>1, <1>2, <1>3, <1>4, CallbackStep

LEMMA SoftResetStep ==
  ASSUME PInv, NEW ok \in BOOLEAN, NEW rate \in BOOLEAN, SoftResetCallback(ok, rate)
  PROVE  PInv' /\ Keeps
  <1> DEFINE r == soft_reset(pl, ok, rate)
  <1>1. Dispatch("soft_reset") /\ UNCHANGED addr /\ Handles(r)
    BY DEF SoftResetCallback
  <1>2. "soft_reset" \in Callbacks \ {"upper"}
    BY DEF Callbacks
  <1>3. /\ hist.request = "init" /\ pl.frame_state = "SOFT_RESET" /\ hist.fails = 0 /\ pl \in PLs
        /\ pl.negotiate_state = "SET_FREQ_DEFAULT" /\ pl.request_soft_reset # "none"
    BY <1>1, <1>2, DispatchFacts DEF Waits, Counts, PInv
  <1>4. Leaves(r, "init", 0, pl.frame_start_time, pl.data_poll_timeout)
    BY <1>3, SoftResetFacts DEF Times
  <1> HIDE DEF r
  <1> QED BY <1>1, <1>2, <1>3, <1>4, CallbackStep

-----------------------------------------------------------------------------
(* The layer above                                                          *)

\* A request is never answered before its function returns.
Starts(r) == r.event = "none" /\ r.callback # "none"

LEMMA AddressedStarts ==
  ASSUME NEW p \in PLs, NEW action, NEW register, NEW ok \in BOOLEAN
  PROVE  Starts(pal_event_handler(Addressed(p, action, register), ok))
  <1> DEFINE q == Addressed(p, action, register)
  <1>1. q.retry_counter # 0
    BY PhysicalAssumption DEF Addressed, PLs
  <1> HIDE DEF q
  <1>2. Starts(pal_event_handler(q, ok))
    BY <1>1 DEF Starts, pal_event_handler, After
  <1> QED BY <1>2 DEF q

LEMMA StartStep ==
  ASSUME PInv, event # "none", hist.request = "none", NEW kind \in Kinds, NEW r,
         NEW start \in Clock, NEW limit \in Nat, Leaves(r, kind, 0, start, limit), Starts(r),
         kind = "rx" => start = now, kind # "init" => pl.frame_state = "READY",
         Effect(r, timer), NEW strayed \in BOOLEAN,
         hist' = [Requested(r, kind) EXCEPT !.strayed = strayed],
         addr' \in Addrs, addr'.ctx = addr'.reset, addr'.pal = addr'.device \/ strayed,
         kind = "init" => addr'.pal = addr'.ctx
  PROVE  PInv' /\ Keeps
  <1>1. /\ hist \in Hists /\ now \in Clock /\ ~hist.dropped /\ hist.fails = 0
        /\ Sound(timer) /\ Waiting(timer) = {} /\ timer.calling # 0
    BY DEF PInv
  <1>2. pl' = r.pl /\ event' = "none" /\ now' = now
    BY DEF Effect, Starts
  <1>3. /\ Sound(timer') /\ timer'.calling # 0 /\ FreeSlots(timer) # {}
        /\ \E i \in Waiting(timer') : timer'.slots[i].callback = r.callback
    BY <1>1, EffectFacts DEF Starts
  <1> DEFINE n == Noted(hist, r, timer)
  <1>4. n \in Hists /\ ~n.dropped /\ Counts(r.pl, r.callback, n.fails)
    BY <1>1, <1>3, NotedFacts DEF Starts
  <1> HIDE DEF n
  <1>5. /\ hist' \in Hists /\ hist'.request = kind /\ hist'.age = 0 /\ ~hist'.dropped
        /\ hist'.fails = n.fails /\ hist'.strayed = strayed /\ hist'.reported = "none"
    <2> DEFINE m == [n EXCEPT !.request = kind, !.reported = "none", !.age = 0]
    <2>1. /\ m \in Hists /\ m.request = kind /\ m.age = 0 /\ m.dropped = n.dropped
          /\ m.fails = n.fails /\ m.reported = "none"
      BY <1>4 DEF Hists
    <2>2. hist' = [m EXCEPT !.strayed = strayed]
      BY DEF Requested, n
    <2> HIDE DEF m
    <2> QED BY <1>4, <2>1, <2>2 DEF Hists
  <1>6. /\ pl' \in PLs /\ Waits(pl', r.callback, kind) /\ r.callback # "upper"
        /\ pl'.frame_start_time = start /\ pl'.data_poll_timeout = limit
    BY <1>2 DEF Leaves, Starts
  <1>7. PICK i \in Waiting(timer') : timer'.slots[i].callback = r.callback
    BY <1>3
  <1>8. kind = "rx" => Aged(hist.age, pl)'
    <2>1. Elapsed(start, start) = 0
      BY ElapsedFacts, TimerAssumption DEF Clock
    <2> QED BY <1>2, <1>5, <1>6, <2>1 DEF Aged
  <1>9. hist'.request # "none" /\ hist'.age <= pl'.data_poll_timeout
    BY <1>5, <1>6 DEF Kinds
  <1>10. Counts(pl', r.callback, hist'.fails)
    BY <1>2, <1>4, <1>5
  <1>11. PInv'
    BY <1>1, <1>2, <1>3, <1>5, <1>6, <1>7, <1>8, <1>9, <1>10 DEF PInv, SameAddress, WaitsFor
  <1>12. ~Stalled /\ ~Stalled'
    BY <1>3, <1>11, StalledFacts, StalledAfter
  <1>13. Served
    BY <1>5, <1>12, ServiceStart
  <1> QED BY <1>2, <1>11, <1>13 DEF Keeps, Patient

LEMMA PlInitStep ==
  ASSUME PInv, NEW ok \in BOOLEAN, NEW rate \in BOOLEAN, NEW soft \in BOOLEAN,
         PlInit(soft, ok, rate)
  PROVE  PInv' /\ Keeps
  <1> DEFINE p == Initialised(soft)
             r == frame_event_handler(p, ok, rate)
             strayed == soft /\ addr.ctx # addr.device
  <1>1. pl \in PLs /\ addr \in Addrs /\ addr.ctx = addr.reset
    BY DEF PInv
  <1>2. /\ p \in PLs /\ Times(p, pl.frame_start_time, pl.data_poll_timeout)
        /\ p.frame_state = (IF soft THEN "SOFT_RESET" ELSE "INIT")
        /\ p.negotiate_state = "SET_FREQ_DEFAULT"
        /\ soft => p.request_soft_reset = "GET_STATUS_REG"
    BY <1>1, CounterFacts DEF Initialised, PLs, Times, FrameStates, NegotiateStates
  <1>3. pl.frame_start_time \in Clock /\ pl.data_poll_timeout \in Nat
    BY <1>1, TimesFacts
  <1>4. /\ event # "none" /\ hist.request = "none" /\ Effect(r, timer)
        /\ addr' = [addr EXCEPT !.pal = addr.ctx, !.device = IF soft THEN @ ELSE addr.reset]
        /\ hist' = [Requested(r, "init") EXCEPT !.strayed = strayed]
    BY Zenon DEF PlInit
  <1> HIDE DEF p
  <1>5. Leaves(r, "init", 0, pl.frame_start_time, pl.data_poll_timeout) /\ Starts(r)
    <2>1. CASE soft
      <3>1. r = soft_reset(p, ok, rate)
        BY <1>2, <2>1 DEF frame_event_handler
      <3>2. r = read_register([p EXCEPT !.request_soft_reset = "WRITE"], "I2C_STATE", ok)
        BY <1>2, <2>1, <3>1 DEF soft_reset
      <3>3. [p EXCEPT !.request_soft_reset = "WRITE"] \in PLs
        BY <1>2 DEF PLs
      <3>4. Starts(r)
        BY <3>2, <3>3, AddressedStarts DEF read_register
      <3>5. Leaves(soft_reset(p, ok, rate), "init", 0, pl.frame_start_time, pl.data_poll_timeout)
        BY <1>2, <2>1, SoftResetFacts
      <3> QED BY <3>1, <3>4, <3>5
    <2>2. CASE ~soft
      <3>1. r = negotiation_event_handler(p, ok, rate)
        BY <1>2, <2>2 DEF frame_event_handler
      <3>2. r = SetFreqDefault(p, ok, rate)
        BY <1>2, <3>1 DEF negotiation_event_handler
      <3>3. [p EXCEPT !.negotiate_state = "SET_FREQ_REG"] \in PLs
        BY <1>2 DEF PLs, NegotiateStates
      <3>4. Starts(read_register([p EXCEPT !.negotiate_state = "SET_FREQ_REG"], "MAX_SCL_FREQU", ok))
        BY <3>3, AddressedStarts DEF read_register
      <3>5. Starts(BitRateAgain(p, "negotiation"))
        BY DEF Starts, BitRateAgain, After
      <3>6. Starts(r)
        BY <3>2, <3>4, <3>5 DEF SetFreqDefault
      <3>7. Leaves(negotiation_event_handler(p, ok, rate), "init", 0,
                   pl.frame_start_time, pl.data_poll_timeout)
        BY <1>2, <2>2, NegotiationFacts
      <3> QED BY <3>1, <3>6, <3>7
    <2> QED BY <2>1, <2>2
  <1> HIDE DEF r
  <1>6. strayed \in BOOLEAN /\ (strayed <=> soft /\ addr.ctx # addr.device)
    OBVIOUS
  <1> HIDE DEF strayed
  <1>7. /\ addr' \in Addrs /\ addr'.ctx = addr'.reset /\ addr'.pal = addr'.ctx
        /\ addr'.pal = addr'.device \/ strayed
    BY <1>1, <1>4, <1>6 DEF Addrs
  <1> QED BY <1>3, <1>4, <1>5, <1>6, <1>7, StartStep DEF Kinds

\* While no request is under way a frame is taken only by a layer that is ready.
LEMMA AcceptedFacts ==
  ASSUME PInv, Upper, Accepted
  PROVE  /\ event # "none" /\ hist.request = "none" /\ pl \in PLs /\ pl.frame_state = "READY"
         /\ hist \in Hists /\ addr \in Addrs /\ addr.ctx = addr.reset
         /\ addr.pal = addr.device \/ hist.strayed
  BY DEF PInv, Upper, Accepted, Resting, SameAddress

LEMMA RequestsFacts ==
  ASSUME NEW r, NEW kind, hist \in Hists, Requests(r, kind)
  PROVE  /\ Effect(r, timer)
         /\ hist' = [Requested(r, kind) EXCEPT !.strayed = hist.strayed]
  <1> DEFINE n == Noted(hist, r, timer)
  <1>1. /\ n.strayed = hist.strayed
        /\ n = [request |-> n.request, reported |-> n.reported, fails |-> n.fails,
                age |-> n.age, dropped |-> n.dropped, strayed |-> n.strayed]
    <2>1. \E a, b, c, d, e : n = [hist EXCEPT !.request = a, !.reported = b, !.dropped = c,
                                              !.age = d, !.fails = e]
      BY Zenon DEF Noted
    <2> HIDE DEF n
    <2> QED BY <2>1 DEF Hists
  <1>2. Effect(r, timer) /\ hist' = [n EXCEPT !.request = kind, !.reported = "none", !.age = 0]
    BY DEF Requests, Requested
  <1>3. Requested(r, kind) = [n EXCEPT !.request = kind, !.reported = "none", !.age = 0]
    BY DEF Requested
  <1> HIDE DEF n
  <1> QED BY <1>1, <1>2, <1>3

LEMMA PlSendStep ==
  ASSUME PInv, NEW ok \in BOOLEAN, NEW rate \in BOOLEAN, PlSendFrame(ok, rate)
  PROVE  PInv' /\ Keeps
  <1> DEFINE p == [pl EXCEPT !.frame_action = "WRITE"]
             r == frame_event_handler(p, ok, rate)
  <1>1. Upper /\ Accepted /\ Requests(r, "tx") /\ UNCHANGED addr
    BY DEF PlSendFrame
  <1>2. /\ event # "none" /\ hist.request = "none" /\ pl \in PLs /\ pl.frame_state = "READY"
        /\ hist \in Hists /\ addr \in Addrs /\ addr.ctx = addr.reset
        /\ addr.pal = addr.device \/ hist.strayed
    BY <1>1, AcceptedFacts
  <1>3. /\ p \in PLs /\ Times(p, pl.frame_start_time, pl.data_poll_timeout)
        /\ p.frame_state = "READY" /\ p.frame_action = "WRITE"
    BY <1>2 DEF PLs, Times
  <1>4. pl.frame_start_time \in Clock /\ pl.data_poll_timeout \in Nat
    BY <1>2, TimesFacts
  <1> HIDE DEF p
  <1>5. r = write_register([p EXCEPT !.frame_state = "RXTX"], "DATA", ok)
    BY <1>3 DEF frame_event_handler
  <1>6. Leaves(r, "tx", 0, pl.frame_start_time, pl.data_poll_timeout)
    BY <1>3, <1>5, WriteFrameFacts
  <1>7. Starts(r)
    <2>1. [p EXCEPT !.frame_state = "RXTX"] \in PLs
      BY <1>3 DEF PLs, FrameStates
    <2> QED BY <1>5, <2>1, AddressedStarts DEF write_register
  <1> HIDE DEF r
  <1>8. /\ Effect(r, timer) /\ hist.strayed \in BOOLEAN
        /\ hist' = [Requested(r, "tx") EXCEPT !.strayed = hist.strayed]
    BY <1>1, <1>2, RequestsFacts DEF Hists
  <1> QED BY <1>1, <1>2, <1>4, <1>6, <1>7, <1>8, StartStep DEF Kinds

LEMMA PlReceiveStep ==
  ASSUME PInv, NEW timeout \in Timeouts, NEW ok \in BOOLEAN, NEW rate \in BOOLEAN,
         PlReceiveFrame(timeout, ok, rate)
  PROVE  PInv' /\ Keeps
  <1> DEFINE p == [pl EXCEPT !.frame_action = "READ", !.frame_start_time = now,
                             !.data_poll_timeout = timeout]
             r == frame_event_handler(p, ok, rate)
  <1>1. Upper /\ Accepted /\ Requests(r, "rx") /\ UNCHANGED addr
    BY DEF PlReceiveFrame
  <1>2. /\ event # "none" /\ hist.request = "none" /\ pl \in PLs /\ pl.frame_state = "READY"
        /\ hist \in Hists /\ addr \in Addrs /\ addr.ctx = addr.reset
        /\ addr.pal = addr.device \/ hist.strayed
    BY <1>1, AcceptedFacts
  <1>3. now \in Clock /\ timeout \in Nat
    BY PhysicalAssumption DEF PInv
  <1>4. /\ p \in PLs /\ Times(p, now, timeout)
        /\ p.frame_state = "READY" /\ p.frame_action = "READ"
    BY <1>2, <1>3 DEF PLs, Times
  <1> HIDE DEF p
  <1>5. r = read_register([p EXCEPT !.frame_state = "DATA_AVAILABLE"], "I2C_STATE", ok)
    BY <1>4 DEF frame_event_handler
  <1>6. Leaves(r, "rx", 0, now, timeout)
    BY <1>4, <1>5, ReadFrameFacts
  <1>7. Starts(r)
    <2>1. [p EXCEPT !.frame_state = "DATA_AVAILABLE"] \in PLs
      BY <1>4 DEF PLs, FrameStates
    <2> QED BY <1>5, <2>1, AddressedStarts DEF read_register
  <1> HIDE DEF r
  <1>8. /\ Effect(r, timer) /\ hist.strayed \in BOOLEAN
        /\ hist' = [Requested(r, "rx") EXCEPT !.strayed = hist.strayed]
    BY <1>1, <1>2, RequestsFacts DEF Hists
  <1> QED BY <1>1, <1>2, <1>3, <1>6, <1>7, <1>8, StartStep DEF Kinds

\* Steps that leave the request alone: the same timers wait for the same.
LEMMA TableStep ==
  ASSUME PInv, Sound(timer'), Waiting(timer') = Waiting(timer),
         \A i \in Waiting(timer) : timer'.slots[i].callback = timer.slots[i].callback,
         event # "none" => timer'.calling # 0,
         UNCHANGED <<pl, now, addr, event, hist>>
  PROVE  PInv' /\ Keeps
  <1>1. PInv'
    BY DEF PInv, SameAddress, WaitsFor, Aged
  <1>2. hist' = hist /\ pl' = pl /\ event' = event
    OBVIOUS
  <1> QED BY <1>1, <1>2, QuietFacts

LEMMA ScanStep ==
  ASSUME PInv, Scan
  PROVE  PInv' /\ Keeps
  <1>1. /\ timer.calling = 0 /\ timer' = Scanned(timer, now)
        /\ UNCHANGED <<pl, now, addr, event, hist>>
    BY DEF Scan
  <1>2. Sound(timer) /\ now \in Clock /\ event = "none"
    BY <1>1 DEF PInv
  <1>3. /\ Sound(timer') /\ Waiting(timer') = Waiting(timer)
        /\ \A i \in Waiting(timer) : timer'.slots[i].callback = timer.slots[i].callback
    BY <1>1, <1>2, ScannedFacts
  <1> QED BY <1>1, <1>2, <1>3, TableStep

LEMMA ReturnStep ==
  ASSUME PInv, Return
  PROVE  PInv' /\ Keeps
  <1>1. /\ timer.calling # 0 /\ event = "none" /\ timer' = Deleted(timer)
        /\ UNCHANGED <<pl, now, addr, event, hist>>
    BY DEF Return
  <1>2. Sound(timer)
    BY DEF PInv
  <1>3. /\ Sound(timer') /\ Waiting(timer') = Waiting(timer)
        /\ \A i \in Waiting(timer) : timer'.slots[i] = timer.slots[i]
    BY <1>1, <1>2, DeletedFacts
  <1> QED BY <1>1, <1>3, TableStep

\* The timer of the layer above runs only while no request is under way.
LEMMA UpperCallbackStep ==
  ASSUME PInv, UpperCallback
  PROVE  PInv' /\ Keeps
  <1> DEFINE i == Next_called(timer)
  <1>1. /\ timer.calling = 0 /\ timer.toBeCalled # {} /\ WaitsFor(i) = "upper"
        /\ timer' = Called(timer) /\ event' = "wake" /\ UNCHANGED <<pl, now, addr, hist>>
    BY DEF UpperCallback, Dispatch, WaitsFor
  <1>2. Sound(timer) /\ event = "none"
    BY <1>1 DEF PInv
  <1>3. /\ Sound(timer') /\ Waiting(timer') = {} /\ timer'.calling # 0
        /\ Waiting(timer) = {i}
    BY <1>1, <1>2, CalledFacts
  <1> HIDE DEF i
  <1>4. hist.request = "none"
    BY <1>1, <1>3 DEF PInv
  <1>5. PInv'
    BY <1>1, <1>3, <1>4 DEF PInv, SameAddress, WaitsFor
  <1> QED BY <1>1, <1>4, <1>5, QuietFacts

\* The layer above leaves a timer behind when none waits.
LEMMA UpperTimerStep ==
  ASSUME PInv, hist.request = "none", Waiting(timer) = {},
         NEW delay \in Nat,
         timer' = setTimer(timer, "upper", delay, now),
         hist' = [hist EXCEPT !.dropped = hist.dropped \/ FreeSlots(timer) = {}],
         event' = "none", UNCHANGED <<pl, now, addr>>
  PROVE  PInv' /\ Keeps
  <1>1. Sound(timer) /\ now \in Clock /\ hist \in Hists /\ ~hist.dropped
    BY DEF PInv
  <1>2. "upper" \in Callbacks
    BY DEF Callbacks
  <1>3. /\ FreeSlots(timer) # {} /\ Sound(timer')
        /\ \E i \in Slots : Waiting(timer') = {i} /\ timer'.slots[i].callback = "upper"
    BY <1>1, <1>2, SetTimerFacts
  <1>4. hist' = [hist EXCEPT !.dropped = FALSE]
    BY <1>1, <1>3, Zenon
  <1>5. hist' = hist
    BY <1>1, <1>4 DEF Hists
  <1>6. \A i \in Waiting(timer') : timer'.slots[i].callback = "upper"
    BY <1>3
  <1>7. PInv'
    BY <1>3, <1>5, <1>6 DEF PInv, SameAddress, WaitsFor
  <1> QED BY <1>5, <1>7, QuietFacts

LEMMA UpperReturnsStep ==
  ASSUME PInv, NEW again \in BOOLEAN, UpperReturns(again)
  PROVE  PInv' /\ Keeps
  <1>1. /\ event # "none" /\ event' = "none" /\ UNCHANGED <<pl, now, addr>>
        /\ timer' = IF again THEN setTimer(timer, "upper", Delay["upper"], now) ELSE timer
        /\ hist' = [hist EXCEPT !.dropped = hist.dropped \/ (again /\ FreeSlots(timer) = {})]
    BY Zenon DEF UpperReturns, Upper
  <1>2. hist.request = "none" /\ Waiting(timer) = {} /\ hist \in Hists /\ ~hist.dropped
    BY <1>1 DEF PInv
  <1>3. CASE again
    <2>1. Delay["upper"] \in Nat
      BY PhysicalAssumption DEF Callbacks
    <2>2. /\ timer' = setTimer(timer, "upper", Delay["upper"], now)
          /\ hist' = [hist EXCEPT !.dropped = hist.dropped \/ FreeSlots(timer) = {}]
      BY <1>1, <1>3, Zenon
    <2> QED BY <1>1, <1>2, <2>1, <2>2, UpperTimerStep
  <1>4. CASE ~again
    <2>1. timer' = timer /\ hist' = [hist EXCEPT !.dropped = FALSE]
      BY <1>1, <1>2, <1>4, Zenon
    <2>2. hist' = hist
      BY <1>2, <2>1 DEF Hists
    <2>3. PInv'
      BY <1>1, <2>1, <2>2 DEF PInv, SameAddress, WaitsFor
    <2> QED BY <1>1, <1>2, <2>2, <2>3, QuietFacts
  <1> QED BY <1>3, <1>4

LEMMA AppStartsStep ==
  ASSUME PInv, AppStarts
  PROVE  PInv' /\ Keeps
  <1>1. /\ timer.calling = 0 /\ hist.request = "none" /\ InUse(timer) = {}
        /\ timer' = setTimer(timer, "upper", Delay["upper"], now)
        /\ hist' = [hist EXCEPT !.dropped = hist.dropped \/ FreeSlots(timer) = {}]
        /\ UNCHANGED <<pl, now, addr, event>>
    BY Zenon DEF AppStarts
  <1>2. Waiting(timer) = {} /\ event = "none"
    BY <1>1 DEF Waiting, PInv
  <1>3. Delay["upper"] \in Nat
    BY PhysicalAssumption DEF Callbacks
  <1> QED BY <1>1, <1>2, <1>3, UpperTimerStep

LEMMA WriteAddressStep ==
  ASSUME PInv, NEW a \in Addresses, NEW persistent \in BOOLEAN, NEW ok \in BOOLEAN,
         PlWriteSlaveAddress(a, persistent, ok)
  PROVE  PInv' /\ Keeps
  <1>1. /\ hist.request = "none"
        /\ pl' = [pl EXCEPT !.buffer = Blank,
                            !.retry_counter = IF ok THEN PL_POLLING_MAX_CNT ELSE 0]
        /\ addr' = IF ok THEN Readdressed(a, persistent) ELSE addr
        /\ UNCHANGED <<timer, now, event, hist>>
    BY DEF PlWriteSlaveAddress
  <1>2. pl \in PLs /\ addr \in Addrs /\ addr.ctx = addr.reset
    BY DEF PInv
  <1>3. pl' \in PLs /\ pl'.frame_state = pl.frame_state
    BY <1>1, <1>2, CounterFacts DEF PLs
  <1>4. /\ addr' \in Addrs /\ addr'.ctx = addr'.reset
        /\ addr'.pal = addr'.device \/ hist.strayed
    BY <1>1, <1>2 DEF Readdressed, Addrs, PInv, SameAddress
  <1>5. PInv'
    BY <1>1, <1>3, <1>4 DEF PInv, SameAddress, Resting, WaitsFor
  <1> QED BY <1>1, <1>3, <1>5, QuietFacts

LEMMA TickStep ==
  ASSUME PInv, Tick
  PROVE  PInv' /\ Keeps
  <1> DEFINE age == IF hist.request = "rx" /\ hist.age < pl.data_poll_timeout
                      THEN hist.age + 1 ELSE hist.age
  <1>1. /\ now' = (now + 1) % ClockSize /\ UNCHANGED <<pl, timer, addr, event>>
        /\ hist' = [hist EXCEPT !.age = age]
    BY DEF Tick
  <1>2. hist \in Hists /\ now \in Clock /\ pl \in PLs /\ hist.age \in Nat
    BY DEF PInv, Hists
  <1>3. pl.frame_start_time \in Clock /\ pl.data_poll_timeout \in Nat
    BY <1>2, TimesFacts
  <1> DEFINE before == Elapsed(now, pl.frame_start_time)
             after == Elapsed(now', pl.frame_start_time)
  <1>4. now' \in Clock /\ before \in Nat /\ after \in Nat /\ after <= before + 1
    BY <1>1, <1>2, <1>3, TickFacts, ElapsedFacts
  <1> HIDE DEF before, after
  <1>5. hist.request = "rx" => /\ hist.age <= pl.data_poll_timeout
                               /\ hist.age < pl.data_poll_timeout => before <= hist.age
    BY DEF PInv, Aged, before
  <1>6. /\ age \in Nat
        /\ hist.request = "rx" => /\ age <= pl.data_poll_timeout
                                  /\ age < pl.data_poll_timeout => after <= age
    BY <1>2, <1>3, <1>4, <1>5
  <1> HIDE DEF age
  <1>7. /\ hist' \in Hists /\ hist'.request = hist.request /\ hist'.age = age
        /\ hist'.fails = hist.fails /\ hist'.dropped = hist.dropped
        /\ hist'.strayed = hist.strayed /\ hist'.reported = hist.reported
    BY <1>1, <1>2, <1>6 DEF Hists
  <1>8. hist'.request = "rx" => hist'.age <= pl'.data_poll_timeout /\ Aged(hist.age, pl)'
    BY <1>1, <1>6, <1>7 DEF Aged, after
  <1>9. PInv'
    BY <1>1, <1>4, <1>7, <1>8 DEF PInv, SameAddress, WaitsFor
  <1> QED BY <1>1, <1>7, <1>9, QuietFacts

-----------------------------------------------------------------------------
(* The theorems                                                             *)

LEMMA InitFacts ==
  ASSUME Init
  PROVE  PInv /\ Service!Init
  <1>1. /\ now \in Clock /\ timer = EmptyTable /\ event = "none"
        /\ hist = [request |-> "none", reported |-> "none", fails |-> 0, age |-> 0,
                   dropped |-> FALSE, strayed |-> FALSE]
    BY DEF Init
  <1>2. Sound(timer) /\ Waiting(timer) = {}
    <2>1. Free \in Slot /\ Free.callback = "none"
      BY TimerAssumption DEF Free, Slot, Clock
    <2>2. /\ timer.slots = [i \in Slots |-> Free] /\ timer.numTimers = 0
          /\ timer.toBeCalled = {} /\ timer.calling = 0
      BY <1>1 DEF EmptyTable
    <2>3. timer \in Table
      BY <1>1, <2>1, TimerAssumption DEF EmptyTable, Table
    <2>4. InUse(timer) = {} /\ Waiting(timer) = {}
      BY <2>1, <2>2 DEF InUse, Waiting
    <2> QED BY <2>2, <2>3, <2>4, FS_EmptySet DEF Sound
  <1>3. PICK a \in Addresses : addr = [ctx |-> a, pal |-> a, device |-> a, reset |-> a]
    BY DEF Init
  <1>4. addr \in Addrs /\ addr.ctx = addr.reset /\ addr.pal = addr.device
    BY <1>3 DEF Addrs
  <1>5. pl \in PLs /\ pl.frame_state = "UNINIT"
    <2>1. /\ 0 \in Counter /\ FullFrame \in 1 .. FullFrame /\ 0 \in Clock
          /\ Blank \in {Blank} \cup AnyReading /\ 0 \in {0} \cup Timeouts
      BY CounterFacts, PhysicalAssumption, TimerAssumption DEF Clock
    <2>2. /\ "UNINIT" \in FrameStates /\ "SET_FREQ_DEFAULT" \in NegotiateStates
          /\ "none" \in Registers
      BY DEF FrameStates, NegotiateStates, Registers
    <2> QED BY <2>1, <2>2 DEF Init, PLs
  <1>6. /\ hist \in Hists /\ hist.request = "none" /\ hist.reported = "none" /\ hist.fails = 0
        /\ ~hist.dropped
    BY <1>1 DEF Hists, Kinds, Reports
  <1>7. PInv
    BY <1>1, <1>2, <1>4, <1>5, <1>6 DEF PInv, Resting, SameAddress
  <1>8. Service!Init
    <2>1. ~Stalled
      BY <1>6 DEF Stalled
    <2>2. (hist.request = "none" /\ pl.frame_state = "READY") = FALSE
      BY <1>5
    <2> QED BY <1>6, <2>1, <2>2 DEF Service!Init
  <1> QED BY <1>7, <1>8

LEMMA CallbacksStep ==
  ASSUME PInv, Callback
  PROVE  PInv' /\ Keeps
  BY PollStep, GuardReadStep, GuardDoneStep, NegotiationStep, SoftResetStep, StatusPollStep,
     UpperCallbackStep DEF Callback

LEMMA UpperStep ==
  ASSUME PInv, UpperActs
  PROVE  PInv' /\ Keeps
  BY PlInitStep, PlSendStep, PlReceiveStep, UpperReturnsStep DEF UpperActs

LEMMA NextStep ==
  ASSUME PInv, [Next]_vars
  PROVE  PInv' /\ Keeps
  <1>1. CASE UNCHANGED vars
    <2>1. UNCHANGED <<pl, timer, now, addr, event, hist>>
      BY <1>1 DEF vars
    <2>2. PInv'
      BY <2>1 DEF PInv, SameAddress, WaitsFor, Aged
    <2> QED BY <2>1, <2>2, QuietFacts
  <1>2. CASE \E a \in Addresses, persistent \in BOOLEAN, ok \in BOOLEAN :
               PlWriteSlaveAddress(a, persistent, ok)
    BY <1>2, WriteAddressStep
  <1> QED BY <1>1, <1>2, ScanStep, CallbacksStep, ReturnStep, UpperStep, TickStep, AppStartsStep
          DEF Next

\* The invariant is inductive, and every step keeps what is said of steps.
THEOREM PhysicalInductive == Spec => []PInv /\ [][Keeps]_vars
  <1>1. Init => PInv
    BY InitFacts
  <1>2. PInv /\ [Next]_vars => PInv' /\ [Keeps]_vars
    BY NextStep
  <1> QED BY <1>1, <1>2, PTL DEF Spec

\* Types, and the book-keeping of the timer table: its count is that of the
\* slots in use, and what is to be called holds a callback.
THEOREM PhysicalTypeCorrect == Spec => []PhysicalTypeOK
  <1>1. PInv => PhysicalTypeOK
    <2> SUFFICES ASSUME PInv PROVE PhysicalTypeOK
      OBVIOUS
    <2>1. /\ timer.slots \in [Slots -> [callback : Callbacks \cup {"none"}, delay : Nat, prev : Clock]]
          /\ timer.numTimers = Cardinality(InUse(timer))
          /\ timer.toBeCalled \subseteq Waiting(timer) /\ timer.calling \in {0} \cup InUse(timer)
      BY DEF PInv, Sound, Table, Slot
    <2> QED BY <2>1 DEF PInv, PhysicalTypeOK, PLs, Addrs, Hists, Kinds, Reports, Counter
  <1> QED BY <1>1, PhysicalInductive, PTL

\* Exactly one timer continues a request, and none is left of one that has been
\* answered.
THEOREM PhysicalOneWakeup == Spec => []OneWakeup
  <1>1. PInv => OneWakeup
    <2> SUFFICES ASSUME PInv PROVE OneWakeup
      OBVIOUS
    <2> DEFINE others == {i \in Waiting(timer) : timer.slots[i].callback # "upper"}
    <2>1. Stalled <=> hist.request # "none" /\ Waiting(timer) = {}
      BY StalledFacts
    <2>2. CASE hist.request = "none" \/ Stalled
      <3>1. others = {}
        BY <2>1, <2>2 DEF PInv, WaitsFor
      <3> QED BY <2>2, <3>1, FS_EmptySet DEF OneWakeup
    <2>3. CASE ~(hist.request = "none" \/ Stalled)
      <3>1. PICK i \in Waiting(timer) : WaitsFor(i) # "upper"
        BY <2>1, <2>3 DEF PInv
      <3>2. others = {i}
        BY <3>1 DEF PInv, Sound, WaitsFor
      <3> QED BY <2>3, <3>2, FS_Singleton DEF OneWakeup
    <2> QED BY <2>2, <2>3
  <1> QED BY <1>1, PhysicalInductive, PTL

\* No timer is dropped, with as few as two slots.
THEOREM PhysicalNothingDropped == Spec => []NothingDropped
  <1>1. PInv => NothingDropped
    BY DEF PInv, NothingDropped
  <1> QED BY <1>1, PhysicalInductive, PTL

\* An access is given up in time, wherever the counter wraps.
THEOREM PhysicalRetryBounded == Spec => []RetryBounded
  <1>1. PInv => RetryBounded
    <2> SUFFICES ASSUME PInv PROVE RetryBounded
      OBVIOUS
    <2>1. /\ hist.fails \in Nat /\ pl.retry_counter \in Nat
          /\ PL_POLLING_MAX_CNT \in Nat
      BY PhysicalAssumption DEF PInv, Hists, PLs, Counter
    <2>2. CASE hist.fails = 0
      BY <2>1, <2>2 DEF RetryBounded
    <2>3. CASE hist.fails # 0
      <3>1. PICK i \in Waiting(timer) : Counts(pl, WaitsFor(i), hist.fails)
        BY <2>3 DEF PInv
      <3>2. hist.fails + pl.retry_counter <= PL_POLLING_MAX_CNT
        BY <2>3, <3>1 DEF Counts
      <3> QED BY <2>1, <3>2 DEF RetryBounded
    <2> QED BY <2>2, <2>3
  <1> QED BY <1>1, PhysicalInductive, PTL

\* Host and device agree on the address, through resets of the device.
THEOREM PhysicalSameAddress == Spec => []SameAddress
  <1>1. PInv => SameAddress
    BY DEF PInv
  <1> QED BY <1>1, PhysicalInductive, PTL

\* A read gets the time it was given, however the clock wraps.
THEOREM PhysicalPatience == Spec => Patience
  <1>1. [Keeps]_vars => [(hist.request = "rx" /\ event' = "ERROR" /\ event # "ERROR")
                           => hist.age = pl.data_poll_timeout]_vars
    BY DEF Keeps, Patient
  <1> QED BY <1>1, PhysicalInductive, PTL DEF Patience

\* Every behaviour of the layer is one of the frame service, fairness aside.
THEOREM PhysicalImplementsService ==
  Spec => Service!Init /\ [][Service!Next]_(Service!vars)
  <1>1. Init => Service!Init
    BY InitFacts
  <1>2. [Keeps]_vars => [Service!Next]_(Service!vars)
    <2>1. CASE UNCHANGED vars
      <3>1. UNCHANGED <<pl, timer, hist>>
        BY <2>1 DEF vars
      <3>2. Stalled' <=> Stalled
        BY <3>1 DEF Stalled
      <3>3. Served
        BY <3>1, <3>2, ServiceStutter
      <3> QED BY <3>3 DEF Served
    <2>2. CASE Keeps
      BY <2>2 DEF Keeps, Served
    <2> QED BY <2>1, <2>2
  <1> QED BY <1>1, <1>2, PhysicalInductive, PTL DEF Spec

=============================================================================
