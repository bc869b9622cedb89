--------------------------- MODULE CmdQueueProofs ---------------------------
(***************************************************************************)
(* Theorems about the command layer, for every number of instances and of  *)
(* sessions, every range of the clock and every set of commands.           *)
(***************************************************************************)
EXTENDS CmdQueue, FiniteSetTheorems, TLAPS

-----------------------------------------------------------------------------
(* The inductive invariant                                                  *)

AtWork(s)  == run[s] > 0 \/ s \in comms
\* The timer that a failed store leaves behind does no work.
Working(s) == AtWork(s) /\ exec[s] # "EXIT"
Waiting(s) == qstate[s] \in {"REQUEST", "RESUME"}
HasLock(s) == qstate[s] \in {"PROCESSING", "RESUME"}
\* Between two fragments of a strict sequence
Paused(s)  ==
  qstate[s] = "PROCESSING" /\ request_type[s] = "STRICT" /\ caller[s] = "free"

\* Before the first instance is created nothing happens.
Started ==
  ~started => /\ sched = 0 /\ ~triggered /\ ~unstored
              /\ \A s \in Slot : /\ ~AtWork(s) /\ qstate[s] = "NOT_ASSIGNED"
                                 /\ caller[s] = "absent"

\* Either the scheduler has its timer or one instance works.
Turn ==
  /\ started => sched = 1 \/ \E s \in Slot : Working(s)
  /\ \A s \in Slot : Working(s) => sched = 0 /\ ~triggered
  /\ \A s, t \in Slot : Working(s) /\ Working(t) => s = t

\* The lock has one holder at most; while that does nothing, the scheduler's
\* timer is known to be registered.
Lock ==
  /\ \A s, t \in Slot : HasLock(s) /\ HasLock(t) => s = t
  /\ \A s \in Slot : HasLock(s) => triggered \/ Working(s)

\* How the queue entry, the caller and the timers of an instance belong together.
Entry(s) ==
  /\ qstate[s] \in {"NOT_ASSIGNED", "ASSIGNED"} => request_type[s] = "none"
  /\ Waiting(s) => ~AtWork(s) /\ caller[s] = "busy" /\ exec[s] # "EXIT"
  /\ Waiting(s) => exec[s] \in {"OPEN_START", "PREPARE"}
  /\ qstate[s] = "RESUME" => request_type[s] = "STRICT"
  /\ qstate[s] = "PROCESSING" => Working(s) \/ Paused(s)
  /\ caller[s] = "busy" => Working(s) \/ Waiting(s)
  /\ caller[s] = "busy" => request_type[s] = RequestType(cmd[s]) /\ cmd[s] # "none"
  /\ Working(s) => qstate[s] = "PROCESSING" /\ caller[s] = "busy"
  /\ s \in comms => run[s] = 0 /\ exec[s] # "EXIT"

\* What the state machine knows of the command it executes.
Command(s) ==
  /\ Working(s) /\ exec[s] = "CLOSE_DONE" => cmd[s] = "hibernate"
  /\ Working(s) /\ exec[s] \in {"ERROR_TX", "ERROR_RX"} /\ NoDeviceError(s) => unstored

\* A timer without work, or a handler called once too often, needs a failed store.
Stray ==
  ~unstored => ~spurious /\ \A s \in Slot : AtWork(s) => exec[s] # "EXIT"

IInv ==
  /\ CmdTypeOK
  /\ Started /\ Turn /\ Lock /\ Stray
  /\ \A s \in Slot : Entry(s) /\ Command(s)

-----------------------------------------------------------------------------
(* Lemmas                                                                   *)

LEMMA SlotFinite == IsFiniteSet(Slot)
BY RegistrationsAssumption, FS_Interval DEF Slot

\* A set of instances that has one member is counted as one.
LEMMA OneMember ==
  ASSUME NEW S \in SUBSET Slot, NEW s \in S, \A t \in S : t = s
  PROVE  Cardinality(S) = 1
<1>1. S = {s}
  OBVIOUS
<1>2. QED
  BY <1>1, FS_Singleton

\* A set of instances with one member at most is counted as one at most.
LEMMA AtMostOne ==
  ASSUME NEW S \in SUBSET Slot, \A s, t \in S : s = t
  PROVE  Cardinality(S) \in Nat /\ Cardinality(S) <= 1
<1>1. CASE S = {}
  BY <1>1, FS_EmptySet
<1>2. CASE S # {}
  <2>1. PICK s \in S : TRUE
    BY <1>2
  <2>2. S \in SUBSET Slot /\ \A t \in S : t = s
    BY <2>1
  <2>3. Cardinality(S) = 1
    BY <2>1, <2>2, OneMember
  <2>4. QED
    BY <2>3
<1>3. QED
  BY <1>1, <1>2

\* Time stamps stay within the range of the clock.
LEMMA ClockRange ==
  ASSUME NEW n \in Int
  PROVE  n % Round \in 0 .. Round - 1
<1>1. Round \in Nat /\ Round > 0
  BY RoundAssumption, RegistrationsAssumption
<1>2. QED
  BY <1>1

\* The communication layer works for one instance at most.
LEMMA CommsSize ==
  ASSUME IInv, NEW S \in SUBSET Slot, \A s \in S : s \in comms
  PROVE  Cardinality(S) <= 1
<1>1. \A s, t \in S : s = t
  BY DEF IInv, Turn, Working, AtWork, Entry
<1>2. QED
  BY <1>1, AtMostOne

\* The instance at work has the lock, the scheduler has no timer, and nobody
\* else works or has the lock.
LEMMA WorkerAlone ==
  ASSUME IInv, NEW s \in Slot, AtWork(s), exec[s] # "EXIT"
  PROVE  /\ qstate[s] = "PROCESSING" /\ caller[s] = "busy"
         /\ sched = 0 /\ ~triggered /\ started
         /\ request_type[s] = RequestType(cmd[s]) /\ cmd[s] # "none"
         /\ \A t \in Slot : Working(t) \/ HasLock(t) \/ t \in comms => t = s
<1>1. Working(s) /\ Entry(s)
  BY DEF IInv, Working
<1>2. qstate[s] = "PROCESSING" /\ caller[s] = "busy" /\ HasLock(s)
  BY <1>1 DEF Entry, HasLock
<1>3. sched = 0 /\ ~triggered /\ \A t \in Slot : Working(t) => t = s
  BY <1>1 DEF IInv, Turn
<1>4. \A t \in Slot : HasLock(t) => t = s
  BY <1>2 DEF IInv, Lock
<1>5. \A t \in Slot : t \in comms => t = s
  BY <1>3 DEF IInv, Entry, Working, AtWork
<1>6. started
  BY <1>2 DEF IInv, Started
<1>7. request_type[s] = RequestType(cmd[s]) /\ cmd[s] # "none"
  BY <1>1, <1>2 DEF Entry
<1>8. QED
  BY <1>2, <1>3, <1>4, <1>5, <1>6, <1>7

\* When a callback enters the state machine, it was the only thing under way.
LEMMA TimersGone ==
  ASSUME IInv, NEW s \in Slot, NEW by \in {"timer", "comms"}, NEW n \in {0, 1},
         Entered(s, by), exec[s] # "EXIT", Timers(s, by, n)
  PROVE  AtWork(s) /\ run' = [run EXCEPT ![s] = n] /\ CommsAfter(by) = {}
<1>1. /\ AtWork(s)
      /\ by = "timer" => run[s] = 1 /\ s \notin comms
      /\ by = "comms" => run[s] = 0 /\ s \in comms
  BY DEF IInv, CmdTypeOK, Entry, Entered, AtWork
<1>2. \A t \in Slot : t \in comms => t = s
  BY <1>1, WorkerAlone
<1>3. by = "timer" => comms = {}
  BY <1>1, <1>2 DEF IInv, CmdTypeOK
<1>4. CommsAfter(by) = {}
  BY <1>3 DEF CommsAfter
<1>5. CASE by = "timer"
  <2>1. run[s] + n - 1 = n
    BY <1>5, <1>1
  <2>2. QED
    BY <1>1, <1>4, <1>5, <2>1 DEF Timers
<1>6. CASE by = "comms"
  <2>1. run[s] + n - 0 = n
    BY <1>6, <1>1
  <2>2. QED
    BY <1>1, <1>4, <1>6, <2>1 DEF Timers
<1>7. QED
  BY <1>5, <1>6

\* Handlers that end the work of an instance: its command is over, the lock
\* released.  "n" is the timer that a failed store leaves behind.
LEMMA EndStep ==
  ASSUME IInv, NEW s \in Slot, NEW by \in {"timer", "comms"}, NEW n \in {0, 1},
         NEW x \in {"EXIT", "CLOSE_DONE"}, NEW c \in {cmd[s], "none"},
         Entered(s, by), exec[s] # "EXIT",
         n = 1 => unstored /\ x = "EXIT",
         Timers(s, by, n), comms' = CommsAfter(by),
         ResetSlot(s), CallHandler(s),
         exec' = [exec EXCEPT ![s] = x], cmd' = [cmd EXCEPT ![s] = c],
         notify' \in [Slot -> BOOLEAN], chunks' \in 0 .. MaxChunks,
         strict_wire' \subseteq Slot, unstored' = unstored
  PROVE  IInv'
<1>1. AtWork(s)
  BY TimersGone
<1>2. /\ qstate[s] = "PROCESSING" /\ caller[s] = "busy"
      /\ sched = 0 /\ ~triggered /\ started
      /\ \A t \in Slot : Working(t) \/ HasLock(t) \/ t \in comms => t = s
  BY <1>1, WorkerAlone
<1>3. CmdTypeOK /\ Stray /\ Entry(s) /\ \A t \in Slot : Entry(t) /\ Command(t)
  BY DEF IInv
<1>4. comms' = {}
  BY TimersGone
<1>5. run' = [run EXCEPT ![s] = n]
  BY TimersGone
<1>6. /\ qstate' = [qstate EXCEPT ![s] = "ASSIGNED"]
      /\ request_type' = [request_type EXCEPT ![s] = "none"]
      /\ sched' = 1 /\ triggered'
      /\ caller' = [caller EXCEPT ![s] = "free"]
      /\ spurious' = spurious /\ started' = started
  BY <1>2, <1>3 DEF ResetSlot, EventStart, CallHandler, Entered, CmdTypeOK
<1>7. CmdTypeOK'
  <2>1. Cardinality({}) = 0
    BY FS_EmptySet
  <2>2. arrival' \in [Slot -> 0 .. Round - 1]
    BY <1>3, RoundAssumption DEF ResetSlot, NeverArrived, CmdTypeOK
  <2>3. c \in Kinds \cup {"none"}
    BY <1>3 DEF CmdTypeOK
  <2>4. /\ qstate' \in [Slot -> {"NOT_ASSIGNED", "ASSIGNED", "REQUEST", "PROCESSING", "RESUME"}]
        /\ request_type' \in [Slot -> {"none", "LOCK", "SESSION", "STRICT"}]
        /\ caller' \in [Slot -> {"absent", "free", "busy"}]
    BY <1>3, <1>6 DEF CmdTypeOK
  <2>5. run' \in [Slot -> 0 .. 1]
    BY <1>3, <1>5 DEF CmdTypeOK
  <2>6. cmd' \in [Slot -> Kinds \cup {"none"}]
    BY <1>3, <2>3 DEF CmdTypeOK
  <2>7. exec' \in [Slot -> {"OPEN_START", "OPEN_DONE", "PREPARE", "PROCESS", "ERROR_TX",
                            "ERROR_RX", "CLOSE_START", "CLOSE_DONE", "EXIT"}]
    BY <1>3 DEF CmdTypeOK
  <2>8. QED
    BY <1>3, <1>4, <1>6, <2>1, <2>2, <2>4, <2>5, <2>6, <2>7
    DEF CmdTypeOK, Entered, timevars, sessvars
<1>8. \A t \in Slot : ~Working(t)'
  BY <1>2, <1>3, <1>4, <1>5 DEF Working, AtWork, CmdTypeOK
<1>9. \A t \in Slot : ~HasLock(t)'
  BY <1>2, <1>3, <1>6 DEF HasLock, CmdTypeOK
<1>10. Started' /\ Turn' /\ Lock'
  BY <1>2, <1>6, <1>8, <1>9 DEF Started, Turn, Lock
<1>11. Stray'
  BY <1>3, <1>4, <1>5, <1>6 DEF Stray, AtWork, CmdTypeOK
<1>12. ASSUME NEW t \in Slot PROVE (Entry(t) /\ Command(t))'
  <2>1. CASE t = s
    BY <2>1, <1>3, <1>4, <1>6, <1>8
    DEF Entry, Command, Waiting, Paused, CmdTypeOK
  <2>2. CASE t # s
    <3>1. /\ qstate'[t] = qstate[t] /\ request_type'[t] = request_type[t]
          /\ caller'[t] = caller[t] /\ exec'[t] = exec[t] /\ cmd'[t] = cmd[t]
          /\ run'[t] = run[t] /\ t \notin comms /\ t \notin comms'
      BY <2>2, <1>2, <1>3, <1>4, <1>5, <1>6 DEF CmdTypeOK
    <3>2. ~Working(t) /\ ~HasLock(t) /\ Entry(t)
      BY <2>2, <1>2, <1>3
    <3>3. QED
      BY <3>1, <3>2, <1>8
      DEF Entry, Command, Waiting, Paused, AtWork, HasLock, RequestType
  <2>3. QED
    BY <2>1, <2>2
<1>13. QED
  BY <1>7, <1>10, <1>11, <1>12 DEF IInv

\* An instance that a step does not touch stays as it was.
LEMMA Untouched ==
  ASSUME IInv, NEW t \in Slot,
         qstate'[t] = qstate[t], request_type'[t] = request_type[t],
         caller'[t] = caller[t], exec'[t] = exec[t], cmd'[t] = cmd[t],
         run'[t] = run[t], t \in comms' <=> t \in comms,
         Working(t) => notify'[t] = notify[t] /\ unstored' = unstored
  PROVE  (Entry(t) /\ Command(t))'
<1>1. Entry(t) /\ Command(t)
  BY DEF IInv
<1>2. (Working(t)' <=> Working(t)) /\ (AtWork(t)' <=> AtWork(t))
  BY DEF Working, AtWork
<1>3. (Waiting(t)' <=> Waiting(t)) /\ (Paused(t)' <=> Paused(t))
  BY DEF Waiting, Paused
<1>4. RequestType(cmd[t])' = RequestType(cmd[t])
  BY DEF RequestType
<1>5. Entry(t)'
  BY <1>1, <1>2, <1>3, <1>4 DEF Entry
<1>6. Command(t)'
  BY <1>1, <1>2 DEF Command, NoDeviceError
<1>7. QED
  BY <1>5, <1>6

\* Handlers that keep the instance at work: they hand an operation to the
\* communication layer or register the timer of the instance.
LEMMA WorkStep ==
  ASSUME IInv, NEW s \in Slot, NEW by \in {"timer", "comms"}, NEW n \in {0, 1},
         NEW next \in {"OPEN_DONE", "PREPARE", "PROCESS", "ERROR_TX", "ERROR_RX",
                       "CLOSE_START", "CLOSE_DONE"},
         Entered(s, by), exec[s] # "EXIT",
         Timers(s, by, n), comms' = IF n = 1 THEN CommsAfter(by) ELSE {s},
         n = 0 => comms = {},
         exec' = [exec EXCEPT ![s] = next],
         UNCHANGED <<qvars, caller, spurious, triggered, sched, cmd>>,
         notify' \in [Slot -> BOOLEAN], chunks' \in 0 .. MaxChunks,
         strict_wire' \subseteq Slot,
         unstored' \in BOOLEAN, unstored => unstored',
         next = "CLOSE_DONE" => cmd[s] = "hibernate",
         next \in {"ERROR_TX", "ERROR_RX"} =>
           (notify'[s] /\ cmd[s] = "hibernate" => unstored')
  PROVE  IInv'
<1>1. AtWork(s)
  BY TimersGone
<1>2. /\ qstate[s] = "PROCESSING" /\ caller[s] = "busy"
      /\ sched = 0 /\ ~triggered /\ started
      /\ request_type[s] = RequestType(cmd[s]) /\ cmd[s] # "none"
      /\ \A t \in Slot : Working(t) \/ HasLock(t) \/ t \in comms => t = s
  BY <1>1, WorkerAlone
<1>3. CmdTypeOK /\ Stray /\ Lock /\ Entry(s) /\ \A t \in Slot : Entry(t) /\ Command(t)
  BY DEF IInv
<1>4. comms' = IF n = 1 THEN {} ELSE {s}
  BY TimersGone
<1>5. run' = [run EXCEPT ![s] = n]
  BY TimersGone
<1>6. CmdTypeOK'
  <2>1. Cardinality({}) = 0 /\ Cardinality({s}) = 1
    BY FS_EmptySet, FS_Singleton
  <2>2. run' \in [Slot -> 0 .. 1]
    BY <1>3, <1>5 DEF CmdTypeOK
  <2>3. exec' \in [Slot -> {"OPEN_START", "OPEN_DONE", "PREPARE", "PROCESS", "ERROR_TX",
                            "ERROR_RX", "CLOSE_START", "CLOSE_DONE", "EXIT"}]
    BY <1>3 DEF CmdTypeOK
  <2>4. comms' \subseteq Slot /\ Cardinality(comms') <= 1
    BY <1>4, <2>1
  <2>5. QED
    BY <1>3, <2>2, <2>3, <2>4 DEF CmdTypeOK, Entered, qvars, timevars, sessvars
<1>7. Working(s)'
  BY <1>3, <1>4, <1>5 DEF Working, AtWork, CmdTypeOK
<1>8. \A t \in Slot : t # s =>
        /\ run'[t] = run[t] /\ exec'[t] = exec[t] /\ t \notin comms /\ t \notin comms'
        /\ ~Working(t)
  BY <1>2, <1>3, <1>4, <1>5 DEF CmdTypeOK
<1>9. \A t \in Slot : Working(t)' => t = s
  BY <1>8 DEF Working, AtWork
<1>10. started' = started /\ (\A t \in Slot : HasLock(t)' <=> HasLock(t))
  BY DEF Entered, HasLock, qvars
<1>11. Started' /\ Turn' /\ Lock'
  BY <1>2, <1>3, <1>7, <1>9, <1>10 DEF Started, Turn, Lock
<1>12. Stray'
  <2>1. ASSUME NEW t \in Slot, ~unstored', AtWork(t)' PROVE exec'[t] # "EXIT"
    <3>1. CASE t = s
      BY <3>1, <1>3 DEF CmdTypeOK
    <3>2. CASE t # s
      BY <2>1, <3>2, <1>3, <1>8 DEF Stray, AtWork
    <3>3. QED
      BY <3>1, <3>2
  <2>2. QED
    BY <1>3, <2>1 DEF Stray
<1>13. ASSUME NEW t \in Slot PROVE (Entry(t) /\ Command(t))'
  <2>1. CASE t = s
    <3>1. /\ qstate'[s] = "PROCESSING" /\ caller'[s] = "busy"
          /\ cmd'[s] = cmd[s] /\ cmd'[s] # "none"
          /\ request_type'[s] = RequestType(cmd[s])
          /\ exec'[s] = next
          /\ s \in comms' => run'[s] = 0
      BY <1>2, <1>3, <1>4, <1>5 DEF qvars, CmdTypeOK
    <3>2. Entry(s)'
      BY <1>7, <3>1 DEF Entry, Waiting, RequestType
    <3>3. Command(s)'
      BY <3>1 DEF Command, NoDeviceError
    <3>4. QED
      BY <2>1, <3>2, <3>3
  <2>2. CASE t # s
    BY <2>2, <1>8, Untouched DEF qvars
  <2>3. QED
    BY <2>1, <2>2
<1>14. QED
  BY <1>6, <1>11, <1>12, <1>13 DEF IInv

\* Handlers that hand an operation to the communication layer.
LEMMA CommsStep ==
  ASSUME IInv, NEW s \in Slot, NEW by \in {"timer", "comms"},
         NEW next \in {"OPEN_DONE", "PROCESS", "ERROR_RX", "CLOSE_DONE"},
         Entered(s, by), exec[s] # "EXIT", CommsStart(s, by, next),
         notify' \in [Slot -> BOOLEAN], strict_wire' \subseteq Slot,
         next = "CLOSE_DONE" => cmd[s] = "hibernate",
         next = "ERROR_RX" => (notify'[s] /\ cmd[s] = "hibernate" => unstored)
  PROVE  IInv'
<1> DEFINE n == 0
<1>1. n \in {0, 1} /\ n = 0 /\ n # 1
  OBVIOUS
<1>2. /\ Timers(s, by, n) /\ comms = {} /\ comms' = {s}
      /\ exec' = [exec EXCEPT ![s] = next]
      /\ UNCHANGED <<qvars, caller, spurious, triggered, sched, cmd>>
      /\ chunks' = chunks /\ unstored' = unstored
  BY DEF CommsStart
<1>3. chunks' \in 0 .. MaxChunks /\ unstored' \in BOOLEAN
  BY <1>2 DEF IInv, CmdTypeOK
<1> HIDE DEF n
<1>4. comms' = IF n = 1 THEN CommsAfter(by) ELSE {s}
  BY <1>1, <1>2
<1>5. QED
  BY <1>1, <1>2, <1>3, <1>4, WorkStep

\* Handlers that register the timer of the instance.
LEMMA LaterStep ==
  ASSUME IInv, NEW s \in Slot, NEW by \in {"timer", "comms"},
         NEW next \in {"PREPARE", "PROCESS", "ERROR_TX", "CLOSE_START"},
         Entered(s, by), exec[s] # "EXIT", Later(s, by, next),
         notify' \in [Slot -> BOOLEAN], chunks' \in 0 .. MaxChunks,
         unstored' \in BOOLEAN, unstored => unstored',
         next = "ERROR_TX" => (notify'[s] /\ cmd[s] = "hibernate" => unstored')
  PROVE  IInv'
<1> DEFINE n == 1
<1>1. n \in {0, 1} /\ n = 1 /\ n # 0
  OBVIOUS
<1>2. /\ Timers(s, by, n) /\ comms' = CommsAfter(by)
      /\ exec' = [exec EXCEPT ![s] = next]
      /\ UNCHANGED <<qvars, caller, spurious, triggered, sched, cmd>>
      /\ strict_wire' = strict_wire
  BY DEF Later
<1>3. strict_wire' \subseteq Slot
  BY <1>2 DEF IInv, CmdTypeOK
<1> HIDE DEF n
<1>4. comms' = IF n = 1 THEN CommsAfter(by) ELSE {s}
  BY <1>1, <1>2
<1>5. QED
  BY <1>1, <1>2, <1>3, <1>4, WorkStep

\* A fragment of a strict sequence that is not the last: the instance pauses and
\* keeps the lock.
LEMMA PauseStep ==
  ASSUME IInv, NEW s \in Slot, NEW by \in {"timer", "comms"},
         Entered(s, by), exec[s] # "EXIT", cmd[s] \in {"start", "continue"},
         Timers(s, by, 0), comms' = CommsAfter(by),
         EventStart, Exit(s), UNCHANGED qvars, UNCHANGED <<unstored, strict_wire>>
  PROVE  IInv'
<1>1. AtWork(s) /\ run' = [run EXCEPT ![s] = 0] /\ comms' = {}
  BY TimersGone
<1>2. /\ qstate[s] = "PROCESSING" /\ caller[s] = "busy"
      /\ sched = 0 /\ ~triggered /\ started
      /\ request_type[s] = "STRICT"
      /\ \A t \in Slot : Working(t) \/ HasLock(t) \/ t \in comms => t = s
  BY <1>1, WorkerAlone DEF RequestType
<1>3. CmdTypeOK /\ Stray /\ Lock /\ \A t \in Slot : Entry(t) /\ Command(t)
  BY DEF IInv
<1>4. /\ sched' = 1 /\ triggered' /\ started' = started
      /\ caller' = [caller EXCEPT ![s] = "free"] /\ spurious' = spurious
      /\ exec' = [exec EXCEPT ![s] = "EXIT"] /\ cmd' = [cmd EXCEPT ![s] = "none"]
  BY <1>2, <1>3 DEF EventStart, Exit, CallHandler, Entered, CmdTypeOK
<1>5. CmdTypeOK'
  <2>1. Cardinality({}) = 0
    BY FS_EmptySet
  <2>2. run' \in [Slot -> 0 .. 1] /\ caller' \in [Slot -> {"absent", "free", "busy"}]
    BY <1>1, <1>3, <1>4 DEF CmdTypeOK
  <2>3. exec' \in [Slot -> {"OPEN_START", "OPEN_DONE", "PREPARE", "PROCESS", "ERROR_TX",
                            "ERROR_RX", "CLOSE_START", "CLOSE_DONE", "EXIT"}]
    BY <1>3, <1>4 DEF CmdTypeOK
  <2>4. cmd' \in [Slot -> Kinds \cup {"none"}] /\ notify' \in [Slot -> BOOLEAN]
    BY <1>3, <1>4 DEF CmdTypeOK, Exit
  <2>5. chunks' \in 0 .. MaxChunks
    BY ChunksAssumption DEF Exit
  <2>6. QED
    BY <1>1, <1>3, <1>4, <2>1, <2>2, <2>3, <2>4, <2>5
    DEF CmdTypeOK, Entered, qvars, timevars, sessvars
<1>6. \A t \in Slot : ~Working(t)'
  BY <1>1, <1>2, <1>3, <1>4 DEF Working, AtWork, CmdTypeOK
<1>7. \A t \in Slot : HasLock(t)' <=> HasLock(t)
  BY DEF HasLock, qvars
<1>8. Started' /\ Turn' /\ Lock'
  BY <1>2, <1>3, <1>4, <1>6, <1>7 DEF Started, Turn, Lock
<1>9. \A t \in Slot : t # s =>
        /\ run'[t] = run[t] /\ exec'[t] = exec[t] /\ caller'[t] = caller[t]
        /\ cmd'[t] = cmd[t] /\ t \notin comms /\ t \notin comms' /\ ~Working(t)
  BY <1>1, <1>2, <1>3, <1>4 DEF CmdTypeOK
<1>10. Stray'
  BY <1>1, <1>3, <1>4 DEF Stray, AtWork, CmdTypeOK
<1>11. ASSUME NEW t \in Slot PROVE (Entry(t) /\ Command(t))'
  <2>1. CASE t = s
    BY <2>1, <1>1, <1>2, <1>3, <1>4, <1>6
    DEF Entry, Command, Waiting, Paused, CmdTypeOK, qvars
  <2>2. CASE t # s
    BY <2>2, <1>9, Untouched DEF qvars
  <2>3. QED
    BY <2>1, <2>2
<1>12. QED
  BY <1>5, <1>8, <1>10, <1>11 DEF IInv

\* The command is over and the lock released, from whatever state.
LEMMA FinishNowStep ==
  ASSUME IInv, NEW s \in Slot, NEW by \in {"timer", "comms"}, NEW n \in {0, 1},
         Entered(s, by), exec[s] # "EXIT", n = 1 => unstored,
         Timers(s, by, n), comms' = CommsAfter(by), Finish(s),
         strict_wire' \subseteq Slot, unstored' = unstored
  PROVE  IInv'
<1>1. /\ exec' = [exec EXCEPT ![s] = "EXIT"] /\ cmd' = [cmd EXCEPT ![s] = "none"]
      /\ notify' \in [Slot -> BOOLEAN] /\ chunks' \in 0 .. MaxChunks
  BY ChunksAssumption DEF Finish, Exit, IInv, CmdTypeOK
<1>2. ResetSlot(s) /\ CallHandler(s)
  BY DEF Finish, Exit
<1>3. QED
  BY <1>1, <1>2, EndStep

\* A timer that a failed store has left behind: it calls the handler and is gone.
LEMMA StrayStep ==
  ASSUME IInv, NEW s \in Slot, NEW by \in {"timer", "comms"}, CaseExit(s, by)
  PROVE  IInv'
<1>1. CmdTypeOK /\ Stray /\ Lock /\ Turn /\ Started /\ \A t \in Slot : Entry(t) /\ Command(t)
  BY DEF IInv
<1>2. exec[s] = "EXIT" /\ by = "timer" /\ run[s] = 1 /\ s \notin comms
  BY <1>1 DEF CaseExit, Entered, Entry, CmdTypeOK
<1>3. unstored /\ started /\ caller[s] # "busy"
  BY <1>1, <1>2 DEF Stray, AtWork, Started, Entry, Working, Waiting
<1>4. /\ run' = [run EXCEPT ![s] = 0]
      /\ UNCHANGED <<comms, exec, cmd, qvars, triggered, sched, started, unstored>>
  <2>1. run[s] + 0 - 1 = 0
    BY <1>2
  <2>2. QED
    BY <1>2, <2>1 DEF CaseExit, Timers, CommsAfter, Entered, execvars
<1>5. caller'[s] # "busy" /\ \A t \in Slot : t # s => caller'[t] = caller[t]
  BY <1>1, <1>3 DEF CaseExit, CallHandler, CmdTypeOK
<1>6. CmdTypeOK'
  <2>1. run' \in [Slot -> 0 .. 1]
    BY <1>1, <1>4 DEF CmdTypeOK
  <2>2. caller' \in [Slot -> {"absent", "free", "busy"}] /\ spurious' \in BOOLEAN
    BY <1>1 DEF CaseExit, CallHandler, CmdTypeOK
  <2>3. QED
    BY <1>1, <1>4, <2>1, <2>2
    DEF CaseExit, CmdTypeOK, Entered, execvars, qvars, timevars, sessvars
<1>7. \A t \in Slot : /\ Working(t)' <=> Working(t)
                      /\ HasLock(t)' <=> HasLock(t)
  BY <1>1, <1>2, <1>4 DEF Working, AtWork, HasLock, qvars, CmdTypeOK
<1>8. Started' /\ Turn' /\ Lock' /\ Stray'
  BY <1>1, <1>3, <1>4, <1>7 DEF Started, Turn, Lock, Stray
<1>9. ASSUME NEW t \in Slot PROVE (Entry(t) /\ Command(t))'
  <2>1. CASE t = s
    <3>1. ~Working(s) /\ ~Waiting(s)
      BY <1>1, <1>2 DEF Working, Entry, AtWork
    <3>2. Waiting(s)' <=> Waiting(s)
      BY <1>4 DEF Waiting, qvars
    <3>3. Paused(s) => Paused(s)'
      BY <1>1, <1>4 DEF Paused, qvars, CaseExit, CallHandler, CmdTypeOK
    <3>4. QED
      BY <2>1, <3>1, <3>2, <3>3, <1>1, <1>2, <1>4, <1>5, <1>7
      DEF Entry, Command, qvars
  <2>2. CASE t # s
    BY <2>2, <1>1, <1>4, <1>5, Untouched DEF qvars, CaseExit, execvars, CmdTypeOK
  <2>3. QED
    BY <2>1, <2>2
<1>10. QED
  BY <1>6, <1>8, <1>9 DEF IInv

\* The cases of the state machine, by the state they start from.
LEMMA OpenStep ==
  ASSUME IInv, NEW s \in Slot, NEW by \in {"timer", "comms"},
         CaseOpenStart(s, by) \/ CaseOpenDone(s, by) \/ CasePrepare(s, by)
  PROVE  IInv'
<1>1. Entered(s, by) /\ exec[s] \in {"OPEN_START", "OPEN_DONE", "PREPARE"} /\ exec[s] # "EXIT"
  BY DEF CaseOpenStart, CaseOpenDone, CasePrepare
<1>2. CmdTypeOK
  BY DEF IInv
<1>3. CASE FinishNow(s, by) /\ UNCHANGED <<unstored, strict_wire>>
  BY <1>1, <1>2, <1>3, FinishNowStep DEF FinishNow, CmdTypeOK
<1>4. CASE /\ \E next \in {"OPEN_DONE", "PROCESS"} : CommsStart(s, by, next)
           /\ notify' \in [Slot -> BOOLEAN] /\ strict_wire' \subseteq Slot
  BY <1>1, <1>4, CommsStep
<1>5. CASE Later(s, by, "PREPARE") /\ UNCHANGED <<notify, chunks, unstored>>
  BY <1>1, <1>2, <1>5, LaterStep DEF CmdTypeOK
<1>6. CASE CaseOpenStart(s, by)
  BY <1>2, <1>3, <1>4, <1>6 DEF CaseOpenStart, CmdTypeOK
<1>7. CASE CaseOpenDone(s, by)
  BY <1>5, <1>7 DEF CaseOpenDone
<1>8. CASE CasePrepare(s, by)
  BY <1>2, <1>3, <1>4, <1>8 DEF CasePrepare, CmdTypeOK
<1>9. QED
  BY <1>6, <1>7, <1>8

LEMMA ProcessStep ==
  ASSUME IInv, NEW s \in Slot, NEW by \in {"timer", "comms"}, CaseProcess(s, by)
  PROVE  IInv'
<1>1. Entered(s, by) /\ exec[s] # "EXIT"
  BY DEF CaseProcess
<1>2. CmdTypeOK
  BY DEF IInv
<1>3. CASE FinishNow(s, by) /\ UNCHANGED <<unstored, strict_wire>>
  BY <1>1, <1>2, <1>3, FinishNowStep DEF FinishNow, CmdTypeOK
<1>4. CASE ProcessErrorCode(s, by)
  BY <1>3, <1>4 DEF ProcessErrorCode
<1>5. CASE ProcessLast(s, by)
  BY <1>1, <1>3, <1>5, PauseStep DEF ProcessLast
<1>6. CASE ProcessClosed(s, by)
  BY <1>1, <1>2, <1>6, LaterStep DEF ProcessClosed, CmdTypeOK
<1>7. CASE ProcessChained(s, by)
  <2>1. chunks' \in 0 .. MaxChunks
    BY <1>2, <1>7, ChunksAssumption DEF ProcessChained, CmdTypeOK
  <2>2. QED
    BY <1>1, <1>2, <1>7, <2>1, LaterStep DEF ProcessChained, CmdTypeOK
<1>8. CASE ProcessRejected(s, by)
  <2>1. notify' \in [Slot -> BOOLEAN] /\ (cmd[s] = "hibernate" => ~notify'[s])
    BY <1>2, <1>8 DEF ProcessRejected, CmdTypeOK
  <2>2. QED
    BY <1>1, <1>2, <1>8, <2>1, LaterStep DEF ProcessRejected, CmdTypeOK
<1>9. CASE ProcessUnstored(s, by)
  BY <1>1, <1>2, <1>9, LaterStep DEF ProcessUnstored, CmdTypeOK
<1>10. QED
  BY <1>4, <1>5, <1>6, <1>7, <1>8, <1>9 DEF CaseProcess

LEMMA ErrorStep ==
  ASSUME IInv, NEW s \in Slot, NEW by \in {"timer", "comms"},
         CaseErrorTx(s, by) \/ CaseErrorRx(s, by)
  PROVE  IInv'
<1>1. Entered(s, by) /\ exec[s] \in {"ERROR_TX", "ERROR_RX"} /\ exec[s] # "EXIT"
  BY DEF CaseErrorTx, CaseErrorRx
<1>2. CmdTypeOK /\ Command(s) /\ \A t \in Slot : Entry(t)
  BY DEF IInv
<1>3. Working(s)
  BY <1>1, <1>2 DEF Entered, Working, AtWork, CmdTypeOK
<1>4. NoDeviceError(s) => unstored
  BY <1>1, <1>2, <1>3 DEF Command
<1>5. CASE FinishNow(s, by) /\ UNCHANGED <<unstored, strict_wire>>
  BY <1>1, <1>2, <1>5, FinishNowStep DEF FinishNow, CmdTypeOK
<1>6. CASE CommsStart(s, by, "ERROR_RX") /\ strict_wire' = {} /\ UNCHANGED notify
  BY <1>1, <1>2, <1>4, <1>6, CommsStep DEF CmdTypeOK, NoDeviceError
<1>7. CASE Later(s, by, "PROCESS") /\ UNCHANGED <<notify, chunks, unstored>>
  BY <1>1, <1>2, <1>7, LaterStep DEF CmdTypeOK
<1>8. CASE /\ NoDeviceError(s) /\ Timers(s, by, 1) /\ comms' = CommsAfter(by)
           /\ Finish(s) /\ UNCHANGED <<unstored, strict_wire>>
  BY <1>1, <1>2, <1>4, <1>8, FinishNowStep DEF CmdTypeOK
<1>9. QED
  BY <1>5, <1>6, <1>7, <1>8 DEF CaseErrorTx, CaseErrorRx

LEMMA CloseStep ==
  ASSUME IInv, NEW s \in Slot, NEW by \in {"timer", "comms"},
         CaseCloseStart(s, by) \/ CaseCloseDone(s, by)
  PROVE  IInv'
<1>1. /\ Entered(s, by) /\ exec[s] \in {"CLOSE_START", "CLOSE_DONE"} /\ exec[s] # "EXIT"
      /\ strict_wire' = strict_wire
  BY DEF CaseCloseStart, CaseCloseDone
<1>2. CmdTypeOK /\ Command(s)
  BY DEF IInv
<1>3. Working(s)
  BY <1>1, <1>2 DEF Entered, Working, AtWork, CmdTypeOK
<1>4. CASE FinishNow(s, by) /\ UNCHANGED unstored
  BY <1>1, <1>2, <1>4, FinishNowStep DEF FinishNow, CmdTypeOK
<1>5. CASE cmd[s] = "hibernate" /\ CommsStart(s, by, "CLOSE_DONE") /\ UNCHANGED notify
  BY <1>1, <1>2, <1>5, CommsStep DEF CmdTypeOK
<1>6. CASE Closed(s, by, TRUE)
  <2> DEFINE n == 0
             x == "CLOSE_DONE"
             c == cmd[s]
  <2>1. n \in {0, 1} /\ n # 1 /\ x \in {"EXIT", "CLOSE_DONE"} /\ c \in {cmd[s], "none"}
    OBVIOUS
  <2>2. /\ Timers(s, by, n) /\ comms' = CommsAfter(by) /\ ResetSlot(s) /\ CallHandler(s)
        /\ exec' = [exec EXCEPT ![s] = x] /\ unstored' = unstored
    BY <1>6 DEF Closed
  <2>3. cmd' = [cmd EXCEPT ![s] = c]
    BY <1>2, <1>6 DEF Closed, CmdTypeOK
  <2>4. /\ notify' \in [Slot -> BOOLEAN] /\ chunks' \in 0 .. MaxChunks
        /\ strict_wire' \subseteq Slot
    BY <1>1, <1>2, <1>6 DEF Closed, CmdTypeOK
  <2> HIDE DEF n, x, c
  <2>5. QED
    BY <1>1, <2>1, <2>2, <2>3, <2>4, EndStep
<1>7. CASE CaseCloseDone(s, by)
  <2>1. (cmd[s] = "hibernate") = TRUE
    BY <1>2, <1>3, <1>7 DEF Command, CaseCloseDone
  <2>2. QED
    BY <1>6, <1>7, <2>1 DEF CaseCloseDone
<1>8. CASE CaseCloseStart(s, by)
  BY <1>4, <1>5, <1>6, <1>8 DEF CaseCloseStart
<1>9. QED
  BY <1>7, <1>8

LEMMA HandlerStep ==
  ASSUME IInv, NEW s \in Slot, Timer(s) \/ CommsDone(s)
  PROVE  IInv'
<1>1. ASSUME NEW by \in {"timer", "comms"}, ExecuteHandler(s, by) PROVE IInv'
  BY <1>1, OpenStep, ProcessStep, ErrorStep, CloseStep, StrayStep DEF ExecuteHandler
<1>2. CASE CommsError(s)
  <2>1. Entered(s, "comms") /\ exec[s] # "EXIT" /\ CmdTypeOK
    BY <1>2 DEF CommsError, Entered, IInv, Entry
  <2>2. QED
    BY <1>2, <2>1, FinishNowStep DEF CommsError, FinishNow, CmdTypeOK
<1>3. QED
  BY <1>1, <1>2 DEF Timer, CommsDone

-----------------------------------------------------------------------------
(* Calls of the application and the scheduler                               *)

\* An instance whose caller does not wait has nothing under way, unless it is
\* the timer that a failed store left behind.
LEMMA FreeIsIdle ==
  ASSUME IInv, NEW s \in Slot, caller[s] # "busy"
  PROVE  /\ ~Working(s) /\ ~Waiting(s) /\ s \notin comms
         /\ ~unstored => ~AtWork(s)
         /\ qstate[s] = "PROCESSING" => Paused(s)
BY DEF IInv, Entry, Stray, Working, AtWork

LEMMA CreateStep ==
  ASSUME IInv, NEW s \in Slot, Create(s)
  PROVE  IInv'
<1>1. CmdTypeOK /\ Started /\ Turn /\ Lock /\ Stray /\ \A t \in Slot : Entry(t)
  BY DEF IInv
<1>2. /\ qstate[s] = "NOT_ASSIGNED" /\ qstate' = [qstate EXCEPT ![s] = "ASSIGNED"]
      /\ caller' = [caller EXCEPT ![s] = "free"] /\ started' = TRUE
      /\ UNCHANGED <<request_type, run, comms, exec, cmd, notify, unstored, spurious>>
  BY DEF Create, execvars
<1>3. /\ ~Working(s) /\ ~Waiting(s) /\ ~HasLock(s) /\ request_type[s] = "none"
      /\ caller[s] # "busy" /\ s \notin comms
  BY <1>1, <1>2 DEF Entry, Working, AtWork, Waiting, HasLock
<1>4. /\ started => sched' = sched /\ triggered' = triggered
      /\ ~started => sched' = 1 /\ triggered' = TRUE
  BY <1>1 DEF Create, EventStart, Started
<1>5. CmdTypeOK'
  <2>1. qstate' \in [Slot -> {"NOT_ASSIGNED", "ASSIGNED", "REQUEST", "PROCESSING", "RESUME"}]
    BY <1>1, <1>2 DEF CmdTypeOK
  <2>2. caller' \in [Slot -> {"absent", "free", "busy"}]
    BY <1>1, <1>2 DEF CmdTypeOK
  <2>3. session' \in [Slot -> 0 .. MAX_SESSIONS]
    BY <1>1, SessionsAssumption DEF CmdTypeOK, Create
  <2>4. sched' \in 0 .. 1 /\ triggered' \in BOOLEAN
    <3>1. CASE started
      BY <3>1, <1>1, <1>4 DEF CmdTypeOK
    <3>2. CASE ~started
      BY <3>2, <1>4
    <3>3. QED
      BY <3>1, <3>2
  <2>5. QED
    BY <1>1, <1>2, <2>1, <2>2, <2>3, <2>4 DEF CmdTypeOK, Create, timevars, execvars
<1>6. \A t \in Slot : /\ Working(t)' <=> Working(t)
                      /\ AtWork(t)' <=> AtWork(t)
                      /\ HasLock(t)' <=> HasLock(t)
  BY <1>1, <1>2, <1>3 DEF Working, AtWork, HasLock, CmdTypeOK
<1>7. ~started => \A t \in Slot : ~Working(t) /\ ~HasLock(t)
  BY <1>1 DEF Started, Working, HasLock
<1>8. Started' /\ Turn' /\ Lock' /\ Stray'
  BY <1>1, <1>2, <1>4, <1>6, <1>7 DEF Started, Turn, Lock, Stray
<1>9. ASSUME NEW t \in Slot PROVE (Entry(t) /\ Command(t))'
  <2>1. CASE t = s
    BY <2>1, <1>1, <1>2, <1>3, <1>6 DEF Entry, Command, Waiting, Paused, CmdTypeOK
  <2>2. CASE t # s
    <3>1. /\ qstate'[t] = qstate[t] /\ request_type'[t] = request_type[t]
          /\ caller'[t] = caller[t] /\ exec'[t] = exec[t] /\ cmd'[t] = cmd[t]
          /\ run'[t] = run[t] /\ comms' = comms
          /\ notify'[t] = notify[t] /\ unstored' = unstored
      BY <2>2, <1>1, <1>2 DEF CmdTypeOK
    <3>2. QED
      BY <3>1, Untouched
  <2>3. QED
    BY <2>1, <2>2
<1>10. QED
  BY <1>5, <1>8, <1>9 DEF IInv

LEMMA DestroyStep ==
  ASSUME IInv, NEW s \in Slot, Destroy(s)
  PROVE  IInv'
<1>1. CmdTypeOK /\ Started /\ Turn /\ Lock /\ Stray /\ \A t \in Slot : Entry(t)
  BY DEF IInv
<1>2. /\ caller[s] = "free" /\ caller' = [caller EXCEPT ![s] = "absent"]
      /\ qstate' = [qstate EXCEPT ![s] = "NOT_ASSIGNED"]
      /\ request_type' = [request_type EXCEPT ![s] = "none"]
      /\ UNCHANGED <<run, comms, exec, cmd, notify, unstored, spurious, started,
                    triggered, sched>>
  BY DEF Destroy, execvars
<1>3. ~Working(s) /\ ~Waiting(s) /\ s \notin comms /\ started
  BY <1>1, <1>2, FreeIsIdle DEF Started
<1>4. CmdTypeOK'
  <2>1. qstate' \in [Slot -> {"NOT_ASSIGNED", "ASSIGNED", "REQUEST", "PROCESSING", "RESUME"}]
    BY <1>1, <1>2 DEF CmdTypeOK
  <2>2. caller' \in [Slot -> {"absent", "free", "busy"}]
    BY <1>1, <1>2 DEF CmdTypeOK
  <2>3. request_type' \in [Slot -> {"none", "LOCK", "SESSION", "STRICT"}]
    BY <1>1, <1>2 DEF CmdTypeOK
  <2>4. session' \in [Slot -> 0 .. MAX_SESSIONS] /\ sessions' \subseteq 1 .. MAX_SESSIONS
    <3>1. 0 \in 0 .. MAX_SESSIONS
      BY SessionsAssumption
    <3>2. session' = [session EXCEPT ![s] = 0] /\ sessions' \subseteq sessions
      BY DEF Destroy, SessionFree
    <3>3. QED
      BY <1>1, <3>1, <3>2 DEF CmdTypeOK
  <2>5. QED
    BY <1>1, <1>2, <2>1, <2>2, <2>3, <2>4 DEF CmdTypeOK, Destroy, timevars, execvars
<1>5. \A t \in Slot : /\ Working(t)' <=> Working(t)
                      /\ AtWork(t)' <=> AtWork(t)
                      /\ HasLock(t)' => HasLock(t)
  BY <1>1, <1>2 DEF Working, AtWork, HasLock, CmdTypeOK
<1>6. Started' /\ Turn' /\ Lock' /\ Stray'
  BY <1>1, <1>2, <1>3, <1>5 DEF Started, Turn, Lock, Stray
<1>7. ASSUME NEW t \in Slot PROVE (Entry(t) /\ Command(t))'
  <2>1. CASE t = s
    BY <2>1, <1>1, <1>2, <1>3, <1>5 DEF Entry, Command, Waiting, Paused, CmdTypeOK
  <2>2. CASE t # s
    <3>1. /\ qstate'[t] = qstate[t] /\ request_type'[t] = request_type[t]
          /\ caller'[t] = caller[t] /\ exec'[t] = exec[t] /\ cmd'[t] = cmd[t]
          /\ run'[t] = run[t] /\ comms' = comms
          /\ notify'[t] = notify[t] /\ unstored' = unstored
      BY <2>2, <1>1, <1>2 DEF CmdTypeOK
    <3>2. QED
      BY <3>1, Untouched
  <2>3. QED
    BY <2>1, <2>2
<1>8. QED
  BY <1>4, <1>6, <1>7 DEF IInv

LEMMA UpdateSlotTypes ==
  ASSUME CmdTypeOK, NEW s \in Slot, NEW type \in {"LOCK", "SESSION", "STRICT"},
         UpdateSlot(s, type)
  PROVE  /\ arrival' \in [Slot -> 0 .. Round - 1]
         /\ ahead' \in [Slot -> SUBSET Slot]
         /\ now' \in 0 .. Round - 1 /\ wrapped' \in BOOLEAN
         /\ last_time_stamp' = last_time_stamp
<1>1. CASE UNCHANGED <<arrival, ahead, timevars>>
  BY <1>1 DEF CmdTypeOK, timevars
<1>2. CASE /\ TimePasses /\ arrival' = [arrival EXCEPT ![s] = now']
           /\ ahead' = [ahead EXCEPT ![s] = InState("REQUEST")]
  <2>1. PICK d \in 1 .. Round : /\ now' = (now + d) % Round
                               /\ wrapped' = (wrapped \/ now' < now)
                               /\ UNCHANGED last_time_stamp
    BY <1>2 DEF TimePasses
  <2>2. now + d \in Int
    BY RoundAssumption DEF CmdTypeOK
  <2>3. now' \in 0 .. Round - 1
    BY <2>1, <2>2, ClockRange
  <2>4. wrapped' \in BOOLEAN
    BY <2>1 DEF CmdTypeOK
  <2>5. InState("REQUEST") \in SUBSET Slot
    BY DEF InState
  <2>6. QED
    BY <1>2, <2>1, <2>3, <2>4, <2>5 DEF CmdTypeOK
<1>3. QED
  BY <1>1, <1>2 DEF UpdateSlot

LEMMA RequestStep ==
  ASSUME IInv, ~unstored, NEW s \in Slot, NEW c \in Commands, Request(s, c)
  PROVE  IInv'
<1>1. CmdTypeOK /\ Started /\ Turn /\ Lock /\ Stray /\ \A t \in Slot : Entry(t)
  BY DEF IInv
<1>2. c \in Kinds /\ c # "none"
  BY CommandsAssumption DEF Kinds
<1>3. RequestType(c) \in {"LOCK", "SESSION", "STRICT"}
  BY DEF RequestType
<1>4. PICK x \in {"OPEN_START", "PREPARE"} : exec' = [exec EXCEPT ![s] = x]
  BY DEF Request
<1>5. PICK q \in {"RESUME", "REQUEST"} :
        /\ qstate' = [qstate EXCEPT ![s] = q]
        /\ q = "RESUME" => request_type[s] = "STRICT" /\ RequestType(c) = "STRICT"
  BY DEF Request, UpdateSlot
<1>6. /\ caller[s] = "free" /\ caller' = [caller EXCEPT ![s] = "busy"]
      /\ cmd' = [cmd EXCEPT ![s] = c]
      /\ request_type' = [request_type EXCEPT ![s] = RequestType(c)]
      /\ UNCHANGED <<notify, chunks, started, triggered, sched, run, comms,
                    unstored, strict_wire, spurious>>
  BY DEF Request, UpdateSlot
<1>7. /\ ~Working(s) /\ ~AtWork(s) /\ started
      /\ request_type[s] = "STRICT" => HasLock(s)
  BY <1>1, <1>6, FreeIsIdle DEF Started, Entry, HasLock, CmdTypeOK, Waiting
<1>8. CmdTypeOK'
  <2>1. qstate' \in [Slot -> {"NOT_ASSIGNED", "ASSIGNED", "REQUEST", "PROCESSING", "RESUME"}]
    BY <1>1, <1>5 DEF CmdTypeOK
  <2>2. caller' \in [Slot -> {"absent", "free", "busy"}]
    BY <1>1, <1>6 DEF CmdTypeOK
  <2>3. request_type' \in [Slot -> {"none", "LOCK", "SESSION", "STRICT"}]
    BY <1>1, <1>3, <1>6 DEF CmdTypeOK
  <2>4. cmd' \in [Slot -> Kinds \cup {"none"}]
    BY <1>1, <1>2, <1>6 DEF CmdTypeOK
  <2>5. exec' \in [Slot -> {"OPEN_START", "OPEN_DONE", "PREPARE", "PROCESS", "ERROR_TX",
                            "ERROR_RX", "CLOSE_START", "CLOSE_DONE", "EXIT"}]
    BY <1>1, <1>4 DEF CmdTypeOK
  <2>6. UpdateSlot(s, RequestType(c)) /\ UNCHANGED sessvars
    BY DEF Request
  <2>7. /\ arrival' \in [Slot -> 0 .. Round - 1]
        /\ ahead' \in [Slot -> SUBSET Slot]
        /\ now' \in 0 .. Round - 1 /\ wrapped' \in BOOLEAN
        /\ last_time_stamp' = last_time_stamp
    BY <1>1, <1>3, <2>6, UpdateSlotTypes
  <2>8. QED
    BY <1>1, <1>6, <2>1, <2>2, <2>3, <2>4, <2>5, <2>6, <2>7 DEF CmdTypeOK, sessvars
<1>9. \A t \in Slot : /\ Working(t)' <=> Working(t)
                      /\ AtWork(t)' <=> AtWork(t)
                      /\ HasLock(t)' => HasLock(t)
  BY <1>1, <1>4, <1>5, <1>6, <1>7 DEF Working, AtWork, HasLock, CmdTypeOK
<1>10. Stray'
  BY <1>1, <1>6, <1>7, <1>9, <1>4 DEF Stray, CmdTypeOK
<1>11. Started' /\ Turn' /\ Lock'
  BY <1>1, <1>6, <1>7, <1>9 DEF Started, Turn, Lock
<1>12. ASSUME NEW t \in Slot PROVE (Entry(t) /\ Command(t))'
  <2>1. CASE t = s
    <3>1. /\ qstate'[s] = q /\ caller'[s] = "busy" /\ exec'[s] = x /\ cmd'[s] = c
          /\ request_type'[s] = RequestType(c)
      BY <1>1, <1>4, <1>5, <1>6 DEF CmdTypeOK
    <3>2. ~Working(s)' /\ ~AtWork(s)' /\ s \notin comms'
      BY <1>6, <1>7, <1>9 DEF AtWork
    <3>3. RequestType(cmd[s])' = RequestType(c)
      BY <3>1 DEF RequestType
    <3>4. Entry(s)' /\ Command(s)'
      BY <1>2, <1>5, <3>1, <3>2, <3>3 DEF Entry, Command, Waiting
    <3>5. QED
      BY <2>1, <3>4
  <2>2. CASE t # s
    <3>1. /\ qstate'[t] = qstate[t] /\ request_type'[t] = request_type[t]
          /\ caller'[t] = caller[t] /\ exec'[t] = exec[t] /\ cmd'[t] = cmd[t]
          /\ run'[t] = run[t] /\ comms' = comms
          /\ notify'[t] = notify[t] /\ unstored' = unstored
      BY <2>2, <1>1, <1>4, <1>5, <1>6 DEF CmdTypeOK
    <3>2. QED
      BY <3>1, Untouched
  <2>3. QED
    BY <2>1, <2>2
<1>13. QED
  BY <1>8, <1>10, <1>11, <1>12 DEF IInv

LEMMA ReleaseStep ==
  ASSUME IInv, ~unstored, NEW s \in Slot, ReleaseSequence(s)
  PROVE  IInv'
<1>1. CmdTypeOK /\ Started /\ Turn /\ Lock /\ Stray /\ \A t \in Slot : Entry(t)
  BY DEF IInv
<1>2. /\ caller[s] = "free" /\ qstate[s] = "PROCESSING"
      /\ qstate' = [qstate EXCEPT ![s] = "ASSIGNED"]
      /\ request_type' = [request_type EXCEPT ![s] = "none"]
      /\ exec' = [exec EXCEPT ![s] = "EXIT"]
      /\ UNCHANGED <<run, comms, cmd, notify, chunks, caller, unstored, spurious, started>>
  BY DEF ReleaseSequence, ResetSlot, MayStart
<1>3. ~Working(s) /\ ~AtWork(s) /\ HasLock(s) /\ triggered /\ started
  BY <1>1, <1>2, FreeIsIdle DEF Lock, HasLock, Started
<1>4. sched' = sched /\ triggered' = TRUE
  BY <1>3 DEF ReleaseSequence, ResetSlot, EventStart
<1>5. CmdTypeOK'
  <2>1. qstate' \in [Slot -> {"NOT_ASSIGNED", "ASSIGNED", "REQUEST", "PROCESSING", "RESUME"}]
    BY <1>1, <1>2 DEF CmdTypeOK
  <2>2. request_type' \in [Slot -> {"none", "LOCK", "SESSION", "STRICT"}]
    BY <1>1, <1>2 DEF CmdTypeOK
  <2>3. exec' \in [Slot -> {"OPEN_START", "OPEN_DONE", "PREPARE", "PROCESS", "ERROR_TX",
                            "ERROR_RX", "CLOSE_START", "CLOSE_DONE", "EXIT"}]
    BY <1>1, <1>2 DEF CmdTypeOK
  <2>4. arrival' \in [Slot -> 0 .. Round - 1]
    BY <1>1, RoundAssumption DEF CmdTypeOK, ReleaseSequence, ResetSlot, NeverArrived
  <2>5. QED
    BY <1>1, <1>2, <1>4, <2>1, <2>2, <2>3, <2>4
    DEF CmdTypeOK, ReleaseSequence, timevars, sessvars
<1>6. \A t \in Slot : /\ Working(t)' <=> Working(t)
                      /\ AtWork(t)' <=> AtWork(t)
                      /\ HasLock(t)' => HasLock(t) /\ t # s
  BY <1>1, <1>2, <1>3 DEF Working, AtWork, HasLock, CmdTypeOK
<1>7. Stray'
  BY <1>1, <1>2, <1>3, <1>6 DEF Stray, CmdTypeOK
<1>8. Started' /\ Turn' /\ Lock'
  BY <1>1, <1>2, <1>3, <1>4, <1>6 DEF Started, Turn, Lock
<1>9. ASSUME NEW t \in Slot PROVE (Entry(t) /\ Command(t))'
  <2>1. CASE t = s
    <3>1. qstate'[s] = "ASSIGNED" /\ request_type'[s] = "none" /\ caller'[s] = "free"
      BY <1>1, <1>2 DEF CmdTypeOK
    <3>2. ~Working(s)' /\ ~AtWork(s)' /\ s \notin comms'
      BY <1>2, <1>3, <1>6 DEF AtWork
    <3>3. QED
      BY <2>1, <3>1, <3>2 DEF Entry, Command, Waiting
  <2>2. CASE t # s
    <3>1. /\ qstate'[t] = qstate[t] /\ request_type'[t] = request_type[t]
          /\ caller'[t] = caller[t] /\ exec'[t] = exec[t] /\ cmd'[t] = cmd[t]
          /\ run'[t] = run[t] /\ comms' = comms
          /\ notify'[t] = notify[t] /\ unstored' = unstored
      BY <2>2, <1>1, <1>2 DEF CmdTypeOK
    <3>2. QED
      BY <3>1, Untouched
  <2>3. QED
    BY <2>1, <2>2
<1>10. QED
  BY <1>5, <1>7, <1>8, <1>9 DEF IInv

\* When the scheduler looks for a slot, nobody works, and only an instance that
\* resumes its strict sequence has the lock.
LEMMA SchedulerAlone ==
  ASSUME IInv, sched > 0, ~Idle
  PROVE  /\ sched = 1 /\ started
         /\ \A t \in Slot : ~Working(t) /\ t \notin comms
         /\ \A t \in Slot : HasLock(t) => Resuming /\ t \in InState("RESUME") \cap Strict
<1>1. CmdTypeOK /\ Started /\ Turn /\ Lock /\ \A t \in Slot : Entry(t)
  BY DEF IInv
<1>2. sched = 1 /\ started
  BY <1>1 DEF CmdTypeOK, Started
<1>3. \A t \in Slot : ~Working(t) /\ t \notin comms
  BY <1>1, <1>2 DEF Turn, Entry, Working, AtWork
<1>4. ASSUME NEW t \in Slot, HasLock(t)
      PROVE  Resuming /\ t \in InState("RESUME") \cap Strict
  <2>1. \A u \in Slot : HasLock(u) => u = t
    BY <1>1, <1>4 DEF Lock
  <2>2. CASE qstate[t] = "RESUME"
    <3>1. request_type[t] = "STRICT"
      BY <1>1, <2>2 DEF Entry
    <3>2. /\ t \in InState("RESUME") /\ InState("RESUME") \in SUBSET Slot
          /\ \A u \in InState("RESUME") : u = t
      BY <2>1, <2>2 DEF InState, HasLock
    <3>3. Cardinality(InState("RESUME")) = 1
      BY <3>2, OneMember
    <3>4. QED
      BY <3>1, <3>2, <3>3 DEF Resuming, Strict
  <2>3. CASE qstate[t] = "PROCESSING"
    <3>1. request_type[t] = "STRICT"
      BY <1>1, <1>3, <2>3 DEF Entry, Paused
    <3>2. /\ t \in InState("PROCESSING") /\ InState("PROCESSING") \in SUBSET Slot
          /\ \A u \in InState("PROCESSING") : u = t
      BY <2>1, <2>3 DEF InState, HasLock
    <3>3. Cardinality(InState("PROCESSING")) = 1
      BY <3>2, OneMember
    <3>4. Idle
      BY <3>1, <3>3 DEF Idle, Strict
    <3>5. QED
      BY <3>4
  <2>4. QED
    BY <1>4, <2>2, <2>3 DEF HasLock
<1>5. QED
  BY <1>2, <1>3, <1>4

\* A candidate waits, and is the only one that may have the lock.
LEMMA CandidateWaits ==
  ASSUME IInv, sched > 0, ~Idle, NEW s \in Candidates
  PROVE  /\ s \in Slot /\ Waiting(s)
         /\ \A t \in Slot : HasLock(t) => t = s
         /\ Resuming => request_type[s] = "STRICT"
<1>1. \A t \in Slot : HasLock(t) => Resuming /\ t \in InState("RESUME") \cap Strict
  BY SchedulerAlone
<1>2. Lock
  BY DEF IInv
<1>3. CASE Resuming
  BY <1>1, <1>2, <1>3 DEF Candidates, InState, Strict, Waiting, HasLock, Lock
<1>4. CASE ~Resuming
  BY <1>1, <1>4 DEF Candidates, Eligible, InState, Waiting
<1>5. QED
  BY <1>3, <1>4

LEMMA PickStep ==
  ASSUME IInv, Pick
  PROVE  IInv'
<1>1. CmdTypeOK /\ Started /\ Turn /\ Lock /\ Stray /\ \A t \in Slot : Entry(t)
  BY DEF IInv
<1>2. sched > 0 /\ ~Idle
  BY DEF Pick
<1>3. PICK s \in Candidates :
        /\ SessionAssign(s)
        /\ run' = [run EXCEPT ![s] = @ + 1]
        /\ qstate' = [qstate EXCEPT ![s] = "PROCESSING"]
        /\ last_time_stamp' = arrival[s]
        /\ ahead' = [t \in Slot |-> IF t = s THEN {} ELSE ahead[t] \ {s}]
        /\ wrapped' = (wrapped /\ (InState("REQUEST") \ {s} # {} \/ arrival[s] > now))
  BY DEF Pick
<1>4. s \in Slot /\ Waiting(s) /\ \A t \in Slot : HasLock(t) => t = s
  BY <1>2, <1>3, CandidateWaits
<1>5. sched = 1 /\ started /\ \A t \in Slot : ~Working(t) /\ t \notin comms
  BY <1>2, SchedulerAlone
<1>6. /\ ~AtWork(s) /\ caller[s] = "busy" /\ exec[s] \in {"OPEN_START", "PREPARE"}
      /\ request_type[s] = RequestType(cmd[s]) /\ cmd[s] # "none" /\ run[s] = 0
  BY <1>1, <1>4 DEF Entry, AtWork, CmdTypeOK
<1>7. /\ sched' = 0 /\ triggered' = FALSE
      /\ UNCHANGED <<request_type, arrival, now, execvars, caller, started, comms,
                    unstored, strict_wire, spurious>>
  BY <1>5 DEF Pick
<1>8. run' = [run EXCEPT ![s] = 1]
  BY <1>3, <1>6
<1>9. CmdTypeOK'
  <2>1. qstate' \in [Slot -> {"NOT_ASSIGNED", "ASSIGNED", "REQUEST", "PROCESSING", "RESUME"}]
    BY <1>1, <1>3 DEF CmdTypeOK
  <2>2. run' \in [Slot -> 0 .. 1]
    <3>1. run \in [Slot -> 0 .. 1] /\ 1 \in 0 .. 1
      BY <1>1 DEF CmdTypeOK
    <3>2. QED
      BY <1>8, <3>1
  <2>3. session' \in [Slot -> 0 .. MAX_SESSIONS] /\ sessions' \subseteq 1 .. MAX_SESSIONS
    <3>1. CASE UNCHANGED sessvars
      BY <3>1, <1>1 DEF CmdTypeOK, sessvars
    <3>2. CASE \E o \in (1 .. MAX_SESSIONS) \ sessions :
                 session' = [session EXCEPT ![s] = o] /\ sessions' = sessions \cup {o}
      <4>1. PICK o \in 1 .. MAX_SESSIONS :
              session' = [session EXCEPT ![s] = o] /\ sessions' = sessions \cup {o}
        BY <3>2
      <4>2. o \in 0 .. MAX_SESSIONS
        BY SessionsAssumption
      <4>3. QED
        BY <4>1, <4>2, <1>1 DEF CmdTypeOK
    <3>3. QED
      BY <1>3, <3>1, <3>2 DEF SessionAssign
  <2>4. last_time_stamp' \in 0 .. Round - 1
    BY <1>1, <1>3, <1>4 DEF CmdTypeOK
  <2>5. ahead' \in [Slot -> SUBSET Slot]
    BY <1>1, <1>3 DEF CmdTypeOK
  <2>6. wrapped' \in BOOLEAN
    BY <1>3
  <2>7. sched' \in 0 .. 1 /\ triggered' \in BOOLEAN
    <3>1. 0 \in 0 .. 1 /\ FALSE \in BOOLEAN
      OBVIOUS
    <3>2. sched' = 0 /\ triggered' = FALSE
      BY <1>7
    <3>3. QED
      BY <3>1, <3>2, Zenon
  <2>8. /\ request_type' = request_type /\ arrival' = arrival /\ now' = now
        /\ caller' = caller /\ started' = started /\ comms' = comms
        /\ unstored' = unstored /\ strict_wire' = strict_wire /\ spurious' = spurious
        /\ cmd' = cmd /\ exec' = exec /\ notify' = notify /\ chunks' = chunks
    BY <1>7 DEF execvars
  <2>9. QED
    BY <1>1, <2>1, <2>2, <2>3, <2>4, <2>5, <2>6, <2>7, <2>8 DEF CmdTypeOK
<1>10. /\ Working(s)' /\ HasLock(s)'
       /\ qstate'[s] = "PROCESSING" /\ run'[s] = 1 /\ s \notin comms'
  BY <1>1, <1>3, <1>4, <1>5, <1>6, <1>7, <1>8
  DEF Working, AtWork, HasLock, execvars, CmdTypeOK
<1>11. \A t \in Slot : t # s =>
         /\ qstate'[t] = qstate[t] /\ run'[t] = run[t]
         /\ ~Working(t)' /\ ~HasLock(t)'
  BY <1>1, <1>3, <1>4, <1>5, <1>7, <1>8
  DEF Working, AtWork, HasLock, execvars, CmdTypeOK
<1>12. Started' /\ Turn' /\ Lock'
  BY <1>4, <1>5, <1>7, <1>10, <1>11 DEF Started, Turn, Lock
<1>13. Stray'
  BY <1>1, <1>4, <1>6, <1>7, <1>11 DEF Stray, AtWork, execvars
<1>14. ASSUME NEW t \in Slot PROVE (Entry(t) /\ Command(t))'
  <2>1. CASE t = s
    <3>1. /\ caller'[s] = "busy" /\ exec'[s] \in {"OPEN_START", "PREPARE"}
          /\ request_type'[s] = RequestType(cmd[s])' /\ cmd'[s] # "none"
      BY <1>6, <1>7 DEF execvars, RequestType
    <3>2. QED
      BY <2>1, <1>10, <3>1 DEF Entry, Command, Waiting
  <2>2. CASE t # s
    BY <2>2, <1>7, <1>11, Untouched DEF execvars
  <2>3. QED
    BY <2>1, <2>2
<1>15. QED
  BY <1>9, <1>12, <1>13, <1>14 DEF IInv

LEMMA PickNoneStep ==
  ASSUME IInv, PickNone
  PROVE  IInv'
<1>1. CmdTypeOK /\ Started /\ Turn /\ Lock /\ Stray /\ \A t \in Slot : Entry(t)
  BY DEF IInv
<1>2. sched > 0 /\ ~Idle /\ Candidates = {}
  BY DEF PickNone
<1>3. sched = 1 /\ started /\ \A t \in Slot : ~Working(t)
  BY <1>2, SchedulerAlone
<1>4. \A t \in Slot : ~HasLock(t)
  BY <1>2, SchedulerAlone DEF Candidates
<1>5. last_time_stamp' \in 0 .. Round - 1
  BY <1>1, RoundAssumption, RegistrationsAssumption DEF PickNone, From, CmdTypeOK
<1>6. /\ triggered' = FALSE
      /\ UNCHANGED <<qstate, request_type, run, comms, exec, cmd, notify, caller,
                    unstored, spurious, started, sched>>
  BY DEF PickNone, qvars, execvars
<1>7. CmdTypeOK'
  BY <1>1, <1>5, <1>6 DEF CmdTypeOK, PickNone, qvars, execvars, sessvars
<1>8. \A t \in Slot : ~Working(t)' /\ ~HasLock(t)' /\ (AtWork(t)' <=> AtWork(t))
  BY <1>3, <1>4, <1>6 DEF Working, AtWork, HasLock
<1>9. Started' /\ Turn' /\ Lock' /\ Stray'
  BY <1>1, <1>3, <1>6, <1>8 DEF Started, Turn, Lock, Stray
<1>10. ASSUME NEW t \in Slot PROVE (Entry(t) /\ Command(t))'
  BY <1>6, Untouched
<1>11. QED
  BY <1>7, <1>9, <1>10 DEF IInv

-----------------------------------------------------------------------------
(* The invariant                                                            *)

LEMMA InitIInv ==
  ASSUME Init
  PROVE  IInv
<1>1. Round \in Nat /\ Round > 0 /\ 0 \in 0 .. Round - 1
  BY RoundAssumption, RegistrationsAssumption
<1>2. 0 \in 0 .. MAX_SESSIONS /\ 0 \in 0 .. MaxChunks /\ Cardinality({}) = 0
  BY SessionsAssumption, ChunksAssumption, FS_EmptySet
<1>3. CmdTypeOK
  <2>1. /\ arrival \in [Slot -> 0 .. Round - 1]
        /\ last_time_stamp \in 0 .. Round - 1 /\ now \in 0 .. Round - 1
        /\ session \in [Slot -> 0 .. MAX_SESSIONS] /\ sessions \subseteq 1 .. MAX_SESSIONS
        /\ chunks \in 0 .. MaxChunks /\ sched \in 0 .. 1 /\ run \in [Slot -> 0 .. 1]
    BY <1>1, <1>2 DEF Init
  <2>2. /\ notify \in [Slot -> BOOLEAN] /\ started \in BOOLEAN /\ triggered \in BOOLEAN
        /\ unstored \in BOOLEAN /\ wrapped \in BOOLEAN /\ spurious \in BOOLEAN
        /\ ahead \in [Slot -> SUBSET Slot] /\ strict_wire \subseteq Slot
    BY DEF Init
  <2>3. comms \subseteq Slot /\ Cardinality(comms) <= 1
    BY <1>2 DEF Init
  <2>4. /\ qstate \in [Slot -> {"NOT_ASSIGNED", "ASSIGNED", "REQUEST", "PROCESSING", "RESUME"}]
        /\ request_type \in [Slot -> {"none", "LOCK", "SESSION", "STRICT"}]
        /\ caller \in [Slot -> {"absent", "free", "busy"}]
        /\ cmd \in [Slot -> Kinds \cup {"none"}]
        /\ exec \in [Slot -> {"OPEN_START", "OPEN_DONE", "PREPARE", "PROCESS", "ERROR_TX",
                              "ERROR_RX", "CLOSE_START", "CLOSE_DONE", "EXIT"}]
    BY DEF Init
  <2>5. QED
    BY <2>1, <2>2, <2>3, <2>4 DEF CmdTypeOK
<1>4. \A s \in Slot : ~AtWork(s) /\ ~Working(s) /\ ~HasLock(s) /\ ~Waiting(s)
  BY DEF Init, AtWork, Working, HasLock, Waiting
<1>5. Started /\ Turn /\ Lock /\ Stray
  BY <1>4 DEF Init, Started, Turn, Lock, Stray
<1>6. \A s \in Slot : Entry(s) /\ Command(s)
  BY <1>4 DEF Init, Entry, Command, HasLock
<1>7. QED
  BY <1>3, <1>5, <1>6 DEF IInv

LEMMA NextIInv ==
  ASSUME IInv, [Next]_vars
  PROVE  IInv'
<1>1. CASE Pick \/ PickNone
  BY <1>1, PickStep, PickNoneStep
<1>2. ASSUME ~unstored, NEW s \in Slot, Application(s) PROVE IInv'
  BY <1>2, CreateStep, DestroyStep, RequestStep, ReleaseStep DEF Application
<1>3. ASSUME NEW s \in Slot, Timer(s) \/ CommsDone(s) PROVE IInv'
  BY <1>3, HandlerStep
<1>4. CASE UNCHANGED vars
  <2>1. /\ CmdTypeOK' /\ Started' /\ Turn' /\ Lock' /\ Stray'
        /\ \A s \in Slot : Entry(s)' /\ Command(s)'
    <3>1. UNCHANGED <<qstate, request_type, arrival, last_time_stamp, now, wrapped,
                      session, sessions, cmd, exec, notify, chunks, caller, started,
                      triggered, sched, run, comms, unstored, ahead, strict_wire,
                      spurious>>
      BY <1>4 DEF vars, qvars, timevars, sessvars, execvars
    <3>2. CmdTypeOK'
      BY <3>1 DEF IInv, CmdTypeOK
    <3>3. Started' /\ Turn' /\ Lock' /\ Stray'
      BY <3>1 DEF IInv, Started, Turn, Lock, Stray, Working, AtWork, HasLock
    <3>4. \A s \in Slot : Entry(s)' /\ Command(s)'
      BY <3>1, Untouched
    <3>5. QED
      BY <3>2, <3>3, <3>4
  <2>2. QED
    BY <2>1 DEF IInv
<1>5. QED
  BY <1>1, <1>2, <1>3, <1>4 DEF Next

\* IInv holds in every reachable state of the command layer.
THEOREM CmdInvariant == Spec => []IInv
<1>1. Init => IInv
  BY InitIInv
<1>2. IInv /\ [Next]_vars => IInv'
  BY NextIInv
<1>3. QED
  BY <1>1, <1>2, PTL DEF Spec

\* The variables of the command layer keep their types: the scheduler never has
\* a second timer, no instance has, and the communication layer never has two
\* operations.
THEOREM CmdTypeCorrect == Spec => []CmdTypeOK
<1>1. IInv => CmdTypeOK
  BY DEF IInv
<1>2. QED
  BY <1>1, CmdInvariant, PTL

\* The layer always has exactly one thing to do: the scheduler's timer, one
\* timer of one instance or one operation of the communication layer.
THEOREM OneActivityHolds == Spec => []OneActivity
<1>1. ASSUME IInv PROVE OneActivity
  <2> DEFINE timers == {s \in Slot : run[s] > 0}
  <2> SUFFICES ASSUME started, ~unstored
               PROVE  \/ sched = 1 /\ timers = {} /\ comms = {}
                      \/ /\ sched = 0 /\ Cardinality(timers \cup comms) = 1
                         /\ timers \cap comms = {}
                         /\ \A s \in timers : run[s] = 1
    BY DEF OneActivity
  <2>1. CmdTypeOK /\ Turn /\ Stray /\ \A s \in Slot : Entry(s)
    BY <1>1 DEF IInv
  <2>2. \A s \in Slot : AtWork(s) => Working(s)
    BY <2>1 DEF Stray, Working
  <2>3. \A s \in timers \cup comms : s \in Slot /\ Working(s)
    BY <2>1, <2>2 DEF AtWork, CmdTypeOK
  <2>4. \A s \in Slot : Working(s) => s \in timers \cup comms
    BY DEF Working, AtWork
  <2>5. CASE sched = 1
    BY <2>1, <2>3, <2>5 DEF Turn
  <2>6. CASE sched # 1
    <3>1. PICK s \in Slot : Working(s)
      BY <2>1, <2>6 DEF Turn
    <3>2. sched = 0 /\ \A t \in timers \cup comms : t = s
      BY <2>1, <2>3, <3>1 DEF Turn
    <3>3. s \in timers \cup comms /\ timers \cup comms \in SUBSET Slot
      BY <2>3, <2>4, <3>1
    <3>4. Cardinality(timers \cup comms) = 1
      BY <3>2, <3>3, OneMember
    <3>5. timers \cap comms = {} /\ \A t \in timers : run[t] = 1
      BY <2>1 DEF Entry, CmdTypeOK
    <3>6. QED
      BY <3>2, <3>4, <3>5
  <2>7. QED
    BY <2>5, <2>6
<1>2. QED
  BY <1>1, CmdInvariant, PTL

\* The instance at work has the lock and a caller that waits for it, and a
\* caller that waits is in the queue or at work: every request is answered once.
THEOREM OneAnswerHolds == Spec => []OneAnswer
<1>1. ASSUME IInv PROVE OneAnswer
  <2>1. CmdTypeOK /\ (~unstored => ~spurious)
    BY <1>1 DEF IInv, Stray
  <2>2. ASSUME ~unstored, NEW s \in Slot
        PROVE  /\ AtWork(s) => qstate[s] = "PROCESSING" /\ caller[s] = "busy"
               /\ caller[s] = "busy" => AtWork(s) \/ Waiting(s)
               /\ Waiting(s) => caller[s] = "busy"
    <3>1. (AtWork(s) => Working(s)) /\ Entry(s)
      BY <1>1, <2>2 DEF IInv, Stray, Working
    <3>2. QED
      BY <3>1 DEF Entry, Working
  <2>3. QED
    BY <2>1, <2>2, Zenon DEF OneAnswer, AtWork, Waiting
<1>2. QED
  BY <1>1, CmdInvariant, PTL

-----------------------------------------------------------------------------
(* Sessions                                                                 *)

\* A slot without an instance keeps no session.
SInv == SessionsSound /\ \A s \in Slot : qstate[s] = "NOT_ASSIGNED" => session[s] = 0

LEMMA SessionsKept ==
  ASSUME SInv, UNCHANGED sessvars,
         \A s \in Slot : \/ qstate'[s] = qstate[s] /\ request_type'[s] = request_type[s]
                         \/ qstate'[s] \in {"ASSIGNED", "REQUEST", "RESUME"}
  PROVE  SInv'
BY DEF SInv, SessionsSound, sessvars

\* The state machine of a command leaves the sessions alone, and the queue, too,
\* or it gives its lock back.
LEMMA HandlerSessions ==
  ASSUME SInv, CmdTypeOK, NEW s \in Slot, Timer(s) \/ CommsDone(s)
  PROVE  SInv'
<1>1. CASE UNCHANGED sessvars /\ UNCHANGED qvars
  BY <1>1, SessionsKept DEF qvars
<1>2. CASE UNCHANGED sessvars /\ ResetSlot(s)
  <2>1. \A t \in Slot : \/ qstate'[t] = qstate[t] /\ request_type'[t] = request_type[t]
                        \/ qstate'[t] \in {"ASSIGNED", "REQUEST", "RESUME"}
    BY <1>2 DEF ResetSlot, CmdTypeOK
  <2>2. QED
    BY <1>2, <2>1, SessionsKept
<1>3. ASSUME NEW by \in {"timer", "comms"}, ExecuteHandler(s, by) PROVE SInv'
  <2>1. UNCHANGED sessvars
    BY <1>3 DEF ExecuteHandler, CaseOpenStart, CaseOpenDone, CasePrepare, CaseProcess,
       CaseErrorTx, CaseErrorRx, CaseCloseStart, CaseCloseDone, CaseExit, Entered
  <2>2. CASE CaseOpenStart(s, by) \/ CaseOpenDone(s, by) \/ CasePrepare(s, by)
    BY <1>1, <1>2, <2>1, <2>2
    DEF CaseOpenStart, CaseOpenDone, CasePrepare, CommsStart, Later, FinishNow, Finish
  <2>3. CASE CaseProcess(s, by)
    BY <1>1, <1>2, <2>1, <2>3
    DEF CaseProcess, ProcessErrorCode, ProcessLast, ProcessClosed, ProcessChained,
        ProcessRejected, ProcessUnstored, Later, FinishNow, Finish
  <2>4. CASE CaseErrorTx(s, by) \/ CaseErrorRx(s, by)
    BY <1>1, <1>2, <2>1, <2>4
    DEF CaseErrorTx, CaseErrorRx, CommsStart, Later, FinishNow, Finish
  <2>5. CASE CaseCloseStart(s, by) \/ CaseCloseDone(s, by) \/ CaseExit(s, by)
    BY <1>1, <1>2, <2>1, <2>5
    DEF CaseCloseStart, CaseCloseDone, CaseExit, Closed, CommsStart, FinishNow, Finish
  <2>6. QED
    BY <1>3, <2>2, <2>3, <2>4, <2>5 DEF ExecuteHandler
<1>4. CASE CommsError(s)
  BY <1>2, <1>4 DEF CommsError, Entered, FinishNow, Finish
<1>5. QED
  BY <1>3, <1>4 DEF Timer, CommsDone

LEMMA PickSessions ==
  ASSUME SInv, IInv, Pick
  PROVE  SInv'
<1>1. PICK s \in Candidates :
        SessionAssign(s) /\ qstate' = [qstate EXCEPT ![s] = "PROCESSING"]
  BY DEF Pick
<1>2. s \in Slot /\ Waiting(s)
  BY <1>1, CandidateWaits DEF Pick
<1>3. CmdTypeOK /\ request_type' = request_type
  BY DEF IInv, Pick
<1>4. CASE request_type[s] = "SESSION" /\ session[s] = 0
  <2>1. PICK o \in (1 .. MAX_SESSIONS) \ sessions :
          session' = [session EXCEPT ![s] = o] /\ sessions' = sessions \cup {o}
    BY <1>1, <1>4 DEF SessionAssign
  <2>2. o # 0 /\ o \notin sessions
    BY <2>1
  <2>3. session'[s] = o /\ \A t \in Slot : t # s => session'[t] = session[t] /\ session[t] # o
    BY <1>2, <1>3, <2>1, <2>2 DEF SInv, SessionsSound, CmdTypeOK
  <2>4. sessions' = {session'[t] : t \in Slot} \ {0}
    BY <1>2, <1>4, <2>1, <2>2, <2>3 DEF SInv, SessionsSound
  <2>5. \A t, u \in Slot : session'[t] = session'[u] /\ session'[t] # 0 => t = u
    BY <2>3 DEF SInv, SessionsSound
  <2>6. qstate'[s] = "PROCESSING" /\ \A t \in Slot : t # s => qstate'[t] = qstate[t]
    BY <1>1, <1>2, <1>3 DEF CmdTypeOK
  <2>7. \A t \in Slot :
          /\ qstate'[t] = "PROCESSING" /\ request_type'[t] = "SESSION" => session'[t] # 0
          /\ qstate'[t] = "NOT_ASSIGNED" => session'[t] = 0
    BY <1>3, <2>2, <2>3, <2>6 DEF SInv, SessionsSound
  <2>8. QED
    BY <2>4, <2>5, <2>7 DEF SInv, SessionsSound
<1>5. CASE ~(request_type[s] = "SESSION" /\ session[s] = 0)
  <2>1. UNCHANGED sessvars
    BY <1>1, <1>5 DEF SessionAssign
  <2>2. QED
    BY <1>1, <1>2, <1>3, <1>5, <2>1 DEF SInv, SessionsSound, sessvars, CmdTypeOK
<1>6. QED
  BY <1>4, <1>5

LEMMA ApplicationSessions ==
  ASSUME SInv, CmdTypeOK, NEW s \in Slot, Application(s)
  PROVE  SInv'
<1>1. CASE Create(s)
  <2>1. session' = session
    BY <1>1 DEF Create, SInv, CmdTypeOK
  <2>2. UNCHANGED sessvars
    BY <1>1, <2>1 DEF Create, sessvars
  <2>3. \A t \in Slot : \/ qstate'[t] = qstate[t] /\ request_type'[t] = request_type[t]
                        \/ qstate'[t] \in {"ASSIGNED", "REQUEST", "RESUME"}
    BY <1>1 DEF Create, CmdTypeOK
  <2>4. QED
    BY <2>2, <2>3, SessionsKept
<1>2. CASE Destroy(s)
  <2>1. /\ session' = [session EXCEPT ![s] = 0] /\ sessions' = sessions \ {session[s]}
        /\ qstate' = [qstate EXCEPT ![s] = "NOT_ASSIGNED"]
        /\ request_type' = [request_type EXCEPT ![s] = "none"]
    BY <1>2 DEF Destroy, SessionFree
  <2>2. session'[s] = 0 /\ \A t \in Slot : t # s => session'[t] = session[t]
    BY <2>1 DEF CmdTypeOK
  <2>3. \A t \in Slot : t # s /\ session[t] # 0 => session[t] # session[s]
    BY DEF SInv, SessionsSound
  <2>4. sessions' = {session'[t] : t \in Slot} \ {0}
    BY <2>1, <2>2, <2>3 DEF SInv, SessionsSound
  <2>5. \A t, u \in Slot : session'[t] = session'[u] /\ session'[t] # 0 => t = u
    BY <2>2 DEF SInv, SessionsSound
  <2>6. \A t \in Slot :
          /\ qstate'[t] = "PROCESSING" /\ request_type'[t] = "SESSION" => session'[t] # 0
          /\ qstate'[t] = "NOT_ASSIGNED" => session'[t] = 0
    BY <2>1, <2>2 DEF SInv, SessionsSound, CmdTypeOK
  <2>7. QED
    BY <2>4, <2>5, <2>6 DEF SInv, SessionsSound
<1>3. ASSUME NEW c \in Commands, Request(s, c) PROVE SInv'
  <2>1. \A t \in Slot : \/ qstate'[t] = qstate[t] /\ request_type'[t] = request_type[t]
                        \/ qstate'[t] \in {"ASSIGNED", "REQUEST", "RESUME"}
    BY <1>3 DEF Request, UpdateSlot, CmdTypeOK
  <2>2. QED
    BY <1>3, <2>1, SessionsKept DEF Request
<1>4. CASE ReleaseSequence(s)
  <2>1. \A t \in Slot : \/ qstate'[t] = qstate[t] /\ request_type'[t] = request_type[t]
                        \/ qstate'[t] \in {"ASSIGNED", "REQUEST", "RESUME"}
    BY <1>4 DEF ReleaseSequence, ResetSlot, CmdTypeOK
  <2>2. QED
    BY <1>4, <2>1, SessionsKept DEF ReleaseSequence
<1>5. QED
  BY <1>1, <1>2, <1>3, <1>4 DEF Application

\* A session belongs to one instance, none is lost, and a command that needs a
\* session runs with one.
THEOREM SessionsSoundHolds == Spec => []SessionsSound
<1>1. Init => SInv
  BY RegistrationsAssumption DEF Init, SInv, SessionsSound
<1>2. IInv /\ SInv /\ [Next]_vars => SInv'
  <2> SUFFICES ASSUME IInv, SInv, [Next]_vars PROVE SInv'
    OBVIOUS
  <2>1. CmdTypeOK
    BY DEF IInv
  <2>2. CASE PickNone \/ UNCHANGED vars
    <3>1. UNCHANGED sessvars /\ UNCHANGED qvars
      BY <2>2 DEF PickNone, vars
    <3>2. QED
      BY <3>1, SessionsKept DEF qvars
  <2>3. QED
    BY <2>1, <2>2, PickSessions, ApplicationSessions, HandlerSessions DEF Next
<1>3. SInv => SessionsSound
  BY DEF SInv
<1>4. QED
  BY <1>1, <1>2, <1>3, CmdInvariant, PTL DEF Spec

-----------------------------------------------------------------------------
(* The strict sequences: the device sees the fragments of one with no other *)
(* APDU between them, whatever the number of instances and whatever else    *)
(* they ask for.                                                            *)

Strictly(s) == cmd[s] \in {"start", "continue", "final"}
Follows(s)  == cmd[s] \in {"continue", "final"}

\* Between two fragments of its sequence, and until it has sent the next one,
\* the last APDU was a fragment of the instance; a fragment that the device has
\* rejected is known to be one (notify), so that the sequence does not go on.
Sequence(s) ==
  /\ exec[s] \in {"OPEN_START", "OPEN_DONE"} => cmd[s] = "open"
  /\ exec[s] \in {"ERROR_TX", "ERROR_RX"} /\ Strictly(s) => ~notify[s]
  /\ Waiting(s) /\ Follows(s) => qstate[s] = "RESUME"
  /\ Paused(s) \/ qstate[s] = "RESUME" => strict_wire = {s}
  /\ Working(s) /\ exec[s] = "PREPARE" /\ Follows(s) => strict_wire = {s}
  /\ Working(s) /\ exec[s] = "PROCESS" /\ Strictly(s) /\ notify[s] => strict_wire = {s}

WInv == \A s \in Slot : Sequence(s)

-----------------------------------------------------------------------------
(* Steps of the state machine                                               *)

\* A step that does not touch an instance, nor the last APDU, keeps its sequence.
LEMMA SequenceKept ==
  ASSUME NEW t \in Slot, Sequence(t),
         qstate'[t] = qstate[t], request_type'[t] = request_type[t],
         caller'[t] = caller[t], exec'[t] = exec[t], cmd'[t] = cmd[t],
         notify'[t] = notify[t], run'[t] = run[t], comms' = comms,
         strict_wire' = strict_wire
  PROVE  Sequence(t)'
<1>1. /\ Working(t)' <=> Working(t)
      /\ Waiting(t)' <=> Waiting(t)
      /\ Paused(t)' <=> Paused(t)
      /\ Strictly(t)' <=> Strictly(t)
      /\ Follows(t)' <=> Follows(t)
  BY DEF Working, AtWork, Waiting, Paused, Strictly, Follows
<1>2. QED
  BY <1>1 DEF Sequence

\* While one instance works, no other one is in a sequence.
LEMMA SequenceOthers ==
  ASSUME IInv, WInv, NEW s \in Slot, AtWork(s), exec[s] # "EXIT",
         NEW t \in Slot, t # s,
         qstate'[t] = qstate[t], request_type'[t] = request_type[t],
         exec'[t] = exec[t], cmd'[t] = cmd[t], notify'[t] = notify[t],
         run'[t] = run[t], t \notin comms'
  PROVE  Sequence(t)'
<1>1. ~Working(t) /\ ~HasLock(t) /\ t \notin comms /\ Sequence(t)
  BY WorkerAlone DEF WInv
<1>2. ~Working(t)' /\ ~HasLock(t)'
  BY <1>1 DEF Working, AtWork, HasLock
<1>3. ~Paused(t)' /\ qstate'[t] # "RESUME"
  BY <1>2 DEF Paused, HasLock
<1>4. /\ Waiting(t)' <=> Waiting(t)
      /\ Strictly(t)' <=> Strictly(t)
      /\ Follows(t)' <=> Follows(t)
  BY DEF Waiting, Strictly, Follows
<1>5. QED
  BY <1>1, <1>2, <1>3, <1>4 DEF Sequence

\* What a step of the state machine of s may change.
Only(s) ==
  \A t \in Slot : t # s =>
    /\ qstate'[t] = qstate[t] /\ request_type'[t] = request_type[t]
    /\ exec'[t] = exec[t] /\ cmd'[t] = cmd[t] /\ notify'[t] = notify[t]
    /\ run'[t] = run[t] /\ t \notin comms'

LEMMA SequenceEnds ==
  ASSUME IInv, WInv, NEW s \in Slot, AtWork(s), exec[s] # "EXIT", Only(s),
         qstate'[s] = "ASSIGNED", exec'[s] \in {"EXIT", "CLOSE_DONE"}
  PROVE  WInv'
<1>1. Sequence(s)'
  BY DEF Sequence, Waiting, Paused
<1>2. \A t \in Slot : t # s => Sequence(t)'
  BY SequenceOthers DEF Only
<1>3. QED
  BY <1>1, <1>2 DEF WInv

\* The command is over and the lock released.
LEMMA FinishSequence ==
  ASSUME IInv, WInv, NEW s \in Slot, NEW by \in {"timer", "comms"}, NEW n \in {0, 1},
         Entered(s, by), exec[s] # "EXIT",
         Timers(s, by, n), comms' = CommsAfter(by), Finish(s)
  PROVE  WInv'
<1>1. AtWork(s) /\ run' = [run EXCEPT ![s] = n] /\ comms' = {}
  BY TimersGone
<1>2. CmdTypeOK
  BY DEF IInv
<1>3. Only(s)
  BY <1>1, <1>2 DEF Only, Finish, Exit, ResetSlot, CmdTypeOK
<1>4. qstate'[s] = "ASSIGNED" /\ exec'[s] = "EXIT"
  BY <1>2 DEF Finish, Exit, ResetSlot, CmdTypeOK
<1>5. QED
  BY <1>1, <1>3, <1>4, SequenceEnds

\* The instance goes on: its caller waits, so it does not pause.
LEMMA WorkSequence ==
  ASSUME IInv, WInv, NEW s \in Slot, AtWork(s), exec[s] # "EXIT", Only(s),
         qstate' = qstate, caller' = caller,
         exec'[s] \in {"OPEN_START", "OPEN_DONE"} => cmd'[s] = "open",
         exec'[s] \in {"ERROR_TX", "ERROR_RX"} /\ Strictly(s)' => ~notify'[s],
         exec'[s] = "PREPARE" => ~Follows(s)',
         exec'[s] = "PROCESS" /\ Strictly(s)' /\ notify'[s] => strict_wire' = {s}
  PROVE  WInv'
<1>1. qstate[s] = "PROCESSING" /\ caller[s] = "busy"
  BY WorkerAlone
<1>2. ~Waiting(s)' /\ ~Paused(s)' /\ qstate'[s] # "RESUME"
  BY <1>1 DEF Waiting, Paused
<1>3. Sequence(s)'
  BY <1>2 DEF Sequence
<1>4. \A t \in Slot : t # s => Sequence(t)'
  BY SequenceOthers DEF Only
<1>5. QED
  BY <1>3, <1>4 DEF WInv

\* Handing an operation to the communication layer, or registering a timer,
\* touches nothing of the other instances.
LEMMA OnlyGoesOn ==
  ASSUME IInv, NEW s \in Slot, NEW by \in {"timer", "comms"},
         NEW next \in {"OPEN_DONE", "PREPARE", "PROCESS", "ERROR_TX", "ERROR_RX",
                       "CLOSE_START", "CLOSE_DONE"},
         Entered(s, by), exec[s] # "EXIT",
         CommsStart(s, by, next) \/ Later(s, by, next),
         \A t \in Slot : t # s => notify'[t] = notify[t]
  PROVE  /\ AtWork(s) /\ Only(s) /\ exec'[s] = next
         /\ qstate' = qstate /\ caller' = caller /\ cmd' = cmd
<1>1. CmdTypeOK
  BY DEF IInv
<1>2. UNCHANGED <<qvars, caller, cmd>> /\ exec' = [exec EXCEPT ![s] = next]
  BY DEF CommsStart, Later
<1>3. PICK n \in {0, 1} : Timers(s, by, n)
  BY DEF CommsStart, Later
<1>4. AtWork(s) /\ run' = [run EXCEPT ![s] = n] /\ CommsAfter(by) = {}
  BY <1>3, TimersGone
<1>5. comms' \subseteq {s}
  BY <1>4 DEF CommsStart, Later
<1>6. QED
  BY <1>1, <1>2, <1>4, <1>5 DEF Only, qvars, CmdTypeOK

LEMMA OpenSequence ==
  ASSUME IInv, WInv, NEW s \in Slot, NEW by \in {"timer", "comms"},
         CaseOpenStart(s, by) \/ CaseOpenDone(s, by) \/ CasePrepare(s, by)
  PROVE  WInv'
<1>1. Entered(s, by) /\ exec[s] # "EXIT" /\ CmdTypeOK
  BY DEF CaseOpenStart, CaseOpenDone, CasePrepare, IInv
<1>2. exec[s] \in {"OPEN_START", "OPEN_DONE"} => cmd[s] = "open"
  BY DEF WInv, Sequence
<1>3. CASE FinishNow(s, by)
  BY <1>1, <1>3, FinishSequence DEF FinishNow
<1>4. CASE /\ exec[s] = "OPEN_START"
           /\ CommsStart(s, by, "OPEN_DONE") /\ UNCHANGED notify
  <2>1. /\ AtWork(s) /\ Only(s) /\ exec'[s] = "OPEN_DONE"
        /\ qstate' = qstate /\ caller' = caller /\ cmd' = cmd
    BY <1>1, <1>4, OnlyGoesOn
  <2>2. QED
    BY <1>1, <1>2, <1>4, <2>1, WorkSequence
<1>5. CASE exec[s] = "OPEN_DONE" /\ Later(s, by, "PREPARE") /\ UNCHANGED notify
  <2>1. /\ AtWork(s) /\ Only(s) /\ exec'[s] = "PREPARE"
        /\ qstate' = qstate /\ caller' = caller /\ cmd' = cmd
    BY <1>1, <1>5, OnlyGoesOn
  <2>2. QED
    BY <1>1, <1>2, <1>5, <2>1, WorkSequence DEF Follows
<1>6. CASE /\ CommsStart(s, by, "PROCESS")
           /\ notify' = [notify EXCEPT ![s] = TRUE]
           /\ strict_wire' = IF RequestType(cmd[s]) = "STRICT" THEN {s} ELSE {}
  <2>1. \A t \in Slot : t # s => notify'[t] = notify[t]
    BY <1>1, <1>6 DEF CmdTypeOK
  <2>2. /\ AtWork(s) /\ Only(s) /\ exec'[s] = "PROCESS"
        /\ qstate' = qstate /\ caller' = caller /\ cmd' = cmd
    BY <1>1, <1>6, <2>1, OnlyGoesOn
  <2>3. Strictly(s)' => strict_wire' = {s}
    BY <1>6, <2>2 DEF Strictly, RequestType
  <2>4. QED
    BY <1>1, <2>2, <2>3, WorkSequence
<1>7. QED
  BY <1>3, <1>4, <1>5, <1>6 DEF CaseOpenStart, CaseOpenDone, CasePrepare

\* The fragment is done and its sequence pauses.
LEMMA PauseSequence ==
  ASSUME IInv, WInv, NEW s \in Slot, NEW by \in {"timer", "comms"},
         Entered(s, by), exec[s] = "PROCESS", cmd[s] \in {"start", "continue"}, notify[s],
         Timers(s, by, 0), comms' = CommsAfter(by), Exit(s),
         UNCHANGED qvars, UNCHANGED strict_wire
  PROVE  WInv'
<1>1. AtWork(s) /\ run' = [run EXCEPT ![s] = 0] /\ comms' = {}
  BY TimersGone
<1>2. CmdTypeOK /\ Sequence(s)
  BY DEF IInv, WInv
<1>3. Only(s) /\ exec'[s] = "EXIT"
  BY <1>1, <1>2 DEF Only, Exit, qvars, CmdTypeOK
<1>4. strict_wire' = {s}
  BY <1>1, <1>2 DEF Sequence, Working, Strictly
<1>5. qstate'[s] = "PROCESSING"
  BY <1>1, WorkerAlone DEF qvars
<1>6. Sequence(s)'
  BY <1>3, <1>4, <1>5 DEF Sequence, Waiting
<1>7. \A t \in Slot : t # s => Sequence(t)'
  BY <1>1, <1>3, SequenceOthers DEF Only
<1>8. QED
  BY <1>6, <1>7 DEF WInv

LEMMA ProcessSequence ==
  ASSUME IInv, WInv, NEW s \in Slot, NEW by \in {"timer", "comms"}, CaseProcess(s, by)
  PROVE  WInv'
<1>1. Entered(s, by) /\ exec[s] = "PROCESS" /\ exec[s] # "EXIT" /\ CmdTypeOK
  BY DEF CaseProcess, IInv
<1>2. CASE FinishNow(s, by)
  BY <1>1, <1>2, FinishSequence DEF FinishNow
<1>3. CASE ProcessErrorCode(s, by)
  BY <1>2, <1>3 DEF ProcessErrorCode
<1>4. CASE ProcessLast(s, by)
  BY <1>1, <1>2, <1>4, PauseSequence DEF ProcessLast
<1>5. CASE /\ \E next \in {"PREPARE", "CLOSE_START", "ERROR_TX"} : Later(s, by, next)
           /\ ~Strictly(s) /\ UNCHANGED notify
  <2>1. PICK next \in {"PREPARE", "CLOSE_START", "ERROR_TX"} : Later(s, by, next)
    BY <1>5
  <2>2. /\ AtWork(s) /\ Only(s) /\ exec'[s] = next
        /\ qstate' = qstate /\ caller' = caller /\ cmd' = cmd
    BY <1>1, <1>5, <2>1, OnlyGoesOn
  <2>3. ~Strictly(s)' /\ ~Follows(s)'
    BY <1>5, <2>2 DEF Strictly, Follows
  <2>4. QED
    BY <1>1, <2>2, <2>3, WorkSequence
<1>6. CASE ProcessClosed(s, by) \/ ProcessChained(s, by) \/ ProcessUnstored(s, by)
  BY <1>5, <1>6 DEF ProcessClosed, ProcessChained, ProcessUnstored, Strictly
<1>7. CASE ProcessRejected(s, by)
  <2>1. notify' = [notify EXCEPT ![s] = cmd[s] = "data" /\ chunks > 0]
    BY <1>7 DEF ProcessRejected
  <2>2. \A t \in Slot : t # s => notify'[t] = notify[t]
    BY <1>1, <2>1 DEF CmdTypeOK
  <2>3. Strictly(s) => ~notify'[s]
    BY <1>1, <2>1 DEF CmdTypeOK, Strictly
  <2>4. /\ AtWork(s) /\ Only(s) /\ exec'[s] = "ERROR_TX"
        /\ qstate' = qstate /\ caller' = caller /\ cmd' = cmd
    BY <1>1, <1>7, <2>2, OnlyGoesOn DEF ProcessRejected
  <2>5. Strictly(s)' => ~notify'[s]
    BY <2>3, <2>4 DEF Strictly
  <2>6. QED
    BY <1>1, <2>4, <2>5, WorkSequence
<1>8. QED
  BY <1>3, <1>4, <1>6, <1>7 DEF CaseProcess

LEMMA ErrorSequence ==
  ASSUME IInv, WInv, NEW s \in Slot, NEW by \in {"timer", "comms"},
         CaseErrorTx(s, by) \/ CaseErrorRx(s, by)
  PROVE  WInv'
<1>1. /\ Entered(s, by) /\ exec[s] \in {"ERROR_TX", "ERROR_RX"} /\ exec[s] # "EXIT"
      /\ CmdTypeOK
  BY DEF CaseErrorTx, CaseErrorRx, IInv
<1>2. Strictly(s) => ~notify[s]
  BY <1>1 DEF WInv, Sequence
<1>3. CASE \E n \in {0, 1} : Timers(s, by, n) /\ comms' = CommsAfter(by) /\ Finish(s)
  BY <1>1, <1>3, FinishSequence
<1>4. CASE /\ \/ CommsStart(s, by, "ERROR_RX") \/ Later(s, by, "PROCESS")
           /\ UNCHANGED notify
  <2>1. PICK next \in {"ERROR_RX", "PROCESS"} : CommsStart(s, by, next) \/ Later(s, by, next)
    BY <1>4
  <2>2. /\ AtWork(s) /\ Only(s) /\ exec'[s] = next
        /\ qstate' = qstate /\ caller' = caller /\ cmd' = cmd
    BY <1>1, <1>4, <2>1, OnlyGoesOn
  <2>3. Strictly(s)' => ~notify'[s]
    BY <1>2, <1>4, <2>2 DEF Strictly
  <2>4. QED
    BY <1>1, <2>2, <2>3, WorkSequence
<1>5. QED
  BY <1>3, <1>4 DEF CaseErrorTx, CaseErrorRx, FinishNow

LEMMA CloseSequence ==
  ASSUME IInv, WInv, NEW s \in Slot, NEW by \in {"timer", "comms"},
         CaseCloseStart(s, by) \/ CaseCloseDone(s, by)
  PROVE  WInv'
<1>1. /\ Entered(s, by) /\ exec[s] \in {"CLOSE_START", "CLOSE_DONE"} /\ exec[s] # "EXIT"
      /\ CmdTypeOK /\ Command(s)
  BY DEF CaseCloseStart, CaseCloseDone, IInv
<1>2. CASE FinishNow(s, by)
  BY <1>1, <1>2, FinishSequence DEF FinishNow
<1>3. CASE CommsStart(s, by, "CLOSE_DONE") /\ UNCHANGED notify
  <2>1. /\ AtWork(s) /\ Only(s) /\ exec'[s] = "CLOSE_DONE"
        /\ qstate' = qstate /\ caller' = caller /\ cmd' = cmd
    BY <1>1, <1>3, OnlyGoesOn
  <2>2. QED
    BY <1>1, <2>1, WorkSequence
<1>4. CASE Closed(s, by, TRUE)
  <2>1. AtWork(s) /\ run' = [run EXCEPT ![s] = 0] /\ comms' = {}
    BY <1>1, <1>4, TimersGone DEF Closed
  <2>2. Only(s)
    BY <1>1, <1>4, <2>1 DEF Only, Closed, ResetSlot, CmdTypeOK
  <2>3. qstate'[s] = "ASSIGNED" /\ exec'[s] = "CLOSE_DONE"
    BY <1>1, <1>4 DEF Closed, ResetSlot, CmdTypeOK
  <2>4. QED
    BY <1>1, <2>1, <2>2, <2>3, SequenceEnds
<1>5. CASE CaseCloseDone(s, by)
  <2>1. Working(s)
    BY <1>1 DEF Entered, Working, AtWork, CmdTypeOK
  <2>2. (cmd[s] = "hibernate") = TRUE
    BY <1>1, <1>5, <2>1 DEF Command, CaseCloseDone
  <2>3. QED
    BY <1>4, <1>5, <2>2 DEF CaseCloseDone
<1>6. QED
  BY <1>2, <1>3, <1>4, <1>5 DEF CaseCloseStart

LEMMA StraySequence ==
  ASSUME IInv, WInv, NEW s \in Slot, NEW by \in {"timer", "comms"}, CaseExit(s, by)
  PROVE  WInv'
<1>1. CmdTypeOK /\ Entry(s) /\ exec[s] = "EXIT" /\ Sequence(s)
  BY DEF CaseExit, IInv, WInv
<1>2. by = "timer" /\ comms' = comms
  BY <1>1 DEF CaseExit, Entered, Entry, CommsAfter
<1>3. UNCHANGED <<qstate, request_type, exec, cmd, notify, strict_wire>>
  BY DEF CaseExit, qvars, execvars
<1>4. \A t \in Slot : t # s => caller'[t] = caller[t] /\ run'[t] = run[t]
  BY <1>1, <1>2 DEF CaseExit, CallHandler, Timers, CmdTypeOK
<1>5. \A t \in Slot : t # s => Sequence(t)'
  BY <1>2, <1>3, <1>4, SequenceKept DEF WInv
<1>6. Sequence(s)'
  <2>1. ~Working(s) /\ ~Working(s)'
    BY <1>1, <1>3 DEF Working
  <2>2. Paused(s)' => Paused(s)
    BY <1>1, <1>3, <2>1 DEF Paused, Entry
  <2>3. /\ Waiting(s)' <=> Waiting(s)
        /\ Strictly(s)' <=> Strictly(s)
        /\ Follows(s)' <=> Follows(s)
    BY <1>3 DEF Waiting, Strictly, Follows
  <2>4. QED
    BY <1>1, <1>3, <2>1, <2>2, <2>3 DEF Sequence
<1>7. QED
  BY <1>5, <1>6 DEF WInv

LEMMA HandlerSequence ==
  ASSUME IInv, WInv, NEW s \in Slot, Timer(s) \/ CommsDone(s)
  PROVE  WInv'
<1>1. ASSUME NEW by \in {"timer", "comms"}, ExecuteHandler(s, by) PROVE WInv'
  BY <1>1, OpenSequence, ProcessSequence, ErrorSequence, CloseSequence, StraySequence
  DEF ExecuteHandler
<1>2. CASE CommsError(s)
  <2>1. Entered(s, "comms") /\ exec[s] # "EXIT" /\ FinishNow(s, "comms")
    BY <1>2 DEF CommsError, Entered, IInv, Entry
  <2>2. QED
    BY <2>1, FinishSequence DEF FinishNow
<1>3. QED
  BY <1>1, <1>2 DEF Timer, CommsDone

-----------------------------------------------------------------------------
(* Calls of the application and the scheduler                               *)

\* The application opens no sequence that the instance does not hold, and what
\* it does with one instance does not touch the sequence of another one.
LEMMA ApplicationSequence ==
  ASSUME IInv, WInv, ~unstored, NEW s \in Slot, Application(s)
  PROVE  WInv'
<1>1. CmdTypeOK /\ Sequence(s) /\ Entry(s) /\ \A t \in Slot : Sequence(t)
  BY DEF IInv, WInv
<1>2. ~Working(s)
  <2>1. CASE Create(s)
    BY <1>1, <2>1 DEF Create, Entry
  <2>2. CASE ~Create(s)
    <3>1. caller[s] = "free"
      BY <2>2 DEF Application, Destroy, Request, ReleaseSequence
    <3>2. QED
      BY <3>1, FreeIsIdle
  <2>3. QED
    BY <2>1, <2>2
<1>3. run' = run /\ comms' = comms /\ notify' = notify /\ strict_wire' = strict_wire
  BY DEF Application, Create, Destroy, Request, ReleaseSequence, execvars
<1>4. \A t \in Slot : t # s =>
        /\ qstate'[t] = qstate[t] /\ request_type'[t] = request_type[t]
        /\ caller'[t] = caller[t] /\ exec'[t] = exec[t] /\ cmd'[t] = cmd[t]
  <2>1. CASE Create(s)
    BY <1>1, <2>1 DEF Create, execvars, CmdTypeOK
  <2>2. CASE Destroy(s)
    BY <1>1, <2>2 DEF Destroy, execvars, CmdTypeOK
  <2>3. CASE \E c \in Commands : Request(s, c)
    BY <1>1, <2>3 DEF Request, UpdateSlot, CmdTypeOK
  <2>4. CASE ReleaseSequence(s)
    BY <1>1, <2>4 DEF ReleaseSequence, ResetSlot, CmdTypeOK
  <2>5. QED
    BY <2>1, <2>2, <2>3, <2>4 DEF Application
<1>5. \A t \in Slot : t # s => Sequence(t)'
  BY <1>1, <1>3, <1>4, SequenceKept
<1>6. CASE Create(s) \/ Destroy(s) \/ ReleaseSequence(s)
  <2>1. /\ qstate'[s] \in {"ASSIGNED", "NOT_ASSIGNED"}
        /\ exec'[s] \in {exec[s], "EXIT"} /\ cmd' = cmd
    BY <1>1, <1>6 DEF Create, Destroy, ReleaseSequence, ResetSlot, execvars, CmdTypeOK
  <2>2. ~Working(s)' /\ ~Waiting(s)' /\ ~Paused(s)' /\ (Strictly(s)' <=> Strictly(s))
    BY <1>2, <1>3, <2>1 DEF Working, AtWork, Waiting, Paused, Strictly
  <2>3. Sequence(s)'
    BY <1>1, <1>3, <2>1, <2>2 DEF Sequence
  <2>4. QED
    BY <1>5, <2>3 DEF WInv
<1>7. ASSUME NEW c \in Commands, Request(s, c) PROVE WInv'
  <2>1. /\ caller[s] = "free" /\ caller'[s] = "busy" /\ cmd'[s] = c
        /\ exec'[s] = IF c = "open" THEN "OPEN_START" ELSE "PREPARE"
    BY <1>1, <1>7 DEF Request, CmdTypeOK
  <2>2. qstate'[s] = IF request_type[s] = "STRICT" /\ RequestType(c) = "STRICT"
                       THEN "RESUME" ELSE "REQUEST"
    BY <1>1, <1>7 DEF Request, UpdateSlot, CmdTypeOK
  <2>3. c \in {"continue", "final"} => qstate'[s] = "RESUME"
    BY <1>7, <2>2 DEF Request, MayStart, RequestType
  <2>4. qstate'[s] = "RESUME" => strict_wire = {s}
    <3>1. SUFFICES ASSUME request_type[s] = "STRICT" PROVE strict_wire = {s}
      BY <2>2
    <3>2. ~Waiting(s)
      BY <2>1, FreeIsIdle
    <3>3. Paused(s)
      BY <1>1, <2>1, <3>1, <3>2 DEF Paused, Waiting, Entry, CmdTypeOK
    <3>4. QED
      BY <1>1, <3>3 DEF Sequence
  <2>5. ~AtWork(s)
    BY <2>1, FreeIsIdle
  <2>6. ~Working(s)' /\ ~Paused(s)'
    BY <1>3, <2>1, <2>5 DEF Working, AtWork, Paused
  <2>7. Sequence(s)'
    BY <1>3, <2>1, <2>3, <2>4, <2>6 DEF Sequence, Follows
  <2>8. QED
    BY <1>5, <2>7 DEF WInv
<1>8. QED
  BY <1>6, <1>7 DEF Application

LEMMA PickSequence ==
  ASSUME IInv, WInv, Pick
  PROVE  WInv'
<1>1. CmdTypeOK /\ \A t \in Slot : Sequence(t) /\ Entry(t)
  BY DEF IInv, WInv
<1>2. PICK s \in Candidates :
        /\ run' = [run EXCEPT ![s] = @ + 1]
        /\ qstate' = [qstate EXCEPT ![s] = "PROCESSING"]
  BY DEF Pick
<1>3. s \in Slot /\ Waiting(s)
  BY <1>2, CandidateWaits DEF Pick
<1>4. UNCHANGED <<request_type, exec, cmd, notify, caller, comms, strict_wire>>
  BY DEF Pick, execvars
<1>5. \A t \in Slot : t # s => qstate'[t] = qstate[t] /\ run'[t] = run[t]
  BY <1>1, <1>2, <1>3 DEF CmdTypeOK
<1>6. \A t \in Slot : t # s => Sequence(t)'
  BY <1>1, <1>4, <1>5, SequenceKept
<1>7. Sequence(s)'
  <2>1. caller[s] = "busy" /\ exec[s] \in {"OPEN_START", "PREPARE"}
    BY <1>1, <1>3 DEF Entry
  <2>2. qstate'[s] = "PROCESSING"
    BY <1>1, <1>2, <1>3 DEF CmdTypeOK
  <2>3. ~Waiting(s)' /\ ~Paused(s)'
    BY <1>4, <2>1, <2>2 DEF Waiting, Paused
  <2>4. Follows(s) => strict_wire = {s}
    BY <1>1, <1>3 DEF Sequence
  <2>5. Follows(s)' <=> Follows(s)
    BY <1>4 DEF Follows
  <2>6. QED
    BY <1>1, <1>3, <1>4, <2>1, <2>2, <2>3, <2>4, <2>5 DEF Sequence
<1>8. QED
  BY <1>6, <1>7 DEF WInv

LEMMA NextSequence ==
  ASSUME IInv, WInv, [Next]_vars
  PROVE  WInv'
<1>1. CASE PickNone \/ UNCHANGED vars
  <2>1. UNCHANGED <<qstate, request_type, exec, cmd, notify, caller, run, comms, strict_wire>>
    BY <1>1 DEF PickNone, vars, qvars, execvars
  <2>2. QED
    BY <2>1, SequenceKept DEF WInv
<1>2. QED
  BY <1>1, PickSequence, ApplicationSequence, HandlerSequence DEF Next

\* The device sees the fragments of a strict sequence without any other APDU
\* between them.
THEOREM StrictSequenceHolds == Spec => StrictSequence
<1>1. Init => WInv
  BY DEF Init, WInv, Sequence, Waiting, Paused, Working, AtWork
<1>2. IInv /\ WInv /\ [Next]_vars => WInv'
  BY NextSequence
<1>3. IInv /\ WInv /\ [Next]_vars =>
        [\A s \in Slot :
           /\ ~unstored /\ cmd[s] \in {"continue", "final"}
           /\ exec[s] = "PREPARE" /\ exec'[s] = "PROCESS"
           => strict_wire = {s}]_vars
  <2> SUFFICES ASSUME IInv, WInv, Next, ~unstored, NEW s \in Slot,
                      cmd[s] \in {"continue", "final"},
                      exec[s] = "PREPARE", exec'[s] = "PROCESS"
               PROVE  strict_wire = {s}
    OBVIOUS
  <2>1. CmdTypeOK
    BY DEF IInv
  <2>2. ~(Pick \/ PickNone)
    BY DEF Pick, PickNone, execvars
  <2>3. ASSUME NEW t \in Slot, Application(t) PROVE FALSE
    BY <2>1, <2>3
    DEF Application, Create, Destroy, Request, ReleaseSequence, execvars, CmdTypeOK
  <2>4. PICK t \in Slot : Timer(t) \/ CommsDone(t)
    BY <2>2, <2>3 DEF Next
  <2>5. PICK by \in {"timer", "comms"} : Entered(t, by)
    BY <2>4 DEF Timer, CommsDone, CommsError, ExecuteHandler, CaseOpenStart, CaseOpenDone,
       CasePrepare, CaseProcess, CaseErrorTx, CaseErrorRx, CaseCloseStart, CaseCloseDone,
       CaseExit
  <2>6. exec' = exec \/ \E x : exec' = [exec EXCEPT ![t] = x]
    <3>1. ASSUME NEW u \in {"timer", "comms"}, ExecuteHandler(t, u)
          PROVE  exec' = exec \/ \E x : exec' = [exec EXCEPT ![t] = x]
      BY <3>1 DEF ExecuteHandler, CaseOpenStart, CaseOpenDone,
         CasePrepare, CaseProcess, CaseErrorTx, CaseErrorRx, CaseCloseStart, CaseCloseDone,
         CaseExit, ProcessErrorCode, ProcessLast, ProcessClosed, ProcessChained,
         ProcessRejected, ProcessUnstored, CommsStart, Later, Closed, FinishNow, Finish,
         Exit, execvars
    <3>2. CASE CommsError(t)
      BY <3>2 DEF CommsError, FinishNow, Finish, Exit
    <3>3. QED
      BY <2>4, <3>1, <3>2 DEF Timer, CommsDone
  <2>7. t = s
    BY <2>1, <2>6 DEF CmdTypeOK
  <2>8. Working(s)
    BY <2>1, <2>5, <2>7 DEF Entered, Working, AtWork, CmdTypeOK
  <2>9. QED
    BY <2>8 DEF WInv, Sequence, Follows
<1>4. QED
  BY <1>1, <1>2, <1>3, CmdInvariant, PTL DEF Spec, StrictSequence

-----------------------------------------------------------------------------
(* Requests for a lock are served in the order of their arrival, as long as *)
(* the clock does not wrap, for any number of instances.                    *)

\* Who has the lock was the last one scheduled; who was ahead of a request and
\* has not been served still waits; and while the clock has not wrapped, the
\* time stamps are in the order of arrival and none but a request for a session
\* is older than the last one scheduled.
FInv ==
  /\ \A s \in Slot : HasLock(s) => arrival[s] = last_time_stamp
  /\ \A s \in InState("REQUEST") : ahead[s] \subseteq InState("REQUEST")
  /\ ~wrapped =>
       /\ last_time_stamp <= now
       /\ \A s \in InState("REQUEST") :
            /\ arrival[s] <= now
            /\ request_type[s] # "SESSION" => last_time_stamp <= arrival[s]
            /\ \A t \in ahead[s] : arrival[t] < arrival[s]

\* A step keeps the order if the requests stay what they are, and nobody gets
\* the lock.
LEMMA OrderKept ==
  ASSUME FInv, CmdTypeOK, UNCHANGED <<timevars, ahead>>,
         InState("REQUEST")' = InState("REQUEST"),
         \A t \in Slot : HasLock(t)' => HasLock(t) /\ arrival'[t] = arrival[t],
         \A t \in InState("REQUEST") :
           arrival'[t] = arrival[t] /\ request_type'[t] = request_type[t]
  PROVE  FInv'
<1>1. last_time_stamp' = last_time_stamp /\ now' = now /\ wrapped' = wrapped /\ ahead' = ahead
  BY DEF timevars
<1>2. \A t \in Slot : HasLock(t)' => arrival'[t] = last_time_stamp'
  BY <1>1 DEF FInv
<1>3. \A t \in InState("REQUEST")' : ahead'[t] \subseteq InState("REQUEST")'
  BY <1>1 DEF FInv
<1>4. ASSUME ~wrapped'
      PROVE  /\ last_time_stamp' <= now'
             /\ \A s \in InState("REQUEST")' :
                  /\ arrival'[s] <= now'
                  /\ request_type'[s] # "SESSION" => last_time_stamp' <= arrival'[s]
                  /\ \A t \in ahead'[s] : arrival'[t] < arrival'[s]
  <2>1. ~wrapped
    BY <1>1, <1>4
  <2>2. \A s \in InState("REQUEST") : \A t \in ahead[s] : t \in InState("REQUEST")
    BY DEF FInv
  <2>3. QED
    BY <1>1, <2>1, <2>2 DEF FInv
<1>5. QED
  BY <1>2, <1>3, <1>4 DEF FInv

\* The state machine of a command leaves the queue alone or gives its lock back.
LEMMA HandlerQueue ==
  ASSUME IInv, NEW s \in Slot, Timer(s) \/ CommsDone(s)
  PROVE  /\ UNCHANGED <<timevars, ahead>>
         /\ UNCHANGED qvars \/ (ResetSlot(s) /\ qstate[s] = "PROCESSING")
<1>1. CASE CommsError(s)
  <2>1. AtWork(s) /\ exec[s] # "EXIT"
    BY <1>1 DEF CommsError, Entered, IInv, Entry, AtWork
  <2>2. qstate[s] = "PROCESSING"
    BY <2>1, WorkerAlone
  <2>3. QED
    BY <1>1, <2>2 DEF CommsError, Entered, FinishNow, Finish
<1>2. ASSUME NEW by \in {"timer", "comms"}, ExecuteHandler(s, by)
      PROVE  /\ UNCHANGED <<timevars, ahead>>
             /\ UNCHANGED qvars \/ (ResetSlot(s) /\ qstate[s] = "PROCESSING")
  <2>1. Entered(s, by)
    BY <1>2 DEF ExecuteHandler, CaseOpenStart, CaseOpenDone, CasePrepare, CaseProcess,
       CaseErrorTx, CaseErrorRx, CaseCloseStart, CaseCloseDone, CaseExit
  <2>2. UNCHANGED <<timevars, ahead>> /\ AtWork(s)
    BY <2>1 DEF Entered, AtWork
  <2>3. CASE exec[s] = "EXIT"
    <3>1. CaseExit(s, by)
      BY <1>2, <2>3 DEF ExecuteHandler, CaseOpenStart, CaseOpenDone, CasePrepare, CaseProcess,
         CaseErrorTx, CaseErrorRx, CaseCloseStart, CaseCloseDone
    <3>2. QED
      BY <2>2, <3>1 DEF CaseExit
  <2>4. CASE exec[s] # "EXIT"
    <3>1. qstate[s] = "PROCESSING"
      BY <2>2, <2>4, WorkerAlone
    <3>2. CASE CaseOpenStart(s, by) \/ CaseOpenDone(s, by) \/ CasePrepare(s, by)
      BY <2>2, <3>1, <3>2
      DEF CaseOpenStart, CaseOpenDone, CasePrepare, CommsStart, Later, FinishNow, Finish
    <3>3. CASE CaseProcess(s, by)
      BY <2>2, <3>1, <3>3
      DEF CaseProcess, ProcessErrorCode, ProcessLast, ProcessClosed, ProcessChained,
          ProcessRejected, ProcessUnstored, Later, FinishNow, Finish
    <3>4. CASE CaseErrorTx(s, by) \/ CaseErrorRx(s, by)
      BY <2>2, <3>1, <3>4
      DEF CaseErrorTx, CaseErrorRx, CommsStart, Later, FinishNow, Finish
    <3>5. CASE CaseCloseStart(s, by) \/ CaseCloseDone(s, by) \/ CaseExit(s, by)
      BY <2>2, <3>1, <3>5
      DEF CaseCloseStart, CaseCloseDone, CaseExit, Closed, CommsStart, FinishNow, Finish
    <3>6. QED
      BY <1>2, <3>2, <3>3, <3>4, <3>5 DEF ExecuteHandler
  <2>5. QED
    BY <2>3, <2>4
<1>3. QED
  BY <1>1, <1>2 DEF Timer, CommsDone

\* A slot that is given back was not a request, nor is it one afterwards.
LEMMA ResetOrder ==
  ASSUME FInv, CmdTypeOK, NEW s \in Slot, qstate[s] # "REQUEST",
         ResetSlot(s), UNCHANGED <<timevars, ahead>>
  PROVE  FInv'
<1>1. /\ qstate'[s] = "ASSIGNED"
      /\ \A t \in Slot : t # s => /\ qstate'[t] = qstate[t] /\ arrival'[t] = arrival[t]
                                  /\ request_type'[t] = request_type[t]
  BY DEF ResetSlot, CmdTypeOK
<1>2. InState("REQUEST")' = InState("REQUEST")
  BY <1>1 DEF InState
<1>3. \A t \in Slot : HasLock(t)' => HasLock(t) /\ arrival'[t] = arrival[t]
  BY <1>1 DEF HasLock
<1>4. \A t \in InState("REQUEST") :
        arrival'[t] = arrival[t] /\ request_type'[t] = request_type[t]
  BY <1>1 DEF InState
<1>5. QED
  BY <1>2, <1>3, <1>4, OrderKept

LEMMA HandlerOrder ==
  ASSUME IInv, FInv, NEW s \in Slot, Timer(s) \/ CommsDone(s)
  PROVE  FInv'
<1>1. CmdTypeOK
  BY DEF IInv
<1>2. UNCHANGED <<timevars, ahead>>
  BY HandlerQueue
<1>3. CASE UNCHANGED qvars
  BY <1>1, <1>2, <1>3, OrderKept DEF qvars, InState, HasLock
<1>4. CASE ResetSlot(s) /\ qstate[s] = "PROCESSING"
  BY <1>1, <1>2, <1>4, ResetOrder
<1>5. QED
  BY <1>3, <1>4, HandlerQueue

\* A new request is the last: its time stamp is later than those of all that
\* wait, unless the clock wraps.
LEMMA RequestOrder ==
  ASSUME IInv, FInv, NEW s \in Slot, NEW c \in Commands, Request(s, c)
  PROVE  FInv'
<1>1. CmdTypeOK
  BY DEF IInv
<1>2. caller[s] = "free" /\ UpdateSlot(s, RequestType(c))
  BY DEF Request
<1>3. ~Waiting(s)
  BY <1>2, FreeIsIdle
<1>4. /\ s \notin InState("REQUEST")
      /\ request_type'[s] = RequestType(c)
      /\ \A t \in Slot : t # s => qstate'[t] = qstate[t] /\ request_type'[t] = request_type[t]
  BY <1>1, <1>2, <1>3 DEF UpdateSlot, InState, Waiting, CmdTypeOK
<1>5. CASE request_type[s] = "STRICT" /\ RequestType(c) = "STRICT"
  <2>1. qstate'[s] = "RESUME" /\ UNCHANGED <<arrival, ahead, timevars>>
    BY <1>1, <1>2, <1>5 DEF UpdateSlot, CmdTypeOK
  <2>2. HasLock(s)
    <3>1. Entry(s)
      BY DEF IInv
    <3>2. QED
      BY <1>1, <1>3, <1>5, <3>1 DEF Entry, Waiting, HasLock, CmdTypeOK
  <2>3. InState("REQUEST")' = InState("REQUEST")
    BY <1>4, <2>1 DEF InState
  <2>4. \A t \in Slot : HasLock(t)' => HasLock(t) /\ arrival'[t] = arrival[t]
    BY <1>4, <2>1, <2>2 DEF HasLock
  <2>5. \A t \in InState("REQUEST") :
          arrival'[t] = arrival[t] /\ request_type'[t] = request_type[t]
    BY <1>4, <2>1 DEF InState
  <2>6. QED
    BY <1>1, <2>1, <2>3, <2>4, <2>5, OrderKept
<1>6. CASE ~(request_type[s] = "STRICT" /\ RequestType(c) = "STRICT")
  <2>1. /\ qstate'[s] = "REQUEST" /\ TimePasses
        /\ arrival' = [arrival EXCEPT ![s] = now']
        /\ ahead' = [ahead EXCEPT ![s] = InState("REQUEST")]
    BY <1>1, <1>2, <1>6 DEF UpdateSlot, CmdTypeOK
  <2>2. /\ now' \notin {arrival[t] : t \in InState("REQUEST")}
        /\ last_time_stamp' = last_time_stamp /\ wrapped' = (wrapped \/ now' < now)
    BY <2>1 DEF TimePasses
  <2>3. now' \in Int /\ now \in Int /\ last_time_stamp \in Int
        /\ \A t \in Slot : arrival[t] \in Int
    <3>1. PICK d \in 1 .. Round : now' = (now + d) % Round
      BY <2>1 DEF TimePasses
    <3>2. now' \in 0 .. Round - 1
      BY <1>1, <3>1, ClockRange DEF CmdTypeOK
    <3>3. QED
      BY <1>1, <3>2, RoundAssumption DEF CmdTypeOK
  <2>4. /\ arrival'[s] = now' /\ ahead'[s] = InState("REQUEST")
        /\ \A t \in Slot : t # s => arrival'[t] = arrival[t] /\ ahead'[t] = ahead[t]
    BY <1>1, <2>1 DEF CmdTypeOK
  <2>5. InState("REQUEST")' = InState("REQUEST") \cup {s}
    BY <1>4, <2>1 DEF InState
  <2>6. \A t \in InState("REQUEST") : t \in Slot /\ t # s
    BY <1>4 DEF InState
  <2>7. \A t \in Slot : HasLock(t)' => arrival'[t] = last_time_stamp'
    BY <1>4, <2>1, <2>2, <2>4 DEF FInv, HasLock
  <2>8. \A t \in InState("REQUEST")' : ahead'[t] \subseteq InState("REQUEST")'
    BY <2>4, <2>5, <2>6 DEF FInv
  <2>9. ASSUME ~wrapped'
        PROVE  /\ last_time_stamp' <= now'
               /\ \A u \in InState("REQUEST")' :
                    /\ arrival'[u] <= now'
                    /\ request_type'[u] # "SESSION" => last_time_stamp' <= arrival'[u]
                    /\ \A t \in ahead'[u] : arrival'[t] < arrival'[u]
    <3>0. ~wrapped /\ ~(now' < now) /\ last_time_stamp' = last_time_stamp
      BY <2>2, <2>9, Zenon
    <3>1. ~wrapped /\ now <= now' /\ last_time_stamp' = last_time_stamp
      BY <2>3, <3>0
    <3>2. last_time_stamp <= now
      BY <3>1 DEF FInv
    <3>3. \A t \in InState("REQUEST") : arrival[t] <= now /\ arrival[t] # now'
      BY <2>2, <3>1 DEF FInv
    <3>4. \A t \in InState("REQUEST") : arrival'[t] < now'
      BY <2>3, <2>4, <2>6, <3>1, <3>3
    <3>5. ASSUME NEW u \in InState("REQUEST")
          PROVE  /\ arrival'[u] <= now'
                 /\ request_type'[u] # "SESSION" => last_time_stamp' <= arrival'[u]
                 /\ \A t \in ahead'[u] : arrival'[t] < arrival'[u]
      <4>1. u \in Slot /\ u # s /\ arrival'[u] = arrival[u] /\ ahead'[u] = ahead[u]
        BY <2>4, <2>6, <3>5
      <4>2. request_type'[u] = request_type[u]
        BY <1>4, <4>1
      <4>3. \A t \in ahead[u] : arrival'[t] = arrival[t] /\ arrival[t] < arrival[u]
        BY <2>4, <2>6, <3>1, <3>5 DEF FInv
      <4>4. QED
        BY <2>3, <3>1, <3>4, <3>5, <4>1, <4>2, <4>3 DEF FInv
    <3>6. /\ arrival'[s] <= now' /\ last_time_stamp' <= arrival'[s]
          /\ \A t \in ahead'[s] : arrival'[t] < arrival'[s]
      BY <2>3, <2>4, <3>1, <3>2, <3>4
    <3>7. QED
      BY <2>3, <2>5, <3>1, <3>2, <3>5, <3>6
  <2>10. QED
    BY <2>7, <2>8, <2>9 DEF FInv
<1>7. QED
  BY <1>5, <1>6

LEMMA ApplicationOrder ==
  ASSUME IInv, FInv, NEW s \in Slot, Application(s)
  PROVE  FInv'
<1>1. CmdTypeOK
  BY DEF IInv
<1>2. CASE Create(s) \/ Destroy(s)
  <2>1. qstate[s] # "REQUEST"
    <3>1. CASE Create(s)
      BY <3>1 DEF Create
    <3>2. CASE Destroy(s)
      BY <3>2, FreeIsIdle DEF Destroy, Waiting
    <3>3. QED
      BY <1>2, <3>1, <3>2
  <2>2. /\ qstate'[s] \in {"ASSIGNED", "NOT_ASSIGNED"}
        /\ UNCHANGED <<arrival, timevars, ahead>>
        /\ \A t \in Slot : t # s => qstate'[t] = qstate[t] /\ request_type'[t] = request_type[t]
    BY <1>1, <1>2 DEF Create, Destroy, CmdTypeOK
  <2>3. InState("REQUEST")' = InState("REQUEST")
    BY <2>1, <2>2 DEF InState
  <2>4. \A t \in Slot : HasLock(t)' => HasLock(t) /\ arrival'[t] = arrival[t]
    BY <2>2 DEF HasLock
  <2>5. \A t \in InState("REQUEST") :
          arrival'[t] = arrival[t] /\ request_type'[t] = request_type[t]
    BY <2>1, <2>2 DEF InState
  <2>6. QED
    BY <1>1, <2>2, <2>3, <2>4, <2>5, OrderKept
<1>3. CASE ReleaseSequence(s)
  <2>1. qstate[s] # "REQUEST"
    BY <1>3, FreeIsIdle DEF ReleaseSequence, Waiting
  <2>2. QED
    BY <1>1, <1>3, <2>1, ResetOrder DEF ReleaseSequence
<1>4. QED
  BY <1>2, <1>3, RequestOrder DEF Application

\* Where nothing resumes, the candidate is a request and no request that may be
\* served and is not older than the last one scheduled is older than it.
LEMMA CandidateIsEarliest ==
  ASSUME IInv, NEW s \in Candidates, ~Resuming
  PROVE  /\ s \in InState("REQUEST")
         /\ \A t \in InState("REQUEST") :
              SessionOk(t) /\ last_time_stamp <= arrival[t] => arrival[s] <= arrival[t]
<1>1. CmdTypeOK
  BY DEF IInv
<1>2. /\ s \in Eligible(From)
      /\ \A t \in Eligible(From) : arrival[s] < arrival[t] \/ (arrival[s] = arrival[t] /\ s >= t)
  BY DEF Candidates
<1>3. last_time_stamp \in Nat /\ \A t \in Slot : arrival[t] \in Nat
  BY <1>1, RoundAssumption DEF CmdTypeOK
<1>4. From \in Nat /\ From <= last_time_stamp
  BY <1>3 DEF From
<1>5. s \in InState("REQUEST") /\ InState("REQUEST") \subseteq Slot
  BY <1>2 DEF Eligible, InState
<1>6. ASSUME NEW t \in InState("REQUEST"), SessionOk(t), last_time_stamp <= arrival[t]
      PROVE  arrival[s] <= arrival[t]
  <2>1. t \in Eligible(From)
    BY <1>3, <1>4, <1>5, <1>6 DEF Eligible
  <2>2. QED
    BY <1>2, <1>3, <1>5, <2>1
<1>7. QED
  BY <1>5, <1>6

LEMMA PickOrder ==
  ASSUME IInv, FInv, Pick
  PROVE  FInv'
<1>1. CmdTypeOK /\ \A t \in Slot : Entry(t)
  BY DEF IInv
<1>2. sched > 0 /\ ~Idle /\ UNCHANGED <<request_type, arrival, now>>
  BY DEF Pick
<1>3. PICK s \in Candidates :
        /\ qstate' = [qstate EXCEPT ![s] = "PROCESSING"]
        /\ last_time_stamp' = arrival[s]
        /\ ahead' = [t \in Slot |-> IF t = s THEN {} ELSE ahead[t] \ {s}]
        /\ wrapped' = (wrapped /\ (InState("REQUEST") \ {s} # {} \/ arrival[s] > now))
  BY DEF Pick
<1>4. s \in Slot /\ Waiting(s) /\ \A t \in Slot : HasLock(t) => t = s
  BY <1>2, <1>3, CandidateWaits
<1>5. qstate'[s] = "PROCESSING" /\ \A t \in Slot : t # s => qstate'[t] = qstate[t]
  BY <1>1, <1>3, <1>4 DEF CmdTypeOK
<1>6. InState("REQUEST")' = InState("REQUEST") \ {s}
  BY <1>4, <1>5 DEF InState
<1>7. last_time_stamp \in Nat /\ now \in Nat /\ \A t \in Slot : arrival[t] \in Nat
  BY <1>1, RoundAssumption DEF CmdTypeOK
<1>8. \A t \in InState("REQUEST") : t \in Slot
  BY DEF InState
<1>9. \A t \in Slot : HasLock(t)' => arrival'[t] = last_time_stamp'
  BY <1>2, <1>3, <1>4, <1>5 DEF HasLock
<1>10. \A t \in InState("REQUEST")' : ahead'[t] \subseteq InState("REQUEST")'
  BY <1>3, <1>6, <1>8 DEF FInv
<1>11. ASSUME ~wrapped'
       PROVE  /\ last_time_stamp' <= now'
              /\ \A u \in InState("REQUEST")' :
                   /\ arrival'[u] <= now'
                   /\ request_type'[u] # "SESSION" => last_time_stamp' <= arrival'[u]
                   /\ \A t \in ahead'[u] : arrival'[t] < arrival'[u]
  <2>1. CASE wrapped
    <3>1. InState("REQUEST") \ {s} = {} /\ ~(arrival[s] > now)
      BY <1>3, <1>11, <2>1
    <3>2. QED
      BY <1>2, <1>3, <1>4, <1>6, <1>7, <3>1
  <2>2. CASE ~wrapped
    <3>1. last_time_stamp <= now
      BY <2>2 DEF FInv
    <3>2. /\ arrival[s] <= now
          /\ \A t \in InState("REQUEST") \ {s} :
               request_type[t] # "SESSION" => arrival[s] <= arrival[t]
      <4>1. CASE Resuming
        <5>1. HasLock(s)
          BY <1>3, <4>1 DEF Candidates, InState, HasLock
        <5>2. arrival[s] = last_time_stamp
          BY <1>4, <5>1 DEF FInv
        <5>3. QED
          BY <2>2, <3>1, <5>2 DEF FInv
      <4>2. CASE ~Resuming
        <5>1. /\ s \in InState("REQUEST")
              /\ \A t \in InState("REQUEST") :
                   SessionOk(t) /\ last_time_stamp <= arrival[t] => arrival[s] <= arrival[t]
          BY <1>3, <4>2, CandidateIsEarliest
        <5>2. \A t \in InState("REQUEST") : request_type[t] # "SESSION" =>
                SessionOk(t) /\ last_time_stamp <= arrival[t]
          BY <2>2 DEF FInv, SessionOk
        <5>3. QED
          BY <2>2, <5>1, <5>2 DEF FInv
      <4>3. QED
        BY <4>1, <4>2
    <3>3. \A u \in InState("REQUEST")' :
            /\ u \in InState("REQUEST") /\ u # s
            /\ ahead'[u] \subseteq ahead[u]
      BY <1>3, <1>6, <1>8
    <3>4. QED
      BY <1>2, <1>3, <2>2, <3>2, <3>3 DEF FInv
  <2>3. QED
    BY <2>1, <2>2
<1>12. QED
  BY <1>9, <1>10, <1>11 DEF FInv

\* Where no slot can be picked the search may have started again from 0.
LEMMA PickNoneOrder ==
  ASSUME IInv, FInv, PickNone
  PROVE  FInv'
<1>1. CmdTypeOK
  BY DEF IInv
<1>2. \A t \in Slot : ~HasLock(t)
  BY SchedulerAlone DEF PickNone, Candidates
<1>3. /\ UNCHANGED <<qvars, now, wrapped, ahead>>
      /\ last_time_stamp' = IF Resuming THEN last_time_stamp ELSE From
  BY DEF PickNone
<1>4. last_time_stamp \in Nat /\ now \in Nat /\ \A t \in Slot : arrival[t] \in Nat
  BY <1>1, RoundAssumption DEF CmdTypeOK
<1>5. last_time_stamp' \in Nat /\ last_time_stamp' <= last_time_stamp
  BY <1>3, <1>4 DEF From
<1>6. InState("REQUEST")' = InState("REQUEST") /\ InState("REQUEST") \subseteq Slot
  BY <1>3 DEF InState, qvars
<1>7. \A t \in Slot : ~HasLock(t)'
  BY <1>2, <1>3 DEF HasLock, qvars
<1>8. /\ arrival' = arrival /\ request_type' = request_type /\ now' = now
      /\ wrapped' = wrapped /\ ahead' = ahead
  BY <1>3 DEF qvars
<1>9. ASSUME ~wrapped'
      PROVE  /\ last_time_stamp' <= now'
             /\ \A u \in InState("REQUEST")' :
                  /\ arrival'[u] <= now'
                  /\ request_type'[u] # "SESSION" => last_time_stamp' <= arrival'[u]
                  /\ \A t \in ahead'[u] : arrival'[t] < arrival'[u]
  <2>1. /\ last_time_stamp <= now
        /\ \A u \in InState("REQUEST") :
             /\ arrival[u] <= now
             /\ request_type[u] # "SESSION" => last_time_stamp <= arrival[u]
             /\ \A t \in ahead[u] : arrival[t] < arrival[u]
    BY <1>8, <1>9 DEF FInv
  <2>2. QED
    BY <1>4, <1>5, <1>6, <1>8, <2>1
<1>10. QED
  BY <1>6, <1>7, <1>8, <1>9 DEF FInv

LEMMA NextOrder ==
  ASSUME IInv, FInv, [Next]_vars
  PROVE  FInv'
<1>1. CASE UNCHANGED vars
  <2>1. CmdTypeOK
    BY DEF IInv
  <2>2. UNCHANGED <<timevars, ahead>> /\ UNCHANGED qvars
    BY <1>1 DEF vars
  <2>3. QED
    BY <2>1, <2>2, OrderKept DEF qvars, InState, HasLock
<1>2. QED
  BY <1>1, PickOrder, PickNoneOrder, ApplicationOrder, HandlerOrder DEF Next

\* As long as the clock does not wrap, a request for a lock is never overtaken
\* by a later request of any kind.
THEOREM LockFifoHolds == Spec => LockFifo
<1>1. Init => FInv
  BY DEF Init, FInv, HasLock, InState
<1>2. IInv /\ FInv /\ [Next]_vars => FInv'
  BY NextOrder
<1>3. IInv /\ FInv /\ [Next]_vars =>
        [\A s, t \in Slot :
           Scheduled(s) /\ Precedes(t, s) /\ ~wrapped => request_type[t] = "SESSION"]_vars
  <2> SUFFICES ASSUME IInv, FInv, Next, ~wrapped, NEW s \in Slot, NEW t \in Slot,
                      Scheduled(s), Precedes(t, s), request_type[t] # "SESSION"
               PROVE  FALSE
    OBVIOUS
  <2>1. CmdTypeOK
    BY DEF IInv
  <2>2. qstate[s] = "REQUEST" /\ qstate'[s] = "PROCESSING" /\ t \in ahead[s]
    BY DEF Scheduled, Precedes
  <2>3. Pick
    <3>1. ~PickNone
      BY <2>2 DEF PickNone, qvars
    <3>2. ASSUME NEW u \in Slot, Application(u) PROVE FALSE
      BY <2>1, <2>2, <3>2 DEF Application, Create, Destroy, Request, UpdateSlot,
         ReleaseSequence, ResetSlot, CmdTypeOK
    <3>3. ASSUME NEW u \in Slot, Timer(u) \/ CommsDone(u) PROVE FALSE
      <4>1. UNCHANGED qvars \/ ResetSlot(u)
        BY <3>3, HandlerQueue
      <4>2. QED
        BY <2>1, <2>2, <4>1 DEF qvars, ResetSlot, CmdTypeOK
    <3>4. QED
      BY <3>1, <3>2, <3>3 DEF Next
  <2>4. PICK u \in Candidates : qstate' = [qstate EXCEPT ![u] = "PROCESSING"]
    BY <2>3 DEF Pick
  <2>5. u = s
    BY <2>1, <2>2, <2>4 DEF CmdTypeOK
  <2>6. ~Resuming
    BY <2>2, <2>4, <2>5 DEF Candidates, InState
  <2>7. \A v \in InState("REQUEST") :
          SessionOk(v) /\ last_time_stamp <= arrival[v] => arrival[s] <= arrival[v]
    BY <2>4, <2>5, <2>6, CandidateIsEarliest
  <2>8. s \in InState("REQUEST") /\ t \in InState("REQUEST")
    BY <2>2 DEF FInv, InState
  <2>9. last_time_stamp <= arrival[t] /\ arrival[t] < arrival[s] /\ SessionOk(t)
    BY <2>2, <2>8 DEF FInv, SessionOk
  <2>10. arrival[s] \in Int /\ arrival[t] \in Int
    BY <2>1, RoundAssumption DEF CmdTypeOK
  <2>11. QED
    BY <2>7, <2>8, <2>9, <2>10
<1>4. QED
  BY <1>1, <1>2, <1>3, CmdInvariant, PTL DEF Spec, LockFifo
=============================================================================
