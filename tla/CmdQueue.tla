------------------------------ MODULE CmdQueue ------------------------------
(***************************************************************************)
(* The command layer (optiga_cmd.c): the execution queue its instances     *)
(* share, the scheduler that hands the lock, a session or the strict       *)
(* sequence to one of them, and the state machine that takes the winner's  *)
(* command through the communication layer.                                *)
(*                                                                         *)
(* An instance is named by its slot in the queue (queue_id).  Everything   *)
(* runs from one event loop: an action is what one callback does, from the *)
(* oneshot timer (the scheduler, optiga_cmd_event_trigger_execute), from   *)
(* the communication layer or from the application.  "sched" and "run"     *)
(* count the registered timers, "comms" holds the instance the             *)
(* communication layer works for.                                          *)
(*                                                                         *)
(* An instance is used through optiga_util or optiga_crypt, which refuse   *)
(* it as long as it is busy, also from within the completion handler: the  *)
(* handler is called first and the instance is free when it returns.       *)
(* APDUs are abstracted to the kind of command they belong to.             *)
(***************************************************************************)
EXTENDS Integers, FiniteSets

CONSTANTS
  MAX_REGISTRATIONS,   \* OPTIGA_CMD_MAX_REGISTRATIONS
  MAX_SESSIONS,        \* OPTIGA_CMD_MAX_NUMBER_OF_SESSIONS
  Round,               \* the microsecond clock counts modulo Round (2^32)
  MaxChunks,           \* bound: APDUs a data object is split into, less one
  Commands,            \* the kinds of command the application uses
  StoreMayFail         \* the data store of the hibernate context may fail

Kinds == {"plain", "data", "session", "start", "continue", "final",
          "open", "close", "hibernate"}

ASSUME RegistrationsAssumption == MAX_REGISTRATIONS \in Nat \ {0}
ASSUME SessionsAssumption == MAX_SESSIONS \in Nat
ASSUME RoundAssumption == Round \in Nat /\ Round > MAX_REGISTRATIONS
ASSUME ChunksAssumption == MaxChunks \in Nat
ASSUME CommandsAssumption == Commands \subseteq Kinds
ASSUME StoreMayFailAssumption == StoreMayFail \in BOOLEAN

Slot == 0 .. MAX_REGISTRATIONS - 1
NeverArrived == Round - 1     \* 0xFFFFFFFF

VARIABLES
  qstate,           \* state_of_entry of each slot
  request_type,     \* request_type of each slot
  arrival,          \* arrival_time of each slot
  last_time_stamp,  \* arrival time of the slot scheduled last
  now,              \* the clock
  session,          \* session_oid of each instance, 0 for none
  sessions,         \* the sessions that are assigned
  caller,           \* instance_state of the util or crypt instance
  cmd,              \* the command each instance executes, or none
  exec,             \* cmd_next_execution_state
  notify,           \* OPTIGA_CMD_ENTER_HANDLER_CALL of device_error_status
  chunks,           \* APDUs the running command has chained
  started,          \* instance_init_state
  triggered,        \* is_event_triggered of the pal_os_event
  sched,            \* registered timers of the scheduler
  run,              \* registered timers of optiga_cmd_event_trigger_execute
  comms,            \* the instance whose operation is in progress: {} or {s}
  unstored,         \* history: the store has failed
  ahead,            \* history: the requests that waited when one arrived and still do
  wrapped,          \* history: the clock has wrapped since the queue was empty
  strict_wire,      \* history: the instance whose strict command was the last APDU
  spurious          \* history: a handler was called with nothing outstanding

qvars    == <<qstate, request_type, arrival>>
timevars == <<last_time_stamp, now, wrapped>>
sessvars == <<session, sessions>>
execvars == <<cmd, exec, notify, chunks>>
vars == <<qvars, timevars, sessvars, execvars, caller, started, triggered,
          sched, run, comms, unstored, ahead, strict_wire, spurious>>

-----------------------------------------------------------------------------
(* The queue                                                                *)

InState(st) == {s \in Slot : qstate[s] = st}
Strict      == {s \in Slot : request_type[s] = "STRICT"}
Holds(s)    == qstate[s] \in {"PROCESSING", "RESUME"} /\ request_type[s] = "STRICT"

\* Mutant: another timer, whether there is one or not.
EventStartAgain == triggered' = TRUE /\ sched' = sched + 1

\* pal_os_event_start with the scheduler
EventStart ==
  /\ triggered' = TRUE
  /\ sched' = IF triggered THEN sched ELSE sched + 1

\* Time passes between two time stamps: the clock shows its next value that is
\* not the arrival time of a request that still waits.
TimePasses ==
  LET taken == {arrival[t] : t \in InState("REQUEST")}
      next  == {d \in 1 .. Round : (now + d) % Round \notin taken}
  IN \E d \in next :
       /\ \A e \in next : d <= e
       /\ now' = (now + d) % Round
       /\ wrapped' = (wrapped \/ now' < now)
       /\ UNCHANGED last_time_stamp

\* optiga_cmd_queue_update_slot
UpdateSlot(s, type) ==
  LET resumes == request_type[s] = "STRICT" /\ type = "STRICT" IN
  /\ qstate' = [qstate EXCEPT ![s] = IF resumes THEN "RESUME" ELSE "REQUEST"]
  /\ request_type' = [request_type EXCEPT ![s] = type]
  /\ IF resumes
       THEN UNCHANGED <<arrival, ahead, timevars>>
       ELSE /\ TimePasses
            /\ arrival' = [arrival EXCEPT ![s] = now']
            /\ ahead' = [ahead EXCEPT ![s] = InState("REQUEST")]

\* optiga_cmd_queue_reset_slot
ResetSlot(s) ==
  /\ qstate' = [qstate EXCEPT ![s] = "ASSIGNED"]
  /\ request_type' = [request_type EXCEPT ![s] = "none"]
  /\ arrival' = [arrival EXCEPT ![s] = NeverArrived]
  /\ EventStart

\* The completion handler of the instance; afterwards the instance is free.
CallHandler(s) ==
  /\ caller' = [caller EXCEPT ![s] = IF @ = "absent" THEN @ ELSE "free"]
  /\ spurious' = (spurious \/ caller[s] # "busy")

Init ==
  /\ qstate = [s \in Slot |-> "NOT_ASSIGNED"]
  /\ request_type = [s \in Slot |-> "none"]
  /\ arrival = [s \in Slot |-> 0]
  /\ last_time_stamp = 0 /\ now = 0 /\ wrapped = FALSE
  /\ session = [s \in Slot |-> 0] /\ sessions = {}
  /\ caller = [s \in Slot |-> "absent"]
  /\ cmd = [s \in Slot |-> "none"] /\ exec = [s \in Slot |-> "EXIT"]
  /\ notify = [s \in Slot |-> FALSE] /\ chunks = 0
  /\ started = FALSE /\ triggered = FALSE
  /\ sched = 0 /\ run = [s \in Slot |-> 0] /\ comms = {} /\ unstored = FALSE
  /\ ahead = [s \in Slot |-> {}] /\ strict_wire = {} /\ spurious = FALSE

-----------------------------------------------------------------------------
(* Calls of the application                                                 *)

\* optiga_cmd_create: the first free slot; the first instance ever starts the
\* scheduler.
Create(s) ==
  /\ qstate[s] = "NOT_ASSIGNED"
  /\ \A t \in Slot : t < s => qstate[t] # "NOT_ASSIGNED"
  /\ qstate' = [qstate EXCEPT ![s] = "ASSIGNED"]
  /\ caller' = [caller EXCEPT ![s] = "free"]
  /\ session' = [session EXCEPT ![s] = 0]
  /\ started' = TRUE
  /\ IF started THEN UNCHANGED <<triggered, sched>> ELSE EventStart
  /\ UNCHANGED <<request_type, arrival, timevars, sessions, execvars, run, comms,
                 unstored, ahead, strict_wire, spurious>>

\* Mutant: the session is not given back.
SessionFreeNot(s) == UNCHANGED sessvars

\* optiga_cmd_session_free
SessionFree(s) ==
  /\ sessions' = sessions \ {session[s]}
  /\ session' = [session EXCEPT ![s] = 0]

\* optiga_cmd_destroy, which the layers above call for a free instance only.
Destroy(s) ==
  /\ caller[s] = "free"
  /\ caller' = [caller EXCEPT ![s] = "absent"]
  /\ SessionFree(s)
  /\ qstate' = [qstate EXCEPT ![s] = "NOT_ASSIGNED"]
  /\ request_type' = [request_type EXCEPT ![s] = "none"]
  /\ UNCHANGED <<arrival, timevars, execvars, started, triggered, sched, run, comms,
                 unstored, ahead, strict_wire, spurious>>

RequestType(c) ==
  CASE c = "session" -> "SESSION"
    [] c \in {"start", "continue", "final"} -> "STRICT"
    [] OTHER -> "LOCK"

\* optiga_cmd_set_object_protected refuses to go on with a sequence that the
\* instance does not hold.
MayStart(s, c) ==
  c \in {"continue", "final"} =>
    request_type[s] = "STRICT" /\ qstate[s] = "PROCESSING"

\* optiga_cmd_execute up to the request of a lock or a session
Request(s, c) ==
  /\ caller[s] = "free" /\ MayStart(s, c)
  /\ caller' = [caller EXCEPT ![s] = "busy"]
  /\ cmd' = [cmd EXCEPT ![s] = c]
  /\ exec' = [exec EXCEPT ![s] = IF c = "open" THEN "OPEN_START" ELSE "PREPARE"]
  /\ UpdateSlot(s, RequestType(c))
  /\ UNCHANGED <<sessvars, notify, chunks, started, triggered, sched, run, comms,
                 unstored, strict_wire, spurious>>

\* The final fragment without data: the strict sequence is released at once.
ReleaseSequence(s) ==
  /\ caller[s] = "free" /\ "final" \in Commands /\ MayStart(s, "final")
  /\ ResetSlot(s)
  /\ exec' = [exec EXCEPT ![s] = "EXIT"]
  /\ UNCHANGED <<timevars, sessvars, cmd, notify, chunks, caller, started, run,
                 comms, unstored, ahead, strict_wire, spurious>>

-----------------------------------------------------------------------------
(* optiga_cmd_queue_scheduler                                               *)

\* Mutant: a strict sequence does not keep the others waiting.
IdleNoStrict == InState("REQUEST") = {} /\ InState("RESUME") = {}

\* It only registers itself again.
Idle ==
  \/ InState("REQUEST") = {} /\ InState("RESUME") = {}
  \/ Cardinality(InState("PROCESSING")) = 1 /\ Strict # {}

SessionOk(s) ==
  request_type[s] = "SESSION" => session[s] # 0 \/ sessions # 1 .. MAX_SESSIONS

Eligible(from) ==
  {s \in InState("REQUEST") : arrival[s] >= from /\ SessionOk(s)}

\* A request that seems older than the last one scheduled: the clock may have
\* wrapped.  The search starts again from 0 if it finds nothing else.
Overflow == \E s \in InState("REQUEST") : arrival[s] < last_time_stamp

\* Mutant: the search never starts again.
FromLast == last_time_stamp

From == IF Eligible(last_time_stamp) = {} /\ Overflow THEN 0 ELSE last_time_stamp

Resuming == Cardinality(InState("RESUME")) = 1

\* Mutant: the first slot that may go on, not the one that waits longest.
CandidatesByIndex ==
  IF Resuming
    THEN InState("RESUME") \cap Strict
    ELSE {s \in Eligible(From) : \A t \in Eligible(From) : s <= t}

\* The earliest arrival; of equal ones the last in the queue.
Candidates ==
  IF Resuming
    THEN InState("RESUME") \cap Strict
    ELSE {s \in Eligible(From) :
            \A t \in Eligible(From) :
              \/ arrival[s] < arrival[t]
              \/ arrival[s] = arrival[t] /\ s >= t}

\* optiga_cmd_session_assign
SessionAssign(s) ==
  IF request_type[s] = "SESSION" /\ session[s] = 0
    THEN \E o \in (1 .. MAX_SESSIONS) \ sessions :
           /\ \A p \in 1 .. o - 1 : p \in sessions
           /\ session' = [session EXCEPT ![s] = o]
           /\ sessions' = sessions \cup {o}
    ELSE UNCHANGED sessvars

\* Mutant: pal_os_event_stop is missing.
PickNotStopped ==
  /\ sched > 0 /\ ~Idle
  /\ \E s \in Candidates :
       /\ SessionAssign(s)
       /\ run' = [run EXCEPT ![s] = @ + 1]
       /\ qstate' = [qstate EXCEPT ![s] = "PROCESSING"]
       /\ last_time_stamp' = arrival[s]
       /\ ahead' = [t \in Slot |-> IF t = s THEN {} ELSE ahead[t] \ {s}]
       /\ wrapped' = (wrapped /\ (InState("REQUEST") \ {s} # {} \/ arrival[s] > now))
  /\ sched' = sched - 1
  /\ UNCHANGED <<request_type, arrival, now, execvars, caller, started, triggered,
                 comms, unstored, strict_wire, spurious>>

\* The scheduler picks a slot: its timer takes the place of the scheduler's.
Pick ==
  /\ sched > 0 /\ ~Idle
  /\ \E s \in Candidates :
       /\ SessionAssign(s)
       /\ run' = [run EXCEPT ![s] = @ + 1]
       /\ qstate' = [qstate EXCEPT ![s] = "PROCESSING"]
       /\ last_time_stamp' = arrival[s]
       /\ ahead' = [t \in Slot |-> IF t = s THEN {} ELSE ahead[t] \ {s}]
       /\ wrapped' = (wrapped /\ (InState("REQUEST") \ {s} # {} \/ arrival[s] > now))
  /\ sched' = sched - 1
  /\ triggered' = FALSE
  /\ UNCHANGED <<request_type, arrival, now, execvars, caller, started,
                 comms, unstored, strict_wire, spurious>>

\* Requests are waiting, for a session: the scheduler registers itself again.
PickNone ==
  /\ sched > 0 /\ ~Idle
  /\ Candidates = {}
  /\ triggered' = FALSE
  /\ last_time_stamp' = IF Resuming THEN last_time_stamp ELSE From
  /\ UNCHANGED <<qvars, now, wrapped, sessvars, execvars, caller, started, sched,
                 run, comms, unstored, ahead, strict_wire, spurious>>

-----------------------------------------------------------------------------
(* optiga_cmd_execute_handler.  A timer of the instance enters it, or the   *)
(* communication layer that has finished the operation of the instance: by  *)
(* is "timer" or "comms".  The state decides what is done, not the caller.  *)

Entered(s, by) ==
  /\ IF by = "timer" THEN run[s] > 0 ELSE s \in comms
  /\ UNCHANGED <<timevars, sessvars, started, ahead>>

\* The timers of s when the callback returns, "n" of them registered by it.
Timers(s, by, n) ==
  run' = [run EXCEPT ![s] = @ + n - IF by = "timer" THEN 1 ELSE 0]

CommsAfter(by) == IF by = "comms" THEN {} ELSE comms

\* OPTIGA_CMD_STATE_EXIT: the command is over, what it kept is void.
Exit(s) ==
  /\ exec' = [exec EXCEPT ![s] = "EXIT"]
  /\ CallHandler(s)
  /\ cmd' = [cmd EXCEPT ![s] = "none"]
  /\ notify' = [notify EXCEPT ![s] = FALSE]
  /\ chunks' = 0

\* OPTIGA_CMD_EXEC_RELEASE_LOCK, then OPTIGA_CMD_STATE_EXIT
Finish(s) == ResetSlot(s) /\ Exit(s)

FinishNow(s, by) ==
  /\ Timers(s, by, 0)
  /\ comms' = CommsAfter(by)
  /\ Finish(s)

\* The communication layer takes one operation at a time, and is free only
\* after the callback of the last one has returned.
CommsStart(s, by, next) ==
  /\ comms = {} /\ comms' = {s}
  /\ Timers(s, by, 0)
  /\ exec' = [exec EXCEPT ![s] = next]
  /\ UNCHANGED <<qvars, caller, spurious, triggered, sched, cmd, chunks, unstored>>

\* Registers the instance's timer and leaves it to the next state.
Later(s, by, next) ==
  /\ Timers(s, by, 1)
  /\ comms' = CommsAfter(by)
  /\ exec' = [exec EXCEPT ![s] = next]
  /\ UNCHANGED <<qvars, caller, spurious, triggered, sched, cmd, strict_wire>>

\* event # OPTIGA_LIB_SUCCESS: whatever the state, the lock is released.
CommsError(s) ==
  /\ Entered(s, "comms")
  /\ FinishNow(s, "comms")
  /\ UNCHANGED <<unstored, strict_wire>>

CaseOpenStart(s, by) ==
  /\ exec[s] = "OPEN_START" /\ Entered(s, by)
  /\ \/ CommsStart(s, by, "OPEN_DONE") /\ strict_wire' = {} /\ UNCHANGED notify
     \/ FinishNow(s, by) /\ UNCHANGED <<unstored, strict_wire>>

CaseOpenDone(s, by) ==
  /\ exec[s] = "OPEN_DONE" /\ Entered(s, by)
  /\ Later(s, by, "PREPARE")
  /\ UNCHANGED <<notify, chunks, unstored>>

\* The handler of the command prepares the APDU, or fails.
CasePrepare(s, by) ==
  /\ exec[s] = "PREPARE" /\ Entered(s, by)
  /\ \/ /\ CommsStart(s, by, "PROCESS")
        /\ notify' = [notify EXCEPT ![s] = TRUE]
        /\ strict_wire' = IF RequestType(cmd[s]) = "STRICT" THEN {s} ELSE {}
     \/ FinishNow(s, by) /\ UNCHANGED <<unstored, strict_wire>>

\* OPTIGA_CMD_EXEC_PROCESS_RESPONSE when the last error code has been read
ProcessErrorCode(s, by) ==
  /\ ~notify[s]
  /\ FinishNow(s, by)
  /\ UNCHANGED <<unstored, strict_wire>>

\* The handler of the command is satisfied, or the caller's buffer is too small.
\* A fragment of a strict sequence that is not the last keeps its slot.
ProcessLast(s, by) ==
  /\ notify[s]
  /\ \/ cmd[s] \in {"plain", "data", "session", "final", "open"} /\ FinishNow(s, by)
     \/ /\ cmd[s] \in {"start", "continue"}
        /\ Timers(s, by, 0) /\ comms' = CommsAfter(by)
        /\ EventStart
        /\ Exit(s)
        /\ UNCHANGED qvars
  /\ UNCHANGED <<unstored, strict_wire>>

\* The application of the device is closed, the communication comes next.
ProcessClosed(s, by) ==
  /\ notify[s] /\ cmd[s] \in {"close", "hibernate"}
  /\ Later(s, by, "CLOSE_START")
  /\ UNCHANGED <<notify, chunks, unstored>>

\* There is more of the data object.
ProcessChained(s, by) ==
  /\ notify[s] /\ cmd[s] = "data" /\ chunks < MaxChunks
  /\ chunks' = chunks + 1
  /\ Later(s, by, "PREPARE")
  /\ UNCHANGED <<notify, unstored>>

\* The device has rejected the command: its last error code is read.  A read
\* that already has data looks at the code itself.
ProcessRejected(s, by) ==
  /\ notify[s] /\ by = "comms"
  /\ notify' = [notify EXCEPT ![s] = cmd[s] = "data" /\ chunks > 0]
  /\ Later(s, by, "ERROR_TX")
  /\ UNCHANGED <<chunks, unstored>>

\* The device has closed its application, the host cannot store the context.
\* The state machine takes that for an error of the device.
ProcessUnstored(s, by) ==
  /\ notify[s] /\ cmd[s] = "hibernate" /\ StoreMayFail
  /\ unstored' = TRUE
  /\ Later(s, by, "ERROR_TX")
  /\ UNCHANGED <<notify, chunks>>

CaseProcess(s, by) ==
  /\ exec[s] = "PROCESS" /\ Entered(s, by)
  /\ \/ ProcessErrorCode(s, by) \/ ProcessLast(s, by) \/ ProcessClosed(s, by)
     \/ ProcessChained(s, by) \/ ProcessRejected(s, by) \/ ProcessUnstored(s, by)

CaseErrorTx(s, by) ==
  /\ exec[s] = "ERROR_TX" /\ Entered(s, by)
  /\ \/ CommsStart(s, by, "ERROR_RX") /\ strict_wire' = {} /\ UNCHANGED notify
     \/ FinishNow(s, by) /\ UNCHANGED <<unstored, strict_wire>>

\* The last error code of the device is 0 if it has not rejected the command: its
\* close for a hibernate succeeded, the store did not.  (A response that breaks
\* the format of its command, which a handler rejects itself, would lead here as
\* well; the device is taken to keep to its formats.)
NoDeviceError(s) == notify[s] /\ cmd[s] = "hibernate"

\* Mutant: the timer is registered before the response is looked at.
CaseErrorRxEarlyTimer(s, by) ==
  /\ exec[s] = "ERROR_RX" /\ Entered(s, by)
  /\ \/ /\ Timers(s, by, 1) /\ comms' = CommsAfter(by)
        /\ Finish(s) /\ UNCHANGED strict_wire
     \/ ~NoDeviceError(s) /\ Later(s, by, "PROCESS") /\ UNCHANGED <<notify, chunks>>
  /\ UNCHANGED unstored

\* Reading the code is rejected, too, or there is a code; a code of 0 both
\* registers the timer and releases the lock.
CaseErrorRx(s, by) ==
  /\ exec[s] = "ERROR_RX" /\ Entered(s, by)
  /\ \/ FinishNow(s, by) /\ UNCHANGED strict_wire
     \/ /\ ~NoDeviceError(s)
        /\ Later(s, by, "PROCESS")
        /\ UNCHANGED <<notify, chunks>>
     \/ /\ NoDeviceError(s)
        /\ Timers(s, by, 1) /\ comms' = CommsAfter(by)
        /\ Finish(s)
        /\ UNCHANGED strict_wire
  /\ UNCHANGED unstored

\* The handler is called, and the lock released if "release".
Closed(s, by, release) ==
  /\ Timers(s, by, 0) /\ comms' = CommsAfter(by)
  /\ exec' = [exec EXCEPT ![s] = "CLOSE_DONE"]
  /\ CallHandler(s)
  /\ IF release THEN ResetSlot(s) ELSE UNCHANGED <<qvars, triggered, sched>>
  /\ UNCHANGED <<cmd, notify, chunks, unstored>>

\* Closing the communication is synchronous, unless there is the context of a
\* protected connection to save.
CaseCloseStart(s, by) ==
  /\ exec[s] = "CLOSE_START" /\ Entered(s, by)
  /\ \/ cmd[s] = "hibernate" /\ CommsStart(s, by, "CLOSE_DONE") /\ UNCHANGED notify
     \/ Closed(s, by, TRUE)
     \/ FinishNow(s, by) /\ UNCHANGED unstored
  /\ UNCHANGED strict_wire

CaseCloseDone(s, by) ==
  /\ exec[s] = "CLOSE_DONE" /\ Entered(s, by)
  /\ Closed(s, by, cmd[s] = "hibernate")
  /\ UNCHANGED strict_wire

\* A timer that outlived its command
CaseExit(s, by) ==
  /\ exec[s] = "EXIT" /\ Entered(s, by)
  /\ Timers(s, by, 0) /\ comms' = CommsAfter(by)
  /\ CallHandler(s)
  /\ UNCHANGED <<qvars, execvars, triggered, sched, unstored, strict_wire>>

ExecuteHandler(s, by) ==
  \/ CaseOpenStart(s, by) \/ CaseOpenDone(s, by) \/ CasePrepare(s, by)
  \/ CaseProcess(s, by) \/ CaseErrorTx(s, by) \/ CaseErrorRx(s, by)
  \/ CaseCloseStart(s, by) \/ CaseCloseDone(s, by) \/ CaseExit(s, by)

Timer(s) == ExecuteHandler(s, "timer")
CommsDone(s) == ExecuteHandler(s, "comms") \/ CommsError(s)

Application(s) ==
  Create(s) \/ Destroy(s) \/ (\E c \in Commands : Request(s, c)) \/ ReleaseSequence(s)

\* Bound: a failure to store the context is followed up to what it leads to in
\* the layer itself, the application makes no more calls.
Next ==
  \/ Pick \/ PickNone
  \/ ~unstored /\ \E s \in Slot : Application(s)
  \/ \E s \in Slot : Timer(s) \/ CommsDone(s)

\* The event loop serves every registered timer, and every operation of the
\* communication layer ends, as it does unless damaged frames arrive without
\* end (DataLink: AnsweredUnlessFlooded).  The application owes nothing.
Fairness ==
  /\ WF_vars(Pick)
  /\ \A s \in Slot : WF_vars(Timer(s)) /\ WF_vars(CommsDone(s))

Spec == Init /\ [][Next]_vars
FairSpec == Spec /\ Fairness

-----------------------------------------------------------------------------
(* Properties                                                               *)

CmdTypeOK ==
  /\ qstate \in [Slot -> {"NOT_ASSIGNED", "ASSIGNED", "REQUEST", "PROCESSING", "RESUME"}]
  /\ request_type \in [Slot -> {"none", "LOCK", "SESSION", "STRICT"}]
  /\ arrival \in [Slot -> 0 .. Round - 1]
  /\ last_time_stamp \in 0 .. Round - 1 /\ now \in 0 .. Round - 1
  /\ session \in [Slot -> 0 .. MAX_SESSIONS] /\ sessions \subseteq 1 .. MAX_SESSIONS
  /\ caller \in [Slot -> {"absent", "free", "busy"}]
  /\ cmd \in [Slot -> Kinds \cup {"none"}]
  /\ exec \in [Slot -> {"OPEN_START", "OPEN_DONE", "PREPARE", "PROCESS", "ERROR_TX",
                        "ERROR_RX", "CLOSE_START", "CLOSE_DONE", "EXIT"}]
  /\ notify \in [Slot -> BOOLEAN] /\ chunks \in 0 .. MaxChunks
  /\ started \in BOOLEAN /\ triggered \in BOOLEAN
  /\ sched \in 0 .. 1 /\ run \in [Slot -> 0 .. 1]
  /\ comms \subseteq Slot /\ Cardinality(comms) <= 1
  /\ unstored \in BOOLEAN
  /\ ahead \in [Slot -> SUBSET Slot] /\ wrapped \in BOOLEAN
  /\ strict_wire \subseteq Slot /\ spurious \in BOOLEAN

\* From the first optiga_cmd_create on there is exactly one thing that keeps
\* the layer going: the timer of the scheduler, one timer of one instance, or
\* the operation of the communication layer.  A lost one would stop every
\* instance for good, a second one would run two commands at once.  (After a
\* failure to store the context there may be a second one: see HandlerOnce.)
OneActivity ==
  LET timers == {s \in Slot : run[s] > 0} IN
  started /\ ~unstored =>
    \/ sched = 1 /\ timers = {} /\ comms = {}
    \/ /\ sched = 0 /\ Cardinality(timers \cup comms) = 1
       /\ timers \cap comms = {}
       /\ \A s \in timers : run[s] = 1

\* The instance at work has the lock, and its caller waits for it; a caller
\* that waits is in the queue or the one at work; no handler is called with
\* nothing outstanding.  So every request is answered, once.
OneAnswer ==
  ~unstored => ~spurious /\ \A s \in Slot :
    LET atWork == run[s] > 0 \/ s \in comms IN
    /\ atWork => qstate[s] = "PROCESSING" /\ caller[s] = "busy"
    /\ caller[s] = "busy" <=> atWork \/ qstate[s] \in {"REQUEST", "RESUME"}

\* A session belongs to one instance, none is marked as assigned without an
\* owner, and a command that needs a session runs with one.
SessionsSound ==
  /\ sessions = {session[s] : s \in Slot} \ {0}
  /\ \A s, t \in Slot : session[s] = session[t] /\ session[s] # 0 => s = t
  /\ \A s \in Slot :
       qstate[s] = "PROCESSING" /\ request_type[s] = "SESSION" => session[s] # 0

\* The completion handler is called once for each operation, never for an
\* instance with nothing outstanding (optiga_cmd.c: "After OPTIGA error is
\* analyzed, invoke upper layer handler and release lock").
HandlerOnce == ~spurious

\* The device sees the fragments of a strict sequence without any other APDU
\* between them, whatever the other instances ask for (optiga_util.h: "None of
\* the service layer API will be processed until the strict sequence is
\* terminated").
StrictSequence ==
  [][\A s \in Slot :
       /\ ~unstored /\ cmd[s] \in {"continue", "final"}
       /\ exec[s] = "PREPARE" /\ exec'[s] = "PROCESS"
       => strict_wire = {s}]_vars

Precedes(t, s) == t \in ahead[s]

Scheduled(s) == qstate[s] = "REQUEST" /\ qstate'[s] = "PROCESSING"

\* Requests for a lock are served in the order of their arrival as long as the
\* clock does not wrap: only one that waits for a session is overtaken.
LockFifo ==
  [][\A s, t \in Slot :
       Scheduled(s) /\ Precedes(t, s) /\ ~wrapped => request_type[t] = "SESSION"]_vars

\* The scheduler's rule 4: "The arrival time must be the earliest provided a. The
\* request type is lock b. If request type is session, either session is
\* already assigned or atleast session is available for assignment".  So only
\* a request that cannot have a session is overtaken.
EarliestFirst ==
  [][\A s, t \in Slot :
       Scheduled(s) /\ Precedes(t, s) /\ ~wrapped => ~SessionOk(t)]_vars

\* A request for a lock is answered, unless another instance starts a strict
\* sequence and never ends it: no stream of later requests and no wrap of the
\* clock starves it.
Served ==
  \A s \in Slot :
    [](~unstored) /\ (\A t \in Slot \ {s} : []<>(~Holds(t)))
      => (qstate[s] \in {"REQUEST", "RESUME"} /\ request_type[s] # "SESSION"
           ~> caller[s] # "busy")
=============================================================================
