------------------------------- MODULE Session -------------------------------
(***************************************************************************)
(* The upper part of the I2C stack: the presentation layer                 *)
(* (ifx_i2c_presentation_layer.c, the shielded connection), the entry of   *)
(* the stack (ifx_i2c.c) and the communication layer above it              *)
(* (optiga_comms_ifx_i2c.c).                                               *)
(*                                                                         *)
(* Below stands the transport layer as Transport shows it: one exchange at *)
(* a time, which ends with the device's answer or with an error; it is     *)
(* idle whenever an event is handled, so that ifx_i2c_tl_transceive is not *)
(* refused.  The peer is a device that keeps its side of the session; its  *)
(* code is not part of the repository.                                     *)
(*                                                                         *)
(* Keys are numbered by the handshakes that made them; key 0 is no key.  A *)
(* record that was protected can be read only with the same key and the    *)
(* same number, and only if it is intact.                                  *)
(*                                                                         *)
(* MaxRequests, MaxOpens and MaxCloses bound the calls of the upper layer, *)
(* MaxFaults, together, the failures of the transport, of the data store   *)
(* and of the cryptography, the damaged records and those out of turn, of  *)
(* which there are at most MaxStrange.                                     *)
(***************************************************************************)
EXTENDS Naturals

CONSTANTS
  SeqSize,                \* sequence numbers are counted modulo SeqSize (2^32)
  PRL_SEQUENCE_THRESHOLD, \* the last number that may be used for a new record
  PRL_TRANS_REPEAT,       \* repetitions of a record, and the receive window
  FirstNumbers,           \* the numbers a device may start a session with
  Asks,                   \* the protection the upper layer asks for: level and
                          \* RE_ESTABLISH
  StoreConfigured,        \* values of "a data store is configured"
  MaxRequests, MaxOpens, MaxCloses, MaxFaults, MaxStrange

\* The numbers left above the threshold must do for the repetitions of one
\* exchange (the code: 2^32, 2^32 - 16 and 3).
ASSUME NumberAssumption ==
  /\ SeqSize \in Nat /\ PRL_SEQUENCE_THRESHOLD \in Nat /\ PRL_TRANS_REPEAT \in Nat \ {0}
  /\ PRL_SEQUENCE_THRESHOLD + PRL_TRANS_REPEAT * (PRL_TRANS_REPEAT + 2) <= SeqSize
  /\ FirstNumbers # {} /\ FirstNumbers \subseteq 0 .. PRL_SEQUENCE_THRESHOLD - 1
ASSUME ChoiceAssumption ==
  Asks \subseteq ({"NO", "MASTER", "SLAVE", "FULL"} \X BOOLEAN) /\ StoreConfigured \subseteq BOOLEAN
ASSUME BudgetAssumption ==
  /\ MaxRequests \in Nat /\ MaxOpens \in Nat /\ MaxCloses \in Nat
  /\ MaxFaults \in Nat /\ MaxStrange \in Nat

VARIABLES
  comms,  \* optiga_comms_t.state
  i2c,    \* p_ctx: state, status, close_state, the reset under way, and what the
          \* upper layer asks for (level, RE_ESTABLISH, manage_context_operation)
  prl,    \* p_ctx->prl
  store,  \* the data store's copy of the saved session
  event,  \* the event being handled: "none", "error", "loop" (in the switch) or
          \* "report" (in the upper layer's handler), and the call it runs in
  tl,     \* the transport layer: "idle", "init", or "exchange" with
  tx,     \*   the record it carries
  dev,    \* the device
  used,   \* budgets used up
  hist    \* history, for the properties only

vars == <<comms, i2c, prl, store, event, tl, tx, dev, used, hist>>
lower == <<tl, tx, dev>>

Sequence == 0 .. SeqSize - 1
Next_number(n) == (n + 1) % SeqSize

NoContext == [stored |-> FALSE, key |-> 0, master |-> 0, slave |-> 0,
              failures |-> 0, repeats |-> 0, negotiated |-> FALSE]

\* A record: its protocol and message (type), the protection in its header,
\* its length in steps (0 nothing; 1 one byte, or no more than the overhead;
\* 2 more), the number, the key it is protected with, the exchange it belongs
\* to, and whether it is intact.
Record(type) == [type |-> type, level |-> "NO", length |-> 2, seq |-> 0, key |-> 0,
                 of |-> 0, intact |-> TRUE]
Alert(type) == [Record(type) EXCEPT !.length = 1]
NoRecord == [Record("none") EXCEPT !.length = 0]

NoEvent == [phase |-> "none", status |-> "SUCCESS", answer |-> NoRecord, call |-> "none"]

ProtectsMaster(level) == level \in {"MASTER", "FULL"}
ProtectsSlave(level)  == level \in {"SLAVE", "FULL"}

Fault == used.faults < MaxFaults /\ used' = [used EXCEPT !.faults = @ + 1]

-----------------------------------------------------------------------------
(* The device                                                               *)

DeviceReset(d) == [d EXCEPT !.pending = 0, !.key = 0]
DeviceOff(d) == [DeviceReset(d) EXCEPT !.on = FALSE]

\* The device's next answer, protected as the record asked.
Response(d, level) ==
  LET seq == IF ProtectsSlave(level) THEN Next_number(d.slave) ELSE d.slave
      a   == [Record("data") EXCEPT !.level = level, !.seq = seq, !.of = d.executed,
                !.key = IF ProtectsSlave(level) THEN d.key ELSE 0]
  IN [dev |-> [d EXCEPT !.slave = seq, !.last = a], answer |-> a]

Complaint(d) == [dev |-> DeviceReset(d), answer |-> Alert("fatal")]

\* A payload that is still encrypted (of = 0) is no command to the device.
Executes(d, m) ==
  LET t == [d EXCEPT !.master = IF ProtectsMaster(m.level) THEN m.seq ELSE @]
  IN IF m.of = 0
       THEN Response([t EXCEPT !.garbled = TRUE], m.level)
       ELSE Response([t EXCEPT !.executed = m.of,
                        !.times = IF d.executed = m.of THEN 2 ELSE 1], m.level)

\* What the device does with record m; n is the number it would start with.
DeviceTakes(d, m, n) ==
  CASE m.type = "hello" ->
         LET k == d.sessions + 1
         IN [dev    |-> [d EXCEPT !.pending = k, !.sessions = k, !.key = 0, !.slave = n],
             answer |-> [Record("hello") EXCEPT !.seq = n, !.key = k]]
    [] /\ m.type = "finished" /\ d.pending # 0 /\ m.intact
       /\ m.key = d.pending /\ m.seq = d.slave ->
         [dev    |-> [d EXCEPT !.pending = 0, !.key = m.key, !.master = n],
          answer |-> [Record("finished") EXCEPT !.seq = n, !.key = m.key]]
    [] m.type = "data" /\ m.level = "NO" -> Executes(d, m)
    [] m.type = "data" /\ m.level # "NO" /\ d.key # 0 /\ ~ProtectsMaster(m.level) ->
         Executes(d, m)
    [] m.type = "data" /\ d.key # 0 /\ ProtectsMaster(m.level) /\ m.key = d.key ->
         IF m.intact /\ m.seq > d.master
           THEN Executes(d, m)
           ELSE [dev |-> d, answer |-> Alert("integrity")]
    [] m.type = "alert" /\ d.key # 0 /\ d.last.key = d.key -> Response(d, d.last.level)
    [] m.type = "save" /\ d.key # 0 ->
         [dev |-> [DeviceReset(d) EXCEPT !.saved_key = d.key, !.saved_slave = d.slave,
                     !.saved_master = d.master],
          answer |-> Alert("saved")]
    [] m.type = "restore" /\ d.saved_key # 0 /\ m.seq = d.saved_slave ->
         [dev |-> [d EXCEPT !.key = d.saved_key, !.slave = d.saved_slave,
                     !.master = d.saved_master, !.saved_key = 0],
          answer |-> Record("restored")]
    [] OTHER -> Complaint(d)

\* What a device may say out of turn, besides its true answer a: alerts of
\* other kinds and lengths, too little, the wrong protection, and its last
\* answer once more.
Strange(a, d) ==
  {Alert("fatal"), Alert("integrity"), Record("integrity"), Alert("other"),
   [a EXCEPT !.length = 0], [a EXCEPT !.length = 1],
   [a EXCEPT !.level = IF @ = "NO" THEN "FULL" ELSE "NO"],
   d.last}

\* An answer that was damaged, also in its number.
Damaged(a) ==
  {[a EXCEPT !.intact = FALSE, !.seq = (@ + n) % SeqSize] :
     n \in {0, PRL_TRANS_REPEAT - 1, PRL_TRANS_REPEAT}}

-----------------------------------------------------------------------------
(* The parts the handler's cases share                                      *)

Handling(phase) == event.phase = phase
State(s) == Handling("loop") /\ prl.state = s
answer == event.answer

\* ERROR_STATE_PREPARATION
Error_state_preparation(p) ==
  [p EXCEPT !.alert = "INVALID", !.state = "ERROR", !.negotiated = FALSE,
            !.return_status = "SESSION_ERROR", !.trans_repeat = FALSE]

\* DO_NEGOTIATION
Do_negotiation(p) ==
  [p EXCEPT !.negotiated = FALSE, !.state = "HANDSHAKE", !.hs_state = "SEND_HELLO"]

HandshakeFailed(p) ==
  [p EXCEPT !.alert = "INVALID", !.state = "ERROR", !.return_status = "HANDSHAKE_ERROR"]

\* COPY_MANAGE_CONTEXT_DATA in both directions
\* Mutant: the number of the master is not kept.
SavedWithoutNumber(p) ==
  [stored |-> TRUE, key |-> p.key, master |-> p.saved.master, slave |-> p.save_slave,
   failures |-> p.decryption_failure_counter, repeats |-> p.data_retransmit_counter,
   negotiated |-> p.negotiated]

Saved(p) ==
  [stored |-> TRUE, key |-> p.key, master |-> p.master, slave |-> p.save_slave,
   failures |-> p.decryption_failure_counter, repeats |-> p.data_retransmit_counter,
   negotiated |-> p.negotiated]

Restored(p) ==
  [p EXCEPT !.key = p.saved.key, !.master = p.saved.master, !.save_slave = p.saved.slave,
            !.decryption_failure_counter = p.saved.failures,
            !.data_retransmit_counter = p.saved.repeats, !.negotiated = p.saved.negotiated]

\* CLEAR_SESSION_CONTEXT: not the state of the negotiation
Cleared(p) ==
  [p EXCEPT !.key = 0, !.master = 0, !.save_slave = 0, !.decryption_failure_counter = 0,
            !.data_retransmit_counter = 0, !.trans_repeat = FALSE, !.state = "IDLE"]

Kept_in_store(c) == store' = IF prl.configured THEN c ELSE store
StoreFails == prl.configured /\ Fault

\* Round the loop again with the same event.
Again(p) == prl' = p /\ UNCHANGED <<comms, i2c, event, lower>>

\* The handler returns; so does ifx_i2c_transceive when it was called from
\* there, which marks the stack busy unless the last event was an error.
Busy_after_call(c) ==
  IF event.call = "transceive" /\ c.close_state = "SUCCESS"
    THEN [c EXCEPT !.status = "BUSY"] ELSE c
Leave(c) == event' = NoEvent /\ i2c' = Busy_after_call(c)

\* ifx_i2c_tl_transceive
Sends(m, p) ==
  /\ tl = "idle"
  /\ tl' = "exchange" /\ tx' = m
  /\ prl' = p
  /\ Leave(i2c)
  /\ UNCHANGED <<comms, dev>>

-----------------------------------------------------------------------------
(* ifx_i2c_prl_event_handler: an error event first, then one action for     *)
(* each way through a case of the switch.                                   *)

EnterError ==
  /\ Handling("error")
  /\ LET closes == /\ prl.state # "HANDSHAKE" /\ prl.negotiated
                   /\ event.status # "MEM_ERROR"
     IN prl' = [prl EXCEPT !.alert = "INVALID", !.state = "ERROR",
                  !.return_status = IF prl.state = "HANDSHAKE" THEN "HANDSHAKE_ERROR"
                                    ELSE IF closes THEN "SESSION_ERROR" ELSE event.status,
                  !.negotiated = @ /\ ~closes]
  /\ event' = [event EXCEPT !.phase = "loop"]
  /\ UNCHANGED <<comms, i2c, store, lower, used, hist>>

\* The upper layer's handler is called: ifx_i2c_prl_close_event_handler frees
\* the stack and takes the device's power first, ifx_i2c_tl_event_handler
\* leaves its own state for later.
PowerOff(c) == [c EXCEPT !.status = "NOT_BUSY"]

Told(h, status) ==
  IF h.outcome # "pending" \/ prl.handler = "close" THEN h
  ELSE [h EXCEPT !.outcome = IF status = "SUCCESS" THEN "ok" ELSE "failed"]

Idle ==
  /\ State("IDLE")
  /\ event' = [event EXCEPT !.phase = "report", !.status = prl.return_status,
                           !.answer = NoRecord]
  /\ IF prl.handler = "close"
       THEN i2c' = PowerOff(i2c) /\ dev' = DeviceOff(dev)
       ELSE UNCHANGED <<i2c, dev>>
  /\ hist' = Told(hist, prl.return_status)
  /\ UNCHANGED <<comms, prl, store, tl, tx, used>>

\* Mutant: a session that exists is used all the same.
AsksHandshakeOnce ==
  i2c.level # "NO" /\ ~prl.negotiated

AsksHandshake ==
  i2c.re_establish \/ (i2c.level # "NO" /\ ~prl.negotiated)

Start ==
  /\ State("START")
  /\ Again(IF AsksHandshake THEN Do_negotiation(prl) ELSE [prl EXCEPT !.state = "TXRX"])
  /\ UNCHANGED <<store, used, hist>>

\* Every pass through the handshake clears the saved session first.
HandshakePass == State("HANDSHAKE") /\ Kept_in_store(NoContext)
Unsaved == [prl EXCEPT !.saved = NoContext]

HandshakeStoreFails ==
  /\ State("HANDSHAKE") /\ StoreFails
  /\ Again([Error_state_preparation(Unsaved) EXCEPT !.return_status = "HANDSHAKE_ERROR"])
  /\ UNCHANGED <<store, hist>>

SendHello ==
  /\ HandshakePass /\ prl.hs_state = "SEND_HELLO"
  /\ Sends(Record("hello"), [Unsaved EXCEPT !.hs_state = "VERIFY_HELLO"])
  /\ UNCHANGED <<used, hist>>

\* The key is derived from the device's random; another random makes no key
\* the device knows.
Derived == IF answer.intact THEN answer.key ELSE 0

\* The answer's number and random are taken, the key is derived, and both are
\* confirmed in a record protected with that key.
HelloAccepted ==
  /\ HandshakePass /\ prl.hs_state = "VERIFY_HELLO"
  /\ answer.type = "hello" /\ answer.length = 2
  /\ Sends([Record("finished") EXCEPT !.seq = answer.seq, !.key = Derived],
           [Unsaved EXCEPT !.hs_state = "VERIFY_FINISHED", !.key = Derived,
                           !.save_slave = answer.seq])
  /\ UNCHANGED <<used, hist>>

HelloRefused ==
  /\ HandshakePass /\ prl.hs_state = "VERIFY_HELLO"
  /\ answer.type # "hello" \/ answer.length # 2
  /\ Again(HandshakeFailed(Unsaved))
  /\ UNCHANGED <<used, hist>>

\* The secret cannot be read, the key cannot be derived, or, with the new key in
\* place, the confirmation cannot be encrypted.
HelloFails ==
  /\ HandshakePass /\ prl.hs_state = "VERIFY_HELLO"
  /\ answer.type = "hello" /\ answer.length = 2
  /\ Fault
  /\ \E key \in {prl.key, Derived} :
       Again(HandshakeFailed([Unsaved EXCEPT !.save_slave = answer.seq, !.key = key]))
  /\ UNCHANGED hist

FinishedAccepted ==
  /\ HandshakePass /\ prl.hs_state = "VERIFY_FINISHED"
  /\ answer.type = "finished" /\ answer.length = 2
  /\ answer.intact /\ answer.key = prl.key
  /\ Again([Unsaved EXCEPT !.master = answer.seq, !.negotiated = TRUE, !.state = "TXRX"])
  /\ hist' = [hist EXCEPT !.fresh = TRUE, !.lost = {}, !.confirmed = @ \cup {prl.key}]
  /\ UNCHANGED used

FinishedRefused ==
  /\ HandshakePass /\ prl.hs_state = "VERIFY_FINISHED"
  /\ ~(answer.type = "finished" /\ answer.length = 2 /\ answer.intact /\ answer.key = prl.key)
  /\ Again(HandshakeFailed([Unsaved EXCEPT
              !.master = IF answer.type = "finished" /\ answer.length = 2
                           THEN answer.seq ELSE @]))
  /\ UNCHANGED <<used, hist>>

-----------------------------------------------------------------------------
(* PRL_STATE_TXRX                                                           *)

\* Mutant: the threshold is tested for the number itself.
ExhaustedLate(n) == PRL_SEQUENCE_THRESHOLD < n
Exhausted(n) == PRL_SEQUENCE_THRESHOLD < Next_number(n)

Renegotiates ==
  /\ ~prl.trans_repeat
  /\ \/ ProtectsSlave(i2c.level) /\ Exhausted(prl.save_slave)
     \/ ProtectsMaster(i2c.level) /\ Exhausted(prl.master)

TxrxRenegotiate ==
  /\ State("TXRX") /\ Renegotiates
  /\ Again(Do_negotiation(prl))
  /\ UNCHANGED <<store, used, hist>>

\* The payload is encrypted where it lies; it is first decrypted when the
\* record is sent again because its integrity was lost.
Sealed == prl.sealed /\ prl.alert # "INTEGRITY"

Numbered ==
  IF ProtectsMaster(i2c.level)
    THEN [prl EXCEPT !.master = Next_number(@), !.sealed = TRUE]
    ELSE prl

\* What the device can make of the payload: nothing, if it was still
\* encrypted from before.
Outgoing(p) ==
  [Record("data") EXCEPT !.level = i2c.level,
     !.of = IF Sealed THEN 0 ELSE hist.current,
     !.seq = IF ProtectsMaster(i2c.level) THEN p.master ELSE 0,
     !.key = IF ProtectsMaster(i2c.level) THEN p.key ELSE 0]

Numbers_used(h, m) ==
  IF m.key = 0 THEN h
  ELSE [h EXCEPT !.numbers = @ \cup {<<m.key, m.seq>>},
                 !.reused = @ \/ <<m.key, m.seq>> \in h.numbers]

TxrxSend ==
  /\ State("TXRX") /\ ~Renegotiates
  /\ LET m == Outgoing(Numbered)
     IN /\ Sends(m, [Numbered EXCEPT !.state = "VERIFY"])
        /\ hist' = Numbers_used(hist, m)
  /\ UNCHANGED <<store, used>>

\* A cryptographic function fails.
TxrxFails ==
  /\ State("TXRX") /\ ~Renegotiates /\ ProtectsMaster(i2c.level) /\ Fault
  /\ Again(Error_state_preparation([Numbered EXCEPT !.sealed = Sealed]))
  /\ UNCHANGED <<store, hist>>

-----------------------------------------------------------------------------
(* PRL_STATE_VERIFY                                                         *)

Alerts == {"fatal", "integrity", "other", "saved", "restored"}
IsAlert == answer.length # 0 /\ answer.type \in Alerts
IsData == answer.length # 0 /\ answer.type \notin Alerts
InHeader == answer.type = "data" /\ answer.level = i2c.level

\* Mutant: an old number is accepted.
NoReplayTest ==
  answer.seq <= prl.save_slave + PRL_TRANS_REPEAT

InWindow ==
  /\ answer.seq <= (prl.save_slave + PRL_TRANS_REPEAT) % SeqSize
  /\ answer.seq > prl.save_slave

Readable == answer.intact /\ answer.key = prl.key
InSession == IsData /\ InHeader /\ ProtectsSlave(i2c.level)

VerifyRejected ==
  /\ State("VERIFY")
  /\ \/ answer.length = 0
     \/ IsData /\ ~InHeader
     \/ InSession /\ (answer.length = 1 \/ ~InWindow)
  /\ Again(Error_state_preparation(prl))
  /\ UNCHANGED <<store, used, hist>>

\* An alert of the device.  The session stays, unless the alert is malformed,
\* the repetitions are used up, or the session has just been restored.
VerifyAlert ==
  /\ State("VERIFY") /\ IsAlert
  /\ LET closes == \/ answer.type \notin {"fatal", "integrity"}
                   \/ answer.length # 1 /\ prl.negotiated
                   \/ prl.data_retransmit_counter = PRL_TRANS_REPEAT
                   \/ prl.restore_done /\ i2c.manage = "RESTORE"
     IN Again([prl EXCEPT !.state = "ALERT", !.alert = "INVALID",
                 !.negotiated = @ /\ ~closes,
                 !.return_status = IF closes THEN "SESSION_ERROR" ELSE "STACK_ERROR"])
  /\ UNCHANGED <<store, used, hist>>

\* An answer to the host's own alert is decrypted with a length kept from before
\* the alert (the size of the buffer, then the length of the answer before):
\* it may be misread although it is intact.
Misread == prl.alert = "INVALID"

\* The window moves before the record is decrypted.
VerifyUnreadable ==
  /\ State("VERIFY") /\ InSession /\ answer.length = 2 /\ InWindow
  /\ ~Readable \/ Misread
  /\ Again([prl EXCEPT !.save_slave = answer.seq, !.state = "ALERT", !.alert = "INTEGRITY"])
  /\ UNCHANGED <<store, used, hist>>

VerifyAccepted ==
  /\ State("VERIFY") /\ InSession /\ answer.length = 2 /\ InWindow /\ Readable
  /\ Again([prl EXCEPT !.save_slave = answer.seq, !.return_status = "SUCCESS", !.state = "IDLE"])
  /\ hist' = [hist EXCEPT !.accepted = answer.of]
  /\ UNCHANGED <<store, used>>

\* Mutant: the kind of alert is left as it was.
VerifyPlainShortSilent ==
  /\ State("VERIFY") /\ IsData /\ InHeader /\ ~ProtectsSlave(i2c.level) /\ answer.length = 1
  /\ Again([prl EXCEPT !.state = "ERROR", !.negotiated = FALSE,
              !.return_status = IF prl.negotiated THEN "SESSION_ERROR" ELSE "STACK_ERROR"])
  /\ UNCHANGED <<store, used, hist>>

VerifyPlainShort ==
  /\ State("VERIFY") /\ IsData /\ InHeader /\ ~ProtectsSlave(i2c.level) /\ answer.length = 1
  /\ Again([prl EXCEPT !.state = "ERROR", !.alert = "INVALID", !.negotiated = FALSE,
              !.return_status = IF prl.negotiated THEN "SESSION_ERROR" ELSE "STACK_ERROR"])
  /\ UNCHANGED <<store, used, hist>>

VerifyPlain ==
  /\ State("VERIFY") /\ IsData /\ InHeader /\ ~ProtectsSlave(i2c.level) /\ answer.length = 2
  /\ Again([prl EXCEPT !.return_status = "SUCCESS", !.state = "IDLE"])
  /\ UNCHANGED <<store, used, hist>>

-----------------------------------------------------------------------------
(* PRL_STATE_ALERT and PRL_STATE_ERROR.  The code's second test of the      *)
(* counter of repetitions cannot succeed after the first one.               *)

\* Mutant: also when the host could not read the answer.
RepeatsUnreadable ==
  /\ (answer.type = "integrity" /\ answer.length = 1) \/ prl.alert = "INTEGRITY"
  /\ prl.data_retransmit_counter < PRL_TRANS_REPEAT
  /\ ProtectsMaster(i2c.level) /\ ~i2c.re_establish

RepeatsRecord ==
  /\ answer.type = "integrity" /\ answer.length = 1
  /\ prl.data_retransmit_counter < PRL_TRANS_REPEAT
  /\ ProtectsMaster(i2c.level) /\ ~i2c.re_establish

AlertRepeat ==
  /\ State("ALERT") /\ RepeatsRecord
  /\ Again([prl EXCEPT !.data_retransmit_counter = @ + 1, !.trans_repeat = TRUE,
              !.alert = "INTEGRITY", !.state = "TXRX"])
  /\ UNCHANGED <<store, used, hist>>

\* The device complains of the integrity once too often, or at length; or the
\* host could not read the answer once too often.
AlertTooOften ==
  IF answer.type = "integrity"
    THEN answer.length # 1 \/ prl.data_retransmit_counter >= PRL_TRANS_REPEAT
    ELSE prl.decryption_failure_counter = PRL_TRANS_REPEAT

AlertEnds ==
  /\ State("ALERT") /\ ~RepeatsRecord
  /\ Again(IF AlertTooOften THEN Error_state_preparation(prl)
                            ELSE [prl EXCEPT !.state = "ERROR"])
  /\ UNCHANGED <<store, used, hist>>

\* ifx_i2c_prl_send_alert: the device is told that its answer was not readable
\* and says it once more (Misread: with which length that is read).
ErrorAlert ==
  /\ State("ERROR") /\ prl.alert # "INVALID"
  /\ LET p == [prl EXCEPT !.alert = "INVALID"]
     IN IF prl.alert = "INTEGRITY"
          THEN Sends(Alert("alert"), [p EXCEPT !.decryption_failure_counter = @ + 1,
                                        !.state = "VERIFY", !.return_status = "SUCCESS"])
          ELSE /\ prl' = [p EXCEPT !.state = "IDLE", !.return_status = "SESSION_ERROR",
                                   !.negotiated = FALSE]
               /\ Leave(i2c)
               /\ UNCHANGED <<comms, lower>>
  /\ UNCHANGED <<store, used, hist>>

ErrorEnds ==
  /\ State("ERROR") /\ prl.alert = "INVALID"
  /\ Again([prl EXCEPT !.state = "IDLE"])
  /\ UNCHANGED <<store, used, hist>>

-----------------------------------------------------------------------------
(* ifx_i2c_prl_do_manage_context                                            *)

ManageTx == State("MANAGE_CONTEXT") /\ prl.mc_state = "TX"
ManageRx == State("MANAGE_CONTEXT") /\ prl.mc_state = "RX"

\* Also when the stack is closed: the last payload is sent once more then.
ManageReestablish ==
  /\ ManageTx /\ i2c.re_establish
  /\ Again([prl EXCEPT !.state = "START"])
  /\ hist' = [hist EXCEPT !.sent_at_close = @ \/ prl.handler = "close"]
  /\ UNCHANGED <<store, used>>

ManageSave ==
  /\ ManageTx /\ ~i2c.re_establish /\ i2c.manage = "SAVE"
  /\ Sends(Alert("save"), [prl EXCEPT !.mc_state = "RX"])
  /\ UNCHANGED <<store, used, hist>>

ReadFromStore == IF prl.configured THEN [prl EXCEPT !.saved = store] ELSE prl
Restoring == ManageTx /\ ~i2c.re_establish /\ i2c.manage = "RESTORE"

ManageNothingSaved ==
  /\ Restoring /\ ~ReadFromStore.saved.stored
  /\ Again([ReadFromStore EXCEPT !.state = "START", !.negotiated = FALSE, !.restore_done = TRUE])
  /\ UNCHANGED <<store, used, hist>>

\* The saved session is given up before the device is asked to restore it.
ManageRestore ==
  /\ Restoring /\ ReadFromStore.saved.stored
  /\ LET p == ReadFromStore
     IN Sends([Record("restore") EXCEPT !.seq = p.saved.slave],
              [p EXCEPT !.negotiated = p.saved.negotiated, !.saved.stored = FALSE,
                        !.mc_state = "RX"])
  /\ Kept_in_store(NoContext)
  /\ UNCHANGED <<used, hist>>

\* The data store cannot be read, or not be written.
ManageStoreFails ==
  /\ Restoring /\ StoreFails
  /\ \/ Again(Error_state_preparation(prl))
     \/ /\ store.stored
        /\ Again(Error_state_preparation([ReadFromStore EXCEPT !.saved.stored = FALSE]))
  /\ UNCHANGED <<store, hist>>

IsRestored == answer.type = "restored" /\ answer.length = 2 /\ i2c.manage = "RESTORE"
IsSaved == answer.type = "saved" /\ answer.length = 1 /\ i2c.manage = "SAVE"

ManageRestored ==
  /\ ManageRx /\ IsRestored
  /\ Again([Restored(prl) EXCEPT !.restore_done = TRUE, !.state = "TXRX",
                                 !.return_status = "SUCCESS"])
  /\ UNCHANGED <<store, used, hist>>

ManageSaved ==
  /\ ManageRx /\ IsSaved
  /\ Kept_in_store(Saved(prl))
  /\ Again([Cleared(prl) EXCEPT !.saved = Saved(prl), !.return_status = "SUCCESS"])
  /\ UNCHANGED <<used, hist>>

ManageSaveFails ==
  /\ ManageRx /\ IsSaved /\ StoreFails
  /\ Again(Error_state_preparation([prl EXCEPT !.saved = Saved(prl)]))
  /\ UNCHANGED <<store, hist>>

ManageRefused ==
  /\ ManageRx /\ ~IsRestored /\ ~IsSaved
  /\ Again(Error_state_preparation([prl EXCEPT !.saved = NoContext]))
  /\ \/ Kept_in_store(NoContext) /\ UNCHANGED used
     \/ StoreFails /\ UNCHANGED store
  /\ UNCHANGED hist

\* The upper layer's handler returns: ifx_i2c_event_handler frees the
\* communication layer, ifx_i2c_tl_event_handler the stack.
HandlerReturns ==
  /\ Handling("report")
  /\ comms' = "FREE"
  /\ event' = NoEvent
  /\ i2c' = IF prl.handler = "close" THEN i2c
            ELSE Busy_after_call(
                   [i2c EXCEPT !.close_state = event.status, !.status = "NOT_BUSY",
                      !.state = IF @ = "UNINIT" /\ event.status = "SUCCESS"
                                  THEN "IDLE" ELSE @])
  /\ UNCHANGED <<prl, store, lower, used, hist>>

Handler ==
  \/ EnterError \/ Idle \/ Start
  \/ HandshakeStoreFails \/ SendHello \/ HelloAccepted \/ HelloRefused \/ HelloFails
  \/ FinishedAccepted \/ FinishedRefused
  \/ TxrxRenegotiate \/ TxrxSend \/ TxrxFails
  \/ VerifyRejected \/ VerifyAlert \/ VerifyUnreadable \/ VerifyAccepted
  \/ VerifyPlainShort \/ VerifyPlain
  \/ AlertRepeat \/ AlertEnds \/ ErrorAlert \/ ErrorEnds
  \/ ManageReestablish \/ ManageSave \/ ManageNothingSaved \/ ManageRestore
  \/ ManageStoreFails \/ ManageRestored \/ ManageSaved \/ ManageSaveFails \/ ManageRefused
  \/ HandlerReturns

-----------------------------------------------------------------------------
(* The calls of the upper layer, also from within its handler.  A call that *)
(* is refused changes nothing that the next one does not set.               *)

MayCall == Handling("none") \/ Handling("report")

\* Mutant: a call is let through while another one is under way.
NeverInUse == comms \in {"FREE", "INUSE"}

\* check_optiga_comms_state
NotInUse == comms = "FREE"

Call(budget, max) ==
  /\ MayCall /\ NotInUse
  /\ used[budget] < max /\ used' = [used EXCEPT ![budget] = @ + 1]

\* ifx_i2c_prl_init; the transport layer resets itself and the layers below
Prl_init(p, manage) ==
  [p EXCEPT !.handler = "tl", !.restore_done = manage # "RESTORE", !.state = "IDLE",
            !.negotiated = FALSE, !.return_status = "SUCCESS", !.hs_state = "SEND_HELLO",
            !.alert = "DEFAULT"]

\* optiga_comms_open, ifx_i2c_open: a cold reset
CommsOpen(manage) ==
  /\ Call("opens", MaxOpens) /\ comms' = "INUSE"
  /\ i2c.status # "BUSY"
  /\ i2c' = [i2c EXCEPT !.manage = manage, !.state = "UNINIT", !.status = "BUSY",
               !.reset_state = "PIN_HIGH"]
  /\ dev' = DeviceOff(dev)
  /\ UNCHANGED <<prl, store, event, tl, tx, hist>>

\* optiga_comms_reset, ifx_i2c_reset
CommsReset(type) ==
  /\ Call("opens", MaxOpens) /\ comms' = "INUSE"
  /\ i2c.state = "IDLE" /\ i2c.status # "BUSY"
  /\ IF type = "SOFT"
       THEN /\ prl' = Prl_init(prl, i2c.manage) /\ tl' = "init"
            /\ i2c' = [i2c EXCEPT !.status = "BUSY"]
            /\ dev' = DeviceReset(dev)
       ELSE /\ i2c' = [i2c EXCEPT !.status = "BUSY", !.reset_state = "PIN_HIGH"]
            /\ dev' = IF type = "COLD" THEN DeviceOff(dev) ELSE DeviceReset(dev)
            /\ UNCHANGED <<prl, tl>>
  /\ UNCHANGED <<store, event, tx, hist>>

\* ifx_i2c_init again, from the timer
InitTimer ==
  /\ Handling("none") /\ i2c.reset_state # "none"
  /\ IF i2c.reset_state = "PIN_HIGH"
       THEN /\ i2c' = [i2c EXCEPT !.reset_state = "INIT"]
            /\ dev' = [dev EXCEPT !.on = TRUE]
            /\ UNCHANGED <<prl, tl>>
       ELSE /\ i2c' = [i2c EXCEPT !.reset_state = "none"]
            /\ prl' = Prl_init(prl, i2c.manage) /\ tl' = "init"
            /\ UNCHANGED dev
  /\ UNCHANGED <<comms, store, event, tx, used, hist>>

\* optiga_comms_transceive, ifx_i2c_transceive, ifx_i2c_prl_transceive
CommsTransceive(level, re_establish, manage) ==
  /\ Call("requests", MaxRequests) /\ comms' = "INUSE"
  /\ i2c.state = "IDLE" /\ i2c.status # "BUSY" /\ prl.state = "IDLE"
  /\ i2c' = [i2c EXCEPT !.level = level, !.re_establish = re_establish, !.manage = manage]
  /\ LET p == [prl EXCEPT !.sealed = FALSE, !.data_retransmit_counter = 0,
                 !.trans_repeat = FALSE, !.decryption_failure_counter = 0,
                 !.return_status = "SUCCESS", !.alert = "DEFAULT"]
     IN prl' = IF manage = "RESTORE" /\ ~prl.restore_done
                 THEN [p EXCEPT !.state = "MANAGE_CONTEXT", !.mc_state = "TX"]
                 ELSE [p EXCEPT !.state = "START"]
  /\ event' = [NoEvent EXCEPT !.phase = "loop", !.call = "transceive"]
  /\ hist' = [hist EXCEPT !.current = @ + 1, !.outcome = "pending", !.accepted = 0,
                !.fresh = FALSE, !.odd = FALSE]
  /\ UNCHANGED <<store, lower>>

\* optiga_comms_close, ifx_i2c_close, ifx_i2c_prl_close: at once, through the
\* saving of the session, or without either.
CommsClose(manage) ==
  /\ Call("closes", MaxCloses)
  /\ i2c.status # "BUSY"
  /\ LET c      == [i2c EXCEPT !.manage = manage, !.close_state = "STACK_ERROR",
                                !.state = "UNINIT"]
         closes == prl.state = "IDLE" /\ manage = "NONE"
         saves  == prl.state = "IDLE" /\ manage = "SAVE" /\ prl.negotiated
     IN \/ /\ closes
           /\ prl' = [prl EXCEPT !.handler = "close"]
           /\ i2c' = PowerOff(c) /\ dev' = DeviceOff(dev)
           /\ event' = [NoEvent EXCEPT !.phase = "report"]
           /\ comms' = "INUSE"
        \/ /\ saves
           /\ prl' = [prl EXCEPT !.handler = "close", !.state = "MANAGE_CONTEXT",
                                 !.mc_state = "TX"]
           /\ i2c' = c
           /\ event' = [NoEvent EXCEPT !.phase = "loop"]
           /\ comms' = "INUSE"
           /\ UNCHANGED dev
        \/ /\ ~closes /\ ~saves
           /\ prl' = IF prl.state = "IDLE" THEN [prl EXCEPT !.handler = "close"] ELSE prl
           /\ i2c' = PowerOff(c) /\ dev' = DeviceOff(dev)
           /\ comms' = "FREE"
           /\ UNCHANGED event
  /\ UNCHANGED <<store, tl, tx, hist>>

-----------------------------------------------------------------------------
(* The transport layer                                                      *)

Event(e) == Handling("none") /\ tl' = "idle" /\ tx' = NoRecord /\ event' = e
Answer(a) == [NoEvent EXCEPT !.phase = "loop", !.answer = a]
Failure(status) == [NoEvent EXCEPT !.phase = "error", !.status = status]
\* The command whose answer a does not reach the host.
Loses(h, a) == IF a.type = "data" THEN [h EXCEPT !.lost = @ \cup {a.of}] ELSE h
FirstNumber(m) == IF m.type \in {"hello", "finished"} THEN FirstNumbers ELSE {0}
above == <<comms, i2c, prl, store>>

TlInitDone ==
  /\ tl = "init"
  /\ \/ Event([NoEvent EXCEPT !.phase = "loop"]) /\ UNCHANGED used
     \/ Event(Failure("STACK_ERROR")) /\ Fault
  /\ UNCHANGED <<above, dev, hist>>

TlAnswered ==
  /\ tl = "exchange" /\ dev.on
  /\ \E n \in FirstNumber(tx) :
       LET r == DeviceTakes(dev, tx, n) IN Event(Answer(r.answer)) /\ dev' = r.dev
  /\ UNCHANGED <<above, used, hist>>

\* A protected record or its answer arrives damaged.
TlDamaged ==
  /\ tl = "exchange" /\ dev.on /\ Fault
  /\ \/ /\ tx.key # 0
        /\ LET r == DeviceTakes(dev, [tx EXCEPT !.intact = FALSE], 0)
           IN Event(Answer(r.answer)) /\ dev' = r.dev
     \/ \E n \in FirstNumber(tx) :
          LET r == DeviceTakes(dev, tx, n)
          IN /\ r.answer.key # 0 /\ dev' = r.dev
             /\ \E a \in Damaged(r.answer) : Event(Answer(a))
  /\ UNCHANGED <<above, hist>>

TlStrange ==
  /\ tl = "exchange" /\ dev.on
  /\ used.strange < MaxStrange /\ used.faults < MaxFaults
  /\ used' = [used EXCEPT !.strange = @ + 1, !.faults = @ + 1]
  /\ \E n \in FirstNumber(tx) :
       LET r == DeviceTakes(dev, tx, n)
       IN /\ dev' = r.dev /\ \E a \in Strange(r.answer, dev) : Event(Answer(a))
          /\ hist' = [Loses(hist, r.answer) EXCEPT !.odd = TRUE]
  /\ UNCHANGED above

\* The transport layer fails; the device may have taken the record all the same.
\* MEM_ERROR is its word for an answer that does not fit the buffer, which only
\* the answer to a command can do: the messages of the session have their size.
TlFailed ==
  /\ tl = "exchange"
  /\ \/ dev.on /\ Fault
        /\ \/ Event(Failure("STACK_ERROR")) /\ dev' = dev /\ UNCHANGED hist
           \/ \E n \in FirstNumber(tx), status \in {"STACK_ERROR", "MEM_ERROR"} :
                LET r == DeviceTakes(dev, tx, n)
                IN /\ status = "MEM_ERROR" => r.answer.type = "data"
                   /\ Event(Failure(status)) /\ dev' = r.dev
                   /\ hist' = IF status = "MEM_ERROR" THEN Loses(hist, r.answer) ELSE hist
     \/ ~dev.on /\ Event(Failure("STACK_ERROR")) /\ UNCHANGED <<dev, used, hist>>
  /\ UNCHANGED above

-----------------------------------------------------------------------------
Init ==
  /\ comms = "FREE"
  /\ i2c = [state |-> "UNINIT", status |-> "NOT_BUSY", close_state |-> "SUCCESS",
            reset_state |-> "none", level |-> "NO", re_establish |-> FALSE, manage |-> "NONE"]
  /\ \E configured \in StoreConfigured :
       prl = [state |-> "UNINIT", hs_state |-> "SEND_HELLO", mc_state |-> "TX",
              negotiated |-> FALSE, key |-> 0, master |-> 0, save_slave |-> 0,
              decryption_failure_counter |-> 0, data_retransmit_counter |-> 0,
              trans_repeat |-> FALSE, alert |-> "DEFAULT", return_status |-> "SUCCESS",
              restore_done |-> FALSE, handler |-> "tl", sealed |-> FALSE,
              saved |-> NoContext, configured |-> configured]
  /\ store = NoContext
  /\ event = NoEvent
  /\ tl = "idle" /\ tx = NoRecord
  /\ dev = [on |-> FALSE, sessions |-> 0, pending |-> 0, key |-> 0, master |-> 0, slave |-> 0,
            saved_key |-> 0, saved_master |-> 0, saved_slave |-> 0,
            executed |-> 0, times |-> 0, garbled |-> FALSE, last |-> NoRecord]
  /\ used = [requests |-> 0, opens |-> 0, closes |-> 0, faults |-> 0,
             strange |-> 0]
  /\ hist = [current |-> 0, outcome |-> "none", accepted |-> 0, fresh |-> FALSE,
             confirmed |-> {}, numbers |-> {},
             reused |-> FALSE, odd |-> FALSE, lost |-> {},
             sent_at_close |-> FALSE]

UpperLayer ==
  \/ (\E manage \in {"NONE", "RESTORE"} : CommsOpen(manage))
  \/ (\E type \in {"COLD", "WARM", "SOFT"} : CommsReset(type))
  \/ (\E ask \in Asks, manage \in {i2c.manage, "NONE"} :
        CommsTransceive(ask[1], ask[2], manage))
  \/ (\E manage \in {"NONE", "SAVE"} : CommsClose(manage))

Transport == TlInitDone \/ TlAnswered \/ TlDamaged \/ TlStrange \/ TlFailed

Next == Handler \/ UpperLayer \/ InitTimer \/ Transport

Spec == Init /\ [][Next]_vars

\* The handler is a synchronous loop, the timers fire (Physical), and the
\* transport layer ends every exchange (Transport: ImplementsExchange); only
\* one of them is ever to continue (Usable), so that one condition will do.
\* Nothing obliges the upper layer.
Fairness == WF_vars(Handler \/ InitTimer \/ Transport)

FairSpec == Spec /\ Fairness

-----------------------------------------------------------------------------
(* Properties                                                               *)

Statuses == {"SUCCESS", "STACK_ERROR", "MEM_ERROR", "HANDSHAKE_ERROR", "SESSION_ERROR"}
PrlStates == {"UNINIT", "IDLE", "START", "VERIFY", "TXRX", "HANDSHAKE", "ALERT", "ERROR",
              "MANAGE_CONTEXT"}
Contexts == [stored : BOOLEAN, key : Nat, master : Sequence, slave : Sequence,
             failures : 0 .. PRL_TRANS_REPEAT, repeats : 0 .. PRL_TRANS_REPEAT,
             negotiated : BOOLEAN]

\* Types, the bounds of the counters, and the wrap of the sequence numbers: the
\* tests against the threshold leave enough room above it that neither a
\* number nor the end of the receive window ever passes 2^32.
SessionTypeOK ==
  /\ comms \in {"FREE", "INUSE"}
  /\ i2c \in [state : {"UNINIT", "IDLE"}, status : {"BUSY", "NOT_BUSY"},
              close_state : Statuses, reset_state : {"none", "PIN_HIGH", "INIT"},
              level : {"NO", "MASTER", "SLAVE", "FULL"}, re_establish : BOOLEAN,
              manage : {"NONE", "SAVE", "RESTORE"}]
  /\ prl \in [state : PrlStates,
              hs_state : {"SEND_HELLO", "VERIFY_HELLO", "VERIFY_FINISHED"},
              mc_state : {"TX", "RX"}, negotiated : BOOLEAN, key : Nat,
              master : Sequence, save_slave : Sequence,
              decryption_failure_counter : 0 .. PRL_TRANS_REPEAT,
              data_retransmit_counter : 0 .. PRL_TRANS_REPEAT,
              trans_repeat : BOOLEAN, alert : {"DEFAULT", "INVALID", "INTEGRITY"},
              return_status : Statuses, restore_done : BOOLEAN, handler : {"tl", "close"},
              sealed : BOOLEAN, saved : Contexts, configured : BOOLEAN]
  /\ store \in Contexts
  /\ event.phase \in {"none", "error", "loop", "report"} /\ event.status \in Statuses
  /\ tl \in {"idle", "init", "exchange"}
  /\ prl.master <= PRL_SEQUENCE_THRESHOLD + PRL_TRANS_REPEAT
  /\ prl.save_slave + PRL_TRANS_REPEAT \in Sequence

\* While the communication layer is in use there is exactly one thing that will
\* continue the operation; when it is free, no layer below is engaged and the
\* next operation is not refused.  (The layers are marked free in three places,
\* some of them after the upper layer's handler, from which calls may come.)
Usable ==
  IF comms = "INUSE"
    THEN \/ ~Handling("none") /\ tl = "idle" /\ i2c.reset_state = "none"
         \/ Handling("none") /\ tl # "idle" /\ i2c.reset_state = "none"
         \/ Handling("none") /\ tl = "idle" /\ i2c.reset_state # "none"
    ELSE /\ Handling("none") /\ tl = "idle" /\ i2c.reset_state = "none"
         /\ prl.state \in {"IDLE", "UNINIT"} /\ i2c.status = "NOT_BUSY"
         /\ i2c.state = "IDLE" => prl.state = "IDLE"

\* No number protects two records under one key: not after a repetition, not
\* after the session was saved and restored, and not after a failed restore.
NumbersUsedOnce == ~hist.reused

\* A success under response protection hands up the answer the device gave to
\* this command, whatever was damaged, repeated or out of turn in between.  One
\* exception: an answer that was too long for the buffer, or that the device
\* replaced by an alert, moves no window, and the session goes on; if the device
\* repeats that answer later, it is accepted for the next one, unless that one
\* began a new session.
GenuineAnswer ==
  (hist.outcome = "ok" /\ ProtectsSlave(i2c.level)) =>
    /\ \/ hist.accepted = hist.current
       \/ hist.odd /\ hist.accepted \in hist.lost /\ ~i2c.re_establish
    /\ dev.executed = hist.current

\* What is sent has the protection that was asked for, under a key the device
\* has confirmed, and under a new one if that was asked for.
AsAsked ==
  (tl = "exchange" /\ tx.type = "data") =>
    /\ tx.level = i2c.level
    /\ ProtectsMaster(i2c.level) => tx.key \in hist.confirmed
    /\ i2c.re_establish => hist.fresh

\* The device executes a command once, although records are repeated, and is
\* never sent a payload that is still encrypted from before; except when the
\* stack is closed to save a session whose last exchange asked for a new one:
\* the last payload is then sent again in place of the request to save.
ExecutesOnce ==
  hist.sent_at_close \/
    /\ ~dev.garbled
    /\ (dev.executed = hist.current /\ ~hist.odd) => dev.times <= 1

\* Every exchange ends, and with success only if the device has executed the
\* command: what the data link implements for one frame.
Exchange == INSTANCE FrameTransfer WITH
  Payload <- 1 .. MaxRequests, current <- hist.current,
  peer <- dev.executed, outcome <- hist.outcome
ImplementsExchange == Exchange!Spec
=============================================================================
