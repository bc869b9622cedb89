---------------------------- MODULE SessionProofs ----------------------------
(***************************************************************************)
(* Theorems about the presentation layer, the stack's entry and the        *)
(* communication layer, for every threshold and window, any number of      *)
(* sessions, calls and faults.                                             *)
(***************************************************************************)
EXTENDS Session, TLAPS

-----------------------------------------------------------------------------
(* The inductive invariant                                                  *)

T == PRL_SEQUENCE_THRESHOLD
R == PRL_TRANS_REPEAT

\* How far the numbers of the two sides may get.
Masters == 0 .. T + R
Slaves  == 0 .. T - 1 + R * (R + 1)

Levels == {"NO", "MASTER", "SLAVE", "FULL"}
Types == {"none", "hello", "finished", "data", "alert", "save", "restore", "fatal",
          "integrity", "other", "saved", "restored"}
Records == [type : Types, level : Levels, length : 0 .. 2, seq : Sequence, key : Nat,
            of : Nat, intact : BOOLEAN]
Kept == [stored : BOOLEAN, key : Nat, master : Masters, slave : Slaves,
         failures : 0 .. R, repeats : 0 .. R, negotiated : BOOLEAN]
I2C == [state : {"UNINIT", "IDLE"}, status : {"BUSY", "NOT_BUSY"},
        close_state : Statuses, reset_state : {"none", "PIN_HIGH", "INIT"},
        level : Levels, re_establish : BOOLEAN, manage : {"NONE", "SAVE", "RESTORE"}]
Prl == [state : PrlStates,
        hs_state : {"SEND_HELLO", "VERIFY_HELLO", "VERIFY_FINISHED"},
        mc_state : {"TX", "RX"}, negotiated : BOOLEAN, key : Nat,
        master : Masters, save_slave : Slaves,
        decryption_failure_counter : 0 .. R, data_retransmit_counter : 0 .. R,
        trans_repeat : BOOLEAN, alert : {"DEFAULT", "INVALID", "INTEGRITY"},
        return_status : Statuses, restore_done : BOOLEAN, handler : {"tl", "close"},
        sealed : BOOLEAN, saved : Kept, configured : BOOLEAN]
Events == [phase : {"none", "error", "loop", "report"}, status : Statuses,
           answer : Records, call : {"none", "transceive"}]
Device == [on : BOOLEAN, sessions : Nat, pending : Nat, key : Nat, master : Sequence,
           slave : Sequence, saved_key : Nat, saved_master : Sequence,
           saved_slave : Sequence, executed : Nat, times : 0 .. 2, garbled : BOOLEAN,
           last : Records]
History == [current : Nat, outcome : {"none", "pending", "ok", "failed"},
            accepted : Nat, fresh : BOOLEAN, confirmed : SUBSET Nat,
            numbers : SUBSET (Nat \X Nat), reused : BOOLEAN, odd : BOOLEAN,
            lost : SUBSET Nat, sent_at_close : BOOLEAN]

Types_ok ==
  /\ comms \in {"FREE", "INUSE"} /\ i2c \in I2C /\ prl \in Prl /\ store \in Kept
  /\ event \in Events /\ tl \in {"idle", "init", "exchange"} /\ tx \in Records
  /\ dev \in Device /\ dev.last.type \in {"none", "data"} /\ hist \in History

\* A number the device chose, however it was damaged, is near the beginning.
NumberOK(a) == a.type \in {"hello", "finished"} => a.seq < T + R

\* Every key comes from a handshake.
Keys ==
  /\ prl.key <= dev.sessions /\ prl.saved.key <= dev.sessions /\ store.key <= dev.sessions
  /\ answer.type = "hello" => answer.key <= dev.sessions
  /\ \A u \in hist.numbers : u[1] \in 1 .. dev.sessions

\* What is true of p_ctx->prl in each state, as to control.
InTransceive(p) ==
  \/ /\ Handling("loop")
     /\ \/ p.state \in {"START", "TXRX"}
        \/ p.state = "MANAGE_CONTEXT" /\ p.mc_state = "TX"
        \/ p.state = "HANDSHAKE" /\ p.hs_state = "SEND_HELLO"
        \/ p.state \in {"ERROR", "IDLE"} /\ p.return_status # "SUCCESS"
  \/ Handling("report") /\ event.status # "SUCCESS"

\* ... and as to the event at hand,
Called(p) ==
  /\ event.call = "transceive" => InTransceive(p)
  /\ Handling("report") =>
       p.state = "IDLE" /\ (p.handler = "close" => i2c.status = "NOT_BUSY")
  /\ p.state = "ALERT" =>
       Handling("loop") /\ (p.alert = "INTEGRITY" => answer.type # "integrity")

\* ... and as to what the upper layer asked for,
Controls(p) ==
  /\ p.state \in {"ALERT", "ERROR"} =>
       /\ p.alert # "DEFAULT"
       /\ p.alert = "INTEGRITY" => ProtectsSlave(i2c.level)
  /\ p.handler = "close" => i2c.state = "UNINIT"
  /\ p.trans_repeat =>
       /\ ~i2c.re_establish /\ p.state \notin {"START", "HANDSHAKE"}
       /\ p.state = "MANAGE_CONTEXT" => i2c.manage # "RESTORE"

\* ... as to the number of the next record,
MasterBound(p) ==
  /\ (p.state \in {"VERIFY", "ALERT"} \/ (p.state = "ERROR" /\ p.alert = "INTEGRITY")) =>
       p.master <= T + p.data_retransmit_counter
  /\ p.state = "TXRX" /\ p.trans_repeat => p.master < T + p.data_retransmit_counter

\* ... and as to the window for the next answer.
SlaveBound(p) ==
  /\ (\/ p.state = "VERIFY"
      \/ p.state = "ALERT" /\ p.alert = "INVALID"
      \/ p.state = "TXRX" /\ p.trans_repeat) =>
       p.save_slave < T + R * p.decryption_failure_counter
  /\ p.state \in {"ALERT", "ERROR"} /\ p.alert = "INTEGRITY" =>
       p.save_slave < T + R * (p.decryption_failure_counter + 1)
  /\ p.state = "ERROR" /\ p.alert = "INTEGRITY" => p.decryption_failure_counter < R

Core(p) ==
  /\ Controls(p)
  /\ ProtectsMaster(i2c.level) => MasterBound(p)
  /\ ProtectsSlave(i2c.level) => SlaveBound(p)

\* No number above c.master has been used with the key of c.
Fresh(c, numbers) == \A u \in numbers : u[1] = c.key => u[2] <= c.master
Unused(key, numbers) == \A u \in numbers : u[1] # key

\* The saved session: in the store, or else in the context.
Context(p, s) == IF p.configured THEN s ELSE p.saved

Numbers(p, s, numbers) ==
  /\ Fresh(p, numbers)
  /\ Context(p, s).stored =>
       /\ Fresh(Context(p, s), numbers)
       /\ Context(p, s).key = 0 \/ Context(p, s).key # p.key
  /\ p.state = "MANAGE_CONTEXT" /\ p.mc_state = "RX" /\ i2c.manage = "RESTORE" =>
       ~Context(p, s).stored /\ Fresh(p.saved, numbers)
  /\ p.state = "HANDSHAKE" /\ p.hs_state = "VERIFY_FINISHED" => Unused(p.key, numbers)

SInv ==
  /\ Types_ok /\ NumberOK(answer) /\ Keys
  /\ Usable /\ Called(prl) /\ Core(prl)
  /\ Numbers(prl, store, hist.numbers)
  /\ answer.type = "hello" => Unused(answer.key, hist.numbers)
  /\ NumbersUsedOnce

-----------------------------------------------------------------------------
(* Arithmetic                                                               *)

LEMMA ConstantFacts ==
  /\ T \in Nat \ {0} /\ R \in Nat \ {0} /\ SeqSize \in Nat /\ T + R < SeqSize
  /\ R * (R + 1) \in Nat /\ T + R * (R + 1) + R <= SeqSize
  <1>1. T \in Nat /\ R \in Nat \ {0} /\ SeqSize \in Nat
    BY NumberAssumption DEF T, R
  <1>2. T # 0
    <2>1. PICK n \in FirstNumbers : n \in 0 .. T - 1
      BY NumberAssumption DEF T
    <2> QED BY <1>1, <2>1
  <1>3. T + R * (R + 2) <= SeqSize
    BY NumberAssumption DEF T, R
  <1>4. R * (R + 2) = R * (R + 1) + R /\ R * (R + 1) \in Nat /\ R * (R + 1) >= R
    BY <1>1
  <1> QED BY <1>1, <1>2, <1>3, <1>4

LEMMA ProductFacts ==
  ASSUME NEW f \in 0 .. R
  PROVE  /\ R * f \in Nat /\ R * (f + 1) = R * f + R
         /\ R * (f + 1) <= R * (R + 1)
  <1>1. R \in Nat /\ f \in Nat /\ f <= R
    BY ConstantFacts
  <1>2. R * f \in Nat /\ R * (f + 1) = R * f + R
    BY <1>1
  <1>3. PICK d \in Nat : R = f + d
    BY <1>1
  <1>4. R * (R + 1) = R * (f + 1) + R * d /\ R * d \in Nat
    BY <1>1, <1>3
  <1>5. R * (f + 1) \in Nat
    BY <1>1
  <1> QED BY <1>2, <1>4, <1>5

\* Neither number wraps.
LEMMA NextFacts ==
  /\ \A n \in Masters : n \in Nat /\ n \in Sequence /\ Next_number(n) = n + 1
  /\ \A n \in Slaves : /\ n \in Nat /\ n \in Sequence /\ Next_number(n) = n + 1
                        /\ (n + R) % SeqSize = n + R
  /\ \A n \in Sequence : n \in Nat /\ Next_number(n) \in Sequence
  <1>1. T \in Nat \ {0} /\ R \in Nat \ {0} /\ SeqSize \in Nat /\ T + R < SeqSize
        /\ R * (R + 1) \in Nat /\ T + R * (R + 1) + R <= SeqSize
    BY ConstantFacts
  <1>2. \A n \in Nat : n < SeqSize => n % SeqSize = n
    BY <1>1
  <1>3. ASSUME NEW n \in Masters
        PROVE  n \in Nat /\ n \in Sequence /\ Next_number(n) = n + 1
    <2>1. n \in Nat /\ n + 1 \in Nat /\ n < SeqSize
      BY <1>1 DEF Masters
    <2>2. n + 1 < SeqSize
      <3>1. T + R + 1 < T + R * (R + 1) + R
        <4>1. R * (R + 1) = R * R + R /\ R * R >= 1
          BY <1>1
        <4> QED BY <1>1, <4>1
      <3> QED BY <1>1, <3>1 DEF Masters
    <2> QED BY <1>1, <1>2, <2>1, <2>2 DEF Next_number, Sequence
  <1>4. ASSUME NEW n \in Slaves
        PROVE  n \in Nat /\ n \in Sequence /\ Next_number(n) = n + 1
               /\ (n + R) % SeqSize = n + R
    <2> DEFINE k == R * (R + 1)
    <2>1. k \in Nat /\ T + k + R <= SeqSize
      BY <1>1
    <2>2. n \in 0 .. T - 1 + k
      BY DEF Slaves
    <2> HIDE DEF k
    <2>3. n \in Nat /\ n + R \in Nat /\ n + R < SeqSize /\ n + 1 < SeqSize /\ n < SeqSize
          /\ n + 1 \in Nat
      BY <1>1, <2>1, <2>2
    <2> QED BY <1>1, <1>2, <2>3 DEF Next_number, Sequence
  <1>5. ASSUME NEW n \in Sequence PROVE n \in Nat /\ Next_number(n) \in Sequence
    BY <1>1 DEF Sequence, Next_number
  <1> QED BY <1>3, <1>4, <1>5

-----------------------------------------------------------------------------
(* Records and numbers                                                      *)

LEMMA RecordFacts ==
  /\ \A t \in Types : Record(t) \in Records /\ Alert(t) \in Records
                       /\ Record(t).type = t /\ Alert(t).type = t
                       /\ Record(t).seq = 0 /\ Alert(t).seq = 0
  /\ NoRecord \in Records /\ NoRecord.type = "none" /\ NoRecord.seq = 0
  <1>1. 0 \in Sequence
    BY ConstantFacts DEF Sequence
  <1>2. ASSUME NEW t \in Types
        PROVE  /\ Record(t) \in Records /\ Alert(t) \in Records
               /\ Record(t).type = t /\ Alert(t).type = t
               /\ Record(t).seq = 0 /\ Alert(t).seq = 0
    <2> DEFINE r == Record(t)
    <2>1. r \in Records /\ r.type = t /\ r.seq = 0
      BY <1>1 DEF Record, Records, Levels
    <2>2. Alert(t) = [r EXCEPT !.length = 1]
      BY DEF Alert
    <2> HIDE DEF r
    <2>3. Alert(t) \in Records
      BY <2>1, <2>2 DEF Records
    <2>4. Alert(t).type = t /\ Alert(t).seq = 0
      BY <2>1, <2>2 DEF Records
    <2> QED BY <2>1, <2>3, <2>4 DEF r
  <1>3. NoRecord \in Records /\ NoRecord.type = "none" /\ NoRecord.seq = 0
    <2>1. "none" \in Types
      BY DEF Types
    <2> QED BY <1>2, <2>1 DEF NoRecord, Records
  <1> QED BY <1>2, <1>3

LEMMA NoEventFacts ==
  NoEvent \in Events /\ NoEvent.phase = "none" /\ NoEvent.call = "none"
  /\ NoEvent.answer = NoRecord
  BY RecordFacts DEF NoEvent, Events, Statuses

LEMMA NoContextFacts ==
  NoContext \in Kept /\ NoContext.key = 0 /\ NoContext.stored = FALSE
  <1>1. 0 \in Masters /\ 0 \in Slaves /\ 0 \in 0 .. R
    <2> DEFINE k == R * (R + 1)
    <2>1. k \in Nat /\ T \in Nat \ {0} /\ R \in Nat
      BY ConstantFacts
    <2> HIDE DEF k
    <2>2. 0 \in 0 .. T - 1 + k
      BY <2>1
    <2> QED BY <2>1, <2>2 DEF Masters, Slaves, k
  <1> QED BY <1>1 DEF NoContext, Kept

LEMMA Parts ==
  ASSUME SInv
  PROVE  /\ comms \in {"FREE", "INUSE"} /\ i2c \in I2C /\ prl \in Prl /\ store \in Kept
         /\ event \in Events /\ tl \in {"idle", "init", "exchange"} /\ tx \in Records
         /\ dev \in Device /\ dev.last.type \in {"none", "data"} /\ hist \in History
         /\ NumberOK(answer) /\ Keys /\ Usable /\ Called(prl) /\ Core(prl)
         /\ Numbers(prl, store, hist.numbers) /\ NumbersUsedOnce
         /\ answer.type = "hello" => Unused(answer.key, hist.numbers)
  BY DEF SInv, Types_ok

\* No record is protected with no key.
LEMMA NoKeyUnused == ASSUME Keys, dev \in Device PROVE Unused(0, hist.numbers)
  BY DEF Keys, Unused, Device

\* The numbers of a context that keeps its key and its number stay good, and
\* the saved session does if it stays as it is or is given up.
LEMMA CalmNumbers ==
  ASSUME SInv, NEW p, NEW s, p.key = prl.key, p.master = prl.master,
         Context(p, s) = Context(prl, store) \/ ~Context(p, s).stored,
         p.state \notin {"MANAGE_CONTEXT", "HANDSHAKE"}
  PROVE  Numbers(p, s, hist.numbers)
  <1>1. Numbers(prl, store, hist.numbers)
    BY Parts
  <1>2. Fresh(p, hist.numbers)
    BY <1>1 DEF Numbers, Fresh
  <1> QED BY <1>1, <1>2 DEF Numbers

-----------------------------------------------------------------------------
(* The ways a step may go                                                   *)

\* The handler goes round its loop again.
LEMMA LoopStep ==
  ASSUME SInv, Handling("loop"), NEW p \in Prl, Again(p),
         p.key <= dev.sessions, p.saved.key <= dev.sessions,
         store' \in Kept, store'.key <= dev.sessions,
         hist' \in History, hist'.numbers = hist.numbers, hist'.reused = hist.reused,
         Called(p), Core(p), Numbers(p, store', hist.numbers)
  PROVE  SInv'
  <1>1. prl' = p /\ comms' = comms /\ i2c' = i2c /\ event' = event
        /\ tl' = tl /\ tx' = tx /\ dev' = dev
    BY DEF Again, lower
  <1>2. Types_ok'
    BY <1>1, Parts DEF Types_ok
  <1>3. NumberOK(answer)' /\ (answer.type = "hello" => Unused(answer.key, hist.numbers))'
    BY <1>1, Parts DEF NumberOK, answer, Unused
  <1>4. Keys'
    BY <1>1, Parts DEF Keys, answer
  <1>5. Usable'
    <2>1. comms = "INUSE" /\ event.phase # "none"
      BY Parts DEF Usable, Handling
    <2> QED BY <1>1, <2>1, Parts DEF Usable, Handling
  <1>6. Called(prl)'
    BY <1>1 DEF Called, InTransceive, Handling, answer
  <1>7. Core(prl)'
    BY <1>1 DEF Core, Controls, MasterBound, SlaveBound
  <1>8. Numbers(prl, store, hist.numbers)'
    BY <1>1 DEF Numbers, Context
  <1>9. NumbersUsedOnce'
    BY Parts DEF NumbersUsedOnce
  <1> QED BY <1>2, <1>3, <1>4, <1>5, <1>6, <1>7, <1>8, <1>9 DEF SInv

\* The handler sends a record.
LEMMA SendStep ==
  ASSUME SInv, Handling("loop"), NEW p \in Prl, NEW m \in Records, Sends(m, p),
         p.key <= dev.sessions, p.saved.key <= dev.sessions,
         store' \in Kept, store'.key <= dev.sessions,
         hist' \in History, \A u \in hist'.numbers : u[1] \in 1 .. dev.sessions,
         ~hist'.reused,
         p.state # "ALERT", Core(p), Numbers(p, store', hist'.numbers)
  PROVE  SInv'
  <1>1. prl' = p /\ comms' = comms /\ tl' = "exchange" /\ tx' = m /\ dev' = dev
        /\ event' = NoEvent /\ i2c' = Busy_after_call(i2c)
    BY DEF Sends, Leave
  <1>2. i2c' \in I2C /\ i2c'.state = i2c.state /\ i2c'.level = i2c.level
        /\ i2c'.re_establish = i2c.re_establish /\ i2c'.manage = i2c.manage
        /\ i2c'.reset_state = i2c.reset_state
    BY <1>1, Parts DEF Busy_after_call, I2C
  <1>3. Types_ok'
    BY <1>1, <1>2, Parts, NoEventFacts DEF Types_ok
  <1>4. answer' = NoRecord
    BY <1>1, NoEventFacts DEF answer
  <1>5. NumberOK(answer)' /\ (answer.type = "hello" => Unused(answer.key, hist.numbers))'
    BY <1>4, RecordFacts DEF NumberOK
  <1>6. Keys'
    BY <1>1, <1>4, Parts, RecordFacts DEF Keys
  <1>7. Usable'
    <2>1. comms = "INUSE" /\ i2c.reset_state = "none"
      BY Parts DEF Usable, Handling
    <2> QED BY <1>1, <1>2, <2>1, NoEventFacts DEF Usable, Handling
  <1>8. Called(prl)'
    BY <1>1, NoEventFacts DEF Called, Handling
  <1>9. Core(prl)'
    BY <1>1, <1>2 DEF Core, Controls, MasterBound, SlaveBound
  <1>10. Numbers(prl, store, hist.numbers)'
    BY <1>1, <1>2 DEF Numbers, Context
  <1>11. NumbersUsedOnce'
    BY DEF NumbersUsedOnce
  <1> QED BY <1>3, <1>5, <1>6, <1>7, <1>8, <1>9, <1>10, <1>11 DEF SInv

\* The handler goes on to end the operation with an error.
LEMMA ErrorStep ==
  ASSUME SInv, Handling("loop"), NEW p \in Prl, Again(p),
         p.state = "ERROR", p.alert = "INVALID", p.return_status # "SUCCESS",
         p.handler = prl.handler, p.trans_repeat => prl.trans_repeat, p.key = prl.key,
         Fresh(p, hist.numbers), p.saved.key <= dev.sessions,
         Context(p, store') = Context(prl, store) \/ ~Context(p, store').stored,
         store' \in Kept, store'.key <= dev.sessions, hist' = hist
  PROVE  SInv'
  <1>1. Called(p)
    <2>1. event.call = "transceive" => InTransceive(p)
      BY DEF InTransceive
    <2> QED BY <2>1 DEF Called, Handling
  <1>2. Core(p)
    <2>1. Controls(p)
      BY Parts DEF Core, Controls
    <2> QED BY <2>1 DEF Core, MasterBound, SlaveBound
  <1>3. Numbers(p, store', hist.numbers)
    BY Parts DEF Numbers
  <1>4. p.key <= dev.sessions /\ hist' \in History
    BY Parts DEF Keys
  <1> QED BY <1>1, <1>2, <1>3, <1>4, LoopStep

LEMMA ErrorPreparation ==
  ASSUME NEW p \in Prl
  PROVE  LET q == Error_state_preparation(p)
         IN /\ q \in Prl /\ q.state = "ERROR" /\ q.alert = "INVALID"
            /\ q.return_status = "SESSION_ERROR" /\ q.trans_repeat = FALSE
            /\ q.handler = p.handler /\ q.key = p.key /\ q.master = p.master
            /\ q.saved = p.saved /\ q.configured = p.configured
  BY DEF Error_state_preparation, Prl, PrlStates, Statuses

LEMMA HandshakeFailure ==
  ASSUME NEW p \in Prl
  PROVE  LET q == HandshakeFailed(p)
         IN /\ q \in Prl /\ q.state = "ERROR" /\ q.alert = "INVALID"
            /\ q.return_status = "HANDSHAKE_ERROR" /\ q.trans_repeat = p.trans_repeat
            /\ q.handler = p.handler /\ q.key = p.key /\ q.master = p.master
            /\ q.saved = p.saved /\ q.configured = p.configured
  BY DEF HandshakeFailed, Prl, PrlStates, Statuses

\* Every pass through the handshake has given the saved session up.
LEMMA HandshakeFacts ==
  ASSUME SInv, HandshakePass
  PROVE  /\ Handling("loop") /\ prl.state = "HANDSHAKE"
         /\ store' \in Kept /\ store'.key <= dev.sessions
         /\ Unsaved \in Prl
         /\ Unsaved.saved = NoContext /\ Unsaved.state = "HANDSHAKE"
         /\ Unsaved.hs_state = prl.hs_state /\ Unsaved.configured = prl.configured
         /\ Unsaved.key = prl.key /\ Unsaved.master = prl.master
         /\ Unsaved.handler = prl.handler /\ Unsaved.trans_repeat = prl.trans_repeat
         /\ ~prl.trans_repeat
         /\ \A p : p.saved = NoContext /\ p.configured = prl.configured =>
              ~Context(p, store').stored
  <1>1. Handling("loop") /\ prl.state = "HANDSHAKE"
        /\ store' = IF prl.configured THEN NoContext ELSE store
    BY DEF HandshakePass, State, Kept_in_store
  <1>2. prl \in Prl /\ store \in Kept /\ store.key <= dev.sessions /\ dev \in Device
    BY Parts DEF Keys
  <1>3. store' \in Kept /\ store'.key <= dev.sessions
    <2>1. dev.sessions \in Nat
      BY <1>2 DEF Device
    <2>2. 0 <= dev.sessions
      BY <2>1
    <2> QED BY <1>1, <1>2, <2>2, NoContextFacts
  <1>4. Unsaved \in Prl
    BY <1>2, NoContextFacts DEF Unsaved, Prl
  <1>5. /\ Unsaved.saved = NoContext /\ Unsaved.state = "HANDSHAKE"
        /\ Unsaved.hs_state = prl.hs_state /\ Unsaved.configured = prl.configured
        /\ Unsaved.key = prl.key /\ Unsaved.master = prl.master
        /\ Unsaved.handler = prl.handler /\ Unsaved.trans_repeat = prl.trans_repeat
    BY <1>1, <1>2 DEF Unsaved, Prl
  <1>6. ~prl.trans_repeat
    BY <1>1, Parts DEF Core, Controls
  <1>7. \A p : p.saved = NoContext /\ p.configured = prl.configured =>
          ~Context(p, store').stored
    BY <1>1, NoContextFacts DEF Context
  <1> QED BY <1>1, <1>3, <1>4, <1>5, <1>6, <1>7

-----------------------------------------------------------------------------
(* The steps of the handshake                                               *)

LEMMA HandshakeStoreFailsStep == ASSUME SInv, HandshakeStoreFails PROVE SInv'
  <1> DEFINE p == [Error_state_preparation(Unsaved) EXCEPT !.return_status = "HANDSHAKE_ERROR"]
  <1>1. Handling("loop") /\ Again(p) /\ store' = store /\ hist' = hist /\ prl.configured
    BY DEF HandshakeStoreFails, State, StoreFails
  <1>2. Unsaved \in Prl
    BY Parts, NoContextFacts DEF Unsaved, Prl
  <1>3. Unsaved.key = prl.key /\ Unsaved.master = prl.master
        /\ Unsaved.handler = prl.handler /\ Unsaved.saved = NoContext
        /\ Unsaved.configured = prl.configured
    BY Parts DEF Unsaved, Prl
  <1>4. p \in Prl /\ p.state = "ERROR" /\ p.alert = "INVALID" /\ p.return_status # "SUCCESS"
        /\ p.trans_repeat = FALSE /\ p.handler = prl.handler /\ p.key = prl.key
        /\ p.master = prl.master /\ p.saved = NoContext /\ p.configured = prl.configured
    <2> DEFINE q == Error_state_preparation(Unsaved)
    <2>1. q \in Prl /\ q.state = "ERROR" /\ q.alert = "INVALID"
          /\ q.trans_repeat = FALSE /\ q.handler = prl.handler /\ q.key = prl.key
          /\ q.master = prl.master /\ q.saved = NoContext /\ q.configured = prl.configured
      BY <1>2, <1>3, ErrorPreparation
    <2> HIDE DEF q
    <2>2. p = [q EXCEPT !.return_status = "HANDSHAKE_ERROR"]
      BY DEF q
    <2> QED BY <2>1, <2>2 DEF Prl, Statuses
  <1> HIDE DEF p
  <1>5. Context(p, store') = Context(prl, store)
    BY <1>1, <1>4 DEF Context
  <1>6. Fresh(p, hist.numbers)
    BY <1>4, Parts DEF Numbers, Fresh
  <1>7. p.saved.key <= dev.sessions /\ store' \in Kept /\ store'.key <= dev.sessions
    BY <1>1, <1>4, Parts, NoContextFacts DEF Keys, Device
  <1> QED BY <1>1, <1>4, <1>5, <1>6, <1>7, ErrorStep

LEMMA SendHelloStep == ASSUME SInv, SendHello PROVE SInv'
  <1> DEFINE p == [Unsaved EXCEPT !.hs_state = "VERIFY_HELLO"]
             m == Record("hello")
  <1>1. HandshakePass /\ Sends(m, p) /\ hist' = hist
    BY DEF SendHello
  <1>2. p \in Prl /\ p.state = "HANDSHAKE" /\ p.hs_state = "VERIFY_HELLO"
        /\ p.handler = prl.handler /\ p.key = prl.key /\ p.master = prl.master
        /\ p.saved = NoContext /\ p.configured = prl.configured /\ ~p.trans_repeat
    BY <1>1, HandshakeFacts DEF Prl
  <1> HIDE DEF p
  <1>3. m \in Records
    BY RecordFacts DEF Types
  <1> HIDE DEF m
  <1>4. Core(p)
    BY <1>2, Parts DEF Core, Controls, MasterBound, SlaveBound
  <1>5. Numbers(p, store', hist'.numbers)
    BY <1>1, <1>2, Parts, HandshakeFacts DEF Numbers, Fresh
  <1>6. p.key <= dev.sessions /\ p.saved.key <= dev.sessions
    BY <1>2, Parts, NoContextFacts DEF Keys, Device
  <1>7. store' \in Kept /\ store'.key <= dev.sessions /\ Handling("loop")
    BY <1>1, HandshakeFacts
  <1>8. hist' \in History /\ (\A u \in hist'.numbers : u[1] \in 1 .. dev.sessions)
        /\ ~hist'.reused
    BY <1>1, Parts DEF Keys, NumbersUsedOnce
  <1> QED BY <1>1, <1>2, <1>3, <1>4, <1>5, <1>6, <1>7, <1>8, SendStep

\* The key that is confirmed has protected nothing yet.
\* The key that is derived from the device's answer has protected nothing.
LEMMA DerivedFacts ==
  ASSUME SInv, answer.type = "hello"
  PROVE  Derived \in Nat /\ Derived <= dev.sessions /\ Unused(Derived, hist.numbers)
  <1>1. answer.key <= dev.sessions /\ Unused(answer.key, hist.numbers) /\ answer.key \in Nat
    BY Parts DEF Keys, Events, answer, Records
  <1>2. Unused(0, hist.numbers) /\ 0 <= dev.sessions
    BY Parts, NoKeyUnused DEF Device
  <1> QED BY <1>1, <1>2 DEF Derived

LEMMA HelloAcceptedStep == ASSUME SInv, HelloAccepted PROVE SInv'
  <1> DEFINE p == [Unsaved EXCEPT !.hs_state = "VERIFY_FINISHED", !.key = Derived,
                                  !.save_slave = answer.seq]
             m == [Record("finished") EXCEPT !.seq = answer.seq, !.key = Derived]
  <1>1. HandshakePass /\ Sends(m, p) /\ hist' = hist /\ answer.type = "hello"
    BY DEF HelloAccepted
  <1>2. answer \in Records /\ answer.seq \in Sequence /\ answer.key \in Nat
    BY Parts DEF Events, answer, Records
  <1>3. answer.seq \in Slaves
    <2> DEFINE k == R * (R + 1)
    <2>1. k \in Nat /\ R <= k /\ T \in Nat /\ R \in Nat
      <3>1. R \in Nat \ {0} /\ T \in Nat
        BY ConstantFacts
      <3>2. R * (R + 1) = R * R + R /\ R * R \in Nat
        BY <3>1
      <3> QED BY <3>1, <3>2
    <2> HIDE DEF k
    <2>2. answer.seq \in Nat /\ answer.seq < T + R
      BY <1>1, <1>2, Parts, NextFacts DEF NumberOK
    <2>3. answer.seq \in 0 .. T - 1 + k
      BY <2>1, <2>2
    <2> QED BY <2>3 DEF Slaves, k
  <1>4. Derived \in Nat /\ Derived <= dev.sessions /\ Unused(Derived, hist.numbers)
    BY <1>1, DerivedFacts
  <1> HIDE DEF Derived
  <1>5. p \in Prl /\ p.state = "HANDSHAKE" /\ p.handler = prl.handler /\ p.key = Derived
        /\ p.saved = NoContext /\ p.configured = prl.configured /\ ~p.trans_repeat
    BY <1>1, <1>3, <1>4, HandshakeFacts DEF Prl
  <1> HIDE DEF p
  <1>6. m \in Records
    <2>1. Record("finished") \in Records
      BY RecordFacts DEF Types
    <2> QED BY <1>2, <1>4, <2>1 DEF Records
  <1> HIDE DEF m
  <1>7. Core(p)
    BY <1>5, Parts DEF Core, Controls, MasterBound, SlaveBound
  <1>8. Numbers(p, store', hist'.numbers)
    BY <1>1, <1>4, <1>5, HandshakeFacts DEF Numbers, Fresh, Unused
  <1>9. p.key <= dev.sessions /\ p.saved.key <= dev.sessions
    BY <1>4, <1>5, Parts, NoContextFacts DEF Device
  <1>10. store' \in Kept /\ store'.key <= dev.sessions /\ Handling("loop")
    BY <1>1, HandshakeFacts
  <1>11. hist' \in History /\ (\A u \in hist'.numbers : u[1] \in 1 .. dev.sessions)
        /\ ~hist'.reused
    BY <1>1, Parts DEF Keys, NumbersUsedOnce
  <1> QED BY <1>1, <1>5, <1>6, <1>7, <1>8, <1>9, <1>10, <1>11, SendStep

\* A handshake that ends with an error changes at most the numbers, of a key
\* that has protected nothing or of the one it had.
LEMMA HandshakeFailedStep ==
  ASSUME SInv, HandshakePass, NEW q \in Prl, Again(HandshakeFailed(q)), hist' = hist,
         q.saved = NoContext, q.configured = prl.configured, q.key <= dev.sessions,
         q.handler = prl.handler, q.trans_repeat = prl.trans_repeat,
         Fresh(q, hist.numbers)
  PROVE  SInv'
  <1> DEFINE p == HandshakeFailed(q)
  <1>1. p \in Prl /\ p.state = "ERROR" /\ p.alert = "INVALID" /\ p.return_status # "SUCCESS"
        /\ p.trans_repeat = prl.trans_repeat /\ p.handler = prl.handler /\ p.key = q.key
        /\ p.master = q.master /\ p.saved = NoContext /\ p.configured = prl.configured
    BY HandshakeFailure
  <1> HIDE DEF p
  <1>2. Again(p)
    BY DEF p
  <1>3. Fresh(p, hist.numbers)
    BY <1>1 DEF Fresh
  <1>4. ~Context(p, store').stored /\ Handling("loop")
        /\ store' \in Kept /\ store'.key <= dev.sessions
    BY <1>1, HandshakeFacts
  <1>5. p.key <= dev.sessions /\ p.saved.key <= dev.sessions
    BY <1>1, Parts, NoContextFacts DEF Device
  <1>6. Called(p)
    <2>1. event.call = "transceive" => InTransceive(p)
      BY <1>1, <1>4 DEF InTransceive
    <2> QED BY <1>1, <1>4, <2>1 DEF Called, Handling
  <1>7. Core(p)
    <2>1. Controls(p)
      BY <1>1, Parts DEF Core, Controls
    <2> QED BY <1>1, <2>1 DEF Core, MasterBound, SlaveBound
  <1>8. Numbers(p, store', hist.numbers)
    BY <1>1, <1>3, <1>4 DEF Numbers
  <1>9. hist' \in History
    BY Parts
  <1> QED BY <1>1, <1>2, <1>4, <1>5, <1>6, <1>7, <1>8, <1>9, LoopStep

LEMMA AnswerSeq ==
  ASSUME SInv, answer.type \in {"hello", "finished"}
  PROVE  answer.seq \in Slaves /\ answer.seq \in Masters
  <1> DEFINE k == R * (R + 1)
  <1>1. k \in Nat /\ R <= k /\ T \in Nat /\ R \in Nat
    <2>1. R \in Nat \ {0} /\ T \in Nat
      BY ConstantFacts
    <2>2. R * (R + 1) = R * R + R /\ R * R \in Nat
      BY <2>1
    <2> QED BY <2>1, <2>2
  <1> HIDE DEF k
  <1>2. answer.seq \in Sequence
    BY Parts DEF Events, answer, Records
  <1>3. answer.seq \in Nat /\ answer.seq < T + R
    BY <1>2, Parts, NextFacts DEF NumberOK
  <1>4. answer.seq \in 0 .. T - 1 + k /\ answer.seq \in 0 .. T + R
    BY <1>1, <1>3
  <1> QED BY <1>4 DEF Slaves, Masters, k

LEMMA HelloRefusedStep == ASSUME SInv, HelloRefused PROVE SInv'
  <1>1. HandshakePass /\ Again(HandshakeFailed(Unsaved)) /\ hist' = hist
    BY DEF HelloRefused
  <1>2. Fresh(Unsaved, hist.numbers)
    BY <1>1, HandshakeFacts, Parts DEF Numbers, Fresh
  <1>3. prl.key <= dev.sessions
    BY Parts DEF Keys
  <1> QED BY <1>1, <1>2, <1>3, HandshakeFacts, HandshakeFailedStep

LEMMA HelloFailsStep == ASSUME SInv, HelloFails PROVE SInv'
  <1>1. PICK key \in {prl.key, Derived} :
          Again(HandshakeFailed([Unsaved EXCEPT !.save_slave = answer.seq, !.key = key]))
    BY DEF HelloFails
  <1> DEFINE q == [Unsaved EXCEPT !.save_slave = answer.seq, !.key = key]
  <1>2. HandshakePass /\ Again(HandshakeFailed(q)) /\ hist' = hist /\ answer.type = "hello"
    BY <1>1 DEF HelloFails
  <1>3. key \in Nat /\ key <= dev.sessions
    BY <1>1, <1>2, DerivedFacts, Parts DEF Prl, Keys
  <1>4. q \in Prl /\ q.saved = NoContext /\ q.configured = prl.configured /\ q.key = key
        /\ q.handler = prl.handler /\ q.trans_repeat = prl.trans_repeat /\ q.master = prl.master
    BY <1>2, <1>3, HandshakeFacts, AnswerSeq DEF Prl
  <1> HIDE DEF q
  <1>5. Fresh(q, hist.numbers)
    <2>1. CASE key = prl.key
      BY <1>4, <2>1, Parts DEF Numbers, Fresh
    <2>2. CASE key = Derived
      BY <1>2, <1>4, <2>2, DerivedFacts DEF Unused, Fresh
    <2> QED BY <1>1, <2>1, <2>2
  <1> QED BY <1>2, <1>3, <1>4, <1>5, HandshakeFailedStep

LEMMA FinishedRefusedStep == ASSUME SInv, FinishedRefused PROVE SInv'
  <1> DEFINE q == [Unsaved EXCEPT
                     !.master = IF answer.type = "finished" /\ answer.length = 2
                                  THEN answer.seq ELSE @]
  <1>1. HandshakePass /\ Again(HandshakeFailed(q)) /\ hist' = hist
        /\ prl.hs_state = "VERIFY_FINISHED"
    BY DEF FinishedRefused
  <1>2. q \in Prl
    BY <1>1, HandshakeFacts, AnswerSeq DEF Prl
  <1>3. q.saved = NoContext /\ q.configured = prl.configured /\ q.key = prl.key
        /\ q.handler = prl.handler /\ q.trans_repeat = prl.trans_repeat
    BY <1>1, HandshakeFacts DEF Prl
  <1> HIDE DEF q
  <1>4. Fresh(q, hist.numbers)
    <2>1. Unused(prl.key, hist.numbers)
      BY <1>1, HandshakeFacts, Parts DEF Numbers
    <2> QED BY <1>3, <2>1 DEF Unused, Fresh
  <1>5. q.key <= dev.sessions
    BY <1>3, Parts DEF Keys
  <1> QED BY <1>1, <1>2, <1>3, <1>4, <1>5, HandshakeFailedStep

LEMMA FinishedAcceptedStep == ASSUME SInv, FinishedAccepted PROVE SInv'
  <1> DEFINE p == [Unsaved EXCEPT !.master = answer.seq, !.negotiated = TRUE, !.state = "TXRX"]
  <1>1. HandshakePass /\ Again(p) /\ prl.hs_state = "VERIFY_FINISHED"
        /\ answer.type = "finished"
        /\ hist' = [hist EXCEPT !.fresh = TRUE, !.lost = {},
                                !.confirmed = @ \cup {prl.key}]
    BY DEF FinishedAccepted
  <1>2. p \in Prl /\ p.state = "TXRX" /\ p.saved = NoContext /\ p.configured = prl.configured
        /\ p.key = prl.key /\ p.handler = prl.handler /\ ~p.trans_repeat
    BY <1>1, HandshakeFacts, AnswerSeq DEF Prl, PrlStates
  <1> HIDE DEF p
  <1>3. Called(p)
    <2>1. event.call = "transceive" => InTransceive(p)
      BY <1>1, <1>2, HandshakeFacts DEF InTransceive
    <2> QED BY <1>1, <1>2, <2>1, HandshakeFacts DEF Called, Handling
  <1>4. Core(p)
    BY <1>2, Parts DEF Core, Controls, MasterBound, SlaveBound
  <1>5. Unused(prl.key, hist.numbers)
    BY <1>1, HandshakeFacts, Parts DEF Numbers
  <1>6. Numbers(p, store', hist.numbers)
    BY <1>1, <1>2, <1>5, HandshakeFacts DEF Numbers, Fresh, Unused
  <1>7. p.key <= dev.sessions /\ p.saved.key <= dev.sessions
    BY <1>2, Parts, NoContextFacts DEF Keys, Device
  <1>8. hist' \in History /\ hist'.numbers = hist.numbers /\ hist'.reused = hist.reused
    BY <1>1, Parts DEF History, Prl
  <1>9. store' \in Kept /\ store'.key <= dev.sessions /\ Handling("loop")
    BY <1>1, HandshakeFacts
  <1> QED BY <1>1, <1>2, <1>3, <1>4, <1>6, <1>7, <1>8, <1>9, LoopStep

\* Steps that go round the loop and leave the keys, the numbers of this side
\* and the saved session alone.
LEMMA CalmStep ==
  ASSUME SInv, Handling("loop"), NEW p \in Prl, Again(p),
         p.key = prl.key, p.master = prl.master, p.saved = prl.saved,
         p.configured = prl.configured, p.handler = prl.handler, store' = store,
         hist' \in History, hist'.numbers = hist.numbers, hist'.reused = hist.reused,
         p.state # "MANAGE_CONTEXT", p.state = "HANDSHAKE" => p.hs_state = "SEND_HELLO",
         Called(p), Core(p)
  PROVE  SInv'
  <1>1. Context(p, store') = Context(prl, store)
    BY DEF Context
  <1>2. Numbers(p, store', hist.numbers)
    BY <1>1, Parts DEF Numbers, Fresh
  <1>3. p.key <= dev.sessions /\ p.saved.key <= dev.sessions
        /\ store' \in Kept /\ store'.key <= dev.sessions
    BY Parts DEF Keys
  <1> QED BY <1>2, <1>3, LoopStep

LEMMA NegotiationFacts ==
  ASSUME NEW p \in Prl
  PROVE  LET q == Do_negotiation(p)
         IN /\ q \in Prl /\ q.state = "HANDSHAKE" /\ q.hs_state = "SEND_HELLO"
            /\ q.trans_repeat = p.trans_repeat /\ q.handler = p.handler /\ q.key = p.key
            /\ q.master = p.master /\ q.saved = p.saved /\ q.configured = p.configured
  BY DEF Do_negotiation, Prl, PrlStates

LEMMA StartStep == ASSUME SInv, Start PROVE SInv'
  <1> DEFINE p == IF AsksHandshake THEN Do_negotiation(prl) ELSE [prl EXCEPT !.state = "TXRX"]
  <1>1. Handling("loop") /\ prl.state = "START" /\ Again(p) /\ store' = store /\ hist' = hist
    BY DEF Start, State
  <1>2. p \in Prl /\ p.key = prl.key /\ p.master = prl.master /\ p.saved = prl.saved
        /\ p.configured = prl.configured /\ p.handler = prl.handler
        /\ p.trans_repeat = prl.trans_repeat
        /\ ((p.state = "HANDSHAKE" /\ p.hs_state = "SEND_HELLO") \/ p.state = "TXRX")
    <2>1. CASE AsksHandshake
      BY <2>1, Parts, NegotiationFacts
    <2>2. CASE ~AsksHandshake
      BY <2>2, Parts DEF Prl, PrlStates
    <2> QED BY <2>1, <2>2
  <1> HIDE DEF p
  <1>3. ~p.trans_repeat
    BY <1>1, <1>2, Parts DEF Core, Controls
  <1>4. Called(p)
    BY <1>1, <1>2 DEF Called, Handling, InTransceive
  <1>5. Core(p)
    BY <1>2, <1>3, Parts DEF Core, Controls, MasterBound, SlaveBound
  <1>6. hist' \in History
    BY <1>1, Parts
  <1> QED BY <1>1, <1>2, <1>4, <1>5, <1>6, CalmStep

-----------------------------------------------------------------------------
(* The steps that send a record                                             *)

LEMMA TxrxRenegotiateStep == ASSUME SInv, TxrxRenegotiate PROVE SInv'
  <1> DEFINE p == Do_negotiation(prl)
  <1>1. Handling("loop") /\ prl.state = "TXRX" /\ Again(p) /\ store' = store /\ hist' = hist
        /\ ~prl.trans_repeat
    BY DEF TxrxRenegotiate, State, Renegotiates
  <1>2. p \in Prl /\ p.key = prl.key /\ p.master = prl.master /\ p.saved = prl.saved
        /\ p.configured = prl.configured /\ p.handler = prl.handler
        /\ p.trans_repeat = prl.trans_repeat
        /\ p.state = "HANDSHAKE" /\ p.hs_state = "SEND_HELLO"
    BY Parts, NegotiationFacts
  <1> HIDE DEF p
  <1>3. Called(p)
    BY <1>1, <1>2 DEF Called, Handling, InTransceive
  <1>4. Core(p)
    BY <1>1, <1>2, Parts DEF Core, Controls, MasterBound, SlaveBound
  <1>5. hist' \in History
    BY <1>1, Parts
  <1> QED BY <1>1, <1>2, <1>3, <1>4, <1>5, CalmStep

LEMMA PrlFacts ==
  ASSUME NEW p \in Prl
  PROVE  /\ p.key \in Nat /\ p.master \in Masters /\ p.save_slave \in Slaves
         /\ p.decryption_failure_counter \in 0 .. R /\ p.data_retransmit_counter \in 0 .. R
         /\ p.trans_repeat \in BOOLEAN /\ p.saved \in Kept
  BY DEF Prl

\* The number of a record is the next one, and there is room for it.
LEMMA NumberedFacts ==
  ASSUME SInv, State("TXRX"), ~Renegotiates
  PROVE  /\ Numbered \in Prl
         /\ Numbered.key = prl.key /\ Numbered.saved = prl.saved
         /\ Numbered.configured = prl.configured /\ Numbered.handler = prl.handler
         /\ Numbered.trans_repeat = prl.trans_repeat /\ Numbered.alert = prl.alert
         /\ Numbered.save_slave = prl.save_slave
         /\ Numbered.data_retransmit_counter = prl.data_retransmit_counter
         /\ Numbered.decryption_failure_counter = prl.decryption_failure_counter
         /\ ProtectsMaster(i2c.level) =>
              /\ Numbered.master = prl.master + 1
              /\ Numbered.master <= T + prl.data_retransmit_counter
         /\ ~ProtectsMaster(i2c.level) => Numbered = prl
  <1>1. prl \in Prl /\ prl.state = "TXRX"
    BY Parts DEF State
  <1>2. CASE ~ProtectsMaster(i2c.level)
    BY <1>1, <1>2 DEF Numbered
  <1>3. CASE ProtectsMaster(i2c.level)
    <2>1. Numbered = [prl EXCEPT !.master = Next_number(prl.master), !.sealed = TRUE]
      BY <1>3 DEF Numbered
    <2>2. prl.master \in Nat /\ Next_number(prl.master) = prl.master + 1
          /\ prl.data_retransmit_counter \in 0 .. R
      BY <1>1, PrlFacts, NextFacts
    <2>3. prl.master + 1 <= T + prl.data_retransmit_counter
      <3>1. CASE prl.trans_repeat
        <4>1. prl.master < T + prl.data_retransmit_counter
          BY <1>1, <1>3, <3>1, Parts DEF Core, MasterBound
        <4> QED BY <2>2, <4>1, ConstantFacts
      <3>2. CASE ~prl.trans_repeat
        <4>1. ~Exhausted(prl.master)
          BY <1>3, <3>2 DEF Renegotiates
        <4>2. ~(T < prl.master + 1)
          BY <2>2, <4>1 DEF Exhausted, T
        <4> QED BY <2>2, <4>2, ConstantFacts
      <3> QED BY <3>1, <3>2
    <2>4. prl.master + 1 \in Masters
      BY <2>2, <2>3, ConstantFacts DEF Masters
    <2>5. Numbered \in Prl
      BY <1>1, <2>1, <2>2, <2>4 DEF Prl
    <2>6. /\ Numbered.key = prl.key /\ Numbered.saved = prl.saved
          /\ Numbered.configured = prl.configured /\ Numbered.handler = prl.handler
          /\ Numbered.trans_repeat = prl.trans_repeat /\ Numbered.alert = prl.alert
          /\ Numbered.save_slave = prl.save_slave
          /\ Numbered.data_retransmit_counter = prl.data_retransmit_counter
          /\ Numbered.decryption_failure_counter = prl.decryption_failure_counter
          /\ Numbered.master = Next_number(prl.master)
      BY <1>1, <2>1 DEF Prl
    <2> QED BY <1>3, <2>2, <2>3, <2>5, <2>6
  <1> QED BY <1>2, <1>3

\* The number of the record has not been used under its key.
LEMMA TxrxSendStep == ASSUME SInv, TxrxSend PROVE SInv'
  <1> DEFINE p == [Numbered EXCEPT !.state = "VERIFY"]
             m == Outgoing(Numbered)
  <1>1. Handling("loop") /\ prl.state = "TXRX" /\ State("TXRX") /\ ~Renegotiates
        /\ Sends(m, p) /\ store' = store /\ hist' = Numbers_used(hist, m)
    BY DEF TxrxSend, State
  <1>2. p \in Prl /\ p.state = "VERIFY" /\ p.key = prl.key /\ p.saved = prl.saved
        /\ p.configured = prl.configured /\ p.handler = prl.handler
        /\ p.trans_repeat = prl.trans_repeat /\ p.save_slave = prl.save_slave
        /\ p.data_retransmit_counter = prl.data_retransmit_counter
        /\ p.decryption_failure_counter = prl.decryption_failure_counter
        /\ p.master = Numbered.master
    BY <1>1, NumberedFacts DEF Prl, PrlStates
  <1>3. /\ ProtectsMaster(i2c.level) =>
             p.master = prl.master + 1 /\ p.master <= T + p.data_retransmit_counter
        /\ ~ProtectsMaster(i2c.level) => p.master = prl.master
    BY <1>1, <1>2, NumberedFacts
  <1> HIDE DEF p
  <1>4. prl.master \in Nat /\ prl.key \in Nat /\ p.master \in Masters /\ p.master \in Sequence
        /\ prl.save_slave \in Nat /\ Next_number(prl.save_slave) = prl.save_slave + 1
    BY <1>2, Parts, PrlFacts, NextFacts
  <1>5. m \in Records /\ m.key = (IF ProtectsMaster(i2c.level) THEN prl.key ELSE 0)
        /\ m.seq = (IF ProtectsMaster(i2c.level) THEN p.master ELSE 0)
    <2> DEFINE r == Record("data")
    <2>1. r \in Records /\ i2c.level \in Levels /\ hist.current \in Nat
      BY RecordFacts, Parts DEF Types, I2C, History
    <2> HIDE DEF r
    <2>2. m = [r EXCEPT !.level = i2c.level, !.of = IF Sealed THEN 0 ELSE hist.current,
                 !.seq = IF ProtectsMaster(i2c.level) THEN p.master ELSE 0,
                 !.key = IF ProtectsMaster(i2c.level) THEN prl.key ELSE 0]
      BY <1>1, <1>2, NumberedFacts DEF Outgoing, r
    <2>3. 0 \in Sequence
      BY ConstantFacts DEF Sequence
    <2> HIDE DEF m
    <2>4. m \in Records
      BY <1>4, <2>1, <2>2, <2>3 DEF Records
    <2> QED BY <2>1, <2>2, <2>4 DEF Records
  <1> HIDE DEF m
  <1>6. Core(p)
    <2>1. Controls(p)
      BY <1>1, <1>2, Parts DEF Core, Controls
    <2>2. ProtectsMaster(i2c.level) => MasterBound(p)
      BY <1>2, <1>3 DEF MasterBound
    <2>3. ASSUME ProtectsSlave(i2c.level) PROVE p.save_slave < T + R * p.decryption_failure_counter
      <3>1. CASE prl.trans_repeat
        BY <1>1, <1>2, <2>3, <3>1, Parts DEF Core, SlaveBound
      <3>2. CASE ~prl.trans_repeat
        <4>1. ~Exhausted(prl.save_slave)
          BY <1>1, <2>3, <3>2 DEF Renegotiates
        <4>2. ~(T < prl.save_slave + 1)
          BY <1>4, <4>1 DEF Exhausted, T
        <4>3. R * p.decryption_failure_counter \in Nat
          BY <1>2, PrlFacts, ProductFacts
        <4> QED BY <1>2, <1>4, <4>2, <4>3, ConstantFacts
      <3> QED BY <3>1, <3>2
    <2>4. ProtectsSlave(i2c.level) => SlaveBound(p)
      BY <1>2, <2>3 DEF SlaveBound
    <2> QED BY <2>1, <2>2, <2>4 DEF Core
  <1>7. Keys /\ hist \in History /\ ~hist.reused /\ Numbers(prl, store, hist.numbers)
        /\ hist.numbers \subseteq Nat \X Nat /\ dev.sessions \in Nat
    BY Parts DEF NumbersUsedOnce, History, Device
  <1>8. /\ hist' \in History /\ (\A u \in hist'.numbers : u[1] \in 1 .. dev.sessions)
        /\ ~hist'.reused /\ Numbers(p, store', hist'.numbers)
    <2>1. CASE m.key = 0
      <3>1. hist' = hist
        BY <1>1, <2>1 DEF Numbers_used
      <3>2. p.master >= prl.master /\ p.master \in Nat
        BY <1>3, <1>4, NextFacts
      <3>3. Fresh(p, hist.numbers)
        <4> SUFFICES ASSUME NEW u \in hist.numbers, u[1] = p.key PROVE u[2] <= p.master
          BY DEF Fresh
        <4>1. u[2] <= prl.master
          BY <1>2, <1>7 DEF Numbers, Fresh
        <4>2. u[2] \in Nat
          BY <1>7
        <4> QED BY <1>4, <3>2, <4>1, <4>2
      <3>4. Context(p, store') = Context(prl, store)
        BY <1>1, <1>2 DEF Context
      <3>5. Numbers(p, store', hist'.numbers)
        BY <1>2, <1>7, <3>1, <3>3, <3>4 DEF Numbers
      <3> QED BY <1>7, <3>1, <3>5 DEF Keys
    <2>2. CASE m.key # 0
      <3> DEFINE w == <<prl.key, prl.master + 1>>
      <3>1. ProtectsMaster(i2c.level) /\ m.key = prl.key /\ m.seq = prl.master + 1
            /\ prl.key # 0 /\ p.master = prl.master + 1
        BY <1>3, <1>5, <2>2
      <3>2. w \notin hist.numbers
        <4> SUFFICES ASSUME w \in hist.numbers PROVE FALSE
          OBVIOUS
        <4>1. w[2] <= prl.master
          BY <1>7 DEF Numbers, Fresh
        <4> QED BY <1>4, <4>1
      <3>3. hist' = [hist EXCEPT !.numbers = hist.numbers \cup {w}, !.reused = FALSE]
        BY <1>1, <1>7, <2>2, <3>1, <3>2 DEF Numbers_used
      <3>4. w \in Nat \X Nat
        BY <1>4
      <3>w. w[1] = prl.key /\ w[2] = prl.master + 1
        OBVIOUS
      <3> HIDE DEF w
      <3>5. hist' \in History /\ hist'.numbers = hist.numbers \cup {w} /\ ~hist'.reused
        BY <1>7, <3>3, <3>4 DEF History
      <3>6. \A u \in hist'.numbers : u[1] \in 1 .. dev.sessions
        <4>1. prl.key \in 1 .. dev.sessions
          BY <1>4, <1>7, <3>1 DEF Keys
        <4> QED BY <1>7, <3>5, <3>w, <4>1 DEF Keys
      <3>7. Fresh(p, hist'.numbers)
        <4> SUFFICES ASSUME NEW u \in hist'.numbers, u[1] = p.key PROVE u[2] <= p.master
          BY DEF Fresh
        <4>1. CASE u = w
          BY <1>4, <3>1, <3>w, <4>1
        <4>2. CASE u \in hist.numbers
          <5>1. u[2] <= prl.master /\ u[2] \in Nat
            BY <1>2, <1>7, <4>2 DEF Numbers, Fresh
          <5> QED BY <1>4, <3>1, <5>1
        <4> QED BY <3>5, <4>1, <4>2
      <3>8. Context(p, store') = Context(prl, store)
        BY <1>1, <1>2 DEF Context
      <3>9. Context(prl, store).stored =>
              /\ Fresh(Context(prl, store), hist'.numbers)
              /\ Context(prl, store).key = 0 \/ Context(prl, store).key # p.key
        <4> DEFINE c == Context(prl, store)
        <4>1. c.stored => Fresh(c, hist.numbers) /\ (c.key = 0 \/ c.key # prl.key)
          BY <1>7 DEF Numbers
        <4> HIDE DEF c
        <4>2. c.stored => Fresh(c, hist'.numbers)
          BY <3>1, <3>5, <3>w, <4>1 DEF Fresh
        <4> QED BY <1>2, <4>1, <4>2 DEF c
      <3>10. Numbers(p, store', hist'.numbers)
        BY <1>2, <3>7, <3>8, <3>9 DEF Numbers
      <3> QED BY <3>5, <3>6, <3>10
    <2> QED BY <2>1, <2>2
  <1>9. p.key <= dev.sessions /\ p.saved.key <= dev.sessions
        /\ store' \in Kept /\ store'.key <= dev.sessions
    BY <1>1, <1>2, Parts DEF Keys
  <1> QED BY <1>1, <1>2, <1>5, <1>6, <1>8, <1>9, SendStep

LEMMA TxrxFailsStep == ASSUME SInv, TxrxFails PROVE SInv'
  <1> DEFINE q == [Numbered EXCEPT !.sealed = Sealed]
             p == Error_state_preparation(q)
  <1>1. Handling("loop") /\ State("TXRX") /\ ~Renegotiates
        /\ Again(p) /\ store' = store /\ hist' = hist
    BY DEF TxrxFails, State
  <1>2. q \in Prl /\ q.key = prl.key /\ q.saved = prl.saved /\ q.master = Numbered.master
        /\ q.configured = prl.configured /\ q.handler = prl.handler
    <2>1. Sealed \in BOOLEAN
      BY Parts DEF Sealed, Prl
    <2> QED BY <1>1, <2>1, NumberedFacts DEF Prl
  <1> HIDE DEF q
  <1>3. p \in Prl /\ p.state = "ERROR" /\ p.alert = "INVALID"
        /\ p.return_status # "SUCCESS" /\ p.trans_repeat = FALSE
        /\ p.handler = prl.handler /\ p.key = prl.key /\ p.master = Numbered.master
        /\ p.saved = prl.saved /\ p.configured = prl.configured
    BY <1>2, ErrorPreparation
  <1> HIDE DEF p
  <1>4. Fresh(p, hist.numbers)
    <2> SUFFICES ASSUME NEW u \in hist.numbers, u[1] = p.key PROVE u[2] <= p.master
      BY DEF Fresh
    <2>1. u[2] <= prl.master /\ u[2] \in Nat
      BY <1>3, Parts DEF Numbers, Fresh, History
    <2>2. prl.master \in Nat /\ (p.master = prl.master \/ p.master = prl.master + 1)
      BY <1>1, <1>3, NumberedFacts, Parts, PrlFacts, NextFacts
    <2> QED BY <2>1, <2>2
  <1>5. Context(p, store') = Context(prl, store)
    BY <1>1, <1>3 DEF Context
  <1>6. p.saved.key <= dev.sessions /\ store' \in Kept /\ store'.key <= dev.sessions
    BY <1>1, <1>3, Parts DEF Keys
  <1> QED BY <1>1, <1>3, <1>4, <1>5, <1>6, ErrorStep

-----------------------------------------------------------------------------
(* The steps on an answer                                                   *)

LEMMA VerifyRejectedStep == ASSUME SInv, VerifyRejected PROVE SInv'
  <1> DEFINE p == Error_state_preparation(prl)
  <1>1. Handling("loop") /\ Again(p) /\ store' = store /\ hist' = hist
    BY DEF VerifyRejected, State
  <1>2. p \in Prl /\ p.state = "ERROR" /\ p.alert = "INVALID"
        /\ p.return_status # "SUCCESS" /\ p.trans_repeat = FALSE
        /\ p.handler = prl.handler /\ p.key = prl.key /\ p.master = prl.master
        /\ p.saved = prl.saved /\ p.configured = prl.configured
    BY Parts, ErrorPreparation
  <1> HIDE DEF p
  <1>3. Fresh(p, hist.numbers) /\ Context(p, store') = Context(prl, store)
    BY <1>1, <1>2, Parts DEF Numbers, Fresh, Context
  <1>4. p.saved.key <= dev.sessions /\ store' \in Kept /\ store'.key <= dev.sessions
    BY <1>1, <1>2, Parts DEF Keys
  <1> QED BY <1>1, <1>2, <1>3, <1>4, ErrorStep

\* An answer is not handled in the call of ifx_i2c_transceive itself.
LEMMA VerifyCall ==
  ASSUME SInv, State("VERIFY") \/ State("ALERT")
  PROVE  event.call # "transceive" /\ Handling("loop") /\ prl \in Prl
  BY Parts DEF Called, InTransceive, State, Handling

LEMMA VerifyAlertStep == ASSUME SInv, VerifyAlert PROVE SInv'
  <1> DEFINE closes == \/ answer.type \notin {"fatal", "integrity"}
                       \/ answer.length # 1 /\ prl.negotiated
                       \/ prl.data_retransmit_counter = PRL_TRANS_REPEAT
                       \/ prl.restore_done /\ i2c.manage = "RESTORE"
             status == IF closes THEN "SESSION_ERROR" ELSE "STACK_ERROR"
             kept == prl.negotiated /\ ~closes
             p == [prl EXCEPT !.state = "ALERT", !.alert = "INVALID",
                              !.negotiated = kept, !.return_status = status]
  <1>1. State("VERIFY") /\ Handling("loop") /\ prl.state = "VERIFY"
        /\ Again(p) /\ store' = store /\ hist' = hist
    BY DEF VerifyAlert, State
  <1>2. prl \in Prl /\ event.call # "transceive"
    BY <1>1, VerifyCall
  <1>a. kept \in BOOLEAN /\ status \in Statuses
    BY DEF Statuses
  <1> HIDE DEF closes, status, kept
  <1>3. p \in Prl /\ p.state = "ALERT" /\ p.alert = "INVALID"
        /\ p.key = prl.key /\ p.master = prl.master /\ p.saved = prl.saved
        /\ p.configured = prl.configured /\ p.handler = prl.handler
        /\ p.trans_repeat = prl.trans_repeat /\ p.save_slave = prl.save_slave
        /\ p.data_retransmit_counter = prl.data_retransmit_counter
        /\ p.decryption_failure_counter = prl.decryption_failure_counter
    BY <1>2, <1>a DEF Prl, PrlStates
  <1> HIDE DEF p
  <1>4. Called(p)
    BY <1>1, <1>2, <1>3 DEF Called, Handling
  <1>5. Core(p)
    BY <1>1, <1>3, Parts DEF Core, Controls, MasterBound, SlaveBound
  <1>6. hist' \in History
    BY <1>1, Parts
  <1> QED BY <1>1, <1>3, <1>4, <1>5, <1>6, CalmStep

\* An answer in the window is near the last one.
LEMMA WindowFacts ==
  ASSUME SInv, State("VERIFY"), InSession, InWindow
  PROVE  /\ answer.seq \in Slaves
         /\ answer.seq < T + R * (prl.decryption_failure_counter + 1)
         /\ answer.type # "integrity"
  <1> DEFINE f == prl.decryption_failure_counter
             k == R * (R + 1)
             a == R * f
             b == R * (f + 1)
  <1>1. prl.state = "VERIFY" /\ ProtectsSlave(i2c.level) /\ answer.type # "integrity"
    BY DEF State, InSession, IsData, Alerts
  <1>2. prl.save_slave \in Slaves /\ f \in 0 .. R
    BY Parts, PrlFacts
  <1>3. prl.save_slave \in Nat /\ (prl.save_slave + R) % SeqSize = prl.save_slave + R
    BY <1>2, NextFacts
  <1>4. answer.seq \in Nat
    <2>1. answer.seq \in Sequence
      BY Parts DEF Events, answer, Records
    <2> QED BY <2>1, NextFacts
  <1>5. answer.seq <= prl.save_slave + R
    BY <1>3 DEF InWindow, R
  <1>6. prl.save_slave < T + a
    <2>1. SlaveBound(prl)
      BY <1>1, Parts DEF Core
    <2> QED BY <1>1, <2>1 DEF SlaveBound
  <1>7. a \in Nat /\ b = a + R /\ b <= k /\ T \in Nat /\ R \in Nat /\ k \in Nat
    BY <1>2, ProductFacts, ConstantFacts
  <1> HIDE DEF a, b, k
  <1>8. answer.seq < T + b
    BY <1>3, <1>4, <1>5, <1>6, <1>7
  <1>9. answer.seq \in 0 .. T - 1 + k
    BY <1>4, <1>7, <1>8
  <1> QED BY <1>1, <1>8, <1>9 DEF Slaves, b, k

LEMMA VerifyUnreadableStep == ASSUME SInv, VerifyUnreadable PROVE SInv'
  <1> DEFINE p == [prl EXCEPT !.save_slave = answer.seq, !.state = "ALERT",
                              !.alert = "INTEGRITY"]
  <1>1. State("VERIFY") /\ InSession /\ InWindow /\ Handling("loop")
        /\ prl.state = "VERIFY" /\ Again(p) /\ store' = store /\ hist' = hist
    BY DEF VerifyUnreadable, State
  <1>2. prl \in Prl /\ event.call # "transceive"
    BY <1>1, VerifyCall
  <1>3. p \in Prl /\ p.state = "ALERT" /\ p.alert = "INTEGRITY"
        /\ p.key = prl.key /\ p.master = prl.master /\ p.saved = prl.saved
        /\ p.configured = prl.configured /\ p.handler = prl.handler
        /\ p.trans_repeat = prl.trans_repeat /\ p.save_slave = answer.seq
        /\ p.data_retransmit_counter = prl.data_retransmit_counter
        /\ p.decryption_failure_counter = prl.decryption_failure_counter
    BY <1>1, <1>2, WindowFacts DEF Prl, PrlStates
  <1> HIDE DEF p
  <1>4. answer.type # "integrity" /\ ProtectsSlave(i2c.level)
        /\ p.save_slave < T + R * (p.decryption_failure_counter + 1)
    BY <1>1, <1>3, WindowFacts DEF InSession
  <1>5. Called(p)
    BY <1>1, <1>2, <1>3, <1>4 DEF Called, Handling
  <1>6. Core(p)
    BY <1>1, <1>3, <1>4, Parts DEF Core, Controls, MasterBound, SlaveBound
  <1>7. hist' \in History
    BY <1>1, Parts
  <1> QED BY <1>1, <1>3, <1>5, <1>6, <1>7, CalmStep

\* The operation ends well.
LEMMA VerifyEndsStep ==
  ASSUME SInv, State("VERIFY"), NEW p \in Prl, Again(p), p.state = "IDLE",
         p.key = prl.key, p.master = prl.master, p.saved = prl.saved,
         p.configured = prl.configured, p.handler = prl.handler,
         p.trans_repeat = prl.trans_repeat, store' = store,
         hist' \in History, hist'.numbers = hist.numbers, hist'.reused = hist.reused
  PROVE  SInv'
  <1>1. event.call # "transceive" /\ Handling("loop") /\ prl.state = "VERIFY"
    BY VerifyCall DEF State
  <1>2. Called(p)
    BY <1>1 DEF Called, Handling
  <1>3. Core(p)
    BY <1>1, Parts DEF Core, Controls, MasterBound, SlaveBound
  <1> QED BY <1>1, <1>2, <1>3, CalmStep

LEMMA VerifyAcceptedStep == ASSUME SInv, VerifyAccepted PROVE SInv'
  <1> DEFINE p == [prl EXCEPT !.save_slave = answer.seq, !.return_status = "SUCCESS",
                              !.state = "IDLE"]
  <1>1. State("VERIFY") /\ InSession /\ InWindow
        /\ Again(p) /\ store' = store /\ hist' = [hist EXCEPT !.accepted = answer.of]
    BY DEF VerifyAccepted
  <1>2. prl \in Prl /\ hist \in History
    BY Parts
  <1>3. p \in Prl /\ p.state = "IDLE"
        /\ p.key = prl.key /\ p.master = prl.master /\ p.saved = prl.saved
        /\ p.configured = prl.configured /\ p.handler = prl.handler
        /\ p.trans_repeat = prl.trans_repeat
    BY <1>1, <1>2, WindowFacts DEF Prl, PrlStates, Statuses
  <1> HIDE DEF p
  <1>4. answer.of \in Nat
    BY Parts DEF Events, answer, Records
  <1>5. hist' \in History /\ hist'.numbers = hist.numbers /\ hist'.reused = hist.reused
    BY <1>1, <1>2, <1>4 DEF History
  <1> QED BY <1>1, <1>3, <1>5, VerifyEndsStep

LEMMA VerifyPlainStep == ASSUME SInv, VerifyPlain PROVE SInv'
  <1> DEFINE p == [prl EXCEPT !.return_status = "SUCCESS", !.state = "IDLE"]
  <1>1. State("VERIFY") /\ Again(p) /\ store' = store /\ hist' = hist
    BY DEF VerifyPlain
  <1>2. p \in Prl /\ p.state = "IDLE"
        /\ p.key = prl.key /\ p.master = prl.master /\ p.saved = prl.saved
        /\ p.configured = prl.configured /\ p.handler = prl.handler
        /\ p.trans_repeat = prl.trans_repeat
    BY Parts DEF Prl, PrlStates, Statuses
  <1> HIDE DEF p
  <1>3. hist' \in History
    BY <1>1, Parts
  <1> QED BY <1>1, <1>2, <1>3, VerifyEndsStep

LEMMA VerifyPlainShortStep == ASSUME SInv, VerifyPlainShort PROVE SInv'
  <1> DEFINE status == IF prl.negotiated THEN "SESSION_ERROR" ELSE "STACK_ERROR"
             p == [prl EXCEPT !.state = "ERROR", !.alert = "INVALID", !.negotiated = FALSE,
                              !.return_status = status]
  <1>1. Handling("loop") /\ Again(p) /\ store' = store /\ hist' = hist
    BY DEF VerifyPlainShort, State
  <1>a. status \in Statuses /\ status # "SUCCESS"
    BY DEF Statuses
  <1> HIDE DEF status
  <1>2. p \in Prl /\ p.state = "ERROR" /\ p.alert = "INVALID"
        /\ p.return_status # "SUCCESS" /\ p.trans_repeat = prl.trans_repeat
        /\ p.handler = prl.handler /\ p.key = prl.key /\ p.master = prl.master
        /\ p.saved = prl.saved /\ p.configured = prl.configured
    BY <1>a, Parts DEF Prl, PrlStates
  <1> HIDE DEF p
  <1>3. Fresh(p, hist.numbers) /\ Context(p, store') = Context(prl, store)
    BY <1>1, <1>2, Parts DEF Numbers, Fresh, Context
  <1>4. p.saved.key <= dev.sessions /\ store' \in Kept /\ store'.key <= dev.sessions
    BY <1>1, <1>2, Parts DEF Keys
  <1> QED BY <1>1, <1>2, <1>3, <1>4, ErrorStep

LEMMA AlertRepeatStep == ASSUME SInv, AlertRepeat PROVE SInv'
  <1> DEFINE p == [prl EXCEPT !.data_retransmit_counter = @ + 1, !.trans_repeat = TRUE,
                              !.alert = "INTEGRITY", !.state = "TXRX"]
  <1>1. State("ALERT") /\ Handling("loop") /\ prl.state = "ALERT" /\ RepeatsRecord
        /\ Again(p) /\ store' = store /\ hist' = hist
    BY DEF AlertRepeat, State
  <1>2. prl \in Prl /\ event.call # "transceive"
    BY <1>1, VerifyCall
  <1>3. prl.data_retransmit_counter \in 0 .. R /\ R \in Nat /\ T \in Nat
        /\ prl.data_retransmit_counter < R /\ prl.master \in Nat
    BY <1>1, <1>2, PrlFacts, NextFacts, ConstantFacts DEF RepeatsRecord, R
  <1>4. prl.data_retransmit_counter + 1 \in 0 .. R
    BY <1>3
  <1>5. p \in Prl /\ p.state = "TXRX" /\ p.alert = "INTEGRITY" /\ p.trans_repeat
        /\ p.key = prl.key /\ p.master = prl.master /\ p.saved = prl.saved
        /\ p.configured = prl.configured /\ p.handler = prl.handler
        /\ p.save_slave = prl.save_slave
        /\ p.data_retransmit_counter = prl.data_retransmit_counter + 1
        /\ p.decryption_failure_counter = prl.decryption_failure_counter
    BY <1>2, <1>4 DEF Prl, PrlStates
  <1> HIDE DEF p
  <1>6. ProtectsMaster(i2c.level) /\ ~i2c.re_establish /\ answer.type = "integrity"
    BY <1>1 DEF RepeatsRecord
  <1>7. prl.alert = "INVALID"
    <2>1. prl.alert # "INTEGRITY" /\ prl.alert # "DEFAULT"
      BY <1>1, <1>6, Parts DEF Called, Core, Controls
    <2> QED BY <1>2, <2>1 DEF Prl
  <1>8. Called(p)
    BY <1>1, <1>2, <1>5 DEF Called, Handling
  <1>9. Core(p)
    <2>1. Controls(p)
      BY <1>5, <1>6, Parts DEF Core, Controls
    <2>2. p.master < T + p.data_retransmit_counter
      <3>1. prl.master <= T + prl.data_retransmit_counter
        <4>1. MasterBound(prl)
          BY <1>6, Parts DEF Core
        <4> QED BY <1>1, <4>1 DEF MasterBound
      <3> QED BY <1>3, <1>5, <3>1
    <2>3. MasterBound(p)
      BY <1>5, <2>2 DEF MasterBound
    <2>4. ASSUME ProtectsSlave(i2c.level) PROVE SlaveBound(p)
      <3>1. SlaveBound(prl)
        BY <2>4, Parts DEF Core
      <3> QED BY <1>1, <1>5, <1>7, <3>1 DEF SlaveBound
    <2> QED BY <2>1, <2>3, <2>4 DEF Core
  <1>10. hist' \in History
    BY <1>1, Parts
  <1> QED BY <1>1, <1>5, <1>8, <1>9, <1>10, CalmStep

LEMMA AlertEndsStep == ASSUME SInv, AlertEnds PROVE SInv'
  <1>1. State("ALERT") /\ Handling("loop") /\ prl.state = "ALERT"
        /\ store' = store /\ hist' = hist
        /\ Again(IF AlertTooOften THEN Error_state_preparation(prl)
                                  ELSE [prl EXCEPT !.state = "ERROR"])
    BY DEF AlertEnds, State
  <1>2. prl \in Prl /\ event.call # "transceive"
    BY <1>1, VerifyCall
  <1>3. CASE AlertTooOften
    <2> DEFINE p == Error_state_preparation(prl)
    <2>1. p \in Prl /\ p.state = "ERROR" /\ p.alert = "INVALID"
          /\ p.return_status # "SUCCESS" /\ p.trans_repeat = FALSE
          /\ p.handler = prl.handler /\ p.key = prl.key /\ p.master = prl.master
          /\ p.saved = prl.saved /\ p.configured = prl.configured /\ Again(p)
      BY <1>1, <1>3, Parts, ErrorPreparation
    <2> HIDE DEF p
    <2>2. Fresh(p, hist.numbers) /\ Context(p, store') = Context(prl, store)
      BY <1>1, <2>1, Parts DEF Numbers, Fresh, Context
    <2>3. p.saved.key <= dev.sessions /\ store' \in Kept /\ store'.key <= dev.sessions
      BY <1>1, <2>1, Parts DEF Keys
    <2> QED BY <1>1, <2>1, <2>2, <2>3, ErrorStep
  <1>4. CASE ~AlertTooOften
    <2> DEFINE p == [prl EXCEPT !.state = "ERROR"]
    <2>1. p \in Prl /\ p.state = "ERROR" /\ p.alert = prl.alert
          /\ p.key = prl.key /\ p.master = prl.master /\ p.saved = prl.saved
          /\ p.configured = prl.configured /\ p.handler = prl.handler
          /\ p.trans_repeat = prl.trans_repeat /\ p.save_slave = prl.save_slave
          /\ p.data_retransmit_counter = prl.data_retransmit_counter
          /\ p.decryption_failure_counter = prl.decryption_failure_counter
      BY <1>2 DEF Prl, PrlStates
    <2>2. Again(p)
      BY <1>1, <1>4
    <2> HIDE DEF p
    <2>3. Called(p)
      BY <1>1, <1>2, <2>1 DEF Called, Handling
    <2>4. ASSUME prl.alert = "INTEGRITY" PROVE prl.decryption_failure_counter < R
      <3>1. answer.type # "integrity"
        BY <1>1, <2>4, Parts DEF Called
      <3>2. prl.decryption_failure_counter # R
        BY <1>4, <3>1 DEF AlertTooOften, R
      <3>3. prl.decryption_failure_counter \in 0 .. R /\ R \in Nat
        BY <1>2, PrlFacts, ConstantFacts
      <3> QED BY <3>2, <3>3
    <2>5. Core(p)
      <3>1. Controls(p)
        BY <1>1, <2>1, Parts DEF Core, Controls
      <3>2. ASSUME ProtectsMaster(i2c.level) PROVE MasterBound(p)
        <4>1. MasterBound(prl)
          BY <3>2, Parts DEF Core
        <4> QED BY <1>1, <2>1, <4>1 DEF MasterBound
      <3>3. ASSUME ProtectsSlave(i2c.level) PROVE SlaveBound(p)
        <4>1. SlaveBound(prl)
          BY <3>3, Parts DEF Core
        <4> QED BY <1>1, <2>1, <2>4, <4>1 DEF SlaveBound
      <3> QED BY <3>1, <3>2, <3>3 DEF Core
    <2>6. hist' \in History
      BY <1>1, Parts
    <2> QED BY <1>1, <2>1, <2>2, <2>3, <2>5, <2>6, CalmStep
  <1> QED BY <1>3, <1>4

-----------------------------------------------------------------------------
(* The steps after an error                                                 *)

\* A record is sent that uses no number.
LEMMA QuietSend ==
  ASSUME SInv, Handling("loop"), NEW p \in Prl, NEW m \in Records, Sends(m, p), hist' = hist,
         p.key <= dev.sessions, p.saved.key <= dev.sessions,
         store' \in Kept, store'.key <= dev.sessions,
         p.state # "ALERT", Core(p), Numbers(p, store', hist.numbers)
  PROVE  SInv'
  <1>1. hist' \in History /\ (\A u \in hist'.numbers : u[1] \in 1 .. dev.sessions)
        /\ ~hist'.reused
    BY Parts DEF Keys, NumbersUsedOnce
  <1> QED BY <1>1, SendStep

LEMMA ErrorEndsStep == ASSUME SInv, ErrorEnds PROVE SInv'
  <1> DEFINE p == [prl EXCEPT !.state = "IDLE"]
  <1>1. Handling("loop") /\ prl.state = "ERROR" /\ prl.alert = "INVALID"
        /\ Again(p) /\ store' = store /\ hist' = hist
    BY DEF ErrorEnds, State
  <1>2. p \in Prl /\ p.state = "IDLE" /\ p.return_status = prl.return_status
        /\ p.key = prl.key /\ p.master = prl.master /\ p.saved = prl.saved
        /\ p.configured = prl.configured /\ p.handler = prl.handler
        /\ p.trans_repeat = prl.trans_repeat
    BY Parts DEF Prl, PrlStates
  <1> HIDE DEF p
  <1>3. Called(p)
    <2>1. event.call = "transceive" => p.return_status # "SUCCESS"
      BY <1>1, <1>2, Parts DEF Called, InTransceive, Handling
    <2> QED BY <1>1, <1>2, <2>1 DEF Called, InTransceive, Handling
  <1>4. Core(p)
    BY <1>1, <1>2, Parts DEF Core, Controls, MasterBound, SlaveBound
  <1>5. hist' \in History
    BY <1>1, Parts
  <1> QED BY <1>1, <1>2, <1>3, <1>4, <1>5, CalmStep

\* Only an answer that could not be read is complained of.
LEMMA ErrorAlertStep == ASSUME SInv, ErrorAlert PROVE SInv'
  <1> DEFINE q == [prl EXCEPT !.alert = "INVALID"]
             p == [q EXCEPT !.decryption_failure_counter = @ + 1,
                            !.state = "VERIFY", !.return_status = "SUCCESS"]
             m == Alert("alert")
  <1>1. Handling("loop") /\ prl.state = "ERROR" /\ prl.alert # "INVALID"
        /\ store' = store /\ hist' = hist /\ prl \in Prl
    BY Parts DEF ErrorAlert, State
  <1>2. prl.alert = "INTEGRITY"
    <2>1. prl.alert # "DEFAULT"
      BY <1>1, Parts DEF Core, Controls
    <2> QED BY <1>1, <2>1 DEF Prl
  <1>3. Sends(m, p)
    BY <1>2 DEF ErrorAlert
  <1>4. ProtectsSlave(i2c.level)
    BY <1>1, <1>2, Parts DEF Core, Controls
  <1>5. prl.save_slave < T + R * (prl.decryption_failure_counter + 1)
        /\ prl.decryption_failure_counter < R
    <2>1. SlaveBound(prl)
      BY <1>4, Parts DEF Core
    <2> QED BY <1>1, <1>2, <2>1 DEF SlaveBound
  <1>6. prl.decryption_failure_counter + 1 \in 0 .. R
    <2>1. prl.decryption_failure_counter \in 0 .. R /\ R \in Nat
      BY <1>1, PrlFacts, ConstantFacts
    <2> QED BY <1>5, <2>1
  <1>7. q \in Prl /\ q.decryption_failure_counter = prl.decryption_failure_counter
        /\ q.key = prl.key /\ q.master = prl.master /\ q.saved = prl.saved
        /\ q.configured = prl.configured /\ q.handler = prl.handler
        /\ q.trans_repeat = prl.trans_repeat /\ q.save_slave = prl.save_slave
        /\ q.data_retransmit_counter = prl.data_retransmit_counter
    BY <1>1 DEF Prl
  <1> HIDE DEF q
  <1>8. p \in Prl /\ p.state = "VERIFY"
        /\ p.decryption_failure_counter = prl.decryption_failure_counter + 1
        /\ p.key = prl.key /\ p.master = prl.master /\ p.saved = prl.saved
        /\ p.configured = prl.configured /\ p.handler = prl.handler
        /\ p.trans_repeat = prl.trans_repeat /\ p.save_slave = prl.save_slave
        /\ p.data_retransmit_counter = prl.data_retransmit_counter
    BY <1>6, <1>7 DEF Prl, PrlStates, Statuses
  <1> HIDE DEF p
  <1>9. m \in Records
    BY RecordFacts DEF Types
  <1> HIDE DEF m
  <1>10. Core(p)
    <2>1. Controls(p)
      BY <1>1, <1>8, Parts DEF Core, Controls
    <2>2. ASSUME ProtectsMaster(i2c.level) PROVE MasterBound(p)
      <3>1. MasterBound(prl)
        BY <2>2, Parts DEF Core
      <3> QED BY <1>1, <1>2, <1>8, <3>1 DEF MasterBound
    <2>3. SlaveBound(p)
      BY <1>5, <1>8 DEF SlaveBound
    <2> QED BY <2>1, <2>2, <2>3 DEF Core
  <1>11. Numbers(p, store', hist.numbers)
    BY <1>1, <1>8, Parts DEF Numbers, Fresh, Context
  <1>12. p.key <= dev.sessions /\ p.saved.key <= dev.sessions
         /\ store' \in Kept /\ store'.key <= dev.sessions
    BY <1>1, <1>8, Parts DEF Keys
  <1> QED BY <1>1, <1>3, <1>8, <1>9, <1>10, <1>11, <1>12, QuietSend

-----------------------------------------------------------------------------
(* The steps that save and restore a session                                *)

LEMMA ManageReestablishStep == ASSUME SInv, ManageReestablish PROVE SInv'
  <1> DEFINE p == [prl EXCEPT !.state = "START"]
  <1>1. Handling("loop") /\ prl.state = "MANAGE_CONTEXT" /\ Again(p) /\ store' = store
        /\ hist' = [hist EXCEPT !.sent_at_close = @ \/ prl.handler = "close"]
        /\ i2c.re_establish
    BY DEF ManageReestablish, ManageTx, State
  <1>2. p \in Prl /\ p.state = "START"
        /\ p.key = prl.key /\ p.master = prl.master /\ p.saved = prl.saved
        /\ p.configured = prl.configured /\ p.handler = prl.handler
        /\ p.trans_repeat = prl.trans_repeat
    BY Parts DEF Prl, PrlStates
  <1> HIDE DEF p
  <1>3. Called(p)
    BY <1>1, <1>2 DEF Called, InTransceive, Handling
  <1>4. Core(p)
    BY <1>1, <1>2, Parts DEF Core, Controls, MasterBound, SlaveBound
  <1>5. hist' \in History /\ hist'.numbers = hist.numbers /\ hist'.reused = hist.reused
    BY <1>1, Parts DEF History
  <1> QED BY <1>1, <1>2, <1>3, <1>4, <1>5, CalmStep

LEMMA ManageSaveStep == ASSUME SInv, ManageSave PROVE SInv'
  <1> DEFINE p == [prl EXCEPT !.mc_state = "RX"]
             m == Alert("save")
  <1>1. Handling("loop") /\ prl.state = "MANAGE_CONTEXT" /\ Sends(m, p) /\ store' = store
        /\ hist' = hist /\ i2c.manage = "SAVE"
    BY DEF ManageSave, ManageTx, State
  <1>2. p \in Prl /\ p.state = "MANAGE_CONTEXT"
        /\ p.key = prl.key /\ p.master = prl.master /\ p.saved = prl.saved
        /\ p.configured = prl.configured /\ p.handler = prl.handler
        /\ p.trans_repeat = prl.trans_repeat
    BY <1>1, Parts DEF Prl
  <1> HIDE DEF p
  <1>3. m \in Records
    BY RecordFacts DEF Types
  <1> HIDE DEF m
  <1>4. Core(p)
    BY <1>1, <1>2, Parts DEF Core, Controls, MasterBound, SlaveBound
  <1>5. Numbers(p, store', hist.numbers)
    BY <1>1, <1>2, Parts DEF Numbers, Fresh, Context
  <1>6. p.key <= dev.sessions /\ p.saved.key <= dev.sessions
        /\ store' \in Kept /\ store'.key <= dev.sessions
    BY <1>1, <1>2, Parts DEF Keys
  <1> QED BY <1>1, <1>2, <1>3, <1>4, <1>5, <1>6, QuietSend

LEMMA ReadFacts ==
  ASSUME SInv
  PROVE  /\ ReadFromStore \in Prl /\ ReadFromStore.saved = Context(prl, store)
         /\ ReadFromStore.key = prl.key /\ ReadFromStore.master = prl.master
         /\ ReadFromStore.configured = prl.configured /\ ReadFromStore.state = prl.state
         /\ ReadFromStore.handler = prl.handler
         /\ ReadFromStore.trans_repeat = prl.trans_repeat
         /\ ReadFromStore.saved \in Kept /\ ReadFromStore.saved.key <= dev.sessions
  <1>1. prl \in Prl /\ store \in Kept
    BY Parts
  <1>2. CASE prl.configured
    <2>1. ReadFromStore = [prl EXCEPT !.saved = store]
      BY <1>2 DEF ReadFromStore
    <2> QED BY <1>1, <1>2, <2>1, Parts DEF Prl, Context, Keys
  <1>3. CASE ~prl.configured
    BY <1>1, <1>3, PrlFacts, Parts DEF ReadFromStore, Context, Keys
  <1> QED BY <1>2, <1>3

LEMMA ManageNothingSavedStep == ASSUME SInv, ManageNothingSaved PROVE SInv'
  <1> DEFINE q == ReadFromStore
             p == [q EXCEPT !.state = "START", !.negotiated = FALSE, !.restore_done = TRUE]
  <1>1. Handling("loop") /\ prl.state = "MANAGE_CONTEXT" /\ Again(p) /\ store' = store
        /\ hist' = hist /\ i2c.manage = "RESTORE" /\ ~q.saved.stored
    BY DEF ManageNothingSaved, Restoring, ManageTx, State
  <1>2. q \in Prl /\ q.saved = Context(prl, store) /\ q.key = prl.key /\ q.master = prl.master
        /\ q.configured = prl.configured /\ q.handler = prl.handler
        /\ q.trans_repeat = prl.trans_repeat /\ q.saved.key <= dev.sessions
    BY ReadFacts
  <1> HIDE DEF q
  <1>3. p \in Prl /\ p.state = "START" /\ p.key = prl.key /\ p.master = prl.master
        /\ p.saved = q.saved /\ p.configured = prl.configured /\ p.handler = prl.handler
        /\ p.trans_repeat = prl.trans_repeat
    BY <1>2 DEF Prl, PrlStates
  <1> HIDE DEF p
  <1>4. Called(p)
    BY <1>1, <1>3 DEF Called, InTransceive, Handling
  <1>5. Core(p)
    BY <1>1, <1>3, Parts DEF Core, Controls, MasterBound, SlaveBound
  <1>6. Context(p, store') = Context(prl, store)
    BY <1>1, <1>2, <1>3 DEF Context
  <1>7. Numbers(p, store', hist.numbers)
    BY <1>3, <1>6, CalmNumbers
  <1>8. p.key <= dev.sessions /\ p.saved.key <= dev.sessions /\ hist' \in History
        /\ store' \in Kept /\ store'.key <= dev.sessions
    BY <1>1, <1>2, <1>3, Parts DEF Keys
  <1> QED BY <1>1, <1>3, <1>4, <1>5, <1>7, <1>8, LoopStep

\* When the device is asked to restore the session nothing is left to restore
\* it from a second time.
LEMMA ManageRestoreStep == ASSUME SInv, ManageRestore PROVE SInv'
  <1> DEFINE q == ReadFromStore
             c == [q.saved EXCEPT !.stored = FALSE]
             p == [q EXCEPT !.negotiated = q.saved.negotiated, !.saved.stored = FALSE,
                            !.mc_state = "RX"]
             m == [Record("restore") EXCEPT !.seq = q.saved.slave]
  <1>1. Handling("loop") /\ prl.state = "MANAGE_CONTEXT"
        /\ hist' = hist /\ i2c.manage = "RESTORE" /\ q.saved.stored
        /\ store' = IF prl.configured THEN NoContext ELSE store
    <2>1. Restoring /\ ReadFromStore.saved.stored /\ Kept_in_store(NoContext) /\ hist' = hist
      BY DEF ManageRestore
    <2> QED BY <2>1 DEF Restoring, ManageTx, State, Kept_in_store
  <1>2. q \in Prl /\ q.saved = Context(prl, store) /\ q.key = prl.key /\ q.master = prl.master
        /\ q.configured = prl.configured /\ q.handler = prl.handler /\ q.state = prl.state
        /\ q.trans_repeat = prl.trans_repeat /\ q.saved.key <= dev.sessions /\ q.saved \in Kept
    BY ReadFacts
  <1>3. Sends(m, p)
    BY DEF ManageRestore
  <1> HIDE DEF q
  <1>4. c \in Kept /\ c.key = q.saved.key /\ c.master = q.saved.master /\ ~c.stored
        /\ q.saved.negotiated \in BOOLEAN /\ q.saved.slave \in Slaves
    BY <1>2 DEF Kept
  <1>5. p \in Prl /\ p.state = "MANAGE_CONTEXT" /\ p.key = prl.key /\ p.master = prl.master
        /\ p.saved = c /\ p.configured = prl.configured /\ p.handler = prl.handler
        /\ p.trans_repeat = prl.trans_repeat
    <2>1. p = [q EXCEPT !.negotiated = q.saved.negotiated, !.saved = c, !.mc_state = "RX"]
      BY <1>2 DEF Prl
    <2> HIDE DEF p, c
    <2> QED BY <1>1, <1>2, <1>4, <2>1 DEF Prl
  <1> HIDE DEF c
  <1> HIDE DEF p
  <1>6. m \in Records
    <2>1. Record("restore") \in Records
      BY RecordFacts DEF Types
    <2>2. q.saved.slave \in Sequence
      BY <1>4, NextFacts
    <2> QED BY <2>1, <2>2 DEF Records
  <1> HIDE DEF m
  <1>7. Core(p)
    BY <1>1, <1>5, Parts DEF Core, Controls, MasterBound, SlaveBound
  <1>8. ~Context(p, store').stored
    BY <1>1, <1>4, <1>5, NoContextFacts DEF Context
  <1>9. Fresh(p.saved, hist.numbers)
    <2>1. Fresh(q.saved, hist.numbers)
      BY <1>1, <1>2, Parts DEF Numbers
    <2> QED BY <1>4, <1>5, <2>1 DEF Fresh
  <1>10. Numbers(p, store', hist.numbers)
    <2>1. Fresh(p, hist.numbers)
      BY <1>5, Parts DEF Numbers, Fresh
    <2> QED BY <1>5, <1>8, <1>9, <2>1 DEF Numbers
  <1>11. p.key <= dev.sessions /\ p.saved.key <= dev.sessions
    BY <1>2, <1>4, <1>5, Parts DEF Keys
  <1>12. store' \in Kept /\ store'.key <= dev.sessions
    <2>1. store \in Kept /\ store.key <= dev.sessions /\ 0 <= dev.sessions
      BY Parts DEF Keys, Device
    <2> QED BY <1>1, <2>1, NoContextFacts
  <1> QED BY <1>1, <1>3, <1>5, <1>6, <1>7, <1>10, <1>11, <1>12, QuietSend

LEMMA ManageStoreFailsStep == ASSUME SInv, ManageStoreFails PROVE SInv'
  <1>1. Handling("loop") /\ prl.configured /\ store' = store /\ hist' = hist
        /\ \/ Again(Error_state_preparation(prl))
           \/ Again(Error_state_preparation([ReadFromStore EXCEPT !.saved.stored = FALSE]))
    BY DEF ManageStoreFails, Restoring, ManageTx, State, StoreFails
  <1>2. ASSUME NEW q \in Prl, q.key = prl.key, q.master = prl.master,
               q.saved.key <= dev.sessions, q.configured = prl.configured,
               q.handler = prl.handler, Again(Error_state_preparation(q))
        PROVE  SInv'
    <2> DEFINE p == Error_state_preparation(q)
    <2>1. p \in Prl /\ p.state = "ERROR" /\ p.alert = "INVALID"
          /\ p.return_status # "SUCCESS" /\ p.trans_repeat = FALSE
          /\ p.handler = prl.handler /\ p.key = prl.key /\ p.master = prl.master
          /\ p.saved = q.saved /\ p.configured = prl.configured /\ Again(p)
      BY <1>2, ErrorPreparation
    <2> HIDE DEF p
    <2>2. Fresh(p, hist.numbers) /\ Context(p, store') = Context(prl, store)
      BY <1>1, <2>1, Parts DEF Numbers, Fresh, Context
    <2>3. p.saved.key <= dev.sessions /\ store' \in Kept /\ store'.key <= dev.sessions
      BY <1>1, <1>2, <2>1, Parts DEF Keys
    <2> QED BY <1>1, <2>1, <2>2, <2>3, ErrorStep
  <1>3. CASE Again(Error_state_preparation(prl))
    BY <1>2, <1>3, Parts DEF Keys
  <1>4. CASE Again(Error_state_preparation([ReadFromStore EXCEPT !.saved.stored = FALSE]))
    <2> DEFINE q == [ReadFromStore EXCEPT !.saved.stored = FALSE]
    <2>1. q = [ReadFromStore EXCEPT !.saved = [ReadFromStore.saved EXCEPT !.stored = FALSE]]
      BY ReadFacts DEF Prl
    <2>2. [ReadFromStore.saved EXCEPT !.stored = FALSE] \in Kept
          /\ [ReadFromStore.saved EXCEPT !.stored = FALSE].key = ReadFromStore.saved.key
      BY ReadFacts DEF Kept
    <2> HIDE DEF q
    <2>3. q \in Prl /\ q.key = prl.key /\ q.master = prl.master
          /\ q.saved.key <= dev.sessions /\ q.configured = prl.configured
          /\ q.handler = prl.handler
      BY <2>1, <2>2, ReadFacts DEF Prl
    <2>4. Again(Error_state_preparation(q))
      BY <1>4 DEF q
    <2> QED BY <1>2, <2>3, <2>4
  <1> QED BY <1>1, <1>3, <1>4

LEMMA SavedFacts ==
  ASSUME SInv
  PROVE  /\ Saved(prl) \in Kept /\ Saved(prl).key = prl.key /\ Saved(prl).master = prl.master
         /\ Saved(prl).key <= dev.sessions
  BY Parts DEF Saved, Kept, Prl, Keys

\* A session that is restored goes on with the numbers it was saved with.
LEMMA ManageRestoredStep == ASSUME SInv, ManageRestored PROVE SInv'
  <1> DEFINE p == [Restored(prl) EXCEPT !.restore_done = TRUE, !.state = "TXRX",
                                        !.return_status = "SUCCESS"]
  <1>1. Handling("loop") /\ prl.state = "MANAGE_CONTEXT" /\ prl.mc_state = "RX"
        /\ Again(p) /\ store' = store /\ hist' = hist /\ i2c.manage = "RESTORE"
    BY DEF ManageRestored, ManageRx, State, IsRestored
  <1>2. prl \in Prl /\ prl.saved \in Kept
    BY Parts, PrlFacts
  <1>3. p \in Prl /\ p.state = "TXRX" /\ p.key = prl.saved.key /\ p.master = prl.saved.master
        /\ p.saved = prl.saved /\ p.configured = prl.configured /\ p.handler = prl.handler
        /\ p.trans_repeat = prl.trans_repeat
    <2> DEFINE q == Restored(prl)
    <2>1. prl.saved.key \in Nat /\ prl.saved.master \in Masters /\ prl.saved.slave \in Slaves
          /\ prl.saved.failures \in 0 .. R /\ prl.saved.repeats \in 0 .. R
          /\ prl.saved.negotiated \in BOOLEAN
      BY <1>2 DEF Kept
    <2>2. q \in Prl /\ q.key = prl.saved.key /\ q.master = prl.saved.master
          /\ q.saved = prl.saved /\ q.configured = prl.configured /\ q.handler = prl.handler
          /\ q.trans_repeat = prl.trans_repeat
      BY <1>2, <2>1 DEF Restored, Prl
    <2> HIDE DEF q
    <2>3. p = [q EXCEPT !.restore_done = TRUE, !.state = "TXRX", !.return_status = "SUCCESS"]
      BY DEF q
    <2> HIDE DEF p
    <2> QED BY <2>2, <2>3 DEF Prl, PrlStates, Statuses
  <1> HIDE DEF p
  <1>4. ~p.trans_repeat
    BY <1>1, <1>3, Parts DEF Core, Controls
  <1>5. Called(p)
    BY <1>1, <1>3 DEF Called, InTransceive, Handling
  <1>6. Core(p)
    BY <1>3, <1>4, Parts DEF Core, Controls, MasterBound, SlaveBound
  <1>7. ~Context(prl, store).stored /\ Fresh(prl.saved, hist.numbers)
    BY <1>1, Parts DEF Numbers
  <1>8. Numbers(p, store', hist.numbers)
    <2>1. Fresh(p, hist.numbers)
      BY <1>3, <1>7 DEF Fresh
    <2>2. ~Context(p, store').stored
      BY <1>1, <1>3, <1>7 DEF Context
    <2> QED BY <1>3, <2>1, <2>2 DEF Numbers
  <1>9. p.key <= dev.sessions /\ p.saved.key <= dev.sessions /\ hist' \in History
        /\ store' \in Kept /\ store'.key <= dev.sessions
    BY <1>1, <1>3, Parts DEF Keys
  <1> QED BY <1>1, <1>3, <1>5, <1>6, <1>8, <1>9, LoopStep

\* The session that is saved is the one the layer gives up.
LEMMA ManageSavedStep == ASSUME SInv, ManageSaved PROVE SInv'
  <1> DEFINE c == Saved(prl)
             p == [Cleared(prl) EXCEPT !.saved = c, !.return_status = "SUCCESS"]
  <1>1. Handling("loop") /\ prl.state = "MANAGE_CONTEXT" /\ prl.mc_state = "RX"
        /\ Again(p) /\ hist' = hist /\ store' = IF prl.configured THEN c ELSE store
    BY DEF ManageSaved, ManageRx, State, Kept_in_store
  <1>2. c \in Kept /\ c.key = prl.key /\ c.master = prl.master /\ c.key <= dev.sessions
    BY SavedFacts
  <1> HIDE DEF c
  <1>3. p \in Prl /\ p.state = "IDLE" /\ p.key = 0 /\ p.saved = c
        /\ p.configured = prl.configured /\ p.handler = prl.handler /\ p.trans_repeat = FALSE
    <2> DEFINE q == Cleared(prl)
    <2>1. 0 \in Masters /\ 0 \in Slaves /\ 0 \in 0 .. R
      BY NoContextFacts DEF NoContext, Kept
    <2>2. q \in Prl /\ q.state = "IDLE" /\ q.key = 0 /\ q.configured = prl.configured
          /\ q.handler = prl.handler /\ q.trans_repeat = FALSE
      BY <2>1, Parts DEF Cleared, Prl, PrlStates
    <2> HIDE DEF q
    <2>3. p = [q EXCEPT !.saved = c, !.return_status = "SUCCESS"]
      BY DEF q
    <2> QED BY <1>2, <2>2, <2>3 DEF Prl, Statuses
  <1> HIDE DEF p
  <1>4. Called(p)
    <2>1. event.call # "transceive"
      BY <1>1, Parts DEF Called, InTransceive, Handling
    <2> QED BY <1>1, <1>3, <2>1 DEF Called, Handling
  <1>5. Core(p)
    BY <1>3, Parts DEF Core, Controls, MasterBound, SlaveBound
  <1>6. Context(p, store') = c
    BY <1>1, <1>3 DEF Context
  <1>7. Fresh(c, hist.numbers)
    BY <1>2, Parts DEF Numbers, Fresh
  <1>8. Unused(0, hist.numbers) /\ dev.sessions \in Nat
    BY Parts, NoKeyUnused DEF Device
  <1>9. Fresh(p, hist.numbers)
    BY <1>3, <1>8 DEF Fresh, Unused
  <1>10. Numbers(p, store', hist.numbers)
    BY <1>3, <1>6, <1>7, <1>9 DEF Numbers
  <1>11. p.key <= dev.sessions /\ p.saved.key <= dev.sessions /\ hist' \in History
         /\ store' \in Kept /\ store'.key <= dev.sessions
    BY <1>1, <1>2, <1>3, <1>8, Parts DEF Keys
  <1> QED BY <1>1, <1>3, <1>4, <1>5, <1>10, <1>11, LoopStep

LEMMA ManageEndsStep ==
  ASSUME SInv, ManageRx, NEW c \in Kept, c.key <= dev.sessions, hist' = hist,
         Again(Error_state_preparation([prl EXCEPT !.saved = c])),
         \/ prl.configured /\ store' = store
         \/ c = NoContext /\ store' = IF prl.configured THEN NoContext ELSE store
  PROVE  SInv'
  <1> DEFINE q == [prl EXCEPT !.saved = c]
             p == Error_state_preparation(q)
  <1>1. q \in Prl /\ q.key = prl.key /\ q.master = prl.master /\ q.saved = c
        /\ q.configured = prl.configured /\ q.handler = prl.handler
    BY Parts DEF Prl
  <1> HIDE DEF q
  <1>2. p \in Prl /\ p.state = "ERROR" /\ p.alert = "INVALID"
        /\ p.return_status # "SUCCESS" /\ p.trans_repeat = FALSE
        /\ p.handler = prl.handler /\ p.key = prl.key /\ p.master = prl.master
        /\ p.saved = c /\ p.configured = prl.configured
    BY <1>1, ErrorPreparation
  <1>3. Again(p)
    BY DEF q
  <1> HIDE DEF p
  <1>4. Fresh(p, hist.numbers)
    BY <1>2, Parts DEF Numbers, Fresh
  <1>5. Context(p, store') = Context(prl, store) \/ ~Context(p, store').stored
    BY <1>2, NoContextFacts DEF Context
  <1>6. store' \in Kept /\ store'.key <= dev.sessions
    <2>1. store \in Kept /\ store.key <= dev.sessions /\ 0 <= dev.sessions
      BY Parts DEF Keys, Device
    <2> QED BY <2>1, NoContextFacts
  <1>7. Handling("loop")
    BY DEF ManageRx, State
  <1> QED BY <1>2, <1>3, <1>4, <1>5, <1>6, <1>7, ErrorStep

LEMMA ManageSaveFailsStep == ASSUME SInv, ManageSaveFails PROVE SInv'
  <1> DEFINE c == Saved(prl)
  <1>1. ManageRx /\ prl.configured /\ store' = store /\ hist' = hist
        /\ Again(Error_state_preparation([prl EXCEPT !.saved = c]))
    BY DEF ManageSaveFails, StoreFails
  <1>2. c \in Kept /\ c.key <= dev.sessions
    BY SavedFacts
  <1> HIDE DEF c
  <1> QED BY <1>1, <1>2, ManageEndsStep

LEMMA ManageRefusedStep == ASSUME SInv, ManageRefused PROVE SInv'
  <1> DEFINE c == NoContext
  <1>1. ManageRx /\ hist' = hist
        /\ Again(Error_state_preparation([prl EXCEPT !.saved = c]))
        /\ \/ prl.configured /\ store' = store
           \/ c = NoContext /\ store' = IF prl.configured THEN NoContext ELSE store
    BY DEF ManageRefused, StoreFails, Kept_in_store
  <1>2. c \in Kept /\ c.key <= dev.sessions
    BY NoContextFacts, Parts DEF Device
  <1> HIDE DEF c
  <1> QED BY <1>1, <1>2, ManageEndsStep

-----------------------------------------------------------------------------
(* The steps outside the loop of the handler                                *)

\* A step that leaves the session and its numbers alone.
LEMMA OuterStep ==
  ASSUME SInv,
         prl' \in Prl, prl'.key = prl.key, prl'.master = prl.master,
         prl'.saved = prl.saved, prl'.configured = prl.configured, store' = store,
         \/ prl'.state \notin {"MANAGE_CONTEXT", "HANDSHAKE"}
         \/ prl'.state = "MANAGE_CONTEXT" /\ prl'.mc_state = "TX"
         \/ prl' = prl /\ i2c'.manage = i2c.manage,
         hist' \in History, hist'.numbers = hist.numbers, hist'.reused = hist.reused,
         comms' \in {"FREE", "INUSE"}, i2c' \in I2C, event' \in Events,
         tl' \in {"idle", "init", "exchange"}, tx' \in Records,
         dev' \in Device, dev'.last.type \in {"none", "data"},
         dev.sessions <= dev'.sessions,
         NumberOK(answer'),
         answer'.type = "hello" =>
           answer'.key <= dev'.sessions /\ Unused(answer'.key, hist.numbers),
         Usable', Called(prl)', Core(prl)'
  PROVE  SInv'
  <1>1. Types_ok'
    BY Parts DEF Types_ok
  <1>2. NumberOK(answer)' /\ (answer.type = "hello" => Unused(answer.key, hist.numbers))'
    BY DEF NumberOK, Unused
  <1>3. Keys'
    <2>1. dev.sessions \in Nat /\ dev'.sessions \in Nat
      BY Parts DEF Device
    <2>2. prl.key \in Nat /\ prl.saved.key \in Nat /\ store.key \in Nat
      BY Parts DEF Prl, Kept
    <2>3. prl.key <= dev.sessions /\ prl.saved.key <= dev.sessions
          /\ store.key <= dev.sessions
          /\ \A u \in hist.numbers : u[1] \in 1 .. dev.sessions
      BY Parts DEF Keys
    <2>4. prl.key <= dev'.sessions /\ prl.saved.key <= dev'.sessions
          /\ store.key <= dev'.sessions
      BY <2>1, <2>2, <2>3
    <2>5. ASSUME NEW u \in hist.numbers PROVE u[1] \in 1 .. dev'.sessions
      BY <2>1, <2>3
    <2> QED BY <2>4, <2>5 DEF Keys
  <1>4. Numbers(prl, store, hist.numbers)'
    <2>1. Context(prl', store') = Context(prl, store)
      BY DEF Context
    <2>2. Numbers(prl, store, hist.numbers)
      BY Parts
    <2>3. Fresh(prl', hist.numbers)
      BY <2>2 DEF Numbers, Fresh
    <2>4. Context(prl, store).stored =>
            /\ Fresh(Context(prl, store), hist.numbers)
            /\ Context(prl, store).key = 0 \/ Context(prl, store).key # prl.key
      BY <2>2 DEF Numbers
    <2>5. /\ prl'.state = "MANAGE_CONTEXT" /\ prl'.mc_state = "RX" /\ i2c'.manage = "RESTORE" =>
               ~Context(prl, store).stored /\ Fresh(prl.saved, hist.numbers)
          /\ prl'.state = "HANDSHAKE" /\ prl'.hs_state = "VERIFY_FINISHED" =>
               Unused(prl.key, hist.numbers)
      BY <2>2 DEF Numbers
    <2> QED BY <2>1, <2>3, <2>4, <2>5 DEF Numbers
  <1>5. NumbersUsedOnce'
    BY Parts DEF NumbersUsedOnce
  <1> QED BY <1>1, <1>2, <1>3, <1>4, <1>5 DEF SInv

LEMMA DeviceResetFacts ==
  ASSUME NEW d \in Device
  PROVE  /\ DeviceReset(d) \in Device /\ DeviceReset(d).sessions = d.sessions
         /\ DeviceReset(d).last = d.last
         /\ DeviceOff(d) \in Device /\ DeviceOff(d).sessions = d.sessions
         /\ DeviceOff(d).last = d.last
  <1> DEFINE e == DeviceReset(d)
  <1>1. e \in Device /\ e.sessions = d.sessions /\ e.last = d.last
    BY DEF DeviceReset, Device
  <1>2. DeviceOff(d) = [e EXCEPT !.on = FALSE]
    BY DEF DeviceOff
  <1> HIDE DEF e
  <1>3. DeviceOff(d) \in Device /\ DeviceOff(d).sessions = d.sessions
        /\ DeviceOff(d).last = d.last
    BY <1>1, <1>2 DEF Device
  <1> QED BY <1>1, <1>3 DEF e

\* The device's next answer stays what it was when only its mode changes.
LEMMA CalmOuterStep ==
  ASSUME SInv,
         prl' \in Prl, prl'.key = prl.key, prl'.master = prl.master,
         prl'.saved = prl.saved, prl'.configured = prl.configured, store' = store,
         \/ prl'.state \notin {"MANAGE_CONTEXT", "HANDSHAKE"}
         \/ prl'.state = "MANAGE_CONTEXT" /\ prl'.mc_state = "TX"
         \/ prl' = prl /\ i2c'.manage = i2c.manage,
         hist' \in History, hist'.numbers = hist.numbers, hist'.reused = hist.reused,
         comms' \in {"FREE", "INUSE"}, i2c' \in I2C,
         event' \in Events, answer' = answer \/ answer' = NoRecord,
         tl' \in {"idle", "init"}, tx' = tx,
         dev' \in Device, dev'.sessions = dev.sessions, dev'.last = dev.last,
         Usable', Called(prl)', Core(prl)'
  PROVE  SInv'
  <1>1. tl' \in {"idle", "init", "exchange"} /\ tx' \in Records
        /\ dev'.last.type \in {"none", "data"}
    BY Parts
  <1>2. dev.sessions <= dev'.sessions
    BY Parts DEF Device
  <1>3. NumberOK(answer') /\ (answer'.type = "hello" =>
           answer'.key <= dev'.sessions /\ Unused(answer'.key, hist.numbers))
    <2>1. CASE answer' = answer
      BY <2>1, Parts DEF Keys
    <2>2. CASE answer' = NoRecord
      BY <2>2, RecordFacts DEF NumberOK
    <2> QED BY <2>1, <2>2
  <1> QED BY <1>1, <1>2, <1>3, OuterStep

LEMMA EnterErrorStep == ASSUME SInv, EnterError PROVE SInv'
  <1> DEFINE closes == /\ prl.state # "HANDSHAKE" /\ prl.negotiated
                       /\ event.status # "MEM_ERROR"
             s == IF prl.state = "HANDSHAKE" THEN "HANDSHAKE_ERROR"
                  ELSE IF closes THEN "SESSION_ERROR" ELSE event.status
  <1>1. Handling("error") /\ event' = [event EXCEPT !.phase = "loop"]
        /\ comms' = comms /\ i2c' = i2c /\ store' = store /\ tl' = tl /\ tx' = tx
        /\ dev' = dev /\ hist' = hist
    BY DEF EnterError, lower
  <1>2. prl' = [prl EXCEPT !.alert = "INVALID", !.state = "ERROR",
                           !.return_status = s, !.negotiated = @ /\ ~closes]
    BY DEF EnterError
  <1>3. s \in Statuses
    BY Parts DEF Events, Statuses
  <1> HIDE DEF s
  <1>4. (prl.negotiated /\ ~closes) \in BOOLEAN
    OBVIOUS
  <1> HIDE DEF closes
  <1>5. prl' \in Prl /\ prl'.state = "ERROR" /\ prl'.alert = "INVALID"
        /\ prl'.key = prl.key /\ prl'.master = prl.master /\ prl'.saved = prl.saved
        /\ prl'.configured = prl.configured /\ prl'.handler = prl.handler
        /\ prl'.trans_repeat = prl.trans_repeat
    BY <1>2, <1>3, <1>4, Parts DEF Prl, PrlStates
  <1>6. event' \in Events /\ answer' = answer /\ event'.phase = "loop"
        /\ event'.call = event.call /\ event.phase = "error"
    BY <1>1, Parts DEF Events, answer, Handling
  <1>7. Usable /\ comms = "INUSE" /\ tl = "idle" /\ i2c.reset_state = "none"
    BY <1>6, Parts DEF Usable, Handling
  <1>8. Usable'
    BY <1>1, <1>6, <1>7 DEF Usable, Handling
  <1>9. Called(prl)'
    <2>1. event.call # "transceive"
      BY <1>6, Parts DEF Called, InTransceive, Handling
    <2> QED BY <1>5, <1>6, <2>1 DEF Called, Handling
  <1>10. Core(prl)'
    BY <1>1, <1>5, Parts DEF Core, Controls, MasterBound, SlaveBound
  <1> QED BY <1>1, <1>5, <1>6, <1>7, <1>8, <1>9, <1>10, Parts, CalmOuterStep

LEMMA ToldFacts ==
  ASSUME NEW h \in History, NEW status
  PROVE  /\ Told(h, status) \in History /\ Told(h, status).numbers = h.numbers
         /\ Told(h, status).reused = h.reused
  <1> DEFINE o == IF status = "SUCCESS" THEN "ok" ELSE "failed"
  <1>1. o \in {"failed", "ok"}
    OBVIOUS
  <1>2. Told(h, status) = h \/ Told(h, status) = [h EXCEPT !.outcome = o]
    BY DEF Told
  <1> HIDE DEF o
  <1> QED BY <1>1, <1>2 DEF History

\* The stack has been freed before the handler of the upper layer is called to
\* close it.
LEMMA IdleStep == ASSUME SInv, Idle PROVE SInv'
  <1>1. event.phase = "loop" /\ prl.state = "IDLE" /\ prl' = prl /\ comms' = comms
        /\ store' = store /\ tl' = tl /\ tx' = tx
        /\ event' = [event EXCEPT !.phase = "report", !.status = prl.return_status,
                                  !.answer = NoRecord]
        /\ hist' = Told(hist, prl.return_status)
    BY DEF Idle, State, Handling
  <1>2. /\ prl.handler = "close" => i2c' = [i2c EXCEPT !.status = "NOT_BUSY"]
                                     /\ dev' = DeviceOff(dev)
        /\ prl.handler # "close" => i2c' = i2c /\ dev' = dev
    BY DEF Idle, PowerOff
  <1>3. i2c' \in I2C /\ i2c'.state = i2c.state /\ i2c'.level = i2c.level
        /\ i2c'.re_establish = i2c.re_establish /\ i2c'.manage = i2c.manage
        /\ i2c'.reset_state = i2c.reset_state
        /\ (prl.handler = "close" => i2c'.status = "NOT_BUSY")
    BY <1>2, Parts DEF I2C
  <1>4. dev' \in Device /\ dev'.sessions = dev.sessions /\ dev'.last = dev.last
    BY <1>2, Parts, DeviceResetFacts
  <1>5. event' \in Events /\ answer' = NoRecord /\ event'.phase = "report"
        /\ event'.call = event.call /\ event'.status = prl.return_status
    BY <1>1, Parts, RecordFacts DEF Events, answer, Prl
  <1>6. comms = "INUSE" /\ tl = "idle" /\ i2c.reset_state = "none"
    BY <1>1, Parts DEF Usable, Handling
  <1>7. Usable'
    BY <1>1, <1>3, <1>5, <1>6 DEF Usable, Handling
  <1>8. Called(prl)'
    <2>1. event.call = "transceive" => prl.return_status # "SUCCESS"
      BY <1>1, Parts DEF Called, InTransceive, Handling
    <2> QED BY <1>1, <1>3, <1>5, <2>1 DEF Called, InTransceive, Handling
  <1>9. Core(prl)'
    BY <1>1, <1>3, Parts DEF Core, Controls, MasterBound, SlaveBound
  <1>10. hist' \in History /\ hist'.numbers = hist.numbers /\ hist'.reused = hist.reused
    BY <1>1, Parts, ToldFacts
  <1> QED BY <1>1, <1>3, <1>4, <1>5, <1>6, <1>7, <1>8, <1>9, <1>10, Parts, CalmOuterStep

\* A call that returns after an error does not mark the stack busy.
LEMMA HandlerReturnsStep == ASSUME SInv, HandlerReturns PROVE SInv'
  <1> DEFINE st == IF i2c.state = "UNINIT" /\ event.status = "SUCCESS" THEN "IDLE"
                   ELSE i2c.state
             c == [i2c EXCEPT !.close_state = event.status, !.status = "NOT_BUSY", !.state = st]
  <1>1. event.phase = "report" /\ comms' = "FREE" /\ event' = NoEvent /\ prl' = prl
        /\ store' = store /\ tl' = tl /\ tx' = tx /\ dev' = dev /\ hist' = hist
    BY DEF HandlerReturns, Handling, lower
  <1>2. /\ prl.handler = "close" => i2c' = i2c
        /\ prl.handler # "close" => i2c' = Busy_after_call(c)
    BY DEF HandlerReturns
  <1>3. prl.state = "IDLE" /\ (prl.handler = "close" => i2c.status = "NOT_BUSY")
        /\ (event.call = "transceive" => event.status # "SUCCESS")
    BY <1>1, Parts DEF Called, InTransceive, Handling
  <1>4. st \in {"UNINIT", "IDLE"}
    BY Parts DEF I2C
  <1> HIDE DEF st
  <1>5. c \in I2C /\ c.level = i2c.level /\ c.re_establish = i2c.re_establish
        /\ c.manage = i2c.manage /\ c.reset_state = i2c.reset_state
        /\ c.status = "NOT_BUSY" /\ c.close_state = event.status
    BY <1>4, Parts DEF I2C, Events
  <1> HIDE DEF c
  <1>6. i2c' \in I2C /\ i2c'.level = i2c.level /\ i2c'.re_establish = i2c.re_establish
        /\ i2c'.manage = i2c.manage /\ i2c'.reset_state = i2c.reset_state
        /\ i2c'.status = "NOT_BUSY" /\ (prl.handler = "close" => i2c'.state = i2c.state)
    <2>1. CASE prl.handler = "close"
      BY <1>2, <1>3, <2>1, Parts
    <2>2. CASE prl.handler # "close"
      <3>1. Busy_after_call(c) = c
        BY <1>3, <1>5 DEF Busy_after_call
      <3> QED BY <1>2, <1>5, <2>2, <3>1
    <2> QED BY <2>1, <2>2
  <1>7. tl = "idle" /\ i2c.reset_state = "none"
    BY <1>1, Parts DEF Usable, Handling
  <1>8. Usable'
    BY <1>1, <1>3, <1>6, <1>7, NoEventFacts DEF Usable, Handling
  <1>9. Called(prl)'
    BY <1>1, <1>3, NoEventFacts DEF Called, Handling
  <1>10. Core(prl)'
    BY <1>1, <1>3, <1>6, Parts DEF Core, Controls, MasterBound, SlaveBound
  <1>11. answer' = NoRecord
    BY <1>1, NoEventFacts DEF answer
  <1> QED BY <1>1, <1>3, <1>6, <1>7, <1>8, <1>9, <1>10, <1>11, NoEventFacts, Parts, CalmOuterStep

-----------------------------------------------------------------------------
(* The calls of the upper layer                                             *)

\* When a call is let through nothing below is engaged.
LEMMA CallFacts ==
  ASSUME SInv, NotInUse
  PROVE  /\ comms = "FREE" /\ event.phase = "none" /\ tl = "idle" /\ i2c.reset_state = "none"
         /\ prl.state \in {"IDLE", "UNINIT"} /\ i2c.status = "NOT_BUSY"
         /\ (i2c.state = "IDLE" => prl.state = "IDLE" /\ prl.handler # "close")
         /\ event.call # "transceive"
  <1>1. comms = "FREE" /\ event.phase = "none" /\ tl = "idle" /\ i2c.reset_state = "none"
        /\ prl.state \in {"IDLE", "UNINIT"} /\ i2c.status = "NOT_BUSY"
        /\ (i2c.state = "IDLE" => prl.state = "IDLE")
    BY Parts DEF NotInUse, Usable, Handling
  <1>2. i2c.state = "IDLE" => prl.handler # "close"
    BY Parts DEF Core, Controls
  <1>3. event.call # "transceive"
    BY <1>1, Parts DEF Called, InTransceive, Handling
  <1> QED BY <1>1, <1>2, <1>3

LEMMA CommsOpenStep ==
  ASSUME SInv, NEW manage \in {"NONE", "RESTORE"}, CommsOpen(manage)
  PROVE  SInv'
  <1>1. NotInUse /\ comms' = "INUSE" /\ dev' = DeviceOff(dev) /\ prl' = prl /\ store' = store
        /\ event' = event /\ tl' = tl /\ tx' = tx /\ hist' = hist
        /\ i2c' = [i2c EXCEPT !.manage = manage, !.state = "UNINIT", !.status = "BUSY",
                              !.reset_state = "PIN_HIGH"]
    BY DEF CommsOpen, Call
  <1>2. i2c' \in I2C /\ i2c'.level = i2c.level /\ i2c'.re_establish = i2c.re_establish
        /\ i2c'.state = "UNINIT" /\ i2c'.reset_state = "PIN_HIGH"
    BY <1>1, Parts DEF I2C
  <1>3. dev' \in Device /\ dev'.sessions = dev.sessions /\ dev'.last = dev.last
    BY <1>1, Parts, DeviceResetFacts
  <1>4. Usable' /\ answer' = answer
    BY <1>1, <1>2, CallFacts DEF Usable, Handling, answer
  <1>5. Called(prl)'
    BY <1>1, CallFacts DEF Called, Handling
  <1>6. Core(prl)'
    BY <1>1, <1>2, CallFacts, Parts DEF Core, Controls, MasterBound, SlaveBound
  <1> QED BY <1>1, <1>2, <1>3, <1>4, <1>5, <1>6, CallFacts, Parts, CalmOuterStep

LEMMA InitFacts ==
  ASSUME SInv, NEW manage \in {"NONE", "SAVE", "RESTORE"}
  PROVE  LET p == Prl_init(prl, manage)
         IN /\ p \in Prl /\ p.state = "IDLE" /\ p.handler = "tl"
            /\ p.key = prl.key /\ p.master = prl.master /\ p.saved = prl.saved
            /\ p.configured = prl.configured /\ p.trans_repeat = prl.trans_repeat
  <1> DEFINE b == manage # "RESTORE"
  <1>1. b \in BOOLEAN
    OBVIOUS
  <1> DEFINE q == [prl EXCEPT !.handler = "tl", !.restore_done = b, !.state = "IDLE",
                              !.negotiated = FALSE]
             p == [q EXCEPT !.return_status = "SUCCESS", !.hs_state = "SEND_HELLO",
                            !.alert = "DEFAULT"]
  <1>2. Prl_init(prl, manage) = p
    BY DEF Prl_init
  <1> HIDE DEF b
  <1>3. q \in Prl /\ q.state = "IDLE" /\ q.handler = "tl"
        /\ q.key = prl.key /\ q.master = prl.master /\ q.saved = prl.saved
        /\ q.configured = prl.configured /\ q.trans_repeat = prl.trans_repeat
    <2>1. prl \in Prl
      BY Parts
    <2> QED BY <1>1, <2>1 DEF Prl, PrlStates
  <1> HIDE DEF q
  <1>4. p \in Prl /\ p.state = "IDLE" /\ p.handler = "tl"
        /\ p.key = prl.key /\ p.master = prl.master /\ p.saved = prl.saved
        /\ p.configured = prl.configured /\ p.trans_repeat = prl.trans_repeat
    BY <1>3 DEF Prl, Statuses
  <1> HIDE DEF p
  <1> QED BY <1>2, <1>4

\* The layer is initialised: a repetition is never asked for of a session that
\* is made new.
LEMMA InitControls ==
  ASSUME SInv, ~(prl.trans_repeat /\ i2c.re_establish),
         prl' = Prl_init(prl, i2c.manage), i2c'.re_establish = i2c.re_establish,
         i2c'.state = i2c.state
  PROVE  Core(prl)'
  <1>1. i2c.manage \in {"NONE", "SAVE", "RESTORE"}
    BY Parts DEF I2C
  <1> QED BY <1>1, InitFacts DEF Core, Controls, MasterBound, SlaveBound

LEMMA CommsResetStep ==
  ASSUME SInv, NEW type \in {"COLD", "WARM", "SOFT"}, CommsReset(type)
  PROVE  SInv'
  <1>1. NotInUse /\ comms' = "INUSE" /\ store' = store
        /\ event' = event /\ tx' = tx /\ hist' = hist /\ i2c.state = "IDLE"
    BY DEF CommsReset, Call
  <1>2. answer' = answer
    BY <1>1 DEF answer
  <1>3. CASE type = "SOFT"
    <2>1. prl' = Prl_init(prl, i2c.manage) /\ tl' = "init"
          /\ i2c' = [i2c EXCEPT !.status = "BUSY"] /\ dev' = DeviceReset(dev)
      BY <1>3 DEF CommsReset
    <2>2. i2c' \in I2C /\ i2c'.level = i2c.level /\ i2c'.re_establish = i2c.re_establish
          /\ i2c'.state = i2c.state /\ i2c'.reset_state = i2c.reset_state
      BY <2>1, Parts DEF I2C
    <2>3. dev' \in Device /\ dev'.sessions = dev.sessions /\ dev'.last = dev.last
      BY <2>1, Parts, DeviceResetFacts
    <2>4. prl' \in Prl /\ prl'.key = prl.key /\ prl'.master = prl.master
          /\ prl'.saved = prl.saved /\ prl'.configured = prl.configured
          /\ prl'.state = "IDLE" /\ prl'.handler = "tl"
      <3>1. i2c.manage \in {"NONE", "SAVE", "RESTORE"}
        BY Parts DEF I2C
      <3> QED BY <2>1, <3>1, InitFacts
    <2>5. Usable'
      BY <1>1, <2>1, <2>2, CallFacts DEF Usable, Handling
    <2>6. Called(prl)'
      BY <1>1, <2>4, CallFacts DEF Called, Handling
    <2>7. Core(prl)'
      <3>1. ~(prl.trans_repeat /\ i2c.re_establish)
        BY Parts DEF Core, Controls
      <3> QED BY <2>1, <2>2, <3>1, InitControls
    <2> QED BY <1>1, <1>2, <2>1, <2>2, <2>3, <2>4, <2>5, <2>6, <2>7, Parts, CalmOuterStep
  <1>4. CASE type # "SOFT"
    <2>1. prl' = prl /\ tl' = tl
          /\ i2c' = [i2c EXCEPT !.status = "BUSY", !.reset_state = "PIN_HIGH"]
          /\ (dev' = DeviceOff(dev) \/ dev' = DeviceReset(dev))
      BY <1>4 DEF CommsReset
    <2>2. i2c' \in I2C /\ i2c'.level = i2c.level /\ i2c'.re_establish = i2c.re_establish
          /\ i2c'.state = i2c.state /\ i2c'.reset_state = "PIN_HIGH"
      BY <2>1, Parts DEF I2C
    <2>3. dev' \in Device /\ dev'.sessions = dev.sessions /\ dev'.last = dev.last
      BY <2>1, Parts, DeviceResetFacts
    <2>4. Usable'
      BY <1>1, <2>1, <2>2, CallFacts DEF Usable, Handling
    <2>5. Called(prl)'
      BY <1>1, <2>1, CallFacts DEF Called, Handling
    <2>6. Core(prl)'
      BY <1>1, <2>1, <2>2, CallFacts, Parts DEF Core, Controls, MasterBound, SlaveBound
    <2> QED BY <1>1, <1>2, <2>1, <2>2, <2>3, <2>4, <2>5, <2>6, CallFacts, Parts, CalmOuterStep
  <1> QED BY <1>3, <1>4

LEMMA InitTimerStep == ASSUME SInv, InitTimer PROVE SInv'
  <1>1. event.phase = "none" /\ i2c.reset_state # "none" /\ comms' = comms /\ store' = store
        /\ event' = event /\ tx' = tx /\ hist' = hist
    BY DEF InitTimer, Handling
  <1>2. comms = "INUSE" /\ tl = "idle" /\ answer' = answer
    BY <1>1, Parts DEF Usable, Handling, answer
  <1>3. event.call # "transceive" /\ prl.state # "ALERT"
    BY <1>1, Parts DEF Called, InTransceive, Handling
  <1>4. CASE i2c.reset_state = "PIN_HIGH"
    <2>1. prl' = prl /\ tl' = tl /\ i2c' = [i2c EXCEPT !.reset_state = "INIT"]
          /\ dev' = [dev EXCEPT !.on = TRUE]
      BY <1>4 DEF InitTimer
    <2>2. i2c' \in I2C /\ i2c'.level = i2c.level /\ i2c'.re_establish = i2c.re_establish
          /\ i2c'.state = i2c.state /\ i2c'.reset_state = "INIT" /\ i2c'.manage = i2c.manage
      BY <2>1, Parts DEF I2C
    <2>3. dev' \in Device /\ dev'.sessions = dev.sessions /\ dev'.last = dev.last
      BY <2>1, Parts DEF Device
    <2>4. Usable'
      BY <1>1, <1>2, <2>1, <2>2 DEF Usable, Handling
    <2>5. Called(prl)'
      BY <1>1, <1>3, <2>1 DEF Called, Handling
    <2>6. Core(prl)'
      BY <2>1, <2>2, Parts DEF Core, Controls, MasterBound, SlaveBound
    <2> QED BY <1>1, <1>2, <2>1, <2>2, <2>3, <2>4, <2>5, <2>6, Parts, CalmOuterStep
  <1>5. CASE i2c.reset_state # "PIN_HIGH"
    <2>1. prl' = Prl_init(prl, i2c.manage) /\ tl' = "init"
          /\ i2c' = [i2c EXCEPT !.reset_state = "none"] /\ dev' = dev
      BY <1>5 DEF InitTimer
    <2>2. i2c' \in I2C /\ i2c'.level = i2c.level /\ i2c'.re_establish = i2c.re_establish
          /\ i2c'.state = i2c.state /\ i2c'.reset_state = "none"
      BY <2>1, Parts DEF I2C
    <2>3. prl' \in Prl /\ prl'.key = prl.key /\ prl'.master = prl.master
          /\ prl'.saved = prl.saved /\ prl'.configured = prl.configured
          /\ prl'.state = "IDLE" /\ prl'.handler = "tl"
      <3>1. i2c.manage \in {"NONE", "SAVE", "RESTORE"}
        BY Parts DEF I2C
      <3> QED BY <2>1, <3>1, InitFacts
    <2>4. Usable'
      BY <1>1, <1>2, <2>1, <2>2 DEF Usable, Handling
    <2>5. Called(prl)'
      BY <1>1, <1>3, <2>3 DEF Called, Handling
    <2>6. Core(prl)'
      <3>1. ~(prl.trans_repeat /\ i2c.re_establish)
        BY Parts DEF Core, Controls
      <3> QED BY <2>1, <2>2, <3>1, InitControls
    <2> QED BY <1>1, <1>2, <2>1, <2>2, <2>3, <2>4, <2>5, <2>6, Parts, CalmOuterStep
  <1> QED BY <1>4, <1>5

LEMMA CommsTransceiveStep ==
  ASSUME SInv, NEW level \in Levels, NEW re_establish \in BOOLEAN,
         NEW manage \in {i2c.manage, "NONE"}, CommsTransceive(level, re_establish, manage)
  PROVE  SInv'
  <1> DEFINE q == [prl EXCEPT !.sealed = FALSE, !.data_retransmit_counter = 0,
                     !.trans_repeat = FALSE, !.decryption_failure_counter = 0,
                     !.return_status = "SUCCESS", !.alert = "DEFAULT"]
  <1>1. NotInUse /\ comms' = "INUSE" /\ i2c.state = "IDLE" /\ store' = store
        /\ tl' = tl /\ tx' = tx /\ dev' = dev
        /\ i2c' = [i2c EXCEPT !.level = level, !.re_establish = re_establish,
                              !.manage = manage]
        /\ event' = [NoEvent EXCEPT !.phase = "loop", !.call = "transceive"]
    BY DEF CommsTransceive, Call, lower
  <1>2. prl' = [q EXCEPT !.state = "MANAGE_CONTEXT", !.mc_state = "TX"]
        \/ prl' = [q EXCEPT !.state = "START"]
    BY DEF CommsTransceive
  <1>3. hist' = [hist EXCEPT !.current = @ + 1, !.outcome = "pending", !.accepted = 0,
                             !.fresh = FALSE, !.odd = FALSE]
    BY DEF CommsTransceive
  <1>4. 0 \in 0 .. R
    BY ConstantFacts
  <1>5. q \in Prl /\ q.key = prl.key /\ q.master = prl.master /\ q.saved = prl.saved
        /\ q.configured = prl.configured /\ q.handler = prl.handler
        /\ q.trans_repeat = FALSE
    BY <1>4, Parts DEF Prl, Statuses
  <1> HIDE DEF q
  <1>6. prl' \in Prl /\ prl'.key = prl.key /\ prl'.master = prl.master
        /\ prl'.saved = prl.saved /\ prl'.configured = prl.configured
        /\ prl'.handler = prl.handler /\ prl'.trans_repeat = FALSE
        /\ (prl'.state = "START" \/ (prl'.state = "MANAGE_CONTEXT" /\ prl'.mc_state = "TX"))
    BY <1>2, <1>5 DEF Prl, PrlStates
  <1>7. i2c' \in I2C /\ i2c'.state = i2c.state /\ i2c'.reset_state = i2c.reset_state
    BY <1>1, Parts DEF I2C
  <1>8. event' \in Events /\ answer' = NoRecord /\ event'.phase = "loop"
    BY <1>1, NoEventFacts DEF Events, answer
  <1>9. hist' \in History /\ hist'.numbers = hist.numbers /\ hist'.reused = hist.reused
    <2>1. hist.current + 1 \in Nat /\ 0 \in Nat
      BY Parts DEF History
    <2> DEFINE n == hist.current + 1
    <2>3. hist' = [hist EXCEPT !.current = n, !.outcome = "pending", !.accepted = 0,
                               !.fresh = FALSE, !.odd = FALSE]
      BY <1>3
    <2>4. n \in Nat
      BY <2>1
    <2> HIDE DEF n
    <2> QED BY <2>3, <2>4, Parts DEF History
  <1>10. Usable'
    BY <1>1, <1>7, <1>8, CallFacts DEF Usable, Handling
  <1>11. Called(prl)'
    BY <1>6, <1>8 DEF Called, InTransceive, Handling
  <1>12. prl'.handler # "close"
    BY <1>1, <1>6, CallFacts
  <1>13. Core(prl)'
    BY <1>6, <1>12 DEF Core, Controls, MasterBound, SlaveBound
  <1>14. dev' \in Device /\ dev'.sessions = dev.sessions /\ dev'.last = dev.last
         /\ tl' = "idle" /\ tx' = tx
    BY <1>1, Parts, CallFacts
  <1> QED BY <1>1, <1>6, <1>7, <1>8, <1>9, <1>10, <1>11, <1>13, <1>14, CalmOuterStep

LEMMA CommsCloseStep ==
  ASSUME SInv, NEW manage \in {"NONE", "SAVE"}, CommsClose(manage)
  PROVE  SInv'
  <1> DEFINE c == [i2c EXCEPT !.manage = manage, !.close_state = "STACK_ERROR",
                              !.state = "UNINIT"]
             closes == prl.state = "IDLE" /\ manage = "NONE"
             saves  == prl.state = "IDLE" /\ manage = "SAVE" /\ prl.negotiated
  <1>1. NotInUse /\ store' = store /\ tl' = tl /\ tx' = tx /\ hist' = hist
    BY DEF CommsClose, Call
  <1>2. c \in I2C /\ c.level = i2c.level /\ c.re_establish = i2c.re_establish
        /\ c.state = "UNINIT" /\ c.reset_state = i2c.reset_state /\ c.manage = manage
    BY Parts DEF I2C, Statuses
  <1>3. \/ /\ closes /\ prl' = [prl EXCEPT !.handler = "close"]
           /\ i2c' = PowerOff(c) /\ dev' = DeviceOff(dev)
           /\ event' = [NoEvent EXCEPT !.phase = "report"] /\ comms' = "INUSE"
        \/ /\ saves
           /\ prl' = [prl EXCEPT !.handler = "close", !.state = "MANAGE_CONTEXT",
                                 !.mc_state = "TX"]
           /\ i2c' = c /\ event' = [NoEvent EXCEPT !.phase = "loop"]
           /\ comms' = "INUSE" /\ dev' = dev
        \/ /\ prl' = IF prl.state = "IDLE" THEN [prl EXCEPT !.handler = "close"] ELSE prl
           /\ i2c' = PowerOff(c) /\ dev' = DeviceOff(dev)
           /\ comms' = "FREE" /\ event' = event
    BY DEF CommsClose
  <1> HIDE DEF c, closes, saves
  <1>4. PowerOff(c) \in I2C /\ PowerOff(c).level = i2c.level
        /\ PowerOff(c).re_establish = i2c.re_establish /\ PowerOff(c).state = "UNINIT"
        /\ PowerOff(c).reset_state = i2c.reset_state /\ PowerOff(c).status = "NOT_BUSY"
    BY <1>2 DEF PowerOff, I2C
  <1>5. i2c' \in I2C /\ i2c'.level = i2c.level /\ i2c'.re_establish = i2c.re_establish
        /\ i2c'.state = "UNINIT" /\ i2c'.reset_state = "none"
    <2>1. i2c' = c \/ i2c' = PowerOff(c)
      BY <1>3
    <2>2. i2c.reset_state = "none"
      BY <1>1, CallFacts
    <2> QED BY <1>2, <1>4, <2>1, <2>2
  <1>6. dev' \in Device /\ dev'.sessions = dev.sessions /\ dev'.last = dev.last
        /\ comms' \in {"FREE", "INUSE"} /\ tl' = "idle" /\ tx' = tx
    BY <1>1, <1>3, Parts, CallFacts, DeviceResetFacts
  <1>7. prl' \in Prl /\ prl'.key = prl.key /\ prl'.master = prl.master
        /\ prl'.saved = prl.saved /\ prl'.configured = prl.configured
        /\ prl'.trans_repeat = prl.trans_repeat
        /\ prl'.state \in {"IDLE", "UNINIT", "MANAGE_CONTEXT"}
        /\ (prl'.state = "MANAGE_CONTEXT" => prl'.mc_state = "TX" /\ i2c'.manage # "RESTORE")
    <2>1. prl \in Prl /\ prl.state \in {"IDLE", "UNINIT"} /\ manage # "RESTORE"
      BY <1>1, Parts, CallFacts
    <2>2. CASE prl' = [prl EXCEPT !.handler = "close"] \/ prl' = prl
      BY <2>1, <2>2 DEF Prl
    <2>3. CASE /\ prl' = [prl EXCEPT !.handler = "close", !.state = "MANAGE_CONTEXT",
                                     !.mc_state = "TX"]
               /\ i2c' = c
      <3>1. i2c'.manage # "RESTORE"
        BY <1>2, <2>1, <2>3
      <3> QED BY <2>1, <2>3, <3>1 DEF Prl, PrlStates
    <2> QED BY <1>3, <2>2, <2>3
  <1>8. event' \in Events /\ (answer' = answer \/ answer' = NoRecord)
        /\ event'.call # "transceive"
    BY <1>1, <1>3, Parts, CallFacts, NoEventFacts DEF Events, answer
  <1>9. Usable' /\ Called(prl)'
    <2>1. CASE closes /\ prl' = [prl EXCEPT !.handler = "close"] /\ i2c' = PowerOff(c)
               /\ event' = [NoEvent EXCEPT !.phase = "report"] /\ comms' = "INUSE"
      <3>1. event'.phase = "report" /\ prl'.state = "IDLE" /\ i2c'.status = "NOT_BUSY"
        BY <1>4, <2>1, Parts, NoEventFacts DEF closes, Prl, Events
      <3> QED BY <1>5, <1>6, <1>8, <2>1, <3>1 DEF Usable, Called, Handling
    <2>2. CASE saves /\ event' = [NoEvent EXCEPT !.phase = "loop"] /\ comms' = "INUSE"
      <3>1. event'.phase = "loop"
        BY <2>2, NoEventFacts DEF Events
      <3> QED BY <1>5, <1>6, <1>7, <1>8, <2>2, <3>1 DEF Usable, Called, Handling
    <2>3. CASE /\ prl' = IF prl.state = "IDLE" THEN [prl EXCEPT !.handler = "close"] ELSE prl
               /\ i2c' = PowerOff(c) /\ comms' = "FREE" /\ event' = event
      <3>1. prl'.state = prl.state /\ event'.phase = "none"
            /\ prl.state \in {"IDLE", "UNINIT"} /\ i2c'.status = "NOT_BUSY"
        BY <1>1, <1>4, <2>3, Parts, CallFacts DEF Prl
      <3> QED BY <1>5, <1>6, <1>8, <2>3, <3>1 DEF Usable, Called, Handling
    <2> QED BY <1>3, <2>1, <2>2, <2>3
  <1>10. Core(prl)'
    BY <1>5, <1>7, Parts DEF Core, Controls, MasterBound, SlaveBound
  <1> QED BY <1>1, <1>5, <1>6, <1>7, <1>8, <1>9, <1>10, Parts, CalmOuterStep

-----------------------------------------------------------------------------
(* The device and the transport layer                                       *)

Choices == FirstNumbers \cup {0}

LEMMA ChoiceFacts ==
  /\ \A n \in Choices : n \in Sequence /\ n \in Nat /\ n < T
  /\ \A m : FirstNumber(m) \subseteq Choices
  <1>1. T \in Nat \ {0} /\ T < SeqSize /\ SeqSize \in Nat /\ FirstNumbers \subseteq 0 .. T - 1
    BY ConstantFacts, NumberAssumption DEF T
  <1>2. ASSUME NEW n \in Choices PROVE n \in Sequence /\ n \in Nat /\ n < T
    BY <1>1 DEF Choices, Sequence
  <1> QED BY <1>2 DEF FirstNumber, Choices

\* What the device says of itself, and what it answers: a key it names is new,
\* and a number it chooses is below the threshold.
Says(d, e, a) ==
  /\ e \in Device /\ e.last.type \in {"none", "data"} /\ d.sessions <= e.sessions
  /\ a \in Records
  /\ a.type \in {"hello", "finished"} => a.seq < T
  /\ a.type = "hello" => d.sessions < a.key /\ a.key <= e.sessions

\* The device changes in what no key depends on, and answers with something
\* else than in a handshake.
LEMMA PlainSays ==
  ASSUME NEW d \in Device, NEW e \in Device, NEW a \in Records, e.sessions = d.sessions,
         e.last.type \in {"none", "data"}, a.type \notin {"hello", "finished"}
  PROVE  Says(d, e, a)
  <1>1. d.sessions <= e.sessions
    BY DEF Device
  <1> QED BY <1>1 DEF Says

LEMMA ResponseFacts ==
  ASSUME NEW d \in Device, NEW level \in Levels
  PROVE  LET r == Response(d, level)
         IN /\ r.dev \in Device /\ r.dev.sessions = d.sessions /\ r.dev.last.type = "data"
            /\ r.answer \in Records /\ r.answer.type = "data"
  <1> DEFINE seq == IF ProtectsSlave(level) THEN Next_number(d.slave) ELSE d.slave
             k == IF ProtectsSlave(level) THEN d.key ELSE 0
             a == [Record("data") EXCEPT !.level = level, !.seq = seq, !.of = d.executed,
                                         !.key = k]
             e == [d EXCEPT !.slave = seq, !.last = a]
  <1>1. seq \in Sequence /\ k \in Nat
    BY NextFacts DEF Device
  <1>2. Response(d, level) = [dev |-> e, answer |-> a]
    BY DEF Response
  <1> HIDE DEF seq, k
  <1>3. a \in Records /\ a.type = "data"
    <2>1. Record("data") \in Records /\ Record("data").type = "data" /\ d.executed \in Nat
      BY RecordFacts DEF Types, Device
    <2> QED BY <1>1, <2>1 DEF Records
  <1> HIDE DEF a
  <1>4. e \in Device /\ e.sessions = d.sessions /\ e.last = a
    BY <1>1, <1>3 DEF Device
  <1> HIDE DEF e
  <1> QED BY <1>2, <1>3, <1>4

LEMMA ExecutesFacts ==
  ASSUME NEW d \in Device, NEW m \in Records
  PROVE  LET r == Executes(d, m) IN Says(d, r.dev, r.answer)
  <1> DEFINE r == Executes(d, m)
             s == IF ProtectsMaster(m.level) THEN m.seq ELSE d.master
             t == [d EXCEPT !.master = s]
             u == IF d.executed = m.of THEN 2 ELSE 1
             e == [t EXCEPT !.executed = m.of, !.times = u]
             g == [t EXCEPT !.garbled = TRUE]
  <1>1. s \in Sequence /\ u \in 0 .. 2 /\ m.level \in Levels /\ m.of \in Nat
    BY DEF Device, Records
  <1>2. t = [d EXCEPT !.master = IF ProtectsMaster(m.level) THEN m.seq ELSE @]
    BY DEF Device
  <1>3. t \in Device /\ t.sessions = d.sessions /\ t.executed = d.executed
    <2> HIDE DEF s
    <2> QED BY <1>1 DEF Device
  <1>4. r = Response(g, m.level) \/ r = Response(e, m.level)
    <2>1. e = [t EXCEPT !.executed = m.of, !.times = IF d.executed = m.of THEN 2 ELSE 1]
      OBVIOUS
    <2> HIDE DEF t, e
    <2> QED BY <1>2, <2>1 DEF Executes
  <1> HIDE DEF t, u, s
  <1>5. g \in Device /\ g.sessions = d.sessions /\ e \in Device /\ e.sessions = d.sessions
    BY <1>1, <1>3 DEF Device
  <1> HIDE DEF g, e
  <1>6. r.dev \in Device /\ r.dev.sessions = d.sessions /\ r.dev.last.type = "data"
        /\ r.answer \in Records /\ r.answer.type = "data"
    BY <1>1, <1>4, <1>5, ResponseFacts
  <1> HIDE DEF r
  <1>7. Says(d, r.dev, r.answer)
    BY <1>6, PlainSays
  <1> QED BY <1>7 DEF r

LEMMA DeviceFacts ==
  ASSUME NEW d \in Device, d.last.type \in {"none", "data"}, NEW m \in Records,
         NEW n \in Choices
  PROVE  LET r == DeviceTakes(d, m, n) IN Says(d, r.dev, r.answer)
  <1> DEFINE r == DeviceTakes(d, m, n)
             k == d.sessions + 1
             de == DeviceReset(d)
             hello == [dev    |-> [d EXCEPT !.pending = k, !.sessions = k, !.key = 0, !.slave = n],
                       answer |-> [Record("hello") EXCEPT !.seq = n, !.key = k]]
             finished == [dev    |-> [d EXCEPT !.pending = 0, !.key = m.key, !.master = n],
                          answer |-> [Record("finished") EXCEPT !.seq = n, !.key = m.key]]
             saved == [dev |-> [de EXCEPT !.saved_key = d.key,
                                  !.saved_slave = d.slave, !.saved_master = d.master],
                       answer |-> Alert("saved")]
             restored == [dev |-> [d EXCEPT !.key = d.saved_key, !.slave = d.saved_slave,
                                     !.master = d.saved_master, !.saved_key = 0],
                          answer |-> Record("restored")]
             integrity == [dev |-> d, answer |-> Alert("integrity")]
             Ok(x) == Says(d, x.dev, x.answer)
  <1>1. r \in {hello, finished, saved, restored, integrity, Executes(d, m),
               Response(d, d.last.level), Complaint(d)}
    BY DEF DeviceTakes
  <1> HIDE DEF r
  <1>2. n \in Sequence /\ n \in Nat /\ n < T /\ k \in Nat /\ 0 \in Nat /\ d.sessions < k
        /\ m.key \in Nat /\ d.last.level \in Levels
    BY ChoiceFacts DEF Device, Records
  <1>3. Ok(hello)
    <2> DEFINE e == [d EXCEPT !.pending = k, !.sessions = k, !.key = 0, !.slave = n]
               a == [Record("hello") EXCEPT !.seq = n, !.key = k]
    <2>1. hello.dev = e /\ hello.answer = a
      OBVIOUS
    <2> HIDE DEF k, hello
    <2>2. e \in Device /\ e.sessions = k /\ e.last = d.last
      BY <1>2 DEF Device
    <2>3. a \in Records /\ a.key = k /\ a.seq = n
      <3>1. Record("hello") \in Records
        BY RecordFacts DEF Types
      <3> QED BY <1>2, <3>1 DEF Records
    <2> HIDE DEF e, a
    <2>4. d.sessions <= e.sessions
      BY <1>2, <2>2 DEF k, Device
    <2>5. Says(d, e, a)
      BY <1>2, <2>2, <2>3, <2>4 DEF Says
    <2> QED BY <2>1, <2>5
  <1>4. Ok(finished)
    <2> DEFINE e == [d EXCEPT !.pending = 0, !.key = m.key, !.master = n]
               a == [Record("finished") EXCEPT !.seq = n, !.key = m.key]
    <2>1. finished.dev = e /\ finished.answer = a
      OBVIOUS
    <2> HIDE DEF finished
    <2>2. e \in Device /\ e.sessions = d.sessions /\ e.last = d.last
      BY <1>2 DEF Device
    <2>3. a \in Records /\ a.type = "finished" /\ a.seq = n
      <3>1. Record("finished") \in Records /\ Record("finished").type = "finished"
        BY RecordFacts DEF Types
      <3> QED BY <1>2, <3>1 DEF Records
    <2> HIDE DEF e, a
    <2>4. d.sessions <= e.sessions
      BY <2>2 DEF Device
    <2>5. Says(d, e, a)
      BY <1>2, <2>2, <2>3, <2>4 DEF Says
    <2> QED BY <2>1, <2>5
  <1>5. de \in Device /\ de.sessions = d.sessions /\ de.last = d.last
    BY DeviceResetFacts
  <1> HIDE DEF de
  <1>6. \A t \in Types : Record(t) \in Records /\ Alert(t) \in Records
                          /\ Record(t).type = t /\ Alert(t).type = t
    BY RecordFacts
  <1>7. Ok(saved)
    <2> DEFINE e == [de EXCEPT !.saved_key = d.key, !.saved_slave = d.slave,
                               !.saved_master = d.master]
    <2>1. saved.dev = e /\ saved.answer = Alert("saved")
      OBVIOUS
    <2> HIDE DEF saved
    <2>2. e \in Device /\ e.sessions = d.sessions /\ e.last = d.last
      BY <1>5 DEF Device
    <2> HIDE DEF e
    <2>3. Alert("saved") \in Records /\ Alert("saved").type = "saved"
      BY <1>6 DEF Types
    <2> QED BY <2>1, <2>2, <2>3, PlainSays
  <1>8. Ok(restored)
    <2> DEFINE e == [d EXCEPT !.key = d.saved_key, !.slave = d.saved_slave,
                              !.master = d.saved_master, !.saved_key = 0]
    <2>1. restored.dev = e /\ restored.answer = Record("restored")
      OBVIOUS
    <2> HIDE DEF restored
    <2>2. e \in Device /\ e.sessions = d.sessions /\ e.last = d.last
      BY DEF Device
    <2> HIDE DEF e
    <2>3. Record("restored") \in Records /\ Record("restored").type = "restored"
      BY <1>6 DEF Types
    <2> QED BY <2>1, <2>2, <2>3, PlainSays
  <1>9. Ok(integrity)
    <2>1. Alert("integrity") \in Records /\ Alert("integrity").type = "integrity"
      BY <1>6 DEF Types
    <2> QED BY <2>1, PlainSays
  <1>10. Ok(Executes(d, m))
    BY ExecutesFacts
  <1>11. Ok(Response(d, d.last.level))
    BY <1>2, ResponseFacts, PlainSays
  <1>12. Ok(Complaint(d))
    <2>1. Alert("fatal") \in Records /\ Alert("fatal").type = "fatal"
      BY <1>6 DEF Types
    <2>2. Complaint(d).dev = de /\ Complaint(d).answer = Alert("fatal")
      BY DEF Complaint, de
    <2> QED BY <1>5, <2>1, <2>2, PlainSays
  <1> HIDE DEF hello, finished, saved, restored, integrity, Ok
  <1>13. Ok(r)
    BY <1>1, <1>3, <1>4, <1>7, <1>8, <1>9, <1>10, <1>11, <1>12
  <1> QED BY <1>13 DEF Ok, r

\* An answer that can be taken: the device's own, a damaged one, or one that
\* is out of turn.
Takes(d, e, a) ==
  /\ e \in Device /\ e.last.type \in {"none", "data"} /\ d.sessions <= e.sessions
  /\ a \in Records /\ NumberOK(a)
  /\ a.type = "hello" => d.sessions < a.key /\ a.key <= e.sessions

LEMMA SaysTakes ==
  ASSUME NEW d, NEW e, NEW a, Says(d, e, a)
  PROVE  Takes(d, e, a)
  <1>1. a \in Records /\ (a.type \in {"hello", "finished"} => a.seq < T)
    BY DEF Says
  <1>2. a.seq \in Nat
    BY <1>1, NextFacts DEF Records
  <1>3. NumberOK(a)
    BY <1>1, <1>2, ConstantFacts DEF NumberOK
  <1> QED BY <1>3 DEF Says, Takes

LEMMA DamagedTakes ==
  ASSUME NEW d, NEW e, NEW b, Says(d, e, b), NEW a \in Damaged(b)
  PROVE  Takes(d, e, a)
  <1>1. PICK n \in {0, R - 1, R} : a = [b EXCEPT !.intact = FALSE, !.seq = (@ + n) % SeqSize]
    BY DEF Damaged, R
  <1> DEFINE s == (b.seq + n) % SeqSize
  <1>2. b \in Records /\ b.seq \in Nat /\ n \in Nat /\ n <= R /\ SeqSize \in Nat
        /\ T \in Nat /\ R \in Nat /\ T + R < SeqSize
    BY NextFacts, ConstantFacts DEF Says, Records
  <1>3. s \in Sequence
    BY <1>2 DEF Sequence
  <1>4. b.seq < T => s < T + R
    <2> SUFFICES ASSUME b.seq < T PROVE s < T + R
      OBVIOUS
    <2>1. b.seq + n \in Nat /\ b.seq + n < SeqSize
      BY <1>2
    <2>2. s = b.seq + n
      BY <1>2, <2>1
    <2> QED BY <1>2, <2>2
  <1>5. a = [b EXCEPT !.intact = FALSE, !.seq = s]
    BY <1>1, <1>2 DEF Records
  <1> HIDE DEF s
  <1>6. a \in Records /\ a.type = b.type /\ a.key = b.key /\ a.seq = s
    BY <1>2, <1>3, <1>5 DEF Records
  <1>7. NumberOK(a)
    BY <1>4, <1>6 DEF NumberOK, Says
  <1> QED BY <1>6, <1>7 DEF Takes, Says

LEMMA StrangeTakes ==
  ASSUME NEW d \in Device, d.last.type \in {"none", "data"}, NEW e, NEW b, Says(d, e, b),
         NEW a \in Strange(b, d)
  PROVE  Takes(d, e, a)
  <1> DEFINE l == IF b.level = "NO" THEN "FULL" ELSE "NO"
  <1>1. b \in Records /\ Takes(d, e, b) /\ l \in Levels
    BY SaysTakes DEF Says, Levels
  <1>2. \/ a \in {Alert("fatal"), Alert("integrity"), Record("integrity"), Alert("other"), d.last}
        \/ a = [b EXCEPT !.length = 0]
        \/ a = [b EXCEPT !.length = 1]
        \/ a = [b EXCEPT !.level = l]
    BY <1>1 DEF Strange, Records
  <1> HIDE DEF l
  <1>3. CASE a \in {Alert("fatal"), Alert("integrity"), Record("integrity"), Alert("other"), d.last}
    <2>1. a \in Records /\ a.type \notin {"hello", "finished"}
      BY <1>3, RecordFacts DEF Types, Device
    <2> QED BY <1>1, <2>1 DEF Takes, NumberOK
  <1>4. CASE \/ a = [b EXCEPT !.length = 0]
             \/ a = [b EXCEPT !.length = 1]
             \/ a = [b EXCEPT !.level = l]
    <2>1. a \in Records /\ a.type = b.type /\ a.key = b.key /\ a.seq = b.seq
      BY <1>1, <1>4 DEF Records
    <2> QED BY <1>1, <2>1 DEF Takes, NumberOK
  <1> QED BY <1>2, <1>3, <1>4

\* An event of the transport layer reaches the layer in none of the states it
\* is only in while it handles one.
LEMMA TransportStep ==
  ASSUME SInv, tl # "idle", NEW e, Event(e), UNCHANGED above,
         e \in Events, e.call = "none", e.phase \in {"loop", "error"},
         Takes(dev, dev', e.answer),
         hist' \in History, hist'.numbers = hist.numbers, hist'.reused = hist.reused
  PROVE  SInv'
  <1>1. event.phase = "none" /\ tl' = "idle" /\ tx' = NoRecord /\ event' = e
        /\ comms' = comms /\ i2c' = i2c /\ prl' = prl /\ store' = store
    BY DEF Event, Handling, above
  <1>2. comms = "INUSE" /\ i2c.reset_state = "none"
    BY Parts DEF Usable, Handling
  <1>3. prl.state # "ALERT"
    BY <1>1, Parts DEF Called, Handling
  <1>4. answer' = e.answer
    BY <1>1 DEF answer
  <1>5. Usable'
    BY <1>1, <1>2 DEF Usable, Handling
  <1>6. Called(prl)'
    BY <1>1, <1>3 DEF Called, Handling
  <1>7. Core(prl)'
    BY <1>1, Parts DEF Core, Controls, MasterBound, SlaveBound
  <1>8. dev' \in Device /\ dev'.last.type \in {"none", "data"}
        /\ dev.sessions <= dev'.sessions /\ NumberOK(answer')
    BY <1>4 DEF Takes
  <1>9. answer'.type = "hello" =>
          answer'.key <= dev'.sessions /\ Unused(answer'.key, hist.numbers)
    <2> SUFFICES ASSUME answer'.type = "hello"
                 PROVE  answer'.key <= dev'.sessions /\ Unused(answer'.key, hist.numbers)
      OBVIOUS
    <2>1. answer'.key \in Nat /\ dev.sessions < answer'.key /\ answer'.key <= dev'.sessions
      BY <1>4 DEF Takes, Records
    <2>2. ASSUME NEW u \in hist.numbers PROVE u[1] # answer'.key
      <3>1. u[1] \in 1 .. dev.sessions /\ dev.sessions \in Nat
        BY Parts DEF Keys, Device
      <3> QED BY <2>1, <3>1
    <2> QED BY <2>1, <2>2 DEF Unused
  <1>10. tx' \in Records /\ comms' \in {"FREE", "INUSE"} /\ i2c' \in I2C /\ prl' \in Prl
    BY <1>1, Parts, RecordFacts
  <1> QED BY <1>1, <1>5, <1>6, <1>7, <1>8, <1>9, <1>10, OuterStep

LEMMA AnswerFacts ==
  ASSUME NEW a \in Records
  PROVE  /\ Answer(a) \in Events /\ Answer(a).call = "none" /\ Answer(a).phase = "loop"
         /\ Answer(a).answer = a
  BY NoEventFacts DEF Answer, Events

LEMMA FailureFacts ==
  ASSUME NEW status \in {"STACK_ERROR", "MEM_ERROR"}
  PROVE  /\ Failure(status) \in Events /\ Failure(status).call = "none"
         /\ Failure(status).phase = "error" /\ Failure(status).answer = NoRecord
  BY NoEventFacts DEF Failure, Events, Statuses

\* The device stays as it is, and nothing was answered.
LEMMA NothingTakes ==
  ASSUME SInv
  PROVE  Takes(dev, dev, NoRecord)
  <1>1. dev.sessions <= dev.sessions
    BY Parts DEF Device
  <1> QED BY <1>1, Parts, RecordFacts DEF Takes, NumberOK

LEMMA DeviceSays ==
  ASSUME SInv, NEW n \in FirstNumber(tx)
  PROVE  LET r == DeviceTakes(dev, tx, n) IN Says(dev, r.dev, r.answer)
  BY Parts, ChoiceFacts, DeviceFacts

LEMMA TlInitDoneStep == ASSUME SInv, TlInitDone PROVE SInv'
  <1>1. tl = "init" /\ UNCHANGED above /\ dev' = dev /\ hist' = hist
        /\ (Event([NoEvent EXCEPT !.phase = "loop"]) \/ Event(Failure("STACK_ERROR")))
    BY DEF TlInitDone
  <1>2. CASE Event([NoEvent EXCEPT !.phase = "loop"])
    <2> DEFINE e == [NoEvent EXCEPT !.phase = "loop"]
    <2>1. e \in Events /\ e.call = "none" /\ e.phase = "loop" /\ e.answer = NoRecord
      BY NoEventFacts DEF Events
    <2>2. Event(e)
      BY <1>2
    <2> HIDE DEF e
    <2> QED BY <1>1, <2>1, <2>2, NothingTakes, Parts, TransportStep
  <1>3. CASE Event(Failure("STACK_ERROR"))
    BY <1>1, <1>3, FailureFacts, NothingTakes, Parts, TransportStep
  <1> QED BY <1>1, <1>2, <1>3

\* The device's answer arrives, as it is or changed.
LEMMA AnsweredStep ==
  ASSUME SInv, tl = "exchange", UNCHANGED above, NEW a, Event(Answer(a)),
         Takes(dev, dev', a),
         hist' \in History, hist'.numbers = hist.numbers, hist'.reused = hist.reused
  PROVE  SInv'
  <1>1. a \in Records
    BY DEF Takes
  <1> QED BY <1>1, AnswerFacts, TransportStep

LEMMA TlAnsweredStep == ASSUME SInv, TlAnswered PROVE SInv'
  <1>1. PICK n \in FirstNumber(tx) :
          LET r == DeviceTakes(dev, tx, n) IN Event(Answer(r.answer)) /\ dev' = r.dev
    BY DEF TlAnswered
  <1>2. tl = "exchange" /\ UNCHANGED above /\ hist' = hist
    BY DEF TlAnswered
  <1> DEFINE r == DeviceTakes(dev, tx, n)
  <1>3. Event(Answer(r.answer)) /\ dev' = r.dev /\ Says(dev, r.dev, r.answer)
    BY <1>1, DeviceSays
  <1> HIDE DEF r
  <1>4. Takes(dev, dev', r.answer)
    BY <1>3, SaysTakes
  <1> QED BY <1>2, <1>3, <1>4, Parts, AnsweredStep

LEMMA TlDamagedStep == ASSUME SInv, TlDamaged PROVE SInv'
  <1>1. tl = "exchange" /\ UNCHANGED above /\ hist' = hist
    BY DEF TlDamaged
  <1>2. CASE LET r == DeviceTakes(dev, [tx EXCEPT !.intact = FALSE], 0)
             IN Event(Answer(r.answer)) /\ dev' = r.dev
    <2> DEFINE m == [tx EXCEPT !.intact = FALSE]
               r == DeviceTakes(dev, m, 0)
    <2>1. m \in Records /\ 0 \in Choices
      BY Parts DEF Records, Choices
    <2>2. Event(Answer(r.answer)) /\ dev' = r.dev
      BY <1>2
    <2> HIDE DEF m
    <2>3. Says(dev, r.dev, r.answer)
      BY <2>1, Parts, DeviceFacts
    <2> HIDE DEF r
    <2>4. Takes(dev, dev', r.answer)
      BY <2>2, <2>3, SaysTakes
    <2> QED BY <1>1, <2>2, <2>4, Parts, AnsweredStep
  <1>3. CASE \E n \in FirstNumber(tx) :
               LET r == DeviceTakes(dev, tx, n)
               IN /\ r.answer.key # 0 /\ dev' = r.dev
                  /\ \E a \in Damaged(r.answer) : Event(Answer(a))
    <2>1. PICK n \in FirstNumber(tx) :
               LET r == DeviceTakes(dev, tx, n)
               IN dev' = r.dev /\ \E a \in Damaged(r.answer) : Event(Answer(a))
      BY <1>3
    <2> DEFINE r == DeviceTakes(dev, tx, n)
    <2>2. dev' = r.dev /\ Says(dev, r.dev, r.answer)
      BY <2>1, DeviceSays
    <2>3. PICK a \in Damaged(r.answer) : Event(Answer(a))
      BY <2>1
    <2> HIDE DEF r
    <2>4. Takes(dev, dev', a)
      BY <2>2, <2>3, DamagedTakes
    <2> QED BY <1>1, <2>3, <2>4, Parts, AnsweredStep
  <1> QED BY <1>2, <1>3 DEF TlDamaged

\* The history records of an answer that is lost whose it was.
LEMMA LosesFacts ==
  ASSUME SInv, NEW a \in Records
  PROVE  LET h == Loses(hist, a)
         IN /\ h \in History /\ h.lost = IF a.type = "data" THEN hist.lost \cup {a.of} ELSE hist.lost
            /\ h.numbers = hist.numbers /\ h.reused = hist.reused /\ h.confirmed = hist.confirmed
            /\ h.current = hist.current /\ h.outcome = hist.outcome /\ h.accepted = hist.accepted
            /\ h.fresh = hist.fresh /\ h.odd = hist.odd /\ h.sent_at_close = hist.sent_at_close
  <1> DEFINE l == hist.lost \cup {a.of}
  <1>1. hist \in History /\ a.of \in Nat
    BY Parts DEF Records
  <1>2. l \in SUBSET Nat
    BY <1>1 DEF History
  <1>3. Loses(hist, a) = IF a.type = "data" THEN [hist EXCEPT !.lost = l] ELSE hist
    BY <1>1 DEF Loses, History
  <1> HIDE DEF l
  <1>4. CASE a.type = "data"
    <2>1. Loses(hist, a) = [hist EXCEPT !.lost = l]
      BY <1>3, <1>4
    <2>2. Loses(hist, a).lost = hist.lost \cup {a.of}
      BY <1>1, <2>1 DEF History, l
    <2> QED BY <1>1, <1>2, <1>4, <2>1, <2>2 DEF History
  <1>5. CASE a.type # "data"
    BY <1>1, <1>3, <1>5
  <1> QED BY <1>4, <1>5

LEMMA TlStrangeStep == ASSUME SInv, TlStrange PROVE SInv'
  <1>1. tl = "exchange" /\ UNCHANGED above
    BY DEF TlStrange
  <1>2. PICK n \in FirstNumber(tx) :
             LET r == DeviceTakes(dev, tx, n)
             IN /\ dev' = r.dev /\ \E a \in Strange(r.answer, dev) : Event(Answer(a))
                /\ hist' = [Loses(hist, r.answer) EXCEPT !.odd = TRUE]
    BY DEF TlStrange
  <1> DEFINE r == DeviceTakes(dev, tx, n)
  <1>3. dev' = r.dev /\ Says(dev, r.dev, r.answer)
        /\ hist' = [Loses(hist, r.answer) EXCEPT !.odd = TRUE]
    BY <1>2, DeviceSays
  <1>4. PICK a \in Strange(r.answer, dev) : Event(Answer(a))
    BY <1>2
  <1> HIDE DEF r
  <1>5. Takes(dev, dev', a)
    BY <1>3, <1>4, Parts, StrangeTakes
  <1>6. hist' \in History /\ hist'.numbers = hist.numbers /\ hist'.reused = hist.reused
    <2> DEFINE h == Loses(hist, r.answer)
    <2>1. h \in History /\ h.numbers = hist.numbers /\ h.reused = hist.reused
      BY <1>3, LosesFacts DEF Says
    <2>2. hist' = [h EXCEPT !.odd = TRUE]
      BY <1>3
    <2> HIDE DEF h
    <2> QED BY <2>1, <2>2 DEF History
  <1> QED BY <1>1, <1>4, <1>5, <1>6, AnsweredStep

LEMMA TlFailedStep == ASSUME SInv, TlFailed PROVE SInv'
  <1>1. tl = "exchange" /\ UNCHANGED above
    BY DEF TlFailed
  <1>2. ASSUME NEW status \in {"STACK_ERROR", "MEM_ERROR"}, Event(Failure(status)),
               Takes(dev, dev', NoRecord), hist' \in History,
               hist'.numbers = hist.numbers, hist'.reused = hist.reused
        PROVE  SInv'
    BY <1>1, <1>2, FailureFacts, TransportStep
  <1>3. CASE Event(Failure("STACK_ERROR")) /\ dev' = dev /\ hist' = hist
    BY <1>2, <1>3, Parts, NothingTakes
  <1>4. CASE \E n \in FirstNumber(tx), status \in {"STACK_ERROR", "MEM_ERROR"} :
               LET r == DeviceTakes(dev, tx, n)
               IN /\ Event(Failure(status)) /\ dev' = r.dev
                  /\ hist' = IF status = "MEM_ERROR" THEN Loses(hist, r.answer) ELSE hist
    <2>1. PICK n \in FirstNumber(tx), status \in {"STACK_ERROR", "MEM_ERROR"} :
               LET r == DeviceTakes(dev, tx, n)
               IN /\ Event(Failure(status)) /\ dev' = r.dev
                  /\ hist' = IF status = "MEM_ERROR" THEN Loses(hist, r.answer) ELSE hist
      BY <1>4
    <2> DEFINE r == DeviceTakes(dev, tx, n)
    <2>2. dev' = r.dev /\ Says(dev, r.dev, r.answer)
          /\ (hist' = hist \/ hist' = Loses(hist, r.answer))
      BY <2>1, DeviceSays
    <2> HIDE DEF r
    <2>3. Takes(dev, dev', NoRecord)
      BY <2>2, RecordFacts DEF Says, Takes, NumberOK
    <2>4. hist' \in History /\ hist'.numbers = hist.numbers /\ hist'.reused = hist.reused
      BY <2>2, LosesFacts, Parts DEF Says
    <2> QED BY <1>2, <2>1, <2>3, <2>4
  <1> QED BY <1>3, <1>4 DEF TlFailed

-----------------------------------------------------------------------------
(* The theorems                                                             *)

LEMMA InitSInv == ASSUME Init PROVE SInv
  <1>1. PICK configured \in StoreConfigured :
       prl = [state |-> "UNINIT", hs_state |-> "SEND_HELLO", mc_state |-> "TX",
              negotiated |-> FALSE, key |-> 0, master |-> 0, save_slave |-> 0,
              decryption_failure_counter |-> 0, data_retransmit_counter |-> 0,
              trans_repeat |-> FALSE, alert |-> "DEFAULT", return_status |-> "SUCCESS",
              restore_done |-> FALSE, handler |-> "tl", sealed |-> FALSE,
              saved |-> NoContext, configured |-> configured]
    BY DEF Init
  <1>2. /\ comms = "FREE" /\ store = NoContext /\ event = NoEvent /\ tl = "idle" /\ tx = NoRecord
        /\ i2c = [state |-> "UNINIT", status |-> "NOT_BUSY", close_state |-> "SUCCESS",
                  reset_state |-> "none", level |-> "NO", re_establish |-> FALSE,
                  manage |-> "NONE"]
    BY DEF Init
  <1>3. dev = [on |-> FALSE, sessions |-> 0, pending |-> 0, key |-> 0, master |-> 0, slave |-> 0,
               saved_key |-> 0, saved_master |-> 0, saved_slave |-> 0,
               executed |-> 0, times |-> 0, garbled |-> FALSE, last |-> NoRecord]
    BY DEF Init
  <1>4. hist = [current |-> 0, outcome |-> "none", accepted |-> 0, fresh |-> FALSE,
                confirmed |-> {}, numbers |-> {},
                reused |-> FALSE, odd |-> FALSE, lost |-> {},
                sent_at_close |-> FALSE]
    BY DEF Init
  <1>5. configured \in BOOLEAN /\ 0 \in Masters /\ 0 \in Slaves /\ 0 \in 0 .. R
        /\ 0 \in Sequence /\ NoContext \in Kept
    BY ChoiceAssumption, NoContextFacts, NextFacts DEF NoContext, Kept
  <1>6. prl \in Prl /\ prl.state = "UNINIT" /\ prl.trans_repeat = FALSE /\ prl.handler = "tl"
        /\ prl.key = 0 /\ prl.saved = NoContext
    BY <1>1, <1>5 DEF Prl, PrlStates, Statuses
  <1>7. i2c \in I2C /\ i2c.reset_state = "none" /\ i2c.state = "UNINIT"
        /\ i2c.status = "NOT_BUSY"
    BY <1>2 DEF I2C, Statuses, Levels
  <1>8. dev \in Device /\ dev.sessions = 0 /\ dev.last = NoRecord
    BY <1>3, <1>5, RecordFacts DEF Device
  <1>9. hist \in History /\ hist.numbers = {} /\ ~hist.reused
    BY <1>4 DEF History
  <1>10. Types_ok
    BY <1>2, <1>5, <1>6, <1>7, <1>8, <1>9, NoEventFacts, RecordFacts DEF Types_ok
  <1>11. answer = NoRecord
    BY <1>2, NoEventFacts DEF answer
  <1>12. NumberOK(answer) /\ (answer.type = "hello" => Unused(answer.key, hist.numbers))
    BY <1>11, RecordFacts DEF NumberOK
  <1>13. Keys
    BY <1>2, <1>6, <1>8, <1>9, <1>11, NoContextFacts, RecordFacts DEF Keys
  <1>14. Usable
    BY <1>2, <1>6, <1>7, NoEventFacts DEF Usable, Handling
  <1>15. Called(prl)
    BY <1>2, <1>6, NoEventFacts DEF Called, Handling
  <1>16. Core(prl)
    BY <1>6 DEF Core, Controls, MasterBound, SlaveBound
  <1>17. Numbers(prl, store, hist.numbers)
    BY <1>2, <1>6, <1>9, NoContextFacts DEF Numbers, Fresh, Context
  <1>18. NumbersUsedOnce
    BY <1>9 DEF NumbersUsedOnce
  <1> QED BY <1>10, <1>12, <1>13, <1>14, <1>15, <1>16, <1>17, <1>18 DEF SInv

LEMMA NextSInv == ASSUME SInv, [Next]_vars PROVE SInv'
  <1>1. CASE Handler
    <2>1. CASE EnterError \/ Idle \/ Start \/ HandlerReturns
      BY <2>1, EnterErrorStep, IdleStep, StartStep, HandlerReturnsStep
    <2>2. CASE \/ HandshakeStoreFails \/ SendHello \/ HelloAccepted \/ HelloRefused
               \/ HelloFails \/ FinishedAccepted \/ FinishedRefused
      BY <2>2, HandshakeStoreFailsStep, SendHelloStep, HelloAcceptedStep, HelloRefusedStep,
         HelloFailsStep, FinishedAcceptedStep, FinishedRefusedStep
    <2>3. CASE TxrxRenegotiate \/ TxrxSend \/ TxrxFails
      BY <2>3, TxrxRenegotiateStep, TxrxSendStep, TxrxFailsStep
    <2>4. CASE \/ VerifyRejected \/ VerifyAlert \/ VerifyUnreadable \/ VerifyAccepted
               \/ VerifyPlainShort \/ VerifyPlain
      BY <2>4, VerifyRejectedStep, VerifyAlertStep, VerifyUnreadableStep, VerifyAcceptedStep,
         VerifyPlainShortStep, VerifyPlainStep
    <2>5. CASE AlertRepeat \/ AlertEnds \/ ErrorAlert \/ ErrorEnds
      BY <2>5, AlertRepeatStep, AlertEndsStep, ErrorAlertStep, ErrorEndsStep
    <2>6. CASE \/ ManageReestablish \/ ManageSave \/ ManageNothingSaved \/ ManageRestore
               \/ ManageStoreFails \/ ManageRestored \/ ManageSaved \/ ManageSaveFails
               \/ ManageRefused
      BY <2>6, ManageReestablishStep, ManageSaveStep, ManageNothingSavedStep,
         ManageRestoreStep, ManageStoreFailsStep, ManageRestoredStep, ManageSavedStep,
         ManageSaveFailsStep, ManageRefusedStep
    <2> QED BY <1>1, <2>1, <2>2, <2>3, <2>4, <2>5, <2>6 DEF Handler
  <1>2. CASE UpperLayer
    <2>1. ASSUME NEW ask \in Asks, NEW manage \in {i2c.manage, "NONE"},
                 CommsTransceive(ask[1], ask[2], manage)
          PROVE  SInv'
      <3>1. ask[1] \in Levels /\ ask[2] \in BOOLEAN
        BY ChoiceAssumption DEF Levels
      <3> QED BY <2>1, <3>1, CommsTransceiveStep
    <2> QED BY <1>2, <2>1, CommsOpenStep, CommsResetStep, CommsCloseStep DEF UpperLayer
  <1>3. CASE InitTimer
    BY <1>3, InitTimerStep
  <1>4. CASE Transport
    BY <1>4, TlInitDoneStep, TlAnsweredStep, TlDamagedStep, TlStrangeStep, TlFailedStep
       DEF Transport
  <1>5. CASE UNCHANGED vars
    <2>1. comms' = comms /\ i2c' = i2c /\ prl' = prl /\ store' = store /\ event' = event
          /\ tl' = tl /\ tx' = tx /\ dev' = dev /\ hist' = hist
      BY <1>5 DEF vars
    <2>2. Types_ok'
      BY <2>1, Parts DEF Types_ok
    <2>3. (NumberOK(answer) /\ Keys /\ (answer.type = "hello" => Unused(answer.key, hist.numbers)))'
      BY <2>1, Parts DEF NumberOK, Keys, Unused, answer
    <2>4. Usable' /\ Called(prl)'
      BY <2>1, Parts DEF Usable, Called, InTransceive, Handling, answer
    <2>5. Core(prl)'
      BY <2>1, Parts DEF Core, Controls, MasterBound, SlaveBound
    <2>6. Numbers(prl, store, hist.numbers)'
      BY <2>1, Parts DEF Numbers, Context
    <2>7. NumbersUsedOnce'
      BY <2>1, Parts DEF NumbersUsedOnce
    <2> QED BY <2>2, <2>3, <2>4, <2>5, <2>6, <2>7 DEF SInv
  <1> QED BY <1>1, <1>2, <1>3, <1>4, <1>5 DEF Next

\* The invariant that carries the three theorems below: where the control of the
\* layers can be, how near to 2^32 the numbers of the two sides can come in each
\* state, and that no number above the one of a session has been used with its
\* key, for the session in use and for the one that is saved.
THEOREM SessionInductive == Spec => []SInv
  <1>1. Init => SInv
    BY InitSInv
  <1>2. SInv /\ [Next]_vars => SInv'
    BY NextSInv
  <1> QED BY <1>1, <1>2, PTL DEF Spec

\* Neither sequence number ever wraps, nor does the end of the receive window:
\* the tests against the threshold (PRL_STATE_TXRX) leave room for all the
\* repetitions of one exchange, for every threshold and number of repetitions
\* that NumberAssumption allows.
THEOREM SessionTypeCorrect == Spec => []SessionTypeOK
  <1>1. SInv => SessionTypeOK
    <2> SUFFICES ASSUME SInv PROVE SessionTypeOK
      OBVIOUS
    <2>1. Masters \subseteq Sequence /\ Slaves \subseteq Sequence
          /\ \A n \in Masters : n <= PRL_SEQUENCE_THRESHOLD + PRL_TRANS_REPEAT
      BY NextFacts DEF Masters, T, R
    <2>2. \A n \in Slaves : n + PRL_TRANS_REPEAT \in Sequence
      <3>1. ASSUME NEW n \in Slaves PROVE n + PRL_TRANS_REPEAT \in Sequence
        <4> DEFINE k == R * (R + 1)
        <4>1. k \in Nat /\ T + k + R <= SeqSize /\ T \in Nat \ {0} /\ R \in Nat
              /\ SeqSize \in Nat
          BY ConstantFacts
        <4>2. n \in 0 .. T - 1 + k
          BY DEF Slaves
        <4> HIDE DEF k
        <4> QED BY <4>1, <4>2 DEF Sequence, R
      <3> QED BY <3>1
    <2>3. ASSUME NEW c \in Kept PROVE c \in Contexts
      BY <2>1 DEF Kept, Contexts, R
    <2>4. i2c \in [state : {"UNINIT", "IDLE"}, status : {"BUSY", "NOT_BUSY"},
                   close_state : Statuses, reset_state : {"none", "PIN_HIGH", "INIT"},
                   level : {"NO", "MASTER", "SLAVE", "FULL"}, re_establish : BOOLEAN,
                   manage : {"NONE", "SAVE", "RESTORE"}]
      BY Parts DEF I2C, Levels
    <2>5. prl \in [state : PrlStates,
              hs_state : {"SEND_HELLO", "VERIFY_HELLO", "VERIFY_FINISHED"},
              mc_state : {"TX", "RX"}, negotiated : BOOLEAN, key : Nat,
              master : Sequence, save_slave : Sequence,
              decryption_failure_counter : 0 .. PRL_TRANS_REPEAT,
              data_retransmit_counter : 0 .. PRL_TRANS_REPEAT,
              trans_repeat : BOOLEAN, alert : {"DEFAULT", "INVALID", "INTEGRITY"},
              return_status : Statuses, restore_done : BOOLEAN, handler : {"tl", "close"},
              sealed : BOOLEAN, saved : Contexts, configured : BOOLEAN]
      BY <2>1, <2>3, Parts DEF Prl, R
    <2>6. event.phase \in {"none", "error", "loop", "report"} /\ event.status \in Statuses
      BY Parts DEF Events
    <2>7. prl.master \in Masters /\ prl.save_slave \in Slaves
      BY Parts, PrlFacts
    <2> QED BY <2>1, <2>2, <2>3, <2>4, <2>5, <2>6, <2>7, Parts DEF SessionTypeOK
  <1> QED BY <1>1, SessionInductive, PTL

\* Whatever fails, and whatever the upper layer calls from within its handler
\* (ifx_i2c_event_handler frees the layer before it returns), the stack never
\* hangs with nothing to continue it, and when it is free it takes the next call.
THEOREM SessionUsable == Spec => []Usable
  <1>1. SInv => Usable
    BY DEF SInv
  <1> QED BY <1>1, SessionInductive, PTL

\* No number protects two records under one key (the nonce of PRL_STATE_TXRX),
\* over repetitions, renegotiations, sessions that are saved and restored, and
\* failures of any step of these.
THEOREM SessionNumbersUsedOnce == Spec => []NumbersUsedOnce
  <1>1. SInv => NumbersUsedOnce
    BY DEF SInv
  <1> QED BY <1>1, SessionInductive, PTL

=============================================================================
