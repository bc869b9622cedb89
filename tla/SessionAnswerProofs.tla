------------------------- MODULE SessionAnswerProofs -------------------------
(***************************************************************************)
(* What the upper layer may rely on: that a request is sent with the       *)
(* protection it asked for, that it is executed once, that it ends as the  *)
(* abstract exchange says, and that the answer handed up is the answer to  *)
(* it.  Five invariants, each on top of the ones before: who speaks and    *)
(* under which key (Asked), what the device has executed (Once), that the  *)
(* device is in the session the host is in (Agrees), how the request is    *)
(* going to end (Story), and where the answers are that the window would   *)
(* let in (Answers).                                                       *)
(***************************************************************************)
EXTENDS SessionProofs

-----------------------------------------------------------------------------
(* Where the operation stands                                               *)

\* No reset is under way, and the device has power.
Alive == i2c.reset_state = "none" /\ dev.on

\* For the device's word on the saving or the restoring of the session.
Waits == prl.state = "MANAGE_CONTEXT" /\ prl.mc_state = "RX"
Renewing == Waits /\ i2c.manage = "RESTORE"

\* A request is on its way within a session, or the answer to it is.
Talks == prl.state \in {"TXRX", "VERIFY", "ALERT"} \/ (prl.state = "ERROR" /\ prl.alert = "INTEGRITY")
Opens == prl.state \in {"START", "HANDSHAKE"}

\* The stack has been closed: the context may have been cleared.
Emptied == prl.handler = "close" /\ prl.state = "IDLE"

Reserve == Context(prl, store)

-----------------------------------------------------------------------------
(* Who speaks, and under which key                                          *)

\* The device has power when the layer is initialised, and has none when the
\* stack has been closed.
Powered ==
  /\ i2c.reset_state = "INIT" => dev.on
  /\ (prl.handler = "tl" /\ prl.state # "UNINIT" /\ i2c.reset_state = "none") => dev.on
  /\ (Emptied /\ ~Handling("loop") /\ i2c.reset_state = "none") => ~dev.on
  /\ answer.type # "none" => Handling("loop") /\ dev.on

\* What is being sent in each state, and what the transport layer may report.
Turn ==
  /\ tl = "exchange" =>
       \/ /\ prl.state = "MANAGE_CONTEXT" /\ prl.mc_state = "RX"
          /\ tx.type = IF i2c.manage = "SAVE" THEN "save" ELSE "restore"
       \/ /\ prl.state = "VERIFY"
          /\ \/ tx.type = "alert"
             \/ /\ tx.type = "data" /\ tx.level = i2c.level
                /\ ProtectsMaster(i2c.level) => tx.key = prl.key
       \/ prl.state = "HANDSHAKE" /\ prl.hs_state = "VERIFY_HELLO" /\ tx.type = "hello"
       \/ prl.state = "HANDSHAKE" /\ prl.hs_state = "VERIFY_FINISHED" /\ tx.type = "finished"
  /\ Handling("error") =>
       /\ event.status \in {"STACK_ERROR", "MEM_ERROR"}
       /\ event.status = "MEM_ERROR" => prl.state = "VERIFY"
  /\ prl.state = "UNINIT" => Handling("none") /\ tl = "idle" /\ prl.handler = "tl"

\* What the upper layer asked for, in each state.
Course ==
  /\ prl.state = "MANAGE_CONTEXT" =>
       IF prl.handler = "close" THEN i2c.manage = "SAVE" /\ prl.negotiated
                                ELSE i2c.manage = "RESTORE" /\ ~prl.sealed
  /\ Waits => ~i2c.re_establish
  /\ prl.state = "HANDSHAKE" => ~prl.negotiated
  /\ (prl.handler = "close" /\ (Opens \/ Talks)) => hist.sent_at_close /\ i2c.re_establish
  /\ (Talks /\ i2c.re_establish) => hist.fresh
  /\ (prl.state \in {"ALERT", "ERROR"} /\ prl.alert = "INVALID") => prl.return_status # "SUCCESS"

\* The key of a session in use, of one that was saved and of one that is being
\* restored was confirmed; a session that is in use is not saved as well.
Confirmed ==
  /\ 0 \notin hist.confirmed
  /\ (prl.negotiated /\ Alive /\ ~Renewing /\ ~Emptied) =>
       prl.key \in hist.confirmed /\ ~Reserve.stored
  /\ Reserve.stored => Reserve.key \in hist.confirmed
  /\ Renewing => prl.saved.key \in hist.confirmed
  /\ (Talks /\ i2c.level # "NO" /\ ~Handling("error")) => Alive /\ prl.key \in hist.confirmed
  /\ answer.type = "finished" => answer.key # 0

Asked == Powered /\ Turn /\ Course /\ Confirmed

-----------------------------------------------------------------------------
(* What the steps do                                                        *)

\* The handler goes round its loop again.
Round ==
  /\ event.phase = "loop" /\ tl = "idle" /\ comms = "INUSE" /\ i2c.reset_state = "none"
  /\ comms' = comms /\ i2c' = i2c /\ event' = event /\ tl' = tl /\ tx' = tx /\ dev' = dev

\* The handler sends record m and returns.
Sending(m) ==
  /\ event.phase = "loop" /\ tl = "idle" /\ comms = "INUSE" /\ i2c.reset_state = "none"
  /\ comms' = comms /\ tl' = "exchange" /\ tx' = m /\ dev' = dev
  /\ event' = NoEvent /\ event'.phase = "none" /\ answer'.type = "none"
  /\ i2c'.state = i2c.state /\ i2c'.level = i2c.level
  /\ i2c'.re_establish = i2c.re_establish /\ i2c'.manage = i2c.manage
  /\ i2c'.reset_state = "none"

LEMMA RoundFacts ==
  ASSUME SInv, Handling("loop"), NEW p, Again(p)
  PROVE  Round /\ prl' = p
  <1>1. event.phase = "loop" /\ tl = "idle" /\ comms = "INUSE" /\ i2c.reset_state = "none"
    BY Parts DEF Usable, Handling
  <1> QED BY <1>1 DEF Again, lower, Round

LEMMA SendingFacts ==
  ASSUME SInv, Handling("loop"), NEW m, NEW p, Sends(m, p)
  PROVE  Sending(m) /\ prl' = p
  <1>1. event.phase = "loop" /\ tl = "idle" /\ comms = "INUSE" /\ i2c.reset_state = "none"
    BY Parts DEF Usable, Handling
  <1>2. prl' = p /\ comms' = comms /\ tl' = "exchange" /\ tx' = m /\ dev' = dev
        /\ event' = NoEvent /\ i2c' = Busy_after_call(i2c)
    BY DEF Sends, Leave
  <1>3. event'.phase = "none" /\ answer'.type = "none"
    BY <1>2, NoEventFacts, RecordFacts DEF answer
  <1>4. i2c'.state = i2c.state /\ i2c'.level = i2c.level
        /\ i2c'.re_establish = i2c.re_establish /\ i2c'.manage = i2c.manage
        /\ i2c'.reset_state = i2c.reset_state
    BY <1>2, Parts DEF Busy_after_call, I2C
  <1> QED BY <1>1, <1>2, <1>3, <1>4 DEF Sending

\* The operation is going to end with an error, and the session with it.
Closes ==
  /\ Round /\ hist' = hist
  /\ prl'.state = "ERROR" /\ prl'.alert = "INVALID" /\ prl'.return_status # "SUCCESS"
  /\ prl'.negotiated = FALSE /\ prl'.handler = prl.handler
  /\ Reserve' = Reserve \/ ~Reserve'.stored

\* It does so when the session is given up (ERROR_STATE_PREPARATION), ...
LEMMA PreparationCloses ==
  ASSUME SInv, Handling("loop"), NEW q \in Prl, Again(Error_state_preparation(q)),
         q.handler = prl.handler, hist' = hist,
         Context(q, store') = Reserve \/ ~Context(q, store').stored
  PROVE  Closes
  <1> DEFINE p == Error_state_preparation(q)
  <1>1. p.state = "ERROR" /\ p.alert = "INVALID" /\ p.return_status = "SESSION_ERROR"
        /\ p.handler = prl.handler /\ p.saved = q.saved /\ p.configured = q.configured
    BY ErrorPreparation
  <1>2. p.negotiated = FALSE
    BY DEF Error_state_preparation, Prl
  <1>3. Round /\ prl' = p
    BY RoundFacts
  <1> HIDE DEF p
  <1>4. Reserve' = Context(q, store')
    BY <1>1, <1>3 DEF Reserve, Context
  <1> QED BY <1>1, <1>2, <1>3, <1>4 DEF Closes

\* ... and when the handshake fails.
LEMMA FailureCloses ==
  ASSUME SInv, Asked, HandshakePass, NEW q \in Prl, Again(HandshakeFailed(q)), hist' = hist,
         q.handler = prl.handler, q.negotiated = prl.negotiated,
         q.saved = NoContext, q.configured = prl.configured
  PROVE  Closes
  <1> DEFINE p == HandshakeFailed(q)
  <1>1. p.state = "ERROR" /\ p.alert = "INVALID" /\ p.return_status = "HANDSHAKE_ERROR"
        /\ p.handler = prl.handler /\ p.saved = NoContext /\ p.configured = prl.configured
    BY HandshakeFailure
  <1>2. Handling("loop") /\ prl.state = "HANDSHAKE" /\ ~Context(p, store').stored
    BY <1>1, HandshakeFacts
  <1>3. p.negotiated = q.negotiated
    BY DEF HandshakeFailed, Prl
  <1>4. q.negotiated = FALSE
    <2>1. ~prl.negotiated /\ prl.negotiated \in BOOLEAN
      BY <1>2, Parts DEF Asked, Course, Prl
    <2> QED BY <2>1
  <1>5. Round /\ prl' = p
    BY <1>2, RoundFacts
  <1> HIDE DEF p
  <1>6. ~Reserve'.stored
    BY <1>2, <1>5 DEF Reserve
  <1> QED BY <1>1, <1>3, <1>4, <1>5, <1>6 DEF Closes

LEMMA UnsavedFacts ==
  ASSUME SInv
  PROVE  /\ Unsaved \in Prl /\ Unsaved.saved = NoContext
         /\ Unsaved.configured = prl.configured /\ Unsaved.handler = prl.handler
         /\ Unsaved.negotiated = prl.negotiated /\ Unsaved.key = prl.key
         /\ Unsaved.master = prl.master /\ Unsaved.save_slave = prl.save_slave
         /\ Unsaved.sealed = prl.sealed /\ Unsaved.state = prl.state
  BY Parts, NoContextFacts DEF Unsaved, Prl

LEMMA StoreFailsCloses == ASSUME SInv, Asked, HandshakeStoreFails PROVE Closes
  <1> DEFINE q == Error_state_preparation(Unsaved)
             p == [q EXCEPT !.return_status = "HANDSHAKE_ERROR"]
  <1>1. Handling("loop") /\ Again(p) /\ store' = store /\ hist' = hist /\ prl.configured
    BY DEF HandshakeStoreFails, State, StoreFails
  <1>2. q \in Prl /\ q.state = "ERROR" /\ q.alert = "INVALID" /\ q.handler = prl.handler
        /\ q.configured = prl.configured
    BY UnsavedFacts, ErrorPreparation
  <1>3. q.negotiated = FALSE
    BY UnsavedFacts DEF Error_state_preparation, Prl
  <1> HIDE DEF q
  <1>4. p.state = "ERROR" /\ p.alert = "INVALID" /\ p.handler = prl.handler
        /\ p.configured = prl.configured /\ p.negotiated = FALSE
        /\ p.return_status = "HANDSHAKE_ERROR"
    BY <1>2, <1>3 DEF Prl
  <1>5. Round /\ prl' = p
    BY <1>1, RoundFacts
  <1> HIDE DEF p
  <1>6. Reserve' = Reserve
    BY <1>1, <1>4, <1>5 DEF Reserve, Context
  <1> QED BY <1>1, <1>4, <1>5, <1>6 DEF Closes

LEMMA HelloCloses == ASSUME SInv, Asked, HelloRefused \/ HelloFails PROVE Closes
  <1>1. CASE HelloRefused
    <2>1. HandshakePass /\ Again(HandshakeFailed(Unsaved)) /\ hist' = hist
      BY <1>1 DEF HelloRefused
    <2> QED BY <2>1, UnsavedFacts, FailureCloses
  <1>2. CASE HelloFails
    <2>0. PICK key \in {prl.key, Derived} :
            Again(HandshakeFailed([Unsaved EXCEPT !.save_slave = answer.seq, !.key = key]))
      BY <1>2 DEF HelloFails
    <2> DEFINE q == [Unsaved EXCEPT !.save_slave = answer.seq, !.key = key]
    <2>1. HandshakePass /\ Again(HandshakeFailed(q)) /\ hist' = hist /\ answer.type = "hello"
      BY <1>2, <2>0 DEF HelloFails
    <2>2. q \in Prl /\ q.saved = NoContext /\ q.configured = prl.configured
          /\ q.handler = prl.handler /\ q.negotiated = prl.negotiated
      <3>1. answer.seq \in Slaves
        BY <2>1, AnswerSeq
      <3>2. key \in Nat
        BY <2>1, DerivedFacts, Parts DEF Prl
      <3> QED BY <3>1, <3>2, UnsavedFacts DEF Prl
    <2> HIDE DEF q
    <2> QED BY <2>1, <2>2, FailureCloses
  <1> QED BY <1>1, <1>2

LEMMA FinishedCloses == ASSUME SInv, Asked, FinishedRefused PROVE Closes
  <1> DEFINE n == IF answer.type = "finished" /\ answer.length = 2
                    THEN answer.seq ELSE Unsaved.master
             q == [Unsaved EXCEPT !.master = n]
  <1>1. HandshakePass /\ Again(HandshakeFailed(q)) /\ hist' = hist
    <2>1. q = [Unsaved EXCEPT !.master = IF answer.type = "finished" /\ answer.length = 2
                                           THEN answer.seq ELSE @]
      OBVIOUS
    <2> HIDE DEF q
    <2> QED BY <2>1 DEF FinishedRefused
  <1>2. q \in Prl /\ q.saved = NoContext /\ q.configured = prl.configured
        /\ q.handler = prl.handler /\ q.negotiated = prl.negotiated
    <2>1. n \in Masters
      BY UnsavedFacts, AnswerSeq, PrlFacts
    <2> HIDE DEF n
    <2> QED BY <2>1, UnsavedFacts DEF Prl
  <1> HIDE DEF q
  <1> QED BY <1>1, <1>2, FailureCloses

LEMMA TxrxCloses == ASSUME SInv, Asked, TxrxFails PROVE Closes
  <1> DEFINE b == Sealed
             q == [Numbered EXCEPT !.sealed = b]
  <1>1. State("TXRX") /\ ~Renegotiates /\ Again(Error_state_preparation(q))
        /\ store' = store /\ hist' = hist
    BY DEF TxrxFails
  <1>2. b \in BOOLEAN
    BY DEF Sealed
  <1> HIDE DEF b
  <1>3. q \in Prl /\ q.saved = prl.saved /\ q.configured = prl.configured
        /\ q.handler = prl.handler
    BY <1>1, <1>2, NumberedFacts DEF Prl
  <1> HIDE DEF q
  <1>4. Handling("loop") /\ Context(q, store') = Reserve
    BY <1>1, <1>3 DEF State, Context, Reserve
  <1> QED BY <1>1, <1>3, <1>4, PreparationCloses

LEMMA VerifyCloses == ASSUME SInv, Asked, VerifyRejected \/ VerifyPlainShort PROVE Closes
  <1>1. CASE VerifyRejected
    <2>1. Handling("loop") /\ Again(Error_state_preparation(prl)) /\ store' = store
          /\ hist' = hist /\ prl \in Prl /\ Context(prl, store') = Reserve
      BY <1>1, Parts DEF VerifyRejected, State, Reserve, Context
    <2> QED BY <2>1, PreparationCloses
  <1>2. CASE VerifyPlainShort
    <2> DEFINE s == IF prl.negotiated THEN "SESSION_ERROR" ELSE "STACK_ERROR"
               p == [prl EXCEPT !.state = "ERROR", !.alert = "INVALID", !.negotiated = FALSE,
                                !.return_status = s]
    <2>1. Handling("loop") /\ Again(p) /\ store' = store /\ hist' = hist
      BY <1>2 DEF VerifyPlainShort, State
    <2>2. s # "SUCCESS"
      OBVIOUS
    <2> HIDE DEF s
    <2>3. p.state = "ERROR" /\ p.alert = "INVALID" /\ p.return_status # "SUCCESS"
          /\ p.negotiated = FALSE /\ p.handler = prl.handler /\ p.saved = prl.saved
          /\ p.configured = prl.configured
      BY <2>2, Parts DEF Prl
    <2>4. Round /\ prl' = p
      BY <2>1, RoundFacts
    <2> HIDE DEF p
    <2>5. Reserve' = Reserve
      BY <2>1, <2>3, <2>4 DEF Reserve, Context
    <2> QED BY <2>1, <2>3, <2>4, <2>5 DEF Closes
  <1> QED BY <1>1, <1>2

LEMMA ManageStoreCloses == ASSUME SInv, Asked, ManageStoreFails PROVE Closes
  <1>1. Handling("loop") /\ store' = store /\ hist' = hist /\ prl.configured /\ prl \in Prl
    BY Parts DEF ManageStoreFails, Restoring, ManageTx, State, StoreFails
  <1>2. CASE Again(Error_state_preparation(prl))
    <2>1. Context(prl, store') = Reserve
      BY <1>1 DEF Reserve, Context
    <2> QED BY <1>1, <1>2, <2>1, PreparationCloses
  <1>3. CASE Again(Error_state_preparation([ReadFromStore EXCEPT !.saved.stored = FALSE]))
    <2> DEFINE c == [ReadFromStore.saved EXCEPT !.stored = FALSE]
               q == [ReadFromStore EXCEPT !.saved = c]
    <2>1. c \in Kept
      BY ReadFacts DEF Kept
    <2>2. q = [ReadFromStore EXCEPT !.saved.stored = FALSE]
      BY ReadFacts DEF Prl, Kept
    <2> HIDE DEF c
    <2>3. q \in Prl /\ q.configured = prl.configured /\ q.handler = prl.handler
      BY <2>1, ReadFacts DEF Prl
    <2>4. Again(Error_state_preparation(q))
      BY <1>3, <2>2
    <2> HIDE DEF q
    <2>5. Context(q, store') = Reserve
      BY <1>1, <2>3 DEF Context, Reserve
    <2> QED BY <1>1, <2>3, <2>4, <2>5, PreparationCloses
  <1> QED BY <1>2, <1>3 DEF ManageStoreFails

LEMMA ManageEndCloses == ASSUME SInv, Asked, ManageSaveFails \/ ManageRefused PROVE Closes
  <1>1. CASE ManageSaveFails
    <2> DEFINE q == [prl EXCEPT !.saved = Saved(prl)]
    <2>1. Handling("loop") /\ Again(Error_state_preparation(q)) /\ store' = store
          /\ hist' = hist /\ prl.configured
      BY <1>1 DEF ManageSaveFails, ManageRx, State, StoreFails
    <2>2. q \in Prl /\ q.configured = prl.configured /\ q.handler = prl.handler
      BY Parts, SavedFacts DEF Prl
    <2> HIDE DEF q
    <2>3. Context(q, store') = Reserve
      BY <2>1, <2>2 DEF Context, Reserve
    <2> QED BY <2>1, <2>2, <2>3, PreparationCloses
  <1>2. CASE ManageRefused
    <2> DEFINE q == [prl EXCEPT !.saved = NoContext]
    <2>1. Handling("loop") /\ Again(Error_state_preparation(q)) /\ hist' = hist
          /\ (Kept_in_store(NoContext) \/ (StoreFails /\ store' = store))
      BY <1>2 DEF ManageRefused, ManageRx, State
    <2>2. q \in Prl /\ q.configured = prl.configured /\ q.handler = prl.handler
          /\ q.saved = NoContext
      BY Parts, NoContextFacts DEF Prl
    <2> HIDE DEF q
    <2>3. Context(q, store') = Reserve \/ ~Context(q, store').stored
      BY <2>1, <2>2, NoContextFacts DEF Context, Reserve, Kept_in_store, StoreFails
    <2> QED BY <2>1, <2>2, <2>3, PreparationCloses
  <1> QED BY <1>1, <1>2

\* What most of the other ways leave alone.
Unmoved ==
  /\ prl'.key = prl.key /\ prl'.master = prl.master /\ prl'.handler = prl.handler
  /\ prl'.configured = prl.configured /\ prl'.saved = prl.saved /\ store' = store

LEMMA StartEffect ==
  ASSUME SInv, Start
  PROVE  /\ Round /\ hist' = hist /\ Unmoved /\ prl.state = "START"
         /\ prl'.save_slave = prl.save_slave /\ prl'.sealed = prl.sealed
         /\ \/ prl'.state = "HANDSHAKE" /\ prl'.hs_state = "SEND_HELLO" /\ prl'.negotiated = FALSE
            \/ /\ prl'.state = "TXRX" /\ prl'.negotiated = prl.negotiated
               /\ ~i2c.re_establish /\ (i2c.level # "NO" => prl.negotiated)
  <1>1. Handling("loop") /\ prl.state = "START" /\ store' = store /\ hist' = hist /\ prl \in Prl
    BY Parts DEF Start, State
  <1>2. CASE AsksHandshake
    <2>1. Round /\ prl' = Do_negotiation(prl)
      BY <1>1, <1>2, RoundFacts DEF Start
    <2> QED BY <1>1, <2>1 DEF Do_negotiation, Prl, Unmoved
  <1>3. CASE ~AsksHandshake
    <2>1. Round /\ prl' = [prl EXCEPT !.state = "TXRX"]
      BY <1>1, <1>3, RoundFacts DEF Start
    <2> QED BY <1>1, <1>3, <2>1 DEF AsksHandshake, Prl, Unmoved
  <1> QED BY <1>2, <1>3

LEMMA RenegotiateEffect ==
  ASSUME SInv, TxrxRenegotiate
  PROVE  /\ Round /\ hist' = hist /\ Unmoved /\ prl.state = "TXRX" /\ ~prl.trans_repeat
         /\ prl'.save_slave = prl.save_slave /\ prl'.sealed = prl.sealed
         /\ prl'.state = "HANDSHAKE" /\ prl'.hs_state = "SEND_HELLO" /\ prl'.negotiated = FALSE
  <1>1. Handling("loop") /\ prl.state = "TXRX" /\ store' = store /\ hist' = hist /\ prl \in Prl
        /\ ~prl.trans_repeat /\ Again(Do_negotiation(prl))
    BY Parts DEF TxrxRenegotiate, State, Renegotiates
  <1>2. Round /\ prl' = Do_negotiation(prl)
    BY <1>1, RoundFacts
  <1> QED BY <1>1, <1>2 DEF Do_negotiation, Prl, Unmoved

LEMMA HelloEffect ==
  ASSUME SInv, SendHello
  PROVE  /\ Sending(Record("hello")) /\ hist' = hist /\ prl.state = "HANDSHAKE"
         /\ prl'.key = prl.key /\ prl'.save_slave = prl.save_slave /\ ~Reserve'.stored
         /\ prl'.handler = prl.handler /\ prl'.negotiated = prl.negotiated
         /\ prl'.sealed = prl.sealed
         /\ prl'.state = "HANDSHAKE" /\ prl'.hs_state = "VERIFY_HELLO"
  <1> DEFINE p == [Unsaved EXCEPT !.hs_state = "VERIFY_HELLO"]
  <1>1. HandshakePass /\ Sends(Record("hello"), p) /\ hist' = hist
    BY DEF SendHello
  <1>2. Handling("loop") /\ prl.state = "HANDSHAKE"
    BY <1>1, HandshakeFacts
  <1>3. Sending(Record("hello")) /\ prl' = p
    BY <1>1, <1>2, SendingFacts
  <1>4. p.key = prl.key /\ p.save_slave = prl.save_slave /\ p.handler = prl.handler
        /\ p.negotiated = prl.negotiated /\ p.sealed = prl.sealed
        /\ p.state = "HANDSHAKE" /\ p.hs_state = "VERIFY_HELLO"
        /\ p.saved = NoContext /\ p.configured = prl.configured
    BY <1>2, UnsavedFacts DEF Prl
  <1> HIDE DEF p
  <1>5. ~Reserve'.stored
    BY <1>1, <1>3, <1>4, HandshakeFacts DEF Reserve
  <1> QED BY <1>1, <1>2, <1>3, <1>4, <1>5

LEMMA HelloAcceptedEffect ==
  ASSUME SInv, HelloAccepted
  PROVE  /\ Sending([Record("finished") EXCEPT !.seq = answer.seq, !.key = Derived])
         /\ hist' = hist /\ prl.state = "HANDSHAKE" /\ prl.hs_state = "VERIFY_HELLO"
         /\ answer.type = "hello"
         /\ prl'.key = Derived /\ prl'.save_slave = answer.seq /\ ~Reserve'.stored
         /\ prl'.handler = prl.handler /\ prl'.negotiated = prl.negotiated
         /\ prl'.sealed = prl.sealed
         /\ prl'.state = "HANDSHAKE" /\ prl'.hs_state = "VERIFY_FINISHED"
  <1> DEFINE k == Derived
             p == [Unsaved EXCEPT !.hs_state = "VERIFY_FINISHED", !.key = k,
                                  !.save_slave = answer.seq]
             m == [Record("finished") EXCEPT !.seq = answer.seq, !.key = k]
  <1>1. HandshakePass /\ Sends(m, p) /\ hist' = hist /\ answer.type = "hello"
        /\ prl.hs_state = "VERIFY_HELLO"
    BY DEF HelloAccepted
  <1> HIDE DEF k, m
  <1>2. Handling("loop") /\ prl.state = "HANDSHAKE"
    BY <1>1, HandshakeFacts
  <1>3. Sending(m) /\ prl' = p
    BY <1>1, <1>2, SendingFacts
  <1>4. p.key = k /\ p.save_slave = answer.seq /\ p.handler = prl.handler
        /\ p.negotiated = prl.negotiated /\ p.sealed = prl.sealed
        /\ p.state = "HANDSHAKE" /\ p.hs_state = "VERIFY_FINISHED"
        /\ p.saved = NoContext /\ p.configured = prl.configured
    BY <1>2, UnsavedFacts DEF Prl
  <1> HIDE DEF p
  <1>5. ~Reserve'.stored
    BY <1>1, <1>3, <1>4, HandshakeFacts DEF Reserve
  <1> QED BY <1>1, <1>2, <1>3, <1>4, <1>5 DEF k, m

LEMMA FinishedEffect ==
  ASSUME SInv, FinishedAccepted
  PROVE  /\ Round /\ prl.state = "HANDSHAKE" /\ prl.hs_state = "VERIFY_FINISHED"
         /\ answer.type = "finished" /\ answer.intact /\ answer.key = prl.key
         /\ prl'.key = prl.key /\ prl'.save_slave = prl.save_slave /\ ~Reserve'.stored
         /\ prl'.handler = prl.handler /\ prl'.negotiated = TRUE /\ prl'.sealed = prl.sealed
         /\ prl'.state = "TXRX" /\ prl'.master = answer.seq
         /\ hist'.fresh = TRUE /\ hist'.lost = {} /\ hist'.current = hist.current
         /\ hist'.confirmed = hist.confirmed \cup {prl.key} /\ hist'.odd = hist.odd
         /\ hist'.outcome = hist.outcome /\ hist'.accepted = hist.accepted
         /\ hist'.sent_at_close = hist.sent_at_close
  <1> DEFINE p == [Unsaved EXCEPT !.master = answer.seq, !.negotiated = TRUE, !.state = "TXRX"]
  <1>1. HandshakePass /\ Again(p) /\ prl.hs_state = "VERIFY_FINISHED"
        /\ answer.type = "finished" /\ answer.intact /\ answer.key = prl.key
        /\ hist' = [hist EXCEPT !.fresh = TRUE, !.lost = {}, !.confirmed = @ \cup {prl.key}]
    BY DEF FinishedAccepted
  <1>2. Handling("loop") /\ prl.state = "HANDSHAKE"
    BY <1>1, HandshakeFacts
  <1>3. Round /\ prl' = p
    BY <1>1, <1>2, RoundFacts
  <1>4. p.key = prl.key /\ p.save_slave = prl.save_slave /\ p.handler = prl.handler
        /\ p.negotiated = TRUE /\ p.sealed = prl.sealed /\ p.master = answer.seq
        /\ p.state = "TXRX" /\ p.saved = NoContext /\ p.configured = prl.configured
    BY <1>2, UnsavedFacts DEF Prl
  <1> HIDE DEF p
  <1>5. ~Reserve'.stored
    BY <1>1, <1>3, <1>4, HandshakeFacts DEF Reserve
  <1>6. hist'.fresh = TRUE /\ hist'.lost = {} /\ hist'.current = hist.current
        /\ hist'.confirmed = hist.confirmed \cup {prl.key} /\ hist'.odd = hist.odd
        /\ hist'.outcome = hist.outcome /\ hist'.accepted = hist.accepted
        /\ hist'.sent_at_close = hist.sent_at_close
    BY <1>1, Parts DEF History
  <1> QED BY <1>1, <1>2, <1>3, <1>4, <1>5, <1>6

\* The history, but for the numbers used.
SameStory ==
  /\ hist'.current = hist.current /\ hist'.outcome = hist.outcome
  /\ hist'.accepted = hist.accepted /\ hist'.fresh = hist.fresh
  /\ hist'.confirmed = hist.confirmed /\ hist'.odd = hist.odd /\ hist'.lost = hist.lost
  /\ hist'.sent_at_close = hist.sent_at_close

LEMMA TxrxSendEffect ==
  ASSUME SInv, TxrxSend
  PROVE  /\ Sending(tx') /\ SameStory /\ prl.state = "TXRX" /\ prl'.state = "VERIFY"
         /\ prl'.key = prl.key /\ prl'.handler = prl.handler /\ Reserve' = Reserve
         /\ prl'.save_slave = prl.save_slave /\ prl'.negotiated = prl.negotiated
         /\ prl'.alert = prl.alert
         /\ (ProtectsMaster(i2c.level) => prl'.master = prl.master + 1)
         /\ (~ProtectsMaster(i2c.level) => prl'.master = prl.master)
         /\ tx'.type = "data" /\ tx'.level = i2c.level /\ tx'.intact = TRUE
         /\ tx'.of = (IF Sealed THEN 0 ELSE hist.current)
         /\ tx'.seq = (IF ProtectsMaster(i2c.level) THEN prl'.master ELSE 0)
         /\ tx'.key = (IF ProtectsMaster(i2c.level) THEN prl.key ELSE 0)
  <1> DEFINE q == Numbered
             p == [q EXCEPT !.state = "VERIFY"]
             m == Outgoing(q)
  <1>1. State("TXRX") /\ ~Renegotiates /\ Sends(m, p) /\ hist' = Numbers_used(hist, m)
        /\ store' = store
    BY DEF TxrxSend
  <1>2. q \in Prl /\ q.key = prl.key /\ q.saved = prl.saved
        /\ q.configured = prl.configured /\ q.handler = prl.handler
        /\ q.alert = prl.alert /\ q.save_slave = prl.save_slave
        /\ (ProtectsMaster(i2c.level) => q.master = prl.master + 1)
        /\ (~ProtectsMaster(i2c.level) => q = prl)
    BY <1>1, NumberedFacts
  <1>3. q.negotiated = prl.negotiated
    BY Parts DEF Numbered, Prl
  <1> HIDE DEF q
  <1>4. Handling("loop") /\ prl.state = "TXRX"
    BY <1>1 DEF State
  <1>5. Sending(m) /\ prl' = p /\ tx' = m
    BY <1>1, <1>4, SendingFacts DEF Sending
  <1>6. p.state = "VERIFY" /\ p.key = q.key /\ p.saved = q.saved /\ p.handler = q.handler
        /\ p.configured = q.configured /\ p.alert = q.alert /\ p.save_slave = q.save_slave
        /\ p.negotiated = q.negotiated /\ p.master = q.master
    BY <1>2 DEF Prl
  <1>7. m.type = "data" /\ m.level = i2c.level /\ m.intact = TRUE
        /\ m.of = (IF Sealed THEN 0 ELSE hist.current)
        /\ m.seq = (IF ProtectsMaster(i2c.level) THEN q.master ELSE 0)
        /\ m.key = (IF ProtectsMaster(i2c.level) THEN q.key ELSE 0)
    BY DEF Outgoing, Record
  <1>8. SameStory
    <2>1. CASE m.key = 0
      BY <1>1, <2>1 DEF Numbers_used, SameStory
    <2>2. CASE m.key # 0
      <3> DEFINE b == hist.reused \/ <<m.key, m.seq>> \in hist.numbers
      <3>1. hist' = [hist EXCEPT !.numbers = @ \cup {<<m.key, m.seq>>}, !.reused = b]
        BY <1>1, <2>2 DEF Numbers_used
      <3> HIDE DEF b, m
      <3> QED BY <3>1, Parts DEF SameStory, History
    <2> QED BY <2>1, <2>2
  <1> HIDE DEF p, m
  <1>9. Reserve' = Reserve
    BY <1>1, <1>2, <1>5, <1>6 DEF Reserve, Context
  <1> QED BY <1>2, <1>3, <1>4, <1>5, <1>6, <1>7, <1>8, <1>9

LEMMA VerifyAlertEffect ==
  ASSUME SInv, VerifyAlert
  PROVE  /\ Round /\ hist' = hist /\ Unmoved /\ prl.state = "VERIFY" /\ answer.type \in Alerts
         /\ prl'.save_slave = prl.save_slave /\ (prl'.negotiated => prl.negotiated)
         /\ prl'.state = "ALERT" /\ prl'.alert = "INVALID" /\ prl'.return_status # "SUCCESS"
  <1> DEFINE closes == \/ answer.type \notin {"fatal", "integrity"}
                       \/ answer.length # 1 /\ prl.negotiated
                       \/ prl.data_retransmit_counter = PRL_TRANS_REPEAT
                       \/ prl.restore_done /\ i2c.manage = "RESTORE"
             s == IF closes THEN "SESSION_ERROR" ELSE "STACK_ERROR"
             b == prl.negotiated /\ ~closes
             p == [prl EXCEPT !.state = "ALERT", !.alert = "INVALID", !.negotiated = b,
                              !.return_status = s]
  <1>1. Handling("loop") /\ prl.state = "VERIFY" /\ store' = store /\ hist' = hist
        /\ prl \in Prl /\ answer.type \in Alerts
    BY Parts DEF VerifyAlert, State, IsAlert
  <1>2. Again(p)
    <2>1. p = [prl EXCEPT !.state = "ALERT", !.alert = "INVALID",
                          !.negotiated = @ /\ ~closes, !.return_status = s]
      BY <1>1 DEF Prl
    <2> HIDE DEF p
    <2> QED BY <2>1 DEF VerifyAlert
  <1>3. s # "SUCCESS" /\ (b => prl.negotiated)
    OBVIOUS
  <1> HIDE DEF s, b
  <1>4. Round /\ prl' = p
    BY <1>1, <1>2, RoundFacts
  <1>5. p.state = "ALERT" /\ p.alert = "INVALID" /\ p.negotiated = b /\ p.return_status = s
        /\ p.key = prl.key /\ p.master = prl.master /\ p.handler = prl.handler
        /\ p.configured = prl.configured /\ p.saved = prl.saved
        /\ p.save_slave = prl.save_slave
    BY <1>1 DEF Prl
  <1> HIDE DEF p
  <1> QED BY <1>1, <1>3, <1>4, <1>5 DEF Unmoved

LEMMA UnreadableEffect ==
  ASSUME SInv, VerifyUnreadable
  PROVE  /\ Round /\ hist' = hist /\ Unmoved /\ prl.state = "VERIFY"
         /\ answer.type = "data" /\ answer.level = i2c.level /\ ProtectsSlave(i2c.level)
         /\ InWindow
         /\ prl'.save_slave = answer.seq /\ prl'.negotiated = prl.negotiated
         /\ prl'.state = "ALERT" /\ prl'.alert = "INTEGRITY"
  <1>1. Handling("loop") /\ prl.state = "VERIFY" /\ store' = store /\ hist' = hist
        /\ prl \in Prl /\ answer.type = "data" /\ answer.level = i2c.level
        /\ ProtectsSlave(i2c.level) /\ InWindow
    BY Parts DEF VerifyUnreadable, State, InSession, InHeader
  <1>2. Round /\ prl' = [prl EXCEPT !.save_slave = answer.seq, !.state = "ALERT",
                                    !.alert = "INTEGRITY"]
    BY <1>1, RoundFacts DEF VerifyUnreadable
  <1> QED BY <1>1, <1>2 DEF Prl, Unmoved

LEMMA AcceptedEffect ==
  ASSUME SInv, VerifyAccepted
  PROVE  /\ Round /\ Unmoved /\ prl.state = "VERIFY"
         /\ answer.type = "data" /\ answer.level = i2c.level /\ ProtectsSlave(i2c.level)
         /\ InWindow /\ answer.intact /\ answer.key = prl.key
         /\ prl'.save_slave = answer.seq /\ prl'.negotiated = prl.negotiated
         /\ prl'.state = "IDLE" /\ prl'.return_status = "SUCCESS"
         /\ hist' = [hist EXCEPT !.accepted = answer.of]
  <1>1. Handling("loop") /\ prl.state = "VERIFY" /\ store' = store
        /\ hist' = [hist EXCEPT !.accepted = answer.of]
        /\ prl \in Prl /\ answer.type = "data" /\ answer.level = i2c.level
        /\ ProtectsSlave(i2c.level) /\ InWindow /\ answer.intact /\ answer.key = prl.key
    BY Parts DEF VerifyAccepted, State, InSession, InHeader, Readable
  <1>2. Round /\ prl' = [prl EXCEPT !.save_slave = answer.seq, !.return_status = "SUCCESS",
                                    !.state = "IDLE"]
    BY <1>1, RoundFacts DEF VerifyAccepted
  <1> QED BY <1>1, <1>2 DEF Prl, Unmoved

LEMMA PlainEffect ==
  ASSUME SInv, VerifyPlain
  PROVE  /\ Round /\ hist' = hist /\ Unmoved /\ prl.state = "VERIFY"
         /\ answer.type = "data" /\ ~ProtectsSlave(i2c.level)
         /\ prl'.save_slave = prl.save_slave /\ prl'.negotiated = prl.negotiated
         /\ prl'.state = "IDLE" /\ prl'.return_status = "SUCCESS"
  <1>1. Handling("loop") /\ prl.state = "VERIFY" /\ store' = store /\ hist' = hist
        /\ prl \in Prl /\ answer.type = "data" /\ ~ProtectsSlave(i2c.level)
    BY Parts DEF VerifyPlain, State, InHeader
  <1>2. Round /\ prl' = [prl EXCEPT !.return_status = "SUCCESS", !.state = "IDLE"]
    BY <1>1, RoundFacts DEF VerifyPlain
  <1> QED BY <1>1, <1>2 DEF Prl, Unmoved

LEMMA RepeatEffect ==
  ASSUME SInv, AlertRepeat
  PROVE  /\ Round /\ hist' = hist /\ Unmoved /\ prl.state = "ALERT"
         /\ answer.type = "integrity" /\ ~i2c.re_establish
         /\ prl'.save_slave = prl.save_slave /\ prl'.negotiated = prl.negotiated
         /\ prl'.sealed = prl.sealed
         /\ prl'.state = "TXRX" /\ prl'.alert = "INTEGRITY" /\ prl'.trans_repeat = TRUE
  <1>1. Handling("loop") /\ prl.state = "ALERT" /\ store' = store /\ hist' = hist
        /\ prl \in Prl /\ answer.type = "integrity" /\ ~i2c.re_establish
    BY Parts DEF AlertRepeat, State, RepeatsRecord
  <1> DEFINE n == prl.data_retransmit_counter + 1
  <1>2. Round /\ prl' = [prl EXCEPT !.data_retransmit_counter = n,
                            !.trans_repeat = TRUE, !.alert = "INTEGRITY", !.state = "TXRX"]
    BY <1>1, RoundFacts DEF AlertRepeat
  <1> HIDE DEF n
  <1> QED BY <1>1, <1>2 DEF Prl, Unmoved

LEMMA AlertEndsEffect ==
  ASSUME SInv, Asked, AlertEnds
  PROVE  \/ Closes
         \/ /\ Round /\ hist' = hist /\ Unmoved /\ prl.state = "ALERT"
            /\ prl'.save_slave = prl.save_slave /\ prl'.negotiated = prl.negotiated
            /\ prl'.state = "ERROR" /\ prl'.alert = prl.alert
            /\ prl'.return_status = prl.return_status
  <1>1. Handling("loop") /\ prl.state = "ALERT" /\ store' = store /\ hist' = hist
        /\ prl \in Prl /\ Context(prl, store') = Reserve
    BY Parts DEF AlertEnds, State, Context, Reserve
  <1>2. CASE AlertTooOften
    BY <1>1, <1>2, PreparationCloses DEF AlertEnds
  <1>3. CASE ~AlertTooOften
    <2>1. Round /\ prl' = [prl EXCEPT !.state = "ERROR"]
      BY <1>1, <1>3, RoundFacts DEF AlertEnds
    <2> QED BY <1>1, <2>1 DEF Prl, Unmoved
  <1> QED BY <1>2, <1>3

LEMMA ErrorAlertEffect ==
  ASSUME SInv, ErrorAlert
  PROVE  /\ Sending(Alert("alert")) /\ hist' = hist /\ prl.state = "ERROR"
         /\ prl.alert = "INTEGRITY" /\ Unmoved
         /\ prl'.save_slave = prl.save_slave /\ prl'.negotiated = prl.negotiated
         /\ prl'.state = "VERIFY"
  <1>1. Handling("loop") /\ prl.state = "ERROR" /\ store' = store /\ hist' = hist
        /\ prl \in Prl /\ prl.alert = "INTEGRITY"
    BY Parts DEF ErrorAlert, State, Core, Controls, Prl
  <1> DEFINE n == prl.decryption_failure_counter + 1
             q == [prl EXCEPT !.alert = "INVALID"]
             p == [q EXCEPT !.decryption_failure_counter = n, !.state = "VERIFY",
                            !.return_status = "SUCCESS"]
  <1>2. q \in Prl /\ q.key = prl.key /\ q.master = prl.master /\ q.handler = prl.handler
        /\ q.configured = prl.configured /\ q.saved = prl.saved
        /\ q.save_slave = prl.save_slave /\ q.negotiated = prl.negotiated
        /\ q.decryption_failure_counter = prl.decryption_failure_counter
    BY <1>1 DEF Prl
  <1>3. Sends(Alert("alert"), p)
    <2> HIDE DEF n
    <2>1. n = q.decryption_failure_counter + 1
      BY <1>2 DEF n
    <2>2. p = [q EXCEPT !.decryption_failure_counter = @ + 1, !.state = "VERIFY",
                        !.return_status = "SUCCESS"]
      BY <1>2, <2>1 DEF Prl
    <2> HIDE DEF p
    <2> QED BY <1>1, <2>2 DEF ErrorAlert
  <1> HIDE DEF n, q
  <1>4. Sending(Alert("alert")) /\ prl' = p
    BY <1>1, <1>3, SendingFacts
  <1>5. p.state = "VERIFY" /\ p.key = q.key /\ p.master = q.master /\ p.handler = q.handler
        /\ p.configured = q.configured /\ p.saved = q.saved /\ p.save_slave = q.save_slave
        /\ p.negotiated = q.negotiated
    BY <1>2 DEF Prl
  <1> HIDE DEF p
  <1> QED BY <1>1, <1>2, <1>4, <1>5 DEF Unmoved

LEMMA ErrorEndsEffect ==
  ASSUME SInv, ErrorEnds
  PROVE  /\ Round /\ hist' = hist /\ Unmoved /\ prl.state = "ERROR" /\ prl.alert = "INVALID"
         /\ prl'.save_slave = prl.save_slave /\ prl'.negotiated = prl.negotiated
         /\ prl'.state = "IDLE" /\ prl'.return_status = prl.return_status
  <1>1. Handling("loop") /\ prl.state = "ERROR" /\ store' = store /\ hist' = hist
        /\ prl \in Prl /\ prl.alert = "INVALID"
    BY Parts DEF ErrorEnds, State
  <1>2. Round /\ prl' = [prl EXCEPT !.state = "IDLE"]
    BY <1>1, RoundFacts DEF ErrorEnds
  <1> QED BY <1>1, <1>2 DEF Prl, Unmoved

LEMMA ReestablishEffect ==
  ASSUME SInv, ManageReestablish
  PROVE  /\ Round /\ Unmoved /\ prl.state = "MANAGE_CONTEXT" /\ prl.mc_state = "TX"
         /\ i2c.re_establish /\ prl'.sealed = prl.sealed
         /\ prl'.save_slave = prl.save_slave /\ prl'.negotiated = prl.negotiated
         /\ prl'.state = "START"
         /\ hist'.current = hist.current /\ hist'.outcome = hist.outcome
         /\ hist'.accepted = hist.accepted /\ hist'.fresh = hist.fresh
         /\ hist'.confirmed = hist.confirmed /\ hist'.odd = hist.odd /\ hist'.lost = hist.lost
         /\ hist'.sent_at_close = (hist.sent_at_close \/ prl.handler = "close")
  <1>1. Handling("loop") /\ prl.state = "MANAGE_CONTEXT" /\ prl.mc_state = "TX"
        /\ store' = store /\ prl \in Prl /\ hist \in History /\ i2c.re_establish
        /\ Again([prl EXCEPT !.state = "START"])
    BY Parts DEF ManageReestablish, ManageTx, State
  <1> DEFINE b == hist.sent_at_close \/ prl.handler = "close"
  <1>2. hist' = [hist EXCEPT !.sent_at_close = b]
    BY <1>1 DEF ManageReestablish, History
  <1> HIDE DEF b
  <1>3. Round /\ prl' = [prl EXCEPT !.state = "START"]
    BY <1>1, RoundFacts
  <1>4. hist'.current = hist.current /\ hist'.outcome = hist.outcome
        /\ hist'.accepted = hist.accepted /\ hist'.fresh = hist.fresh
        /\ hist'.confirmed = hist.confirmed /\ hist'.odd = hist.odd /\ hist'.lost = hist.lost
        /\ hist'.sent_at_close = b
    BY <1>1, <1>2 DEF History
  <1>5. Unmoved /\ prl'.sealed = prl.sealed /\ prl'.save_slave = prl.save_slave
        /\ prl'.negotiated = prl.negotiated /\ prl'.state = "START"
    BY <1>1, <1>3 DEF Prl, Unmoved
  <1> QED BY <1>1, <1>3, <1>4, <1>5 DEF b

LEMMA SaveEffect ==
  ASSUME SInv, ManageSave
  PROVE  /\ Sending(Alert("save")) /\ hist' = hist /\ Unmoved /\ prl.state = "MANAGE_CONTEXT"
         /\ prl.mc_state = "TX" /\ ~i2c.re_establish /\ i2c.manage = "SAVE"
         /\ prl'.save_slave = prl.save_slave /\ prl'.negotiated = prl.negotiated
         /\ prl'.sealed = prl.sealed
         /\ prl'.state = "MANAGE_CONTEXT" /\ prl'.mc_state = "RX"
  <1> DEFINE p == [prl EXCEPT !.mc_state = "RX"]
  <1>1. Handling("loop") /\ prl.state = "MANAGE_CONTEXT" /\ prl.mc_state = "TX"
        /\ store' = store /\ hist' = hist /\ prl \in Prl /\ ~i2c.re_establish
        /\ i2c.manage = "SAVE" /\ Sends(Alert("save"), p)
    BY Parts DEF ManageSave, ManageTx, State
  <1>2. Sending(Alert("save")) /\ prl' = p
    BY <1>1, SendingFacts
  <1> QED BY <1>1, <1>2 DEF Prl, Unmoved

LEMMA NothingSavedEffect ==
  ASSUME SInv, ManageNothingSaved
  PROVE  /\ Round /\ hist' = hist /\ prl.state = "MANAGE_CONTEXT" /\ i2c.manage = "RESTORE"
         /\ prl'.key = prl.key /\ prl'.handler = prl.handler /\ prl'.sealed = prl.sealed
         /\ prl'.save_slave = prl.save_slave /\ prl'.negotiated = FALSE
         /\ prl'.state = "START" /\ ~Reserve'.stored
  <1> DEFINE q == ReadFromStore
             p == [q EXCEPT !.state = "START", !.negotiated = FALSE, !.restore_done = TRUE]
  <1>1. Handling("loop") /\ prl.state = "MANAGE_CONTEXT" /\ i2c.manage = "RESTORE"
        /\ store' = store /\ hist' = hist /\ prl \in Prl /\ ~q.saved.stored /\ Again(p)
    BY Parts DEF ManageNothingSaved, Restoring, ManageTx, State
  <1>2. q \in Prl /\ q.saved = Context(prl, store) /\ q.key = prl.key
        /\ q.configured = prl.configured /\ q.handler = prl.handler
    BY ReadFacts
  <1>3. q.sealed = prl.sealed /\ q.save_slave = prl.save_slave
    BY <1>1 DEF ReadFromStore, Prl
  <1> HIDE DEF q
  <1>4. Round /\ prl' = p
    BY <1>1, RoundFacts
  <1>5. p.key = q.key /\ p.handler = q.handler /\ p.sealed = q.sealed /\ p.saved = q.saved
        /\ p.save_slave = q.save_slave /\ p.negotiated = FALSE /\ p.state = "START"
        /\ p.configured = q.configured
    BY <1>2 DEF Prl
  <1> HIDE DEF p
  <1>6. ~Reserve'.stored
    BY <1>1, <1>2, <1>4, <1>5 DEF Reserve, Context
  <1> QED BY <1>1, <1>2, <1>3, <1>4, <1>5, <1>6

LEMMA RestoreEffect ==
  ASSUME SInv, ManageRestore
  PROVE  /\ Sending([Record("restore") EXCEPT !.seq = Reserve.slave]) /\ hist' = hist
         /\ prl.state = "MANAGE_CONTEXT" /\ i2c.manage = "RESTORE"
         /\ Reserve.stored /\ ~i2c.re_establish
         /\ prl'.key = prl.key /\ prl'.handler = prl.handler /\ prl'.sealed = prl.sealed
         /\ prl'.save_slave = prl.save_slave /\ ~Reserve'.stored
         /\ prl'.saved.key = Reserve.key /\ prl'.saved.master = Reserve.master
         /\ prl'.saved.slave = Reserve.slave
         /\ prl'.state = "MANAGE_CONTEXT" /\ prl'.mc_state = "RX"
  <1> DEFINE q == ReadFromStore
             c == [q.saved EXCEPT !.stored = FALSE]
             b == q.saved.negotiated
             p == [q EXCEPT !.negotiated = b, !.saved = c, !.mc_state = "RX"]
             m == [Record("restore") EXCEPT !.seq = q.saved.slave]
  <1>1. Handling("loop") /\ prl.state = "MANAGE_CONTEXT" /\ i2c.manage = "RESTORE"
        /\ Kept_in_store(NoContext) /\ hist' = hist /\ prl \in Prl /\ q.saved.stored
        /\ ~i2c.re_establish
    BY Parts DEF ManageRestore, Restoring, ManageTx, State
  <1>2. q \in Prl /\ q.saved = Reserve /\ q.key = prl.key /\ q.saved \in Kept
        /\ q.configured = prl.configured /\ q.handler = prl.handler /\ q.state = prl.state
    BY ReadFacts DEF Reserve
  <1>3. q.sealed = prl.sealed /\ q.save_slave = prl.save_slave
    BY <1>1 DEF ReadFromStore, Prl
  <1>4. Sends(m, p)
    <2>1. p = [q EXCEPT !.negotiated = q.saved.negotiated, !.saved.stored = FALSE,
                        !.mc_state = "RX"]
      BY <1>2 DEF Prl, Kept
    <2> HIDE DEF p
    <2> QED BY <2>1 DEF ManageRestore
  <1> HIDE DEF q
  <1>5. Sending(m) /\ prl' = p
    BY <1>1, <1>4, SendingFacts
  <1>6. c.stored = FALSE /\ c.key = q.saved.key /\ c.master = q.saved.master
        /\ c.slave = q.saved.slave
    BY <1>2 DEF Kept
  <1> HIDE DEF c, b
  <1>7. p.key = q.key /\ p.handler = q.handler /\ p.sealed = q.sealed /\ p.saved = c
        /\ p.save_slave = q.save_slave /\ p.state = q.state /\ p.mc_state = "RX"
        /\ p.configured = q.configured
    BY <1>2 DEF Prl
  <1> HIDE DEF p
  <1>8. ~Reserve'.stored
    BY <1>1, <1>2, <1>5, <1>6, <1>7, NoContextFacts DEF Reserve, Context, Kept_in_store
  <1> QED BY <1>1, <1>2, <1>3, <1>5, <1>6, <1>7, <1>8

LEMMA RestoredEffect ==
  ASSUME SInv, ManageRestored
  PROVE  /\ Round /\ hist' = hist /\ Renewing /\ answer.type = "restored"
         /\ prl'.key = prl.saved.key /\ prl'.master = prl.saved.master
         /\ prl'.save_slave = prl.saved.slave
         /\ prl'.handler = prl.handler /\ prl'.sealed = prl.sealed /\ Reserve' = Reserve
         /\ prl'.state = "TXRX"
  <1> DEFINE q == Restored(prl)
             p == [q EXCEPT !.restore_done = TRUE, !.state = "TXRX", !.return_status = "SUCCESS"]
  <1>1. Handling("loop") /\ Renewing /\ answer.type = "restored" /\ Again(p)
        /\ store' = store /\ hist' = hist /\ prl \in Prl
    BY Parts DEF ManageRestored, ManageRx, State, IsRestored, Renewing, Waits
  <1>2. prl.saved.key \in Nat /\ prl.saved.master \in Masters /\ prl.saved.slave \in Slaves
        /\ prl.saved.failures \in 0 .. R /\ prl.saved.repeats \in 0 .. R
        /\ prl.saved.negotiated \in BOOLEAN
    BY <1>1 DEF Prl, Kept
  <1>3. q \in Prl /\ q.key = prl.saved.key /\ q.master = prl.saved.master
        /\ q.save_slave = prl.saved.slave /\ q.handler = prl.handler
        /\ q.sealed = prl.sealed /\ q.saved = prl.saved /\ q.configured = prl.configured
    BY <1>1, <1>2 DEF Restored, Prl
  <1> HIDE DEF q
  <1>4. Round /\ prl' = p
    BY <1>1, RoundFacts
  <1>5. p.key = q.key /\ p.master = q.master /\ p.save_slave = q.save_slave
        /\ p.handler = q.handler /\ p.sealed = q.sealed /\ p.saved = q.saved
        /\ p.configured = q.configured /\ p.state = "TXRX"
    BY <1>3 DEF Prl
  <1> HIDE DEF p
  <1>6. Reserve' = Reserve
    BY <1>1, <1>3, <1>4, <1>5 DEF Reserve, Context
  <1> QED BY <1>1, <1>3, <1>4, <1>5, <1>6

LEMMA SavedEffect ==
  ASSUME SInv, ManageSaved
  PROVE  /\ Round /\ hist' = hist /\ Waits /\ i2c.manage = "SAVE" /\ answer.type = "saved"
         /\ prl'.key = 0 /\ prl'.handler = prl.handler /\ prl'.negotiated = prl.negotiated
         /\ Reserve'.key = prl.key /\ Reserve'.master = prl.master
         /\ Reserve'.slave = prl.save_slave
         /\ prl'.state = "IDLE" /\ prl'.return_status = "SUCCESS"
  <1> DEFINE c == Saved(prl)
             q == Cleared(prl)
             p == [q EXCEPT !.saved = c, !.return_status = "SUCCESS"]
  <1>1. Handling("loop") /\ Waits /\ i2c.manage = "SAVE" /\ answer.type = "saved"
        /\ Again(p) /\ Kept_in_store(c) /\ hist' = hist /\ prl \in Prl
    BY Parts DEF ManageSaved, ManageRx, State, IsSaved, Waits
  <1>2. c \in Kept /\ c.key = prl.key /\ c.master = prl.master /\ c.slave = prl.save_slave
    BY <1>1, SavedFacts DEF Saved
  <1> HIDE DEF c
  <1>3. q \in Prl /\ q.key = 0 /\ q.handler = prl.handler /\ q.negotiated = prl.negotiated
        /\ q.state = "IDLE" /\ q.configured = prl.configured
    <2>1. 0 \in Masters /\ 0 \in Slaves /\ 0 \in 0 .. R
      BY NoContextFacts DEF NoContext, Kept
    <2> QED BY <1>1, <2>1 DEF Cleared, Prl, PrlStates
  <1> HIDE DEF q
  <1>4. Round /\ prl' = p
    BY <1>1, RoundFacts
  <1>5. p.key = q.key /\ p.handler = q.handler /\ p.negotiated = q.negotiated
        /\ p.saved = c /\ p.configured = q.configured /\ p.state = q.state
        /\ p.return_status = "SUCCESS"
    BY <1>3 DEF Prl
  <1> HIDE DEF p
  <1>6. Reserve' = c
    BY <1>1, <1>3, <1>4, <1>5 DEF Reserve, Context, Kept_in_store
  <1> QED BY <1>1, <1>2, <1>3, <1>4, <1>5, <1>6

-----------------------------------------------------------------------------
(* ... and the steps outside the switch                                     *)

LEMMA EnterErrorEffect ==
  ASSUME SInv, Asked, EnterError
  PROVE  /\ event.phase = "error" /\ event'.phase = "loop" /\ answer' = answer
         /\ comms' = comms /\ i2c' = i2c /\ tl' = tl /\ tl = "idle" /\ tx' = tx /\ dev' = dev
         /\ comms = "INUSE" /\ i2c.reset_state = "none"
         /\ hist' = hist /\ Unmoved /\ prl'.save_slave = prl.save_slave
         /\ prl'.state = "ERROR" /\ prl'.alert = "INVALID" /\ prl'.return_status # "SUCCESS"
         /\ (prl'.negotiated => prl.negotiated /\ event.status = "MEM_ERROR")
  <1> DEFINE closes == /\ prl.state # "HANDSHAKE" /\ prl.negotiated
                       /\ event.status # "MEM_ERROR"
             s == IF prl.state = "HANDSHAKE" THEN "HANDSHAKE_ERROR"
                  ELSE IF closes THEN "SESSION_ERROR" ELSE event.status
             b == prl.negotiated /\ ~closes
             p == [prl EXCEPT !.alert = "INVALID", !.state = "ERROR",
                              !.return_status = s, !.negotiated = b]
  <1>1. event.phase = "error" /\ event' = [event EXCEPT !.phase = "loop"]
        /\ comms' = comms /\ i2c' = i2c /\ store' = store /\ tl' = tl /\ tx' = tx
        /\ dev' = dev /\ hist' = hist /\ prl \in Prl
    BY Parts DEF EnterError, lower, Handling
  <1>2. prl' = p
    <2>1. p = [prl EXCEPT !.alert = "INVALID", !.state = "ERROR",
                          !.return_status = s, !.negotiated = @ /\ ~closes]
      BY <1>1 DEF Prl
    <2> HIDE DEF p
    <2> QED BY <2>1 DEF EnterError
  <1>3. s # "SUCCESS"
    BY <1>1 DEF Asked, Turn, Handling
  <1>4. b => prl.negotiated /\ event.status = "MEM_ERROR"
    BY <1>1 DEF Asked, Course
  <1> HIDE DEF s, b
  <1>5. p.alert = "INVALID" /\ p.state = "ERROR" /\ p.return_status = s /\ p.negotiated = b
        /\ p.key = prl.key /\ p.master = prl.master /\ p.handler = prl.handler
        /\ p.configured = prl.configured /\ p.saved = prl.saved
        /\ p.save_slave = prl.save_slave
    BY <1>1 DEF Prl
  <1> HIDE DEF p
  <1>6. event'.phase = "loop" /\ answer' = answer
    BY <1>1, Parts DEF Events, answer
  <1>7. tl = "idle" /\ comms = "INUSE" /\ i2c.reset_state = "none"
    BY <1>1, Parts DEF Usable, Handling
  <1> QED BY <1>1, <1>2, <1>3, <1>4, <1>5, <1>6, <1>7 DEF Unmoved

LEMMA IdleEffect ==
  ASSUME SInv, Idle
  PROVE  /\ event.phase = "loop" /\ event'.phase = "report" /\ answer'.type = "none"
         /\ prl.state = "IDLE" /\ prl' = prl /\ comms' = comms /\ store' = store
         /\ tl' = tl /\ tl = "idle" /\ tx' = tx /\ comms = "INUSE"
         /\ i2c.reset_state = "none" /\ i2c'.reset_state = "none"
         /\ i2c'.level = i2c.level /\ i2c'.re_establish = i2c.re_establish
         /\ i2c'.manage = i2c.manage /\ i2c'.state = i2c.state
         /\ (prl.handler = "close" => dev' = DeviceOff(dev))
         /\ (prl.handler # "close" => dev' = dev)
         /\ hist' = Told(hist, prl.return_status)
  <1>1. event.phase = "loop" /\ prl.state = "IDLE" /\ prl' = prl /\ comms' = comms
        /\ store' = store /\ tl' = tl /\ tx' = tx /\ hist' = Told(hist, prl.return_status)
        /\ event' = [event EXCEPT !.phase = "report", !.status = prl.return_status,
                                  !.answer = NoRecord]
        /\ (prl.handler = "close" => i2c' = PowerOff(i2c) /\ dev' = DeviceOff(dev))
        /\ (prl.handler # "close" => i2c' = i2c /\ dev' = dev)
    BY DEF Idle, State, Handling
  <1>2. event'.phase = "report" /\ answer'.type = "none"
    BY <1>1, Parts, RecordFacts DEF Events, answer
  <1>3. tl = "idle" /\ comms = "INUSE" /\ i2c.reset_state = "none"
    BY <1>1, Parts DEF Usable, Handling
  <1>4. i2c'.level = i2c.level /\ i2c'.re_establish = i2c.re_establish
        /\ i2c'.manage = i2c.manage /\ i2c'.state = i2c.state
        /\ i2c'.reset_state = i2c.reset_state
    BY <1>1, Parts DEF PowerOff, I2C
  <1> QED BY <1>1, <1>2, <1>3, <1>4

LEMMA ReturnsEffect ==
  ASSUME SInv, HandlerReturns
  PROVE  /\ event.phase = "report" /\ event'.phase = "none" /\ answer'.type = "none"
         /\ prl.state = "IDLE" /\ prl' = prl /\ comms' = "FREE" /\ store' = store
         /\ tl' = tl /\ tl = "idle" /\ tx' = tx /\ dev' = dev /\ hist' = hist
         /\ i2c'.reset_state = i2c.reset_state
         /\ i2c'.level = i2c.level /\ i2c'.re_establish = i2c.re_establish
         /\ i2c'.manage = i2c.manage
  <1>1. event.phase = "report" /\ event' = NoEvent /\ prl' = prl /\ comms' = "FREE"
        /\ store' = store /\ tl' = tl /\ tx' = tx /\ dev' = dev /\ hist' = hist
    BY DEF HandlerReturns, Handling, lower
  <1>2. prl.state = "IDLE" /\ tl = "idle"
    BY <1>1, Parts DEF Called, Usable, Handling
  <1>3. event'.phase = "none" /\ answer'.type = "none"
    BY <1>1, NoEventFacts, RecordFacts DEF answer
  <1>4. i2c'.level = i2c.level /\ i2c'.re_establish = i2c.re_establish
        /\ i2c'.manage = i2c.manage /\ i2c'.reset_state = i2c.reset_state
    <2> DEFINE s == IF i2c.state = "UNINIT" /\ event.status = "SUCCESS" THEN "IDLE" ELSE i2c.state
               c == [i2c EXCEPT !.close_state = event.status, !.status = "NOT_BUSY", !.state = s]
    <2>1. i2c' = i2c \/ i2c' = Busy_after_call(c)
      <3>1. c = [i2c EXCEPT !.close_state = event.status, !.status = "NOT_BUSY",
                      !.state = IF @ = "UNINIT" /\ event.status = "SUCCESS" THEN "IDLE" ELSE @]
        BY Parts DEF I2C
      <3> HIDE DEF c
      <3> QED BY <3>1 DEF HandlerReturns
    <2>2. s \in {"UNINIT", "IDLE"} /\ event.status \in Statuses
      BY Parts DEF I2C, Events
    <2> HIDE DEF s
    <2>3. c \in I2C /\ c.level = i2c.level /\ c.re_establish = i2c.re_establish
          /\ c.manage = i2c.manage /\ c.reset_state = i2c.reset_state
      BY <2>2, Parts DEF I2C
    <2> HIDE DEF c
    <2> QED BY <2>1, <2>3 DEF Busy_after_call, I2C
  <1> QED BY <1>1, <1>2, <1>3, <1>4

\* What a reset does not make the device forget.
Remembers(d, e) ==
  /\ e.saved_key = d.saved_key /\ e.saved_master = d.saved_master
  /\ e.saved_slave = d.saved_slave /\ e.last = d.last /\ e.executed = d.executed
  /\ e.times = d.times /\ e.garbled = d.garbled /\ e.sessions = d.sessions

LEMMA ResetRemembers ==
  ASSUME NEW d \in Device
  PROVE  /\ Remembers(d, DeviceReset(d)) /\ DeviceReset(d).on = d.on
         /\ DeviceReset(d).key = 0 /\ DeviceReset(d).pending = 0
         /\ Remembers(d, DeviceOff(d)) /\ DeviceOff(d).on = FALSE
         /\ DeviceOff(d).key = 0 /\ DeviceOff(d).pending = 0
  <1> DEFINE e == DeviceReset(d)
  <1>1. e \in Device /\ Remembers(d, e) /\ e.on = d.on /\ e.key = 0 /\ e.pending = 0
    BY DEF DeviceReset, Device, Remembers
  <1>2. DeviceOff(d) = [e EXCEPT !.on = FALSE]
    BY DEF DeviceOff
  <1> HIDE DEF e
  <1>3. Remembers(d, DeviceOff(d)) /\ DeviceOff(d).on = FALSE
        /\ DeviceOff(d).key = 0 /\ DeviceOff(d).pending = 0
    BY <1>1, <1>2 DEF Device, Remembers
  <1> QED BY <1>1, <1>3 DEF e

\* The communication layer was free, and a call is made.
Calls ==
  /\ comms = "FREE" /\ event.phase = "none" /\ tl = "idle" /\ i2c.reset_state = "none"
  /\ prl.state \in {"IDLE", "UNINIT"} /\ answer.type = "none"
  /\ store' = store /\ tx' = tx

LEMMA CallsFacts ==
  ASSUME SInv, Asked, NotInUse, store' = store, tx' = tx
  PROVE  Calls
  <1>1. answer.type = "none"
    BY CallFacts DEF Asked, Powered, Handling
  <1> QED BY <1>1, CallFacts DEF Calls

LEMMA OpenEffect ==
  ASSUME SInv, Asked, NEW manage, CommsOpen(manage)
  PROVE  /\ Calls /\ comms' = "INUSE" /\ event' = event /\ tl' = tl /\ prl' = prl /\ hist' = hist
         /\ i2c'.reset_state = "PIN_HIGH" /\ i2c'.level = i2c.level
         /\ i2c'.re_establish = i2c.re_establish
         /\ dev' = DeviceOff(dev)
  <1>1. NotInUse /\ comms' = "INUSE" /\ event' = event /\ tl' = tl /\ prl' = prl
        /\ hist' = hist /\ dev' = DeviceOff(dev) /\ store' = store /\ tx' = tx
        /\ i2c' = [i2c EXCEPT !.manage = manage, !.state = "UNINIT", !.status = "BUSY",
                              !.reset_state = "PIN_HIGH"]
    BY DEF CommsOpen, Call
  <1>2. i2c'.reset_state = "PIN_HIGH" /\ i2c'.level = i2c.level
        /\ i2c'.re_establish = i2c.re_establish
    BY <1>1, Parts DEF I2C
  <1> QED BY <1>1, <1>2, CallsFacts

\* The layers are initialised, and the transport layer has begun its part.
Initialises ==
  /\ prl'.state = "IDLE" /\ prl'.handler = "tl" /\ prl'.negotiated = FALSE
  /\ prl'.key = prl.key /\ prl'.save_slave = prl.save_slave /\ Reserve' = Reserve
  /\ tl' = "init"

LEMMA InitialisesFacts ==
  ASSUME SInv, prl' = Prl_init(prl, i2c.manage), store' = store, tl' = "init"
  PROVE  Initialises
  <1>1. i2c.manage \in {"NONE", "SAVE", "RESTORE"}
    BY Parts DEF I2C
  <1>2. prl'.state = "IDLE" /\ prl'.handler = "tl" /\ prl'.key = prl.key
        /\ prl'.saved = prl.saved /\ prl'.configured = prl.configured
    BY <1>1, InitFacts
  <1>3. prl'.negotiated = FALSE /\ prl'.save_slave = prl.save_slave
    <2> DEFINE b == i2c.manage # "RESTORE"
               q == [prl EXCEPT !.handler = "tl", !.restore_done = b, !.state = "IDLE"]
    <2>1. b \in BOOLEAN
      OBVIOUS
    <2>2. prl' = [q EXCEPT !.negotiated = FALSE, !.return_status = "SUCCESS",
                           !.hs_state = "SEND_HELLO", !.alert = "DEFAULT"]
      BY DEF Prl_init
    <2> HIDE DEF b
    <2>3. q \in Prl /\ q.save_slave = prl.save_slave
      BY <2>1, Parts DEF Prl, PrlStates
    <2> HIDE DEF q
    <2> QED BY <2>2, <2>3 DEF Prl
  <1>4. Reserve' = Reserve
    BY <1>2 DEF Reserve, Context
  <1> QED BY <1>2, <1>3, <1>4 DEF Initialises

LEMMA ResetEffect ==
  ASSUME SInv, Asked, NEW type, CommsReset(type)
  PROVE  /\ Calls /\ comms' = "INUSE" /\ event' = event /\ hist' = hist
         /\ i2c'.level = i2c.level /\ i2c'.re_establish = i2c.re_establish
         /\ prl.state = "IDLE" /\ prl.handler # "close"
         /\ \/ Initialises /\ i2c'.reset_state = "none" /\ dev' = DeviceReset(dev)
            \/ /\ prl' = prl /\ tl' = tl /\ i2c'.reset_state = "PIN_HIGH"
               /\ dev' \in {DeviceOff(dev), DeviceReset(dev)}
  <1>1. NotInUse /\ comms' = "INUSE" /\ event' = event
        /\ hist' = hist /\ store' = store /\ tx' = tx /\ i2c.state = "IDLE"
    BY DEF CommsReset, Call
  <1>2. Calls /\ prl.state = "IDLE" /\ prl.handler # "close" /\ i2c.reset_state = "none"
    BY <1>1, CallsFacts, CallFacts
  <1>3. CASE type = "SOFT"
    <2>1. prl' = Prl_init(prl, i2c.manage) /\ tl' = "init"
          /\ i2c' = [i2c EXCEPT !.status = "BUSY"] /\ dev' = DeviceReset(dev)
      BY <1>3 DEF CommsReset
    <2>2. i2c'.level = i2c.level /\ i2c'.re_establish = i2c.re_establish
          /\ i2c'.reset_state = i2c.reset_state
      BY <2>1, Parts DEF I2C
    <2> QED BY <1>1, <1>2, <2>1, <2>2, InitialisesFacts
  <1>4. CASE type # "SOFT"
    <2>1. prl' = prl /\ tl' = tl
          /\ i2c' = [i2c EXCEPT !.status = "BUSY", !.reset_state = "PIN_HIGH"]
          /\ (dev' = DeviceOff(dev) \/ dev' = DeviceReset(dev))
      BY <1>4 DEF CommsReset
    <2>2. i2c'.level = i2c.level /\ i2c'.re_establish = i2c.re_establish
          /\ i2c'.reset_state = "PIN_HIGH"
      BY <2>1, Parts DEF I2C
    <2> QED BY <1>1, <1>2, <2>1, <2>2
  <1> QED BY <1>3, <1>4

LEMMA TimerEffect ==
  ASSUME SInv, Asked, InitTimer
  PROVE  /\ event.phase = "none" /\ i2c.reset_state # "none" /\ tl = "idle" /\ comms = "INUSE"
         /\ answer.type = "none"
         /\ comms' = comms /\ event' = event /\ hist' = hist /\ tx' = tx
         /\ i2c'.level = i2c.level /\ i2c'.re_establish = i2c.re_establish
         /\ i2c'.manage = i2c.manage
         /\ \/ /\ prl' = prl /\ store' = store /\ tl' = tl /\ i2c'.reset_state = "INIT"
               /\ dev' = [dev EXCEPT !.on = TRUE]
            \/ /\ Initialises /\ i2c.reset_state = "INIT" /\ i2c'.reset_state = "none"
               /\ dev' = dev
  <1>1. event.phase = "none" /\ i2c.reset_state # "none" /\ comms' = comms
        /\ event' = event /\ hist' = hist /\ tx' = tx /\ store' = store
    BY DEF InitTimer, Handling
  <1>2. tl = "idle" /\ comms = "INUSE" /\ answer.type = "none"
    BY <1>1, Parts DEF Usable, Handling, Asked, Powered
  <1>3. CASE i2c.reset_state = "PIN_HIGH"
    <2>1. i2c' = [i2c EXCEPT !.reset_state = "INIT"] /\ dev' = [dev EXCEPT !.on = TRUE]
          /\ prl' = prl /\ tl' = tl
      BY <1>3 DEF InitTimer
    <2> QED BY <1>1, <1>2, <2>1, Parts DEF I2C
  <1>4. CASE i2c.reset_state # "PIN_HIGH"
    <2>1. i2c' = [i2c EXCEPT !.reset_state = "none"] /\ dev' = dev
          /\ prl' = Prl_init(prl, i2c.manage) /\ tl' = "init"
      BY <1>4 DEF InitTimer
    <2>2. i2c.reset_state = "INIT"
      BY <1>1, <1>4, Parts DEF I2C
    <2> QED BY <1>1, <1>2, <2>1, <2>2, InitialisesFacts, Parts DEF I2C
  <1> QED BY <1>3, <1>4

LEMMA TransceiveEffect ==
  ASSUME SInv, Asked, NEW level \in Levels, NEW re \in BOOLEAN, NEW manage \in {i2c.manage, "NONE"},
         CommsTransceive(level, re, manage)
  PROVE  /\ Calls /\ comms' = "INUSE" /\ tl' = tl /\ dev' = dev /\ Unmoved
         /\ event'.phase = "loop" /\ answer'.type = "none"
         /\ i2c'.level = level /\ i2c'.re_establish = re /\ i2c'.manage = manage
         /\ i2c'.reset_state = "none"
         /\ prl.state = "IDLE" /\ prl.handler = "tl"
         /\ prl'.sealed = FALSE /\ prl'.negotiated = prl.negotiated
         /\ prl'.save_slave = prl.save_slave
         /\ \/ prl'.state = "START"
            \/ prl'.state = "MANAGE_CONTEXT" /\ prl'.mc_state = "TX" /\ manage = "RESTORE"
         /\ hist'.current = hist.current + 1 /\ hist'.outcome = "pending"
         /\ hist'.accepted = 0 /\ hist'.fresh = FALSE /\ hist'.odd = FALSE
         /\ hist'.lost = hist.lost /\ hist'.confirmed = hist.confirmed
         /\ hist'.sent_at_close = hist.sent_at_close
  <1> DEFINE p == [prl EXCEPT !.sealed = FALSE, !.data_retransmit_counter = 0,
                     !.trans_repeat = FALSE, !.decryption_failure_counter = 0,
                     !.return_status = "SUCCESS", !.alert = "DEFAULT"]
  <1>1. NotInUse /\ comms' = "INUSE" /\ i2c.state = "IDLE" /\ prl.state = "IDLE"
        /\ i2c' = [i2c EXCEPT !.level = level, !.re_establish = re, !.manage = manage]
        /\ event' = [NoEvent EXCEPT !.phase = "loop", !.call = "transceive"]
        /\ hist' = [hist EXCEPT !.current = @ + 1, !.outcome = "pending", !.accepted = 0,
                      !.fresh = FALSE, !.odd = FALSE]
        /\ store' = store /\ tl' = tl /\ tx' = tx /\ dev' = dev
    BY DEF CommsTransceive, Call, lower
  <1>2. \/ prl' = [p EXCEPT !.state = "START"]
        \/ /\ prl' = [p EXCEPT !.state = "MANAGE_CONTEXT", !.mc_state = "TX"]
           /\ manage = "RESTORE"
    BY DEF CommsTransceive
  <1>3. Calls /\ prl.handler # "close" /\ i2c.reset_state = "none"
    BY <1>1, CallsFacts, CallFacts
  <1>4. prl.handler = "tl"
    BY <1>3, Parts DEF Prl
  <1>5. p \in Prl /\ p.key = prl.key /\ p.master = prl.master /\ p.handler = prl.handler
        /\ p.configured = prl.configured /\ p.saved = prl.saved /\ p.sealed = FALSE
        /\ p.negotiated = prl.negotiated /\ p.save_slave = prl.save_slave
    <2>1. 0 \in 0 .. R
      BY ConstantFacts
    <2> QED BY <2>1, Parts DEF Prl, Statuses
  <1> HIDE DEF p
  <1>6. /\ Unmoved /\ prl'.sealed = FALSE /\ prl'.negotiated = prl.negotiated
        /\ prl'.save_slave = prl.save_slave
        /\ \/ prl'.state = "START"
           \/ prl'.state = "MANAGE_CONTEXT" /\ prl'.mc_state = "TX" /\ manage = "RESTORE"
    BY <1>1, <1>2, <1>5 DEF Prl, Unmoved
  <1>7. event'.phase = "loop" /\ answer'.type = "none"
    BY <1>1, NoEventFacts, RecordFacts DEF Events, answer
  <1>8. i2c'.level = level /\ i2c'.re_establish = re /\ i2c'.manage = manage
        /\ i2c'.reset_state = "none"
    BY <1>1, <1>3, Parts DEF I2C
  <1>9. /\ hist'.current = hist.current + 1 /\ hist'.outcome = "pending"
        /\ hist'.accepted = 0 /\ hist'.fresh = FALSE /\ hist'.odd = FALSE
        /\ hist'.lost = hist.lost /\ hist'.confirmed = hist.confirmed
        /\ hist'.sent_at_close = hist.sent_at_close
    BY <1>1, Parts DEF History
  <1> QED BY <1>1, <1>3, <1>4, <1>6, <1>7, <1>8, <1>9

LEMMA CloseEffect ==
  ASSUME SInv, Asked, NEW manage \in {"NONE", "SAVE"}, CommsClose(manage)
  PROVE  /\ Calls /\ tl' = tl /\ hist' = hist /\ Reserve' = Reserve
         /\ i2c'.level = i2c.level /\ i2c'.re_establish = i2c.re_establish
         /\ i2c'.manage = manage /\ i2c'.reset_state = "none"
         /\ prl'.key = prl.key /\ prl'.save_slave = prl.save_slave
         /\ prl'.negotiated = prl.negotiated /\ prl'.master = prl.master
         /\ answer'.type = "none"
         /\ \/ /\ prl.state = "IDLE" /\ prl'.state = "IDLE" /\ prl'.handler = "close"
               /\ dev' = DeviceOff(dev) /\ event'.phase \in {"report", "none"}
            \/ /\ prl.state = "IDLE" /\ prl'.state = "MANAGE_CONTEXT" /\ prl'.mc_state = "TX"
               /\ prl'.handler = "close" /\ prl.negotiated /\ manage = "SAVE"
               /\ dev' = dev /\ event'.phase = "loop"
            \/ /\ prl.state = "UNINIT" /\ prl' = prl /\ dev' = DeviceOff(dev)
               /\ event'.phase = "none"
  <1> DEFINE c == [i2c EXCEPT !.manage = manage, !.close_state = "STACK_ERROR",
                              !.state = "UNINIT"]
             pc == [prl EXCEPT !.handler = "close"]
             ps == [prl EXCEPT !.handler = "close", !.state = "MANAGE_CONTEXT",
                               !.mc_state = "TX"]
             closes == prl.state = "IDLE" /\ manage = "NONE"
             saves  == prl.state = "IDLE" /\ manage = "SAVE" /\ prl.negotiated
  <1>1. NotInUse /\ store' = store /\ tl' = tl /\ tx' = tx /\ hist' = hist
    BY DEF CommsClose, Call
  <1>2. Calls /\ i2c.reset_state = "none" /\ prl.state \in {"IDLE", "UNINIT"}
        /\ event.phase = "none" /\ answer.type = "none" /\ prl \in Prl
    BY <1>1, CallsFacts, Parts DEF Calls
  <1>3. c \in I2C /\ c.level = i2c.level /\ c.re_establish = i2c.re_establish
        /\ c.manage = manage /\ c.reset_state = i2c.reset_state
    BY Parts DEF I2C, Statuses
  <1>4. \/ /\ closes /\ prl' = pc /\ i2c' = PowerOff(c) /\ dev' = DeviceOff(dev)
           /\ event' = [NoEvent EXCEPT !.phase = "report"]
        \/ /\ saves /\ prl' = ps /\ i2c' = c /\ event' = [NoEvent EXCEPT !.phase = "loop"]
           /\ dev' = dev
        \/ /\ ~closes /\ ~saves /\ prl' = (IF prl.state = "IDLE" THEN pc ELSE prl)
           /\ i2c' = PowerOff(c) /\ dev' = DeviceOff(dev) /\ event' = event
    BY DEF CommsClose
  <1> HIDE DEF c
  <1>5. pc.key = prl.key /\ pc.save_slave = prl.save_slave /\ pc.negotiated = prl.negotiated
        /\ pc.master = prl.master /\ pc.saved = prl.saved /\ pc.configured = prl.configured
        /\ pc.state = prl.state /\ pc.handler = "close"
    BY <1>2 DEF Prl
  <1>6. ps.key = prl.key /\ ps.save_slave = prl.save_slave /\ ps.negotiated = prl.negotiated
        /\ ps.master = prl.master /\ ps.saved = prl.saved /\ ps.configured = prl.configured
        /\ ps.state = "MANAGE_CONTEXT" /\ ps.mc_state = "TX" /\ ps.handler = "close"
    BY <1>2 DEF Prl
  <1> HIDE DEF pc, ps
  <1>7. PowerOff(c).level = i2c.level /\ PowerOff(c).re_establish = i2c.re_establish
        /\ PowerOff(c).manage = manage /\ PowerOff(c).reset_state = i2c.reset_state
    BY <1>3 DEF PowerOff, I2C
  <1>8. answer'.type = "none" /\ (event' = [NoEvent EXCEPT !.phase = "report"] => event'.phase = "report")
        /\ (event' = [NoEvent EXCEPT !.phase = "loop"] => event'.phase = "loop")
    BY <1>2, <1>4, NoEventFacts, RecordFacts DEF Events, answer
  <1>9. Reserve' = Reserve
    BY <1>1, <1>4, <1>5, <1>6 DEF Reserve, Context
  <1> QED BY <1>1, <1>2, <1>3, <1>4, <1>5, <1>6, <1>7, <1>8, <1>9

-----------------------------------------------------------------------------
(* Every step leaves it so.  First the steps of the handler.                *)

\* While the handler is in its switch nothing is being sent, and power is on
\* unless the stack is being closed.
LEMMA RoundAsked ==
  ASSUME SInv, Asked, Round, prl'.handler = prl.handler, prl'.state # "UNINIT", Course',
         Confirmed'
  PROVE  Asked'
  <1>1. prl.state # "UNINIT"
    BY DEF Asked, Turn, Round, Handling
  <1>2. answer' = answer
    BY DEF Round, answer
  <1>3. Powered'
    BY <1>1, <1>2 DEF Round, Asked, Powered, Handling, Emptied
  <1>4. Turn'
    BY DEF Round, Turn, Handling
  <1> QED BY <1>3, <1>4 DEF Asked

LEMMA ClosesAsked == ASSUME SInv, Asked, Closes PROVE Asked'
  <1>1. answer' = answer
    BY DEF Closes, Round, answer
  <1>2. Course'
    BY DEF Closes, Course, Waits, Opens, Talks
  <1>3. Confirmed'
    BY <1>1 DEF Closes, Round, Asked, Confirmed, Renewing, Waits, Emptied, Talks
  <1> QED BY <1>2, <1>3, RoundAsked DEF Closes

LEMMA StartAsked == ASSUME SInv, Asked, Start PROVE Asked'
  <1>1. /\ Round /\ hist' = hist /\ Unmoved /\ prl.state = "START"
        /\ prl'.sealed = prl.sealed
        /\ \/ prl'.state = "HANDSHAKE" /\ prl'.hs_state = "SEND_HELLO" /\ prl'.negotiated = FALSE
           \/ /\ prl'.state = "TXRX" /\ prl'.negotiated = prl.negotiated
              /\ ~i2c.re_establish /\ (i2c.level # "NO" => prl.negotiated)
    BY StartEffect
  <1>2. Reserve' = Reserve /\ answer' = answer
    BY <1>1 DEF Reserve, Context, Unmoved, Round, answer
  <1>3. prl'.state = "TXRX" => prl.handler = "tl" /\ dev.on
    BY <1>1, Parts DEF Asked, Course, Powered, Opens, Round, Prl
  <1>4. Course'
    BY <1>1 DEF Round, Unmoved, Asked, Course, Waits, Opens, Talks
  <1>5. Confirmed'
    BY <1>1, <1>2, <1>3 DEF Round, Unmoved, Asked, Confirmed, Renewing, Waits, Emptied, Talks,
       Alive, Handling
  <1> QED BY <1>1, <1>4, <1>5, RoundAsked DEF Unmoved

LEMMA RenegotiateAsked == ASSUME SInv, Asked, TxrxRenegotiate PROVE Asked'
  <1>1. Reserve' = Reserve /\ answer' = answer
    BY RenegotiateEffect DEF Reserve, Context, Unmoved, Round, answer
  <1>2. Course'
    BY RenegotiateEffect DEF Round, Unmoved, Asked, Course, Waits, Opens, Talks
  <1>3. Confirmed'
    BY <1>1, RenegotiateEffect DEF Round, Unmoved, Asked, Confirmed, Renewing, Waits, Talks
  <1> QED BY <1>2, <1>3, RenegotiateEffect, RoundAsked DEF Unmoved

LEMMA FinishedAsked == ASSUME SInv, Asked, FinishedAccepted PROVE Asked'
  <1>1. answer' = answer /\ dev.on
    BY FinishedEffect DEF Round, answer, Asked, Powered
  <1>2. Course'
    BY FinishedEffect DEF Round, Asked, Course, Waits, Opens, Talks
  <1>3. Confirmed'
    BY <1>1, FinishedEffect DEF Round, Asked, Confirmed, Renewing, Waits, Talks, Alive
  <1> QED BY <1>2, <1>3, FinishedEffect, RoundAsked

\* The answer is looked at, and the session is left as it is.
LEMMA LookedAsked ==
  ASSUME SInv, Asked, Round, Unmoved, SameStory,
         prl.state \in {"VERIFY", "ALERT", "ERROR"},
         \/ prl'.state = "IDLE"
         \/ /\ prl'.state \in {"TXRX", "ALERT", "ERROR"}
            /\ prl'.state = "TXRX" => ~i2c.re_establish
            /\ prl.state = "ERROR" => prl.alert = "INTEGRITY"
            /\ prl.state = "VERIFY" => prl'.state = "ALERT"
            /\ prl'.state \in {"ALERT", "ERROR"} /\ prl'.alert = "INVALID" =>
                 prl'.return_status # "SUCCESS",
         prl'.negotiated => prl.negotiated
  PROVE  Asked'
  <1>1. Reserve' = Reserve /\ answer' = answer
    BY DEF Reserve, Context, Unmoved, Round, answer
  <1>2. Course'
    BY DEF Round, Unmoved, SameStory, Asked, Course, Waits, Opens, Talks
  <1>3. Confirmed'
    BY <1>1 DEF Round, Unmoved, SameStory, Asked, Confirmed, Renewing, Waits, Emptied, Talks,
       Alive, Handling
  <1> QED BY <1>2, <1>3, RoundAsked DEF Unmoved

LEMMA SameStoryFacts == ASSUME hist' = hist PROVE SameStory
  BY DEF SameStory

LEMMA VerifyAsked ==
  ASSUME SInv, Asked, VerifyAlert \/ VerifyUnreadable \/ VerifyAccepted \/ VerifyPlain
  PROVE  Asked'
  <1>1. CASE VerifyAlert
    BY <1>1, VerifyAlertEffect, SameStoryFacts, LookedAsked
  <1>2. CASE VerifyUnreadable
    BY <1>2, UnreadableEffect, SameStoryFacts, LookedAsked
  <1>3. CASE VerifyAccepted
    <2>1. hist' = [hist EXCEPT !.accepted = answer.of]
      BY <1>3, AcceptedEffect
    <2>2. hist'.fresh = hist.fresh /\ hist'.confirmed = hist.confirmed
          /\ hist'.sent_at_close = hist.sent_at_close
      BY <2>1, Parts DEF History
    <2>3. Reserve' = Reserve /\ answer' = answer
      BY <1>3, AcceptedEffect DEF Reserve, Context, Unmoved, Round, answer
    <2>4. Course'
      BY <1>3, AcceptedEffect DEF Course, Waits, Opens, Talks
    <2>5. Confirmed'
      BY <1>3, <2>2, <2>3, AcceptedEffect DEF Round, Unmoved, Asked, Confirmed, Renewing,
         Waits, Emptied, Talks, Alive, Handling
    <2> QED BY <1>3, <2>4, <2>5, AcceptedEffect, RoundAsked DEF Unmoved
  <1>4. CASE VerifyPlain
    BY <1>4, PlainEffect, SameStoryFacts, LookedAsked
  <1> QED BY <1>1, <1>2, <1>3, <1>4

LEMMA AlertAsked == ASSUME SInv, Asked, AlertRepeat \/ AlertEnds \/ ErrorEnds PROVE Asked'
  <1>1. CASE AlertRepeat
    BY <1>1, RepeatEffect, SameStoryFacts, LookedAsked
  <1>2. CASE AlertEnds
    <2>1. CASE Closes
      BY <2>1, ClosesAsked
    <2>2. CASE ~Closes
      <3>1. prl'.alert = "INVALID" => prl'.return_status # "SUCCESS"
        BY <1>2, <2>2, AlertEndsEffect DEF Asked, Course
      <3> QED BY <1>2, <2>2, <3>1, AlertEndsEffect, SameStoryFacts, LookedAsked
    <2> QED BY <2>1, <2>2
  <1>3. CASE ErrorEnds
    BY <1>3, ErrorEndsEffect, SameStoryFacts, LookedAsked
  <1> QED BY <1>1, <1>2, <1>3

LEMMA ManageAsked ==
  ASSUME SInv, Asked, ManageReestablish \/ ManageNothingSaved \/ ManageRestored \/ ManageSaved
  PROVE  Asked'
  <1>1. CASE ManageReestablish
    <2>1. Reserve' = Reserve /\ answer' = answer
      BY <1>1, ReestablishEffect DEF Reserve, Context, Unmoved, Round, answer
    <2>2. Course'
      BY <1>1, ReestablishEffect, Parts DEF Round, Unmoved, Asked, Course, Waits, Opens, Talks, Prl
    <2>3. Confirmed'
      BY <1>1, <2>1, ReestablishEffect DEF Round, Unmoved, Asked, Confirmed, Renewing, Waits,
         Emptied, Talks, Alive
    <2> QED BY <1>1, <2>2, <2>3, ReestablishEffect, RoundAsked DEF Unmoved
  <1>2. CASE ManageNothingSaved
    <2>1. answer' = answer
      BY <1>2, NothingSavedEffect DEF Round, answer
    <2>2. Course'
      BY <1>2, NothingSavedEffect DEF Round, Asked, Course, Waits, Opens, Talks
    <2>3. Confirmed'
      BY <1>2, <2>1, NothingSavedEffect DEF Round, Asked, Confirmed, Renewing, Waits, Talks
    <2> QED BY <1>2, <2>2, <2>3, NothingSavedEffect, RoundAsked
  <1>3. CASE ManageRestored
    <2>1. answer' = answer /\ dev.on
      BY <1>3, RestoredEffect DEF Round, answer, Asked, Powered
    <2>2. Course'
      BY <1>3, RestoredEffect DEF Round, Asked, Course, Waits, Renewing, Opens, Talks
    <2>3. ~Reserve.stored
      BY <1>3, RestoredEffect, Parts DEF Numbers, Reserve, Renewing, Waits
    <2>4. Confirmed'
      BY <1>3, <2>1, <2>3, RestoredEffect DEF Round, Asked, Confirmed, Renewing, Waits, Talks, Alive
    <2> QED BY <1>3, <2>2, <2>4, RestoredEffect, RoundAsked
  <1>4. CASE ManageSaved
    <2>1. answer' = answer /\ dev.on
      BY <1>4, SavedEffect DEF Round, answer, Asked, Powered
    <2>2. prl.handler = "close" /\ prl.negotiated
      BY <1>4, SavedEffect, Parts DEF Asked, Course, Waits, Prl
    <2>3. prl.key \in hist.confirmed
      BY <1>4, <2>1, <2>2, SavedEffect DEF Round, Asked, Confirmed, Renewing, Waits, Alive, Emptied
    <2>4. Course'
      BY <1>4, SavedEffect DEF Course, Waits, Opens, Talks
    <2>5. Confirmed'
      BY <1>4, <2>1, <2>2, <2>3, SavedEffect DEF Round, Asked, Confirmed, Renewing, Waits,
         Emptied, Talks
    <2> QED BY <1>4, <2>4, <2>5, SavedEffect, RoundAsked
  <1> QED BY <1>1, <1>2, <1>3, <1>4

\* A record is sent.
LEMMA SendingAsked ==
  ASSUME SInv, Asked, NEW m, Sending(m), prl'.handler = prl.handler, prl'.state # "UNINIT",
         \/ /\ prl'.state = "MANAGE_CONTEXT" /\ prl'.mc_state = "RX"
            /\ m.type = IF i2c.manage = "SAVE" THEN "save" ELSE "restore"
         \/ /\ prl'.state = "VERIFY"
            /\ \/ m.type = "alert"
               \/ /\ m.type = "data" /\ m.level = i2c.level
                  /\ ProtectsMaster(i2c.level) => m.key = prl'.key
         \/ prl'.state = "HANDSHAKE" /\ prl'.hs_state = "VERIFY_HELLO" /\ m.type = "hello"
         \/ prl'.state = "HANDSHAKE" /\ prl'.hs_state = "VERIFY_FINISHED" /\ m.type = "finished",
         Course', Confirmed'
  PROVE  Asked'
  <1>1. prl.state # "UNINIT"
    BY DEF Asked, Turn, Sending, Handling
  <1>2. Powered'
    BY <1>1 DEF Sending, Asked, Powered, Handling, Emptied
  <1>3. Turn'
    BY DEF Sending, Turn, Handling
  <1> QED BY <1>2, <1>3 DEF Asked

LEMMA HelloAsked == ASSUME SInv, Asked, SendHello \/ HelloAccepted PROVE Asked'
  <1>1. CASE SendHello
    <2>1. Record("hello").type = "hello"
      BY DEF Record
    <2>2. Course'
      BY <1>1, HelloEffect DEF Sending, Asked, Course, Waits, Opens, Talks
    <2>3. Confirmed'
      BY <1>1, HelloEffect DEF Sending, Asked, Course, Confirmed, Renewing, Waits, Talks
    <2> QED BY <1>1, <2>1, <2>2, <2>3, HelloEffect, SendingAsked
  <1>2. CASE HelloAccepted
    <2> DEFINE m == [Record("finished") EXCEPT !.seq = answer.seq, !.key = Derived]
    <2>1. m.type = "finished"
      BY DEF Record
    <2> HIDE DEF m
    <2>2. Sending(m)
      BY <1>2, HelloAcceptedEffect DEF m
    <2>3. Course'
      BY <1>2, <2>2, HelloAcceptedEffect DEF Sending, Asked, Course, Waits, Opens, Talks
    <2>4. Confirmed'
      BY <1>2, <2>2, HelloAcceptedEffect DEF Sending, Asked, Course, Confirmed, Renewing,
         Waits, Talks
    <2> QED BY <1>2, <2>1, <2>2, <2>3, <2>4, HelloAcceptedEffect, SendingAsked
  <1> QED BY <1>1, <1>2

LEMMA TxrxSendAsked == ASSUME SInv, Asked, TxrxSend PROVE Asked'
  <1> DEFINE m == tx'
  <1>1. m.type = "data" /\ m.level = i2c.level /\ Sending(m)
        /\ (ProtectsMaster(i2c.level) => m.key = prl'.key)
        /\ prl'.state = "VERIFY" /\ prl'.handler = prl.handler
    BY TxrxSendEffect
  <1> HIDE DEF m
  <1>2. Course'
    BY <1>1, TxrxSendEffect DEF Sending, SameStory, Asked, Course, Waits, Opens, Talks
  <1>3. Confirmed'
    BY <1>1, TxrxSendEffect DEF Sending, SameStory, Asked, Confirmed, Renewing, Waits,
       Emptied, Talks, Alive, Handling
  <1> QED BY <1>1, <1>2, <1>3, SendingAsked

LEMMA ErrorAlertAsked == ASSUME SInv, Asked, ErrorAlert PROVE Asked'
  <1>1. Alert("alert").type = "alert" /\ Reserve' = Reserve
    BY RecordFacts, ErrorAlertEffect DEF Types, Reserve, Context, Unmoved
  <1>2. Course'
    BY ErrorAlertEffect DEF Sending, Unmoved, Asked, Course, Waits, Opens, Talks
  <1>3. Confirmed'
    BY <1>1, ErrorAlertEffect DEF Sending, Unmoved, Asked, Confirmed, Renewing, Waits,
       Emptied, Talks, Alive, Handling
  <1> QED BY <1>1, <1>2, <1>3, ErrorAlertEffect, SendingAsked DEF Unmoved

LEMMA ManageSendAsked == ASSUME SInv, Asked, ManageSave \/ ManageRestore PROVE Asked'
  <1>1. CASE ManageSave
    <2>1. Alert("save").type = "save" /\ Reserve' = Reserve
      BY <1>1, RecordFacts, SaveEffect DEF Types, Reserve, Context, Unmoved
    <2>2. Course'
      BY <1>1, SaveEffect DEF Sending, Unmoved, Asked, Course, Waits, Opens, Talks
    <2>3. Confirmed'
      BY <1>1, <2>1, SaveEffect DEF Sending, Unmoved, Asked, Confirmed, Renewing, Waits,
         Emptied, Talks, Alive
    <2> QED BY <1>1, <2>1, <2>2, <2>3, SaveEffect, SendingAsked DEF Unmoved
  <1>2. CASE ManageRestore
    <2> DEFINE m == [Record("restore") EXCEPT !.seq = Reserve.slave]
    <2>1. m.type = "restore"
      BY DEF Record
    <2> HIDE DEF m
    <2>2. Sending(m)
      BY <1>2, RestoreEffect DEF m
    <2>3. Course'
      BY <1>2, <2>2, RestoreEffect DEF Sending, Asked, Course, Waits, Opens, Talks
    <2>4. Confirmed'
      BY <1>2, <2>2, RestoreEffect DEF Sending, Asked, Confirmed, Renewing, Waits, Talks
    <2> QED BY <1>2, <2>1, <2>2, <2>3, <2>4, RestoreEffect, SendingAsked
  <1> QED BY <1>1, <1>2

-----------------------------------------------------------------------------
(* The steps outside the switch                                             *)

LEMMA EnterErrorAsked == ASSUME SInv, Asked, EnterError PROVE Asked'
  <1>1. Reserve' = Reserve /\ prl.state # "UNINIT" /\ answer.type = "none"
    BY EnterErrorEffect DEF Reserve, Context, Unmoved, Asked, Turn, Powered, Handling
  <1>2. Powered'
    BY <1>1, EnterErrorEffect DEF Unmoved, Asked, Powered, Handling, Emptied
  <1>3. Turn'
    BY EnterErrorEffect DEF Turn, Handling
  <1>4. Course'
    BY EnterErrorEffect DEF Course, Waits, Opens, Talks
  <1>5. Confirmed'
    BY <1>1, EnterErrorEffect DEF Unmoved, Asked, Turn, Confirmed, Renewing, Waits,
       Emptied, Talks, Alive, Handling
  <1> QED BY <1>2, <1>3, <1>4, <1>5 DEF Asked

LEMMA IdleAsked == ASSUME SInv, Asked, Idle PROVE Asked'
  <1>1. hist'.fresh = hist.fresh /\ hist'.confirmed = hist.confirmed
        /\ hist'.sent_at_close = hist.sent_at_close
    BY IdleEffect, Parts DEF Told, History
  <1>2. Reserve' = Reserve /\ (prl.handler = "close" => dev'.on = FALSE)
    BY IdleEffect, Parts, ResetRemembers DEF Reserve, Context
  <1>3. Powered'
    BY <1>2, IdleEffect, Parts DEF Asked, Powered, Handling, Emptied, Prl
  <1>4. Turn'
    BY IdleEffect DEF Asked, Turn, Handling
  <1>5. Course'
    BY <1>1, IdleEffect DEF Asked, Course, Waits, Opens, Talks
  <1>6. Confirmed'
    BY <1>1, <1>2, IdleEffect DEF Asked, Confirmed, Renewing, Waits, Emptied, Talks, Alive
  <1> QED BY <1>3, <1>4, <1>5, <1>6 DEF Asked

LEMMA ReturnsAsked == ASSUME SInv, Asked, HandlerReturns PROVE Asked'
  <1>1. Reserve' = Reserve
    BY ReturnsEffect DEF Reserve, Context
  <1>2. Powered'
    BY ReturnsEffect DEF Asked, Powered, Handling, Emptied
  <1>3. Turn'
    BY ReturnsEffect DEF Asked, Turn, Handling
  <1>4. Course'
    BY ReturnsEffect DEF Asked, Course, Waits, Opens, Talks
  <1>5. Confirmed'
    BY <1>1, ReturnsEffect DEF Asked, Confirmed, Renewing, Waits, Emptied, Talks, Alive
  <1> QED BY <1>2, <1>3, <1>4, <1>5 DEF Asked

LEMMA OpenAsked == ASSUME SInv, Asked, NEW manage, CommsOpen(manage) PROVE Asked'
  <1>1. Reserve' = Reserve /\ answer' = answer
    BY OpenEffect DEF Reserve, Context, Calls, answer
  <1>2. Powered'
    BY <1>1, OpenEffect DEF Calls, Powered
  <1>3. Turn'
    BY OpenEffect DEF Asked, Turn, Calls, Handling
  <1>4. Course'
    BY OpenEffect DEF Asked, Course, Calls, Waits, Opens, Talks
  <1>5. Confirmed'
    BY <1>1, OpenEffect DEF Calls, Asked, Confirmed, Renewing, Waits, Emptied, Talks, Alive
  <1> QED BY <1>2, <1>3, <1>4, <1>5 DEF Asked

LEMMA ResetAsked == ASSUME SInv, Asked, NEW type, CommsReset(type) PROVE Asked'
  <1>1. answer' = answer /\ Calls /\ prl.state = "IDLE" /\ prl.handler # "close"
        /\ hist' = hist /\ event' = event
    BY ResetEffect DEF answer
  <1>2. CASE Initialises /\ i2c'.reset_state = "none" /\ dev' = DeviceReset(dev)
    <2>1. dev'.on = dev.on /\ dev.on
      BY <1>1, <1>2, Parts, ResetRemembers DEF Asked, Powered, Calls, Prl
    <2>2. Powered'
      BY <1>1, <1>2, <2>1 DEF Initialises, Powered, Calls, Emptied
    <2>3. Turn'
      BY <1>1, <1>2 DEF Initialises, Turn, Calls, Handling
    <2>4. Course'
      BY <1>1, <1>2 DEF Initialises, Course, Waits, Opens, Talks
    <2>5. Confirmed'
      BY <1>1, <1>2 DEF Initialises, Asked, Confirmed, Renewing, Waits, Talks
    <2> QED BY <2>2, <2>3, <2>4, <2>5 DEF Asked
  <1>3. CASE /\ prl' = prl /\ tl' = tl /\ i2c'.reset_state = "PIN_HIGH"
    <2>1. Reserve' = Reserve
      BY <1>1, <1>3 DEF Reserve, Context, Calls
    <2>2. Powered'
      BY <1>1, <1>3 DEF Calls, Powered
    <2>3. Turn'
      BY <1>1, <1>3 DEF Asked, Turn, Calls, Handling
    <2>4. Course'
      BY <1>1, <1>3 DEF Course, Waits, Opens, Talks
    <2>5. Confirmed'
      BY <1>1, <1>3, <2>1 DEF Calls, Asked, Confirmed, Renewing, Waits, Talks, Alive
    <2> QED BY <2>2, <2>3, <2>4, <2>5 DEF Asked
  <1> QED BY <1>2, <1>3, ResetEffect

LEMMA TimerAsked == ASSUME SInv, Asked, InitTimer PROVE Asked'
  <1>1. answer' = answer /\ event.phase = "none" /\ i2c.reset_state # "none" /\ tl = "idle"
        /\ hist' = hist /\ event' = event /\ answer.type = "none"
        /\ prl.state \in {"IDLE", "UNINIT", prl.state}
    BY TimerEffect DEF answer
  <1>2. CASE /\ prl' = prl /\ store' = store /\ tl' = tl /\ i2c'.reset_state = "INIT"
             /\ dev' = [dev EXCEPT !.on = TRUE]
    <2>1. Reserve' = Reserve /\ dev'.on
      BY <1>2, Parts DEF Reserve, Context, Device
    <2>2. Powered'
      BY <1>1, <1>2, <2>1 DEF Powered
    <2>3. Turn'
      BY <1>1, <1>2 DEF Asked, Turn, Handling
    <2>4. Course'
      BY <1>1, <1>2, TimerEffect DEF Asked, Course, Waits, Opens, Talks
    <2>5. Confirmed'
      BY <1>1, <1>2, <2>1, TimerEffect DEF Asked, Confirmed, Renewing, Waits, Talks, Alive, Handling
    <2> QED BY <2>2, <2>3, <2>4, <2>5 DEF Asked
  <1>3. CASE Initialises /\ i2c.reset_state = "INIT" /\ i2c'.reset_state = "none" /\ dev' = dev
    <2>1. dev.on
      BY <1>3 DEF Asked, Powered
    <2>2. Powered'
      BY <1>1, <1>3, <2>1 DEF Initialises, Powered, Emptied
    <2>3. Turn'
      BY <1>1, <1>3 DEF Initialises, Turn, Handling
    <2>4. Course'
      BY <1>1, <1>3 DEF Initialises, Course, Waits, Opens, Talks
    <2>5. Confirmed'
      BY <1>1, <1>3 DEF Initialises, Asked, Confirmed, Renewing, Waits, Talks
    <2> QED BY <2>2, <2>3, <2>4, <2>5 DEF Asked
  <1> QED BY <1>2, <1>3, TimerEffect

LEMMA TransceiveAsked ==
  ASSUME SInv, Asked, NEW level \in Levels, NEW re \in BOOLEAN,
         NEW manage \in {i2c.manage, "NONE"}, CommsTransceive(level, re, manage)
  PROVE  Asked'
  <1>1. Reserve' = Reserve /\ prl'.handler = "tl" /\ prl.handler = "tl"
    BY TransceiveEffect DEF Reserve, Context, Unmoved
  <1>2. Powered'
    BY <1>1, TransceiveEffect DEF Asked, Powered, Calls, Unmoved, Emptied
  <1>3. Turn'
    BY <1>1, TransceiveEffect DEF Turn, Calls, Handling
  <1>4. Course'
    BY <1>1, TransceiveEffect DEF Course, Waits, Opens, Talks
  <1>5. Confirmed'
    BY <1>1, TransceiveEffect DEF Calls, Unmoved, Asked, Confirmed, Renewing, Waits,
       Emptied, Talks, Alive
  <1> QED BY <1>2, <1>3, <1>4, <1>5 DEF Asked

LEMMA CloseAsked ==
  ASSUME SInv, Asked, NEW manage \in {"NONE", "SAVE"}, CommsClose(manage) PROVE Asked'
  <1>1. dev' = DeviceOff(dev) => dev'.on = FALSE
    BY Parts, ResetRemembers
  <1>2. Powered'
    BY <1>1, CloseEffect DEF Asked, Powered, Calls, Emptied, Handling
  <1>3. Turn'
    BY CloseEffect DEF Asked, Turn, Calls, Handling
  <1>4. Course'
    BY CloseEffect DEF Asked, Course, Waits, Opens, Talks, Calls
  <1>5. Emptied => ~dev.on
    BY CloseEffect DEF Asked, Powered, Calls, Handling
  <1>6. Confirmed'
    BY <1>1, <1>5, CloseEffect DEF Calls, Asked, Confirmed, Renewing, Waits, Emptied, Talks,
       Alive, Handling
  <1> QED BY <1>2, <1>3, <1>4, <1>6 DEF Asked

-----------------------------------------------------------------------------
(* What the device does with record m, when it goes from d to e and its     *)
(* answer is b.                                                             *)

\* The record was executed, or an answer asked for again.
Responds(d, e, b, level) ==
  /\ e.on = d.on /\ e.sessions = d.sessions /\ e.pending = d.pending /\ e.key = d.key
  /\ e.saved_key = d.saved_key /\ e.saved_master = d.saved_master
  /\ e.last = b /\ b.type = "data" /\ b.level = level /\ b.intact = TRUE /\ b.of = e.executed
  /\ b.key = IF ProtectsSlave(level) THEN d.key ELSE 0

Greets(d, m, e, b) ==
  /\ m.type = "hello" /\ b.type = "hello" /\ b.key = e.pending
  /\ e.pending = d.sessions + 1 /\ e.sessions = d.sessions + 1 /\ e.key = 0
  /\ e.on = d.on /\ e.saved_key = d.saved_key /\ e.saved_master = d.saved_master
  /\ e.last = d.last /\ e.executed = d.executed /\ e.times = d.times /\ e.garbled = d.garbled

Confirms(d, m, e, b) ==
  /\ m.type = "finished" /\ d.pending # 0 /\ m.key = d.pending
  /\ b.type = "finished" /\ b.key = m.key /\ b.seq = e.master
  /\ e.pending = 0 /\ e.key = m.key /\ e.sessions = d.sessions
  /\ e.on = d.on /\ e.saved_key = d.saved_key /\ e.saved_master = d.saved_master
  /\ e.last = d.last /\ e.executed = d.executed /\ e.times = d.times /\ e.garbled = d.garbled

Runs(d, m, e, b) ==
  /\ m.type = "data" /\ (m.level = "NO" \/ d.key # 0) /\ Responds(d, e, b, m.level)
  /\ ProtectsMaster(m.level) => m.key = d.key /\ m.intact /\ m.seq > d.master
  /\ e.master = IF ProtectsMaster(m.level) THEN m.seq ELSE d.master
  /\ IF m.of = 0 THEN e.executed = d.executed /\ e.times = d.times /\ e.garbled = TRUE
     ELSE /\ e.executed = m.of /\ e.garbled = d.garbled
          /\ e.times = IF d.executed = m.of THEN 2 ELSE 1

Objects(d, m, e, b) ==
  /\ m.type = "data" /\ ProtectsMaster(m.level) /\ d.key # 0
  /\ ~m.intact \/ ~(m.seq > d.master)
  /\ e = d /\ b.type = "integrity"

Resends(d, m, e, b) ==
  /\ m.type = "alert" /\ d.key # 0 /\ Responds(d, e, b, d.last.level)
  /\ e.master = d.master /\ e.executed = d.executed /\ e.times = d.times
  /\ e.garbled = d.garbled

Keeps(d, m, e, b) ==
  /\ m.type = "save" /\ b.type = "saved"
  /\ e.saved_key = d.key /\ e.saved_master = d.master /\ e.key = 0 /\ e.pending = 0
  /\ e.on = d.on /\ e.sessions = d.sessions /\ e.last = d.last
  /\ e.executed = d.executed /\ e.times = d.times /\ e.garbled = d.garbled

Restores(d, m, e, b) ==
  /\ m.type = "restore" /\ b.type = "restored" /\ b.key = 0
  /\ e.key = d.saved_key /\ e.master = d.saved_master /\ e.saved_key = 0
  /\ e.pending = d.pending /\ e.on = d.on /\ e.sessions = d.sessions /\ e.last = d.last
  /\ e.executed = d.executed /\ e.times = d.times /\ e.garbled = d.garbled

Complains(d, m, e, b) ==
  /\ m.type = "data" => m.level # "NO" /\ (d.key = 0 \/ (ProtectsMaster(m.level) /\ m.key # d.key))
  /\ m.type = "alert" => d.key = 0 \/ d.last.key # d.key
  /\ Remembers(d, e) /\ e.on = d.on /\ e.key = 0 /\ e.pending = 0 /\ b.type = "fatal"

Does(d, m, e, b) ==
  \/ Greets(d, m, e, b) \/ Confirms(d, m, e, b) \/ Runs(d, m, e, b) \/ Objects(d, m, e, b)
  \/ Resends(d, m, e, b) \/ Keeps(d, m, e, b) \/ Restores(d, m, e, b) \/ Complains(d, m, e, b)

LEMMA ResponseResponds ==
  ASSUME NEW d \in Device, NEW level \in Levels
  PROVE  LET r == Response(d, level)
         IN /\ Responds(d, r.dev, r.answer, level) /\ r.dev.master = d.master
            /\ r.dev.executed = d.executed /\ r.dev.times = d.times
            /\ r.dev.garbled = d.garbled
  <1> DEFINE seq == IF ProtectsSlave(level) THEN Next_number(d.slave) ELSE d.slave
             k == IF ProtectsSlave(level) THEN d.key ELSE 0
             a == [Record("data") EXCEPT !.level = level, !.seq = seq, !.of = d.executed,
                                         !.key = k]
             e == [d EXCEPT !.slave = seq, !.last = a]
  <1>1. Response(d, level) = [dev |-> e, answer |-> a]
    BY DEF Response
  <1>2. k = IF ProtectsSlave(level) THEN d.key ELSE 0
    OBVIOUS
  <1> HIDE DEF seq, k
  <1>3. a.type = "data" /\ a.level = level /\ a.intact = TRUE /\ a.of = d.executed /\ a.key = k
    <2>1. Record("data") \in Records /\ Record("data").type = "data"
      BY RecordFacts DEF Types
    <2>2. Record("data").intact = TRUE
      BY DEF Record
    <2> QED BY <2>1, <2>2 DEF Records
  <1> HIDE DEF a
  <1>4. e.on = d.on /\ e.sessions = d.sessions /\ e.pending = d.pending /\ e.key = d.key
        /\ e.saved_key = d.saved_key /\ e.saved_master = d.saved_master /\ e.last = a
        /\ e.master = d.master /\ e.executed = d.executed /\ e.times = d.times
        /\ e.garbled = d.garbled
    BY DEF Device
  <1> HIDE DEF e
  <1> QED BY <1>1, <1>2, <1>3, <1>4 DEF Responds

LEMMA ExecutesRuns ==
  ASSUME NEW d \in Device, NEW m \in Records, m.type = "data",
         m.level = "NO" \/ d.key # 0,
         ProtectsMaster(m.level) => m.key = d.key /\ m.intact /\ m.seq > d.master
  PROVE  LET r == Executes(d, m) IN Runs(d, m, r.dev, r.answer)
  <1> DEFINE r == Executes(d, m)
             s == IF ProtectsMaster(m.level) THEN m.seq ELSE d.master
             t == [d EXCEPT !.master = s]
             u == IF d.executed = m.of THEN 2 ELSE 1
             e == [t EXCEPT !.executed = m.of, !.times = u]
             g == [t EXCEPT !.garbled = TRUE]
  <1>1. s \in Sequence /\ u \in 0 .. 2 /\ m.level \in Levels /\ m.of \in Nat
    BY DEF Device, Records
  <1>2. t = [d EXCEPT !.master = IF ProtectsMaster(m.level) THEN m.seq ELSE @]
    BY DEF Device
  <1>3. t \in Device /\ t.on = d.on /\ t.sessions = d.sessions /\ t.pending = d.pending
        /\ t.key = d.key /\ t.saved_key = d.saved_key /\ t.saved_master = d.saved_master
        /\ t.executed = d.executed /\ t.times = d.times /\ t.garbled = d.garbled
        /\ t.master = s
    <2> HIDE DEF s
    <2> QED BY <1>1 DEF Device
  <1>4. r = IF m.of = 0 THEN Response(g, m.level) ELSE Response(e, m.level)
    <2>1. e = [t EXCEPT !.executed = m.of, !.times = IF d.executed = m.of THEN 2 ELSE 1]
      OBVIOUS
    <2> HIDE DEF t, e
    <2> QED BY <1>2, <2>1 DEF Executes
  <1>5. s = (IF ProtectsMaster(m.level) THEN m.seq ELSE d.master)
        /\ u = (IF d.executed = m.of THEN 2 ELSE 1)
    OBVIOUS
  <1> HIDE DEF t, u, s
  <1>6. g \in Device /\ g.on = t.on /\ g.sessions = t.sessions /\ g.pending = t.pending
        /\ g.key = t.key /\ g.saved_key = t.saved_key /\ g.saved_master = t.saved_master
        /\ g.executed = t.executed /\ g.times = t.times /\ g.garbled = TRUE
        /\ g.master = t.master
    BY <1>3 DEF Device
  <1>7. e \in Device /\ e.on = t.on /\ e.sessions = t.sessions /\ e.pending = t.pending
        /\ e.key = t.key /\ e.saved_key = t.saved_key /\ e.saved_master = t.saved_master
        /\ e.executed = m.of /\ e.times = u /\ e.garbled = t.garbled /\ e.master = t.master
    BY <1>1, <1>3 DEF Device
  <1> HIDE DEF g, e
  <1>8. CASE m.of = 0
    <2>1. r = Response(g, m.level)
      BY <1>4, <1>8
    <2>2. Responds(g, r.dev, r.answer, m.level) /\ r.dev.master = g.master
          /\ r.dev.executed = g.executed /\ r.dev.times = g.times /\ r.dev.garbled = g.garbled
      BY <1>1, <1>6, <2>1, ResponseResponds
    <2> HIDE DEF r
    <2> QED BY <1>3, <1>5, <1>6, <1>8, <2>2 DEF Runs, Responds, r
  <1>9. CASE m.of # 0
    <2>1. r = Response(e, m.level)
      BY <1>4, <1>9
    <2>2. Responds(e, r.dev, r.answer, m.level) /\ r.dev.master = e.master
          /\ r.dev.executed = e.executed /\ r.dev.times = e.times /\ r.dev.garbled = e.garbled
      BY <1>1, <1>7, <2>1, ResponseResponds
    <2> HIDE DEF r
    <2> QED BY <1>3, <1>5, <1>7, <1>9, <2>2 DEF Runs, Responds, r
  <1> QED BY <1>8, <1>9

LEMMA DeviceDoes ==
  ASSUME NEW d \in Device, NEW m \in Records, NEW n \in Choices
  PROVE  LET r == DeviceTakes(d, m, n) IN Does(d, m, r.dev, r.answer)
  <1> DEFINE r == DeviceTakes(d, m, n)
             k == d.sessions + 1
             de == DeviceReset(d)
             OK == Does(d, m, r.dev, r.answer)
             finished == /\ m.type = "finished" /\ d.pending # 0 /\ m.intact
                         /\ m.key = d.pending /\ m.seq = d.slave
             plain == m.type = "data" /\ m.level = "NO"
             half == m.type = "data" /\ m.level # "NO" /\ d.key # 0 /\ ~ProtectsMaster(m.level)
             full == m.type = "data" /\ d.key # 0 /\ ProtectsMaster(m.level) /\ m.key = d.key
             alert == m.type = "alert" /\ d.key # 0 /\ d.last.key = d.key
             save == m.type = "save" /\ d.key # 0
             restore == m.type = "restore" /\ d.saved_key # 0 /\ m.seq = d.saved_slave
             greeted == [dev    |-> [d EXCEPT !.pending = k, !.sessions = k, !.key = 0, !.slave = n],
                         answer |-> [Record("hello") EXCEPT !.seq = n, !.key = k]]
             confirmed == [dev    |-> [d EXCEPT !.pending = 0, !.key = m.key, !.master = n],
                           answer |-> [Record("finished") EXCEPT !.seq = n, !.key = m.key]]
             kept == [dev |-> [de EXCEPT !.saved_key = d.key, !.saved_slave = d.slave,
                                         !.saved_master = d.master],
                      answer |-> Alert("saved")]
             restored == [dev |-> [d EXCEPT !.key = d.saved_key, !.slave = d.saved_slave,
                                            !.master = d.saved_master, !.saved_key = 0],
                          answer |-> Record("restored")]
             objects == [dev |-> d, answer |-> Alert("integrity")]
             hello == m.type = "hello"
             ran == Executes(d, m)
             resent == Response(d, d.last.level)
             complaint == Complaint(d)
             taken == m.intact /\ m.seq > d.master
  <1>0. r = CASE hello    -> greeted
              [] finished -> confirmed
              [] plain    -> ran
              [] half     -> ran
              [] full     -> IF taken THEN ran ELSE objects
              [] alert    -> resent
              [] save     -> kept
              [] restore  -> restored
              [] OTHER    -> complaint
    BY DEF DeviceTakes
  <1>1. \A t \in Types : Record(t) \in Records /\ Alert(t) \in Records
                          /\ Record(t).type = t /\ Alert(t).type = t
    BY RecordFacts
  <1>2. n \in Sequence /\ m.level \in Levels /\ d.last.level \in Levels /\ k \in Nat
        /\ m.key \in Nat
    BY ChoiceFacts DEF Device, Records
  <1> HIDE DEF greeted, confirmed, kept, restored, objects, ran, resent, complaint, taken, r
  <1>a. /\ hello => r = greeted
        /\ finished => r = confirmed
        /\ plain \/ half => r = ran
        /\ full => r = IF taken THEN ran ELSE objects
        /\ alert => r = resent
        /\ save => r = kept
        /\ restore => r = restored
        /\ ~hello /\ ~finished /\ ~plain /\ ~half /\ ~full /\ ~alert /\ ~save /\ ~restore
           => r = complaint
    <2>1. /\ hello => ~finished /\ ~plain /\ ~half /\ ~full /\ ~alert /\ ~save /\ ~restore
          /\ finished => ~plain /\ ~half /\ ~full /\ ~alert /\ ~save /\ ~restore
          /\ plain \/ half => ~full /\ ~alert /\ ~save /\ ~restore
          /\ full => ~alert /\ ~save /\ ~restore
          /\ alert => ~save /\ ~restore
          /\ save => ~restore
      BY DEF ProtectsMaster
    <2>2. /\ hello \in BOOLEAN /\ finished \in BOOLEAN /\ plain \in BOOLEAN /\ half \in BOOLEAN
          /\ full \in BOOLEAN /\ alert \in BOOLEAN /\ save \in BOOLEAN /\ restore \in BOOLEAN
      OBVIOUS
    <2> HIDE DEF hello, finished, plain, half, full, alert, save, restore
    <2> QED BY <1>0, <2>1, <2>2
  <1>3. CASE hello
    <2> DEFINE e == [d EXCEPT !.pending = k, !.sessions = k, !.key = 0, !.slave = n]
               a == [Record("hello") EXCEPT !.seq = n, !.key = k]
    <2>0. r = [dev |-> e, answer |-> a]
      BY <1>3, <1>a DEF greeted
    <2> HIDE DEF r, e, a
    <2>1. r.dev = e /\ r.answer = a
      BY <2>0
    <2> USE DEF e, a
    <2>2. a.type = "hello" /\ a.key = k
      BY <1>1, <1>2 DEF Types, Records
    <2> HIDE DEF a
    <2>3. Greets(d, m, e, a)
      BY <1>2, <1>3, <2>2 DEF Device, Greets
    <2> HIDE DEF e
    <2> QED BY <2>1, <2>3 DEF Does, r
  <1>4. CASE finished
    <2> DEFINE e == [d EXCEPT !.pending = 0, !.key = m.key, !.master = n]
               a == [Record("finished") EXCEPT !.seq = n, !.key = m.key]
    <2>0. r = [dev |-> e, answer |-> a]
      BY <1>4, <1>a DEF confirmed
    <2> HIDE DEF r, e, a
    <2>1. r.dev = e /\ r.answer = a
      BY <2>0
    <2> USE DEF e, a
    <2>2. a.type = "finished" /\ a.key = m.key /\ a.seq = n
      BY <1>1, <1>2 DEF Types, Records
    <2> HIDE DEF a
    <2>3. Confirms(d, m, e, a)
      BY <1>2, <1>4, <2>2 DEF Device, Confirms
    <2> HIDE DEF e
    <2> QED BY <2>1, <2>3 DEF Does, r
  <1>5. CASE plain
    <2>1. r = Executes(d, m)
      BY <1>5, <1>a DEF ran
    <2>2. ~ProtectsMaster(m.level)
      BY <1>5 DEF ProtectsMaster
    <2>3. Runs(d, m, Executes(d, m).dev, Executes(d, m).answer)
      BY <1>5, <2>2, ExecutesRuns
    <2>4. Does(d, m, r.dev, r.answer)
      BY <2>1, <2>3 DEF Does
    <2> QED BY <2>4 DEF r
  <1>6. CASE half
    <2>1. r = Executes(d, m)
      BY <1>6, <1>a DEF ran
    <2>2. Runs(d, m, Executes(d, m).dev, Executes(d, m).answer)
      BY <1>6, ExecutesRuns
    <2>3. Does(d, m, r.dev, r.answer)
      BY <2>1, <2>2 DEF Does
    <2> QED BY <2>3 DEF r
  <1>7. CASE full
    <2>1. m.level # "NO"
      BY <1>7 DEF ProtectsMaster
    <2>2. r = IF m.intact /\ m.seq > d.master THEN Executes(d, m)
              ELSE [dev |-> d, answer |-> Alert("integrity")]
      BY <1>7, <1>a DEF ran, objects, taken
    <2>3. CASE m.intact /\ m.seq > d.master
      <3>1. Runs(d, m, Executes(d, m).dev, Executes(d, m).answer)
        BY <1>7, <2>3, ExecutesRuns
      <3>2. r = Executes(d, m)
        BY <2>2, <2>3
      <3>3. Does(d, m, r.dev, r.answer)
        BY <3>1, <3>2 DEF Does
      <3> QED BY <3>3 DEF r
    <2>4. CASE ~(m.intact /\ m.seq > d.master)
      <3>1. r.dev = d /\ r.answer = Alert("integrity")
        BY <2>2, <2>4
      <3> HIDE DEF r
      <3>2. r.answer.type = "integrity"
        BY <1>1, <3>1 DEF Types
      <3>3. Objects(d, m, r.dev, r.answer)
        BY <1>7, <2>4, <3>1, <3>2 DEF Objects
      <3> QED BY <3>3 DEF Does, r
    <2> QED BY <2>3, <2>4
  <1>8. CASE alert
    <2>1. r = Response(d, d.last.level)
      BY <1>8, <1>a DEF resent
    <2> HIDE DEF r
    <2>2. Resends(d, m, r.dev, r.answer)
      BY <1>2, <1>8, <2>1, ResponseResponds DEF Resends
    <2> QED BY <2>2 DEF Does, r
  <1>9. CASE save
    <2> DEFINE e == [de EXCEPT !.saved_key = d.key, !.saved_slave = d.slave,
                               !.saved_master = d.master]
    <2>1. r.dev = e /\ r.answer = Alert("saved")
      BY <1>9, <1>a DEF kept
    <2> HIDE DEF r
    <2>2. de \in Device /\ Remembers(d, de) /\ de.on = d.on /\ de.key = 0 /\ de.pending = 0
      BY DeviceResetFacts, ResetRemembers
    <2> HIDE DEF de
    <2>3. Keeps(d, m, e, Alert("saved"))
      BY <1>1, <1>9, <2>2 DEF Device, Keeps, Remembers, Types
    <2> HIDE DEF e
    <2> QED BY <2>1, <2>3 DEF Does, r
  <1>10. CASE restore
    <2> DEFINE e == [d EXCEPT !.key = d.saved_key, !.slave = d.saved_slave,
                              !.master = d.saved_master, !.saved_key = 0]
    <2>1. r.dev = e /\ r.answer = Record("restored")
      BY <1>10, <1>a DEF restored
    <2> HIDE DEF r
    <2>2. Record("restored").key = 0
      BY DEF Record
    <2>3. Restores(d, m, e, Record("restored"))
      BY <1>1, <1>10, <2>2 DEF Device, Restores, Types
    <2> HIDE DEF e
    <2> QED BY <2>1, <2>3 DEF Does, r
  <1>11. CASE /\ ~hello /\ ~finished /\ ~plain /\ ~half /\ ~full /\ ~alert /\ ~save
              /\ ~restore
    <2>1. r = Complaint(d)
      BY <1>11, <1>a DEF complaint
    <2>2. r.dev = de /\ r.answer = Alert("fatal")
      BY <2>1 DEF Complaint
    <2> HIDE DEF r
    <2>3. Remembers(d, de) /\ de.on = d.on /\ de.key = 0 /\ de.pending = 0
          /\ Alert("fatal").type = "fatal"
      BY <1>1, ResetRemembers DEF Types
    <2> HIDE DEF de
    <2>4. Complains(d, m, r.dev, r.answer)
      BY <1>11, <2>2, <2>3 DEF Complains
    <2> QED BY <2>4 DEF Does, r
  <1> HIDE DEF hello, finished, plain, half, full, alert, save, restore, r
  <1> QED BY <1>3, <1>4, <1>5, <1>6, <1>7, <1>8, <1>9, <1>10, <1>11 DEF r

-----------------------------------------------------------------------------
(* What the transport layer reports                                         *)

\* An exchange ends; the layers above stay as they are for the moment.
Ends ==
  /\ event.phase = "none" /\ tl = "exchange" /\ comms = "INUSE" /\ i2c.reset_state = "none"
  /\ tl' = "idle" /\ tx' = NoRecord
  /\ comms' = comms /\ i2c' = i2c /\ prl' = prl /\ store' = store

SameRecord(m, n) ==
  /\ m.type = n.type /\ m.level = n.level /\ m.seq = n.seq /\ m.key = n.key /\ m.of = n.of
  /\ m.length = n.length

\* Record a is b, but damaged; or it is something else than the answer b to a
\* device that was in state d.
Garbles(a, b) ==
  /\ a.type = b.type /\ a.level = b.level /\ a.length = b.length /\ a.key = b.key /\ a.of = b.of
  /\ a.intact = FALSE /\ b.key # 0

Odd(a, b, d) ==
  \/ a.type \in {"fatal", "integrity", "other"}
  \/ a.type = b.type /\ a.seq = b.seq /\ a.key = b.key /\ a.of = b.of /\ a.intact = b.intact
     /\ (a.level = b.level \/ a.length = b.length)
     /\ (a.level = b.level => a.length \in {0, 1})
  \/ a = d.last

\* The history after an exchange out of turn, or whose answer was lost.
Marks(h, g, b, odd) ==
  /\ g.odd = (h.odd \/ odd)
  /\ g.lost = IF b.type = "data" THEN h.lost \cup {b.of} ELSE h.lost
  /\ g.confirmed = h.confirmed /\ g.current = h.current /\ g.outcome = h.outcome
  /\ g.accepted = h.accepted /\ g.fresh = h.fresh /\ g.sent_at_close = h.sent_at_close

\* Nothing reached the device.
Breaks ==
  /\ event'.phase = "error" /\ event'.status = "STACK_ERROR" /\ answer'.type = "none"
  /\ dev' = dev /\ hist' = hist

\* It took record m and answered b, which arrives as it is, damaged, replaced,
\* or not at all.
Arrives(m, b) == event'.phase = "loop" /\ answer' = b /\ hist' = hist
Damages(m, b) == m = tx /\ event'.phase = "loop" /\ Garbles(answer', b) /\ hist' = hist
Swaps(m, b) ==
  m = tx /\ event'.phase = "loop" /\ Odd(answer', b, dev) /\ Marks(hist, hist', b, TRUE)
Misses(m, b) ==
  /\ m = tx /\ event'.phase = "error" /\ answer'.type = "none"
  /\ \/ event'.status = "STACK_ERROR" /\ hist' = hist
     \/ event'.status = "MEM_ERROR" /\ b.type = "data" /\ Marks(hist, hist', b, FALSE)

Takes_place(m, b) ==
  /\ m \in Records /\ b \in Records /\ SameRecord(m, tx)
  /\ m = tx \/ (~m.intact /\ tx.key # 0)
  /\ dev.on /\ Does(dev, m, dev', b)
  /\ Arrives(m, b) \/ Damages(m, b) \/ Swaps(m, b) \/ Misses(m, b)

LEMMA DamagedGarbles ==
  ASSUME NEW b \in Records, NEW a \in Damaged(b), b.key # 0
  PROVE  Garbles(a, b)
  <1>1. PICK n \in {0, R - 1, R} : a = [b EXCEPT !.intact = FALSE, !.seq = (@ + n) % SeqSize]
    BY DEF Damaged, R
  <1> DEFINE s == (b.seq + n) % SeqSize
  <1>2. a = [b EXCEPT !.intact = FALSE, !.seq = s]
    BY <1>1 DEF Records
  <1> HIDE DEF s
  <1> QED BY <1>2 DEF Records, Garbles

LEMMA StrangeOdd ==
  ASSUME NEW d \in Device, NEW b \in Records, NEW a \in Strange(b, d)
  PROVE  Odd(a, b, d)
  <1> DEFINE l == IF b.level = "NO" THEN "FULL" ELSE "NO"
  <1>1. l # b.level
    OBVIOUS
  <1>2. \/ a \in {Alert("fatal"), Alert("integrity"), Record("integrity"), Alert("other")}
        \/ a = d.last
        \/ a = [b EXCEPT !.length = 0]
        \/ a = [b EXCEPT !.length = 1]
        \/ a = [b EXCEPT !.level = l]
    BY DEF Strange, Records
  <1> HIDE DEF l
  <1>3. CASE a \in {Alert("fatal"), Alert("integrity"), Record("integrity"), Alert("other")}
    BY <1>3, RecordFacts DEF Types, Odd
  <1>4. CASE a = [b EXCEPT !.length = 0] \/ a = [b EXCEPT !.length = 1]
    BY <1>4 DEF Records, Odd
  <1>5. CASE a = [b EXCEPT !.level = l]
    BY <1>1, <1>5 DEF Records, Odd
  <1> QED BY <1>2, <1>3, <1>4, <1>5 DEF Odd

LEMMA LosesMarks ==
  ASSUME SInv, NEW b \in Records
  PROVE  /\ Marks(hist, Loses(hist, b), b, FALSE)
         /\ Marks(hist, [Loses(hist, b) EXCEPT !.odd = TRUE], b, TRUE)
  <1> DEFINE h == Loses(hist, b)
             g == [h EXCEPT !.odd = TRUE]
  <1>1. h \in History /\ h.lost = (IF b.type = "data" THEN hist.lost \cup {b.of} ELSE hist.lost)
        /\ h.confirmed = hist.confirmed
        /\ h.current = hist.current /\ h.outcome = hist.outcome /\ h.accepted = hist.accepted
        /\ h.fresh = hist.fresh /\ h.odd = hist.odd /\ h.sent_at_close = hist.sent_at_close
    BY LosesFacts
  <1> HIDE DEF h
  <1>2. g.odd = TRUE /\ g.lost = h.lost /\ g.confirmed = h.confirmed /\ g.current = h.current
        /\ g.outcome = h.outcome /\ g.accepted = h.accepted /\ g.fresh = h.fresh
        /\ g.sent_at_close = h.sent_at_close
    BY <1>1 DEF History
  <1>3. hist.odd \in BOOLEAN
    BY Parts DEF History
  <1>4. Marks(hist, h, b, FALSE)
    <2>1. h.odd = (hist.odd \/ FALSE)
      BY <1>1, <1>3
    <2> QED BY <1>1, <2>1 DEF Marks
  <1> HIDE DEF g
  <1>5. Marks(hist, g, b, TRUE)
    <2>1. g.odd = (hist.odd \/ TRUE)
      BY <1>2
    <2> QED BY <1>1, <1>2, <2>1 DEF Marks
  <1> QED BY <1>4, <1>5 DEF g, h

LEMMA EventFacts ==
  ASSUME NEW e, Event(e)
  PROVE  /\ event.phase = "none" /\ tl' = "idle" /\ tx' = NoRecord
         /\ event'.phase = e.phase /\ event'.status = e.status /\ answer' = e.answer
  BY DEF Event, Handling, answer

LEMMA FailureEvent ==
  ASSUME NEW status \in {"STACK_ERROR", "MEM_ERROR"}, Event(Failure(status))
  PROVE  event'.phase = "error" /\ event'.status = status /\ answer'.type = "none"
  <1>1. Failure(status).status = status
    BY NoEventFacts DEF Failure, Events
  <1> QED BY <1>1, EventFacts, FailureFacts, RecordFacts

LEMMA EndsFacts ==
  ASSUME SInv, tl = "exchange", UNCHANGED above, NEW e, Event(e)
  PROVE  Ends
  <1>1. comms = "INUSE" /\ i2c.reset_state = "none"
    BY Parts DEF Usable, Handling
  <1> QED BY <1>1, EventFacts DEF Ends, above

LEMMA TookFacts ==
  ASSUME SInv, NEW n \in FirstNumber(tx)
  PROVE  LET r == DeviceTakes(dev, tx, n) IN r.answer \in Records /\ Does(dev, tx, r.dev, r.answer)
  <1> DEFINE r == DeviceTakes(dev, tx, n)
  <1>1. r.answer \in Records
    BY DeviceSays DEF Says
  <1>2. Does(dev, tx, r.dev, r.answer)
    BY Parts, ChoiceFacts, DeviceDoes
  <1> QED BY <1>1, <1>2

LEMMA SameAsItself == \A m : SameRecord(m, m)
  BY DEF SameRecord

LEMMA AnsweredEffect ==
  ASSUME SInv, TlAnswered
  PROVE  Ends /\ \E m \in Records, b \in Records : Takes_place(m, b)
  <1>1. PICK n \in FirstNumber(tx) :
          LET r == DeviceTakes(dev, tx, n) IN Event(Answer(r.answer)) /\ dev' = r.dev
    BY DEF TlAnswered
  <1>2. tl = "exchange" /\ dev.on /\ UNCHANGED above /\ hist' = hist
    BY DEF TlAnswered
  <1> DEFINE r == DeviceTakes(dev, tx, n)
  <1>3. Event(Answer(r.answer)) /\ dev' = r.dev /\ r.answer \in Records
        /\ Does(dev, tx, r.dev, r.answer)
    BY <1>1, TookFacts
  <1> HIDE DEF r
  <1>4. Ends
    BY <1>2, <1>3, EndsFacts
  <1>5. Arrives(tx, r.answer)
    BY <1>2, <1>3, EventFacts, AnswerFacts DEF Arrives
  <1>6. Takes_place(tx, r.answer) /\ tx \in Records
    BY <1>2, <1>3, <1>5, Parts, SameAsItself DEF Takes_place
  <1> QED BY <1>3, <1>4, <1>6

LEMMA DamagedEffect ==
  ASSUME SInv, TlDamaged
  PROVE  Ends /\ \E m \in Records, b \in Records : Takes_place(m, b)
  <1>1. tl = "exchange" /\ dev.on /\ UNCHANGED above /\ hist' = hist
    BY DEF TlDamaged
  <1>2. CASE tx.key # 0 /\ LET r == DeviceTakes(dev, [tx EXCEPT !.intact = FALSE], 0)
                           IN Event(Answer(r.answer)) /\ dev' = r.dev
    <2> DEFINE m == [tx EXCEPT !.intact = FALSE]
               r == DeviceTakes(dev, m, 0)
    <2>1. m \in Records /\ 0 \in Choices /\ SameRecord(m, tx) /\ ~m.intact
      BY Parts DEF Records, Choices, SameRecord
    <2>2. Event(Answer(r.answer)) /\ dev' = r.dev
      BY <1>2
    <2> HIDE DEF m
    <2>3. r.answer \in Records /\ Does(dev, m, r.dev, r.answer)
      <3>1. r.answer \in Records
        BY <2>1, Parts, DeviceFacts DEF Says
      <3>2. Does(dev, m, r.dev, r.answer)
        BY <2>1, Parts, DeviceDoes
      <3> QED BY <3>1, <3>2
    <2> HIDE DEF r
    <2>4. Ends
      BY <1>1, <2>2, EndsFacts
    <2>5. Arrives(m, r.answer)
      BY <1>1, <2>2, <2>3, EventFacts, AnswerFacts DEF Arrives
    <2>6. Takes_place(m, r.answer)
      BY <1>1, <1>2, <2>1, <2>2, <2>3, <2>5 DEF Takes_place
    <2> QED BY <2>1, <2>3, <2>4, <2>6
  <1>3. CASE \E n \in FirstNumber(tx) :
               LET r == DeviceTakes(dev, tx, n)
               IN /\ r.answer.key # 0 /\ dev' = r.dev
                  /\ \E a \in Damaged(r.answer) : Event(Answer(a))
    <2>1. PICK n \in FirstNumber(tx) :
               LET r == DeviceTakes(dev, tx, n)
               IN r.answer.key # 0 /\ dev' = r.dev /\ \E a \in Damaged(r.answer) : Event(Answer(a))
      BY <1>3
    <2> DEFINE r == DeviceTakes(dev, tx, n)
    <2>2. r.answer.key # 0 /\ dev' = r.dev /\ r.answer \in Records
          /\ Does(dev, tx, r.dev, r.answer) /\ Says(dev, r.dev, r.answer)
      BY <2>1, TookFacts, DeviceSays
    <2>3. PICK a \in Damaged(r.answer) : Event(Answer(a))
      BY <2>1
    <2> HIDE DEF r
    <2>4. Ends /\ Garbles(a, r.answer) /\ a \in Records
      BY <1>1, <2>2, <2>3, EndsFacts, DamagedGarbles, DamagedTakes DEF Takes
    <2>5. Damages(tx, r.answer)
      BY <1>1, <2>3, <2>4, EventFacts, AnswerFacts DEF Damages
    <2>6. Takes_place(tx, r.answer) /\ tx \in Records
      BY <1>1, <2>2, <2>5, Parts, SameAsItself DEF Takes_place
    <2> QED BY <2>2, <2>4, <2>6
  <1> QED BY <1>2, <1>3 DEF TlDamaged

LEMMA StrangeEffect ==
  ASSUME SInv, TlStrange
  PROVE  Ends /\ \E m \in Records, b \in Records : Takes_place(m, b)
  <1>1. tl = "exchange" /\ dev.on /\ UNCHANGED above
    BY DEF TlStrange
  <1>2. PICK n \in FirstNumber(tx) :
             LET r == DeviceTakes(dev, tx, n)
             IN /\ dev' = r.dev /\ \E a \in Strange(r.answer, dev) : Event(Answer(a))
                /\ hist' = [Loses(hist, r.answer) EXCEPT !.odd = TRUE]
    BY DEF TlStrange
  <1> DEFINE r == DeviceTakes(dev, tx, n)
  <1>3. dev' = r.dev /\ Says(dev, r.dev, r.answer) /\ r.answer \in Records
        /\ hist' = [Loses(hist, r.answer) EXCEPT !.odd = TRUE]
        /\ Does(dev, tx, r.dev, r.answer)
    BY <1>2, DeviceSays, TookFacts
  <1>4. PICK a \in Strange(r.answer, dev) : Event(Answer(a))
    BY <1>2
  <1> HIDE DEF r
  <1>5. Ends /\ Odd(a, r.answer, dev) /\ a \in Records
    BY <1>1, <1>3, <1>4, Parts, EndsFacts, StrangeOdd, StrangeTakes DEF Takes
  <1>6. Swaps(tx, r.answer)
    <2>1. event'.phase = "loop" /\ answer' = a
      BY <1>4, <1>5, EventFacts, AnswerFacts
    <2>2. Marks(hist, hist', r.answer, TRUE)
      BY <1>3, LosesMarks
    <2> QED BY <1>5, <2>1, <2>2 DEF Swaps
  <1>7. Takes_place(tx, r.answer) /\ tx \in Records
    BY <1>1, <1>3, <1>6, Parts, SameAsItself DEF Takes_place
  <1> QED BY <1>3, <1>5, <1>7

LEMMA FailedEffect ==
  ASSUME SInv, TlFailed
  PROVE  Ends /\ (Breaks \/ \E m \in Records, b \in Records : Takes_place(m, b))
  <1>1. tl = "exchange" /\ UNCHANGED above
    BY DEF TlFailed
  <1>2. CASE Event(Failure("STACK_ERROR")) /\ dev' = dev /\ hist' = hist
    BY <1>1, <1>2, EndsFacts, FailureEvent DEF Breaks
  <1>3. CASE dev.on /\ \E n \in FirstNumber(tx), status \in {"STACK_ERROR", "MEM_ERROR"} :
               LET r == DeviceTakes(dev, tx, n)
               IN /\ status = "MEM_ERROR" => r.answer.type = "data"
                  /\ Event(Failure(status)) /\ dev' = r.dev
                  /\ hist' = IF status = "MEM_ERROR" THEN Loses(hist, r.answer) ELSE hist
    <2>1. PICK n \in FirstNumber(tx), status \in {"STACK_ERROR", "MEM_ERROR"} :
               LET r == DeviceTakes(dev, tx, n)
               IN /\ status = "MEM_ERROR" => r.answer.type = "data"
                  /\ Event(Failure(status)) /\ dev' = r.dev
                  /\ hist' = IF status = "MEM_ERROR" THEN Loses(hist, r.answer) ELSE hist
      BY <1>3
    <2> DEFINE r == DeviceTakes(dev, tx, n)
    <2>2. /\ status = "MEM_ERROR" => r.answer.type = "data"
          /\ dev' = r.dev /\ r.answer \in Records /\ Does(dev, tx, r.dev, r.answer)
          /\ hist' = IF status = "MEM_ERROR" THEN Loses(hist, r.answer) ELSE hist
      BY <2>1, TookFacts
    <2> HIDE DEF r
    <2>3. event'.phase = "error" /\ event'.status = status /\ answer'.type = "none" /\ Ends
      BY <1>1, <2>1, FailureEvent, EndsFacts
    <2>4. Misses(tx, r.answer)
      <3>1. CASE status = "MEM_ERROR"
        BY <2>2, <2>3, <3>1, LosesMarks DEF Misses
      <3>2. CASE status # "MEM_ERROR"
        BY <2>1, <2>2, <2>3, <3>2 DEF Misses
      <3> QED BY <3>1, <3>2
    <2>5. Takes_place(tx, r.answer) /\ tx \in Records
      BY <1>3, <2>2, <2>4, Parts, SameAsItself DEF Takes_place
    <2> QED BY <2>2, <2>3, <2>5
  <1> QED BY <1>2, <1>3 DEF TlFailed

LEMMA ExchangeEffect ==
  ASSUME SInv, TlAnswered \/ TlDamaged \/ TlStrange \/ TlFailed
  PROVE  Ends /\ (Breaks \/ \E m \in Records, b \in Records : Takes_place(m, b))
  BY AnsweredEffect, DamagedEffect, StrangeEffect, FailedEffect

\* The transport layer is ready, or cannot be made so.
Begins ==
  /\ event.phase = "none" /\ tl = "init" /\ comms = "INUSE" /\ i2c.reset_state = "none"
  /\ tl' = "idle" /\ tx' = NoRecord
  /\ comms' = comms /\ i2c' = i2c /\ prl' = prl /\ store' = store /\ dev' = dev /\ hist' = hist
  /\ answer'.type = "none"
  /\ event'.phase = "loop" \/ (event'.phase = "error" /\ event'.status = "STACK_ERROR")

LEMMA InitDoneEffect == ASSUME SInv, TlInitDone PROVE Begins
  <1>1. tl = "init" /\ UNCHANGED above /\ dev' = dev /\ hist' = hist
        /\ (Event([NoEvent EXCEPT !.phase = "loop"]) \/ Event(Failure("STACK_ERROR")))
    BY DEF TlInitDone
  <1>2. event.phase = "none" /\ tl' = "idle" /\ tx' = NoRecord
    BY <1>1 DEF Event, Handling
  <1>3. comms = "INUSE" /\ i2c.reset_state = "none"
    BY <1>1, <1>2, Parts DEF Usable, Handling
  <1>4. answer'.type = "none"
        /\ (event'.phase = "loop" \/ (event'.phase = "error" /\ event'.status = "STACK_ERROR"))
    <2>1. CASE Event([NoEvent EXCEPT !.phase = "loop"])
      <3> DEFINE e == [NoEvent EXCEPT !.phase = "loop"]
      <3>1. e.phase = "loop" /\ e.answer = NoRecord
        BY NoEventFacts DEF Events
      <3>2. Event(e)
        BY <2>1
      <3> HIDE DEF e
      <3> QED BY <3>1, <3>2, EventFacts, RecordFacts
    <2>2. CASE Event(Failure("STACK_ERROR"))
      BY <2>2, FailureEvent
    <2> QED BY <1>1, <2>1, <2>2
  <1> QED BY <1>1, <1>2, <1>3, <1>4 DEF Begins, above

\* Nothing of the upper layers changes but the answer and the device.
LEMMA QuietAsked ==
  ASSUME SInv, Asked, event.phase = "none", tl # "idle", i2c.reset_state = "none",
         tl' = "idle", i2c' = i2c, prl' = prl, store' = store,
         hist'.confirmed = hist.confirmed, hist'.fresh = hist.fresh,
         hist'.sent_at_close = hist.sent_at_close, dev'.on = dev.on,
         event'.phase \in {"loop", "error"},
         event'.phase = "error" => /\ event'.status \in {"STACK_ERROR", "MEM_ERROR"}
                                   /\ event'.status = "MEM_ERROR" => prl.state = "VERIFY"
                                   /\ answer'.type = "none",
         answer'.type # "none" => dev.on,
         answer'.type = "finished" => answer'.key # 0
  PROVE  Asked'
  <1>1. Reserve' = Reserve
    BY DEF Reserve, Context
  <1>2. prl.state # "UNINIT"
    BY DEF Asked, Turn
  <1>3. Powered'
    BY DEF Asked, Powered, Emptied, Handling
  <1>4. Turn'
    BY <1>2 DEF Asked, Turn, Handling
  <1>5. Course'
    BY DEF Asked, Course, Waits, Talks, Opens
  <1>6. Confirmed'
    BY <1>1 DEF Asked, Confirmed, Alive, Waits, Renewing, Emptied, Talks, Handling
  <1> QED BY <1>3, <1>4, <1>5, <1>6 DEF Asked

LEMMA DoesAsked ==
  ASSUME NEW d, NEW m, NEW e, NEW b, Does(d, m, e, b)
  PROVE  /\ e.on = d.on
         /\ b.type = "finished" => b.key # 0
         /\ b.type = "data" => m.type \in {"data", "alert"}
         /\ b.type \in {"hello", "finished", "data", "integrity", "saved", "restored", "fatal"}
  BY DEF Does, Greets, Confirms, Runs, Objects, Resends, Keeps, Restores, Complains, Responds

LEMMA ExchangeAsked ==
  ASSUME SInv, Asked, TlAnswered \/ TlDamaged \/ TlStrange \/ TlFailed
  PROVE  Asked'
  <1>1. Ends /\ (Breaks \/ \E m \in Records, b \in Records : Takes_place(m, b))
    BY ExchangeEffect
  <1>2. CASE Breaks
    BY <1>1, <1>2, QuietAsked DEF Ends, Breaks
  <1>3. CASE \E m \in Records, b \in Records : Takes_place(m, b)
    <2>1. PICK m \in Records, b \in Records : Takes_place(m, b)
      BY <1>3
    <2>2. dev'.on = dev.on /\ dev.on /\ (b.type = "finished" => b.key # 0)
          /\ (b.type = "data" => m.type \in {"data", "alert"}) /\ m.type = tx.type
      BY <2>1, DoesAsked DEF Takes_place, SameRecord
    <2>3. b.type = "data" => prl.state = "VERIFY"
      BY <1>1, <2>2 DEF Asked, Turn, Ends
    <2>4. dev.last.type \in {"none", "data"}
      BY Parts
    <2>5. hist'.confirmed = hist.confirmed /\ hist'.fresh = hist.fresh
          /\ hist'.sent_at_close = hist.sent_at_close
      BY <2>1 DEF Takes_place, Arrives, Damages, Swaps, Misses, Marks
    <2>6. /\ event'.phase \in {"loop", "error"}
          /\ event'.phase = "error" => /\ event'.status \in {"STACK_ERROR", "MEM_ERROR"}
                                       /\ event'.status = "MEM_ERROR" => b.type = "data"
                                       /\ answer'.type = "none"
          /\ answer'.type = "finished" => answer'.key # 0
      <3>1. CASE Arrives(m, b)
        BY <2>2, <3>1 DEF Arrives
      <3>2. CASE Damages(m, b)
        BY <2>2, <3>2 DEF Damages, Garbles
      <3>3. CASE Swaps(m, b)
        BY <2>2, <2>4, <3>3 DEF Swaps, Odd
      <3>4. CASE Misses(m, b)
        BY <2>2, <3>4 DEF Misses
      <3> QED BY <2>1, <3>1, <3>2, <3>3, <3>4 DEF Takes_place
    <2> QED BY <1>1, <2>2, <2>3, <2>5, <2>6, QuietAsked DEF Ends
  <1> QED BY <1>1, <1>2, <1>3

LEMMA InitDoneAsked == ASSUME SInv, Asked, TlInitDone PROVE Asked'
  BY InitDoneEffect, QuietAsked DEF Begins

-----------------------------------------------------------------------------
(* Requests are sent as they were asked for                                 *)

LEMMA InitAsked == ASSUME Init PROVE Asked
  <1>1. PICK configured \in StoreConfigured :
       prl = [state |-> "UNINIT", hs_state |-> "SEND_HELLO", mc_state |-> "TX",
              negotiated |-> FALSE, key |-> 0, master |-> 0, save_slave |-> 0,
              decryption_failure_counter |-> 0, data_retransmit_counter |-> 0,
              trans_repeat |-> FALSE, alert |-> "DEFAULT", return_status |-> "SUCCESS",
              restore_done |-> FALSE, handler |-> "tl", sealed |-> FALSE,
              saved |-> NoContext, configured |-> configured]
    BY DEF Init
  <1>2. prl.state = "UNINIT" /\ prl.handler = "tl" /\ ~prl.negotiated /\ prl.saved = NoContext
    BY <1>1
  <1>3. event = NoEvent /\ tl = "idle" /\ store = NoContext
    BY DEF Init
  <1>4. i2c.reset_state = "none" /\ 0 \notin hist.confirmed
    BY DEF Init
  <1>5. event.phase = "none" /\ answer.type = "none" /\ ~NoContext.stored
    BY <1>3, NoEventFacts, NoContextFacts, RecordFacts DEF answer
  <1>6. ~Reserve.stored
    BY <1>2, <1>3, <1>5 DEF Reserve, Context
  <1>7. Powered /\ Turn /\ Course
    BY <1>2, <1>3, <1>4, <1>5 DEF Powered, Turn, Course, Emptied, Waits, Talks, Opens, Handling
  <1>8. Confirmed
    BY <1>2, <1>4, <1>5, <1>6 DEF Confirmed, Renewing, Waits, Talks
  <1> QED BY <1>7, <1>8 DEF Asked

LEMMA SameAsked == ASSUME Asked, UNCHANGED vars PROVE Asked'
  BY DEF Asked, Powered, Turn, Course, Confirmed, Alive, Waits, Renewing, Talks, Opens, Emptied,
         Reserve, Context, Handling, answer, vars

LEMMA NextAsked == ASSUME SInv, Asked, [Next]_vars PROVE Asked'
  <1>1. CASE Handler
    <2>1. CASE EnterError \/ Idle \/ Start \/ HandlerReturns
      BY <2>1, EnterErrorAsked, IdleAsked, StartAsked, ReturnsAsked
    <2>2. CASE \/ HandshakeStoreFails \/ SendHello \/ HelloAccepted \/ HelloRefused
               \/ HelloFails \/ FinishedAccepted \/ FinishedRefused
      BY <2>2, StoreFailsCloses, HelloCloses, FinishedCloses, ClosesAsked, HelloAsked,
         FinishedAsked
    <2>3. CASE TxrxRenegotiate \/ TxrxSend \/ TxrxFails
      BY <2>3, RenegotiateAsked, TxrxSendAsked, TxrxCloses, ClosesAsked
    <2>4. CASE \/ VerifyRejected \/ VerifyAlert \/ VerifyUnreadable \/ VerifyAccepted
               \/ VerifyPlainShort \/ VerifyPlain
      BY <2>4, VerifyCloses, ClosesAsked, VerifyAsked
    <2>5. CASE AlertRepeat \/ AlertEnds \/ ErrorAlert \/ ErrorEnds
      BY <2>5, AlertAsked, ErrorAlertAsked
    <2>6. CASE \/ ManageReestablish \/ ManageSave \/ ManageNothingSaved \/ ManageRestore
               \/ ManageStoreFails \/ ManageRestored \/ ManageSaved \/ ManageSaveFails
               \/ ManageRefused
      BY <2>6, ManageAsked, ManageSendAsked, ManageStoreCloses, ManageEndCloses, ClosesAsked
    <2> QED BY <1>1, <2>1, <2>2, <2>3, <2>4, <2>5, <2>6 DEF Handler
  <1>2. CASE UpperLayer
    <2>1. ASSUME NEW ask \in Asks, NEW manage \in {i2c.manage, "NONE"},
                 CommsTransceive(ask[1], ask[2], manage)
          PROVE  Asked'
      <3>1. ask[1] \in Levels /\ ask[2] \in BOOLEAN
        BY ChoiceAssumption DEF Levels
      <3> QED BY <2>1, <3>1, TransceiveAsked
    <2> QED BY <1>2, <2>1, OpenAsked, ResetAsked, CloseAsked DEF UpperLayer
  <1>3. CASE InitTimer
    BY <1>3, TimerAsked
  <1>4. CASE Transport
    BY <1>4, InitDoneAsked, ExchangeAsked DEF Transport
  <1>5. CASE UNCHANGED vars
    BY <1>5, SameAsked
  <1> QED BY <1>1, <1>2, <1>3, <1>4, <1>5 DEF Next

THEOREM SessionAsked == Spec => [](SInv /\ Asked)
  <1>1. Init => SInv /\ Asked
    BY InitSInv, InitAsked
  <1>2. (SInv /\ Asked) /\ [Next]_vars => (SInv /\ Asked)'
    BY NextSInv, NextAsked
  <1> QED BY <1>1, <1>2, PTL DEF Spec

\* No request leaves with less protection than was asked for, nor under a key
\* that the device never confirmed, nor under the old one when a new one was
\* asked for: not through the repetition after an alert, not after the session
\* was saved and restored, and not after a failure in any of these.
THEOREM SessionAsAsked == Spec => []AsAsked
  <1>1. ASSUME SInv, Asked PROVE AsAsked
    <2> SUFFICES ASSUME tl = "exchange", tx.type = "data"
                 PROVE  /\ tx.level = i2c.level
                        /\ ProtectsMaster(i2c.level) => tx.key \in hist.confirmed
                        /\ i2c.re_establish => hist.fresh
      BY DEF AsAsked
    <2>1. prl.state = "VERIFY" /\ tx.level = i2c.level
          /\ (ProtectsMaster(i2c.level) => tx.key = prl.key)
      BY <1>1 DEF Asked, Turn
    <2>2. ~Handling("error")
      BY <1>1, Parts DEF Usable, Handling
    <2>3. ProtectsMaster(i2c.level) => i2c.level # "NO"
      BY DEF ProtectsMaster
    <2> QED BY <1>1, <2>1, <2>2, <2>3 DEF Asked, Course, Confirmed, Talks
  <1>2. SInv /\ Asked => AsAsked
    BY <1>1
  <1> QED BY <1>2, SessionAsked, PTL

-----------------------------------------------------------------------------
(* What the device has executed                                             *)

Sent(type) == tl = "exchange" /\ prl.state = "VERIFY" /\ tx.type = type

\* The device refused the record, so it did not execute it.
Objected == Handling("loop") /\ prl.state \in {"VERIFY", "ALERT"} /\ answer.type = "integrity"

\* A payload that is still encrypted is only sent when the stack is closed.
Sealing ==
  /\ prl.handler = "tl" =>
       /\ Opens => ~prl.sealed
       /\ (prl.state = "TXRX" /\ prl.sealed) => prl.trans_repeat /\ prl.alert = "INTEGRITY"
       /\ (Opens \/ Talks \/ prl.state = "MANAGE_CONTEXT") => hist.current # 0
       /\ Sent("data") => tx.of = hist.current
  /\ Sent("data") => tx.of \in {0, hist.current}

\* Up to here the device has not executed the request.
Untouched ==
  (/\ prl.handler = "tl" /\ ~hist.odd
   /\ Opens \/ prl.state \in {"TXRX", "MANAGE_CONTEXT"} \/ Sent("data") \/ Objected)
  => dev.executed < hist.current

Executed ==
  /\ dev.executed <= hist.current
  /\ hist.sent_at_close \/ ~dev.garbled
  /\ hist.sent_at_close \/ (dev.executed = hist.current /\ ~hist.odd => dev.times <= 1)

Once == Sealing /\ Untouched /\ Executed

\* The device has executed nothing in between.
SameWork ==
  /\ dev'.executed = dev.executed /\ dev'.times = dev.times /\ dev'.garbled = dev.garbled
  /\ hist'.current = hist.current /\ hist'.odd = hist.odd
  /\ hist.sent_at_close => hist'.sent_at_close

LEMMA ExecutedKept == ASSUME Executed, SameWork PROVE Executed'
  BY DEF Executed, SameWork

LEMMA RoundOnce ==
  ASSUME SInv, Once, Round, SameWork, prl'.handler = prl.handler,
         \/ prl'.state \in {"IDLE", "ERROR", "ALERT", "TXRX"}
         \/ prl'.state \in {"START", "HANDSHAKE"} /\ (prl.handler = "tl" => ~prl'.sealed),
         prl.handler = "tl" =>
           /\ prl'.state = "TXRX" =>
                /\ prl'.sealed => prl'.trans_repeat /\ prl'.alert = "INTEGRITY"
                /\ Opens \/ prl.state \in {"TXRX", "MANAGE_CONTEXT"} \/ Objected
           /\ prl'.state \in {"START", "HANDSHAKE"} =>
                Opens \/ prl.state \in {"TXRX", "MANAGE_CONTEXT"}
           /\ prl'.state = "ERROR" /\ prl'.alert = "INTEGRITY" => Talks
           /\ prl'.state = "ALERT" => prl.state = "VERIFY"
  PROVE  Once'
  <1>1. answer' = answer /\ tl' = "idle"
    BY DEF Round, answer
  <1>2. Sealing'
    BY <1>1 DEF Round, SameWork, Once, Sealing, Opens, Talks, Sent, Objected
  <1>3. Untouched'
    BY <1>1 DEF Round, SameWork, Once, Untouched, Opens, Sent, Objected, Handling
  <1> QED BY <1>2, <1>3, ExecutedKept DEF Once

LEMMA SameWorkFacts == ASSUME Round \/ dev' = dev, hist' = hist PROVE SameWork
  BY DEF Round, SameWork

LEMMA ClosesOnce == ASSUME SInv, Asked, Once, Closes PROVE Once'
  BY SameWorkFacts, RoundOnce DEF Closes

LEMMA TalksOnce ==
  ASSUME SInv, Asked, Once, Start \/ TxrxRenegotiate \/ FinishedAccepted PROVE Once'
  <1>1. CASE Start
    <2>1. prl.handler = "tl" => ~prl'.sealed
      BY <1>1, StartEffect DEF Once, Sealing, Opens
    <2> QED BY <1>1, <2>1, StartEffect, SameWorkFacts, RoundOnce DEF Unmoved, Opens
  <1>2. CASE TxrxRenegotiate
    <2>1. prl.handler = "tl" => ~prl'.sealed
      BY <1>2, RenegotiateEffect DEF Once, Sealing
    <2> QED BY <1>2, <2>1, RenegotiateEffect, SameWorkFacts, RoundOnce DEF Unmoved, Opens
  <1>3. CASE FinishedAccepted
    <2>1. prl.handler = "tl" => ~prl'.sealed
      BY <1>3, FinishedEffect DEF Once, Sealing, Opens
    <2>2. SameWork
      BY <1>3, FinishedEffect DEF Round, SameWork
    <2> QED BY <1>3, <2>1, <2>2, FinishedEffect, RoundOnce DEF Opens
  <1> QED BY <1>1, <1>2, <1>3

LEMMA VerifyOnce ==
  ASSUME SInv, Asked, Once, VerifyAlert \/ VerifyUnreadable \/ VerifyAccepted \/ VerifyPlain
  PROVE  Once'
  <1>1. CASE VerifyAlert
    BY <1>1, VerifyAlertEffect, SameWorkFacts, RoundOnce DEF Unmoved
  <1>2. CASE VerifyUnreadable
    BY <1>2, UnreadableEffect, SameWorkFacts, RoundOnce DEF Unmoved
  <1>3. CASE VerifyAccepted
    <2>1. SameWork
      BY <1>3, AcceptedEffect, Parts DEF Round, SameWork, History
    <2> QED BY <1>3, <2>1, AcceptedEffect, RoundOnce DEF Unmoved
  <1>4. CASE VerifyPlain
    BY <1>4, PlainEffect, SameWorkFacts, RoundOnce DEF Unmoved
  <1> QED BY <1>1, <1>2, <1>3, <1>4

LEMMA AlertOnce == ASSUME SInv, Asked, Once, AlertRepeat \/ AlertEnds \/ ErrorEnds PROVE Once'
  <1>1. CASE AlertRepeat
    BY <1>1, RepeatEffect, SameWorkFacts, RoundOnce DEF Unmoved, Round, Objected, Handling
  <1>2. CASE AlertEnds
    <2>1. CASE ~Closes
      BY <1>2, <2>1, AlertEndsEffect, SameWorkFacts, RoundOnce DEF Unmoved, Talks
    <2> QED BY <2>1, ClosesOnce
  <1>3. CASE ErrorEnds
    BY <1>3, ErrorEndsEffect, SameWorkFacts, RoundOnce DEF Unmoved
  <1> QED BY <1>1, <1>2, <1>3

LEMMA ManageOnce ==
  ASSUME SInv, Asked, Once,
         ManageReestablish \/ ManageNothingSaved \/ ManageRestored \/ ManageSaved
  PROVE  Once'
  <1>1. prl.state = "MANAGE_CONTEXT" => (prl.handler = "tl" => ~prl.sealed)
    BY DEF Asked, Course
  <1>2. CASE ManageReestablish
    <2>1. SameWork
      BY <1>2, ReestablishEffect DEF Round, SameWork
    <2> QED BY <1>1, <1>2, <2>1, ReestablishEffect, RoundOnce DEF Unmoved
  <1>3. CASE ManageNothingSaved
    BY <1>1, <1>3, NothingSavedEffect, SameWorkFacts, RoundOnce
  <1>4. CASE ManageRestored
    BY <1>1, <1>4, RestoredEffect, SameWorkFacts, RoundOnce DEF Renewing, Waits
  <1>5. CASE ManageSaved
    BY <1>5, SavedEffect, SameWorkFacts, RoundOnce
  <1> QED BY <1>2, <1>3, <1>4, <1>5

LEMMA HandshakeOnce == ASSUME SInv, Asked, Once, SendHello \/ HelloAccepted PROVE Once'
  <1>1. SameWork
    BY HelloEffect, HelloAcceptedEffect, SameWorkFacts DEF Sending
  <1>2. prl.state = "HANDSHAKE" /\ prl'.state = "HANDSHAKE" /\ prl'.handler = prl.handler
        /\ prl'.sealed = prl.sealed
    BY HelloEffect, HelloAcceptedEffect
  <1>3. Sealing'
    BY <1>1, <1>2 DEF SameWork, Once, Sealing, Opens, Talks, Sent
  <1>4. Untouched'
    BY <1>1, <1>2 DEF SameWork, Once, Untouched, Opens, Sent, Objected
  <1> QED BY <1>1, <1>3, <1>4, ExecutedKept DEF Once

LEMMA TxrxSendOnce == ASSUME SInv, Asked, Once, TxrxSend PROVE Once'
  <1>1. SameWork
    BY TxrxSendEffect DEF Sending, SameStory, SameWork
  <1>2. event'.phase = "none"
    BY TxrxSendEffect DEF Sending
  <1>3. prl.handler = "tl" => ~Sealed
    BY TxrxSendEffect DEF Once, Sealing, Sealed
  <1>4. Sealing'
    BY <1>1, <1>3, TxrxSendEffect DEF SameWork, Once, Sealing, Opens, Talks, Sent
  <1>5. Untouched'
    BY <1>1, <1>2, TxrxSendEffect DEF SameWork, Once, Untouched, Opens, Sent, Objected, Handling
  <1> QED BY <1>1, <1>4, <1>5, ExecutedKept DEF Once

LEMMA SendsOnce == ASSUME SInv, Asked, Once, ErrorAlert \/ ManageSave \/ ManageRestore PROVE Once'
  <1>1. SameWork /\ event'.phase = "none" /\ prl'.handler = prl.handler
    BY ErrorAlertEffect, SaveEffect, RestoreEffect, SameWorkFacts DEF Sending, Unmoved
  <1>2. \/ prl'.state = "VERIFY" /\ tx'.type = "alert" /\ Talks
        \/ prl'.state = "MANAGE_CONTEXT" /\ prl.state = "MANAGE_CONTEXT"
    BY ErrorAlertEffect, SaveEffect, RestoreEffect, RecordFacts DEF Sending, Talks, Types
  <1>3. Sealing'
    BY <1>1, <1>2 DEF SameWork, Once, Sealing, Opens, Talks, Sent
  <1>4. Untouched'
    BY <1>1, <1>2 DEF SameWork, Once, Untouched, Opens, Sent, Objected, Handling
  <1> QED BY <1>1, <1>3, <1>4, ExecutedKept DEF Once

\* Steps at the ends of an operation: no request is on its way afterwards, or
\* the stack is being closed.
LEMMA CalmOnce ==
  ASSUME SInv, Once, SameWork, tl' # "exchange",
         prl'.handler = "tl" => prl'.state \in {"IDLE", "UNINIT"}
                                  \/ (prl'.state = "ERROR" /\ prl'.alert = "INVALID")
  PROVE  Once'
  <1>1. Sealing'
    BY DEF Sealing, Opens, Talks, Sent
  <1>2. Untouched'
    BY DEF Untouched, Opens, Sent, Objected
  <1> QED BY <1>1, <1>2, ExecutedKept DEF Once

LEMMA ToldKeeps ==
  ASSUME SInv, NEW status
  PROVE  LET h == Told(hist, status)
         IN /\ h.current = hist.current /\ h.odd = hist.odd /\ h.lost = hist.lost
            /\ h.accepted = hist.accepted /\ h.sent_at_close = hist.sent_at_close
            /\ h.confirmed = hist.confirmed /\ h.fresh = hist.fresh
  BY Parts DEF Told, History

LEMMA EndsOnce == ASSUME SInv, Asked, Once, EnterError \/ Idle \/ HandlerReturns PROVE Once'
  <1>1. CASE EnterError
    BY <1>1, EnterErrorEffect, SameWorkFacts, CalmOnce
  <1>2. CASE Idle
    <2>1. Remembers(dev, dev') \/ dev' = dev
      BY <1>2, IdleEffect, Parts, ResetRemembers
    <2>2. SameWork
      BY <1>2, <2>1, IdleEffect, ToldKeeps DEF SameWork, Remembers
    <2> QED BY <1>2, <2>2, IdleEffect, CalmOnce
  <1>3. CASE HandlerReturns
    BY <1>3, ReturnsEffect, SameWorkFacts, CalmOnce
  <1> QED BY <1>1, <1>2, <1>3

LEMMA PowerOnFacts ==
  ASSUME NEW d \in Device
  PROVE  LET e == [d EXCEPT !.on = TRUE] IN
         /\ e.on = TRUE /\ Remembers(d, e) /\ e.key = d.key /\ e.pending = d.pending
         /\ e.master = d.master
  BY DEF Device, Remembers

LEMMA CallsOnce ==
  ASSUME SInv, Asked, Once,
         \/ \E manage \in {"NONE", "RESTORE"} : CommsOpen(manage)
         \/ \E type \in {"COLD", "WARM", "SOFT"} : CommsReset(type)
         \/ \E manage \in {"NONE", "SAVE"} : CommsClose(manage)
         \/ InitTimer
  PROVE  Once'
  <1>1. CASE \E manage \in {"NONE", "RESTORE"} : CommsOpen(manage)
    <2>1. SameWork
      BY <1>1, OpenEffect, Parts, ResetRemembers DEF SameWork, Remembers
    <2> QED BY <1>1, <2>1, OpenEffect, CalmOnce DEF Calls
  <1>2. CASE \E type \in {"COLD", "WARM", "SOFT"} : CommsReset(type)
    <2>1. SameWork
      BY <1>2, ResetEffect, Parts, ResetRemembers DEF SameWork, Remembers
    <2> QED BY <1>2, <2>1, ResetEffect, CalmOnce DEF Calls, Initialises
  <1>3. CASE \E manage \in {"NONE", "SAVE"} : CommsClose(manage)
    <2>1. SameWork
      BY <1>3, CloseEffect, Parts, ResetRemembers DEF SameWork, Remembers
    <2>2. prl'.handler = "tl" => prl'.state \in {"IDLE", "UNINIT"}
      BY <1>3, CloseEffect
    <2> QED BY <1>3, <2>1, <2>2, CloseEffect, CalmOnce DEF Calls
  <1>4. CASE InitTimer
    <2>1. SameWork
      BY <1>4, TimerEffect, Parts, PowerOnFacts DEF SameWork, Remembers
    <2>2. CASE Initialises
      BY <1>4, <2>1, <2>2, CalmOnce DEF Initialises
    <2>3. CASE ~Initialises
      <3>1. Sealing'
        BY <1>4, <2>1, <2>3, TimerEffect DEF SameWork, Once, Sealing, Opens, Talks, Sent
      <3>2. Untouched'
        BY <1>4, <2>1, <2>3, TimerEffect
           DEF SameWork, Once, Untouched, Opens, Sent, Objected, Handling, answer
      <3> QED BY <2>1, <3>1, <3>2, ExecutedKept DEF Once
    <2> QED BY <2>2, <2>3
  <1> QED BY <1>1, <1>2, <1>3, <1>4

LEMMA TransceiveOnce ==
  ASSUME SInv, Asked, Once, NEW level \in Levels, NEW re \in BOOLEAN,
         NEW manage \in {i2c.manage, "NONE"}, CommsTransceive(level, re, manage)
  PROVE  Once'
  <1>1. dev' = dev /\ hist'.current = hist.current + 1 /\ hist'.odd = FALSE
        /\ hist'.sent_at_close = hist.sent_at_close
    BY TransceiveEffect
  <1>2. dev.executed \in Nat /\ hist.current \in Nat /\ dev.executed <= hist.current
    BY Parts DEF Once, Executed, Device, History
  <1>3. dev.executed < hist.current + 1 /\ hist.current + 1 # 0 /\ dev.executed # hist.current + 1
        /\ dev.executed <= hist.current + 1
    BY <1>2
  <1>4. Sealing'
    BY <1>1, <1>3, TransceiveEffect DEF Calls, Sealing, Opens, Talks, Sent
  <1>5. Untouched'
    BY <1>1, <1>3 DEF Untouched
  <1>6. Executed'
    BY <1>1, <1>3 DEF Once, Executed
  <1> QED BY <1>4, <1>5, <1>6 DEF Once

\* What a record does to the work of the device.
Works(d, m, e) ==
  \/ e.executed = d.executed /\ e.times = d.times /\ e.garbled = d.garbled
  \/ m.type = "data" /\ m.of = 0 /\ e.executed = d.executed /\ e.times = d.times
  \/ /\ m.type = "data" /\ m.of # 0 /\ e.executed = m.of /\ e.garbled = d.garbled
     /\ e.times = IF d.executed = m.of THEN 2 ELSE 1

LEMMA DoesWork ==
  ASSUME NEW d, NEW m, NEW e, NEW b, Does(d, m, e, b)
  PROVE  /\ Works(d, m, e)
         /\ b.type = "integrity" => m.type = "data" /\ e = d
  BY DEF Does, Greets, Confirms, Runs, Objects, Resends, Keeps, Restores, Complains, Responds,
         Remembers, Works

LEMMA SameWorks == ASSUME NEW d, NEW m, NEW n, NEW e, SameRecord(m, n), Works(d, m, e)
                   PROVE  Works(d, n, e)
  BY DEF SameRecord, Works

LEMMA ExchangeOnce ==
  ASSUME SInv, Asked, Once, TlAnswered \/ TlDamaged \/ TlStrange \/ TlFailed
  PROVE  Once'
  <1>1. Ends /\ (Breaks \/ \E m \in Records, b \in Records : Takes_place(m, b))
    BY ExchangeEffect
  <1>2. tl' = "idle" /\ prl' = prl /\ i2c' = i2c /\ event.phase = "none" /\ tl = "exchange"
        /\ prl.state \in {"MANAGE_CONTEXT", "VERIFY", "HANDSHAKE"}
        /\ (prl.state = "VERIFY" <=> tx.type \in {"data", "alert"})
    BY <1>1 DEF Ends, Asked, Turn
  <1>3. Sealing'
    <2>1. hist'.current = hist.current
      BY <1>1 DEF Breaks, Takes_place, Arrives, Damages, Swaps, Misses, Marks
    <2> QED BY <1>2, <2>1 DEF Once, Sealing, Opens, Talks, Sent
  <1>4. CASE Breaks
    <2>1. SameWork
      BY <1>4, SameWorkFacts DEF Breaks
    <2>2. Untouched'
      BY <1>2, <1>4 DEF Breaks, Once, Untouched, Opens, Sent, Objected, Handling
    <2> QED BY <1>3, <2>1, <2>2, ExecutedKept DEF Once
  <1>5. CASE \E m \in Records, b \in Records : Takes_place(m, b)
    <2>1. PICK m \in Records, b \in Records : Takes_place(m, b)
      BY <1>5
    <2>2. /\ Works(dev, tx, dev')
          /\ b.type = "integrity" => tx.type = "data" /\ dev' = dev
      <3>1. SameRecord(m, tx) /\ m.type = tx.type /\ Does(dev, m, dev', b)
        BY <2>1 DEF Takes_place, SameRecord
      <3>2. Works(dev, m, dev') /\ (b.type = "integrity" => m.type = "data" /\ dev' = dev)
        BY <3>1, DoesWork
      <3> QED BY <3>1, <3>2, SameWorks
    <2>3. hist'.current = hist.current /\ hist'.sent_at_close = hist.sent_at_close
          /\ (hist.odd => hist'.odd)
      BY <2>1 DEF Takes_place, Arrives, Damages, Swaps, Misses, Marks
    <2>4. /\ dev.executed \in Nat /\ hist.current \in Nat /\ dev.executed <= hist.current
          /\ hist.sent_at_close \/ ~dev.garbled
          /\ hist.sent_at_close \/ (dev.executed = hist.current /\ ~hist.odd => dev.times <= 1)
      BY Parts DEF Once, Executed, Device, History
    <2>5. tx.type = "data" => Sent("data")
      BY <1>2 DEF Sent
    <2>6. hist.sent_at_close \/ prl.state # "VERIFY" \/ prl.handler = "tl"
      BY Parts DEF Asked, Course, Talks, Prl
    <2>7. Executed'
      <3>1. CASE dev'.executed = dev.executed /\ dev'.times = dev.times /\ dev'.garbled = dev.garbled
        BY <2>3, <2>4, <3>1 DEF Executed
      <3>2. CASE tx.type = "data" /\ tx.of = 0 /\ dev'.executed = dev.executed /\ dev'.times = dev.times
        <4>1. hist.sent_at_close
          BY <1>2, <2>5, <2>6, <3>2 DEF Once, Sealing, Talks
        <4> QED BY <2>3, <2>4, <3>2, <4>1 DEF Executed
      <3>3. CASE /\ tx.type = "data" /\ tx.of # 0 /\ dev'.executed = tx.of
                 /\ dev'.garbled = dev.garbled
                 /\ dev'.times = IF dev.executed = tx.of THEN 2 ELSE 1
        <4>1. tx.of = hist.current
          BY <2>5, <3>3 DEF Once, Sealing
        <4>2. hist.sent_at_close \/ hist.odd \/ dev.executed < hist.current
          BY <1>2, <2>5, <2>6, <3>3, Parts DEF Once, Untouched, History
        <4>3. hist.sent_at_close \/ hist.odd \/ dev'.times = 1
          BY <2>4, <3>3, <4>1, <4>2
        <4> QED BY <2>3, <2>4, <3>3, <4>1, <4>3 DEF Executed
      <3> QED BY <2>2, <3>1, <3>2, <3>3 DEF Works
    <2>8. Untouched'
      <3> SUFFICES ASSUME prl.handler = "tl", ~hist'.odd,
                          prl.state \in {"MANAGE_CONTEXT", "HANDSHAKE"} \/ Objected'
                   PROVE  dev'.executed < hist'.current
        BY <1>2 DEF Untouched, Opens, Sent
      <3>1. ~hist.odd
        BY <2>3
      <3>2. CASE prl.state \in {"MANAGE_CONTEXT", "HANDSHAKE"}
        <4>1. dev'.executed = dev.executed
          BY <1>2, <2>2, <3>2 DEF Works
        <4> QED BY <2>3, <3>1, <3>2, <4>1 DEF Once, Untouched, Opens
      <3>3. CASE Objected'
        <4>1. b.type = "integrity"
          BY <2>1, <3>3 DEF Takes_place, Arrives, Damages, Garbles, Swaps, Misses, Marks, Objected
        <4>2. Sent("data") /\ dev' = dev
          BY <2>2, <2>5, <4>1
        <4> QED BY <2>3, <3>1, <4>2 DEF Once, Untouched
      <3> QED BY <3>2, <3>3
    <2> QED BY <1>3, <2>7, <2>8 DEF Once
  <1> QED BY <1>1, <1>4, <1>5

LEMMA InitDoneOnce == ASSUME SInv, Asked, Once, TlInitDone PROVE Once'
  <1>1. Sealing'
    BY InitDoneEffect DEF Begins, Once, Sealing, Opens, Talks, Sent
  <1>2. Untouched'
    BY InitDoneEffect DEF Begins, Once, Untouched, Opens, Sent, Objected, Handling
  <1> QED BY <1>1, <1>2, InitDoneEffect, SameWorkFacts, ExecutedKept DEF Begins, Once

LEMMA SameOnce == ASSUME Once, UNCHANGED vars PROVE Once'
  BY DEF Once, Sealing, Untouched, Executed, Opens, Talks, Sent, Objected, Handling, answer, vars

LEMMA InitOnce == ASSUME Init PROVE Once
  <1>1. tl = "idle" /\ dev.executed = 0 /\ dev.times = 0 /\ dev.garbled = FALSE
        /\ hist.current = 0 /\ event = NoEvent
    BY DEF Init
  <1>2. prl.state = "UNINIT" /\ event.phase = "none"
    BY <1>1, NoEventFacts DEF Init
  <1> QED BY <1>1, <1>2 DEF Once, Sealing, Untouched, Executed, Opens, Talks, Sent, Objected, Handling

LEMMA NextOnce == ASSUME SInv, Asked, Once, [Next]_vars PROVE Once'
  <1>1. CASE Handler
    <2>1. CASE EnterError \/ Idle \/ Start \/ HandlerReturns
      BY <2>1, EndsOnce, TalksOnce
    <2>2. CASE \/ HandshakeStoreFails \/ SendHello \/ HelloAccepted \/ HelloRefused
               \/ HelloFails \/ FinishedAccepted \/ FinishedRefused
      BY <2>2, StoreFailsCloses, HelloCloses, FinishedCloses, ClosesOnce, HandshakeOnce, TalksOnce
    <2>3. CASE TxrxRenegotiate \/ TxrxSend \/ TxrxFails
      BY <2>3, TalksOnce, TxrxSendOnce, TxrxCloses, ClosesOnce
    <2>4. CASE \/ VerifyRejected \/ VerifyAlert \/ VerifyUnreadable \/ VerifyAccepted
               \/ VerifyPlainShort \/ VerifyPlain
      BY <2>4, VerifyCloses, ClosesOnce, VerifyOnce
    <2>5. CASE AlertRepeat \/ AlertEnds \/ ErrorAlert \/ ErrorEnds
      BY <2>5, AlertOnce, SendsOnce
    <2>6. CASE \/ ManageReestablish \/ ManageSave \/ ManageNothingSaved \/ ManageRestore
               \/ ManageStoreFails \/ ManageRestored \/ ManageSaved \/ ManageSaveFails
               \/ ManageRefused
      BY <2>6, ManageOnce, SendsOnce, ManageStoreCloses, ManageEndCloses, ClosesOnce
    <2> QED BY <1>1, <2>1, <2>2, <2>3, <2>4, <2>5, <2>6 DEF Handler
  <1>2. CASE UpperLayer
    <2>1. ASSUME NEW ask \in Asks, NEW manage \in {i2c.manage, "NONE"},
                 CommsTransceive(ask[1], ask[2], manage)
          PROVE  Once'
      <3>1. ask[1] \in Levels /\ ask[2] \in BOOLEAN
        BY ChoiceAssumption DEF Levels
      <3> QED BY <2>1, <3>1, TransceiveOnce
    <2> QED BY <1>2, <2>1, CallsOnce DEF UpperLayer
  <1>3. CASE InitTimer
    BY <1>3, CallsOnce
  <1>4. CASE Transport
    BY <1>4, InitDoneOnce, ExchangeOnce DEF Transport
  <1>5. CASE UNCHANGED vars
    BY <1>5, SameOnce
  <1> QED BY <1>1, <1>2, <1>3, <1>4, <1>5 DEF Next

THEOREM SessionOnce == Spec => [](SInv /\ Asked /\ Once)
  <1>1. Init => SInv /\ Asked /\ Once
    BY InitSInv, InitAsked, InitOnce
  <1>2. (SInv /\ Asked /\ Once) /\ [Next]_vars => (SInv /\ Asked /\ Once)'
    BY NextSInv, NextAsked, NextOnce
  <1> QED BY <1>1, <1>2, PTL DEF Spec

\* The device executes no command twice although its record may be repeated:
\* a record is repeated only when the device has refused it, which it says in
\* an alert, and the answer asked for again is not the command sent again.
THEOREM SessionExecutesOnce == Spec => []ExecutesOnce
  <1>1. SInv /\ Asked /\ Once => ExecutesOnce
    BY DEF Once, Executed, ExecutesOnce
  <1> QED BY <1>1, SessionOnce, PTL

-----------------------------------------------------------------------------
(* The device is in the session the host is in                              *)

Broken == Handling("error") /\ event.status # "MEM_ERROR"
Unread == prl.state \in {"ALERT", "ERROR"} /\ prl.alert = "INTEGRITY"
Result == Handling("loop") /\ prl.state = "VERIFY" /\ answer.type = "data"

\* The device has this key, and has seen no number above this one.
Behind(key, master) == dev.key = key /\ dev.master <= master
Put(key, master) == dev.saved_key = key /\ dev.saved_master <= master

\* The session that was saved, also while it is being saved and restored.
Stored ==
  /\ Reserve.stored => Put(Reserve.key, Reserve.master)
  /\ (Waits /\ i2c.manage = "SAVE") =>
       /\ tl = "exchange" /\ dev.on => Behind(prl.key, prl.master)
       /\ answer.type = "saved" => Put(prl.key, prl.master) /\ dev.key = 0
  /\ Renewing =>
       /\ tl = "exchange" => Put(prl.saved.key, prl.saved.master)
       /\ answer.type = "restored" => Behind(prl.saved.key, prl.saved.master)

\* The session in use, and the one that is being made.
Shared ==
  /\ (prl.negotiated /\ Alive /\ ~Waits /\ ~Broken) =>
       dev.key = prl.key /\ (prl.key # 0 => dev.master <= prl.master)
  /\ (Talks /\ i2c.level # "NO" /\ ~Handling("error")) => Behind(prl.key, prl.master)
  /\ (/\ prl.state = "HANDSHAKE" /\ prl.hs_state = "VERIFY_FINISHED"
      /\ answer.type = "finished" /\ answer.intact /\ answer.key = prl.key) =>
       dev.key = prl.key /\ dev.master = answer.seq

\* The device has its last answer still, and would give it in this session.
Ready == ProtectsSlave(i2c.level) /\ dev.last.level = i2c.level /\ dev.last.key = dev.key

\* The record on its way, and the answer to it.
Ordered ==
  /\ Sent("data") =>
       /\ tx.intact
       /\ ProtectsMaster(i2c.level) => tx.seq = prl.master /\ dev.master < tx.seq
       /\ ~ProtectsMaster(i2c.level) => tx.key = 0
  /\ Sent("alert") \/ Unread => Ready
  /\ (Result /\ answer.level = i2c.level /\ ProtectsSlave(i2c.level)) => Ready
  /\ (prl.handler = "tl" /\ (Result \/ Sent("alert") \/ Unread)) => dev.executed = hist.current

Agrees == Stored /\ Shared /\ Ordered

\* The handler goes round its loop in the same session.
LEMMA SharedKept ==
  ASSUME SInv, Asked, Asked', Shared, Round, Unmoved, ~Waits,
         prl'.state # "HANDSHAKE" \/ prl'.hs_state = "SEND_HELLO",
         prl'.negotiated => prl.negotiated,
         Talks' => Talks \/ (i2c.level # "NO" => prl.negotiated)
  PROVE  Shared'
  <1>1. event.phase = "loop" /\ event' = event /\ i2c' = i2c /\ dev' = dev
        /\ prl'.key = prl.key /\ prl'.master = prl.master /\ answer' = answer
    BY DEF Round, Unmoved, answer
  <1>2. (Talks' /\ i2c.level # "NO") => Behind(prl.key, prl.master)
    <2> SUFFICES ASSUME Talks', i2c.level # "NO" PROVE Behind(prl.key, prl.master)
      OBVIOUS
    <2>1. Alive /\ prl.key # 0
      BY <1>1 DEF Asked, Confirmed, Alive, Handling
    <2> QED BY <1>1, <2>1 DEF Shared, Broken, Handling, Behind
  <1> QED BY <1>1, <1>2 DEF Shared, Alive, Waits, Broken, Handling, Behind

LEMMA RoundAgrees ==
  ASSUME SInv, Asked, Agrees, Round, Shared', prl'.handler = prl.handler,
         hist'.current = hist.current,
         prl'.state \notin {"VERIFY", "MANAGE_CONTEXT"},
         Reserve' = Reserve \/ ~Reserve'.stored,
         Unread' => \/ Unread
                    \/ Result /\ answer.level = i2c.level /\ ProtectsSlave(i2c.level)
  PROVE  Agrees'
  <1>1. event.phase = "loop" /\ event' = event /\ i2c' = i2c /\ dev' = dev /\ tl' = "idle"
    BY DEF Round
  <1>2. Stored'
    BY <1>1 DEF Agrees, Stored, Waits, Renewing, Put
  <1>3. Ordered'
    BY <1>1 DEF Agrees, Ordered, Sent, Result, Ready
  <1> QED BY <1>2, <1>3 DEF Agrees

LEMMA SameReserve == ASSUME Unmoved PROVE Reserve' = Reserve
  BY DEF Unmoved, Reserve, Context

LEMMA ClosesAgrees == ASSUME SInv, Asked, Asked', Agrees, Closes PROVE Agrees'
  <1>1. Shared' /\ ~Unread'
    BY DEF Closes, Shared, Talks, Unread
  <1> QED BY <1>1, RoundAgrees DEF Closes

LEMMA TalksAgrees ==
  ASSUME SInv, Asked, Asked', Agrees, Start \/ TxrxRenegotiate \/ FinishedAccepted
  PROVE  Agrees'
  <1>1. CASE Start
    <2>1. Shared'
      BY <1>1, StartEffect, SharedKept DEF Agrees, Waits, Talks
    <2> QED BY <1>1, <2>1, StartEffect, SameReserve, RoundAgrees DEF Unmoved, Unread
  <1>2. CASE TxrxRenegotiate
    <2>1. Shared'
      BY <1>2, RenegotiateEffect, SharedKept DEF Agrees, Waits, Talks
    <2> QED BY <1>2, <2>1, RenegotiateEffect, SameReserve, RoundAgrees DEF Unmoved, Unread
  <1>3. CASE FinishedAccepted
    <2>1. dev.key = prl.key /\ dev.master = answer.seq /\ dev' = dev
          /\ prl'.key = prl.key /\ prl'.master = answer.seq
      BY <1>3, FinishedEffect DEF Agrees, Shared, Round
    <2>2. dev'.master <= prl'.master
      BY <2>1, Parts, NextFacts DEF Device
    <2>3. Shared'
      BY <1>3, <2>1, <2>2, FinishedEffect DEF Shared, Behind
    <2> QED BY <1>3, <2>3, FinishedEffect, RoundAgrees DEF Unread
  <1> QED BY <1>1, <1>2, <1>3

LEMMA VerifyAgrees ==
  ASSUME SInv, Asked, Asked', Agrees,
         VerifyAlert \/ VerifyUnreadable \/ VerifyAccepted \/ VerifyPlain
  PROVE  Agrees'
  <1>1. CASE VerifyAlert
    <2>1. Shared'
      BY <1>1, VerifyAlertEffect, SharedKept DEF Agrees, Waits, Talks
    <2> QED BY <1>1, <2>1, VerifyAlertEffect, SameReserve, RoundAgrees DEF Unmoved, Unread
  <1>2. CASE VerifyUnreadable
    <2>1. Shared'
      BY <1>2, UnreadableEffect, SharedKept DEF Agrees, Waits, Talks
    <2>2. Result
      BY <1>2, UnreadableEffect DEF Round, Result, Handling
    <2> QED BY <1>2, <2>1, <2>2, UnreadableEffect, SameReserve, RoundAgrees DEF Unmoved
  <1>3. CASE VerifyAccepted
    <2>1. Shared'
      BY <1>3, AcceptedEffect, SharedKept DEF Agrees, Waits, Talks
    <2>2. hist'.current = hist.current
      BY <1>3, AcceptedEffect, Parts DEF History
    <2> QED BY <1>3, <2>1, <2>2, AcceptedEffect, SameReserve, RoundAgrees DEF Unmoved, Unread
  <1>4. CASE VerifyPlain
    <2>1. Shared'
      BY <1>4, PlainEffect, SharedKept DEF Agrees, Waits, Talks
    <2> QED BY <1>4, <2>1, PlainEffect, SameReserve, RoundAgrees DEF Unmoved, Unread
  <1> QED BY <1>1, <1>2, <1>3, <1>4

LEMMA AlertAgrees ==
  ASSUME SInv, Asked, Asked', Agrees, AlertRepeat \/ AlertEnds \/ ErrorEnds
  PROVE  Agrees'
  <1>1. CASE AlertRepeat
    <2>1. Shared'
      BY <1>1, RepeatEffect, SharedKept DEF Agrees, Waits, Talks
    <2> QED BY <1>1, <2>1, RepeatEffect, SameReserve, RoundAgrees DEF Unmoved, Unread
  <1>2. CASE AlertEnds
    <2>1. CASE ~Closes
      <3>1. Shared'
        BY <1>2, <2>1, AlertEndsEffect, SharedKept DEF Agrees, Waits, Talks
      <3> QED BY <1>2, <2>1, <3>1, AlertEndsEffect, SameReserve, RoundAgrees DEF Unmoved, Unread
    <2> QED BY <2>1, ClosesAgrees
  <1>3. CASE ErrorEnds
    <2>1. Shared'
      BY <1>3, ErrorEndsEffect, SharedKept DEF Agrees, Waits, Talks
    <2> QED BY <1>3, <2>1, ErrorEndsEffect, SameReserve, RoundAgrees DEF Unmoved, Unread
  <1> QED BY <1>1, <1>2, <1>3
LEMMA ManageAgrees ==
  ASSUME SInv, Asked, Asked', Agrees,
         ManageReestablish \/ ManageNothingSaved \/ ManageRestored \/ ManageSaved
  PROVE  Agrees'
  <1>1. CASE ManageReestablish
    <2>1. Shared'
      BY <1>1, ReestablishEffect, SharedKept DEF Agrees, Waits, Talks
    <2> QED BY <1>1, <2>1, ReestablishEffect, SameReserve, RoundAgrees DEF Unmoved, Unread
  <1>2. CASE ManageNothingSaved
    <2>1. Shared'
      BY <1>2, NothingSavedEffect DEF Shared, Talks
    <2> QED BY <1>2, <2>1, NothingSavedEffect, RoundAgrees DEF Unread
  <1>3. CASE ManageRestored
    <2>1. Behind(prl.saved.key, prl.saved.master) /\ dev' = dev
          /\ prl'.key = prl.saved.key /\ prl'.master = prl.saved.master
      BY <1>3, RestoredEffect DEF Agrees, Stored, Round
    <2>2. Shared'
      BY <1>3, <2>1, RestoredEffect DEF Shared, Behind
    <2> QED BY <1>3, <2>2, RestoredEffect, RoundAgrees DEF Unread
  <1>4. CASE ManageSaved
    <2>1. Put(prl.key, prl.master) /\ dev.key = 0 /\ Round /\ prl'.key = 0
          /\ prl'.state = "IDLE" /\ prl'.handler = prl.handler
          /\ Reserve'.key = prl.key /\ Reserve'.master = prl.master /\ hist' = hist
      BY <1>4, SavedEffect DEF Agrees, Stored
    <2>2. dev' = dev /\ tl' = "idle"
      BY <2>1 DEF Round
    <2>3. Stored'
      BY <2>1, <2>2 DEF Stored, Waits, Renewing, Put
    <2>4. Shared'
      BY <2>1, <2>2 DEF Shared, Talks
    <2>5. Ordered'
      BY <2>1, <2>2 DEF Ordered, Sent, Result, Unread
    <2> QED BY <2>3, <2>4, <2>5 DEF Agrees
  <1> QED BY <1>1, <1>2, <1>3, <1>4

LEMMA HandshakeAgrees ==
  ASSUME SInv, Asked, Asked', Agrees, SendHello \/ HelloAccepted PROVE Agrees'
  <1>1. prl'.state = "HANDSHAKE" /\ answer'.type = "none" /\ ~Reserve'.stored
        /\ event'.phase = "none"
    BY HelloEffect, HelloAcceptedEffect DEF Sending
  <1>2. ~prl'.negotiated
    BY <1>1 DEF Asked, Course
  <1>3. Stored'
    BY <1>1 DEF Stored, Waits, Renewing
  <1>4. Shared'
    BY <1>1, <1>2 DEF Shared, Talks
  <1>5. Ordered'
    BY <1>1 DEF Ordered, Sent, Unread, Result
  <1> QED BY <1>3, <1>4, <1>5 DEF Agrees

LEMMA TxrxSendAgrees == ASSUME SInv, Asked, Asked', Agrees, TxrxSend PROVE Agrees'
  <1>1. /\ prl.state = "TXRX" /\ prl'.state = "VERIFY" /\ dev' = dev /\ answer'.type = "none"
        /\ event.phase = "loop" /\ event'.phase = "none" /\ Reserve' = Reserve
        /\ prl'.key = prl.key /\ prl'.negotiated = prl.negotiated /\ i2c'.level = i2c.level
        /\ i2c.reset_state = "none" /\ tx'.type = "data" /\ tx'.intact = TRUE
        /\ ProtectsMaster(i2c.level) => prl'.master = prl.master + 1 /\ tx'.seq = prl'.master
        /\ ~ProtectsMaster(i2c.level) => prl'.master = prl.master /\ tx'.key = 0
    BY TxrxSendEffect DEF Sending
  <1>2. dev.master \in Nat /\ prl.master \in Nat
    BY Parts, NextFacts, PrlFacts, ConstantFacts DEF Device, Prl, Sequence
  <1>3. (prl.negotiated /\ Alive) => dev.key = prl.key /\ (prl.key # 0 => dev.master <= prl.master)
    BY <1>1 DEF Agrees, Shared, Waits, Broken, Handling
  <1>4. i2c.level # "NO" => Behind(prl.key, prl.master)
    BY <1>1 DEF Agrees, Shared, Talks, Handling
  <1>5. dev.master <= prl.master => dev.master <= prl'.master
    BY <1>1, <1>2
  <1>6. ProtectsMaster(i2c.level) => dev.master < prl'.master
    <2>1. ProtectsMaster(i2c.level) => i2c.level # "NO"
      BY DEF ProtectsMaster
    <2> QED BY <1>1, <1>2, <1>4, <2>1 DEF Behind
  <1>7. Stored'
    BY <1>1 DEF Agrees, Stored, Put, Waits, Renewing
  <1>8. Shared'
    BY <1>1, <1>3, <1>4, <1>5 DEF Shared, Behind, Alive
  <1>9. Ordered'
    BY <1>1, <1>6 DEF Ordered, Sent, Unread, Result, ProtectsMaster, Handling
  <1> QED BY <1>7, <1>8, <1>9 DEF Agrees

LEMMA ErrorAlertAgrees == ASSUME SInv, Asked, Asked', Agrees, ErrorAlert PROVE Agrees'
  <1>1. /\ prl.state = "ERROR" /\ prl.alert = "INTEGRITY" /\ prl'.state = "VERIFY"
        /\ dev' = dev /\ answer'.type = "none" /\ event.phase = "loop" /\ event'.phase = "none"
        /\ prl'.key = prl.key /\ prl'.master = prl.master /\ prl'.negotiated = prl.negotiated
        /\ prl'.handler = prl.handler /\ i2c'.level = i2c.level
        /\ i2c.reset_state = "none" /\ i2c'.reset_state = "none"
        /\ tx'.type = "alert" /\ hist' = hist
    BY ErrorAlertEffect, RecordFacts DEF Sending, Unmoved, Types
  <1>2. Reserve' = Reserve
    BY ErrorAlertEffect, SameReserve
  <1>3. Stored'
    BY <1>1, <1>2 DEF Agrees, Stored, Put, Waits, Renewing
  <1>4. Shared'
    BY <1>1 DEF Agrees, Shared, Behind, Alive, Talks, Broken, Handling, Waits
  <1>5. Ordered'
    BY <1>1 DEF Agrees, Ordered, Sent, Unread, Ready, Result, Handling
  <1> QED BY <1>3, <1>4, <1>5 DEF Agrees

LEMMA ManageSendAgrees ==
  ASSUME SInv, Asked, Asked', Agrees, ManageSave \/ ManageRestore PROVE Agrees'
  <1>1. /\ prl.state = "MANAGE_CONTEXT" /\ prl'.state = "MANAGE_CONTEXT" /\ prl'.mc_state = "RX"
        /\ dev' = dev /\ answer'.type = "none" /\ event.phase = "loop" /\ event'.phase = "none"
        /\ i2c'.manage = i2c.manage /\ i2c.reset_state = "none" /\ prl'.key = prl.key
    BY SaveEffect, RestoreEffect DEF Sending, Unmoved
  <1>2. Shared'
    BY <1>1 DEF Shared, Talks, Waits
  <1>3. Ordered'
    BY <1>1 DEF Ordered, Sent, Unread, Result
  <1>4. CASE ManageSave
    <2>1. Reserve' = Reserve /\ i2c.manage = "SAVE" /\ prl.mc_state = "TX"
          /\ prl'.master = prl.master
      BY <1>4, SaveEffect, SameReserve DEF Unmoved
    <2>2. dev.on => Behind(prl.key, prl.master)
      <3> SUFFICES ASSUME dev.on PROVE Behind(prl.key, prl.master)
        OBVIOUS
      <3>1. prl.negotiated
        BY <1>1, <2>1, Parts DEF Asked, Course, Prl
      <3>2. Alive /\ ~Waits /\ ~Broken
        BY <1>1, <2>1 DEF Alive, Waits, Broken, Handling
      <3>3. prl.key \in hist.confirmed /\ 0 \notin hist.confirmed
        BY <1>1, <3>1, <3>2 DEF Asked, Confirmed, Renewing, Emptied
      <3> QED BY <3>1, <3>2, <3>3 DEF Agrees, Shared, Behind
    <2>3. Stored'
      BY <1>1, <2>1, <2>2 DEF Agrees, Stored, Put, Behind, Renewing
    <2> QED BY <1>2, <1>3, <2>3 DEF Agrees
  <1>5. CASE ManageRestore
    <2>1. Reserve.stored /\ ~Reserve'.stored /\ i2c.manage = "RESTORE"
          /\ prl'.saved.key = Reserve.key /\ prl'.saved.master = Reserve.master
      BY <1>5, RestoreEffect
    <2>2. Put(Reserve.key, Reserve.master)
      BY <2>1 DEF Agrees, Stored
    <2>3. Stored'
      BY <1>1, <2>1, <2>2 DEF Stored, Put, Renewing, Waits
    <2> QED BY <1>2, <1>3, <2>3 DEF Agrees
  <1> QED BY <1>4, <1>5
LEMMA EndsAgrees ==
  ASSUME SInv, Asked, Asked', Agrees, EnterError \/ Idle \/ HandlerReturns PROVE Agrees'
  <1>1. CASE EnterError
    <2>1. prl'.state = "ERROR" /\ prl'.alert = "INVALID" /\ event.phase = "error"
          /\ dev' = dev /\ prl'.key = prl.key /\ prl'.master = prl.master
          /\ i2c' = i2c /\ event.status \in {"STACK_ERROR", "MEM_ERROR"}
          /\ (prl'.negotiated => prl.negotiated /\ event.status = "MEM_ERROR")
      BY <1>1, EnterErrorEffect DEF Unmoved, Asked, Turn, Handling
    <2>2. Reserve' = Reserve
      BY <1>1, EnterErrorEffect, SameReserve
    <2>3. prl'.negotiated => ~Broken /\ ~Waits
      BY <2>1 DEF Broken, Waits, Asked, Turn, Handling
    <2>4. Stored'
      BY <2>1, <2>2 DEF Agrees, Stored, Put, Waits, Renewing
    <2>5. Shared'
      BY <2>1, <2>3 DEF Agrees, Shared, Alive, Talks, Behind
    <2>6. Ordered'
      BY <1>1, <2>1, EnterErrorEffect DEF Ordered, Sent, Unread, Result
    <2> QED BY <2>4, <2>5, <2>6 DEF Agrees
  <1>2. CASE Idle \/ HandlerReturns
    <2>1. prl.state = "IDLE" /\ prl' = prl /\ store' = store /\ answer'.type = "none"
          /\ event.phase # "error" /\ tl' = "idle"
          /\ i2c'.reset_state = i2c.reset_state
      BY <1>2, IdleEffect, ReturnsEffect
    <2>2. dev' = dev \/ (Remembers(dev, dev') /\ dev'.on = FALSE)
      BY <1>2, IdleEffect, ReturnsEffect, Parts, ResetRemembers
    <2>3. Reserve' = Reserve
      BY <2>1 DEF Reserve, Context
    <2>4. Stored'
      BY <2>1, <2>2, <2>3 DEF Agrees, Stored, Put, Waits, Renewing, Remembers
    <2>5. Shared'
      BY <2>1, <2>2 DEF Agrees, Shared, Alive, Talks, Waits, Broken, Handling
    <2>6. Ordered'
      BY <2>1 DEF Ordered, Sent, Unread, Result
    <2> QED BY <2>4, <2>5, <2>6 DEF Agrees
  <1> QED BY <1>1, <1>2

\* Calls of the upper layer, and the initialisation.
LEMMA CalmAgrees ==
  ASSUME SInv, Asked, Asked', Agrees, Reserve' = Reserve, Remembers(dev, dev'),
         answer'.type = "none", tl' # "exchange", ~Renewing', ~Talks',
         prl'.negotiated => \/ ~Alive'
                            \/ /\ dev' = dev /\ prl.negotiated /\ Alive /\ ~Waits /\ ~Broken
                               /\ prl'.key = prl.key /\ prl'.master = prl.master
  PROVE  Agrees'
  <1>1. Stored'
    BY DEF Agrees, Stored, Put, Remembers
  <1>2. Shared'
    BY DEF Agrees, Shared
  <1>3. Ordered'
    BY DEF Ordered, Sent, Unread, Result, Talks
  <1> QED BY <1>1, <1>2, <1>3 DEF Agrees

LEMMA CallsAgrees ==
  ASSUME SInv, Asked, Asked', Agrees,
         \/ \E manage \in {"NONE", "RESTORE"} : CommsOpen(manage)
         \/ \E type \in {"COLD", "WARM", "SOFT"} : CommsReset(type)
         \/ \E manage \in {"NONE", "SAVE"} : CommsClose(manage)
  PROVE  Agrees'
  <1>1. /\ Remembers(dev, DeviceOff(dev)) /\ DeviceOff(dev).on = FALSE
        /\ Remembers(dev, DeviceReset(dev)) /\ Remembers(dev, dev)
    BY Parts, ResetRemembers DEF Remembers
  <1>2. CASE \E manage \in {"NONE", "RESTORE"} : CommsOpen(manage)
    <2>1. /\ Calls /\ event' = event /\ tl' = tl /\ prl' = prl
          /\ i2c'.reset_state = "PIN_HIGH" /\ dev' = DeviceOff(dev)
      BY <1>2, OpenEffect
    <2>2. Reserve' = Reserve /\ answer'.type = "none"
      BY <2>1 DEF Calls, Reserve, Context, answer
    <2> QED BY <1>1, <2>1, <2>2, CalmAgrees DEF Calls, Renewing, Waits, Talks, Alive
  <1>3. CASE \E type \in {"COLD", "WARM", "SOFT"} : CommsReset(type)
    <2>1. PICK type \in {"COLD", "WARM", "SOFT"} : CommsReset(type)
      BY <1>3
    <2>2. /\ Calls /\ event' = event /\ prl.state = "IDLE"
          /\ \/ Initialises /\ dev' = DeviceReset(dev)
             \/ /\ prl' = prl /\ tl' = tl /\ i2c'.reset_state = "PIN_HIGH"
                /\ dev' \in {DeviceOff(dev), DeviceReset(dev)}
      BY <2>1, ResetEffect
    <2>3. Reserve' = Reserve /\ answer'.type = "none" /\ prl'.state = "IDLE" /\ tl' # "exchange"
      BY <2>2 DEF Calls, Reserve, Context, answer, Initialises
    <2>4. prl'.negotiated => ~Alive'
      BY <2>2 DEF Initialises, Alive
    <2> QED BY <1>1, <2>2, <2>3, <2>4, CalmAgrees DEF Renewing, Waits, Talks
  <1>4. CASE \E manage \in {"NONE", "SAVE"} : CommsClose(manage)
    <2>1. PICK manage \in {"NONE", "SAVE"} : CommsClose(manage)
      BY <1>4
    <2>2. /\ Calls /\ tl' = tl /\ Reserve' = Reserve /\ answer'.type = "none"
          /\ prl'.key = prl.key /\ prl'.negotiated = prl.negotiated /\ prl'.master = prl.master
      BY <2>1, CloseEffect
    <2>3. \/ prl'.state \in {"IDLE", "UNINIT"} /\ dev' = DeviceOff(dev)
          \/ prl'.state = "MANAGE_CONTEXT" /\ prl'.mc_state = "TX" /\ dev' = dev
      BY <2>1, CloseEffect
    <2>4. prl'.negotiated => ~Alive' \/ (dev' = dev /\ (Alive' => Alive))
      BY <1>1, <2>2, <2>3 DEF Alive, Calls
    <2>5. ~Waits /\ ~Broken
      BY <2>2 DEF Calls, Waits, Broken, Handling
    <2> QED BY <1>1, <2>2, <2>3, <2>4, <2>5, CalmAgrees DEF Renewing, Waits, Talks, Calls
  <1> QED BY <1>2, <1>3, <1>4

LEMMA TimerAgrees == ASSUME SInv, Asked, Asked', Agrees, InitTimer PROVE Agrees'
  <1>1. /\ answer' = answer /\ answer.type = "none" /\ tl = "idle" /\ hist' = hist
        /\ event.phase = "none" /\ event' = event /\ i2c'.level = i2c.level
        /\ i2c'.manage = i2c.manage
    BY TimerEffect DEF answer
  <1>2. CASE /\ prl' = prl /\ store' = store /\ tl' = tl /\ i2c'.reset_state = "INIT"
             /\ dev' = [dev EXCEPT !.on = TRUE]
    <2>1. /\ Reserve' = Reserve /\ Remembers(dev, dev') /\ dev'.key = dev.key
          /\ dev'.master = dev.master
      BY <1>2, Parts, PowerOnFacts DEF Reserve, Context
    <2>2. Stored'
      BY <1>1, <1>2, <2>1 DEF Agrees, Stored, Put, Waits, Renewing, Remembers
    <2>3. Shared'
      BY <1>1, <1>2 DEF Shared, Alive, Asked, Confirmed
    <2>4. Ordered'
      BY <1>1, <1>2, <2>1 DEF Agrees, Ordered, Sent, Unread, Ready, Result, Remembers
    <2> QED BY <2>2, <2>3, <2>4 DEF Agrees
  <1>3. CASE Initialises /\ dev' = dev
    <2>1. Remembers(dev, dev') /\ answer'.type = "none"
      BY <1>1, <1>3 DEF Remembers
    <2> QED BY <1>3, <2>1, CalmAgrees DEF Initialises, Renewing, Waits, Talks
  <1> QED BY <1>2, <1>3, TimerEffect

LEMMA TransceiveAgrees ==
  ASSUME SInv, Asked, Asked', Agrees, NEW level \in Levels, NEW re \in BOOLEAN,
         NEW manage \in {i2c.manage, "NONE"}, CommsTransceive(level, re, manage)
  PROVE  Agrees'
  <1>1. /\ Calls /\ tl' = tl /\ dev' = dev /\ Unmoved /\ answer'.type = "none"
        /\ prl'.negotiated = prl.negotiated /\ i2c'.reset_state = "none"
        /\ \/ prl'.state = "START"
           \/ prl'.state = "MANAGE_CONTEXT" /\ prl'.mc_state = "TX"
    BY TransceiveEffect
  <1>2. Remembers(dev, dev') /\ Reserve' = Reserve
    BY <1>1, SameReserve DEF Remembers
  <1>3. ~Waits /\ ~Broken /\ (Alive' => Alive)
    BY <1>1 DEF Calls, Waits, Broken, Handling, Alive
  <1> QED BY <1>1, <1>2, <1>3, CalmAgrees DEF Calls, Unmoved, Renewing, Waits, Talks

LEMMA InitDoneAgrees == ASSUME SInv, Asked, Asked', Agrees, TlInitDone PROVE Agrees'
  <1>1. Begins
    BY InitDoneEffect
  <1>2. Reserve' = Reserve
    BY <1>1 DEF Begins, Reserve, Context
  <1>3. Stored'
    BY <1>1, <1>2 DEF Begins, Agrees, Stored, Put, Waits, Renewing
  <1>4. Shared'
    BY <1>1 DEF Begins, Agrees, Shared, Alive, Talks, Waits, Broken, Behind, Handling
  <1>5. Ordered'
    BY <1>1 DEF Begins, Agrees, Ordered, Sent, Unread, Ready, Result
  <1> QED BY <1>3, <1>4, <1>5 DEF Agrees

LEMMA SameAgrees == ASSUME Agrees, UNCHANGED vars PROVE Agrees'
  BY DEF Agrees, Stored, Shared, Ordered, Put, Behind, Ready, Alive, Waits, Renewing, Talks, Broken,
         Unread, Result, Sent, Reserve, Context, Handling, answer, vars

LEMMA InitAgrees == ASSUME Init PROVE Agrees
  <1>1. tl = "idle" /\ event = NoEvent /\ store = NoContext /\ dev.on = FALSE
    BY DEF Init
  <1>2. prl.state = "UNINIT" /\ prl.saved = NoContext
    BY DEF Init
  <1>3. ~Reserve.stored /\ event.phase = "none"
    BY <1>1, <1>2, NoEventFacts, NoContextFacts DEF Reserve, Context
  <1> QED BY <1>1, <1>2, <1>3
      DEF Agrees, Stored, Shared, Ordered, Alive, Waits, Renewing, Talks, Unread, Result, Sent,
          Handling
\* What arrives, by its type.
LEMMA ArrivedFacts ==
  ASSUME SInv, NEW m, NEW b, Takes_place(m, b)
  PROVE  /\ answer'.type \in {"hello", "finished", "saved", "restored"} => b.type = answer'.type
         /\ answer'.type = "finished" /\ answer'.intact => answer'.key = b.key /\ answer'.seq = b.seq
         /\ answer'.type = "data" => b.type = "data" \/ m = tx
  <1>1. dev.last.type \in {"none", "data"}
    BY Parts
  <1>2. CASE Arrives(m, b)
    BY <1>2 DEF Arrives
  <1>3. CASE Damages(m, b)
    BY <1>3 DEF Damages, Garbles
  <1>4. CASE Swaps(m, b)
    BY <1>1, <1>4 DEF Swaps, Odd
  <1>5. CASE Misses(m, b)
    BY <1>5 DEF Misses
  <1> QED BY <1>2, <1>3, <1>4, <1>5 DEF Takes_place

\* What a request in VERIFY, or the alert that asks for its answer, can do to
\* the device: it is in the session, so it has no reason to complain.
LEMMA TalkingDoes ==
  ASSUME SInv, Asked, Once, Agrees, tl = "exchange", prl.state = "VERIFY",
         NEW m, NEW e, NEW b, SameRecord(m, tx), Does(dev, m, e, b)
  PROVE  \/ Sent("data") /\ Runs(dev, m, e, b)
         \/ Sent("data") /\ Objects(dev, m, e, b) /\ m # tx
         \/ Sent("alert") /\ Resends(dev, m, e, b)
  <1>1. /\ m.type = tx.type /\ m.level = tx.level /\ m.key = tx.key /\ m.seq = tx.seq
        /\ tx.type \in {"data", "alert"} /\ event.phase = "none"
    BY Parts DEF SameRecord, Asked, Turn, Usable, Handling
  <1>2. i2c.level # "NO" => Behind(prl.key, prl.master) /\ prl.key # 0
    BY <1>1 DEF Agrees, Shared, Asked, Confirmed, Talks, Handling
  <1>3. ProtectsMaster(i2c.level) \/ ProtectsSlave(i2c.level) => i2c.level # "NO"
    BY DEF ProtectsMaster, ProtectsSlave
  <1>4. CASE tx.type = "data"
    <2>1. Sent("data") /\ tx.level = i2c.level /\ tx.intact
          /\ (ProtectsMaster(i2c.level) => tx.key = prl.key /\ dev.master < tx.seq)
      BY <1>4 DEF Sent, Asked, Turn, Agrees, Ordered
    <2>2. Runs(dev, m, e, b) \/ Objects(dev, m, e, b)
      BY <1>1, <1>2, <1>3, <1>4, <2>1
         DEF Does, Greets, Confirms, Resends, Keeps, Restores, Complains, Behind
    <2>3. dev.master \in Nat /\ tx.seq \in Nat
      BY Parts, ConstantFacts DEF Device, Records, Sequence
    <2>4. Objects(dev, tx, e, b) => FALSE
      BY <2>1, <2>3 DEF Objects
    <2> QED BY <2>1, <2>2, <2>4
  <1>5. CASE tx.type = "alert"
    <2>1. Sent("alert") /\ Ready
      BY <1>5 DEF Sent, Agrees, Ordered
    <2>2. Resends(dev, m, e, b)
      BY <1>1, <1>2, <1>3, <1>5, <2>1
         DEF Does, Greets, Confirms, Runs, Objects, Keeps, Restores, Complains, Behind, Ready
    <2> QED BY <2>1, <2>2
  <1> QED BY <1>1, <1>4, <1>5

\* ... and what is then left of the device.
LEMMA TalkingKeeps ==
  ASSUME SInv, Asked, Once, Agrees, tl = "exchange", prl.state = "VERIFY",
         NEW m, NEW e, NEW b, SameRecord(m, tx), Does(dev, m, e, b)
  PROVE  /\ e.key = dev.key /\ e.saved_key = dev.saved_key /\ e.saved_master = dev.saved_master
         /\ dev.master <= prl.master => e.master <= prl.master
  <1>1. e.master = dev.master \/ e.master = prl.master
    <2>1. CASE Sent("data") /\ Runs(dev, m, e, b)
      <3>1. m.level = i2c.level /\ m.seq = tx.seq
        BY <2>1 DEF SameRecord, Asked, Turn, Sent
      <3> QED BY <2>1, <3>1 DEF Runs, Agrees, Ordered
    <2> QED BY <2>1, TalkingDoes DEF Objects, Resends
  <1>2. prl.master \in Nat
    BY Parts, ConstantFacts DEF Prl, Masters
  <1>3. e.key = dev.key /\ e.saved_key = dev.saved_key /\ e.saved_master = dev.saved_master
    BY TalkingDoes DEF Runs, Objects, Resends, Responds
  <1>4. dev.master <= prl.master => e.master <= prl.master
    BY <1>1, <1>2
  <1> QED BY <1>3, <1>4

LEMMA ExchangeAgrees ==
  ASSUME SInv, Asked, Asked', Once, Agrees, TlAnswered \/ TlDamaged \/ TlStrange \/ TlFailed
  PROVE  Agrees'
  <1>1. Ends /\ (Breaks \/ \E m \in Records, b \in Records : Takes_place(m, b))
    BY ExchangeEffect
  <1>2. /\ tl' = "idle" /\ prl' = prl /\ i2c' = i2c /\ event.phase = "none" /\ tl = "exchange"
        /\ prl.state \in {"MANAGE_CONTEXT", "VERIFY", "HANDSHAKE"}
        /\ (prl.state = "MANAGE_CONTEXT" => prl.mc_state = "RX")
        /\ Reserve' = Reserve
    BY <1>1 DEF Ends, Asked, Turn, Reserve, Context
  <1>3. CASE Breaks
    <2>1. Stored'
      BY <1>2, <1>3 DEF Breaks, Agrees, Stored, Put, Waits, Renewing
    <2>2. Shared'
      BY <1>2, <1>3 DEF Breaks, Shared, Broken, Handling
    <2>3. Ordered'
      BY <1>2, <1>3 DEF Breaks, Ordered, Sent, Unread, Result
    <2> QED BY <2>1, <2>2, <2>3 DEF Agrees
  <1>4. CASE \E m \in Records, b \in Records : Takes_place(m, b)
    <2>1. PICK m \in Records, b \in Records : Takes_place(m, b)
      BY <1>4
    <2>2. /\ m.type = tx.type /\ Does(dev, m, dev', b) /\ SameRecord(m, tx) /\ dev.on
          /\ hist'.current = hist.current
      BY <2>1 DEF Takes_place, SameRecord, Arrives, Damages, Swaps, Misses, Marks
    <2>3. CASE prl.state = "MANAGE_CONTEXT"
      <3>1. tx.type = IF i2c.manage = "SAVE" THEN "save" ELSE "restore"
        BY <1>2, <2>3 DEF Asked, Turn
      <3>2. ~Reserve.stored
        <4>1. CASE i2c.manage = "RESTORE"
          BY <1>2, <2>3, <4>1, Parts DEF Numbers, Reserve
        <4>2. CASE i2c.manage # "RESTORE"
          <5>1. prl.negotiated /\ Alive
            BY <1>1, <2>2, <2>3, <4>2 DEF Asked, Course, Alive, Ends
          <5> QED BY <2>3, <4>2, <5>1 DEF Asked, Confirmed, Renewing, Emptied
        <4> QED BY <4>1, <4>2
      <3>3. answer'.type = "saved" => Keeps(dev, m, dev', b)
        BY <2>1, <2>2, ArrivedFacts
           DEF Does, Greets, Confirms, Runs, Objects, Resends, Restores, Complains, Responds
      <3>4. answer'.type = "restored" => Restores(dev, m, dev', b)
        BY <2>1, <2>2, ArrivedFacts
           DEF Does, Greets, Confirms, Runs, Objects, Resends, Keeps, Complains, Responds
      <3>5. Stored'
        BY <1>2, <2>2, <2>3, <3>1, <3>2, <3>3, <3>4
           DEF Agrees, Stored, Waits, Renewing, Keeps, Restores, Put, Behind
      <3>6. Shared'
        BY <1>2, <2>3 DEF Shared, Waits, Talks
      <3>7. Ordered'
        BY <1>2, <2>3 DEF Ordered, Sent, Unread, Result
      <3> QED BY <3>5, <3>6, <3>7 DEF Agrees
    <2>4. CASE prl.state = "HANDSHAKE"
      <3>1. ~prl.negotiated /\ tx.type \in {"hello", "finished"}
        BY <1>2, <2>4 DEF Asked, Course, Turn
      <3>2. dev'.saved_key = dev.saved_key /\ dev'.saved_master = dev.saved_master
        BY <2>2, <3>1 DEF Does, Greets, Confirms, Runs, Objects, Resends, Keeps, Restores,
                          Complains, Remembers
      <3>3. answer'.type = "finished" => Confirms(dev, m, dev', b)
        BY <2>1, <2>2, ArrivedFacts
           DEF Does, Greets, Runs, Objects, Resends, Keeps, Restores, Complains, Responds
      <3>4. answer'.type = "finished" /\ answer'.intact =>
              dev'.key = answer'.key /\ dev'.master = answer'.seq
        BY <2>1, <3>3, ArrivedFacts DEF Confirms
      <3>5. Stored'
        BY <1>2, <2>4, <3>2 DEF Agrees, Stored, Waits, Renewing, Put
      <3>6. Shared'
        BY <1>2, <2>4, <3>1, <3>4 DEF Shared, Talks
      <3>7. Ordered'
        BY <1>2, <2>4 DEF Ordered, Sent, Unread, Result
      <3> QED BY <3>5, <3>6, <3>7 DEF Agrees
    <2>5. CASE prl.state = "VERIFY"
      <3>1. /\ dev'.key = dev.key /\ dev'.saved_key = dev.saved_key
            /\ dev'.saved_master = dev.saved_master
            /\ dev.master <= prl.master => dev'.master <= prl.master
            /\ dev'.on = dev.on
        <4>1. dev'.on = dev.on
          BY <2>2, DoesAsked
        <4>2. /\ dev'.key = dev.key /\ dev'.saved_key = dev.saved_key
              /\ dev'.saved_master = dev.saved_master
              /\ dev.master <= prl.master => dev'.master <= prl.master
          BY <1>2, <2>2, <2>5, TalkingKeeps
        <4> QED BY <4>1, <4>2
      <3>2. \/ Sent("data") /\ Runs(dev, m, dev', b)
            \/ Sent("data") /\ Objects(dev, m, dev', b) /\ m # tx
            \/ Sent("alert") /\ Resends(dev, m, dev', b)
        BY <1>2, <2>2, <2>5, TalkingDoes
      <3>3. Stored'
        BY <1>2, <2>5, <3>1 DEF Agrees, Stored, Waits, Renewing, Put
      <3>4. Shared'
        BY <1>2, <2>5, <3>1 DEF Agrees, Shared, Behind, Alive, Talks, Waits, Broken, Handling
      <3>5. Result' => ~(Objects(dev, m, dev', b) /\ m # tx)
        BY <2>1, ArrivedFacts DEF Result, Objects
      <3>6. (Result' /\ ProtectsSlave(i2c.level)) => Ready'
        <4>1. CASE Sent("data") /\ Runs(dev, m, dev', b)
          <5>1. m.level = i2c.level
            BY <2>2, <4>1 DEF SameRecord, Asked, Turn, Sent
          <5> QED BY <1>2, <4>1, <5>1 DEF Runs, Responds, Ready
        <4>2. CASE Sent("alert") /\ Resends(dev, m, dev', b)
          BY <1>2, <4>2 DEF Resends, Responds, Ready, Agrees, Ordered
        <4> QED BY <3>2, <3>5, <4>1, <4>2
      <3>7. (Result' /\ prl.handler = "tl") => dev'.executed = hist.current
        <4>1. CASE Sent("data") /\ Runs(dev, m, dev', b)
          <5>1. prl.handler = "tl" => m.of = hist.current /\ hist.current # 0
            BY <2>2, <2>5, <4>1 DEF SameRecord, Once, Sealing, Talks
          <5> QED BY <4>1, <5>1 DEF Runs
        <4>2. CASE Sent("alert") /\ Resends(dev, m, dev', b)
          BY <4>2 DEF Resends, Agrees, Ordered
        <4> QED BY <3>2, <3>5, <4>1, <4>2
      <3>8. Ordered'
        BY <1>2, <2>2, <2>5, <3>6, <3>7 DEF Ordered, Sent, Unread
      <3> QED BY <3>3, <3>4, <3>8 DEF Agrees
    <2> QED BY <1>2, <2>3, <2>4, <2>5
  <1> QED BY <1>1, <1>3, <1>4

LEMMA NextAgrees ==
  ASSUME SInv, Asked, Asked', Once, Agrees, [Next]_vars PROVE Agrees'
  <1>1. CASE Handler
    <2>1. CASE EnterError \/ Idle \/ Start \/ HandlerReturns
      BY <2>1, EndsAgrees, TalksAgrees
    <2>2. CASE \/ HandshakeStoreFails \/ SendHello \/ HelloAccepted \/ HelloRefused
               \/ HelloFails \/ FinishedAccepted \/ FinishedRefused
      BY <2>2, StoreFailsCloses, HelloCloses, FinishedCloses, ClosesAgrees, HandshakeAgrees,
         TalksAgrees
    <2>3. CASE TxrxRenegotiate \/ TxrxSend \/ TxrxFails
      BY <2>3, TalksAgrees, TxrxSendAgrees, TxrxCloses, ClosesAgrees
    <2>4. CASE \/ VerifyRejected \/ VerifyAlert \/ VerifyUnreadable \/ VerifyAccepted
               \/ VerifyPlainShort \/ VerifyPlain
      BY <2>4, VerifyCloses, ClosesAgrees, VerifyAgrees
    <2>5. CASE AlertRepeat \/ AlertEnds \/ ErrorAlert \/ ErrorEnds
      BY <2>5, AlertAgrees, ErrorAlertAgrees
    <2>6. CASE \/ ManageReestablish \/ ManageSave \/ ManageNothingSaved \/ ManageRestore
               \/ ManageStoreFails \/ ManageRestored \/ ManageSaved \/ ManageSaveFails
               \/ ManageRefused
      BY <2>6, ManageAgrees, ManageSendAgrees, ManageStoreCloses, ManageEndCloses, ClosesAgrees
    <2> QED BY <1>1, <2>1, <2>2, <2>3, <2>4, <2>5, <2>6 DEF Handler
  <1>2. CASE UpperLayer
    <2>1. ASSUME NEW ask \in Asks, NEW manage \in {i2c.manage, "NONE"},
                 CommsTransceive(ask[1], ask[2], manage)
          PROVE  Agrees'
      <3>1. ask[1] \in Levels /\ ask[2] \in BOOLEAN
        BY ChoiceAssumption DEF Levels
      <3> QED BY <2>1, <3>1, TransceiveAgrees
    <2> QED BY <1>2, <2>1, CallsAgrees DEF UpperLayer
  <1>3. CASE InitTimer
    BY <1>3, TimerAgrees
  <1>4. CASE Transport
    BY <1>4, InitDoneAgrees, ExchangeAgrees DEF Transport
  <1>5. CASE UNCHANGED vars
    BY <1>5, SameAgrees
  <1> QED BY <1>1, <1>2, <1>3, <1>4, <1>5 DEF Next

\* While the host takes the session for good, the device has the same key and
\* has not seen a number the host has yet to use: whatever was damaged, lost or
\* out of turn, and through saving, closing, opening and restoring.
THEOREM SessionAgrees == Spec => [](SInv /\ Asked /\ Once /\ Agrees)
  <1>1. Init => SInv /\ Asked /\ Once /\ Agrees
    BY InitSInv, InitAsked, InitOnce, InitAgrees
  <1>2. (SInv /\ Asked /\ Once /\ Agrees) /\ [Next]_vars => (SInv /\ Asked /\ Once /\ Agrees)'
    BY NextSInv, NextAsked, NextOnce, NextAgrees
  <1> QED BY <1>1, <1>2, PTL DEF Spec
-----------------------------------------------------------------------------
(* The stack implements the abstract exchange                               *)

\* A request that is under way keeps the layers engaged until it is reported,
\* and is reported as a success only when the device has executed it.
Story ==
  /\ hist.outcome = "pending" =>
       /\ comms = "INUSE" /\ prl.handler = "tl" /\ ~Handling("report")
       /\ tl # "init" /\ i2c.reset_state = "none" /\ prl.state # "UNINIT"
  /\ (/\ hist.outcome = "pending" /\ Handling("loop")
      /\ prl.state = "IDLE" /\ prl.return_status = "SUCCESS") => dev.executed = hist.current
  /\ hist.outcome = "ok" => dev.executed = hist.current

\* The upper layer's budget counts its requests.
Uses == [requests : Nat, opens : Nat, closes : Nat, faults : Nat, strange : Nat]
Counted == used \in Uses /\ used.requests = hist.current

Exchanged == [Exchange!Next]_(Exchange!vars)

\* A step within a request, or between two of them.
Proceeds ==
  /\ hist'.current = hist.current /\ hist'.outcome = hist.outcome
  /\ dev'.executed \in {dev.executed, hist.current}
  /\ hist.outcome = "pending" =>
       /\ comms' = "INUSE" /\ prl'.handler = "tl" /\ event'.phase # "report"
       /\ tl' # "init" /\ i2c'.reset_state = "none" /\ prl'.state # "UNINIT"
  /\ (/\ hist.outcome = "pending" /\ event'.phase = "loop"
      /\ prl'.state = "IDLE" /\ prl'.return_status = "SUCCESS") => dev'.executed = hist.current

LEMMA ProceedsStory ==
  ASSUME SInv, Once, Story, Proceeds PROVE Story' /\ Exchanged
  <1>1. Story'
    BY DEF Story, Proceeds, Handling
  <1>2. hist'.current = hist.current /\ hist'.outcome = hist.outcome
        /\ dev'.executed \in {dev.executed, hist.current}
    BY DEF Proceeds
  <1>3. CASE dev'.executed = dev.executed
    <2>1. UNCHANGED Exchange!vars
      BY <1>2, <1>3 DEF Exchange!vars
    <2> QED BY <1>1, <2>1 DEF Exchanged
  <1>4. CASE dev'.executed # dev.executed
    <2>1. dev.executed \in Nat /\ hist.current \in Nat /\ dev.executed <= hist.current
      BY Parts DEF Once, Executed, Device, History
    <2>2. dev'.executed = hist.current /\ hist.current # 0
      BY <1>2, <1>4, <2>1
    <2>3. Exchange!Take
      BY <1>2, <2>2 DEF Exchange!Take
    <2> QED BY <1>1, <2>3 DEF Exchanged, Exchange!Next
  <1> QED BY <1>3, <1>4

\* Round the loop, until the answer has been accepted.
LEMMA RoundProceeds ==
  ASSUME SInv, Once, Story, Round, prl'.handler = prl.handler, prl'.state # "UNINIT",
         hist'.current = hist.current, hist'.outcome = hist.outcome,
         (/\ hist.outcome = "pending" /\ prl.handler = "tl"
          /\ prl'.state = "IDLE" /\ prl'.return_status = "SUCCESS") => dev.executed = hist.current
  PROVE  Proceeds
  BY DEF Round, Proceeds, Story

LEMMA LoopProceeds ==
  ASSUME SInv, Asked, Once, Agrees, Story,
         \/ Closes \/ Start \/ TxrxRenegotiate \/ FinishedAccepted
         \/ VerifyAlert \/ VerifyUnreadable \/ VerifyAccepted \/ VerifyPlain
         \/ AlertRepeat \/ AlertEnds \/ ErrorEnds
         \/ ManageReestablish \/ ManageNothingSaved \/ ManageRestored \/ ManageSaved
  PROVE  Proceeds
  <1>1. CASE Closes
    BY <1>1, RoundProceeds DEF Closes
  <1>2. CASE Start \/ TxrxRenegotiate \/ FinishedAccepted
    BY <1>2, StartEffect, RenegotiateEffect, FinishedEffect, RoundProceeds DEF Unmoved
  <1>3. CASE VerifyAlert \/ VerifyUnreadable
    BY <1>3, VerifyAlertEffect, UnreadableEffect, RoundProceeds DEF Unmoved
  <1>4. CASE VerifyAccepted \/ VerifyPlain
    <2>1. /\ Round /\ Unmoved /\ prl.state = "VERIFY" /\ answer.type = "data" /\ prl'.state = "IDLE"
          /\ hist'.current = hist.current /\ hist'.outcome = hist.outcome
      BY <1>4, AcceptedEffect, PlainEffect, Parts DEF History
    <2>2. Result
      BY <2>1 DEF Round, Result, Handling
    <2> QED BY <2>1, <2>2, RoundProceeds DEF Agrees, Ordered, Unmoved
  <1>5. CASE AlertRepeat
    BY <1>5, RepeatEffect, RoundProceeds DEF Unmoved
  <1>6. CASE AlertEnds
    BY <1>1, <1>6, AlertEndsEffect, RoundProceeds DEF Unmoved
  <1>7. CASE ErrorEnds
    BY <1>7, ErrorEndsEffect, RoundProceeds DEF Unmoved, Asked, Course
  <1>8. CASE ManageReestablish
    BY <1>8, ReestablishEffect, RoundProceeds DEF Unmoved
  <1>9. CASE ManageNothingSaved
    BY <1>9, NothingSavedEffect, RoundProceeds
  <1>10. CASE ManageRestored
    BY <1>10, RestoredEffect, RoundProceeds
  <1>11. CASE ManageSaved
    BY <1>11, SavedEffect, RoundProceeds DEF Asked, Course, Waits
  <1> QED BY <1>1, <1>2, <1>3, <1>4, <1>5, <1>6, <1>7, <1>8, <1>9, <1>10, <1>11

LEMMA SendProceeds ==
  ASSUME SInv, Asked, Once, Agrees, Story,
         SendHello \/ HelloAccepted \/ TxrxSend \/ ErrorAlert \/ ManageSave \/ ManageRestore
  PROVE  Proceeds
  <1>1. \E m : Sending(m)
    BY HelloEffect, HelloAcceptedEffect, TxrxSendEffect, ErrorAlertEffect, SaveEffect,
       RestoreEffect
  <1>2. prl'.handler = prl.handler /\ prl'.state \in {"HANDSHAKE", "VERIFY", "MANAGE_CONTEXT"}
    BY HelloEffect, HelloAcceptedEffect, TxrxSendEffect, ErrorAlertEffect, SaveEffect,
       RestoreEffect DEF Unmoved
  <1>3. hist'.current = hist.current /\ hist'.outcome = hist.outcome
    BY HelloEffect, HelloAcceptedEffect, TxrxSendEffect, ErrorAlertEffect, SaveEffect,
       RestoreEffect DEF SameStory
  <1> QED BY <1>1, <1>2, <1>3 DEF Sending, Proceeds, Story

LEMMA ReportProceeds ==
  ASSUME SInv, Asked, Once, Agrees, Story, EnterError \/ HandlerReturns PROVE Proceeds
  <1>1. CASE EnterError
    BY <1>1, EnterErrorEffect DEF Proceeds, Story, Unmoved
  <1>2. CASE HandlerReturns
    BY <1>2, ReturnsEffect DEF Proceeds, Story, Handling
  <1> QED BY <1>1, <1>2

LEMMA CallProceeds ==
  ASSUME SInv, Asked, Once, Agrees, Story,
         \/ \E manage \in {"NONE", "RESTORE"} : CommsOpen(manage)
         \/ \E type \in {"COLD", "WARM", "SOFT"} : CommsReset(type)
         \/ \E manage \in {"NONE", "SAVE"} : CommsClose(manage)
         \/ InitTimer
  PROVE  Proceeds
  <1>1. hist.outcome # "pending"
    BY OpenEffect, ResetEffect, CloseEffect, TimerEffect DEF Calls, Story
  <1>2. hist' = hist
    BY OpenEffect, ResetEffect, CloseEffect, TimerEffect
  <1>3. Remembers(dev, DeviceOff(dev)) /\ Remembers(dev, DeviceReset(dev))
    BY Parts, ResetRemembers
  <1>4. dev'.executed = dev.executed
    <2>1. CASE InitTimer
      BY <2>1, TimerEffect, Parts, PowerOnFacts DEF Remembers
    <2>2. CASE \E manage \in {"NONE", "RESTORE"} : CommsOpen(manage)
      BY <1>3, <2>2, OpenEffect DEF Remembers
    <2>3. CASE \E type \in {"COLD", "WARM", "SOFT"} : CommsReset(type)
      BY <1>3, <2>3, ResetEffect DEF Remembers
    <2>4. CASE \E manage \in {"NONE", "SAVE"} : CommsClose(manage)
      BY <1>3, <2>4, CloseEffect DEF Remembers
    <2> QED BY <2>1, <2>2, <2>3, <2>4
  <1> QED BY <1>1, <1>2, <1>4 DEF Proceeds

LEMMA TransportProceeds ==
  ASSUME SInv, Asked, Once, Agrees, Story,
         TlInitDone \/ TlAnswered \/ TlDamaged \/ TlStrange \/ TlFailed
  PROVE  Proceeds
  <1>1. CASE TlInitDone
    BY <1>1, InitDoneEffect DEF Begins, Proceeds, Story
  <1>2. CASE TlAnswered \/ TlDamaged \/ TlStrange \/ TlFailed
    <2>1. Ends /\ (Breaks \/ \E m \in Records, b \in Records : Takes_place(m, b))
      BY <1>2, ExchangeEffect
    <2>2. event'.phase \in {"loop", "error"} /\ hist'.current = hist.current
          /\ hist'.outcome = hist.outcome
      BY <2>1 DEF Breaks, Takes_place, Arrives, Damages, Swaps, Misses, Marks
    <2>3. dev'.executed \in {dev.executed, hist.current}
      <3>1. CASE Breaks
        BY <3>1 DEF Breaks
      <3>2. CASE \E m \in Records, b \in Records : Takes_place(m, b)
        <4>1. PICK m \in Records, b \in Records : Takes_place(m, b)
          BY <3>2
        <4>2. Works(dev, tx, dev')
          BY <4>1, DoesWork, SameWorks DEF Takes_place
        <4>3. tx.type = "data" => tx.of \in {0, hist.current}
          BY <2>1 DEF Once, Sealing, Sent, Asked, Turn, Ends
        <4> QED BY <4>2, <4>3 DEF Works
      <3> QED BY <2>1, <3>1, <3>2
    <2>4. prl.state # "IDLE" /\ prl.state # "UNINIT"
      BY <2>1 DEF Ends, Asked, Turn
    <2> QED BY <2>1, <2>2, <2>3, <2>4 DEF Ends, Proceeds, Story
  <1> QED BY <1>1, <1>2
\* The upper layer is told how the operation ended.
LEMMA IdleStory ==
  ASSUME SInv, Asked, Once, Agrees, Story, Idle PROVE Story' /\ Exchanged
  <1>1. /\ event.phase = "loop" /\ event'.phase = "report" /\ prl.state = "IDLE"
        /\ hist' = Told(hist, prl.return_status)
        /\ (prl.handler = "close" => dev' = DeviceOff(dev)) /\ (prl.handler # "close" => dev' = dev)
    BY IdleEffect
  <1>2. dev'.executed = dev.executed
    BY <1>1, Parts, ResetRemembers DEF Remembers
  <1>3. CASE hist.outcome # "pending"
    <2>1. hist' = hist
      BY <1>1, <1>3 DEF Told
    <2>2. Proceeds
      BY <1>1, <1>2, <1>3, <2>1 DEF Proceeds
    <2> QED BY <2>2, ProceedsStory
  <1>4. CASE hist.outcome = "pending"
    <2>1. prl.handler # "close"
      BY <1>4 DEF Story
    <2>2. hist'.current = hist.current
          /\ hist'.outcome = IF prl.return_status = "SUCCESS" THEN "ok" ELSE "failed"
      BY <1>1, <1>4, <2>1, Parts DEF Told, History
    <2>3. prl.return_status = "SUCCESS" => dev.executed = hist.current
      BY <1>1, <1>4 DEF Story, Handling
    <2>4. Story'
      BY <1>2, <2>2, <2>3 DEF Story
    <2>5. Exchange!Acknowledge \/ Exchange!Fail
      BY <1>2, <1>4, <2>2, <2>3 DEF Exchange!Acknowledge, Exchange!Fail
    <2> QED BY <2>4, <2>5 DEF Exchanged, Exchange!Next
  <1> QED BY <1>3, <1>4

LEMMA TransceiveStory ==
  ASSUME SInv, Asked, Once, Story, Counted, NEW level \in Levels, NEW re \in BOOLEAN,
         NEW manage \in {i2c.manage, "NONE"}, CommsTransceive(level, re, manage)
  PROVE  Story' /\ Exchanged
  <1>1. /\ Calls /\ comms' = "INUSE" /\ tl' = tl /\ dev' = dev /\ prl'.handler = "tl"
        /\ event'.phase = "loop" /\ i2c'.reset_state = "none"
        /\ prl'.state \in {"START", "MANAGE_CONTEXT"}
        /\ hist'.current = hist.current + 1 /\ hist'.outcome = "pending"
    BY TransceiveEffect DEF Unmoved
  <1>2. Story'
    BY <1>1 DEF Story, Calls, Handling
  <1>3. hist.outcome # "pending"
    BY <1>1 DEF Story, Calls
  <1>4. hist.current + 1 \in 1 .. MaxRequests
    <2>1. used.requests < MaxRequests
      BY DEF CommsTransceive, Call
    <2>2. hist.current \in Nat /\ hist.current < MaxRequests
      BY <2>1, Parts DEF Counted, History
    <2> QED BY <2>2, BudgetAssumption
  <1>5. Exchange!Request
    BY <1>1, <1>3, <1>4 DEF Exchange!Request
  <1> QED BY <1>2, <1>5 DEF Exchanged, Exchange!Next

\* A request begins.
Requests ==
  \E level \in Levels, re \in BOOLEAN, manage \in {i2c.manage, "NONE"} :
    CommsTransceive(level, re, manage)

LEMMA NextProceeds ==
  ASSUME SInv, Asked, Once, Agrees, Story, [Next]_vars PROVE Proceeds \/ Idle \/ Requests
  <1>1. CASE Handler
    <2>1. CASE EnterError \/ Start \/ HandlerReturns
      BY <2>1, ReportProceeds, LoopProceeds
    <2>2. CASE \/ HandshakeStoreFails \/ SendHello \/ HelloAccepted \/ HelloRefused
               \/ HelloFails \/ FinishedAccepted \/ FinishedRefused
      BY <2>2, StoreFailsCloses, HelloCloses, FinishedCloses, LoopProceeds, SendProceeds
    <2>3. CASE TxrxRenegotiate \/ TxrxSend \/ TxrxFails
      BY <2>3, TxrxCloses, LoopProceeds, SendProceeds
    <2>4. CASE \/ VerifyRejected \/ VerifyAlert \/ VerifyUnreadable \/ VerifyAccepted
               \/ VerifyPlainShort \/ VerifyPlain
      BY <2>4, VerifyCloses, LoopProceeds
    <2>5. CASE AlertRepeat \/ AlertEnds \/ ErrorAlert \/ ErrorEnds
      BY <2>5, LoopProceeds, SendProceeds
    <2>6. CASE \/ ManageReestablish \/ ManageSave \/ ManageNothingSaved \/ ManageRestore
               \/ ManageStoreFails \/ ManageRestored \/ ManageSaved \/ ManageSaveFails
               \/ ManageRefused
      BY <2>6, ManageStoreCloses, ManageEndCloses, LoopProceeds, SendProceeds
    <2> QED BY <1>1, <2>1, <2>2, <2>3, <2>4, <2>5, <2>6 DEF Handler
  <1>2. CASE UpperLayer
    <2>1. ASSUME NEW ask \in Asks, NEW manage \in {i2c.manage, "NONE"},
                 CommsTransceive(ask[1], ask[2], manage)
          PROVE  Requests
      <3>1. ask[1] \in Levels /\ ask[2] \in BOOLEAN
        BY ChoiceAssumption DEF Levels
      <3> QED BY <2>1, <3>1 DEF Requests
    <2>2. CASE \/ \E manage \in {"NONE", "RESTORE"} : CommsOpen(manage)
               \/ \E type \in {"COLD", "WARM", "SOFT"} : CommsReset(type)
               \/ \E manage \in {"NONE", "SAVE"} : CommsClose(manage)
      BY <2>2, CallProceeds
    <2> QED BY <1>2, <2>1, <2>2 DEF UpperLayer
  <1>3. CASE InitTimer
    BY <1>3, CallProceeds
  <1>4. CASE Transport
    BY <1>4, TransportProceeds DEF Transport
  <1>5. CASE UNCHANGED vars
    BY <1>5 DEF vars, Proceeds, Story, Handling
  <1> QED BY <1>1, <1>2, <1>3, <1>4, <1>5 DEF Next

LEMMA NextStory ==
  ASSUME SInv, Asked, Once, Agrees, Story, Counted, [Next]_vars PROVE Story' /\ Exchanged
  BY NextProceeds, ProceedsStory, IdleStory, TransceiveStory DEF Requests

LEMMA InitStory == ASSUME Init PROVE Story /\ Counted /\ Exchange!Init
  <1>1. /\ hist.outcome = "none" /\ hist.current = 0 /\ dev.executed = 0
        /\ used = [requests |-> 0, opens |-> 0, closes |-> 0, faults |-> 0, strange |-> 0]
    BY DEF Init
  <1> QED BY <1>1 DEF Story, Counted, Uses, Exchange!Init

\* A fault, and a call other than a request, count nothing that matters here.
LEMMA FaultCounts == ASSUME Counted, Fault PROVE used' \in Uses /\ used'.requests = used.requests
  BY DEF Counted, Fault, Uses

LEMMA CallCounts ==
  ASSUME Counted, NEW budget \in {"opens", "closes"}, NEW max, Call(budget, max)
  PROVE  used' \in Uses /\ used'.requests = used.requests
  BY DEF Counted, Call, Uses

\* Only a request is counted as one.
LEMMA NextUses ==
  ASSUME Counted, [Next]_vars, ~Requests PROVE used' \in Uses /\ used'.requests = used.requests
  <1>1. used' = used => used' \in Uses /\ used'.requests = used.requests
    BY DEF Counted
  <1>2. CASE Handler
    <2>1. CASE EnterError \/ Idle \/ Start \/ HandlerReturns
      BY <1>1, <2>1 DEF EnterError, Idle, Start, HandlerReturns
    <2>2. CASE SendHello \/ HelloAccepted \/ HelloRefused \/ FinishedAccepted \/ FinishedRefused
      BY <1>1, <2>2 DEF SendHello, HelloAccepted, HelloRefused, FinishedAccepted, FinishedRefused
    <2>3. CASE HandshakeStoreFails \/ HelloFails \/ TxrxFails \/ ManageStoreFails \/ ManageSaveFails
      BY <2>3, FaultCounts
         DEF HandshakeStoreFails, HelloFails, TxrxFails, ManageStoreFails, ManageSaveFails,
             StoreFails
    <2>4. CASE \/ TxrxRenegotiate \/ TxrxSend \/ VerifyRejected \/ VerifyAlert
               \/ VerifyUnreadable \/ VerifyAccepted \/ VerifyPlainShort \/ VerifyPlain
      BY <1>1, <2>4
         DEF TxrxRenegotiate, TxrxSend, VerifyRejected, VerifyAlert, VerifyUnreadable,
             VerifyAccepted, VerifyPlainShort, VerifyPlain
    <2>5. CASE AlertRepeat \/ AlertEnds \/ ErrorAlert \/ ErrorEnds
      BY <1>1, <2>5 DEF AlertRepeat, AlertEnds, ErrorAlert, ErrorEnds
    <2>6. CASE \/ ManageReestablish \/ ManageSave \/ ManageNothingSaved \/ ManageRestore
               \/ ManageRestored \/ ManageSaved
      BY <1>1, <2>6
         DEF ManageReestablish, ManageSave, ManageNothingSaved, ManageRestore, ManageRestored,
             ManageSaved
    <2>7. CASE ManageRefused
      BY <1>1, <2>7, FaultCounts DEF ManageRefused, StoreFails
    <2> QED BY <1>2, <2>1, <2>2, <2>3, <2>4, <2>5, <2>6, <2>7 DEF Handler
  <1>3. CASE UpperLayer
    <2>1. ASSUME NEW ask \in Asks, NEW manage \in {i2c.manage, "NONE"},
                 CommsTransceive(ask[1], ask[2], manage)
          PROVE  FALSE
      <3>1. ask[1] \in Levels /\ ask[2] \in BOOLEAN
        BY ChoiceAssumption DEF Levels
      <3> QED BY <2>1, <3>1 DEF Requests
    <2> QED BY <1>3, <2>1, CallCounts DEF UpperLayer, CommsOpen, CommsReset, CommsClose
  <1>4. CASE InitTimer
    BY <1>1, <1>4 DEF InitTimer
  <1>5. CASE TlInitDone \/ TlAnswered \/ TlDamaged \/ TlFailed
    BY <1>1, <1>5, FaultCounts DEF TlInitDone, TlAnswered, TlDamaged, TlFailed
  <1>6. CASE TlStrange
    <2> DEFINE q == [used EXCEPT !.strange = used.strange + 1]
    <2>1. q \in Uses /\ q.requests = used.requests /\ q.faults = used.faults
      BY DEF Counted, Uses
    <2>2. used' = [q EXCEPT !.faults = q.faults + 1]
      BY <1>6, <2>1 DEF TlStrange
    <2> HIDE DEF q
    <2> QED BY <2>1, <2>2 DEF Uses
  <1>7. CASE UNCHANGED vars
    BY <1>1, <1>7 DEF vars
  <1> QED BY <1>2, <1>3, <1>4, <1>5, <1>6, <1>7 DEF Next, Transport

LEMMA NextCounted ==
  ASSUME SInv, Asked, Once, Agrees, Story, Counted, [Next]_vars PROVE Counted'
  <1>1. CASE Requests
    <2>1. used' = [used EXCEPT !.requests = @ + 1]
      BY <1>1 DEF Requests, CommsTransceive, Call
    <2>2. hist'.current = hist.current + 1
      BY <1>1, TransceiveEffect DEF Requests
    <2> QED BY <2>1, <2>2 DEF Counted, Uses
  <1>2. CASE ~Requests
    <2>1. hist'.current = hist.current
      <3>1. CASE Proceeds
        BY <3>1 DEF Proceeds
      <3>2. CASE Idle
        BY <3>2, IdleEffect, ToldKeeps
      <3> QED BY <1>2, <3>1, <3>2, NextProceeds
    <2> QED BY <1>2, <2>1, NextUses DEF Counted
  <1> QED BY <1>1, <1>2

AInv == SInv /\ Asked /\ Once /\ Agrees /\ Story /\ Counted

THEOREM SessionStory == Spec => []AInv
  <1>1. Init => AInv
    BY InitSInv, InitAsked, InitOnce, InitAgrees, InitStory DEF AInv
  <1>2. AInv /\ [Next]_vars => AInv'
    BY NextSInv, NextAsked, NextOnce, NextAgrees, NextStory, NextCounted DEF AInv
  <1> QED BY <1>1, <1>2, PTL DEF Spec

\* Every behaviour of the stack and the device is one of the abstract exchange,
\* fairness aside: one request at a time, the device executes the current
\* command only, also when records are repeated and after resets, and a success
\* is reported only when it did (ifx_i2c_prl_transceive, PRL_STATE_VERIFY).
THEOREM SessionImplementsExchange ==
  Spec => Exchange!Init /\ [][Exchange!Next]_(Exchange!vars)
  <1>1. Init => Exchange!Init
    BY InitStory
  <1>2. AInv /\ [Next]_vars => [Exchange!Next]_(Exchange!vars)
    BY NextStory DEF AInv, Exchanged
  <1> QED BY <1>1, <1>2, SessionStory, PTL DEF Spec

-----------------------------------------------------------------------------
(* Where the answers are that the window would let in                       *)

Within == Talks /\ i2c.level # "NO" /\ ~Handling("error")
InUse == Alive /\ ~Broken /\ ~Renewing /\ (prl.negotiated \/ Within)

\* The host would take answer a for a new one.
Newer(a) == a.key = prl.key /\ a.seq > prl.save_slave

\* It has the answer at hand, or knows that it has missed it.
Asking == Result \/ Unread \/ Sent("alert")

\* But for the last payload, sent again when the stack is closed, after an
\* operation that had failed.
Done == prl.handler = "tl" \/ hist.outcome = "ok"

\* The key that is being made is new to the device, ...
Newest(d) ==
  /\ d.pending # 0 => d.pending \notin {d.key, d.saved_key, d.last.key}
  /\ d.pending <= d.sessions /\ d.key <= d.sessions
  /\ d.saved_key <= d.sessions /\ d.last.key <= d.sessions

\* ... and no answer was given under it so far.
Distinct ==
  /\ Newest(dev)
  /\ (/\ prl.state = "HANDSHAKE" /\ prl.hs_state = "VERIFY_FINISHED"
      /\ answer.type = "finished" /\ answer.intact /\ answer.key = prl.key) =>
       dev.last.key # prl.key

\* The last answer of the device, should the window let it in, was lost or is
\* the one the host asks for: in the session in use, ...
Last ==
  (InUse /\ prl.key # 0 /\ Newer(dev.last)) =>
    dev.last.of \in hist.lost \/ (Asking /\ (Done => dev.last.of = hist.current))

\* ... and in the one that is saved or being restored it was lost.
LastSaved ==
  /\ (Reserve.stored /\ dev.last.key = Reserve.key /\ dev.last.seq > Reserve.slave) =>
       dev.last.of \in hist.lost
  /\ (Renewing /\ dev.last.key = prl.saved.key /\ dev.last.seq > prl.saved.slave) =>
       dev.last.of \in hist.lost

\* What has been received.
Received ==
  /\ (Result /\ ~ProtectsSlave(i2c.level)) => dev.last.key = 0
  /\ (Result /\ ProtectsSlave(i2c.level) /\ answer.intact) =>
       /\ answer.seq = dev.last.seq \/ dev.last.of \in hist.lost
       /\ Newer(answer) => \/ answer.of \in hist.lost /\ hist.odd
                           \/ Done => answer.of = hist.current

\* A new session begins with no lost answer.
Renewed ==
  (Talks /\ i2c.re_establish /\ Done /\ ~Handling("error")) => hist.lost \subseteq {hist.current}

Genuine ==
  ProtectsSlave(i2c.level) =>
    \/ hist.accepted = hist.current
    \/ hist.odd /\ hist.accepted \in hist.lost /\ ~i2c.re_establish

Ended ==
  /\ (prl.handler = "tl" /\ (Opens \/ Talks \/ prl.state = "MANAGE_CONTEXT")) =>
       hist.outcome = "pending"
  /\ (/\ hist.outcome = "pending" /\ Handling("loop")
      /\ prl.state = "IDLE" /\ prl.return_status = "SUCCESS") => Genuine
  /\ hist.outcome = "ok" => Genuine

Answers == Distinct /\ Last /\ LastSaved /\ Received /\ Renewed /\ Ended

-----------------------------------------------------------------------------
\* What a step of the host may do to the device: nothing, a reset, or the loss
\* of power.
Rests(d, e) ==
  Remembers(d, e) /\ e.key \in {0, d.key} /\ e.pending \in {0, d.pending}

LEMMA RestsFacts ==
  ASSUME SInv
  PROVE  /\ Rests(dev, dev) /\ Rests(dev, DeviceReset(dev)) /\ Rests(dev, DeviceOff(dev))
         /\ Rests(dev, [dev EXCEPT !.on = TRUE])
  BY Parts, ResetRemembers, PowerOnFacts DEF Rests, Remembers

\* The history, but for what is accepted, and for the numbers.
SameTale ==
  /\ hist'.current = hist.current /\ hist'.outcome = hist.outcome
  /\ hist'.odd = hist.odd /\ hist'.lost = hist.lost /\ hist'.accepted = hist.accepted

LEMMA SameTaleFacts == ASSUME hist' = hist PROVE SameTale
  BY DEF SameTale

LEMMA DistinctKept ==
  ASSUME SInv, Distinct, Rests(dev, dev'),
         prl'.state # "HANDSHAKE" \/ prl'.hs_state = "SEND_HELLO" \/ answer'.type = "none"
  PROVE  Distinct'
  <1>1. dev.sessions \in Nat
    BY Parts DEF Device
  <1> QED BY <1>1 DEF Rests, Remembers, Distinct, Newest

LEMMA LastSavedKept ==
  ASSUME LastSaved, dev'.last = dev.last, hist'.lost = hist.lost,
         Reserve' = Reserve \/ ~Reserve'.stored, ~Renewing'
  PROVE  LastSaved'
  BY DEF LastSaved

\* The handler goes round its loop.
LEMMA RoundAnswers ==
  ASSUME SInv, Asked, Story, Answers, Round, SameTale, Last', prl'.handler = prl.handler,
         prl'.state \notin {"VERIFY", "MANAGE_CONTEXT"},
         prl'.state = "HANDSHAKE" => prl'.hs_state = "SEND_HELLO",
         Reserve' = Reserve \/ ~Reserve'.stored,
         Talks' => Talks \/ ~i2c.re_establish,
         prl.handler = "tl" /\ (Opens' \/ Talks') =>
           Opens \/ Talks \/ prl.state = "MANAGE_CONTEXT",
         prl'.state = "IDLE" =>
           prl'.return_status # "SUCCESS" \/ ~ProtectsSlave(i2c.level) \/ prl.handler = "close"
  PROVE  Answers'
  <1>1. event.phase = "loop" /\ event' = event /\ i2c' = i2c /\ dev' = dev /\ answer' = answer
    BY DEF Round, answer
  <1>2. Distinct'
    BY <1>1, RestsFacts, DistinctKept DEF Answers
  <1>3. LastSaved'
    BY <1>1, LastSavedKept DEF Answers, SameTale, Renewing, Waits
  <1>4. Received'
    BY DEF Received, Result
  <1>5. Renewed'
    BY <1>1 DEF Answers, Renewed, SameTale, Done, Handling
  <1>6. Ended'
    BY <1>1 DEF Answers, Ended, Genuine, Story, SameTale, Handling
  <1> QED BY <1>2, <1>3, <1>4, <1>5, <1>6 DEF Answers

\* What the window would let in stays what it was.
LEMMA LastKept ==
  ASSUME Last, Round, SameTale, ~Waits, prl'.handler = prl.handler,
         prl'.key = prl.key, prl'.save_slave = prl.save_slave,
         prl'.negotiated => prl.negotiated,
         Talks' => Talks \/ (i2c.level # "NO" => prl.negotiated),
         ~Asking \/ (Unread /\ Unread')
  PROVE  Last'
  <1>1. event.phase = "loop" /\ event' = event /\ i2c' = i2c /\ dev' = dev
        /\ answer' = answer /\ tl' = "idle"
    BY DEF Round, answer
  <1>2. InUse' => InUse
    BY <1>1 DEF InUse, Within, Alive, Broken, Renewing, Waits, Handling
  <1>3. Asking => Asking' /\ Done' = Done
    BY DEF Asking, Done, SameTale
  <1> QED BY <1>1, <1>2, <1>3 DEF Last, Newer, SameTale

LEMMA ClosesAnswers ==
  ASSUME SInv, Asked, Story, Answers, Closes PROVE Answers'
  <1>1. ~Talks' /\ ~Opens'
    BY DEF Closes, Talks, Opens
  <1>2. Last'
    BY <1>1 DEF Closes, Last, InUse, Within
  <1> QED BY <1>1, <1>2, SameTaleFacts, RoundAnswers DEF Closes

LEMMA LoopAnswers ==
  ASSUME SInv, Asked, Story, Answers, Start \/ TxrxRenegotiate \/ ErrorEnds \/ AlertRepeat \/ AlertEnds
  PROVE  Answers'
  <1>1. CASE Start
    <2>1. ~Asking
      BY <1>1, StartEffect DEF Asking, Result, Unread, Sent
    <2>2. Last'
      BY <1>1, <2>1, StartEffect, SameTaleFacts, LastKept DEF Answers, Unmoved, Waits, Talks
    <2> QED BY <1>1, <2>2, StartEffect, SameTaleFacts, SameReserve, RoundAnswers
            DEF Unmoved, Talks, Opens
  <1>2. CASE TxrxRenegotiate
    <2>1. Last'
      BY <1>2, RenegotiateEffect DEF Last, InUse, Within, Talks
    <2> QED BY <1>2, <2>1, RenegotiateEffect, SameTaleFacts, SameReserve, RoundAnswers
            DEF Unmoved, Talks, Opens
  <1>3. CASE ErrorEnds
    <2>1. ~Asking
      BY <1>3, ErrorEndsEffect DEF Asking, Result, Unread, Sent
    <2>2. Last'
      BY <1>3, <2>1, ErrorEndsEffect, SameTaleFacts, LastKept DEF Answers, Unmoved, Waits, Talks
    <2>3. prl'.return_status # "SUCCESS"
      BY <1>3, ErrorEndsEffect DEF Asked, Course
    <2> QED BY <1>3, <2>2, <2>3, ErrorEndsEffect, SameTaleFacts, SameReserve, RoundAnswers
            DEF Unmoved, Talks, Opens
  <1>4. CASE AlertRepeat
    <2>1. ~Asking
      BY <1>4, RepeatEffect, Parts DEF Asking, Result, Unread, Sent, Called, Round
    <2>2. Last'
      BY <1>4, <2>1, RepeatEffect, SameTaleFacts, LastKept DEF Answers, Unmoved, Waits, Talks
    <2> QED BY <1>4, <2>2, RepeatEffect, SameTaleFacts, SameReserve, RoundAnswers
            DEF Unmoved, Talks, Opens
  <1>5. CASE AlertEnds
    <2>1. CASE ~Closes
      <3>1. ~Asking \/ (Unread /\ Unread')
        BY <1>5, <2>1, AlertEndsEffect DEF Asking, Result, Unread, Sent, Round
      <3>2. Last'
        BY <1>5, <2>1, <3>1, AlertEndsEffect, SameTaleFacts, LastKept
           DEF Answers, Unmoved, Waits, Talks
      <3> QED BY <1>5, <2>1, <3>2, AlertEndsEffect, SameTaleFacts, SameReserve, RoundAnswers
              DEF Unmoved, Talks, Opens
    <2> QED BY <2>1, ClosesAnswers
  <1> QED BY <1>1, <1>2, <1>3, <1>4, <1>5

LEMMA LookedAnswers ==
  ASSUME SInv, Asked, Story, Answers, VerifyAlert \/ VerifyUnreadable \/ VerifyPlain
  PROVE  Answers'
  <1>1. CASE VerifyAlert
    <2>1. ~Asking
      BY <1>1, VerifyAlertEffect DEF Asking, Result, Unread, Sent, Round, Alerts
    <2>2. Last'
      BY <1>1, <2>1, VerifyAlertEffect, SameTaleFacts, LastKept DEF Answers, Unmoved, Waits, Talks
    <2> QED BY <1>1, <2>2, VerifyAlertEffect, SameTaleFacts, SameReserve, RoundAnswers
            DEF Unmoved, Talks, Opens
  <1>2. CASE VerifyUnreadable
    <2>1. /\ event.phase = "loop" /\ event' = event /\ i2c' = i2c /\ dev' = dev
          /\ tl = "idle" /\ hist' = hist /\ prl.state = "VERIFY" /\ prl'.key = prl.key
          /\ prl'.handler = prl.handler /\ prl'.negotiated = prl.negotiated
          /\ prl'.save_slave = answer.seq /\ answer.seq > prl.save_slave
      BY <1>2, UnreadableEffect DEF Round, Unmoved, InWindow
    <2>2. Unread' /\ Done' = Done
      BY <1>2, <2>1, UnreadableEffect DEF Unread, Done
    <2>3. InUse' => InUse
      BY <2>1 DEF InUse, Within, Alive, Broken, Renewing, Waits, Handling, Talks
    <2>4. Newer(dev.last)' => Newer(dev.last)
      <3>1. answer.seq \in Nat /\ prl.save_slave \in Nat /\ dev.last.seq \in Nat
        BY Parts, ConstantFacts DEF Events, Records, Sequence, Prl, Slaves, Device, answer
      <3> QED BY <2>1, <3>1 DEF Newer
    <2>5. Last'
      BY <2>1, <2>2, <2>3, <2>4 DEF Answers, Last, Asking
    <2> QED BY <1>2, <2>5, UnreadableEffect, SameTaleFacts, SameReserve, RoundAnswers
            DEF Unmoved, Talks, Opens
  <1>3. CASE VerifyPlain
    <2>1. dev.last.key = 0
      BY <1>3, PlainEffect DEF Answers, Received, Result, Round, Handling
    <2>2. Last'
      BY <1>3, <2>1, PlainEffect DEF Last, Newer, Round
    <2> QED BY <1>3, <2>2, PlainEffect, SameTaleFacts, SameReserve, RoundAnswers
            DEF Unmoved, Talks, Opens
  <1> QED BY <1>1, <1>2, <1>3

\* A new session begins, and no answer was given in it yet.
LEMMA FinishedAnswers ==
  ASSUME SInv, Asked, Story, Answers, FinishedAccepted PROVE Answers'
  <1>1. /\ event' = event /\ i2c' = i2c /\ dev' = dev /\ answer' = answer
        /\ event.phase = "loop" /\ prl.state = "HANDSHAKE" /\ prl'.state = "TXRX"
        /\ prl'.key = prl.key /\ prl'.handler = prl.handler /\ ~Reserve'.stored
        /\ hist'.lost = {} /\ hist'.current = hist.current /\ hist'.odd = hist.odd
        /\ hist'.outcome = hist.outcome /\ hist'.accepted = hist.accepted
    BY FinishedEffect DEF Round, answer
  <1>2. Distinct'
    BY <1>1, RestsFacts, DistinctKept DEF Answers
  <1>3. Last'
    <2>1. dev.last.key # prl.key
      BY FinishedEffect DEF Answers, Distinct
    <2> QED BY <1>1, <2>1 DEF Last, Newer
  <1>4. LastSaved'
    BY <1>1 DEF LastSaved, Renewing, Waits
  <1>5. Received'
    BY <1>1 DEF Received, Result
  <1>6. Renewed'
    BY <1>1 DEF Renewed
  <1>7. Ended'
    <2>1. hist.outcome = "ok" => prl.handler = "close" /\ i2c.re_establish
      <3>1. prl.handler \in {"tl", "close"}
        BY Parts DEF Prl
      <3> QED BY <1>1, <3>1 DEF Answers, Ended, Opens, Asked, Course
    <2> QED BY <1>1, <2>1 DEF Answers, Ended, Genuine, Opens
  <1> QED BY <1>2, <1>3, <1>4, <1>5, <1>6, <1>7 DEF Answers

\* The answer is handed up: it is the answer to this request.
LEMMA AcceptedAnswers ==
  ASSUME SInv, Asked, Story, Answers, VerifyAccepted PROVE Answers'
  <1>1. /\ event' = event /\ i2c' = i2c /\ dev' = dev /\ answer' = answer
        /\ event.phase = "loop" /\ prl.state = "VERIFY" /\ prl'.state = "IDLE"
        /\ prl'.key = prl.key /\ prl'.handler = prl.handler
        /\ prl'.save_slave = answer.seq /\ ProtectsSlave(i2c.level)
        /\ answer.intact /\ answer.type = "data" /\ Newer(answer)
    BY AcceptedEffect DEF Round, answer, Unmoved, InWindow, Newer
  <1>2. /\ hist'.current = hist.current /\ hist'.outcome = hist.outcome
        /\ hist'.odd = hist.odd /\ hist'.lost = hist.lost /\ hist'.accepted = answer.of
    BY AcceptedEffect, Parts DEF History
  <1>3. Reserve' = Reserve
    BY AcceptedEffect, SameReserve
  <1>4. /\ answer.seq = dev.last.seq \/ dev.last.of \in hist.lost
        /\ \/ answer.of \in hist.lost /\ hist.odd
           \/ Done => answer.of = hist.current
    BY <1>1 DEF Answers, Received, Result, Handling
  <1>5. Distinct'
    BY <1>1, RestsFacts, DistinctKept DEF Answers
  <1>6. Last'
    <2>1. dev.last.seq \in Nat
      BY Parts, ConstantFacts DEF Device, Records, Sequence
    <2>2. Newer(dev.last)' => dev.last.seq # answer.seq
      BY <1>1, <2>1 DEF Newer
    <2> QED BY <1>1, <1>2, <1>4, <2>2 DEF Last
  <1>7. LastSaved'
    BY <1>1, <1>2, <1>3, LastSavedKept DEF Answers, Renewing, Waits
  <1>8. Received'
    BY <1>1 DEF Received, Result
  <1>9. Renewed'
    BY <1>1 DEF Renewed, Talks
  <1>10. Ended'
    <2>1. Done => \/ answer.of = hist.current
                  \/ hist.odd /\ answer.of \in hist.lost /\ ~i2c.re_establish
      BY <1>1, <1>4 DEF Answers, Renewed, Talks, Handling
    <2>2. hist.outcome \in {"pending", "ok"} => Done
      BY DEF Story, Done
    <2> QED BY <1>1, <1>2, <2>1, <2>2 DEF Ended, Genuine, Opens, Talks
  <1> QED BY <1>5, <1>6, <1>7, <1>8, <1>9, <1>10 DEF Answers

LEMMA ManageAnswers ==
  ASSUME SInv, Asked, Story, Answers,
         ManageReestablish \/ ManageNothingSaved \/ ManageRestored \/ ManageSaved
  PROVE  Answers'
  <1>1. CASE ManageReestablish
    <2>1. SameTale
      BY <1>1, ReestablishEffect DEF SameTale
    <2>2. ~Asking
      BY <1>1, ReestablishEffect DEF Asking, Result, Unread, Sent
    <2>3. Last'
      BY <1>1, <2>1, <2>2, ReestablishEffect, LastKept DEF Answers, Unmoved, Waits, Talks
    <2> QED BY <1>1, <2>1, <2>3, ReestablishEffect, SameReserve, RoundAnswers
            DEF Unmoved, Talks, Opens
  <1>2. CASE ManageNothingSaved
    <2>1. Last'
      BY <1>2, NothingSavedEffect DEF Last, InUse, Within, Talks
    <2> QED BY <1>2, <2>1, NothingSavedEffect, SameTaleFacts, RoundAnswers DEF Talks, Opens
  <1>3. CASE ManageRestored
    <2>1. Last'
      BY <1>3, RestoredEffect DEF Answers, Last, LastSaved, Newer, Round
    <2>2. ~i2c.re_establish
      BY <1>3, RestoredEffect DEF Renewing, Asked, Course
    <2> QED BY <1>3, <2>1, <2>2, RestoredEffect, SameTaleFacts, RoundAnswers
            DEF Talks, Opens, Renewing, Waits
  <1>4. CASE ManageSaved
    <2>1. /\ event' = event /\ i2c' = i2c /\ dev' = dev /\ answer' = answer /\ hist' = hist
          /\ event.phase = "loop" /\ tl = "idle" /\ i2c.reset_state = "none"
          /\ Waits /\ i2c.manage = "SAVE" /\ answer.type = "saved"
          /\ prl'.state = "IDLE" /\ prl'.key = 0 /\ prl'.handler = prl.handler
          /\ Reserve'.key = prl.key /\ Reserve'.slave = prl.save_slave
      BY <1>4, SavedEffect DEF Round, answer
    <2>2. prl.handler = "close" /\ prl.negotiated /\ dev.on
      BY <2>1 DEF Asked, Course, Powered, Waits
    <2>3. InUse /\ prl.key # 0
      <3>1. InUse
        BY <2>1, <2>2 DEF InUse, Alive, Broken, Renewing, Handling
      <3> QED BY <2>1, <2>2, <3>1 DEF InUse, Asked, Confirmed, Emptied, Waits
    <2>4. ~Asking
      BY <2>1 DEF Asking, Result, Unread, Sent, Waits
    <2>5. LastSaved'
      BY <2>1, <2>3, <2>4 DEF Answers, LastSaved, Last, Newer, Renewing, Waits
    <2>6. Distinct'
      BY <2>1, RestsFacts, DistinctKept DEF Answers
    <2>7. Last' /\ Received' /\ Renewed'
      BY <2>1 DEF Last, Received, Result, Renewed, Talks
    <2>8. Ended'
      BY <2>1, <2>2 DEF Answers, Ended, Genuine, Opens, Talks, Story
    <2> QED BY <2>5, <2>6, <2>7, <2>8 DEF Answers
  <1> QED BY <1>1, <1>2, <1>3, <1>4

\* The handler sends a record and returns.
LEMMA SendingAnswers ==
  ASSUME SInv, Asked, Story, Answers, Sending(tx'), SameTale, Last', LastSaved',
         prl'.handler = prl.handler,
         Talks' => Talks, Opens' => Opens,
         prl'.state = "MANAGE_CONTEXT" => prl.state = "MANAGE_CONTEXT"
  PROVE  Answers'
  <1>1. /\ event.phase = "loop" /\ event'.phase = "none" /\ answer'.type = "none" /\ dev' = dev
        /\ i2c'.level = i2c.level /\ i2c'.re_establish = i2c.re_establish
    BY DEF Sending
  <1>2. Distinct'
    BY <1>1, RestsFacts, DistinctKept DEF Answers
  <1>3. Received'
    BY <1>1 DEF Received, Result
  <1>4. Renewed'
    BY <1>1 DEF Answers, Renewed, SameTale, Done, Handling
  <1>5. Ended'
    BY <1>1 DEF Answers, Ended, Genuine, SameTale, Handling
  <1> QED BY <1>2, <1>3, <1>4, <1>5 DEF Answers

LEMMA SentRecord == ASSUME NEW m, Sending(m) PROVE Sending(tx') /\ tx' = m
  BY DEF Sending

LEMMA SendsAnswers ==
  ASSUME SInv, Asked, Asked', Story, Answers,
         \/ SendHello \/ HelloAccepted \/ TxrxSend \/ ErrorAlert \/ ManageSave \/ ManageRestore
  PROVE  Answers'
  <1>1. CASE SendHello \/ HelloAccepted
    <2>1. /\ Sending(tx') /\ hist' = hist /\ prl.state = "HANDSHAKE" /\ prl'.state = "HANDSHAKE"
          /\ ~Reserve'.stored /\ prl'.handler = prl.handler
      BY <1>1, HelloEffect, HelloAcceptedEffect, SentRecord
    <2>2. Last'
      BY <2>1 DEF Last, InUse, Within, Talks, Asked, Course
    <2>3. LastSaved'
      BY <2>1 DEF LastSaved, Renewing, Waits
    <2> QED BY <2>1, <2>2, <2>3, SameTaleFacts, SendingAnswers DEF Talks, Opens
  <1>2. CASE TxrxSend \/ ErrorAlert \/ ManageSave
    <2>1. /\ Sending(tx') /\ SameTale /\ prl'.key = prl.key /\ Reserve' = Reserve
          /\ prl'.save_slave = prl.save_slave /\ prl'.negotiated = prl.negotiated
          /\ prl'.handler = prl.handler
          /\ \/ prl.state = "TXRX" /\ prl'.state = "VERIFY"
             \/ /\ prl.state = "ERROR" /\ prl.alert = "INTEGRITY" /\ prl'.state = "VERIFY"
                /\ tx'.type = "alert"
             \/ /\ prl.state = "MANAGE_CONTEXT" /\ prl.mc_state = "TX"
                /\ prl'.state = "MANAGE_CONTEXT" /\ i2c.manage = "SAVE"
      <3>1. CASE TxrxSend
        BY <3>1, TxrxSendEffect DEF SameStory, SameTale
      <3>2. CASE ErrorAlert
        <4>1. Alert("alert").type = "alert"
          BY RecordFacts DEF Types
        <4> QED BY <3>2, <4>1, ErrorAlertEffect, SentRecord, SameTaleFacts, SameReserve DEF Unmoved
      <3>3. CASE ManageSave
        BY <3>3, SaveEffect, SentRecord, SameTaleFacts, SameReserve DEF Unmoved
      <3> QED BY <1>2, <3>1, <3>2, <3>3
    <2>2. /\ event.phase = "loop" /\ event'.phase = "none" /\ dev' = dev
          /\ tl = "idle" /\ tl' = "exchange" /\ i2c'.manage = i2c.manage
          /\ i2c'.level = i2c.level /\ i2c.reset_state = "none"
      BY <2>1 DEF Sending
    <2>3. InUse' => InUse
      BY <2>1, <2>2 DEF InUse, Within, Alive, Broken, Renewing, Waits, Handling, Talks
    <2>4. Asking => Asking' /\ Done' = Done
      BY <2>1, <2>2 DEF Asking, Result, Unread, Sent, Done, SameTale
    <2>5. Last'
      BY <2>1, <2>2, <2>3, <2>4 DEF Answers, Last, Newer, SameTale
    <2>6. LastSaved'
      BY <2>1, <2>2, LastSavedKept DEF Answers, SameTale, Renewing, Waits
    <2> QED BY <2>1, <2>5, <2>6, SendingAnswers DEF Talks, Opens
  <1>3. CASE ManageRestore
    <2>1. /\ Sending(tx') /\ hist' = hist /\ dev' = dev
          /\ prl.state = "MANAGE_CONTEXT" /\ prl'.state = "MANAGE_CONTEXT"
          /\ prl'.mc_state = "RX" /\ i2c'.manage = "RESTORE" /\ prl'.handler = prl.handler
          /\ Reserve.stored /\ ~Reserve'.stored
          /\ prl'.saved.key = Reserve.key /\ prl'.saved.slave = Reserve.slave
      BY <1>3, RestoreEffect, SentRecord DEF Sending
    <2>2. Last'
      BY <2>1 DEF Last, InUse, Renewing, Waits
    <2>3. LastSaved'
      BY <2>1 DEF Answers, LastSaved
    <2> QED BY <2>1, <2>2, <2>3, SameTaleFacts, SendingAnswers DEF Talks, Opens
  <1> QED BY <1>1, <1>2, <1>3

\* The steps between two passes of the handler.
LEMMA CalmAnswers ==
  ASSUME SInv, Answers, Rests(dev, dev'), answer'.type = "none",
         hist'.lost = hist.lost, Reserve' = Reserve, ~Renewing', ~Talks', Last', Ended'
  PROVE  Answers'
  <1>1. Distinct'
    BY DistinctKept DEF Answers
  <1>2. LastSaved'
    BY LastSavedKept DEF Answers, Rests, Remembers
  <1>3. Received' /\ Renewed'
    BY DEF Received, Result, Renewed
  <1> QED BY <1>1, <1>2, <1>3 DEF Answers

LEMMA EndsAnswers ==
  ASSUME SInv, Asked, Story, Answers, EnterError \/ Idle \/ HandlerReturns PROVE Answers'
  <1>1. CASE EnterError
    <2>1. /\ event.phase = "error" /\ event'.phase = "loop" /\ answer' = answer
          /\ i2c' = i2c /\ tl = "idle" /\ dev' = dev /\ hist' = hist
          /\ prl'.key = prl.key /\ prl'.handler = prl.handler
          /\ prl'.save_slave = prl.save_slave
          /\ prl'.state = "ERROR" /\ prl'.alert = "INVALID"
          /\ (prl'.negotiated => prl.negotiated /\ event.status = "MEM_ERROR")
          /\ Reserve' = Reserve
      BY <1>1, EnterErrorEffect, SameReserve DEF Unmoved
    <2>2. Last'
      <3>1. event.status = "MEM_ERROR" => prl.state = "VERIFY"
        BY <2>1 DEF Asked, Turn, Handling
      <3>2. InUse' => InUse /\ event.status = "MEM_ERROR"
        BY <2>1, <3>1 DEF InUse, Within, Talks, Alive, Broken, Renewing, Waits, Handling
      <3>3. event.status = "MEM_ERROR" => ~Asking
        BY <2>1, <3>1 DEF Asking, Result, Unread, Sent, Handling
      <3> QED BY <2>1, <3>2, <3>3 DEF Answers, Last, Newer
    <2>3. Ended'
      BY <2>1 DEF Answers, Ended, Genuine, Opens, Talks
    <2>4. Rests(dev, dev') /\ ~Renewing' /\ ~Talks'
      BY <2>1, RestsFacts DEF Renewing, Waits, Talks
    <2>5. Distinct' /\ LastSaved' /\ Received' /\ Renewed'
      BY <2>1, <2>4, DistinctKept, LastSavedKept DEF Answers, Received, Result, Renewed
    <2> QED BY <2>2, <2>3, <2>5 DEF Answers
  <1>2. CASE Idle \/ HandlerReturns
    <2>1. /\ prl.state = "IDLE" /\ prl' = prl /\ store' = store /\ answer'.type = "none"
          /\ event.phase \in {"loop", "report"} /\ event'.phase # "loop" /\ tl = "idle"
          /\ i2c'.reset_state = i2c.reset_state /\ i2c'.level = i2c.level
          /\ i2c'.re_establish = i2c.re_establish /\ i2c'.manage = i2c.manage
      BY <1>2, IdleEffect, ReturnsEffect
    <2>2. dev' = dev \/ dev' = DeviceOff(dev)
      BY <1>2, IdleEffect, ReturnsEffect
    <2>3. Rests(dev, dev') /\ (dev' = dev \/ dev'.on = FALSE)
      BY <2>2, Parts, RestsFacts, ResetRemembers
    <2>4. /\ hist'.current = hist.current /\ hist'.lost = hist.lost
          /\ hist'.odd = hist.odd /\ hist'.accepted = hist.accepted
      BY <1>2, IdleEffect, ReturnsEffect, ToldKeeps
    <2>5. Last'
      <3>1. ~Asking
        BY <2>1 DEF Asking, Result, Unread, Sent
      <3>2. InUse' => InUse /\ dev' = dev
        BY <2>1, <2>3 DEF InUse, Within, Talks, Alive, Broken, Renewing, Waits, Handling
      <3> QED BY <2>1, <2>4, <3>1, <3>2 DEF Answers, Last, Newer
    <2>6. Ended'
      <3>1. hist'.outcome = "ok" => Genuine
        <4>1. CASE hist' = hist
          BY <4>1 DEF Answers, Ended
        <4>2. CASE hist' # hist
          <5>1. /\ hist' = Told(hist, prl.return_status) /\ hist.outcome = "pending"
                /\ hist' = [hist EXCEPT !.outcome =
                              IF prl.return_status = "SUCCESS" THEN "ok" ELSE "failed"]
                /\ event.phase = "loop"
            BY <1>2, <4>2, IdleEffect, ReturnsEffect DEF Told
          <5>2. hist'.outcome = IF prl.return_status = "SUCCESS" THEN "ok" ELSE "failed"
            BY <5>1, Parts DEF History
          <5> QED BY <2>1, <5>1, <5>2 DEF Answers, Ended, Handling
        <4> QED BY <4>1, <4>2
      <3> QED BY <2>1, <2>4, <3>1 DEF Ended, Genuine, Opens, Talks, Handling
    <2>7. Reserve' = Reserve /\ ~Renewing' /\ ~Talks'
      BY <2>1 DEF Reserve, Context, Renewing, Waits, Talks
    <2> QED BY <2>1, <2>3, <2>4, <2>5, <2>6, <2>7, CalmAnswers
  <1> QED BY <1>1, <1>2

LEMMA CallsAnswers ==
  ASSUME SInv, Asked, Story, Answers,
         \/ \E manage \in {"NONE", "RESTORE"} : CommsOpen(manage)
         \/ \E type \in {"COLD", "WARM", "SOFT"} : CommsReset(type)
         \/ \E manage \in {"NONE", "SAVE"} : CommsClose(manage)
  PROVE  Answers'
  <1>1. /\ Rests(dev, dev) /\ Rests(dev, DeviceReset(dev)) /\ Rests(dev, DeviceOff(dev))
        /\ DeviceOff(dev).on = FALSE
    BY Parts, RestsFacts, ResetRemembers
  <1>2. CASE \E manage \in {"NONE", "RESTORE"} : CommsOpen(manage)
    <2>1. /\ Calls /\ event' = event /\ prl' = prl /\ hist' = hist /\ i2c'.level = i2c.level
          /\ i2c'.re_establish = i2c.re_establish
          /\ i2c'.reset_state = "PIN_HIGH" /\ dev' = DeviceOff(dev)
      BY <1>2, OpenEffect
    <2>2. Reserve' = Reserve /\ answer'.type = "none"
      BY <2>1 DEF Calls, Reserve, Context, answer
    <2>3. Last'
      BY <2>1 DEF Last, InUse, Alive
    <2>4. Ended'
      BY <2>1 DEF Calls, Answers, Ended, Genuine, Handling, Opens, Talks
    <2> QED BY <1>1, <2>1, <2>2, <2>3, <2>4, CalmAnswers DEF Calls, Renewing, Waits, Talks
  <1>3. CASE \E type \in {"COLD", "WARM", "SOFT"} : CommsReset(type)
    <2>1. PICK type \in {"COLD", "WARM", "SOFT"} : CommsReset(type)
      BY <1>3
    <2>2. /\ Calls /\ event' = event /\ prl.state = "IDLE" /\ hist' = hist
          /\ i2c'.level = i2c.level /\ i2c'.re_establish = i2c.re_establish
          /\ \/ Initialises /\ dev' = DeviceReset(dev)
             \/ /\ prl' = prl /\ i2c'.reset_state = "PIN_HIGH"
                /\ dev' \in {DeviceOff(dev), DeviceReset(dev)}
      BY <2>1, ResetEffect
    <2>3. Reserve' = Reserve /\ answer'.type = "none" /\ prl'.state = "IDLE"
      BY <2>2 DEF Calls, Reserve, Context, answer, Initialises
    <2>4. Last'
      BY <2>2 DEF Last, InUse, Alive, Initialises, Within, Talks
    <2>5. Ended'
      BY <2>2, <2>3 DEF Calls, Answers, Ended, Genuine, Handling, Opens, Talks
    <2> QED BY <1>1, <2>2, <2>3, <2>4, <2>5, CalmAnswers DEF Renewing, Waits, Talks
  <1>4. CASE \E manage \in {"NONE", "SAVE"} : CommsClose(manage)
    <2>1. PICK manage \in {"NONE", "SAVE"} : CommsClose(manage)
      BY <1>4
    <2>2. /\ Calls /\ hist' = hist /\ Reserve' = Reserve /\ answer'.type = "none"
          /\ i2c'.level = i2c.level /\ i2c'.re_establish = i2c.re_establish /\ tl' = tl
          /\ prl'.key = prl.key /\ prl'.negotiated = prl.negotiated
          /\ prl'.save_slave = prl.save_slave
      BY <2>1, CloseEffect
    <2>3. \/ prl'.state \in {"IDLE", "UNINIT"} /\ dev' = DeviceOff(dev) /\ event'.phase # "loop"
          \/ /\ prl'.state = "MANAGE_CONTEXT" /\ prl'.mc_state = "TX" /\ dev' = dev
             /\ prl'.handler = "close"
      BY <2>1, CloseEffect
    <2>4. Last'
      <3>1. ~Asking
        BY <2>2 DEF Calls, Asking, Result, Unread, Sent, Handling
      <3>2. InUse' => InUse /\ dev' = dev
        BY <1>1, <2>2, <2>3
           DEF InUse, Within, Talks, Alive, Broken, Renewing, Waits, Handling, Calls
      <3> QED BY <2>2, <3>1, <3>2 DEF Answers, Last, Newer
    <2>5. Ended'
      BY <2>2, <2>3 DEF Answers, Ended, Genuine, Handling, Opens, Talks
    <2> QED BY <1>1, <2>2, <2>3, <2>4, <2>5, CalmAnswers DEF Renewing, Waits, Talks
  <1> QED BY <1>2, <1>3, <1>4

LEMMA TimerAnswers == ASSUME SInv, Asked, Story, Answers, InitTimer PROVE Answers'
  <1>1. /\ answer' = answer /\ answer.type = "none" /\ hist' = hist /\ tl = "idle"
        /\ event.phase = "none" /\ event' = event /\ i2c'.level = i2c.level
        /\ i2c'.manage = i2c.manage /\ i2c'.re_establish = i2c.re_establish
    BY TimerEffect DEF answer
  <1>2. CASE /\ prl' = prl /\ store' = store /\ i2c'.reset_state = "INIT"
             /\ dev' = [dev EXCEPT !.on = TRUE]
    <2>1. Rests(dev, dev') /\ Reserve' = Reserve
      BY <1>2, RestsFacts DEF Reserve, Context
    <2>2. Last'
      BY <1>2 DEF Last, InUse, Alive
    <2>3. Renewing' = Renewing /\ Talks' = Talks /\ Opens' = Opens
      BY <1>1, <1>2 DEF Renewing, Waits, Talks, Opens
    <2>4. Distinct'
      BY <1>1, <2>1, DistinctKept DEF Answers
    <2>5. LastSaved'
      BY <1>1, <1>2, <2>1, <2>3 DEF Answers, LastSaved, Rests, Remembers
    <2>6. Received' /\ Renewed'
      BY <1>1, <1>2, <2>3 DEF Answers, Received, Result, Renewed, Done, Handling
    <2>7. Ended'
      BY <1>1, <1>2, <2>3 DEF Answers, Ended, Genuine, Handling
    <2> QED BY <2>2, <2>4, <2>5, <2>6, <2>7 DEF Answers
  <1>3. CASE Initialises /\ dev' = dev
    <2>1. Rests(dev, dev') /\ ~Renewing' /\ ~Talks' /\ ~Opens'
      BY <1>3, RestsFacts DEF Initialises, Renewing, Waits, Talks, Opens
    <2>2. Last'
      BY <1>3, <2>1 DEF Last, InUse, Within, Initialises
    <2>3. Ended'
      BY <1>1, <1>3, <2>1 DEF Answers, Ended, Genuine, Handling, Initialises
    <2> QED BY <1>1, <1>3, <2>1, <2>2, <2>3, CalmAnswers DEF Initialises
  <1> QED BY <1>2, <1>3, TimerEffect

LEMMA TransceiveAnswers ==
  ASSUME SInv, Asked, Story, Answers, NEW level \in Levels, NEW re \in BOOLEAN,
         NEW manage \in {i2c.manage, "NONE"}, CommsTransceive(level, re, manage)
  PROVE  Answers'
  <1>1. /\ Calls /\ tl' = tl /\ dev' = dev /\ Unmoved /\ answer'.type = "none"
        /\ i2c'.reset_state = "none" /\ prl.state = "IDLE" /\ prl.handler = "tl"
        /\ prl'.negotiated = prl.negotiated /\ prl'.save_slave = prl.save_slave
        /\ \/ prl'.state = "START"
           \/ prl'.state = "MANAGE_CONTEXT" /\ prl'.mc_state = "TX"
        /\ hist'.lost = hist.lost /\ hist'.outcome = "pending"
    BY TransceiveEffect
  <1>2. Rests(dev, dev') /\ Reserve' = Reserve /\ ~Renewing' /\ ~Talks'
    BY <1>1, RestsFacts, SameReserve DEF Renewing, Waits, Talks
  <1>3. Last'
    <2>1. ~Asking
      BY <1>1 DEF Asking, Result, Unread, Sent
    <2>2. InUse' => InUse
      BY <1>1, <1>2 DEF InUse, Within, Alive, Broken, Renewing, Waits, Handling, Calls
    <2> QED BY <1>1, <2>1, <2>2 DEF Answers, Last, Newer, Unmoved
  <1>4. Ended'
    BY <1>1 DEF Ended
  <1> QED BY <1>1, <1>2, <1>3, <1>4, CalmAnswers

LEMMA InitDoneAnswers == ASSUME SInv, Asked, Story, Answers, TlInitDone PROVE Answers'
  <1>1. Begins
    BY InitDoneEffect
  <1>2. /\ Reserve' = Reserve /\ Renewing' = Renewing /\ Talks' = Talks /\ Opens' = Opens
        /\ Rests(dev, dev')
    BY <1>1, RestsFacts DEF Begins, Reserve, Context, Renewing, Waits, Talks, Opens
  <1>3. Distinct'
    BY <1>1, <1>2, DistinctKept DEF Answers, Begins
  <1>4. Last'
    <2>1. InUse' => InUse
      BY <1>1, <1>2 DEF Begins, InUse, Within, Alive, Broken, Handling
    <2>2. Asking => Asking' /\ Done' = Done
      BY <1>1 DEF Begins, Asking, Result, Unread, Sent, Done, Handling
    <2> QED BY <1>1, <2>1, <2>2 DEF Begins, Answers, Last, Newer
  <1>5. LastSaved'
    BY <1>1, <1>2 DEF Begins, Answers, LastSaved
  <1>6. Received' /\ Renewed'
    BY <1>1, <1>2 DEF Begins, Answers, Received, Result, Renewed, Done, Handling
  <1>7. Ended'
    <2>1. hist.outcome # "pending"
      BY <1>1 DEF Begins, Story
    <2> QED BY <1>1, <1>2, <2>1 DEF Begins, Answers, Ended, Genuine
  <1> QED BY <1>3, <1>4, <1>5, <1>6, <1>7 DEF Answers

LEMMA DoesNewest ==
  ASSUME NEW d \in Device, Newest(d), NEW m, NEW e, NEW b, Does(d, m, e, b)
  PROVE  Newest(e) /\ (Confirms(d, m, e, b) => e.last.key # b.key)
  <1>1. d.sessions \in Nat /\ d.pending \in Nat /\ d.key \in Nat /\ d.saved_key \in Nat
        /\ d.last.key \in Nat
    BY DEF Device, Records
  <1>2. CASE Greets(d, m, e, b)
    BY <1>1, <1>2 DEF Greets, Confirms, Newest
  <1>3. CASE Confirms(d, m, e, b)
    BY <1>1, <1>3 DEF Confirms, Newest
  <1>4. CASE Runs(d, m, e, b) \/ Resends(d, m, e, b)
    BY <1>1, <1>4 DEF Runs, Resends, Responds, Confirms, Newest
  <1>5. CASE Objects(d, m, e, b)
    BY <1>5 DEF Objects, Confirms, Newest
  <1>6. CASE Keeps(d, m, e, b) \/ Restores(d, m, e, b) \/ Complains(d, m, e, b)
    BY <1>1, <1>6 DEF Keeps, Restores, Complains, Remembers, Confirms, Newest
  <1> QED BY <1>2, <1>3, <1>4, <1>5, <1>6 DEF Does

\* Only a command, or the alert that asks for its answer, makes the device
\* answer anew.
LEMMA DoesLast ==
  ASSUME NEW d, NEW m, NEW e, NEW b, Does(d, m, e, b), m.type \notin {"data", "alert"}
  PROVE  e.last = d.last /\ b.type # "data"
  BY DEF Does, Greets, Confirms, Runs, Objects, Resends, Keeps, Restores, Complains, Responds,
         Remembers

\* What an exchange leaves of the history.
LEMMA TaleFacts ==
  ASSUME SInv, NEW m, NEW b, Takes_place(m, b)
  PROVE  /\ hist'.current = hist.current /\ hist'.outcome = hist.outcome
         /\ hist'.accepted = hist.accepted /\ (hist.odd => hist'.odd)
         /\ hist.lost \subseteq hist'.lost
         /\ hist'.lost = hist.lost \/ (b.type = "data" /\ hist'.lost = hist.lost \cup {b.of})
  BY DEF Takes_place, Arrives, Damages, Swaps, Misses, Marks

\* In VERIFY, the device answers anew, or it objects to a record that was
\* damaged on its way.
LEMMA VerifyDoes ==
  ASSUME SInv, Asked, Once, Agrees, Story, tl = "exchange", prl.state = "VERIFY",
         NEW m, NEW b, Takes_place(m, b)
  PROVE  \/ /\ dev'.last = b /\ b.type = "data" /\ b.level = dev'.last.level
            /\ (Done => b.of = hist.current)
            /\ b.key = IF ProtectsSlave(i2c.level) THEN dev.key ELSE 0
         \/ /\ dev' = dev /\ b.type = "integrity" /\ tx.type = "data"
            /\ answer' = b /\ hist' = hist
  <1>1. /\ SameRecord(m, tx) /\ Does(dev, m, dev', b)
    BY DEF Takes_place
  <1>2. hist.outcome = "ok" => dev.executed = hist.current
    BY DEF Story
  <1>3. CASE Sent("data") /\ Runs(dev, m, dev', b)
    <2>1. m.level = i2c.level /\ m.of = tx.of
      BY <1>1, <1>3 DEF SameRecord, Asked, Turn, Sent
    <2>2. Done => dev'.executed = hist.current
      BY <1>2, <1>3, <2>1 DEF Done, Runs, Once, Sealing, Talks
    <2> QED BY <1>3, <2>1, <2>2 DEF Runs, Responds
  <1>4. CASE Sent("data") /\ Objects(dev, m, dev', b) /\ m # tx
    BY <1>4 DEF Objects, Sent, Takes_place, Arrives, Damages, Swaps, Misses
  <1>5. CASE Sent("alert") /\ Resends(dev, m, dev', b)
    <2>1. Done => dev'.executed = hist.current
      BY <1>2, <1>5 DEF Done, Resends, Agrees, Ordered
    <2> QED BY <1>5, <2>1 DEF Resends, Responds, Agrees, Ordered, Ready
  <1> QED BY <1>1, <1>3, <1>4, <1>5, TalkingDoes

LEMMA ExchangeAnswers ==
  ASSUME SInv, Asked, Once, Agrees, Story, Answers,
         TlAnswered \/ TlDamaged \/ TlStrange \/ TlFailed
  PROVE  Answers'
  <1>1. Ends /\ (Breaks \/ \E m \in Records, b \in Records : Takes_place(m, b))
    BY ExchangeEffect
  <1>2. /\ prl' = prl /\ i2c' = i2c /\ event.phase = "none" /\ tl = "exchange" /\ tl' = "idle"
        /\ prl.state \in {"MANAGE_CONTEXT", "VERIFY", "HANDSHAKE"}
        /\ (prl.state = "MANAGE_CONTEXT" => prl.mc_state = "RX")
        /\ (prl.state = "VERIFY" <=> tx.type \in {"data", "alert"})
        /\ Reserve' = Reserve /\ Renewing' = Renewing /\ Talks' = Talks /\ Opens' = Opens
        /\ i2c.reset_state = "none"
    BY <1>1 DEF Ends, Asked, Turn, Reserve, Context, Renewing, Waits, Talks, Opens
  <1>3. CASE Breaks
    <2>1. Distinct'
      BY <1>2, <1>3, RestsFacts, DistinctKept DEF Breaks, Answers
    <2>2. Last'
      BY <1>3 DEF Breaks, Last, InUse, Broken, Handling
    <2>3. LastSaved'
      BY <1>2, <1>3 DEF Breaks, Answers, LastSaved
    <2>4. Received' /\ Renewed'
      BY <1>3 DEF Breaks, Received, Result, Renewed, Handling
    <2>5. Ended'
      BY <1>2, <1>3 DEF Breaks, Answers, Ended, Genuine, Handling
    <2> QED BY <2>1, <2>2, <2>3, <2>4, <2>5 DEF Answers
  <1>4. CASE \E m \in Records, b \in Records : Takes_place(m, b)
    <2>1. PICK m \in Records, b \in Records : Takes_place(m, b)
      BY <1>4
    <2>2. /\ m.type = tx.type /\ Does(dev, m, dev', b) /\ dev.on /\ dev'.on = dev.on
      BY <2>1, DoesAsked DEF Takes_place, SameRecord
    <2>3. Distinct'
      <3>1. Newest(dev') /\ (Confirms(dev, m, dev', b) => dev'.last.key # b.key)
        BY <2>2, Parts, DoesNewest DEF Answers, Distinct
      <3>2. answer'.type = "finished" /\ answer'.intact =>
              Confirms(dev, m, dev', b) /\ answer'.key = b.key
        <4>1. b.type = "finished" => Confirms(dev, m, dev', b)
          BY <2>2 DEF Does, Greets, Runs, Objects, Resends, Keeps, Restores, Complains, Responds
        <4> QED BY <2>1, <4>1, ArrivedFacts
      <3> QED BY <1>2, <3>1, <3>2 DEF Distinct
    <2>4. Ended'
      <3>1. (hist.accepted \in hist.lost => hist'.accepted \in hist'.lost)
            /\ hist'.current = hist.current /\ hist'.outcome = hist.outcome
            /\ hist'.accepted = hist.accepted /\ (hist.odd => hist'.odd)
        BY <2>1, TaleFacts
      <3>2. prl.state # "IDLE"
        BY <1>2
      <3> QED BY <1>2, <3>1, <3>2 DEF Answers, Ended, Genuine
    <2>5. CASE prl.state # "VERIFY"
      <3>1. dev'.last = dev.last /\ hist'.lost = hist.lost
        BY <1>2, <2>1, <2>2, <2>5, DoesLast, TaleFacts
      <3>2. ~Asking /\ ~Talks
        BY <1>2, <2>5 DEF Asking, Result, Unread, Sent, Talks
      <3>3. Last'
        <4>1. InUse' => InUse
          BY <1>2, <2>2, <3>2 DEF InUse, Within, Alive, Broken, Handling
        <4> QED BY <1>2, <3>1, <3>2, <4>1 DEF Answers, Last, Newer
      <3>4. LastSaved'
        BY <1>2, <3>1 DEF Answers, LastSaved
      <3>5. Received' /\ Renewed'
        BY <1>2, <2>5, <3>2 DEF Received, Result, Renewed
      <3> QED BY <2>3, <2>4, <3>3, <3>4, <3>5 DEF Answers
    <2>6. CASE prl.state = "VERIFY"
      <3>1. /\ ~Renewing /\ Talks /\ ~Handling("error") /\ (Done' <=> Done)
            /\ (InUse' => InUse)
        BY <1>2, <2>1, <2>2, <2>6, TaleFacts
           DEF Renewing, Waits, Talks, Handling, Done, InUse, Within, Alive, Broken
      <3>2. i2c.level # "NO" => InUse /\ dev.key = prl.key /\ prl.key # 0
        BY <1>2, <3>1
           DEF Asked, Confirmed, Agrees, Shared, Behind, InUse, Within, Alive, Broken, Handling
      <3>3. ProtectsSlave(i2c.level) => i2c.level # "NO"
        BY DEF ProtectsSlave
      <3>4. CASE /\ dev' = dev /\ b.type = "integrity" /\ tx.type = "data"
                 /\ answer' = b /\ hist' = hist
        <4>1. ~Asking
          BY <1>2, <2>6, <3>4 DEF Asking, Result, Unread, Sent, Handling
        <4>2. Last'
          BY <1>2, <3>1, <3>4, <4>1 DEF Answers, Last, Newer
        <4>3. LastSaved'
          BY <1>2, <3>4 DEF Answers, LastSaved
        <4>4. Received'
          BY <3>4 DEF Received, Result
        <4>5. Renewed'
          BY <1>2, <3>1, <3>4 DEF Answers, Renewed
        <4> QED BY <2>3, <2>4, <4>2, <4>3, <4>4, <4>5 DEF Answers
      <3>5. CASE /\ dev'.last = b /\ b.type = "data" /\ (Done => b.of = hist.current)
                 /\ b.key = IF ProtectsSlave(i2c.level) THEN dev.key ELSE 0
        <4>1. /\ hist'.current = hist.current /\ hist.lost \subseteq hist'.lost
              /\ hist'.lost \in {hist.lost, hist.lost \cup {b.of}}
          BY <2>1, TaleFacts
        <4>2. Last'
          <5>1. CASE Arrives(m, b) \/ Damages(m, b)
            <6>1. Asking'
              BY <1>2, <2>6, <3>5, <5>1 DEF Arrives, Damages, Garbles, Asking, Result, Handling
            <6> QED BY <3>1, <3>5, <4>1, <6>1 DEF Last
          <5>2. CASE Swaps(m, b) \/ Misses(m, b)
            <6>1. b.of \in hist'.lost \/ Broken'
              BY <3>5, <5>2 DEF Swaps, Misses, Marks, Broken, Handling
            <6> QED BY <3>5, <6>1 DEF Last, InUse
          <5> QED BY <2>1, <5>1, <5>2 DEF Takes_place
        <4>3. LastSaved'
          <5>1. Reserve.stored => Reserve.key # 0 /\ Reserve.key # prl.key
            BY Parts DEF Asked, Confirmed, Numbers, Reserve
          <5> QED BY <1>2, <3>1, <3>2, <3>3, <3>5, <5>1 DEF LastSaved
        <4>4. Received'
          <5>1. ~ProtectsSlave(i2c.level) => b.key = 0
            BY <3>5
          <5>2. ASSUME Result', ProtectsSlave(i2c.level), answer'.intact
                PROVE  /\ answer'.seq = b.seq \/ b.of \in hist'.lost
                       /\ Newer(answer') => \/ answer'.of \in hist'.lost /\ hist'.odd
                                            \/ Done => answer'.of = hist.current
            <6>1. CASE Arrives(m, b)
              BY <3>5, <6>1 DEF Arrives
            <6>2. CASE Damages(m, b)
              BY <5>2, <6>2 DEF Damages, Garbles
            <6>3. CASE Swaps(m, b)
              <7>1. b.of \in hist'.lost /\ hist'.odd
                BY <3>5, <6>3 DEF Swaps, Marks
              <7>2. CASE answer'.of = b.of
                BY <7>1, <7>2
              <7>3. CASE answer' = dev.last
                BY <3>2, <3>3, <4>1, <5>2, <7>1, <7>3 DEF Answers, Last
              <7> QED BY <5>2, <6>3, <7>2, <7>3 DEF Swaps, Odd, Result
            <6>4. CASE Misses(m, b)
              BY <5>2, <6>4 DEF Misses, Result
            <6> QED BY <2>1, <6>1, <6>2, <6>3, <6>4 DEF Takes_place
          <5> QED BY <1>2, <3>1, <3>5, <4>1, <5>1, <5>2 DEF Received, Newer
        <4>5. Renewed'
          BY <1>2, <3>1, <3>5, <4>1 DEF Answers, Renewed
        <4> QED BY <2>3, <2>4, <4>2, <4>3, <4>4, <4>5 DEF Answers
      <3> QED BY <1>2, <2>1, <2>6, <3>4, <3>5, VerifyDoes
    <2> QED BY <2>5, <2>6
  <1> QED BY <1>1, <1>3, <1>4

LEMMA SameAnswers == ASSUME Answers, UNCHANGED vars PROVE Answers'
  <1>1. Distinct' /\ LastSaved' /\ Received'
    BY DEF Answers, Distinct, LastSaved, Received, Renewing, Waits, Result, Newer, Done, Reserve,
           Context, Handling, answer, vars
  <1>2. InUse' = InUse /\ Asking' = Asking /\ Talks' = Talks /\ Opens' = Opens
    BY DEF InUse, Within, Alive, Broken, Renewing, Waits, Asking, Result, Unread, Sent, Talks,
           Opens, Handling, answer, vars
  <1>3. Last'
    BY <1>2 DEF Answers, Last, Newer, Done, vars
  <1>4. Renewed' /\ Ended'
    BY <1>2 DEF Answers, Renewed, Ended, Genuine, Done, Handling, vars
  <1> QED BY <1>1, <1>3, <1>4 DEF Answers

LEMMA InitAnswers == ASSUME Init PROVE Answers
  <1>1. /\ prl.state = "UNINIT" /\ prl.key = 0 /\ prl.saved = NoContext /\ store = NoContext
        /\ hist.outcome = "none"
    BY DEF Init
  <1>2. dev.pending = 0 /\ dev.key = 0 /\ dev.saved_key = 0 /\ dev.sessions = 0
        /\ dev.last = NoRecord
    BY DEF Init
  <1>3. ~Reserve.stored
    BY <1>1, NoContextFacts DEF Reserve, Context
  <1>4. NoRecord.key = 0
    BY DEF NoRecord, Record
  <1>5. Distinct
    BY <1>1, <1>2, <1>4 DEF Distinct, Newest
  <1> QED BY <1>1, <1>3, <1>5
      DEF Answers, Last, LastSaved, Received, Renewed, Ended, Renewing, Waits, Result, Talks, Opens

LEMMA NextAnswers ==
  ASSUME SInv, Asked, Asked', Once, Agrees, Story, Answers, [Next]_vars PROVE Answers'
  <1>1. CASE Handler
    <2>1. CASE EnterError \/ Idle \/ Start \/ HandlerReturns
      BY <2>1, EndsAnswers, LoopAnswers
    <2>2. CASE \/ HandshakeStoreFails \/ SendHello \/ HelloAccepted \/ HelloRefused
               \/ HelloFails \/ FinishedAccepted \/ FinishedRefused
      BY <2>2, StoreFailsCloses, HelloCloses, FinishedCloses, ClosesAnswers, SendsAnswers,
         FinishedAnswers
    <2>3. CASE TxrxRenegotiate \/ TxrxSend \/ TxrxFails
      BY <2>3, LoopAnswers, SendsAnswers, TxrxCloses, ClosesAnswers
    <2>4. CASE \/ VerifyRejected \/ VerifyAlert \/ VerifyUnreadable \/ VerifyAccepted
               \/ VerifyPlainShort \/ VerifyPlain
      BY <2>4, VerifyCloses, ClosesAnswers, LookedAnswers, AcceptedAnswers
    <2>5. CASE AlertRepeat \/ AlertEnds \/ ErrorAlert \/ ErrorEnds
      BY <2>5, LoopAnswers, SendsAnswers
    <2>6. CASE \/ ManageReestablish \/ ManageSave \/ ManageNothingSaved \/ ManageRestore
               \/ ManageStoreFails \/ ManageRestored \/ ManageSaved \/ ManageSaveFails
               \/ ManageRefused
      BY <2>6, ManageAnswers, SendsAnswers, ManageStoreCloses, ManageEndCloses, ClosesAnswers
    <2> QED BY <1>1, <2>1, <2>2, <2>3, <2>4, <2>5, <2>6 DEF Handler
  <1>2. CASE UpperLayer
    <2>1. ASSUME NEW ask \in Asks, NEW manage \in {i2c.manage, "NONE"},
                 CommsTransceive(ask[1], ask[2], manage)
          PROVE  Answers'
      <3>1. ask[1] \in Levels /\ ask[2] \in BOOLEAN
        BY ChoiceAssumption DEF Levels
      <3> QED BY <2>1, <3>1, TransceiveAnswers
    <2> QED BY <1>2, <2>1, CallsAnswers DEF UpperLayer
  <1>3. CASE InitTimer
    BY <1>3, TimerAnswers
  <1>4. CASE Transport
    BY <1>4, InitDoneAnswers, ExchangeAnswers DEF Transport
  <1>5. CASE UNCHANGED vars
    BY <1>5, SameAnswers
  <1> QED BY <1>1, <1>2, <1>3, <1>4, <1>5 DEF Next

\* A success under response protection hands up the answer to this very
\* command, which the device has executed: for any number of requests, faults
\* and answers out of turn, through new, saved and restored sessions.  The one
\* exception is the answer that had been lost, and then only when the device
\* spoke out of turn during this request and no new session was asked for.
THEOREM SessionGenuineAnswer == Spec => []GenuineAnswer
  <1>1. Init => AInv /\ Answers
    BY InitSInv, InitAsked, InitOnce, InitAgrees, InitStory, InitAnswers DEF AInv
  <1>2. (AInv /\ Answers) /\ AInv' /\ [Next]_vars => Answers'
    BY NextAnswers DEF AInv
  <1>3. AInv /\ Answers => GenuineAnswer
    BY DEF AInv, Story, Answers, Ended, Genuine, GenuineAnswer
  <1>4. Spec => [](AInv /\ Answers)
    BY <1>1, <1>2, SessionStory, PTL DEF Spec
  <1> QED BY <1>3, <1>4, PTL

=============================================================================
