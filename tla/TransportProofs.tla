--------------------------- MODULE TransportProofs ---------------------------
(***************************************************************************)
(* Theorems about the transport layer, for every size of a fragment, every *)
(* set of lengths and buffers and any number of exchanges and faults.      *)
(***************************************************************************)
EXTENDS Transport, TLAPS

-----------------------------------------------------------------------------
(* The inductive invariant                                                  *)

\* What the data link does is what the state waits for, and a silent
\* acknowledgement meets the state that sends.
Expected ==
  /\ dl = "tx" => tl.state = "TX"
  /\ dl = "rx" => tl.state = "RX"
  /\ event.kind \in {"rx", "txrx"} => data_len # 0
  /\ event.kind = "tx" => tl.state = "TX" /\ data_len = 0 /\ chaining = "NO"

TInv == TransportTypeOK /\ Usable /\ Expected

-----------------------------------------------------------------------------
(* Facts about the operators                                                *)

LEMMA LesserFacts ==
  ASSUME NEW a \in Nat, NEW b \in Nat
  PROVE  /\ Lesser(a, b) \in Nat /\ Lesser(a, b) <= a /\ Lesser(a, b) <= b
         /\ a # 0 /\ b # 0 => Lesser(a, b) # 0
  BY DEF Lesser

\* A fragment never reaches beyond the end of its message.
LEMMA FragmentFacts ==
  ASSUME NEW of \in Nat, NEW offset \in Nat, NEW length \in Nat, offset <= length
  PROVE  /\ FragmentAt(of, offset, length) \in Fragment
         /\ FragmentAt(of, offset, length).len <= MaxPacket
         /\ offset + FragmentAt(of, offset, length).len <= length
  <1> DEFINE n == Lesser(MaxPacket, length - offset)
  <1>1. n \in Nat /\ n <= MaxPacket /\ n <= length - offset
    BY SizeAssumption, LesserFacts
  <1>2. calculate_pctr(offset, length) \in Chain
    BY DEF calculate_pctr, Chain
  <1> QED BY <1>1, <1>2 DEF FragmentAt, Fragment

LEMMA BlankFacts ==
  /\ BlankFragment \in Fragment /\ BlankFragment.len = 0 /\ BlankFragment.chain = "NO"
  /\ ChainingError \in Fragment /\ ChainingError.len = 0
  BY DEF BlankFragment, ChainingError, Fragment, Chain

TL == [state : States, packet_offset : Nat, actual_packet_length : Nat,
       rx_size : Nat, total_recv_length : Nat, previous_chaining : Chain,
       transmission_completed : BOOLEAN, chaining_error_count : Nat,
       master_chaining_error_count : Nat, error_event : Errors,
       initialization_state : BOOLEAN]
Device == [prev : Chain, got : Nat, sound : BOOLEAN, complains : BOOLEAN, of : Nat,
           length : Nat, sent : Nat, executed : Nat, times : 0 .. 2, whole : BOOLEAN]
Events == [kind : {"none", "tx", "rx", "txrx", "error"}, frame : Fragment,
           data_len : 0 .. MaxPacket + 1]
History == [current : Nat, outcome : {"none", "pending", "ok", "doubtful", "failed"},
            reported : {"none", "SUCCESS"} \cup Errors, length : Nat, sound : BOOLEAN,
            repeated_tx : SUBSET Chain, repeated_rx : SUBSET Chain, odd : BOOLEAN]

LEMMA NoEventFacts ==
  /\ NoEvent \in Events /\ NoEvent.kind = "none" /\ NoEvent.data_len = 0
  /\ \A k \in {"tx", "error"} :
        /\ Silent(k) \in Events /\ Silent(k).kind = k /\ Silent(k).data_len = 0
        /\ Silent(k).frame.chain = "NO"
  BY BlankFacts, SizeAssumption DEF NoEvent, Silent, Events

LEMMA EventFacts ==
  ASSUME NEW k \in {"rx", "txrx"}, NEW f \in Fragment, f.len <= MaxPacket
  PROVE  /\ EventOf(k, f) \in Events
         /\ EventOf(k, f).kind = k /\ EventOf(k, f).data_len # 0
  BY SizeAssumption DEF EventOf, Events, Fragment

LEMMA SentFacts ==
  ASSUME NEW t \in TL, NEW number \in Nat, t.packet_offset <= t.actual_packet_length
  PROVE  /\ NextFragment(t, number) \in Fragment
         /\ FragmentSent(t, number) \in TL
         /\ FragmentSent(t, number).packet_offset <= t.actual_packet_length
         /\ FragmentSent(t, number)
              = [t EXCEPT !.packet_offset = FragmentSent(t, number).packet_offset]
  <1> DEFINE f == FragmentAt(number, t.packet_offset, t.actual_packet_length)
  <1>1. t.packet_offset \in Nat /\ t.actual_packet_length \in Nat
    BY DEF TL
  <1>2. f \in Fragment /\ t.packet_offset + f.len <= t.actual_packet_length
    BY <1>1, FragmentFacts
  <1>3. f.len \in Nat
    BY <1>2 DEF Fragment
  <1>4. FragmentSent(t, number) = [t EXCEPT !.packet_offset = t.packet_offset + f.len]
    BY DEF FragmentSent, NextFragment
  <1>5. FragmentSent(t, number).packet_offset = t.packet_offset + f.len
    BY <1>4 DEF TL
  <1>6. FragmentSent(t, number) \in TL
    BY <1>1, <1>3, <1>4 DEF TL
  <1> QED BY <1>2, <1>4, <1>5, <1>6 DEF NextFragment

-----------------------------------------------------------------------------
(* The device                                                               *)

LEMMA DeviceTakesFacts ==
  ASSUME NEW d \in Device, NEW f \in Fragment, NEW n \in AnswerLengths
  PROVE  DeviceTakes(d, f, n) \in Device
  <1> USE DEF Device
  <1>1. n \in Nat /\ f.len \in Nat /\ f.of \in Nat /\ f.chain \in Chain /\ f.from \in Nat
    BY SizeAssumption DEF Fragment
  <1>2. Refuses(d) \in Device
    BY DEF Refuses, Chain
  <1>3. [d EXCEPT !.sent = 0, !.complains = FALSE] \in Device
    OBVIOUS
  <1>4. Accepts(d, f, n) \in Device
    <2> DEFINE before == IF f.chain \in {"NO", "FIRST"} THEN 0 ELSE d.got
               sound  == f.from = before /\ (before = 0 \/ d.sound)
               taken  == [d EXCEPT !.got = before + f.len, !.sound = sound,
                                   !.complains = FALSE, !.of = 0]
               times  == IF d.executed = f.of THEN Again(d.times) ELSE 1
    <2>1. before + f.len \in Nat
      BY <1>1
    <2>2. sound \in BOOLEAN
      OBVIOUS
    <2>3. times \in 0 .. 2
      BY DEF Again
    <2> HIDE DEF before, sound, times
    <2>4. taken \in Device
      BY <2>1, <2>2
    <2> HIDE DEF taken
    <2>5. [taken EXCEPT !.prev = f.chain] \in Device
      BY <1>1, <2>4
    <2>6. [taken EXCEPT !.prev = "NO", !.of = f.of, !.length = n, !.sent = 0,
                        !.executed = f.of, !.whole = sound, !.times = times] \in Device
      BY <1>1, <2>2, <2>3, <2>4 DEF Chain
    <2> QED BY <2>5, <2>6 DEF Accepts, before, sound, taken, times
  <1> QED BY <1>2, <1>3, <1>4 DEF DeviceTakes

LEMMA DeviceSaysFacts ==
  ASSUME NEW d \in Device, HasToSay(d)
  PROVE  /\ Says(d) \in Fragment /\ Says(d).len <= MaxPacket
         /\ HasSaid(d) \in Device
  <1>1. d.of \in Nat /\ d.length \in Nat /\ d.sent \in Nat
    BY DEF Device
  <1>2. CASE d.complains
    <2>1. Says(d) = ChainingError /\ HasSaid(d) = [d EXCEPT !.complains = FALSE]
      BY <1>2 DEF Says, HasSaid
    <2>2. [d EXCEPT !.complains = FALSE] \in Device
      BY DEF Device
    <2>3. 0 <= MaxPacket
      BY SizeAssumption
    <2> QED BY <2>1, <2>2, <2>3, BlankFacts
  <1>3. CASE ~d.complains
    <2> DEFINE f == FragmentAt(d.of, d.sent, d.length)
               k == Lesser(MaxPacket, d.length - d.sent)
    <2>1. d.sent < d.length
      BY <1>3, Zenon DEF HasToSay
    <2>2a. d.length - d.sent \in Nat
      BY <1>1, <2>1
    <2>2b. k \in Nat
      BY <2>2a, LesserFacts, SizeAssumption
    <2>2. d.sent + k \in Nat
      BY <1>1, <2>2b
    <2>3. f \in Fragment /\ f.len <= MaxPacket
      BY <1>1, <2>1, FragmentFacts
    <2>4. Says(d) = f /\ HasSaid(d) = [d EXCEPT !.sent = d.sent + k]
      BY <1>3, Zenon DEF Says, HasSaid
    <2>5. [d EXCEPT !.sent = d.sent + k] \in Device
      BY <2>2 DEF Device
    <2> QED BY <2>3, <2>4, <2>5
  <1> QED BY <1>2, <1>3

-----------------------------------------------------------------------------
(* The four ways a step may go                                              *)

Bounded(t) == t.packet_offset <= t.actual_packet_length /\ t.total_recv_length <= t.rx_size

LEMMA TypeParts ==
  TransportTypeOK <=>
    /\ tl \in TL /\ Bounded(tl) /\ event \in Events
    /\ dl \in {"idle", "tx", "rx"} /\ dl_frame \in Fragment /\ dev \in Device
    /\ used \in [faults : 0 .. MaxFaults, inits : 0 .. MaxInits]
    /\ hist \in History
  BY DEF TransportTypeOK, TL, Bounded, Events, Device, History

\* While the handler runs the data link is idle and the exchange is open.
LEMMA HandlerFacts ==
  ASSUME TInv, Running
  PROVE  /\ dl = "idle" /\ hist.outcome = "pending"
         /\ tl \in TL /\ Bounded(tl) /\ hist \in History /\ event \in Events
         /\ data_len \in 0 .. MaxPacket + 1 /\ chaining \in Chain
         /\ Entered \in TL /\ Bounded(Entered)
         /\ Entered = [tl EXCEPT !.initialization_state = FALSE]
  <1>1. TransportTypeOK /\ Usable
    BY DEF TInv
  <1>2. tl \in TL /\ Bounded(tl) /\ hist \in History /\ event \in Events
    BY <1>1, TypeParts
  <1>3. dl = "idle" /\ hist.outcome = "pending"
    BY <1>1, Zenon DEF Usable, Running
  <1>4. data_len \in 0 .. MaxPacket + 1 /\ event.frame \in Fragment
    BY <1>2 DEF Events, data_len
  <1>5. chaining \in Chain
    BY <1>4 DEF Fragment, chaining
  <1>6. Entered \in TL /\ Bounded(Entered)
    BY <1>2 DEF Entered, TL, Bounded
  <1> QED BY <1>2, <1>3, <1>4, <1>5, <1>6 DEF Entered

\* The handler goes round its loop again.
LEMMA AgainStep ==
  ASSUME TInv, Running, event.kind # "tx",
         NEW t \in TL, Bounded(t), NEW s \in States, Again_in(t, s),
         UNCHANGED <<dev, used, hist>>
  PROVE  TInv'
  <1>1. tl' = [t EXCEPT !.state = s] /\ event' = event /\ dl' = dl /\ dl_frame' = dl_frame
        /\ dev' = dev /\ used' = used /\ hist' = hist
    BY DEF Again_in
  <1>2. TransportTypeOK /\ dl = "idle"
    BY HandlerFacts DEF TInv
  <1>3. tl' \in TL /\ Bounded(tl')
    BY <1>1 DEF TL, Bounded
  <1>4. TransportTypeOK'
    BY <1>1, <1>2, <1>3, TypeParts DEF TransportTypeOK, TL, Bounded
  <1>5. Usable'
    BY <1>1, HandlerFacts DEF Usable, Running
  <1>6. Expected'
    BY <1>1, <1>2 DEF TInv, Expected, data_len, chaining
  <1> QED BY <1>4, <1>5, <1>6 DEF TInv

\* The data link is given something to do.
LEMMA WaitStep ==
  ASSUME TInv, NEW s \in {"tx", "rx"},
         tl' \in TL, Bounded(tl'), tl'.state = IF s = "tx" THEN "TX" ELSE "RX",
         event' = NoEvent, dl' = s, dl_frame' \in Fragment,
         hist' \in History, hist'.outcome = "pending",
         UNCHANGED <<dev, used>>
  PROVE  TInv'
  <1>1. TransportTypeOK
    BY DEF TInv
  <1>2. dev' = dev /\ used' = used
    OBVIOUS
  <1>3. TransportTypeOK'
    BY <1>1, <1>2, NoEventFacts DEF TransportTypeOK, TL, Bounded, Events, Device, History
  <1>4. Usable'
    BY NoEventFacts DEF Usable, Running
  <1>5. Expected'
    BY NoEventFacts DEF Expected
  <1> QED BY <1>3, <1>4, <1>5 DEF TInv

\* The exchange ends.
LEMMA EndStep ==
  ASSUME TInv, tl' \in TL, Bounded(tl'), tl'.state = "IDLE",
         event' = NoEvent, dl' = "idle", dl_frame' \in Fragment, dev' \in Device,
         used' \in [faults : 0 .. MaxFaults, inits : 0 .. MaxInits],
         hist' \in History, hist'.outcome # "pending"
  PROVE  TInv'
  <1>1. TransportTypeOK'
    BY NoEventFacts DEF TransportTypeOK, TL, Bounded, Events, Device, History
  <1>2. Usable'
    BY NoEventFacts DEF Usable, Running
  <1>3. Expected'
    BY NoEventFacts DEF Expected
  <1> QED BY <1>1, <1>2, <1>3 DEF TInv

\* The data link has an event for the handler.
LEMMA EventStep ==
  ASSUME TInv, dl # "idle", NEW e \in Events, LinkEvent(e), e.kind # "none",
         e.kind \in {"rx", "txrx"} => e.data_len # 0,
         e.kind = "tx" => dl = "tx" /\ e.data_len = 0 /\ e.frame.chain = "NO",
         dev' \in Device,
         used' \in [faults : 0 .. MaxFaults, inits : 0 .. MaxInits],
         hist' \in History, hist'.outcome = hist.outcome
  PROVE  TInv'
  <1>1. tl' = tl /\ dl_frame' = dl_frame /\ dl' = "idle" /\ event' = e
    BY DEF LinkEvent
  <1>2. TransportTypeOK /\ Usable /\ Expected
    BY DEF TInv
  <1>3. TransportTypeOK'
    BY <1>1, <1>2 DEF TransportTypeOK, TL, Bounded, Events, Device, History
  <1>4. hist.outcome = "pending"
    BY <1>2, Zenon DEF Usable
  <1>5. Usable'
    BY <1>1, <1>4 DEF Usable, Running
  <1>6. Expected'
    BY <1>1, <1>2 DEF Expected, data_len, chaining
  <1> QED BY <1>3, <1>5, <1>6 DEF TInv

-----------------------------------------------------------------------------
(* The steps of the handler                                                 *)

LEMMA InitTInv == Init => TInv
  <1> SUFFICES ASSUME Init PROVE TInv
    OBVIOUS
  <1>1. TransportTypeOK
    BY NoEventFacts, BlankFacts, BudgetAssumption
    DEF Init, TransportTypeOK, DeviceReset, Events, States, Errors, Chain
  <1>2. Usable
    BY NoEventFacts DEF Init, Usable, Running
  <1>3. Expected
    BY NoEventFacts DEF Init, Expected
  <1> QED BY <1>1, <1>2, <1>3 DEF TInv

\* The actions that go round the loop with nothing but flags changed.
LEMMA LoopStep ==
  ASSUME TInv,
         \/ TxChainingError \/ TxUnexpected \/ RxUnexpected \/ RxNotChained
         \/ RxOverflow \/ RxChaining \/ ChainingBadLength \/ ChainingOverflow
         \/ ResendToChainingError \/ ResendTooOften \/ ChainingErrorTooOften
  PROVE  TInv'
  <1>1. Running
    BY DEF TxChainingError, TxUnexpected, RxUnexpected, RxNotChained, RxOverflow,
      RxChaining, ChainingBadLength, ChainingOverflow, ResendToChainingError,
      ResendTooOften, ChainingErrorTooOften, RxAccepted, RxData, Pass
  <1>2. UNCHANGED <<dev, used, hist>>
    BY DEF TxChainingError, TxUnexpected, RxUnexpected, RxNotChained, RxOverflow,
      RxChaining, ChainingBadLength, ChainingOverflow, ResendToChainingError,
      ResendTooOften, ChainingErrorTooOften
  <1>3. event.kind # "tx"
    <2> SUFFICES ASSUME event.kind = "tx" PROVE FALSE
      OBVIOUS
    <2>1. tl.state = "TX" /\ data_len = 0 /\ chaining = "NO" /\ TxSuccess
      BY DEF TInv, Expected, TxSuccess
    <2> QED BY <2>1 DEF TxChainingError, TxUnexpected, RxUnexpected, RxNotChained,
      RxOverflow, RxChaining, ChainingBadLength, ChainingOverflow,
      ResendToChainingError, ResendTooOften, ChainingErrorTooOften, RxAccepted,
      RxData, Pass
  <1>4. PICK t \in TL, s \in States : Bounded(t) /\ Again_in(t, s)
    <2> DEFINE counted == {Entered, Accepted, [Accepted EXCEPT !.error_event = "MEM_ERROR"],
                           [Entered EXCEPT !.error_event = "MEM_ERROR"],
                           ResendCounted, ChainingErrorCounted}
    <2>0. Entered \in TL /\ Bounded(Entered) /\ chaining \in Chain
      BY <1>1, HandlerFacts
    <2>a. Accepted \in TL /\ Bounded(Accepted)
      BY <2>0 DEF Accepted, TL, Bounded
    <2>b. \A t \in TL : Bounded(t) =>
             [t EXCEPT !.error_event = "MEM_ERROR"] \in TL
             /\ Bounded([t EXCEPT !.error_event = "MEM_ERROR"])
      BY DEF TL, Bounded, Errors
    <2>c. ResendCounted \in TL /\ Bounded(ResendCounted)
      BY <2>0 DEF ResendCounted, TL, Bounded
    <2>d. ChainingErrorCounted \in TL /\ Bounded(ChainingErrorCounted)
      BY <2>0 DEF ChainingErrorCounted, TL, Bounded
    <2>1. \A t \in counted : t \in TL /\ Bounded(t)
      BY <2>0, <2>a, <2>b, <2>c, <2>d
    <2>2. \E t \in counted, s \in States : Again_in(t, s)
      BY DEF States, TxChainingError, TxUnexpected, RxUnexpected, RxNotChained, RxOverflow,
        RxChaining, ChainingBadLength, ChainingOverflow, ResendToChainingError,
        ResendTooOften, ChainingErrorTooOften
    <2> QED BY <2>1, <2>2
  <1> QED BY <1>1, <1>2, <1>3, <1>4, AgainStep

LEMMA TxNextFragmentStep == ASSUME TInv, TxNextFragment PROVE TInv'
  <1>1. Running /\ tl.state = "TX"
    BY DEF TxNextFragment, Pass
  <1>2. Entered \in TL /\ Bounded(Entered) /\ Entered.state = "TX"
        /\ NextFragment(tl, hist.current) = NextFragment(Entered, hist.current)
    BY <1>1, HandlerFacts DEF TL, NextFragment
  <1>3. hist.current \in Nat
    BY <1>1, HandlerFacts DEF History
  <1>4. FragmentSent(Entered, hist.current) \in TL
        /\ NextFragment(Entered, hist.current) \in Fragment
        /\ FragmentSent(Entered, hist.current).packet_offset <= Entered.actual_packet_length
        /\ FragmentSent(Entered, hist.current)
             = [Entered EXCEPT !.packet_offset = FragmentSent(Entered, hist.current).packet_offset]
    BY <1>2, <1>3, SentFacts DEF Bounded
  <1>5. tl' \in TL /\ Bounded(tl') /\ tl'.state = "TX"
    BY <1>2, <1>4 DEF TxNextFragment, Bounded, TL
  <1>6. dl' = "tx" /\ dl_frame' \in Fragment
    BY <1>1, <1>2, <1>4, HandlerFacts DEF TxNextFragment, dl_send_frame
  <1>7. event' = NoEvent /\ hist' = hist /\ UNCHANGED <<dev, used>>
    BY DEF TxNextFragment
  <1>8. hist' \in History /\ hist'.outcome = "pending"
    BY <1>1, <1>7, HandlerFacts
  <1> DEFINE s == "tx"
  <1> QED BY <1>5, <1>6, <1>7, <1>8, WaitStep

LEMMA TxCompleteStep == ASSUME TInv, TxComplete PROVE TInv'
  <1> DEFINE t == [Entered EXCEPT !.total_recv_length = 0, !.previous_chaining = "NO",
                                  !.transmission_completed = TRUE]
  <1>1. Running /\ TxSuccess /\ UNCHANGED <<dev, used, hist>>
    BY DEF TxComplete, Pass
  <1>2. t \in TL /\ Bounded(t)
    <2>1. Entered \in TL /\ Bounded(Entered)
      BY <1>1, HandlerFacts
    <2>2. "NO" \in Chain
      BY DEF Chain
    <2>3. t \in TL
      BY <2>1, <2>2 DEF TL
    <2>4. t.packet_offset = Entered.packet_offset /\ t.rx_size = Entered.rx_size
          /\ t.actual_packet_length = Entered.actual_packet_length
          /\ t.total_recv_length = 0
      BY <2>1 DEF TL
    <2> HIDE DEF t
    <2>5. t.rx_size \in Nat
      BY <2>3 DEF TL
    <2> QED BY <2>1, <2>3, <2>4, <2>5 DEF Bounded
  <1>3. CASE RxSuccess
    <2>1. Again_in(t, "RX")
      BY <1>3 DEF TxComplete
    <2>2. event.kind # "tx" /\ "RX" \in States
      BY <1>3 DEF RxSuccess, States
    <2> QED BY <1>1, <1>2, <2>1, <2>2, AgainStep
  <1>4. CASE ~RxSuccess
    <2>1. tl' = [t EXCEPT !.state = "RX"] /\ dl' = "rx" /\ dl_frame' = dl_frame
          /\ event' = NoEvent
      BY <1>1, <1>4, HandlerFacts DEF TxComplete, dl_receive_frame, StateAfterCall
    <2>2. tl' \in TL /\ Bounded(tl') /\ tl'.state = "RX"
      BY <1>2, <2>1 DEF TL, Bounded, States
    <2>3. dl_frame' \in Fragment
      BY <2>1, TypeParts DEF TInv
    <2>4. hist' \in History /\ hist'.outcome = "pending"
      BY <1>1, HandlerFacts
    <2> QED BY <1>1, <2>1, <2>2, <2>3, <2>4, WaitStep
  <1> QED BY <1>3, <1>4

LEMMA RxDrainStep == ASSUME TInv, RxDrain PROVE TInv'
  <1>1. Running /\ tl.state = "RX" /\ UNCHANGED <<dev, used, hist>>
    BY DEF RxDrain, RxData, Pass
  <1>2. tl' = Entered /\ dl' = "rx" /\ dl_frame' = dl_frame /\ event' = NoEvent
    BY <1>1, HandlerFacts DEF RxDrain, dl_receive_frame
  <1>3. tl' \in TL /\ Bounded(tl') /\ tl'.state = "RX"
    BY <1>1, <1>2, HandlerFacts DEF TL
  <1>4. dl_frame' \in Fragment
    BY <1>2, TypeParts DEF TInv
  <1>5. hist' \in History /\ hist'.outcome = "pending"
    BY <1>1, HandlerFacts
  <1> QED BY <1>1, <1>2, <1>3, <1>4, <1>5, WaitStep

LEMMA CopiedFacts ==
  ASSUME TInv, Running
  PROVE  Copied(hist) \in History /\ Copied(hist).outcome = hist.outcome
  BY HandlerFacts DEF Copied, History

LEMMA ChainingCopyStep == ASSUME TInv, ChainingCopy PROVE TInv'
  <1>1. Running /\ data_len = MaxPacket + 1 /\ Received <= tl.rx_size
        /\ UNCHANGED <<dev, used>> /\ hist' = Copied(hist) /\ event' = NoEvent
    <2>1. Received \in Nat /\ tl.rx_size \in Nat
      BY HandlerFacts, SizeAssumption DEF ChainingCopy, Pass, Received, TL
    <2> QED BY <2>1 DEF ChainingCopy, Pass, Overflow
  <1>2. Received \in Nat /\ chaining \in Chain
    BY <1>1, HandlerFacts, SizeAssumption DEF Received, TL
  <1>3. tl' = [Entered EXCEPT !.state = "RX", !.total_recv_length = Received,
                              !.previous_chaining = chaining]
        /\ dl' = "rx" /\ dl_frame' = dl_frame
    BY <1>1, HandlerFacts DEF ChainingCopy, StateAfterCall, dl_receive_frame
  <1>4. tl' \in TL /\ Bounded(tl') /\ tl'.state = "RX"
    BY <1>1, <1>2, <1>3, HandlerFacts DEF TL, Bounded, States
  <1>5. dl_frame' \in Fragment
    BY <1>3, TypeParts DEF TInv
  <1>6. hist' \in History /\ hist'.outcome = "pending"
    BY <1>1, HandlerFacts, CopiedFacts
  <1> QED BY <1>1, <1>3, <1>4, <1>5, <1>6, WaitStep

LEMMA ResendStep == ASSUME TInv, Resend PROVE TInv'
  <1> DEFINE t == [ResendCounted EXCEPT !.packet_offset = 0, !.total_recv_length = 0]
             sent == FragmentSent(t, hist.current)
  <1>1. Running /\ UNCHANGED <<dev, used, hist>>
    BY DEF Resend, Pass
  <1>2. Entered \in TL /\ Bounded(Entered)
    BY <1>1, HandlerFacts
  <1>3. t \in TL /\ Bounded(t)
    <2>1. ResendCounted \in TL /\ Bounded(ResendCounted)
      BY <1>2 DEF ResendCounted, TL, Bounded
    <2>2. t \in TL
      BY <2>1 DEF TL
    <2>3. t.packet_offset = 0 /\ t.total_recv_length = 0
      BY <2>1 DEF TL
    <2> HIDE DEF t
    <2>4. t.rx_size \in Nat /\ t.actual_packet_length \in Nat
      BY <2>2 DEF TL
    <2> QED BY <2>2, <2>3, <2>4 DEF Bounded
  <1>4. hist.current \in Nat
    BY <1>1, HandlerFacts DEF History
  <1> HIDE DEF t
  <1>5. sent \in TL /\ NextFragment(t, hist.current) \in Fragment
        /\ sent.packet_offset <= t.actual_packet_length
        /\ sent = [t EXCEPT !.packet_offset = sent.packet_offset]
    BY <1>3, <1>4, SentFacts DEF Bounded
  <1>6. tl' = [sent EXCEPT !.state = "TX"] /\ dl' = "tx" /\ event' = NoEvent
        /\ dl_frame' = NextFragment(t, hist.current)
    BY <1>1, HandlerFacts DEF t, Resend, StateAfterCall, dl_send_frame
  <1> HIDE DEF sent
  <1>7. Bounded(sent)
    BY <1>3, <1>5 DEF Bounded, TL
  <1>8. tl' \in TL /\ Bounded(tl') /\ tl'.state = "TX"
    BY <1>5, <1>6, <1>7 DEF Bounded, TL, States
  <1>9. hist' \in History /\ hist'.outcome = "pending"
    BY <1>1, HandlerFacts
  <1>10. dl_frame' \in Fragment
    BY <1>5, <1>6
  <1> QED BY <1>1, <1>6, <1>8, <1>9, <1>10, WaitStep

LEMMA SendChainingErrorStep == ASSUME TInv, SendChainingError PROVE TInv'
  <1>1. Running /\ UNCHANGED <<dev, used, hist>>
    BY DEF SendChainingError, Pass
  <1>2. ChainingErrorCounted \in TL /\ Bounded(ChainingErrorCounted)
    BY <1>1, HandlerFacts DEF ChainingErrorCounted, TL, Bounded
  <1>3. tl' = [ChainingErrorCounted EXCEPT !.total_recv_length = 0, !.state = "TX"]
        /\ dl' = "tx" /\ event' = NoEvent /\ dl_frame' = ChainingError
    BY <1>1, HandlerFacts DEF SendChainingError, StateAfterCall, dl_send_frame
  <1>4. tl' \in TL /\ Bounded(tl') /\ tl'.state = "TX"
    <2>1. tl' \in TL /\ tl'.state = "TX"
      BY <1>2, <1>3 DEF TL, States
    <2>2. tl'.packet_offset = ChainingErrorCounted.packet_offset /\ tl'.total_recv_length = 0
          /\ tl'.actual_packet_length = ChainingErrorCounted.actual_packet_length
      BY <1>2, <1>3 DEF TL
    <2>3. tl'.rx_size \in Nat
      BY <2>1 DEF TL
    <2> QED BY <1>2, <2>1, <2>2, <2>3 DEF Bounded
  <1>5. hist' \in History /\ hist'.outcome = "pending"
    BY <1>1, HandlerFacts
  <1>6. dl_frame' \in Fragment
    BY <1>3, BlankFacts
  <1> QED BY <1>1, <1>3, <1>4, <1>5, <1>6, WaitStep

-----------------------------------------------------------------------------
(* The end of an exchange                                                   *)

LEMMA ToldFacts ==
  ASSUME NEW h \in History, NEW what \in {"SUCCESS"} \cup Errors
  PROVE  Told(h, what) \in History /\ Told(h, what).outcome # "pending"
  BY DEF Told, History, Errors

LEMMA RxCompleteStep == ASSUME TInv, RxComplete PROVE TInv'
  <1>1. Running /\ event' = NoEvent /\ dl' = dl /\ dl_frame' = dl_frame
        /\ dev' = dev /\ used' = used
    BY DEF RxComplete, RxAccepted, RxData, Pass
  <1>2. data_len # 0 /\ data_len \in Nat /\ tl \in TL /\ chaining \in Chain
    BY <1>1, HandlerFacts, SizeAssumption DEF RxComplete, RxAccepted, RxData
  <1>3. Received \in Nat /\ tl.rx_size \in Nat
    BY <1>2 DEF Received, TL
  <1>4. Received <= tl.rx_size
    BY <1>3 DEF RxComplete, Overflow
  <1>5. tl' = [Accepted EXCEPT !.state = "IDLE", !.total_recv_length = Received]
    BY DEF RxComplete
  <1>6. Accepted \in TL /\ Bounded(Accepted) /\ Accepted.rx_size = tl.rx_size
    BY <1>1, <1>2, HandlerFacts DEF Accepted, TL, Bounded
  <1>7. tl' \in TL /\ Bounded(tl') /\ tl'.state = "IDLE"
    BY <1>3, <1>4, <1>5, <1>6 DEF TL, Bounded, States
  <1>8. hist' = [Told(Copied(hist), "SUCCESS") EXCEPT !.length = Received]
    BY DEF RxComplete
  <1>9. Told(Copied(hist), "SUCCESS") \in History
        /\ Told(Copied(hist), "SUCCESS").outcome # "pending"
    BY <1>1, CopiedFacts, ToldFacts
  <1>10. hist' \in History /\ hist'.outcome # "pending"
    BY <1>3, <1>8, <1>9 DEF History
  <1>11. dl' = "idle" /\ dl_frame' \in Fragment /\ dev' \in Device
         /\ used' \in [faults : 0 .. MaxFaults, inits : 0 .. MaxInits]
    BY <1>1, HandlerFacts, TypeParts DEF TInv
  <1> QED BY <1>1, <1>7, <1>10, <1>11, EndStep

\* An error is reported on an event of the link or on one that carried data:
\* the layer is idle again.
LEMMA ReportErrorStep == ASSUME TInv, ReportError PROVE TInv'
  <1> DEFINE what == IF Broken THEN "STACK_ERROR" ELSE tl.error_event
  <1>1. Running /\ event' = NoEvent /\ dl' = dl /\ dl_frame' = dl_frame
        /\ dev' = dev /\ used' = used /\ hist' = Told(hist, what)
    BY DEF ReportError
  <1>2. what \in Errors
    BY <1>1, HandlerFacts DEF TL, Errors
  <1>3. event.kind = "error" \/ data_len # 0
    <2>1. event.kind \in {"tx", "rx", "txrx", "error"}
      BY <1>1, HandlerFacts DEF Running, Events
    <2>2. event.kind # "tx"
      BY DEF TInv, Expected, ReportError, Broken, PresenceFails
    <2> QED BY <2>1, <2>2 DEF TInv, Expected
  <1>4. tl' = [Entered EXCEPT !.error_event = what, !.state = "IDLE"]
    BY <1>3 DEF ReportError
  <1>5. Entered \in TL /\ Bounded(Entered)
    BY <1>1, HandlerFacts
  <1> HIDE DEF what
  <1>6. tl' \in TL /\ Bounded(tl') /\ tl'.state = "IDLE"
    BY <1>2, <1>4, <1>5 DEF TL, Bounded, States
  <1>7. hist' \in History /\ hist'.outcome # "pending"
    BY <1>1, <1>2, HandlerFacts, ToldFacts
  <1>8. dl' = "idle" /\ dl_frame' \in Fragment /\ dev' \in Device
        /\ used' \in [faults : 0 .. MaxFaults, inits : 0 .. MaxInits]
    BY <1>1, HandlerFacts, TypeParts DEF TInv
  <1> QED BY <1>1, <1>6, <1>7, <1>8, EndStep

-----------------------------------------------------------------------------
(* The upper layer                                                          *)

LEMMA TransceiveStep ==
  ASSUME TInv, NEW length \in CommandLengths, NEW size \in BufferSizes,
         Transceive(length, size)
  PROVE  TInv'
  <1> DEFINE t == [tl EXCEPT !.state = "TX", !.actual_packet_length = length,
                         !.packet_offset = 0, !.rx_size = size,
                         !.total_recv_length = 0, !.chaining_error_count = 0,
                         !.master_chaining_error_count = 0,
                         !.transmission_completed = FALSE,
                         !.error_event = "STACK_ERROR"]
             number == hist.current + 1
  <1>1. ~Running /\ tl.state = "IDLE" /\ event' = event /\ dev' = dev /\ used' = used
    BY DEF Transceive
  <1>2. tl \in TL /\ hist \in History /\ dl \in {"idle", "tx", "rx"} /\ event \in Events
    BY TypeParts DEF TInv
  <1>3. dl = "idle"
    BY <1>1, <1>2 DEF TInv, Expected
  <1>4. length \in Nat /\ size \in Nat
    BY SizeAssumption
  <1>5. number \in Nat
    BY <1>2 DEF History
  <1>6. t \in TL /\ Bounded(t) /\ t.state = "TX"
    <2>1. t \in TL /\ t.state = "TX"
      BY <1>2, <1>4 DEF TL, States, Errors
    <2>2. t.packet_offset = 0 /\ t.total_recv_length = 0
      BY <1>2 DEF TL
    <2> HIDE DEF t
    <2>3. t.rx_size \in Nat /\ t.actual_packet_length \in Nat
      BY <2>1 DEF TL
    <2> QED BY <2>1, <2>2, <2>3 DEF Bounded
  <1>7. tl' = FragmentSent(t, number) /\ dl' = "tx" /\ dl_frame' = NextFragment(t, number)
    BY <1>3 DEF Transceive, dl_send_frame
  <1>8. hist' = [hist EXCEPT !.current = number, !.outcome = "pending",
                             !.reported = "none", !.length = 0, !.sound = TRUE,
                             !.repeated_tx = {}, !.repeated_rx = {}, !.odd = FALSE]
    BY DEF Transceive
  <1> HIDE DEF t, number
  <1>9. hist' \in History /\ hist'.outcome = "pending"
    BY <1>2, <1>5, <1>8 DEF History
  <1>10. tl' \in TL /\ dl_frame' \in Fragment /\ tl'.packet_offset <= t.actual_packet_length
         /\ tl' = [t EXCEPT !.packet_offset = tl'.packet_offset]
    BY <1>5, <1>6, <1>7, SentFacts DEF Bounded
  <1>11. Bounded(tl') /\ tl'.state = "TX"
    BY <1>6, <1>10 DEF Bounded, TL
  <1>12. event.kind = "none"
    BY <1>1 DEF Running
  <1>13. TransportTypeOK'
    BY <1>1, <1>2, <1>7, <1>9, <1>10, <1>11, TypeParts
    DEF TInv, TransportTypeOK, TL, Bounded, Events, Device, History
  <1>14. Usable'
    BY <1>1, <1>7, <1>9, <1>12 DEF Usable, Running
  <1>15. Expected'
    BY <1>1, <1>7, <1>11, <1>12 DEF Expected
  <1> QED BY <1>13, <1>14, <1>15 DEF TInv

LEMMA TlInitStep == ASSUME TInv, TlInit PROVE TInv'
  <1>1. ~Running /\ hist.outcome # "pending" /\ used.inits < MaxInits
        /\ event' = event /\ dl_frame' = dl_frame /\ hist' = hist /\ dl' = "idle"
    BY DEF TlInit
  <1>2. TransportTypeOK
    BY DEF TInv
  <1>3. tl' = [tl EXCEPT !.state = "IDLE", !.initialization_state = TRUE]
    BY DEF TlInit, TlReset
  <1>4. tl' \in TL /\ Bounded(tl') /\ tl'.state = "IDLE"
    BY <1>2, <1>3, TypeParts DEF TL, Bounded, States
  <1>5. dev' \in Device
    BY <1>2, TypeParts DEF TlInit, Device, Chain
  <1>6. used' \in [faults : 0 .. MaxFaults, inits : 0 .. MaxInits]
    BY <1>1, <1>2, BudgetAssumption DEF TlInit, TransportTypeOK
  <1>7. event.kind = "none"
    BY <1>1 DEF Running
  <1>8. TransportTypeOK'
    BY <1>1, <1>2, <1>4, <1>5, <1>6
    DEF TransportTypeOK, TL, Bounded, Events, Device, History
  <1>9. Usable'
    BY <1>1, <1>4, <1>7 DEF Usable, Running
  <1>10. Expected'
    BY <1>1, <1>7 DEF Expected
  <1> QED BY <1>8, <1>9, <1>10 DEF TInv

-----------------------------------------------------------------------------
(* The data link and the device                                             *)

LEMMA NotedFacts ==
  ASSUME TInv, NEW twice \in BOOLEAN, twice => dl = "tx" \/ HasToSay(dev)
  PROVE  Noted(hist, twice) \in History /\ Noted(hist, twice).outcome = hist.outcome
  <1>1. hist \in History /\ dl_frame \in Fragment /\ dev \in Device
    BY TypeParts DEF TInv
  <1>2. dl_frame.chain \in Chain
    BY <1>1 DEF Fragment
  <1>3. CASE ~twice
    BY <1>1, <1>3 DEF Noted
  <1>4. CASE twice /\ dl = "tx"
    BY <1>1, <1>2, <1>4 DEF Noted, History
  <1>5. CASE twice /\ dl # "tx"
    <2>1. Says(dev).chain \in Chain
      BY <1>1, <1>5, DeviceSaysFacts DEF Fragment
    <2> QED BY <1>1, <1>5, <2>1 DEF Noted, History
  <1> QED BY <1>3, <1>4, <1>5

LEMMA FaultFacts ==
  ASSUME TInv, NEW twice \in BOOLEAN, FaultIf(twice)
  PROVE  used' \in [faults : 0 .. MaxFaults, inits : 0 .. MaxInits]
  <1>1. used \in [faults : 0 .. MaxFaults, inits : 0 .. MaxInits]
    BY TypeParts DEF TInv
  <1> QED BY <1>1, BudgetAssumption DEF FaultIf, Fault

LEMMA DlSentStep ==
  ASSUME TInv, NEW n \in AnswerLengths, NEW twice \in BOOLEAN, NEW answered \in BOOLEAN,
         DlSent(n, twice, answered)
  PROVE  TInv'
  <1> DEFINE once == DeviceTakes(dev, dl_frame, n)
             d    == IF twice THEN DeviceTakes(once, dl_frame, n) ELSE once
  <1>1. dev \in Device /\ dl_frame \in Fragment
    BY TypeParts DEF TInv
  <1>2. once \in Device
    BY <1>1, DeviceTakesFacts
  <1> HIDE DEF once
  <1>3. d \in Device
    BY <1>1, <1>2, DeviceTakesFacts
  <1>4. dl = "tx" /\ hist' = Noted(hist, twice) /\ FaultIf(twice)
    BY DEF DlSent
  <1>5. used' \in [faults : 0 .. MaxFaults, inits : 0 .. MaxInits]
    BY <1>4, FaultFacts
  <1>6. hist' \in History /\ hist'.outcome = hist.outcome
    BY <1>4, NotedFacts
  <1>7. IF answered
          THEN HasToSay(d) /\ LinkEvent(EventOf("txrx", Says(d))) /\ dev' = HasSaid(d)
          ELSE LinkEvent(Silent("tx")) /\ dev' = d
    BY DEF DlSent, once
  <1> HIDE DEF d
  <1>8. CASE answered
    <2> DEFINE e == EventOf("txrx", Says(d))
    <2>1. HasToSay(d) /\ LinkEvent(e) /\ dev' = HasSaid(d)
      BY <1>7, <1>8
    <2>2. Says(d) \in Fragment /\ Says(d).len <= MaxPacket /\ HasSaid(d) \in Device
      BY <1>3, <2>1, DeviceSaysFacts
    <2>3. e \in Events /\ e.kind = "txrx" /\ e.data_len # 0
      BY <2>2, EventFacts
    <2> HIDE DEF e
    <2> QED BY <1>4, <1>5, <1>6, <2>1, <2>2, <2>3, EventStep
  <1>9. CASE ~answered
    <2> DEFINE e == Silent("tx")
    <2>1. LinkEvent(e) /\ dev' \in Device
      BY <1>3, <1>7, <1>9
    <2>2. e \in Events /\ e.kind = "tx" /\ e.data_len = 0 /\ e.frame.chain = "NO"
      BY NoEventFacts
    <2> HIDE DEF e
    <2> QED BY <1>4, <1>5, <1>6, <2>1, <2>2, EventStep
  <1> QED BY <1>8, <1>9

LEMMA DlReceivedStep ==
  ASSUME TInv, NEW twice \in BOOLEAN, DlReceived(twice)
  PROVE  TInv'
  <1> DEFINE e == EventOf("rx", Says(dev))
  <1>1. dl = "rx" /\ HasToSay(dev) /\ LinkEvent(e) /\ hist' = Noted(hist, twice)
        /\ FaultIf(twice) /\ dev' = IF twice THEN dev ELSE HasSaid(dev)
    BY DEF DlReceived
  <1>2. dev \in Device
    BY TypeParts DEF TInv
  <1>3. Says(dev) \in Fragment /\ Says(dev).len <= MaxPacket /\ HasSaid(dev) \in Device
    BY <1>1, <1>2, DeviceSaysFacts
  <1>4. e \in Events /\ e.kind = "rx" /\ e.data_len # 0
    BY <1>3, EventFacts
  <1>5. used' \in [faults : 0 .. MaxFaults, inits : 0 .. MaxInits]
    BY <1>1, FaultFacts
  <1>6. hist' \in History /\ hist'.outcome = hist.outcome
    BY <1>1, NotedFacts
  <1>7. dev' \in Device
    BY <1>1, <1>2, <1>3
  <1> HIDE DEF e
  <1> QED BY <1>1, <1>4, <1>5, <1>6, <1>7, EventStep

LEMMA DlStrangeStep ==
  ASSUME TInv, NEW f \in StrangeFragments, NEW n \in AnswerLengths, DlStrange(f, n)
  PROVE  TInv'
  <1> DEFINE k == IF dl = "tx" THEN "txrx" ELSE "rx"
             e == EventOf(k, f)
  <1>1. dl # "idle" /\ Fault /\ LinkEvent(e) /\ hist' = [hist EXCEPT !.odd = TRUE]
        /\ dev' = IF dl = "tx" THEN DeviceTakes(dev, dl_frame, n) ELSE dev
    BY DEF DlStrange
  <1>2. f \in Fragment /\ f.len <= MaxPacket
    <2>1. CASE f = BlankFragment
      BY <2>1, BlankFacts, SizeAssumption
    <2>2. CASE f # BlankFragment
      <3>1. PICK c \in Chain, l \in {0, MaxPacket} :
              f = [chain |-> c, pres |-> TRUE, of |-> 0, from |-> 0, len |-> l]
        BY <2>2 DEF StrangeFragments
      <3> QED BY <3>1, SizeAssumption DEF Fragment
    <2> QED BY <2>1, <2>2
  <1>3. e \in Events /\ e.kind = k /\ e.data_len # 0
    BY <1>2, EventFacts
  <1>4. dev \in Device /\ dl_frame \in Fragment /\ hist \in History
    BY TypeParts DEF TInv
  <1>5. dev' \in Device
    BY <1>1, <1>4, DeviceTakesFacts
  <1>6. used' \in [faults : 0 .. MaxFaults, inits : 0 .. MaxInits]
    BY <1>1, FaultFacts DEF FaultIf
  <1>7. hist' \in History /\ hist'.outcome = hist.outcome
    BY <1>1, <1>4 DEF History
  <1>8. e.kind # "none" /\ e.kind # "tx"
    BY <1>3
  <1> HIDE DEF e
  <1> QED BY <1>1, <1>3, <1>5, <1>6, <1>7, <1>8, EventStep

LEMMA DlFailedStep ==
  ASSUME TInv, NEW n \in AnswerLengths, NEW taken \in BOOLEAN, DlFailed(n, taken)
  PROVE  TInv'
  <1> DEFINE e == Silent("error")
  <1>1. dl # "idle" /\ Fault /\ LinkEvent(e) /\ hist' = hist
        /\ dev' = IF taken THEN DeviceTakes(dev, dl_frame, n) ELSE dev
    BY DEF DlFailed
  <1>2. dev \in Device /\ dl_frame \in Fragment /\ hist \in History
    BY TypeParts DEF TInv
  <1>3. dev' \in Device
    BY <1>1, <1>2, DeviceTakesFacts
  <1>4. used' \in [faults : 0 .. MaxFaults, inits : 0 .. MaxInits]
    BY <1>1, FaultFacts DEF FaultIf
  <1>5. e \in Events /\ e.kind = "error"
    BY NoEventFacts
  <1> HIDE DEF e
  <1> QED BY <1>1, <1>2, <1>3, <1>4, <1>5, EventStep

LEMMA DlTimeoutStep == ASSUME TInv, DlTimeout PROVE TInv'
  <1> DEFINE e == Silent("error")
  <1>1. dl # "idle" /\ LinkEvent(e) /\ hist' = hist /\ dev' = dev /\ used' = used
    BY DEF DlTimeout
  <1>2. dev' \in Device /\ hist' \in History
        /\ used' \in [faults : 0 .. MaxFaults, inits : 0 .. MaxInits]
    BY <1>1, TypeParts DEF TInv
  <1>3. e \in Events /\ e.kind = "error"
    BY NoEventFacts
  <1> HIDE DEF e
  <1> QED BY <1>1, <1>2, <1>3, EventStep

-----------------------------------------------------------------------------
(* The theorems                                                             *)

LEMMA NextTInv == TInv /\ [Next]_vars => TInv'
  <1> SUFFICES ASSUME TInv, [Next]_vars PROVE TInv'
    OBVIOUS
  <1>1. CASE Handler
    BY <1>1, LoopStep, TxNextFragmentStep, TxCompleteStep, RxDrainStep, RxCompleteStep,
       ChainingCopyStep, ResendStep, SendChainingErrorStep, ReportErrorStep
    DEF Handler
  <1>2. CASE \E length \in CommandLengths, size \in BufferSizes : Transceive(length, size)
    BY <1>2, TransceiveStep
  <1>3. CASE TlInit
    BY <1>3, TlInitStep
  <1>4. CASE DlSends
    BY <1>4, DlSentStep DEF DlSends
  <1>5. CASE DlReceives
    BY <1>5, DlReceivedStep DEF DlReceives
  <1>6. CASE DlTimeout
    BY <1>6, DlTimeoutStep
  <1>7. CASE \E f \in StrangeFragments, n \in AnswerLengths : DlStrange(f, n)
    BY <1>7, DlStrangeStep
  <1>8. CASE \E n \in AnswerLengths, taken \in BOOLEAN : DlFailed(n, taken)
    BY <1>8, DlFailedStep
  <1>9. CASE UNCHANGED vars
    BY <1>9 DEF vars, TInv, TransportTypeOK, Usable, Expected, Running, data_len, chaining
  <1> QED BY <1>1, <1>2, <1>3, <1>4, <1>5, <1>6, <1>7, <1>8, <1>9 DEF Next

THEOREM TransportInductive == Spec => []TInv
  BY InitTInv, NextTInv, PTL DEF Spec

\* Whatever the device answers, with however many failures of the link: what
\* the layer copies to the receive buffer stays within it
\* (total_recv_length <= rx_size), and it never takes a fragment from beyond
\* the end of the command (ifx_i2c_tl_send_next_fragment).
THEOREM TransportTypeCorrect == Spec => []TransportTypeOK
  <1>1. TInv => TransportTypeOK
    BY DEF TInv
  <1> QED BY <1>1, TransportInductive, PTL

\* After the end of an exchange the layer is idle and so is the data link; the
\* ERROR state that waits for one more event is never left with nothing to
\* come, and no call to the data link is refused without notice
\* (ifx_i2c_dl_event_handler).
THEOREM TransportUsable == Spec => []Usable
  <1>1. TInv => Usable
    BY DEF TInv
  <1> QED BY <1>1, TransportInductive, PTL

=============================================================================
