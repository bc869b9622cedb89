----------------------- MODULE TransportExchangeProofs -----------------------
(***************************************************************************)
(* What the transport layer and the device make of each other's fragments, *)
(* for every size of a fragment, every set of lengths and buffers and any  *)
(* number of exchanges and faults: commands are executed whole and once,   *)
(* a success hands up the whole answer, an answer that does not fit is     *)
(* received to its end, and the layer implements the abstract exchange.    *)
(***************************************************************************)
EXTENDS TransportProofs

-----------------------------------------------------------------------------
(* The inductive invariant                                                  *)

\* The chaining of fragments after which the message goes on.
Open == {"FIRST", "INTERMEDIATE"}

Current == hist.current
Size == tl.actual_packet_length

\* The exchange goes on: it is under way and the link has not failed.
Alive == hist.outcome = "pending" /\ event.kind # "error"

\* The next place of the command to reach the device.
Sending == dl = "tx" /\ dl_frame.chain # "ERROR"
Place == IF Sending THEN dl_frame.from ELSE tl.packet_offset

\* What is on its way to the device is a part of the current command, and what
\* the device has executed or answers is not of a later one.
Commanded ==
  /\ dev.executed <= Current /\ dev.of \in {0, dev.executed}
  /\ tl.previous_chaining # "ERROR" /\ (tl.state = "CHAINING" => chaining # "ERROR")
  /\ tl.state \in {"RX", "CHAINING", "CHAINING_ERROR"} => tl.transmission_completed
  /\ hist.outcome = "pending" => Current # 0 /\ Size # 0 /\ tl.packet_offset # 0
  /\ Sending =>
       /\ dl_frame.from < Size
       /\ dl_frame = FragmentAt(Current, dl_frame.from, Size)
       /\ tl.packet_offset = dl_frame.from + dl_frame.len
  /\ dl = "tx" /\ ~Sending => dl_frame = ChainingError

\* The device is where the host is: what it has of the command ends where the
\* next fragment begins, and it answers no other command.
CommandSync ==
  Alive /\ Place # 0 =>
    /\ dev.of \in {0, Current}
    /\ dev.prev \in Open =>
         (dev.got = Place /\ dev.sound) \/ "INTERMEDIATE" \in hist.repeated_tx

\* Once the device has executed the command it has all of it and no reason to
\* complain, so that the host has none to send it again.
Once ==
  dev.executed = Current /\ ~hist.odd /\ hist.repeated_tx \cap {"NO", "LAST"} = {} =>
    /\ dev.times <= 1
    /\ hist.outcome = "pending" =>
         /\ Place = Size /\ ~dev.complains
         /\ Running => chaining # "ERROR"
         /\ tl.state = "RESEND" => ForDeviceToRepeat

\* A frame of the device that is being handled is a complaint or the last part
\* of the answer that was sent, unless that part will be sent again.
Offered ==
  Alive /\ ~hist.odd /\ Running /\ event.kind # "tx" =>
    \/ event.frame = ChainingError /\ data_len = 1
    \/ /\ dev.of = Current /\ ~dev.complains
       /\ event.frame.from < dev.length
       /\ event.frame = FragmentAt(Current, event.frame.from, dev.length)
       /\ data_len = event.frame.len + 1
       /\ \/ dev.sent = event.frame.from + event.frame.len
          \/ dev.sent = event.frame.from /\ chaining \in hist.repeated_rx

\* The host is where the device is: what it has of the answer is sound, and the
\* device goes on there or begins again.
Assembling ==
  Alive /\ ~hist.odd /\ ~Draining /\ "INTERMEDIATE" \notin hist.repeated_rx

AnswerSync ==
  Assembling =>
    /\ tl.state = "RX" /\ tl.previous_chaining \notin Open => tl.total_recv_length = 0
    /\ tl.state = "RX" /\ tl.previous_chaining \in Open =>
         /\ hist.sound
         /\ dl = "rx" /\ dev.of = Current => dev.sent \in {0, tl.total_recv_length}
         /\ Running /\ chaining # "ERROR" => event.frame.from \in {0, tl.total_recv_length}
    /\ tl.state = "CHAINING" =>
         /\ chaining \in Open /\ chaining = tl.previous_chaining
         /\ event.frame.from = tl.total_recv_length
         /\ tl.total_recv_length # 0 => hist.sound

\* An answer that does not fit is given up at its last fragment only.
GivenUp ==
  /\ hist.outcome = "pending" /\ Draining => tl.state \in {"RX", "ERROR"}
  /\ Alive /\ Running /\ Draining /\ tl.state = "ERROR" =>
       chaining \in {"NO", "LAST"} /\ event.kind # "tx"

\* A success means that the device has executed the command, whatever was
\* repeated.
TrueSuccess == hist.outcome = "ok" => dev.executed = Current

Contents ==
  /\ Commanded /\ CommandSync /\ Once /\ Offered /\ AnswerSync /\ GivenUp
  /\ WholeAnswer /\ ExecutesWhole /\ Drained /\ TrueSuccess

XInv == TInv /\ Contents

-----------------------------------------------------------------------------
(* Facts about the operators                                                *)

\* What a fragment that is not beyond the end of its message says of itself.
LEMMA FragmentParts ==
  ASSUME NEW of \in Nat, NEW from \in Nat, NEW length \in Nat, from < length
  PROVE  LET f == FragmentAt(of, from, length)
         IN /\ f \in Fragment /\ f.of = of /\ f.from = from
            /\ f.len # 0 /\ f.len <= MaxPacket /\ from + f.len <= length
            /\ f.chain # "ERROR"
            /\ f.chain \in {"NO", "FIRST"} <=> from = 0
            /\ f.chain \in {"NO", "LAST"} <=> from + f.len = length
            /\ f.chain \in Open => f.len = MaxPacket
  <1> DEFINE f == FragmentAt(of, from, length)
             n == Lesser(MaxPacket, length - from)
  <1>1. MaxPacket \in Nat \ {0} /\ length - from \in Nat \ {0}
    BY SizeAssumption
  <1>2. n = IF MaxPacket < length - from THEN MaxPacket ELSE length - from
    BY DEF Lesser
  <1>3. f = [chain |-> calculate_pctr(from, length), pres |-> TRUE, of |-> of,
             from |-> from, len |-> n]
    BY DEF FragmentAt
  <1> HIDE DEF f, n
  <1>4. f.of = of /\ f.from = from /\ f.len = n /\ f.chain = calculate_pctr(from, length)
    BY <1>3
  <1>5. n \in Nat \ {0} /\ n <= MaxPacket /\ from + n <= length
        /\ (from + n = length <=> length - from <= MaxPacket)
        /\ (~(length - from <= MaxPacket) => n = MaxPacket)
    BY <1>1, <1>2
  <1>6. /\ calculate_pctr(from, length) \in {"NO", "LAST", "FIRST", "INTERMEDIATE"}
        /\ calculate_pctr(from, length) \in {"NO", "FIRST"} <=> from = 0
        /\ calculate_pctr(from, length) \in {"NO", "LAST"} <=> length - from <= MaxPacket
    BY DEF calculate_pctr
  <1>7. f \in Fragment
    BY <1>3, <1>5, <1>6 DEF Fragment, Chain
  <1> QED BY <1>4, <1>5, <1>6, <1>7 DEF f, Open

LEMMA ComplaintFacts ==
  ChainingError \in Fragment /\ ChainingError.chain = "ERROR" /\ ChainingError.len = 0
  BY BlankFacts DEF ChainingError, BlankFragment

\* While the handler runs the exchange is under way and nothing is being sent.
LEMMA RunningContents ==
  ASSUME XInv, Running
  PROVE  /\ TInv /\ dl = "idle" /\ ~Sending /\ Place = tl.packet_offset
         /\ hist.outcome = "pending" /\ Current \in Nat \ {0}
         /\ tl \in TL /\ Bounded(tl) /\ hist \in History /\ dev \in Device
         /\ event \in Events /\ event.frame \in Fragment /\ chaining \in Chain
         /\ data_len \in Nat
  <1>1. TInv /\ Commanded
    BY DEF XInv, Contents
  <1>2. dl = "idle" /\ hist.outcome = "pending" /\ tl \in TL /\ Bounded(tl)
        /\ hist \in History /\ event \in Events /\ chaining \in Chain
        /\ data_len \in 0 .. MaxPacket + 1
    BY <1>1, HandlerFacts
  <1>3. dev \in Device
    BY <1>1, TypeParts DEF TInv
  <1>4. event.frame \in Fragment
    BY <1>2 DEF Events
  <1>5. Current \in Nat \ {0}
    BY <1>1, <1>2 DEF Commanded, Current, History
  <1>6. data_len \in Nat
    BY <1>2, SizeAssumption
  <1> QED BY <1>1, <1>2, <1>3, <1>4, <1>5, <1>6 DEF Sending, Place

-----------------------------------------------------------------------------
(* The handler goes round its loop                                          *)

\* Nothing is sent or copied on the way.
LEMMA LoopContents ==
  ASSUME XInv, Running, UNCHANGED <<event, dl, dl_frame, dev, hist>>,
         tl'.packet_offset = tl.packet_offset,
         tl'.actual_packet_length = tl.actual_packet_length,
         tl.transmission_completed => tl'.transmission_completed,
         tl'.previous_chaining # "ERROR", tl'.state = "CHAINING" => chaining # "ERROR",
         tl'.state \in {"RX", "CHAINING", "CHAINING_ERROR"} => tl'.transmission_completed,
         tl'.state = "RESEND" => chaining = "ERROR" \/ hist.odd \/ ForDeviceToRepeat,
         AnswerSync', GivenUp'
  PROVE  Contents'
  <1> USE DEF XInv, Contents
  <1>1. ~Sending' /\ Place' = Place /\ Place = tl.packet_offset /\ Size' = Size
        /\ Current' = Current /\ (Running' <=> Running) /\ chaining' = chaining
        /\ data_len' = data_len /\ dl = "idle"
    BY RunningContents DEF Sending, Place, Size, Current, Running, chaining, data_len
  <1>2. Commanded'
    BY <1>1 DEF Commanded, Size
  <1>3. CommandSync'
    BY <1>1 DEF CommandSync, Alive
  <1>4. Once'
    BY <1>1 DEF Once, ForDeviceToRepeat
  <1>5. Offered'
    BY <1>1 DEF Offered, Alive
  <1>6. WholeAnswer' /\ ExecutesWhole' /\ Drained' /\ TrueSuccess'
    BY <1>1 DEF WholeAnswer, ExecutesWhole, Drained, TrueSuccess, HasToSay, Current
  <1> QED BY <1>2, <1>3, <1>4, <1>5, <1>6

LEMMA TxLoopContents ==
  ASSUME XInv, TxChainingError \/ TxUnexpected
  PROVE  Contents'
  <1>1. Running /\ tl.state = "TX" /\ UNCHANGED <<dev, hist, event, dl, dl_frame>>
    BY DEF TxChainingError, TxUnexpected, Pass, Again_in
  <1>2. PICK s \in {"RESEND", "ERROR"} :
          tl' = [Entered EXCEPT !.state = s] /\ (s = "RESEND" => chaining = "ERROR")
    BY DEF TxChainingError, TxUnexpected, Again_in
  <1>3. tl \in TL /\ hist.outcome = "pending"
    BY <1>1, RunningContents
  <1>4. /\ tl'.packet_offset = tl.packet_offset
        /\ tl'.actual_packet_length = tl.actual_packet_length
        /\ tl'.transmission_completed = tl.transmission_completed
        /\ tl'.previous_chaining = tl.previous_chaining
        /\ tl'.error_event = tl.error_event
        /\ tl'.state = s
    BY <1>2, <1>3 DEF Entered, TL
  <1>5. ~Draining /\ tl.previous_chaining # "ERROR"
    BY <1>1, <1>3 DEF XInv, Contents, GivenUp, Commanded
  <1>6. AnswerSync' /\ GivenUp'
    BY <1>4, <1>5 DEF AnswerSync, GivenUp, Draining
  <1> QED BY <1>1, <1>2, <1>4, <1>5, <1>6, LoopContents

\* What a frame says that a handler in RX or CHAINING is looking at.
LEMMA LookedAt ==
  ASSUME XInv, Running, tl.state \in {"RX", "CHAINING"}
  PROVE  (event.kind # "tx" /\ data_len # 0) \/ event.kind = "error"
  <1>1. Expected /\ event \in Events
    BY TypeParts DEF XInv, TInv
  <1>2. event.kind \in {"none", "tx", "rx", "txrx", "error"}
    BY <1>1 DEF Events
  <1> QED BY <1>1, <1>2 DEF Expected, Running, data_len

LEMMA OfferedData ==
  ASSUME XInv, Running, Alive, ~hist.odd, event.kind # "tx", chaining # "ERROR"
  PROVE  LET f == event.frame
         IN /\ f.of = Current /\ f.from \in Nat /\ f.len \in Nat \ {0}
            /\ data_len = f.len + 1 /\ data_len > 1
            /\ f.chain \in {"NO", "FIRST"} <=> f.from = 0
            /\ f.chain \in {"NO", "LAST"} <=> f.from + f.len = dev.length
            /\ f.chain \in Open => f.len = MaxPacket
            /\ dev.of = Current /\ dev.executed = Current /\ ~dev.complains
            /\ \/ dev.sent = f.from + f.len
               \/ dev.sent = f.from /\ f.chain \in hist.repeated_rx
  <1> DEFINE f == event.frame
  <1>1. /\ dev.of = Current /\ ~dev.complains /\ f.from < dev.length
        /\ f = FragmentAt(Current, f.from, dev.length) /\ data_len = f.len + 1
        /\ dev.sent = f.from + f.len \/ (dev.sent = f.from /\ f.chain \in hist.repeated_rx)
    BY ComplaintFacts DEF XInv, Contents, Offered, chaining
  <1>2. f \in Fragment /\ dev \in Device /\ Current \in Nat \ {0}
    BY RunningContents
  <1>3. f.from \in Nat /\ f.len \in Nat /\ dev.length \in Nat
    BY <1>2 DEF Fragment, Device
  <1> DEFINE g == FragmentAt(Current, f.from, dev.length)
  <1>0. f.from < dev.length /\ Current \in Nat
    BY <1>1, <1>2
  <1> HIDE DEF f
  <1>4. /\ g.of = Current /\ g.len # 0
        /\ g.chain \in {"NO", "FIRST"} <=> f.from = 0
        /\ g.chain \in {"NO", "LAST"} <=> f.from + g.len = dev.length
        /\ g.chain \in Open => g.len = MaxPacket
    BY <1>0, <1>3, FragmentParts
  <1>5. dev.executed = Current
    BY <1>1, <1>2 DEF XInv, Contents, Commanded
  <1>6. f = g
    BY <1>1
  <1> HIDE DEF g
  <1>7. data_len > 1
    BY <1>1, <1>3, <1>4, <1>6
  <1> QED BY <1>1, <1>3, <1>4, <1>5, <1>6, <1>7 DEF f

LEMMA RxLoopContents ==
  ASSUME XInv, RxUnexpected \/ RxNotChained \/ RxOverflow
  PROVE  Contents'
  <1>1. Running /\ ~Broken /\ tl.state = "RX" /\ UNCHANGED <<dev, hist, event, dl, dl_frame>>
    BY DEF RxUnexpected, RxNotChained, RxOverflow, RxAccepted, RxData, Pass, Again_in
  <1>2. tl \in TL /\ hist.outcome = "pending" /\ chaining \in Chain
    BY <1>1, RunningContents
  <1>3. event.kind \in {"rx", "txrx"} /\ data_len # 0 /\ Alive
    BY <1>1, <1>2, LookedAt DEF Broken, Running, XInv, TInv, TransportTypeOK, Alive
  <1>4. tl.transmission_completed /\ tl.previous_chaining # "ERROR"
    BY <1>1 DEF XInv, Contents, Commanded
  <1>5. CASE RxUnexpected
    <2>1. Draining /\ chaining = "LAST" /\ tl' = [Entered EXCEPT !.state = "ERROR"]
      BY <1>3, <1>5 DEF RxUnexpected, RxSuccess, Again_in
    <2>2. /\ tl'.packet_offset = tl.packet_offset
          /\ tl'.actual_packet_length = tl.actual_packet_length
          /\ tl'.transmission_completed = tl.transmission_completed
          /\ tl'.previous_chaining = tl.previous_chaining
          /\ tl'.state = "ERROR"
      BY <1>2, <2>1 DEF Entered, TL
    <2>3. AnswerSync' /\ GivenUp'
      BY <1>1, <1>3, <2>1, <2>2 DEF AnswerSync, GivenUp, chaining
    <2> QED BY <1>1, <1>4, <2>2, <2>3, LoopContents
  <1>6. CASE RxNotChained
    <2>1. ~Draining /\ tl' = [Entered EXCEPT !.state = "RESEND"]
      BY <1>6 DEF RxNotChained, Again_in
    <2>2. /\ tl'.packet_offset = tl.packet_offset
          /\ tl'.actual_packet_length = tl.actual_packet_length
          /\ tl'.transmission_completed = tl.transmission_completed
          /\ tl'.previous_chaining = tl.previous_chaining
          /\ tl'.error_event = tl.error_event
          /\ tl'.state = "RESEND"
      BY <1>2, <2>1 DEF Entered, TL
    <2>3. AnswerSync' /\ GivenUp'
      BY <1>1, <1>3, <2>1, <2>2 DEF AnswerSync, GivenUp, Draining
    <2>4. chaining = "ERROR" \/ hist.odd \/ ForDeviceToRepeat
      BY <1>1, <1>3, <1>4, OfferedData DEF ForDeviceToRepeat
    <2> QED BY <1>1, <1>4, <2>2, <2>3, <2>4, LoopContents
  <1>7. CASE RxOverflow
    <2>1. chaining \in {"NO", "LAST"}
          /\ tl' = [[Accepted EXCEPT !.error_event = "MEM_ERROR"] EXCEPT !.state = "ERROR"]
      BY <1>7 DEF RxOverflow, Again_in
    <2>2. /\ tl'.packet_offset = tl.packet_offset
          /\ tl'.actual_packet_length = tl.actual_packet_length
          /\ tl'.transmission_completed = tl.transmission_completed
          /\ tl'.previous_chaining = chaining
          /\ tl'.state = "ERROR"
      BY <1>2, <2>1 DEF Accepted, Entered, TL
    <2>3. AnswerSync' /\ GivenUp'
      BY <1>1, <1>3, <2>1, <2>2 DEF AnswerSync, GivenUp, chaining
    <2> QED BY <1>1, <1>4, <2>1, <2>2, <2>3, LoopContents
  <1> QED BY <1>5, <1>6, <1>7

\* An open fragment waits in CHAINING to be copied.
LEMMA RxChainingContents ==
  ASSUME XInv, RxChaining
  PROVE  Contents'
  <1>1. /\ Running /\ ~Broken /\ tl.state = "RX" /\ UNCHANGED <<dev, hist, event, dl, dl_frame>>
        /\ ~Draining /\ Chained /\ chaining \notin {"NO", "LAST"}
        /\ tl' = [Accepted EXCEPT !.state = "CHAINING"]
    BY DEF RxChaining, RxAccepted, RxData, Pass, Again_in
  <1>2. tl \in TL /\ hist.outcome = "pending" /\ chaining \in Chain
    BY <1>1, RunningContents
  <1>3. event.kind \in {"rx", "txrx"} /\ Alive
    BY <1>1, <1>2, LookedAt DEF Broken, Running, XInv, TInv, TransportTypeOK, Alive
  <1>4. tl.transmission_completed /\ tl.previous_chaining # "ERROR"
    BY <1>1 DEF XInv, Contents, Commanded
  <1>5. /\ tl'.packet_offset = tl.packet_offset
        /\ tl'.actual_packet_length = tl.actual_packet_length
        /\ tl'.transmission_completed = tl.transmission_completed
        /\ tl'.total_recv_length = tl.total_recv_length
        /\ tl'.error_event = tl.error_event
        /\ tl'.previous_chaining = chaining
        /\ tl'.state = "CHAINING"
    BY <1>1, <1>2 DEF Accepted, Entered, TL
  <1>6. chaining \in Open /\ (chaining = "FIRST" <=> tl.previous_chaining \notin Open)
    BY <1>1, <1>2, <1>4 DEF Chained, AllowedBefore, Chain, Open
  <1>7. AnswerSync'
    <2> SUFFICES ASSUME Assembling PROVE event.frame.from = tl.total_recv_length
                                         /\ (tl.total_recv_length # 0 => hist.sound)
      BY <1>1, <1>5, <1>6
      DEF AnswerSync, Assembling, Alive, Draining, chaining, XInv, Contents
    <2>1. chaining \in {"NO", "FIRST"} <=> event.frame.from = 0
      BY <1>1, <1>3, <1>6, OfferedData DEF Assembling, Open, chaining
    <2>2. /\ tl.previous_chaining \notin Open => tl.total_recv_length = 0
          /\ tl.previous_chaining \in Open =>
               hist.sound /\ event.frame.from \in {0, tl.total_recv_length}
      BY <1>1, <1>6 DEF XInv, Contents, AnswerSync, Open
    <2> QED BY <1>6, <2>1, <2>2 DEF Open
  <1>8. GivenUp'
    BY <1>1, <1>5 DEF GivenUp, Draining
  <1> QED BY <1>1, <1>4, <1>5, <1>6, <1>7, <1>8, LoopContents DEF Open

LEMMA ChainingLoopContents ==
  ASSUME XInv, ChainingBadLength \/ ChainingOverflow
  PROVE  Contents'
  <1>1. Running /\ tl.state = "CHAINING" /\ UNCHANGED <<dev, hist, event, dl, dl_frame>>
    BY DEF ChainingBadLength, ChainingOverflow, Pass, Again_in
  <1>2. tl \in TL /\ hist.outcome = "pending"
    BY <1>1, RunningContents
  <1>3. tl.transmission_completed /\ tl.previous_chaining # "ERROR" /\ ~Draining
    BY <1>1, <1>2 DEF XInv, Contents, Commanded, GivenUp
  <1>4. CASE ChainingBadLength
    <2>1. tl' = [Entered EXCEPT !.state = "CHAINING_ERROR"]
      BY <1>4 DEF ChainingBadLength, Again_in
    <2>2. /\ tl'.packet_offset = tl.packet_offset
          /\ tl'.actual_packet_length = tl.actual_packet_length
          /\ tl'.transmission_completed = tl.transmission_completed
          /\ tl'.previous_chaining = tl.previous_chaining
          /\ tl'.error_event = tl.error_event
          /\ tl'.state = "CHAINING_ERROR"
      BY <1>2, <2>1 DEF Entered, TL
    <2>3. AnswerSync' /\ GivenUp'
      BY <1>3, <2>2 DEF AnswerSync, GivenUp, Draining
    <2> QED BY <1>1, <1>3, <2>2, <2>3, LoopContents
  <1>5. CASE ChainingOverflow
    <2>1. tl' = [[Entered EXCEPT !.error_event = "MEM_ERROR"] EXCEPT !.state = "RX"]
      BY <1>5 DEF ChainingOverflow, Again_in
    <2>2. /\ tl'.packet_offset = tl.packet_offset
          /\ tl'.actual_packet_length = tl.actual_packet_length
          /\ tl'.transmission_completed = tl.transmission_completed
          /\ tl'.previous_chaining = tl.previous_chaining
          /\ tl'.error_event = "MEM_ERROR"
          /\ tl'.state = "RX"
      BY <1>2, <2>1 DEF Entered, TL
    <2>3. AnswerSync' /\ GivenUp'
      BY <2>2 DEF AnswerSync, Assembling, GivenUp, Draining
    <2> QED BY <1>1, <1>3, <2>2, <2>3, LoopContents
  <1> QED BY <1>4, <1>5

\* RESEND and CHAINING_ERROR, without sending.
LEMMA ResendLoopContents ==
  ASSUME XInv, ResendToChainingError \/ ResendTooOften \/ ChainingErrorTooOften
  PROVE  Contents'
  <1>1. /\ Running /\ tl.state \in {"RESEND", "CHAINING_ERROR"}
        /\ UNCHANGED <<dev, hist, event, dl, dl_frame>>
    BY DEF ResendToChainingError, ResendTooOften, ChainingErrorTooOften, Pass, Again_in
  <1>2. tl \in TL /\ hist.outcome = "pending"
    BY <1>1, RunningContents
  <1>3. tl.previous_chaining # "ERROR" /\ ~Draining
    BY <1>1, <1>2 DEF XInv, Contents, Commanded, GivenUp
  <1>4. /\ tl'.packet_offset = tl.packet_offset
        /\ tl'.actual_packet_length = tl.actual_packet_length
        /\ tl'.transmission_completed = tl.transmission_completed
        /\ tl'.previous_chaining = tl.previous_chaining
        /\ tl'.error_event = tl.error_event
        /\ tl'.state = IF ResendToChainingError THEN "CHAINING_ERROR" ELSE "ERROR"
    <2>1. CASE ResendToChainingError
      BY <1>2, <2>1 DEF ResendToChainingError, Again_in, Entered, TL
    <2>2. CASE ResendTooOften
      <3>1. tl' = [ResendCounted EXCEPT !.state = "ERROR"] /\ ~ResendToChainingError
        BY <2>2 DEF ResendTooOften, Again_in, ResendToChainingError
      <3> QED BY <1>2, <3>1 DEF ResendCounted, Entered, TL
    <2>3. CASE ChainingErrorTooOften
      <3>1. tl' = [ChainingErrorCounted EXCEPT !.state = "ERROR"] /\ ~ResendToChainingError
        BY <2>3 DEF ChainingErrorTooOften, Again_in, ResendToChainingError, Pass
      <3> QED BY <1>2, <3>1 DEF ChainingErrorCounted, Entered, TL
    <2> QED BY <2>1, <2>2, <2>3
  <1>5. ResendToChainingError => tl.transmission_completed
    BY DEF ResendToChainingError, ForDeviceToRepeat
  <1>6. AnswerSync' /\ GivenUp'
    BY <1>3, <1>4 DEF AnswerSync, GivenUp, Draining
  <1> QED BY <1>1, <1>3, <1>4, <1>5, <1>6, LoopContents

-----------------------------------------------------------------------------
(* The handler starts an operation of the data link                         *)

\* A part of the command is given to the data link.
LEMMA SendingFacts ==
  ASSUME NEW number \in Nat, NEW from \in Nat, NEW length \in Nat, from < length,
         dl' = "tx", dl_frame' = FragmentAt(number, from, length),
         Current' = number, Size' = length, tl'.packet_offset = from + dl_frame'.len
  PROVE  /\ Sending' /\ Place' = from /\ tl'.packet_offset # 0
         /\ dl_frame'.from < Size'
         /\ dl_frame' = FragmentAt(Current', dl_frame'.from, Size')
         /\ tl'.packet_offset = dl_frame'.from + dl_frame'.len
  <1>1. /\ dl_frame'.from = from /\ dl_frame'.len # 0 /\ dl_frame'.chain # "ERROR"
        /\ dl_frame' \in Fragment
    BY FragmentParts
  <1>2. dl_frame'.len \in Nat
    BY <1>1 DEF Fragment
  <1> QED BY <1>1, <1>2 DEF Sending, Place

LEMMA FragmentSentFacts ==
  ASSUME NEW t \in TL, NEW number \in Nat
  PROVE  FragmentSent(t, number)
           = [t EXCEPT !.packet_offset = t.packet_offset
                + FragmentAt(number, t.packet_offset, t.actual_packet_length).len]
  BY DEF FragmentSent, NextFragment

\* What a started operation leaves of the contents.
LEMMA WaitContents ==
  ASSUME XInv, Running, ~Broken, event' = NoEvent, dl' \in {"tx", "rx"}, dev' = dev,
         hist' = [hist EXCEPT !.sound = hist'.sound],
         Commanded', Place' \in {Place, 0}, tl'.state # "RESEND",
         \/ Place' = Place /\ Size' = Size
         \/ tl.state = "RESEND" /\ ~ForDeviceToRepeat,
         AnswerSync', GivenUp'
  PROVE  Contents'
  <1> USE DEF XInv, Contents
  <1>1. /\ Alive /\ hist \in History /\ hist.outcome = "pending" /\ Place = tl.packet_offset
        /\ Place # 0
    BY RunningContents DEF Alive, Broken, Commanded
  <1>2. /\ hist'.current = hist.current /\ hist'.outcome = "pending" /\ hist'.odd = hist.odd
        /\ hist'.repeated_tx = hist.repeated_tx /\ hist'.repeated_rx = hist.repeated_rx
    BY <1>1 DEF History
  <1>3. ~Running'
    BY NoEventFacts DEF Running
  <1>4. CommandSync'
    BY <1>1, <1>2 DEF CommandSync, Current
  <1>5. Once'
    <2> SUFFICES ASSUME dev.executed = Current, ~hist.odd,
                        hist.repeated_tx \cap {"NO", "LAST"} = {}
                 PROVE  dev.times <= 1 /\ Place' = Size' /\ ~dev.complains
      BY <1>2, <1>3 DEF Once, Current
    <2> QED BY <1>1 DEF Once
  <1>6. Offered'
    BY <1>3 DEF Offered
  <1>7. WholeAnswer' /\ Drained' /\ TrueSuccess'
    BY <1>2 DEF WholeAnswer, Drained, TrueSuccess
  <1>8. ExecutesWhole'
    BY <1>2 DEF ExecutesWhole
  <1> QED BY <1>4, <1>5, <1>6, <1>7, <1>8

LEMMA TxNextFragmentContents ==
  ASSUME XInv, TxNextFragment
  PROVE  Contents'
  <1>1. /\ Running /\ ~Broken /\ tl.state = "TX" /\ UnsentRest /\ event' = NoEvent
        /\ dev' = dev /\ hist' = hist
    BY DEF TxNextFragment, Pass
  <1>2. /\ tl \in TL /\ hist.outcome = "pending" /\ dl = "idle" /\ Current \in Nat \ {0}
        /\ Place = tl.packet_offset /\ hist \in History
    BY <1>1, RunningContents
  <1> DEFINE f == FragmentAt(Current, tl.packet_offset, Size)
  <1>3. dl' = "tx" /\ dl_frame' = f
    BY <1>1, <1>2 DEF TxNextFragment, dl_send_frame, NextFragment, Current, Size
  <1>4. Entered \in TL /\ Entered.packet_offset = tl.packet_offset
        /\ Entered.actual_packet_length = Size
    BY <1>1, <1>2, HandlerFacts DEF XInv, TL, Size
  <1>5. tl' = [Entered EXCEPT !.packet_offset = tl.packet_offset + f.len]
    BY <1>1, <1>2, <1>4, FragmentSentFacts DEF TxNextFragment, Current
  <1>6. tl.packet_offset \in Nat /\ Size \in Nat /\ tl.packet_offset < Size
    BY <1>1, <1>2 DEF TL, Size, UnsentRest
  <1>7. /\ tl'.packet_offset = tl.packet_offset + dl_frame'.len /\ Size' = Size
        /\ tl'.state = "TX" /\ tl'.error_event = tl.error_event
        /\ tl'.previous_chaining = tl.previous_chaining
    BY <1>1, <1>2, <1>3, <1>5 DEF Entered, TL, Size
  <1>8. Current' = Current
    BY <1>1 DEF Current
  <1>9. /\ Sending' /\ Place' = tl.packet_offset /\ tl'.packet_offset # 0
        /\ dl_frame'.from < Size'
        /\ dl_frame' = FragmentAt(Current', dl_frame'.from, Size')
        /\ tl'.packet_offset = dl_frame'.from + dl_frame'.len
    BY <1>2, <1>3, <1>6, <1>7, <1>8, SendingFacts
  <1>10. Commanded'
    BY <1>1, <1>2, <1>3, <1>7, <1>8, <1>9 DEF XInv, Contents, Commanded
  <1>11. ~Draining
    BY <1>1, <1>2 DEF XInv, Contents, GivenUp
  <1>12. AnswerSync' /\ GivenUp'
    BY <1>7, <1>11 DEF AnswerSync, GivenUp, Draining
  <1>13. hist' = [hist EXCEPT !.sound = hist'.sound]
    BY <1>1, <1>2 DEF History
  <1> QED BY <1>1, <1>2, <1>3, <1>7, <1>9, <1>10, <1>12, <1>13, WaitContents

LEMMA TxCompleteContents ==
  ASSUME XInv, TxComplete
  PROVE  Contents'
  <1> DEFINE t == [Entered EXCEPT !.total_recv_length = 0, !.previous_chaining = "NO",
                                  !.transmission_completed = TRUE]
  <1>1. Running /\ ~Broken /\ tl.state = "TX" /\ dev' = dev /\ hist' = hist
    BY DEF TxComplete, Pass
  <1>2. /\ tl \in TL /\ hist \in History /\ hist.outcome = "pending" /\ dl = "idle"
        /\ Place = tl.packet_offset
    BY <1>1, RunningContents
  <1>3. ~Draining
    BY <1>1, <1>2 DEF XInv, Contents, GivenUp
  <1>4. tl' = [t EXCEPT !.state = "RX"] /\ dl_frame' = dl_frame
        /\ IF RxSuccess THEN event' = event /\ dl' = dl ELSE event' = NoEvent /\ dl' = "rx"
    BY <1>2 DEF TxComplete, Again_in, dl_receive_frame, StateAfterCall
  <1>5. /\ tl'.packet_offset = tl.packet_offset
        /\ tl'.actual_packet_length = tl.actual_packet_length
        /\ tl'.transmission_completed
        /\ tl'.previous_chaining = "NO" /\ tl'.total_recv_length = 0
        /\ tl'.error_event = tl.error_event
        /\ tl'.state = "RX"
    BY <1>2, <1>4 DEF Entered, TL
  <1>6. AnswerSync' /\ GivenUp'
    BY <1>3, <1>5 DEF AnswerSync, GivenUp, Draining, Open
  <1>7. CASE RxSuccess
    BY <1>1, <1>4, <1>5, <1>6, <1>7, LoopContents
  <1>8. CASE ~RxSuccess
    <2>1. dl' = "rx" /\ event' = NoEvent /\ ~Sending' /\ Place' = Place
          /\ Size' = Size /\ Current' = Current
      BY <1>1, <1>2, <1>4, <1>5, <1>8 DEF Sending, Place, Size, Current
    <2>2. Commanded'
      BY <1>1, <1>2, <1>4, <1>5, <2>1 DEF XInv, Contents, Commanded, Size
    <2>3. hist' = [hist EXCEPT !.sound = hist'.sound]
      BY <1>1, <1>2 DEF History
    <2> QED BY <1>1, <1>2, <1>5, <1>6, <2>1, <2>2, <2>3, WaitContents
  <1> QED BY <1>7, <1>8

LEMMA RxDrainContents ==
  ASSUME XInv, RxDrain
  PROVE  Contents'
  <1>1. Running /\ ~Broken /\ tl.state = "RX" /\ dev' = dev /\ hist' = hist /\ Draining
    BY DEF RxDrain, RxData, Pass
  <1>2. tl \in TL /\ hist \in History /\ dl = "idle" /\ Place = tl.packet_offset
    BY <1>1, RunningContents
  <1>3. tl' = Entered /\ dl_frame' = dl_frame /\ event' = NoEvent /\ dl' = "rx"
    BY <1>2 DEF RxDrain, dl_receive_frame
  <1>4. /\ tl'.packet_offset = tl.packet_offset
        /\ tl'.actual_packet_length = tl.actual_packet_length
        /\ tl'.transmission_completed = tl.transmission_completed
        /\ tl'.previous_chaining = tl.previous_chaining
        /\ tl'.error_event = tl.error_event
        /\ tl'.state = "RX"
    BY <1>1, <1>2, <1>3 DEF Entered, TL
  <1>5. AnswerSync' /\ GivenUp'
    BY <1>1, <1>4 DEF AnswerSync, Assembling, GivenUp, Draining
  <1>6. ~Sending' /\ Place' = Place /\ Size' = Size /\ Current' = Current
    BY <1>1, <1>2, <1>3, <1>4 DEF Sending, Place, Size, Current
  <1>7. Commanded'
    BY <1>1, <1>3, <1>4, <1>6 DEF XInv, Contents, Commanded, Size
  <1>8. hist' = [hist EXCEPT !.sound = hist'.sound]
    BY <1>1, <1>2 DEF History
  <1> QED BY <1>1, <1>3, <1>4, <1>5, <1>6, <1>7, <1>8, WaitContents

\* An open fragment is copied; the next one begins where it ends, unless the
\* device will send this one again.
LEMMA ChainingCopyContents ==
  ASSUME XInv, ChainingCopy
  PROVE  Contents'
  <1>1. /\ Running /\ ~Broken /\ tl.state = "CHAINING" /\ dev' = dev
        /\ hist' = Copied(hist) /\ data_len = MaxPacket + 1 /\ event' = NoEvent
    BY DEF ChainingCopy, Pass
  <1>2. /\ tl \in TL /\ hist \in History /\ hist.outcome = "pending" /\ dl = "idle"
        /\ Place = tl.packet_offset /\ dev \in Device /\ event.frame \in Fragment
    BY <1>1, RunningContents
  <1>3. Alive /\ event.kind # "tx" /\ ~Draining
    BY <1>1, <1>2, LookedAt DEF Alive, Broken, XInv, Contents, GivenUp
  <1>4. tl' = [Entered EXCEPT !.state = "RX", !.total_recv_length = Received,
                              !.previous_chaining = chaining]
        /\ dl_frame' = dl_frame /\ dl' = "rx"
    BY <1>2 DEF ChainingCopy, dl_receive_frame, StateAfterCall
  <1>5. /\ tl'.packet_offset = tl.packet_offset
        /\ tl'.actual_packet_length = tl.actual_packet_length
        /\ tl'.transmission_completed = tl.transmission_completed
        /\ tl'.previous_chaining = chaining
        /\ tl'.total_recv_length = Received
        /\ tl'.error_event = tl.error_event
        /\ tl'.state = "RX"
    BY <1>2, <1>4 DEF Entered, TL
  <1>6. /\ hist' = [hist EXCEPT !.sound = hist'.sound]
        /\ hist'.sound <=> /\ event.frame.of = Current
                           /\ event.frame.from = tl.total_recv_length
                           /\ tl.total_recv_length = 0 \/ hist.sound
        /\ hist'.current = hist.current /\ hist'.odd = hist.odd
        /\ hist'.repeated_rx = hist.repeated_rx
    BY <1>1, <1>2 DEF Copied, History, Current
  <1>7. ~Running'
    BY <1>1, NoEventFacts DEF Running
  <1>8. AnswerSync'
    <2> SUFFICES ASSUME ~hist.odd, "INTERMEDIATE" \notin hist.repeated_rx
                 PROVE  /\ chaining \in Open /\ hist'.sound
                        /\ dev.of = Current => dev.sent \in {0, Received}
      BY <1>1, <1>5, <1>6, <1>7 DEF AnswerSync, Assembling, Current
    <2>1. /\ chaining \in Open /\ event.frame.from = tl.total_recv_length
          /\ tl.total_recv_length # 0 => hist.sound
      BY <1>1, <1>3 DEF XInv, Contents, AnswerSync, Assembling
    <2>2. /\ event.frame.of = Current /\ data_len = event.frame.len + 1
          /\ event.frame.from \in Nat /\ event.frame.len \in Nat
          /\ chaining \in {"NO", "FIRST"} <=> event.frame.from = 0
          /\ \/ dev.sent = event.frame.from + event.frame.len
             \/ dev.sent = event.frame.from /\ chaining \in hist.repeated_rx
      BY <1>1, <1>3, <2>1, OfferedData DEF Open, chaining
    <2>3. Received = event.frame.from + event.frame.len
      BY <2>1, <2>2 DEF Received
    <2>4. dev.sent \in {0, Received}
      BY <2>1, <2>2, <2>3 DEF Open
    <2> QED BY <1>6, <2>1, <2>2, <2>4
  <1>9. GivenUp'
    BY <1>3, <1>5 DEF GivenUp, Draining
  <1>10. ~Sending' /\ Place' = Place /\ Size' = Size /\ Current' = Current
    BY <1>2, <1>4, <1>5, <1>6 DEF Sending, Place, Size, Current
  <1>11. Commanded'
    BY <1>1, <1>2, <1>4, <1>5, <1>6, <1>10 DEF XInv, Contents, Commanded, Size
  <1> QED BY <1>1, <1>4, <1>5, <1>6, <1>8, <1>9, <1>10, <1>11, WaitContents

\* The whole command once more; the device has not executed it.
LEMMA ResendContents ==
  ASSUME XInv, Resend
  PROVE  Contents'
  <1> DEFINE t == [ResendCounted EXCEPT !.packet_offset = 0, !.total_recv_length = 0]
             f == FragmentAt(Current, 0, Size)
  <1>1. /\ Running /\ ~Broken /\ tl.state = "RESEND" /\ ~ForDeviceToRepeat
        /\ dev' = dev /\ hist' = hist
    BY DEF Resend, Pass
  <1>2. /\ tl \in TL /\ hist.outcome = "pending" /\ dl = "idle" /\ Current \in Nat \ {0}
        /\ hist \in History
    BY <1>1, RunningContents
  <1>3. /\ t \in TL /\ t.packet_offset = 0 /\ t.actual_packet_length = Size
        /\ t.error_event = tl.error_event /\ t.previous_chaining = tl.previous_chaining
    <2>1. /\ Entered \in TL /\ Entered.actual_packet_length = Size
          /\ Entered.error_event = tl.error_event
          /\ Entered.previous_chaining = tl.previous_chaining
      BY <1>2 DEF Entered, TL, Size
    <2>2. /\ ResendCounted \in TL /\ ResendCounted.actual_packet_length = Size
          /\ ResendCounted.error_event = tl.error_event
          /\ ResendCounted.previous_chaining = tl.previous_chaining
      BY <2>1 DEF ResendCounted, TL
    <2> QED BY <2>2 DEF TL
  <1>4. Size \in Nat /\ 0 < Size
    BY <1>2 DEF XInv, Contents, Commanded, TL, Size
  <1>5. event' = NoEvent /\ dl' = "tx" /\ dl_frame' = f
        /\ tl' = [FragmentSent(t, Current) EXCEPT !.state = "TX"]
    BY <1>2, <1>3 DEF Resend, dl_send_frame, StateAfterCall, NextFragment, Current
  <1>6. FragmentSent(t, Current) = [t EXCEPT !.packet_offset = 0 + f.len]
    BY <1>2, <1>3, FragmentSentFacts
  <1>7. /\ tl'.packet_offset = 0 + dl_frame'.len /\ Size' = Size /\ Current' = Current
        /\ tl'.state = "TX" /\ tl'.error_event = tl.error_event
        /\ tl'.previous_chaining = tl.previous_chaining
    <2> HIDE DEF t
    <2> QED BY <1>1, <1>3, <1>5, <1>6 DEF TL, Size, Current
  <1>8. /\ Sending' /\ Place' = 0 /\ tl'.packet_offset # 0
        /\ dl_frame'.from < Size'
        /\ dl_frame' = FragmentAt(Current', dl_frame'.from, Size')
        /\ tl'.packet_offset = dl_frame'.from + dl_frame'.len
    BY <1>2, <1>4, <1>5, <1>7, SendingFacts
  <1>9. Commanded'
    BY <1>1, <1>2, <1>4, <1>5, <1>7, <1>8 DEF XInv, Contents, Commanded
  <1>10. ~Draining
    BY <1>1, <1>2 DEF XInv, Contents, GivenUp
  <1>11. AnswerSync' /\ GivenUp'
    BY <1>7, <1>10 DEF AnswerSync, GivenUp, Draining
  <1>12. hist' = [hist EXCEPT !.sound = hist'.sound]
    BY <1>1, <1>2 DEF History
  <1> QED BY <1>1, <1>5, <1>7, <1>8, <1>9, <1>11, <1>12, WaitContents

LEMMA SendChainingErrorContents ==
  ASSUME XInv, SendChainingError
  PROVE  Contents'
  <1>1. /\ Running /\ ~Broken /\ tl.state = "CHAINING_ERROR"
        /\ dev' = dev /\ hist' = hist
    BY DEF SendChainingError, Pass
  <1>2. /\ tl \in TL /\ hist.outcome = "pending" /\ dl = "idle" /\ hist \in History
        /\ Place = tl.packet_offset
    BY <1>1, RunningContents
  <1>3. event' = NoEvent /\ dl' = "tx" /\ dl_frame' = ChainingError
        /\ tl' = [ChainingErrorCounted EXCEPT !.total_recv_length = 0, !.state = "TX"]
    BY <1>2 DEF SendChainingError, dl_send_frame, StateAfterCall
  <1>4. /\ tl'.packet_offset = tl.packet_offset
        /\ tl'.actual_packet_length = tl.actual_packet_length
        /\ tl'.transmission_completed = tl.transmission_completed
        /\ tl'.previous_chaining = tl.previous_chaining
        /\ tl'.error_event = tl.error_event
        /\ tl'.state = "TX"
    BY <1>2, <1>3 DEF ChainingErrorCounted, Entered, TL
  <1>5. ~Sending' /\ Place' = Place /\ Size' = Size /\ Current' = Current
    BY <1>1, <1>2, <1>3, <1>4, ComplaintFacts DEF Sending, Place, Size, Current
  <1>6. Commanded'
    BY <1>1, <1>2, <1>3, <1>4, <1>5 DEF XInv, Contents, Commanded, Size
  <1>7. ~Draining
    BY <1>1, <1>2 DEF XInv, Contents, GivenUp
  <1>8. AnswerSync' /\ GivenUp'
    BY <1>4, <1>7 DEF AnswerSync, GivenUp, Draining
  <1>9. hist' = [hist EXCEPT !.sound = hist'.sound]
    BY <1>1, <1>2 DEF History
  <1> QED BY <1>1, <1>3, <1>4, <1>5, <1>6, <1>8, <1>9, WaitContents

-----------------------------------------------------------------------------
(* The exchange ends and begins                                             *)

\* What the end of an exchange leaves of the contents.
LEMMA EndContents ==
  ASSUME XInv, Running, event' = NoEvent, UNCHANGED <<dl, dl_frame, dev>>,
         tl'.state = "IDLE", tl'.previous_chaining # "ERROR",
         hist' \in History, hist'.current = hist.current, hist'.odd = hist.odd,
         hist'.repeated_tx = hist.repeated_tx, hist'.outcome # "pending",
         WholeAnswer', Drained', TrueSuccess'
  PROVE  Contents'
  <1>1. dl' = "idle" /\ Current' = Current /\ ~Running'
    BY RunningContents, NoEventFacts DEF Current, Running
  <1>2. ~Alive' /\ ~Sending'
    BY <1>1 DEF Alive, Sending
  <1>3. Commanded'
    BY <1>1, <1>2 DEF XInv, Contents, Commanded
  <1>4. CommandSync' /\ Offered' /\ AnswerSync' /\ GivenUp'
    BY <1>2 DEF CommandSync, Offered, AnswerSync, Assembling, GivenUp, Alive
  <1>5. Once'
    BY <1>1 DEF XInv, Contents, Once
  <1>6. ExecutesWhole'
    BY <1>1 DEF XInv, Contents, ExecutesWhole
  <1> QED BY <1>3, <1>4, <1>5, <1>6 DEF Contents

\* The last fragment completes the answer.
LEMMA RxCompleteContents ==
  ASSUME XInv, RxComplete
  PROVE  Contents'
  <1>1. /\ Running /\ ~Broken /\ tl.state = "RX" /\ data_len # 0 /\ ~Draining /\ Chained
        /\ chaining \in {"NO", "LAST"} /\ event' = NoEvent /\ UNCHANGED <<dl, dl_frame, dev>>
        /\ tl' = [Accepted EXCEPT !.state = "IDLE", !.total_recv_length = Received]
        /\ hist' = [Told(Copied(hist), "SUCCESS") EXCEPT !.length = Received]
    BY DEF RxComplete, RxAccepted, RxData, Pass
  <1>2. /\ tl \in TL /\ hist \in History /\ hist.outcome = "pending" /\ TInv
        /\ dev \in Device /\ event.frame \in Fragment
    BY <1>1, RunningContents
  <1>3. event.kind # "tx" /\ Alive
    BY <1>1, <1>2, LookedAt DEF Broken, Alive
  <1>4. tl.previous_chaining # "ERROR" /\ tl.previous_chaining \in Chain
    BY <1>2 DEF XInv, Contents, Commanded, TL
  <1>5. tl'.state = "IDLE" /\ tl'.previous_chaining = chaining
    BY <1>1, <1>2 DEF Accepted, Entered, TL
  <1>6. hist' \in History
    <2>2. TInv'
      BY <1>2, RxCompleteStep
    <2> QED BY <2>2, TypeParts DEF TInv, TransportTypeOK, History
  <1>7. /\ hist'.current = hist.current /\ hist'.odd = hist.odd
        /\ hist'.repeated_tx = hist.repeated_tx /\ hist'.repeated_rx = hist.repeated_rx
        /\ hist'.length = Received /\ hist'.reported = "SUCCESS"
        /\ hist'.outcome = IF hist.odd THEN "doubtful" ELSE "ok"
        /\ hist'.sound <=> /\ event.frame.of = Current
                           /\ event.frame.from = tl.total_recv_length
                           /\ tl.total_recv_length = 0 \/ hist.sound
    BY <1>1, <1>2 DEF Told, Copied, History, Current
  <1>8. WholeAnswer' /\ TrueSuccess'
    <2> SUFFICES ASSUME ~hist.odd
                 PROVE  /\ dev.executed = Current
                        /\ \/ hist'.sound /\ Received = dev.length
                           \/ "INTERMEDIATE" \in hist.repeated_rx
      BY <1>1, <1>7 DEF WholeAnswer, TrueSuccess, Current
    <2>1. /\ event.frame.of = Current /\ dev.executed = Current
          /\ event.frame.from \in Nat /\ event.frame.len \in Nat
          /\ data_len = event.frame.len + 1
          /\ chaining \in {"NO", "FIRST"} <=> event.frame.from = 0
          /\ event.frame.from + event.frame.len = dev.length
      BY <1>1, <1>3, OfferedData DEF chaining
    <2> SUFFICES ASSUME "INTERMEDIATE" \notin hist.repeated_rx
                 PROVE  hist'.sound /\ Received = dev.length
      BY <2>1
    <2>2. tl.previous_chaining \in Open <=> chaining = "LAST"
      BY <1>1, <1>4 DEF Chained, AllowedBefore, Open, Chain
    <2>3. /\ tl.previous_chaining \notin Open => tl.total_recv_length = 0
          /\ tl.previous_chaining \in Open =>
               hist.sound /\ event.frame.from \in {0, tl.total_recv_length}
      BY <1>1, <1>3 DEF XInv, Contents, AnswerSync, Assembling
    <2>4. event.frame.from = tl.total_recv_length
          /\ (tl.total_recv_length = 0 \/ hist.sound)
      BY <1>1, <2>1, <2>2, <2>3
    <2> QED BY <1>7, <2>1, <2>4 DEF Received
  <1>9. Drained'
    BY <1>7 DEF Drained
  <1> QED BY <1>1, <1>5, <1>6, <1>7, <1>8, <1>9, EndContents

\* An answer that does not fit is reported when its last fragment is there.
LEMMA ReportErrorContents ==
  ASSUME XInv, ReportError
  PROVE  Contents'
  <1> DEFINE what == IF Broken THEN "STACK_ERROR" ELSE tl.error_event
  <1>1. /\ Running /\ (Broken \/ tl.state = "ERROR") /\ event' = NoEvent
        /\ UNCHANGED <<dl, dl_frame, dev>> /\ hist' = Told(hist, what)
        /\ tl' = [Entered EXCEPT !.error_event = what,
                     !.state = IF event.kind = "error" \/ data_len # 0
                                 THEN "IDLE" ELSE "ERROR"]
    BY DEF ReportError
  <1>2. /\ tl \in TL /\ hist \in History /\ hist.outcome = "pending" /\ TInv /\ dl = "idle"
        /\ dev \in Device /\ event.frame \in Fragment
    BY <1>1, RunningContents
  <1>3. what \in Errors /\ what # "SUCCESS"
    BY <1>2 DEF TL, Errors
  <1>4. TInv'
    BY <1>2, ReportErrorStep
  <1>5. /\ hist' \in History /\ hist'.outcome = "failed" /\ hist'.reported = what
        /\ hist'.current = hist.current /\ hist'.odd = hist.odd
        /\ hist'.repeated_tx = hist.repeated_tx /\ hist'.repeated_rx = hist.repeated_rx
    BY <1>1, <1>2, <1>3 DEF Told, History
  <1>6. tl'.state = "IDLE"
    BY <1>4, <1>5 DEF TInv, Usable
  <1>7. tl'.previous_chaining # "ERROR"
    BY <1>1, <1>2 DEF XInv, Contents, Commanded, Entered, TL
  <1>8. Drained'
    <2> SUFFICES ASSUME what = "MEM_ERROR", ~hist.odd, hist.repeated_rx = {}
                 PROVE  ~HasToSay(dev)
      BY <1>1, <1>5 DEF Drained, HasToSay
    <2>1. ~Broken /\ Draining /\ tl.state = "ERROR" /\ Alive
      BY <1>1, <1>2 DEF Draining, Broken, Alive
    <2>2. chaining \in {"NO", "LAST"} /\ event.kind # "tx"
      BY <1>1, <2>1 DEF XInv, Contents, GivenUp
    <2>3. /\ event.frame.from + event.frame.len = dev.length /\ ~dev.complains
          /\ dev.sent = event.frame.from + event.frame.len
      BY <1>1, <2>1, <2>2, OfferedData DEF chaining
    <2>4. dev.length \in Nat
      BY <1>2 DEF Device
    <2> QED BY <2>3, <2>4 DEF HasToSay
  <1>9. WholeAnswer' /\ TrueSuccess'
    BY <1>5 DEF WholeAnswer, TrueSuccess
  <1> QED BY <1>1, <1>5, <1>6, <1>7, <1>8, <1>9, EndContents

\* A new command: the device has executed none of that number.
LEMMA TransceiveContents ==
  ASSUME XInv, NEW length \in CommandLengths, NEW size \in BufferSizes,
         Transceive(length, size)
  PROVE  Contents'
  <1> DEFINE t == [tl EXCEPT !.state = "TX", !.actual_packet_length = length,
                         !.packet_offset = 0, !.rx_size = size,
                         !.total_recv_length = 0, !.chaining_error_count = 0,
                         !.master_chaining_error_count = 0,
                         !.transmission_completed = FALSE,
                         !.error_event = "STACK_ERROR"]
             number == hist.current + 1
             f == FragmentAt(number, 0, length)
  <1>1. ~Running /\ tl.state = "IDLE" /\ event' = event /\ dev' = dev
    BY DEF Transceive
  <1>2. /\ tl \in TL /\ hist \in History /\ dl \in {"idle", "tx", "rx"}
        /\ dev \in Device /\ TInv
    BY TypeParts DEF XInv, TInv
  <1>3. dl = "idle"
    BY <1>1, <1>2 DEF TInv, Expected
  <1>4. length \in Nat /\ 0 < length /\ size \in Nat
    BY SizeAssumption
  <1>5. number \in Nat /\ number # 0 /\ Current \in Nat /\ number = Current + 1
    BY <1>2 DEF History, Current
  <1>6. /\ t \in TL /\ t.packet_offset = 0 /\ t.actual_packet_length = length
        /\ t.state = "TX" /\ t.error_event = "STACK_ERROR"
        /\ t.previous_chaining = tl.previous_chaining
    BY <1>2, <1>4 DEF TL, States, Errors
  <1>7. /\ tl' = FragmentSent(t, number) /\ dl' = "tx" /\ dl_frame' = NextFragment(t, number)
        /\ hist' = [hist EXCEPT !.current = number, !.outcome = "pending",
                                !.reported = "none", !.length = 0, !.sound = TRUE,
                                !.repeated_tx = {}, !.repeated_rx = {}, !.odd = FALSE]
    BY <1>3 DEF Transceive, dl_send_frame
  <1> HIDE DEF t, number
  <1>8. dl_frame' = f /\ tl' = [t EXCEPT !.packet_offset = 0 + f.len]
    BY <1>5, <1>6, <1>7, FragmentSentFacts DEF NextFragment
  <1>9. /\ tl'.packet_offset = 0 + dl_frame'.len /\ Size' = length
        /\ tl'.state = "TX" /\ tl'.error_event = "STACK_ERROR"
        /\ tl'.previous_chaining = tl.previous_chaining
    BY <1>6, <1>8 DEF TL, Size
  <1>10. Current' = number /\ hist'.outcome = "pending"
    BY <1>2, <1>7 DEF History, Current
  <1>11. /\ Sending' /\ Place' = 0 /\ tl'.packet_offset # 0
         /\ dl_frame'.from < Size'
         /\ dl_frame' = FragmentAt(Current', dl_frame'.from, Size')
         /\ tl'.packet_offset = dl_frame'.from + dl_frame'.len
    BY <1>4, <1>5, <1>7, <1>8, <1>9, <1>10, SendingFacts
  <1>12. dev.executed \in Nat /\ dev.executed <= Current
    BY <1>2 DEF XInv, Contents, Commanded, Device
  <1>13. dev.executed < number
    BY <1>5, <1>12
  <1>14. Commanded'
    BY <1>1, <1>2, <1>4, <1>5, <1>7, <1>9, <1>10, <1>11, <1>12, <1>13
    DEF XInv, Contents, Commanded
  <1>15. dev'.executed # Current' /\ dev'.executed # hist'.current
    BY <1>1, <1>10, <1>12, <1>13 DEF Current
  <1>16. ~Running' /\ ~Draining'
    BY <1>1, <1>9 DEF Running, Draining
  <1>17. CommandSync' /\ Once' /\ Offered' /\ AnswerSync' /\ GivenUp'
    BY <1>9, <1>11, <1>15, <1>16 DEF CommandSync, Once, Offered, AnswerSync, GivenUp
  <1>18. WholeAnswer' /\ ExecutesWhole' /\ Drained' /\ TrueSuccess'
    BY <1>10, <1>15 DEF WholeAnswer, ExecutesWhole, Drained, TrueSuccess
  <1> QED BY <1>14, <1>17, <1>18 DEF Contents

LEMMA TlInitContents ==
  ASSUME XInv, TlInit
  PROVE  Contents'
  <1>1. /\ hist.outcome # "pending" /\ dl' = "idle" /\ hist' = hist
        /\ tl' = [tl EXCEPT !.state = "IDLE", !.initialization_state = TRUE]
        /\ dev' = [dev EXCEPT !.prev = "NO", !.got = 0, !.complains = FALSE, !.of = 0]
    BY DEF TlInit, TlReset
  <1>2. tl \in TL /\ dev \in Device
    BY TypeParts DEF XInv, TInv
  <1>3. tl'.state = "IDLE" /\ tl'.previous_chaining = tl.previous_chaining
    BY <1>1, <1>2 DEF TL
  <1>4. /\ dev'.of = 0 /\ ~dev'.complains /\ dev'.executed = dev.executed
        /\ dev'.times = dev.times /\ dev'.whole = dev.whole /\ dev'.length = dev.length
    BY <1>1, <1>2 DEF Device
  <1>5. ~Alive' /\ ~Sending' /\ Current' = Current
    BY <1>1 DEF Alive, Sending, Current
  <1>6. Commanded'
    BY <1>1, <1>3, <1>4, <1>5 DEF XInv, Contents, Commanded
  <1>7. CommandSync' /\ Offered' /\ AnswerSync' /\ GivenUp'
    BY <1>1, <1>5 DEF CommandSync, Offered, AnswerSync, Assembling, GivenUp
  <1>8. Once'
    BY <1>1, <1>4, <1>5 DEF XInv, Contents, Once
  <1>9. WholeAnswer' /\ ExecutesWhole' /\ TrueSuccess'
    BY <1>1, <1>4, <1>5 DEF XInv, Contents, WholeAnswer, ExecutesWhole, TrueSuccess
  <1>10. Drained'
    BY <1>4 DEF Drained, HasToSay
  <1> QED BY <1>6, <1>7, <1>8, <1>9, <1>10 DEF Contents

LEMMA InitContents == Init => Contents
  <1> SUFFICES ASSUME Init PROVE Contents
    OBVIOUS
  <1>1. ~Alive /\ ~Sending /\ Current = 0
    BY DEF Init, Alive, Sending, Current
  <1>2. Commanded
    BY <1>1 DEF Init, Commanded, DeviceReset, Sending
  <1>3. CommandSync /\ Offered /\ AnswerSync /\ GivenUp
    BY <1>1 DEF Init, CommandSync, Offered, AnswerSync, Assembling, GivenUp
  <1>4. Once
    BY <1>1 DEF Init, Once, DeviceReset
  <1>5. WholeAnswer /\ ExecutesWhole /\ Drained /\ TrueSuccess
    BY DEF Init, WholeAnswer, ExecutesWhole, Drained, TrueSuccess, DeviceReset
  <1> QED BY <1>2, <1>3, <1>4, <1>5 DEF Contents

-----------------------------------------------------------------------------
(* The device takes a part of the command                                   *)

\* What a device d, after the fragments in rt were taken twice, may have
\* executed and may answer.
Knows(d, rt) ==
  /\ d.executed <= Current /\ d.of \in {0, d.executed}
  /\ d.executed = Current => d.whole \/ "INTERMEDIATE" \in rt

\* CommandSync of a device that is sent the command from place on.
Synced(d, place, rt) ==
  place # 0 =>
    /\ d.of \in {0, Current}
    /\ d.prev \in Open => (d.got = place /\ d.sound) \/ "INTERMEDIATE" \in rt

\* Once of a device that is sent the command from place on.
OnceOnly(d, place, rt) ==
  d.executed = Current /\ ~hist.odd /\ rt \cap {"NO", "LAST"} = {} =>
    d.times <= 1 /\ place = Size /\ ~d.complains

Agrees(d, place, rt) == Knows(d, rt) /\ Synced(d, place, rt) /\ OnceOnly(d, place, rt)

LEMMA RefusesFacts ==
  ASSUME NEW d \in Device
  PROVE  LET r == Refuses(d)
         IN /\ r.prev = "NO" /\ r.of = 0 /\ r.executed = d.executed /\ r.whole = d.whole
            /\ r.times = d.times
  BY DEF Refuses, Device

LEMMA AcceptsFacts ==
  ASSUME NEW d \in Device, NEW f \in Fragment, NEW n \in AnswerLengths
  PROVE  LET a == Accepts(d, f, n)
             before == IF f.chain \in {"NO", "FIRST"} THEN 0 ELSE d.got
             sound == f.from = before /\ (before = 0 \/ d.sound)
         IN /\ a.got = before + f.len /\ (a.sound <=> sound) /\ ~a.complains
            /\ IF f.chain \in {"NO", "LAST"}
                 THEN /\ a.prev = "NO" /\ a.of = f.of /\ a.executed = f.of
                      /\ (a.whole <=> sound)
                      /\ a.times = IF d.executed = f.of THEN Again(d.times) ELSE 1
                 ELSE /\ a.prev = f.chain /\ a.of = 0 /\ a.executed = d.executed
                      /\ a.whole = d.whole /\ a.times = d.times
  <1> DEFINE before == IF f.chain \in {"NO", "FIRST"} THEN 0 ELSE d.got
             sound == f.from = before /\ (before = 0 \/ d.sound)
             taken == [d EXCEPT !.got = before + f.len, !.sound = sound,
                                !.complains = FALSE, !.of = 0]
             times == IF d.executed = f.of THEN Again(d.times) ELSE 1
  <1>1. Accepts(d, f, n) =
          IF f.chain \in {"NO", "LAST"}
            THEN [taken EXCEPT !.prev = "NO", !.of = f.of, !.length = n, !.sent = 0,
                               !.executed = f.of, !.whole = sound, !.times = times]
            ELSE [taken EXCEPT !.prev = f.chain]
    BY DEF Accepts
  <1>2. sound \in BOOLEAN
    OBVIOUS
  <1>3. /\ taken.got = before + f.len /\ taken.sound = sound /\ taken.complains = FALSE
        /\ taken.of = 0 /\ taken.executed = d.executed /\ taken.whole = d.whole
        /\ taken.times = d.times
        /\ taken \in Device
    <2>1. before + f.len \in Nat
      BY DEF Device, Fragment
    <2> HIDE DEF before, sound, times
    <2> QED BY <1>2, <2>1 DEF Device
  <1> HIDE DEF before, sound, taken, times
  <1>4. CASE f.chain \in {"NO", "LAST"}
    BY <1>1, <1>2, <1>3, <1>4 DEF before, sound, times, Device
  <1>5. CASE f.chain \notin {"NO", "LAST"}
    BY <1>1, <1>2, <1>3, <1>5 DEF before, sound, Device
  <1> QED BY <1>4, <1>5

\* A fragment of the command is taken where the device expects it.
LEMMA TakesAgrees ==
  ASSUME XInv, NEW d \in Device, NEW from \in Nat, NEW rt, Current \in Nat \ {0}, Size \in Nat,
         from < Size, Agrees(d, from, rt), NEW n \in AnswerLengths
  PROVE  LET f == FragmentAt(Current, from, Size)
             a == DeviceTakes(d, f, n)
         IN Agrees(a, from + f.len, rt) /\ (f.chain \in {"NO", "LAST"} => a.prev = "NO")
  <1> DEFINE f == FragmentAt(Current, from, Size)
             a == DeviceTakes(d, f, n)
  <1>1. /\ f \in Fragment /\ f.of = Current /\ f.from = from
        /\ f.len # 0 /\ from + f.len <= Size /\ f.chain # "ERROR"
        /\ f.chain \in {"NO", "FIRST"} <=> from = 0
        /\ f.chain \in {"NO", "LAST"} <=> from + f.len = Size
    BY FragmentParts
  <1>2. f.chain \in Chain /\ f.len \in Nat
    BY <1>1 DEF Fragment
  <1>3. d.executed = Current => hist.odd \/ rt \cap {"NO", "LAST"} # {}
    BY DEF Agrees, OnceOnly
  <1>4. /\ d.executed \in Nat /\ d.executed <= Current
        /\ d.of \in {0, d.executed}
        /\ d.executed = Current => d.whole \/ "INTERMEDIATE" \in rt
    BY DEF Agrees, Knows, Device
  <1>5. CASE d.prev \notin AllowedBefore(f.chain)
    <2>1. a = Refuses(d)
      BY <1>1, <1>5 DEF DeviceTakes
    <2>2. a.prev = "NO" /\ a.of = 0 /\ a.executed = d.executed /\ a.whole = d.whole
      BY <2>1, RefusesFacts
    <2> HIDE DEF a, f
    <2> QED BY <1>3, <1>4, <2>2 DEF Agrees, Knows, Synced, OnceOnly, Open, a, f
  <1>6. CASE d.prev \in AllowedBefore(f.chain)
    <2> DEFINE before == IF f.chain \in {"NO", "FIRST"} THEN 0 ELSE d.got
               sound == f.from = before /\ (before = 0 \/ d.sound)
    <2>1. a = Accepts(d, f, n)
      BY <1>1, <1>6 DEF DeviceTakes
    <2> HIDE DEF f
    <2>2. /\ a.got = before + f.len /\ (a.sound <=> sound) /\ ~a.complains
          /\ IF f.chain \in {"NO", "LAST"}
               THEN /\ a.prev = "NO" /\ a.of = f.of /\ a.executed = f.of
                    /\ (a.whole <=> sound)
                    /\ a.times = IF d.executed = f.of THEN Again(d.times) ELSE 1
               ELSE /\ a.prev = f.chain /\ a.of = 0 /\ a.executed = d.executed
                    /\ a.whole = d.whole /\ a.times = d.times
      BY <1>1, <2>1, AcceptsFacts
    <2> HIDE DEF a
    <2>3. (before = from /\ sound) \/ "INTERMEDIATE" \in rt
      <3>1. CASE from = 0
        BY <1>1, <3>1
      <3>2. CASE from # 0
        <4>1. f.chain \in {"INTERMEDIATE", "LAST"}
          BY <1>1, <1>2, <3>2 DEF Chain
        <4>2. d.prev \in Open
          BY <1>6, <4>1 DEF AllowedBefore, Open
        <4>3. (d.got = from /\ d.sound) \/ "INTERMEDIATE" \in rt
          BY <3>2, <4>2 DEF Agrees, Synced
        <4> QED BY <1>1, <4>1, <4>3
      <3> QED BY <3>1, <3>2
    <2> HIDE DEF before, sound
    <2>4. CASE f.chain \in {"NO", "LAST"}
      <3>1. /\ a.prev = "NO" /\ a.of = Current /\ a.executed = Current /\ (a.whole <=> sound)
            /\ ~a.complains
            /\ a.times = IF d.executed = Current THEN Again(d.times) ELSE 1
        BY <1>1, <2>2, <2>4
      <3>2. Knows(a, rt) /\ Synced(a, from + f.len, rt)
        BY <2>3, <3>1 DEF Knows, Synced, Open
      <3>3. OnceOnly(a, from + f.len, rt)
        BY <1>1, <1>3, <2>4, <3>1 DEF OnceOnly
      <3> QED BY <3>1, <3>2, <3>3 DEF Agrees, a, f
    <2>5. CASE f.chain \notin {"NO", "LAST"}
      <3>1. /\ a.of = 0 /\ a.executed = d.executed /\ a.whole = d.whole
            /\ a.got = before + f.len /\ (a.sound <=> sound)
        BY <2>2, <2>5
      <3>2. Knows(a, rt)
        BY <1>4, <3>1 DEF Knows
      <3>3. Synced(a, from + f.len, rt)
        BY <2>3, <3>1 DEF Synced
      <3>4. OnceOnly(a, from + f.len, rt)
        BY <1>3, <3>1 DEF OnceOnly
      <3> QED BY <2>5, <3>2, <3>3, <3>4 DEF Agrees, a, f
    <2> QED BY <2>4, <2>5
  <1> QED BY <1>5, <1>6

\* The same fragment comes once more: it is refused, or begins again, or
\* repeats what the chaining cannot tell.
LEMMA TakesAgain ==
  ASSUME XInv, NEW d \in Device, NEW from \in Nat, NEW rt, Current \in Nat \ {0}, Size \in Nat,
         from < Size, NEW n \in AnswerLengths,
         LET f == FragmentAt(Current, from, Size)
         IN /\ Agrees(d, from + f.len, rt) /\ f.chain \in rt
            /\ f.chain \in {"NO", "LAST"} => d.prev = "NO"
  PROVE  LET f == FragmentAt(Current, from, Size)
         IN Agrees(DeviceTakes(d, f, n), from + f.len, rt)
  <1> DEFINE f == FragmentAt(Current, from, Size)
             a == DeviceTakes(d, f, n)
             place == from + f.len
  <1>1. /\ f \in Fragment /\ f.of = Current /\ f.from = from
        /\ f.len # 0 /\ place <= Size /\ f.chain # "ERROR"
        /\ f.chain \in {"NO", "FIRST"} <=> from = 0
        /\ f.chain \in {"NO", "LAST"} <=> place = Size
    BY FragmentParts
  <1>2. f.chain \in Chain /\ f.len \in Nat
    BY <1>1 DEF Fragment
  <1>3. d.executed = Current => hist.odd \/ rt \cap {"NO", "LAST"} # {}
    <2>1. CASE f.chain \in {"NO", "LAST"}
      BY <2>1
    <2>2. CASE f.chain \notin {"NO", "LAST"}
      BY <1>1, <2>2 DEF Agrees, OnceOnly
    <2> QED BY <2>1, <2>2
  <1>4. /\ d.executed \in Nat /\ d.executed <= Current
        /\ d.of \in {0, d.executed}
        /\ d.executed = Current => d.whole \/ "INTERMEDIATE" \in rt
        /\ f.chain \in rt /\ (f.chain \in {"NO", "LAST"} => d.prev = "NO")
    BY DEF Agrees, Knows, Device
  <1>5. CASE d.prev \notin AllowedBefore(f.chain)
    <2>1. a = Refuses(d)
      BY <1>1, <1>5 DEF DeviceTakes
    <2>2. a.prev = "NO" /\ a.of = 0 /\ a.executed = d.executed /\ a.whole = d.whole
      BY <2>1, RefusesFacts
    <2> HIDE DEF a, f
    <2> QED BY <1>3, <1>4, <2>2 DEF Agrees, Knows, Synced, OnceOnly, Open, a, f
  <1>6. CASE d.prev \in AllowedBefore(f.chain)
    <2> DEFINE before == IF f.chain \in {"NO", "FIRST"} THEN 0 ELSE d.got
               sound == f.from = before /\ (before = 0 \/ d.sound)
    <2>1. a = Accepts(d, f, n)
      BY <1>1, <1>6 DEF DeviceTakes
    <2> HIDE DEF f, place
    <2>2. /\ a.got = before + f.len /\ (a.sound <=> sound) /\ ~a.complains
          /\ IF f.chain \in {"NO", "LAST"}
               THEN /\ a.prev = "NO" /\ a.of = f.of /\ a.executed = f.of
                    /\ (a.whole <=> sound)
                    /\ a.times = IF d.executed = f.of THEN Again(d.times) ELSE 1
               ELSE /\ a.prev = f.chain /\ a.of = 0 /\ a.executed = d.executed
                    /\ a.whole = d.whole /\ a.times = d.times
      BY <1>1, <2>1, AcceptsFacts
    <2> HIDE DEF a
    <2>3. f.chain # "LAST"
      BY <1>4, <1>6 DEF AllowedBefore
    <2>4. (before = from /\ sound) \/ f.chain = "INTERMEDIATE"
      BY <1>1, <1>2, <2>3 DEF Chain
    <2> HIDE DEF before, sound
    <2>5. (before = from /\ sound) \/ "INTERMEDIATE" \in rt
      BY <1>4, <2>4
    <2>6. CASE f.chain = "NO"
      <3>1. a.prev = "NO" /\ a.of = Current /\ a.executed = Current /\ (a.whole <=> sound)
        BY <1>1, <2>2, <2>6
      <3>2. Knows(a, rt) /\ Synced(a, place, rt)
        BY <2>5, <3>1 DEF Knows, Synced, Open
      <3>3. OnceOnly(a, place, rt)
        BY <1>4, <2>6 DEF OnceOnly
      <3> QED BY <3>2, <3>3 DEF Agrees, a, f, place
    <2>7. CASE f.chain \notin {"NO", "LAST"}
      <3>1. /\ a.of = 0 /\ a.executed = d.executed /\ a.whole = d.whole
            /\ a.got = before + f.len /\ (a.sound <=> sound)
        BY <2>2, <2>7
      <3>2. Knows(a, rt)
        BY <1>4, <3>1 DEF Knows
      <3>3. Synced(a, place, rt)
        BY <2>5, <3>1 DEF Synced, place
      <3>4. OnceOnly(a, place, rt)
        BY <1>3, <3>1 DEF OnceOnly
      <3> QED BY <3>2, <3>3, <3>4 DEF Agrees, a, f, place
    <2> QED BY <2>3, <2>6, <2>7
  <1> QED BY <1>5, <1>6

\* More repetitions excuse more.
LEMMA AgreesMore ==
  ASSUME NEW d, NEW place, NEW rt, NEW more, rt \subseteq more, Agrees(d, place, rt)
  PROVE  Agrees(d, place, more)
  <1>1. Knows(d, more) /\ Synced(d, place, more)
    BY DEF Agrees, Knows, Synced
  <1>2. OnceOnly(d, place, more)
    BY DEF Agrees, OnceOnly
  <1> QED BY <1>1, <1>2 DEF Agrees

\* The host's complaint makes the device begin its answer again, no more.
LEMMA ComplaintAgrees ==
  ASSUME NEW d \in Device, NEW place, NEW rt, Agrees(d, place, rt), NEW n
  PROVE  Agrees(DeviceTakes(d, ChainingError, n), place, rt)
  <1> DEFINE a == DeviceTakes(d, ChainingError, n)
  <1>1. a = [d EXCEPT !.sent = 0, !.complains = FALSE]
    BY ComplaintFacts DEF DeviceTakes
  <1>2. /\ a.prev = d.prev /\ a.got = d.got /\ a.sound = d.sound /\ a.of = d.of
        /\ a.executed = d.executed /\ a.whole = d.whole /\ a.times = d.times /\ ~a.complains
    BY <1>1 DEF Device
  <1> HIDE DEF a
  <1> QED BY <1>2 DEF Agrees, Knows, Synced, OnceOnly, a

\* What the device says.
LEMMA SaysAgrees ==
  ASSUME NEW d \in Device, HasToSay(d), NEW place, NEW rt, Agrees(d, place, rt), place # 0,
         Current \in Nat \ {0}
  PROVE  LET f == Says(d)
             s == HasSaid(d)
         IN /\ f \in Fragment /\ Agrees(s, place, rt)
            /\ d.complains => f = ChainingError
            /\ ~d.complains =>
                 /\ d.of = Current /\ d.sent < d.length
                 /\ f = FragmentAt(Current, d.sent, d.length)
                 /\ f.from = d.sent /\ f.chain # "ERROR"
                 /\ s.of = Current /\ ~s.complains /\ s.length = d.length
                 /\ s.sent = f.from + f.len
  <1>1. d.of \in Nat /\ d.length \in Nat /\ d.sent \in Nat
    BY DEF Device
  <1>2. CASE d.complains
    <2>1. Says(d) = ChainingError /\ HasSaid(d) = [d EXCEPT !.complains = FALSE]
      BY <1>2 DEF Says, HasSaid
    <2> DEFINE s == [d EXCEPT !.complains = FALSE]
    <2>2. /\ s.prev = d.prev /\ s.got = d.got /\ s.sound = d.sound /\ s.of = d.of
          /\ s.executed = d.executed /\ s.whole = d.whole /\ s.times = d.times /\ ~s.complains
      BY DEF Device
    <2> HIDE DEF s
    <2>3. Agrees(s, place, rt)
      BY <2>2 DEF Agrees, Knows, Synced, OnceOnly
    <2> QED BY <1>2, <2>1, <2>3, ComplaintFacts DEF s
  <1>3. CASE ~d.complains
    <2>1. d.of # 0 /\ d.sent < d.length
      BY <1>3, Zenon DEF HasToSay
    <2>2. d.of = Current
      BY <2>1 DEF Agrees, Synced
    <2> DEFINE f == FragmentAt(d.of, d.sent, d.length)
               k == Lesser(MaxPacket, d.length - d.sent)
               s == [d EXCEPT !.sent = d.sent + k]
    <2>3. Says(d) = f /\ HasSaid(d) = s
      BY <1>3, Zenon DEF Says, HasSaid
    <2>4. f \in Fragment /\ f.from = d.sent /\ f.chain # "ERROR"
      BY <1>1, <2>1, FragmentParts
    <2>5. f.len = k
      BY DEF FragmentAt
    <2> HIDE DEF f, k
    <2>6. /\ s.prev = d.prev /\ s.got = d.got /\ s.sound = d.sound /\ s.of = d.of
          /\ s.executed = d.executed /\ s.whole = d.whole /\ s.times = d.times
          /\ s.complains = d.complains /\ s.length = d.length /\ s.sent = d.sent + k
      BY DEF Device
    <2> HIDE DEF s
    <2>7. Agrees(s, place, rt)
      BY <2>6 DEF Agrees, Knows, Synced, OnceOnly
    <2> QED BY <1>3, <2>1, <2>2, <2>3, <2>4, <2>5, <2>6, <2>7 DEF f
  <1> QED BY <1>2, <1>3

-----------------------------------------------------------------------------
(* The data link has an event                                               *)

\* While the data link works the handler waits and the device agrees with it.
LEMMA WaitingFacts ==
  ASSUME XInv, dl # "idle"
  PROVE  /\ TInv /\ ~Running /\ Alive /\ hist.outcome = "pending"
         /\ tl \in TL /\ hist \in History /\ dev \in Device /\ dl_frame \in Fragment
         /\ Current \in Nat \ {0} /\ Size \in Nat /\ tl.packet_offset \in Nat \ {0}
         /\ dl = "tx" => tl.state = "TX"
         /\ dl = "rx" => tl.state = "RX"
         /\ tl.state \in {"TX", "RX"}
         /\ Agrees(dev, Place, hist.repeated_tx)
  <1>1. TransportTypeOK /\ Usable /\ Expected /\ TInv
    BY DEF XInv, TInv
  <1>2. hist.outcome = "pending" /\ ~Running
    BY <1>1 DEF Usable
  <1>3. /\ tl \in TL /\ hist \in History /\ dev \in Device /\ dl_frame \in Fragment
        /\ dl \in {"idle", "tx", "rx"}
    BY <1>1, TypeParts
  <1>4. Alive
    BY <1>2 DEF Alive, Running
  <1>5. Current \in Nat \ {0} /\ Size \in Nat /\ tl.packet_offset \in Nat \ {0}
    BY <1>2, <1>3 DEF XInv, Contents, Commanded, Current, Size, History, TL
  <1>6. Knows(dev, hist.repeated_tx)
    BY DEF XInv, Contents, Commanded, ExecutesWhole, Knows, Current
  <1>7. Synced(dev, Place, hist.repeated_tx)
    BY <1>4 DEF XInv, Contents, CommandSync, Synced
  <1>8. OnceOnly(dev, Place, hist.repeated_tx)
    BY <1>2 DEF XInv, Contents, Once, OnceOnly
  <1> QED BY <1>1, <1>2, <1>3, <1>4, <1>5, <1>6, <1>7, <1>8 DEF Expected, Agrees

\* What an event leaves of the contents.
LEMMA EventContents ==
  ASSUME XInv, dl # "idle", NEW e, LinkEvent(e),
         hist'.current = hist.current, hist'.outcome = hist.outcome,
         hist.odd => hist'.odd,
         Knows(dev', hist'.repeated_tx),
         OnceOnly(dev', tl.packet_offset, hist'.repeated_tx),
         e.kind # "error" => Synced(dev', tl.packet_offset, hist'.repeated_tx),
         dev'.executed = Current /\ ~hist'.odd /\ hist'.repeated_tx \cap {"NO", "LAST"} = {}
           => e.frame.chain # "ERROR",
         Offered', AnswerSync'
  PROVE  Contents'
  <1>1. /\ hist.outcome = "pending" /\ tl.state \in {"TX", "RX"}
    BY WaitingFacts DEF XInv
  <1>2. tl' = tl /\ dl_frame' = dl_frame /\ dl' = "idle" /\ event' = e
    BY DEF LinkEvent
  <1>3. /\ ~Sending' /\ Place' = tl.packet_offset /\ Size' = Size /\ Current' = Current
        /\ chaining' = e.frame.chain
    BY <1>2 DEF Sending, Place, Size, Current, chaining
  <1>4. Commanded'
    BY <1>1, <1>2, <1>3 DEF XInv, Contents, Commanded, Knows
  <1>5. CommandSync'
    BY <1>2, <1>3 DEF CommandSync, Synced, Alive
  <1>6. Once'
    BY <1>1, <1>2, <1>3 DEF Once, OnceOnly
  <1>7. GivenUp'
    BY <1>1, <1>2 DEF XInv, Contents, GivenUp, Draining
  <1>8. ExecutesWhole'
    BY <1>3 DEF ExecutesWhole, Knows, Current
  <1>9. WholeAnswer' /\ Drained' /\ TrueSuccess'
    BY <1>1 DEF WholeAnswer, Drained, TrueSuccess
  <1> QED BY <1>4, <1>5, <1>6, <1>7, <1>8, <1>9 DEF Contents

\* What the device has of a command that is sent, or of a complaint, once and
\* twice.
LEMMA TakenAgrees ==
  ASSUME XInv, dl = "tx", NEW n \in AnswerLengths, NEW twice \in BOOLEAN
  PROVE  LET once == DeviceTakes(dev, dl_frame, n)
             d == IF twice THEN DeviceTakes(once, dl_frame, n) ELSE once
         IN /\ d \in Device
            /\ Agrees(d, tl.packet_offset, Noted(hist, twice).repeated_tx)
  <1> DEFINE once == DeviceTakes(dev, dl_frame, n)
             again == DeviceTakes(once, dl_frame, n)
             rt == hist.repeated_tx
             more == rt \cup {dl_frame.chain}
  <1>1. /\ dev \in Device /\ dl_frame \in Fragment /\ hist \in History
        /\ Current \in Nat \ {0} /\ Size \in Nat /\ Agrees(dev, Place, rt)
    BY WaitingFacts
  <1>2. once \in Device /\ again \in Device
    BY <1>1, DeviceTakesFacts
  <1>3. Noted(hist, twice).repeated_tx = IF twice THEN more ELSE rt
    BY <1>1 DEF Noted, History
  <1>4. Agrees(once, tl.packet_offset, rt) /\ Agrees(again, tl.packet_offset, more)
    <2>1. CASE Sending
      <3> DEFINE from == dl_frame.from
      <3>1. /\ from < Size /\ dl_frame = FragmentAt(Current, from, Size)
            /\ tl.packet_offset = from + dl_frame.len /\ Place = from /\ from \in Nat
        BY <1>1, <2>1 DEF XInv, Contents, Commanded, Place, Fragment
      <3> HIDE DEF from, once, again, more, rt
      <3>2. /\ Agrees(once, from + dl_frame.len, rt)
            /\ dl_frame.chain \in {"NO", "LAST"} => once.prev = "NO"
        BY <1>1, <3>1, TakesAgrees DEF once
      <3>3. Agrees(once, from + dl_frame.len, more)
        BY <3>2, AgreesMore DEF more
      <3>4. dl_frame.chain \in more
        BY DEF more
      <3>5. Agrees(again, from + dl_frame.len, more)
        BY <1>1, <1>2, <3>1, <3>2, <3>3, <3>4, TakesAgain DEF again
      <3> QED BY <3>1, <3>2, <3>5
    <2>2. CASE ~Sending
      <3>1. dl_frame = ChainingError /\ Place = tl.packet_offset
        BY <2>2 DEF XInv, Contents, Commanded, Place
      <3>2. Agrees(once, Place, rt)
        BY <1>1, <3>1, ComplaintAgrees
      <3>3. Agrees(again, Place, rt)
        BY <1>2, <3>1, <3>2, ComplaintAgrees
      <3>4. Agrees(again, Place, more)
        BY <3>3, AgreesMore
      <3> QED BY <3>1, <3>2, <3>4
    <2> QED BY <2>1, <2>2
  <1> HIDE DEF once, again
  <1> QED BY <1>2, <1>3, <1>4 DEF once, again

\* What it has when nothing was taken.
LEMMA UntakenAgrees ==
  ASSUME XInv, dl # "idle"
  PROVE  /\ Knows(dev, hist.repeated_tx)
         /\ OnceOnly(dev, tl.packet_offset, hist.repeated_tx)
         /\ dl = "rx" => Synced(dev, tl.packet_offset, hist.repeated_tx)
  <1>1. Agrees(dev, Place, hist.repeated_tx) /\ dl_frame \in Fragment /\ Size \in Nat
    BY WaitingFacts
  <1>2. CASE Sending
    <2>1. Place < Size /\ Place \in Nat
      BY <1>1, <1>2 DEF XInv, Contents, Commanded, Place, Fragment
    <2>2. Place # Size
      BY <1>1, <2>1
    <2> QED BY <1>1, <1>2, <2>2 DEF Agrees, OnceOnly, Sending
  <1>3. CASE ~Sending
    BY <1>1, <1>3 DEF Agrees, Place
  <1> QED BY <1>2, <1>3

LEMMA NotedParts ==
  ASSUME NEW twice \in BOOLEAN, hist \in History
  PROVE  LET h == Noted(hist, twice)
         IN /\ h.current = hist.current /\ h.outcome = hist.outcome /\ h.odd = hist.odd
            /\ h.sound = hist.sound
            /\ hist.repeated_tx \subseteq h.repeated_tx
            /\ hist.repeated_rx \subseteq h.repeated_rx
            /\ dl # "tx" =>
                 /\ h.repeated_tx = hist.repeated_tx
                 /\ twice => Says(dev).chain \in h.repeated_rx
  BY DEF Noted, History

LEMMA DlSentContents ==
  ASSUME XInv, NEW n \in AnswerLengths, NEW twice \in BOOLEAN, NEW answered \in BOOLEAN,
         DlSent(n, twice, answered)
  PROVE  Contents'
  <1> DEFINE once == DeviceTakes(dev, dl_frame, n)
             d == IF twice THEN DeviceTakes(once, dl_frame, n) ELSE once
             h == Noted(hist, twice)
  <1>1. /\ dl = "tx" /\ hist' = h
        /\ IF answered
             THEN HasToSay(d) /\ LinkEvent(EventOf("txrx", Says(d))) /\ dev' = HasSaid(d)
             ELSE LinkEvent(Silent("tx")) /\ dev' = d
    BY DEF DlSent
  <1>2. /\ hist \in History /\ tl.state = "TX" /\ tl.packet_offset \in Nat \ {0}
        /\ Current \in Nat \ {0}
    BY <1>1, WaitingFacts
  <1>3. d \in Device /\ Agrees(d, tl.packet_offset, h.repeated_tx)
    BY <1>1, TakenAgrees
  <1>4. h.current = hist.current /\ h.outcome = hist.outcome /\ h.odd = hist.odd
    BY <1>2, NotedParts
  <1>5. tl' = tl
    BY <1>1 DEF LinkEvent
  <1>6. AnswerSync'
    BY <1>2, <1>5 DEF AnswerSync
  <1> HIDE DEF d, h
  <1>7. CASE answered
    <2> DEFINE f == Says(d)
               s == HasSaid(d)
               e == EventOf("txrx", f)
    <2>1. HasToSay(d) /\ LinkEvent(e) /\ dev' = s
      BY <1>1, <1>7
    <2>2. /\ f \in Fragment /\ Agrees(s, tl.packet_offset, h.repeated_tx)
          /\ d.complains => f = ChainingError
          /\ ~d.complains =>
               /\ d.of = Current /\ d.sent < d.length
               /\ f = FragmentAt(Current, d.sent, d.length)
               /\ f.from = d.sent /\ f.chain # "ERROR"
               /\ s.of = Current /\ ~s.complains /\ s.length = d.length
               /\ s.sent = f.from + f.len
      BY <1>2, <1>3, <2>1, SaysAgrees
    <2>3. s.executed = d.executed
      BY <1>3, <2>1 DEF HasSaid, Device
    <2> HIDE DEF f, s
    <2>4. e.frame = f /\ e.data_len = f.len + 1 /\ e.kind = "txrx"
      BY DEF EventOf
    <2> HIDE DEF e
    <2>5. event' = e
      BY <2>1 DEF LinkEvent
    <2>6. Offered'
      <3>1. CASE d.complains
        BY <2>2, <2>4, <2>5, <3>1, ComplaintFacts DEF Offered, data_len
      <3>2. CASE ~d.complains
        BY <1>1, <1>4, <2>1, <2>2, <2>4, <2>5, <3>2
        DEF Offered, data_len, chaining, Current
      <3> QED BY <3>1, <3>2
    <2>7. s.executed = Current /\ ~hist.odd /\ h.repeated_tx \cap {"NO", "LAST"} = {}
            => f.chain # "ERROR"
      BY <1>3, <2>2, <2>3 DEF Agrees, OnceOnly
    <2> QED BY <1>1, <1>4, <1>6, <2>1, <2>2, <2>4, <2>6, <2>7, EventContents DEF Agrees
  <1>8. CASE ~answered
    <2> DEFINE e == Silent("tx")
    <2>1. LinkEvent(e) /\ dev' = d
      BY <1>1, <1>8
    <2>2. e.kind = "tx" /\ e.frame.chain = "NO"
      BY NoEventFacts
    <2> HIDE DEF e
    <2>3. event' = e
      BY <2>1 DEF LinkEvent
    <2>4. Offered'
      BY <2>2, <2>3 DEF Offered
    <2> QED BY <1>1, <1>3, <1>4, <1>6, <2>1, <2>2, <2>4, EventContents DEF Agrees
  <1> QED BY <1>7, <1>8

LEMMA DlReceivedContents ==
  ASSUME XInv, NEW twice \in BOOLEAN, DlReceived(twice)
  PROVE  Contents'
  <1> DEFINE h == Noted(hist, twice)
             f == Says(dev)
             s == HasSaid(dev)
             e == EventOf("rx", f)
             rt == hist.repeated_tx
  <1>1. /\ dl = "rx" /\ HasToSay(dev) /\ LinkEvent(e) /\ hist' = h
        /\ dev' = IF twice THEN dev ELSE s
    BY DEF DlReceived
  <1>2. /\ hist \in History /\ tl.state = "RX" /\ tl.packet_offset \in Nat \ {0}
        /\ dev \in Device /\ Current \in Nat \ {0} /\ Alive
    BY <1>1, WaitingFacts
  <1>3. Agrees(dev, tl.packet_offset, rt)
    BY <1>1, UntakenAgrees DEF Agrees
  <1>4. /\ h.current = hist.current /\ h.outcome = hist.outcome /\ h.odd = hist.odd
        /\ h.sound = hist.sound /\ h.repeated_tx = rt
        /\ hist.repeated_rx \subseteq h.repeated_rx
        /\ twice => f.chain \in h.repeated_rx
    BY <1>1, <1>2, NotedParts
  <1>5. /\ f \in Fragment /\ Agrees(s, tl.packet_offset, rt)
        /\ dev.complains => f = ChainingError
        /\ ~dev.complains =>
             /\ dev.of = Current /\ dev.sent < dev.length
             /\ f = FragmentAt(Current, dev.sent, dev.length)
             /\ f.from = dev.sent /\ f.chain # "ERROR"
             /\ s.of = Current /\ ~s.complains /\ s.length = dev.length
             /\ s.sent = f.from + f.len
    BY <1>1, <1>2, <1>3, SaysAgrees
  <1>6. s.executed = dev.executed
    BY <1>1, <1>2 DEF HasSaid, Device
  <1>7. e.frame = f /\ e.data_len = f.len + 1 /\ e.kind = "rx"
    BY DEF EventOf
  <1> HIDE DEF f, s, e, h
  <1>8. event' = e /\ tl' = tl /\ dl' = "idle"
    BY <1>1 DEF LinkEvent
  <1>9. Agrees(dev', tl.packet_offset, rt) /\ dev'.executed = dev.executed
    BY <1>1, <1>3, <1>5, <1>6
  <1>10. Offered'
    <2>1. CASE dev.complains
      BY <1>5, <1>7, <1>8, <2>1, ComplaintFacts DEF Offered, data_len
    <2>2. CASE ~dev.complains /\ ~twice
      BY <1>1, <1>4, <1>5, <1>7, <1>8, <2>2 DEF Offered, data_len, chaining, Current
    <2>3. CASE ~dev.complains /\ twice
      BY <1>1, <1>4, <1>5, <1>7, <1>8, <2>3 DEF Offered, data_len, chaining, Current
    <2> QED BY <2>1, <2>2, <2>3
  <1>11. AnswerSync'
    <2> SUFFICES ASSUME ~hist.odd, ~Draining, "INTERMEDIATE" \notin hist.repeated_rx
                 PROVE  /\ tl.previous_chaining \notin Open => tl.total_recv_length = 0
                        /\ tl.previous_chaining \in Open =>
                             /\ hist.sound
                             /\ f.chain # "ERROR" => f.from \in {0, tl.total_recv_length}
      BY <1>1, <1>2, <1>4, <1>7, <1>8 DEF AnswerSync, Assembling, chaining, Draining
    <2>1. /\ tl.previous_chaining \notin Open => tl.total_recv_length = 0
          /\ tl.previous_chaining \in Open =>
               /\ hist.sound
               /\ dev.of = Current => dev.sent \in {0, tl.total_recv_length}
      BY <1>1, <1>2 DEF XInv, Contents, AnswerSync, Assembling
    <2>2. f.chain # "ERROR" => dev.of = Current /\ f.from = dev.sent
      BY <1>5, ComplaintFacts
    <2> QED BY <2>1, <2>2
  <1>12. dev.executed = Current /\ ~hist.odd /\ rt \cap {"NO", "LAST"} = {}
           => f.chain # "ERROR"
    BY <1>3, <1>5 DEF Agrees, OnceOnly
  <1> QED BY <1>1, <1>4, <1>7, <1>9, <1>10, <1>11, <1>12, EventContents DEF Agrees

LEMMA DlStrangeContents ==
  ASSUME XInv, NEW f \in StrangeFragments, NEW n \in AnswerLengths, DlStrange(f, n)
  PROVE  Contents'
  <1> DEFINE e == EventOf(IF dl = "tx" THEN "txrx" ELSE "rx", f)
             rt == hist.repeated_tx
  <1>1. /\ dl # "idle" /\ LinkEvent(e) /\ hist' = [hist EXCEPT !.odd = TRUE]
        /\ dev' = IF dl = "tx" THEN DeviceTakes(dev, dl_frame, n) ELSE dev
    BY DEF DlStrange
  <1>2. hist \in History /\ dl \in {"idle", "tx", "rx"}
    BY <1>1, WaitingFacts, TypeParts DEF TInv
  <1>3. /\ hist'.current = hist.current /\ hist'.outcome = hist.outcome /\ hist'.odd
        /\ hist'.repeated_tx = rt
    BY <1>1, <1>2 DEF History
  <1>4. Agrees(dev', tl.packet_offset, rt)
    <2>1. CASE dl = "tx"
      <3>1. Agrees(DeviceTakes(dev, dl_frame, n), tl.packet_offset,
                   Noted(hist, FALSE).repeated_tx)
        BY <2>1, TakenAgrees
      <3> QED BY <1>1, <2>1, <3>1 DEF Noted
    <2>2. CASE dl = "rx"
      BY <1>1, <2>2, UntakenAgrees DEF Agrees
    <2> QED BY <1>1, <1>2, <2>1, <2>2
  <1>5. Offered' /\ AnswerSync'
    BY <1>3 DEF Offered, AnswerSync, Assembling
  <1> HIDE DEF e
  <1> QED BY <1>1, <1>3, <1>4, <1>5, EventContents DEF Agrees

LEMMA DlFailedContents ==
  ASSUME XInv, NEW n \in AnswerLengths, NEW taken \in BOOLEAN, DlFailed(n, taken)
  PROVE  Contents'
  <1> DEFINE e == Silent("error")
             rt == hist.repeated_tx
  <1>1. /\ dl # "idle" /\ LinkEvent(e) /\ hist' = hist /\ (taken => dl = "tx")
        /\ dev' = IF taken THEN DeviceTakes(dev, dl_frame, n) ELSE dev
    BY DEF DlFailed
  <1>2. e.kind = "error" /\ e.frame.chain = "NO"
    BY NoEventFacts
  <1>3. Knows(dev', rt) /\ OnceOnly(dev', tl.packet_offset, rt)
    <2>1. CASE taken
      <3>1. Agrees(DeviceTakes(dev, dl_frame, n), tl.packet_offset,
                   Noted(hist, FALSE).repeated_tx)
        BY <1>1, <2>1, TakenAgrees
      <3> QED BY <1>1, <2>1, <3>1 DEF Noted, Agrees
    <2>2. CASE ~taken
      BY <1>1, <2>2, UntakenAgrees
    <2> QED BY <2>1, <2>2
  <1> HIDE DEF e
  <1>4. Offered' /\ AnswerSync'
    BY <1>1, <1>2 DEF Offered, AnswerSync, Assembling, Alive, LinkEvent
  <1> QED BY <1>1, <1>2, <1>3, <1>4, EventContents

LEMMA DlTimeoutContents ==
  ASSUME XInv, DlTimeout
  PROVE  Contents'
  <1> DEFINE e == Silent("error")
  <1>1. dl # "idle" /\ LinkEvent(e) /\ hist' = hist /\ dev' = dev
    BY DEF DlTimeout
  <1>2. e.kind = "error" /\ e.frame.chain = "NO"
    BY NoEventFacts
  <1>3. /\ Knows(dev, hist.repeated_tx)
        /\ OnceOnly(dev, tl.packet_offset, hist.repeated_tx)
    BY <1>1, UntakenAgrees
  <1> HIDE DEF e
  <1>4. Offered' /\ AnswerSync'
    BY <1>1, <1>2 DEF Offered, AnswerSync, Assembling, Alive, LinkEvent
  <1> QED BY <1>1, <1>2, <1>3, <1>4, EventContents

-----------------------------------------------------------------------------
(* The theorems                                                             *)

LEMMA HandlerContents ==
  ASSUME XInv, Handler
  PROVE  Contents'
  BY TxLoopContents, TxNextFragmentContents, TxCompleteContents, RxLoopContents,
     RxDrainContents, RxCompleteContents, RxChainingContents, ChainingLoopContents,
     ChainingCopyContents, ResendLoopContents, ResendContents, SendChainingErrorContents,
     ReportErrorContents
  DEF Handler

LEMMA NextXInv == XInv /\ [Next]_vars => XInv'
  <1> SUFFICES ASSUME XInv, [Next]_vars PROVE Contents'
    BY NextTInv DEF XInv
  <1>1. CASE Handler
    BY <1>1, HandlerContents
  <1>2. CASE \E length \in CommandLengths, size \in BufferSizes : Transceive(length, size)
    BY <1>2, TransceiveContents
  <1>3. CASE TlInit
    BY <1>3, TlInitContents
  <1>4. CASE DlSends
    BY <1>4, DlSentContents DEF DlSends
  <1>5. CASE DlReceives
    BY <1>5, DlReceivedContents DEF DlReceives
  <1>6. CASE DlTimeout
    BY <1>6, DlTimeoutContents
  <1>7. CASE \E f \in StrangeFragments, n \in AnswerLengths : DlStrange(f, n)
    BY <1>7, DlStrangeContents
  <1>8. CASE \E n \in AnswerLengths, taken \in BOOLEAN : DlFailed(n, taken)
    BY <1>8, DlFailedContents
  <1>9. CASE UNCHANGED vars
    <2>1. /\ tl' = tl /\ event' = event /\ dl' = dl /\ dl_frame' = dl_frame
          /\ dev' = dev /\ hist' = hist
      BY <1>9 DEF vars
    <2>2. /\ Current' = Current /\ Size' = Size /\ (Sending' <=> Sending) /\ Place' = Place
          /\ (Alive' <=> Alive) /\ (Running' <=> Running) /\ (Draining' <=> Draining)
          /\ chaining' = chaining /\ data_len' = data_len
          /\ (ForDeviceToRepeat' <=> ForDeviceToRepeat)
          /\ (HasToSay(dev)' <=> HasToSay(dev))
      BY <2>1 DEF Current, Size, Sending, Place, Alive, Running, Draining, chaining,
        data_len, ForDeviceToRepeat, HasToSay
    <2>3. (Commanded /\ CommandSync /\ Once)'
      BY <2>1, <2>2 DEF XInv, Contents, Commanded, CommandSync, Once
    <2>4. (Offered /\ AnswerSync /\ GivenUp)'
      BY <2>1, <2>2 DEF XInv, Contents, Offered, AnswerSync, Assembling, GivenUp
    <2>5. (WholeAnswer /\ ExecutesWhole /\ Drained /\ TrueSuccess)'
      BY <2>1, <2>2 DEF XInv, Contents, WholeAnswer, ExecutesWhole, Drained, TrueSuccess
    <2> QED BY <2>3, <2>4, <2>5 DEF Contents
  <1> QED BY <1>1, <1>2, <1>3, <1>4, <1>5, <1>6, <1>7, <1>8, <1>9 DEF Next

LEMMA ExchangeInductive == Spec => []XInv
  <1>1. Init => XInv
    BY InitTInv, InitContents DEF XInv
  <1> QED BY <1>1, NextXInv, PTL DEF Spec

\* What a success hands up is the whole answer to this command, however the
\* chain was broken and repaired in between, unless an INTERMEDIATE fragment
\* was delivered twice (ifx_i2c_dl_event_handler, states RX and CHAINING).
THEOREM TransportWholeAnswer == Spec => []WholeAnswer
  <1>1. XInv => WholeAnswer
    BY DEF XInv, Contents
  <1> QED BY <1>1, ExchangeInductive, PTL

\* The device executes a command only as it was given to the layer, though the
\* layer sends it in fragments and may begin it again
\* (ifx_i2c_tl_send_next_fragment, ifx_i2c_tl_resend_packets).
THEOREM TransportExecutesWhole == Spec => []ExecutesWhole
  <1>1. XInv => ExecutesWhole
    BY DEF XInv, Contents
  <1> QED BY <1>1, ExchangeInductive, PTL

\* It executes it once, also when the layer sends all of it again, unless the
\* last fragment was delivered twice or the device spoke out of turn
\* (ifx_i2c_tl_resend_packets).
THEOREM TransportExecutesOnce == Spec => []ExecutesOnce
  <1>1. XInv => ExecutesOnce
    BY DEF XInv, Contents, Once, ExecutesOnce, Current
  <1> QED BY <1>1, ExchangeInductive, PTL

\* An answer that does not fit the buffer has been received to its end when the
\* layer reports that, so that the next exchange does not begin with the rest
\* of it (ifx_i2c_dl_event_handler, error_event in state RX).
THEOREM TransportDrained == Spec => []Drained
  <1>1. XInv => Drained
    BY DEF XInv, Contents
  <1> QED BY <1>1, ExchangeInductive, PTL

-----------------------------------------------------------------------------
(* The layer implements the abstract exchange                               *)

Exchanged == [Exchange!Next]_(Exchange!vars)

\* Only a fragment of the current command is ever executed.
LEMMA DeviceExecutes ==
  ASSUME NEW d \in Device, NEW f \in Fragment, NEW n \in AnswerLengths,
         f.chain = "ERROR" \/ f.of = Current
  PROVE  DeviceTakes(d, f, n).executed \in {d.executed, Current}
  <1>1. CASE f.chain = "ERROR"
    BY <1>1 DEF DeviceTakes, Device
  <1>2. CASE f.chain # "ERROR" /\ d.prev \in AllowedBefore(f.chain)
    <2>1. DeviceTakes(d, f, n) = Accepts(d, f, n)
      BY <1>2 DEF DeviceTakes
    <2> QED BY <1>2, <2>1, AcceptsFacts
  <1>3. CASE f.chain # "ERROR" /\ d.prev \notin AllowedBefore(f.chain)
    BY <1>3, RefusesFacts DEF DeviceTakes
  <1> QED BY <1>1, <1>2, <1>3

LEMMA SentExecutes ==
  ASSUME XInv, dl = "tx", NEW d \in Device, NEW n \in AnswerLengths
  PROVE  DeviceTakes(d, dl_frame, n).executed \in {d.executed, Current}
  <1>1. dl_frame \in Fragment /\ Current \in Nat
    BY WaitingFacts
  <1>2. dl_frame.chain = "ERROR" \/ dl_frame.of = Current
    <2> SUFFICES ASSUME Sending PROVE dl_frame.of = Current
      BY DEF Sending
    <2>1. dl_frame = FragmentAt(Current, dl_frame.from, Size)
      BY DEF XInv, Contents, Commanded
    <2>2. FragmentAt(Current, dl_frame.from, Size).of = Current
      BY DEF FragmentAt
    <2> QED BY <2>1, <2>2
  <1> QED BY <1>1, <1>2, DeviceExecutes

\* A step of the link is a stutter, or the peer takes the command.
LEMMA LinkExchanges ==
  ASSUME XInv, dl # "idle", hist'.current = hist.current, hist'.outcome = hist.outcome,
         dev'.executed \in {dev.executed, Current}
  PROVE  Exchanged
  <1>1. Current # 0
    BY WaitingFacts
  <1> QED BY <1>1 DEF Exchanged, Exchange!Next, Exchange!Take, Exchange!vars, Current

LEMMA DlExchanges ==
  ASSUME XInv,
         \/ DlSends \/ DlReceives \/ DlTimeout
         \/ \E f \in StrangeFragments, n \in AnswerLengths : DlStrange(f, n)
         \/ \E n \in AnswerLengths, taken \in BOOLEAN : DlFailed(n, taken)
  PROVE  Exchanged
  <1>0. /\ dl # "idle" => hist \in History /\ dev \in Device /\ dl_frame \in Fragment
        /\ \A d \in Device : HasToSay(d) => HasSaid(d).executed = d.executed
    BY WaitingFacts DEF HasSaid, Device
  <1>1. ASSUME NEW n \in AnswerLengths, NEW twice \in BOOLEAN, NEW answered \in BOOLEAN,
               DlSent(n, twice, answered)
        PROVE  Exchanged
    <2> DEFINE once == DeviceTakes(dev, dl_frame, n)
               d == IF twice THEN DeviceTakes(once, dl_frame, n) ELSE once
    <2>1. /\ dl = "tx" /\ hist' = Noted(hist, twice)
          /\ IF answered THEN HasToSay(d) /\ dev' = HasSaid(d) ELSE dev' = d
      BY <1>1 DEF DlSent
    <2>2. once \in Device
      BY <1>0, <2>1, DeviceTakesFacts
    <2>3. once.executed \in {dev.executed, Current}
      BY <1>0, <2>1, SentExecutes
    <2>4. DeviceTakes(once, dl_frame, n) \in Device
          /\ DeviceTakes(once, dl_frame, n).executed \in {once.executed, Current}
      BY <1>0, <2>1, <2>2, DeviceTakesFacts, SentExecutes
    <2> HIDE DEF once
    <2>5. d \in Device /\ d.executed \in {dev.executed, Current}
      BY <2>2, <2>3, <2>4
    <2> HIDE DEF d
    <2>6. dev'.executed = d.executed
      BY <1>0, <2>1, <2>5
    <2> QED BY <1>0, <2>1, <2>5, <2>6, NotedParts, LinkExchanges
  <1>2. ASSUME NEW twice \in BOOLEAN, DlReceived(twice)
        PROVE  Exchanged
    <2>1. /\ dl = "rx" /\ HasToSay(dev) /\ hist' = Noted(hist, twice)
          /\ dev' = IF twice THEN dev ELSE HasSaid(dev)
      BY <1>2 DEF DlReceived
    <2>2. dev'.executed = dev.executed
      BY <1>0, <2>1
    <2> QED BY <1>0, <2>1, <2>2, NotedParts, LinkExchanges
  <1>3. ASSUME NEW f \in StrangeFragments, NEW n \in AnswerLengths, DlStrange(f, n)
        PROVE  Exchanged
    <2>1. /\ dl # "idle" /\ hist' = [hist EXCEPT !.odd = TRUE]
          /\ dev' = IF dl = "tx" THEN DeviceTakes(dev, dl_frame, n) ELSE dev
      BY <1>3 DEF DlStrange
    <2>2. dev'.executed \in {dev.executed, Current}
      BY <1>0, <2>1, SentExecutes
    <2>3. hist'.current = hist.current /\ hist'.outcome = hist.outcome
      BY <1>0, <2>1 DEF History
    <2> QED BY <2>1, <2>2, <2>3, LinkExchanges
  <1>4. ASSUME NEW n \in AnswerLengths, NEW taken \in BOOLEAN, DlFailed(n, taken)
        PROVE  Exchanged
    <2>1. /\ dl # "idle" /\ (taken => dl = "tx") /\ hist' = hist
          /\ dev' = IF taken THEN DeviceTakes(dev, dl_frame, n) ELSE dev
      BY <1>4 DEF DlFailed
    <2>2. dev'.executed \in {dev.executed, Current}
      BY <1>0, <2>1, SentExecutes
    <2> QED BY <2>1, <2>2, LinkExchanges
  <1>5. ASSUME DlTimeout
        PROVE  Exchanged
    BY <1>5, LinkExchanges DEF DlTimeout
  <1> QED BY <1>1, <1>2, <1>3, <1>4, <1>5 DEF DlSends, DlReceives

LEMMA HandlerExchanges ==
  ASSUME XInv, XInv', Handler
  PROVE  Exchanged
  <1> USE DEF Exchanged, Exchange!Next, Exchange!vars
  <1>1. CASE RxComplete
    <2>1. /\ Running /\ dev' = dev
          /\ hist' = [Told(Copied(hist), "SUCCESS") EXCEPT !.length = Received]
      BY <1>1 DEF RxComplete, RxAccepted, RxData, Pass
    <2>2. hist \in History /\ hist.outcome = "pending"
      BY <2>1, RunningContents
    <2>3. hist'.current = hist.current /\ hist'.outcome \in {"ok", "doubtful"}
      BY <2>1, <2>2 DEF Told, Copied, History
    <2>4. hist'.outcome = "ok" => dev.executed = hist.current
      BY <2>1, <2>3 DEF XInv, Contents, TrueSuccess, Current
    <2> QED BY <2>1, <2>2, <2>3, <2>4 DEF Exchange!Acknowledge, Exchange!Fail
  <1>2. CASE ReportError
    <2> DEFINE what == IF Broken THEN "STACK_ERROR" ELSE tl.error_event
    <2>1. Running /\ dev' = dev /\ hist' = Told(hist, what)
      BY <1>2 DEF ReportError
    <2>2. hist \in History /\ hist.outcome = "pending" /\ tl \in TL
      BY <2>1, RunningContents
    <2>3. what # "SUCCESS"
      BY <2>2 DEF TL, Errors
    <2> HIDE DEF what
    <2>4. hist'.current = hist.current /\ hist'.outcome = "failed"
      BY <2>1, <2>2, <2>3 DEF Told, History
    <2> QED BY <2>1, <2>2, <2>4 DEF Exchange!Fail
  <1>3. CASE ChainingCopy
    <2>1. Running /\ dev' = dev /\ hist' = Copied(hist)
      BY <1>3 DEF ChainingCopy, Pass
    <2>2. hist \in History
      BY <2>1, RunningContents
    <2>3. hist'.current = hist.current /\ hist'.outcome = hist.outcome
      BY <2>1, <2>2 DEF Copied, History
    <2> QED BY <2>1, <2>3
  <1>4. CASE ~RxComplete /\ ~ReportError /\ ~ChainingCopy
    <2>1. dev' = dev /\ hist' = hist
      BY <1>4 DEF Handler, TxNextFragment, TxChainingError, TxUnexpected, TxComplete,
        RxUnexpected, RxDrain, RxNotChained, RxOverflow, RxChaining, ChainingBadLength,
        ChainingOverflow, ResendToChainingError, Resend, ResendTooOften,
        SendChainingError, ChainingErrorTooOften
    <2> QED BY <2>1
  <1> QED BY <1>1, <1>2, <1>3, <1>4

\* Every behaviour of the layer and the device is one of the abstract exchange,
\* fairness aside: one request at a time, the device executes the current
\* command only, and a success is reported only after it did
\* (ifx_i2c_tl_transceive, ifx_i2c_dl_event_handler).
THEOREM TransportImplementsExchange ==
  Spec => Exchange!Init /\ [][Exchange!Next]_(Exchange!vars)
  <1>1. Init => Exchange!Init
    BY DEF Init, DeviceReset, Exchange!Init
  <1>2. XInv /\ XInv' /\ [Next]_vars => [Exchange!Next]_(Exchange!vars)
    <2> SUFFICES ASSUME XInv, XInv', [Next]_vars PROVE Exchanged
      BY DEF Exchanged
    <2>1. CASE Handler
      BY <2>1, HandlerExchanges
    <2>2. ASSUME NEW length \in CommandLengths, NEW size \in BufferSizes,
                 Transceive(length, size)
          PROVE  Exchanged
      <3>1. /\ ~Running /\ tl.state = "IDLE" /\ hist.current < MaxRequests /\ dev' = dev
            /\ hist' = [hist EXCEPT !.current = hist.current + 1, !.outcome = "pending",
                                !.reported = "none", !.length = 0, !.sound = TRUE,
                                !.repeated_tx = {}, !.repeated_rx = {}, !.odd = FALSE]
        BY <2>2 DEF Transceive
      <3>2. hist \in History /\ dl \in {"idle", "tx", "rx"} /\ Usable /\ Expected
        BY TypeParts DEF XInv, TInv
      <3>3. hist.outcome # "pending"
        <4>1. dl = "idle"
          BY <3>1, <3>2 DEF Expected
        <4>2. (dl # "idle") = FALSE /\ Running = FALSE
          BY <3>1, <4>1 DEF Running
        <4>3. hist.outcome = "pending" => Running # (dl # "idle")
          BY <3>2, Zenon DEF Usable
        <4> QED BY <4>2, <4>3
      <3>4. hist'.current = hist.current + 1 /\ hist'.outcome = "pending"
        BY <3>1, <3>2 DEF History
      <3>5. hist.current + 1 \in 1 .. MaxRequests
        BY <3>1, <3>2, BudgetAssumption DEF History
      <3> QED BY <3>1, <3>3, <3>4, <3>5
          DEF Exchanged, Exchange!Next, Exchange!Request, Exchange!vars
    <2>3. CASE TlInit
      <3>1. dev'.executed = dev.executed /\ hist' = hist
        BY <2>3, TypeParts DEF TlInit, XInv, TInv, Device
      <3> QED BY <3>1 DEF Exchanged, Exchange!vars
    <2>4. CASE UNCHANGED vars
      BY <2>4 DEF vars, Exchanged, Exchange!vars
    <2> QED BY <2>1, <2>2, <2>3, <2>4, DlExchanges DEF Next
  <1> QED BY <1>1, <1>2, ExchangeInductive, PTL DEF Spec

=============================================================================
