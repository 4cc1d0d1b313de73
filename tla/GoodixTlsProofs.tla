--------------------------- MODULE GoodixTlsProofs ---------------------------
(***************************************************************************)
(* What holds of the TLS server and its relay for any key, any size of     *)
(* pack and transfer, and however the bus cuts, joins, corrupts and loses  *)
(* what the sensor sends.                                                  *)
(*                                                                         *)
(* Two arguments, apart but for the types.  The thread and the main loop   *)
(* are kept in step by counting: the thread never takes a record that the  *)
(* relay has not written, so that it can be done only when the relay reads *)
(* its last flight.  The accumulator is bounded by what a drain leaves.    *)
(***************************************************************************)
EXTENDS GoodixTls, SequenceTheorems, WellFoundedInduction, TLAPS

Wire == Cell \cup {Zero}

(* Once the first flight has been relayed.                                 *)
Late == FromSensor \cup {"CHANGE_CIPHER_S", "established"}

(* The client records a handshake has written when it is in a stage.       *)
Sent(s) ==
  CASE s = "request" -> 0
    [] s \in {"HELLO_S", "KH_EXCHANGE"} -> 1
    [] s = "CHANGE_CIPHER_C" -> 2
    [] s = "HANDSHAKE_C" -> 3
    [] OTHER -> 4

(* The server is there while it has a thread, and while it has a relay.    *)
Lifetime ==
  /\ pair = "closed" <=> thread = "none"
  /\ pair = "closed" <=> ssl = "freed"
  /\ pair = "closed" =>
       stage = "idle" /\ pc \in {"loop", "drain"} /\ up = <<>> /\ down = <<>>
  /\ pc = "joining" => pair = "shut" /\ stage = "idle" /\ ready = "none"
  /\ pc = "reading" => stage \in {"HELLO_S", "CHANGE_CIPHER_S"}
  /\ pc # "reading" => got = <<>>

(* The thread is not ahead of the relay: what it has heard, with what is   *)
(* written and sound, is no more than the relay has passed on.             *)
Counted ==
  thread = "accepting" =>
    \A k \in 0..Len(up) :
      (\A j \in 1..k : up[j] # "bad") => heard + k <= Sent(stage)

(* The flights: none before the first record, none left of the first when  *)
(* the relay goes on, and the last one is there when the thread is done.   *)
Flights ==
  /\ thread = "accepting" /\ (heard = 0 \/ stage \in Late) => down = <<>> /\ got = <<>>
  /\ thread = "accepting" /\ stage \in Late => heard # 0
  /\ thread = "gone" /\ pair = "open" =>
       /\ stage \in {"idle", "CHANGE_CIPHER_S", "established"}
       /\ stage = "CHANGE_CIPHER_S" => got # <<>> \/ down # <<>>

(* The inductive invariant: with the types, what is said of the server.    *)
ThreadInv == Lifetime /\ Counted /\ Flights /\ AcceptIsOver
ServerInv == TypeOK /\ ThreadInv

(* Only a drain has more before it than a transfer could complete.         *)
Short == pc # "drain" => Len(acc) < EP_IN_MAX

------------------------------------------------------------------------------
(* Cells: what is sent, cut and skipped is a sequence of cells.            *)

LEMMA CellFacts ==
  /\ Zero \in Wire
  /\ \A c \in Wire : c.frame \in Frames /\ c.claims \in 0..(PACK_MAX + 1)
  /\ PACK_MAX \in Nat \ {0} /\ EP_IN_MAX \in Nat /\ Corrupt \subseteq 0..(PACK_MAX + 1)
BY TlsAssumption DEF Wire, Cell, Zero, Frames, EP_IN_MAX, Corrupt

LEMMA PackCells ==
  ASSUME NEW f \in Frames, NEW n \in 0..(PACK_MAX + 1), NEW k \in 1..3
  PROVE  Pack(f, n)[k] \in Wire
<1>1. Body(f, n) \in Cell
  BY DEF Body, Cell
<1>2. [type |-> "head", frame |-> f, claims |-> n] \in Cell
  BY DEF Cell
<1>3. k = 1 \/ k = 2 \/ k = 3
  OBVIOUS
<1> QED BY <1>1, <1>2, <1>3 DEF Pack, Wire

LEMMA PacksCells ==
  ASSUME NEW fs \in Seq(Frames), NEW bad \in Nat, NEW n \in Corrupt
  PROVE  Packs(fs, bad, n) \in Seq(Wire)
<1>1. n \in 0..(PACK_MAX + 1) /\ 1 \in 0..(PACK_MAX + 1)
  BY CellFacts
<1>2. ASSUME NEW k \in 1..(3 * Len(fs))
      PROVE  LET i == 1 + (k - 1) \div 3
             IN  Pack(fs[i], IF i = bad THEN n ELSE 1)[k - 3 * (i - 1)] \in Wire
  <2> DEFINE i == 1 + (k - 1) \div 3
  <2>1. Len(fs) \in Nat
    BY LenProperties
  <2>2. i \in 1..Len(fs) /\ k - 3 * (i - 1) \in 1..3
    BY <2>1
  <2>3. fs[i] \in Frames
    BY <2>2, ElementOfSeq
  <2>4. (IF i = bad THEN n ELSE 1) \in 0..(PACK_MAX + 1)
    BY <1>1
  <2> HIDE DEF i
  <2>5. Pack(fs[i], IF i = bad THEN n ELSE 1)[k - 3 * (i - 1)] \in Wire
    BY <2>2, <2>3, <2>4, PackCells
  <2> QED BY <2>5 DEF i
<1>3. 3 * Len(fs) \in Nat
  BY LenProperties
<1> DEFINE m == 3 * Len(fs)
           p == [k \in 1..m |-> LET i == 1 + (k - 1) \div 3
                                IN  Pack(fs[i], IF i = bad THEN n ELSE 1)[k - 3 * (i - 1)]]
<1>4. p \in [1..m -> Wire]
  BY <1>2
<1>5. p \in Seq(Wire)
  <2> HIDE DEF p, m
  <2>1. m \in Nat
    BY <1>3 DEF m
  <2> QED BY <2>1, <1>4, SMT
<1> QED BY <1>5 DEF Packs

LEMMA AnswerCells ==
  ASSUME wire \in Seq(Wire), NEW fs \in Seq(Frames), Answer(fs)
  PROVE  wire' \in Seq(Wire)
<1>1. Len(fs) \in Nat
  BY LenProperties
<1>2. CASE \E bad \in 0..(IF faulty THEN Len(fs) ELSE 0), n \in Corrupt :
             wire' = wire \o Packs(fs, bad, n)
  <2>1. PICK bad \in 0..(IF faulty THEN Len(fs) ELSE 0), n \in Corrupt :
               wire' = wire \o Packs(fs, bad, n)
    BY <1>2
  <2>2. bad \in Nat
    BY <1>1, <2>1
  <2>3. Packs(fs, bad, n) \in Seq(Wire)
    BY <2>2, PacksCells
  <2> QED BY <2>1, <2>3, ConcatProperties
<1>3. CASE UNCHANGED wire
  BY <1>3
<1> QED BY <1>2, <1>3 DEF Answer

LEMMA PieceCells ==
  ASSUME NEW s \in Seq(Wire), NEW a \in Nat \ {0}, NEW b \in 0..Len(s)
  PROVE  /\ SubSeq(s, a, b) \in Seq(Wire)
         /\ Len(SubSeq(s, a, b)) = IF a <= b THEN b - a + 1 ELSE 0
<1>1. \A i \in a..b : s[i] \in Wire
  BY ElementOfSeq, LenProperties
<1> QED BY <1>1, SubSeqProperties, LenProperties

(* The padding at the head of a sequence has an end: the cell before the   *)
(* first that is no padding, or the last.                                  *)
LEMMA PaddingEnds ==
  ASSUME NEW s \in Seq(Wire)
  PROVE  \E m \in 0..Len(s) :
            /\ \A i \in 1..m : s[i] = Zero
            /\ m < Len(s) => s[m + 1] # Zero
<1> DEFINE T == {i \in 1..Len(s) : s[i] # Zero}
<1>1. Len(s) \in Nat
  BY LenProperties
<1>2. CASE T = {}
  <2>1. \A i \in 1..Len(s) : s[i] = Zero
    BY <1>2
  <2> QED BY <1>1, <2>1
<1>3. CASE T # {}
  <2>1. T \subseteq Nat
    BY <1>1
  <2>2. PICK x \in T : \A y \in T : ~(<<y, x>> \in OpToRel(<, Nat))
    <3> HIDE DEF T
    <3> QED BY <1>3, <2>1, NatLessThanWellFounded, WFMin
  <2>3. \A y \in T : ~(y < x)
    BY <2>1, <2>2 DEF OpToRel
  <2>4. \A i \in 1..(x - 1) : s[i] = Zero
    BY <1>1, <2>3
  <2>5. x - 1 \in 0..Len(s) /\ s[(x - 1) + 1] # Zero
    BY <1>1
  <2> QED BY <2>4, <2>5
<1> QED BY <1>2, <1>3

LEMMA SkipCells ==
  ASSUME NEW s \in Seq(Wire)
  PROVE  SkipZeros(s) \in Seq(Wire)
<1> DEFINE n == CHOOSE m \in 0..Len(s) :
                  /\ \A i \in 1..m : s[i] = Zero
                  /\ m < Len(s) => s[m + 1] # Zero
<1>1. n \in 0..Len(s)
  BY PaddingEnds
<1>2. Len(s) \in Nat /\ n + 1 \in Nat \ {0}
  BY <1>1, LenProperties
<1>3. SubSeq(s, n + 1, Len(s)) \in Seq(Wire)
  <2> HIDE DEF n
  <2> QED BY <1>2, PieceCells
<1> QED BY <1>3 DEF SkipZeros

------------------------------------------------------------------------------
(* Types.                                                                  *)

LEMMA FailTypes ==
  ASSUME TypeOK, Fail
  PROVE  /\ stage' \in Stages /\ got' \in Seq(Server)
         /\ pc' \in {"loop", "drain", "reading", "joining"}
         /\ ready' \in {"none", "waiting", "ok", "failed"}
BY EmptySeq DEF TypeOK, Fail, Stages

LEMMA AcceptTypes ==
  ASSUME TypeOK, Counted, Accept
  PROVE  TypeOK'
<1> USE DEF TypeOK, Accept, relay
<1>1. up' \in Seq(Client \cup {"bad"})
  BY HeadTailProperties
<1>2. ServerHello \in Seq(Server) /\ ServerFinish \in Seq(Server) /\ "ALERT" \in Server
  BY DEF ServerHello, ServerFinish, Server
<1>3. ASSUME NEW flight \in Seq(Server)
      PROVE  down \o flight \in Seq(Server)
  BY ConcatProperties
<1>4. CASE AcceptHello
  BY <1>1, <1>2, <1>3, <1>4 DEF AcceptHello, Flush
<1>5. CASE AcceptKey
  <2>1. heard < 4
    <3>1. Head(up) # "bad" /\ up[1] = Head(up) /\ Len(up) >= 1
      BY <1>5 DEF AcceptKey, Expected
    <3>2. heard + 1 <= Sent(stage)
      BY <3>1, LenProperties DEF Counted
    <3> QED BY <3>2 DEF Sent
  <2> QED BY <1>1, <1>5, <2>1 DEF AcceptKey
<1>6. CASE AcceptFinished
  BY <1>1, <1>2, <1>3, <1>6 DEF AcceptFinished, Flush
<1>7. CASE AcceptRejects
  BY <1>1, <1>2, <1>7, AppendProperties DEF AcceptRejects
<1> QED BY <1>4, <1>5, <1>6, <1>7

LEMMA WriteTypes ==
  ASSUME TypeOK, Awaited, NEW records \in Seq(Client \cup {"bad"}), ClientWrite(records)
  PROVE  /\ up' \in Seq(Client \cup {"bad"})
         /\ stage' \in Stages /\ got' \in Seq(Server)
         /\ pc' \in {"loop", "drain", "reading", "joining"}
         /\ ready' \in {"none", "waiting", "ok", "failed"}
<1>1. up \o records \in Seq(Client \cup {"bad"})
  BY ConcatProperties DEF TypeOK
<1>2. NextStage[stage] \in Stages
  BY DEF Awaited, NextStage, FromSensor, Stages
<1> QED BY <1>1, <1>2, FailTypes DEF TypeOK, ClientWrite

LEMMA RecordTypes ==
  ASSUME TypeOK, TakesTls
  PROVE  Records \in Seq(Client \cup {"bad"})
<1>1. acc[1].frame \in Client
  BY DEF TakesTls
<1>2. <<>> \in Seq(Client \cup {"bad"}) /\ <<acc[1].frame>> \in Seq(Client \cup {"bad"})
      /\ <<acc[1].frame, "bad">> \in Seq(Client \cup {"bad"})
  BY <1>1, EmptySeq
<1>3. Payload = <<>> \/ (Payload # <<>> /\ Len(Payload) = 1)
      \/ (Payload # <<>> /\ Len(Payload) # 1)
  OBVIOUS
<1>4. Records = <<>> \/ Records = <<acc[1].frame>> \/ Records = <<acc[1].frame, "bad">>
  BY <1>3 DEF Records
<1> QED BY <1>2, <1>4

LEMMA DispatchTypes ==
  ASSUME TypeOK, Dispatch
  PROVE  TypeOK'
<1> USE DEF TypeOK, Dispatch
<1>1. <<>> \in Seq(Cell \cup {Zero})
  BY EmptySeq
<1>2. CASE DispatchTls
  BY <1>1, <1>2, RecordTypes, WriteTypes DEF DispatchTls, TakesTls, server
<1>3. CASE DispatchAck
  BY <1>1, <1>3 DEF DispatchAck, server, sockets, Stages
<1>4. CASE DispatchOther
  <2>1. acc \in Seq(Wire) /\ acc[1] \in Wire /\ Len(acc) \in Nat
    BY LenProperties, ElementOfSeq, EmptySeq DEF Wire
  <2>2. 2 + acc[1].claims \in Nat \ {0}
    BY <2>1, CellFacts
  <2>3. SubSeq(acc, 2 + acc[1].claims, Len(acc)) \in Seq(Wire)
    BY <2>1, <2>2, PieceCells
  <2>4. acc' \in Seq(Cell \cup {Zero})
    BY <1>4, <2>3, SkipCells DEF DispatchOther, Wire
  <2> QED BY <1>4, <2>4 DEF DispatchOther, server, sockets, relay
<1> QED BY <1>2, <1>3, <1>4

LEMMA RelayTypes ==
  ASSUME TypeOK, Relay
  PROVE  TypeOK'
<1>1. wire \in Seq(Wire) /\ <<>> \in Seq(Server)
  BY EmptySeq DEF TypeOK, Wire
<1>2. <<"KE", "CCS", "FIN">> \in Seq(Frames) /\ <<"ackEstablished">> \in Seq(Frames)
  BY DEF Frames, Client
<1>3. CASE RelayHello /\ pc' = "loop" /\ got' = <<>>
  <2>1. wire' \in Seq(Wire)
    BY <1>1, <1>2, <1>3, AnswerCells DEF RelayHello
  <2> QED BY <1>1, <1>3, <2>1
          DEF RelayHello, Relay, TypeOK, Wire, Stages, FromSensor, server, sockets
<1>4. CASE RelayFinish /\ pc' = "loop" /\ got' = <<>>
  <2>1. wire' \in Seq(Wire)
    BY <1>1, <1>2, <1>4, AnswerCells DEF RelayFinish
  <2> QED BY <1>1, <1>4, <2>1
          DEF RelayFinish, Relay, TypeOK, Wire, Stages, server, sockets
<1>5. CASE Fail /\ UNCHANGED wire
  BY <1>5, FailTypes DEF Relay, TypeOK, server, sockets
<1> QED BY <1>3, <1>4, <1>5 DEF Relay

LEMMA ReceiveTypes ==
  ASSUME TypeOK, NEW n \in 1..EP_IN_MAX, n <= Len(wire), Receive(n)
  PROVE  TypeOK'
<1>1. wire \in Seq(Wire) /\ acc \in Seq(Wire) /\ <<>> \in Seq(Wire) /\ Len(wire) \in Nat
  BY LenProperties, EmptySeq DEF TypeOK, Wire
<1>2. n \in Nat \ {0} /\ n \in 0..Len(wire) /\ n + 1 \in Nat \ {0}
  BY <1>1, CellFacts
<1>3. SubSeq(wire, 1, n) \in Seq(Wire) /\ SubSeq(wire, n + 1, Len(wire)) \in Seq(Wire)
  BY <1>1, <1>2, PieceCells
<1>4. acc' \in Seq(Wire) /\ wire' \in Seq(Wire)
  BY <1>1, <1>3, ConcatProperties DEF Receive
<1> QED BY <1>4 DEF Receive, TypeOK, Wire, server, sockets, relay

LEMMA TypeStep ==
  ASSUME TypeOK, Counted, [Next]_vars
  PROVE  TypeOK'
<1> USE DEF TypeOK
<1>0. <<>> \in Seq(Cell \cup {Zero}) /\ <<>> \in Seq(Server)
      /\ <<>> \in Seq(Client \cup {"bad"})
  BY EmptySeq
<1>1. CASE User
  <2>1. CASE InitFails
    BY <2>1 DEF InitFails, server, sockets
  <2>2. CASE TlsInit
    <3>1. wire' \in Seq(Wire)
      <4>1. wire \in Seq(Wire) /\ <<"ackRequest", "CH">> \in Seq(Frames)
        BY DEF Wire, Frames, Client
      <4> QED BY <2>2, <4>1, AnswerCells DEF TlsInit
    <3> QED BY <2>2, <3>1 DEF TlsInit, sockets, Wire, Stages
  <2>3. CASE Teardown
    BY <1>0, <2>3 DEF Teardown, sockets, Stages
  <2> QED BY <1>1, <2>1, <2>2, <2>3 DEF User
<1>2. CASE Fault
  BY <1>2 DEF Fault, server, sockets, relay
<1>3. CASE Thread
  <2>1. CASE AcceptEnds
    BY <2>1 DEF AcceptEnds, sockets, relay
  <2>2. CASE ThreadShuts
    BY <2>2 DEF ThreadShuts, sockets, relay
  <2> QED BY <1>3, <2>1, <2>2, AcceptTypes DEF Thread
<1>4. CASE Blocked
  <2>1. CASE ReadRecord
    <3>1. Head(down) \in Server /\ Tail(down) \in Seq(Server)
      BY <2>1, HeadTailProperties DEF ReadRecord
    <3>2. Append(got, Head(down)) \in Seq(Server)
      BY <3>1, AppendProperties
    <3> QED BY <2>1, <3>1, <3>2 DEF ReadRecord, server
  <2>2. CASE ReadFails
    BY <2>2, FailTypes DEF ReadFails, server, sockets
  <2>3. CASE Joined
    BY <1>0, <2>3 DEF Joined, relay
  <2> QED BY <1>4, <2>1, <2>2, <2>3, RelayTypes DEF Blocked
<1>5. CASE Transfer
  BY <1>5, ReceiveTypes DEF Transfer
<1>6. CASE Drain
  <2>1. CASE DropCorrupt
    BY <1>0, <2>1, FailTypes DEF DropCorrupt, server, sockets, relay
  <2>2. CASE Drained
    BY <2>2 DEF Drained, server, sockets, relay
  <2> QED BY <1>6, <2>1, <2>2, DispatchTypes DEF Drain
<1>7. CASE Timeout
  BY <1>0, <1>7, FailTypes DEF Timeout, server, sockets
<1>8. CASE UNCHANGED vars
  BY <1>8 DEF vars, server, sockets, relay
<1> QED BY <1>1, <1>2, <1>3, <1>4, <1>5, <1>6, <1>7, <1>8 DEF Next

------------------------------------------------------------------------------
(* The thread and the relay.                                               *)

LEMMA SentFacts ==
  /\ \A s \in Stages : Sent(s) \in 0..4
  /\ \A s \in FromSensor \cup {"request"} :
       NextStage[s] \in Stages /\ Sent(NextStage[s]) = Sent(s) + 1
  /\ \A s \in Stages : Sent(s) = 4 => s \in {"idle", "CHANGE_CIPHER_S", "established"}
  /\ Sent("idle") = 4 /\ Sent("established") = 4 /\ Sent("CHANGE_CIPHER_S") = 4
  /\ Sent("HELLO_S") = Sent("KH_EXCHANGE")
BY DEF Sent, Stages, FromSensor, NextStage

LEMMA HeardFacts ==
  ASSUME TypeOK, Counted, thread = "accepting"
  PROVE  /\ heard <= Sent(stage)
         /\ up # <<>> /\ Head(up) # "bad" => heard + 1 <= Sent(stage)
<1>1. Len(up) \in Nat
  BY LenProperties DEF TypeOK
<1>2. heard + 0 <= Sent(stage)
  BY <1>1 DEF Counted
<1>3. CASE up # <<>> /\ Head(up) # "bad"
  <2>1. 1 \in 0..Len(up) /\ up[1] # "bad"
    BY <1>1, <1>3, EmptySeq DEF TypeOK
  <2> QED BY <1>2, <2>1 DEF Counted, TypeOK
<1> QED BY <1>2, <1>3 DEF TypeOK

(* A record is taken from those the relay has passed on.                   *)
LEMMA TakenIsCounted ==
  ASSUME TypeOK, Counted, thread = "accepting", up # <<>>, Head(up) # "bad",
         up' = Tail(up), heard' = heard + 1, stage' = stage
  PROVE  Counted'
<1>1. Len(up) \in Nat \ {0} /\ Len(up') = Len(up) - 1
      /\ \A i \in 1..Len(up') : up'[i] = up[i + 1]
  BY HeadTailProperties, EmptySeq DEF TypeOK
<1>2. ASSUME NEW k \in 0..Len(up'), \A j \in 1..k : up'[j] # "bad"
      PROVE  heard' + k <= Sent(stage')
  <2>1. k + 1 \in 0..Len(up)
    BY <1>1
  <2>2. \A j \in 1..(k + 1) : up[j] # "bad"
    <3> SUFFICES ASSUME NEW j \in 1..(k + 1)
                 PROVE  up[j] # "bad"
      OBVIOUS
    <3>1. CASE j = 1
      BY <3>1
    <3>2. CASE j # 1
      <4>1. j - 1 \in 1..k /\ j - 1 \in 1..Len(up')
        BY <1>1, <3>2
      <4>2. up'[j - 1] = up[(j - 1) + 1] /\ up'[j - 1] # "bad"
        BY <1>1, <1>2, <4>1
      <4> QED BY <4>2
    <3> QED BY <3>1, <3>2
  <2>3. heard + (k + 1) <= Sent(stage)
    BY <2>1, <2>2 DEF Counted
  <2> QED BY <2>3, <1>1 DEF TypeOK
<1> QED BY <1>2 DEF Counted


(* A record is passed on as the handshake goes to its next stage.          *)
LEMMA PassedIsCounted ==
  ASSUME TypeOK, Counted, TakesTls, ClientWrite(Records),
         thread' = thread, heard' = heard
  PROVE  Counted'
<1>1. Len(up) \in Nat /\ stage \in FromSensor \cup {"request"}
  BY LenProperties DEF TypeOK, TakesTls, Awaited
<1>2. CASE Fail /\ UNCHANGED up
  <2>1. stage' = "idle" /\ stage \in Stages
    BY <1>2 DEF Fail, TypeOK
  <2>2. Sent(stage) <= Sent(stage')
    BY <2>1, SentFacts
  <2>3. Sent(stage) \in Nat /\ Sent(stage') \in Nat
    BY <2>1, SentFacts
  <2> QED BY <1>1, <1>2, <2>2, <2>3 DEF Counted, TypeOK
<1>3. CASE /\ up' = IF Written(Records) THEN up \o Records ELSE up
           /\ stage' = NextStage[stage]
  <2>1. stage \in Stages
    BY DEF TypeOK
  <2>2. Sent(stage) \in Nat /\ Sent(stage') = Sent(stage) + 1
    BY <1>1, <1>3, <2>1, SentFacts
  <2>3. CASE up' = up
    <3>1. ASSUME NEW k \in 0..Len(up), thread = "accepting",
                 \A j \in 1..k : up[j] # "bad"
          PROVE  heard + k <= Sent(stage')
      <4>1. heard + k <= Sent(stage)
        BY <3>1 DEF Counted
      <4> QED BY <1>1, <2>2, <4>1 DEF TypeOK
    <3> QED BY <2>3, <3>1 DEF Counted
  <2>4. CASE Written(Records) /\ up' = up \o Records
    <3>1. Records = <<acc[1].frame>> \/ Records = <<acc[1].frame, "bad">>
      <4>1. Records # <<>>
        BY <2>4 DEF Written
      <4>2. Payload = <<>> => Records = <<>>
        <5>1. Payload = <<>> => Len(Payload) = 0
          BY EmptySeq
        <5> QED BY <5>1 DEF Records
      <4>3. Payload # <<>>
        BY <4>1, <4>2
      <4>4. Len(Payload) = 1 \/ Len(Payload) # 1
        OBVIOUS
      <4> QED BY <4>3, <4>4 DEF Records
    <3>2. Records \in Seq(Client \cup {"bad"}) /\ Len(Records) \in 1..2
          /\ (Len(Records) = 2 => Records[2] = "bad")
      BY <3>1, RecordTypes
    <3>3. Len(up') = Len(up) + Len(Records)
          /\ \A i \in 1..(Len(up) + Len(Records)) :
               up'[i] = IF i <= Len(up) THEN up[i] ELSE Records[i - Len(up)]
      BY <2>4, <3>2, ConcatProperties DEF TypeOK
    <3>4. ASSUME NEW k \in 0..Len(up'), \A j \in 1..k : up'[j] # "bad", thread = "accepting"
          PROVE  heard + k <= Sent(stage) + 1
      <4>1. CASE k <= Len(up)
        <5>1. \A j \in 1..k : up[j] # "bad"
          BY <1>1, <3>2, <3>3, <3>4, <4>1
        <5>2. k \in 0..Len(up) /\ heard \in Nat
          BY <1>1, <3>2, <3>3, <4>1 DEF TypeOK
        <5>3. heard + k <= Sent(stage)
          BY <3>4, <5>1, <5>2 DEF Counted
        <5> QED BY <2>2, <5>2, <5>3
      <4>2. CASE k > Len(up)
        <5>1. k = Len(up) + 1
          <6>1. ~(Len(up) + 2 \in 1..k)
            <7>1. SUFFICES ASSUME Len(up) + 2 \in 1..k
                           PROVE  FALSE
              OBVIOUS
            <7>2. Len(Records) = 2 /\ Len(up) + 2 \in 1..(Len(up) + Len(Records))
              BY <1>1, <3>2, <3>3, <7>1
            <7>3. up'[Len(up) + 2] = "bad"
              BY <1>1, <3>2, <3>3, <7>2
            <7> QED BY <3>4, <7>1, <7>3
          <6> QED BY <1>1, <3>4, <4>2, <6>1
        <5>2. \A j \in 1..Len(up) : up[j] # "bad"
          BY <1>1, <3>2, <3>3, <3>4, <5>1
        <5>3. heard + Len(up) <= Sent(stage)
          BY <1>1, <3>4, <5>2 DEF Counted
        <5> QED BY <1>1, <2>2, <5>1, <5>3 DEF TypeOK
      <4>3. k \in Nat
        BY <1>1, <3>2, <3>3
      <4> QED BY <1>1, <4>1, <4>2, <4>3
    <3> QED BY <2>2, <3>4 DEF Counted
  <2> QED BY <1>3, <2>3, <2>4
<1> QED BY <1>2, <1>3 DEF ClientWrite

(* Where only the accumulator, the wire and the faults change.             *)
LEMMA ThreadUntouched ==
  ASSUME ThreadInv, UNCHANGED <<server, sockets, relay>>,
         pc' = pc \/ (pc \in {"loop", "drain"} /\ pc' \in {"loop", "drain"})
  PROVE  ThreadInv'
<1> USE DEF ThreadInv, server, sockets, relay
<1>1. Lifetime'
  BY DEF Lifetime
<1>2. Counted'
  BY DEF Counted
<1>3. Flights' /\ AcceptIsOver'
  BY DEF Flights, AcceptIsOver
<1> QED BY <1>1, <1>2, <1>3

(* The handshake is given up.                                              *)
LEMMA FailIsSafe ==
  ASSUME ServerInv, Fail, UNCHANGED <<server, sockets>>, pc # "joining"
  PROVE  ThreadInv'
<1> USE DEF ServerInv, ThreadInv, server, sockets, Fail
<1>1. Lifetime'
  BY DEF Lifetime
<1>2. Counted'
  <2>1. stage \in Stages /\ Len(up) \in Nat /\ heard \in Nat
    BY LenProperties DEF TypeOK
  <2>2. Sent(stage) \in Nat /\ Sent(stage') \in Nat /\ Sent(stage) <= Sent(stage')
    BY <2>1, SentFacts
  <2> QED BY <2>1, <2>2 DEF Counted
<1>3. Flights'
  BY DEF Flights, Late, FromSensor
<1>4. AcceptIsOver'
  BY DEF AcceptIsOver
<1> QED BY <1>1, <1>2, <1>3, <1>4

LEMMA AcceptIsSafe ==
  ASSUME ServerInv, Accept
  PROVE  ThreadInv'
<1> USE DEF ServerInv, ThreadInv
<1>1. /\ thread = "accepting" /\ up # <<>> /\ up' = Tail(up)
      /\ UNCHANGED <<pair, pc, stage, got, ready>>
      /\ pair # "closed" /\ ssl # "freed" /\ stage \in Stages
  BY DEF Accept, relay, Lifetime, TypeOK
<1>2. CASE AcceptHello
  <2>1. heard = 0
    <3>1. heard + 1 <= Sent(stage) /\ Sent(stage) \in 0..4
      BY <1>1, <1>2, HeardFacts, SentFacts DEF AcceptHello, Expected
    <3>2. heard \in 0..3 /\ ClientRecords[heard + 1] = "CH"
      BY <1>2, <3>1 DEF AcceptHello, Expected, TypeOK
    <3> QED BY <3>2 DEF ClientRecords
  <2>2. Counted'
    BY <1>1, <1>2, <2>1, TakenIsCounted DEF AcceptHello, Expected
  <2>3. Lifetime'
    BY <1>1, <1>2 DEF AcceptHello, Lifetime
  <2>4. Flights' /\ AcceptIsOver'
    BY <1>1, <1>2, <2>1 DEF AcceptHello, Flights, AcceptIsOver
  <2> QED BY <2>2, <2>3, <2>4
<1>3. CASE AcceptKey
  <2>1. Head(up) # "bad" /\ heard' = heard + 1 /\ UNCHANGED <<ssl, thread, down>>
    BY <1>3 DEF AcceptKey, Expected
  <2>2. Counted'
    BY <1>1, <2>1, TakenIsCounted
  <2>3. Lifetime'
    BY <1>1, <2>1 DEF Lifetime
  <2>4. heard' # 0
    BY <2>1 DEF TypeOK
  <2>5. Flights' /\ AcceptIsOver'
    BY <1>1, <2>1, <2>4 DEF Flights, AcceptIsOver
  <2> QED BY <2>2, <2>3, <2>5
<1>4. CASE AcceptFinished
  <2>1. stage \in {"idle", "CHANGE_CIPHER_S", "established"}
    <3>1. heard + 1 <= Sent(stage) /\ Sent(stage) \in 0..4
      BY <1>1, <1>4, HeardFacts, SentFacts DEF AcceptFinished, Expected
    <3>2. heard \in 0..3 /\ ClientRecords[heard + 1] = "FIN"
      BY <1>4, <3>1 DEF AcceptFinished, Expected, TypeOK
    <3>3. heard = 3
      BY <3>2 DEF ClientRecords
    <3>4. Sent(stage) = 4
      BY <3>1, <3>3
    <3> QED BY <1>1, <3>4, SentFacts
  <2>2. thread' = "gone" /\ ssl' = "accepted" /\ pair = "open"
    BY <1>4 DEF AcceptFinished, Flush
  <2>3. down' # <<>>
    <3>1. ServerFinish \in Seq(Server) /\ ServerFinish # <<>>
      BY DEF ServerFinish, Server
    <3>2. down' = down \o ServerFinish
      BY <1>4 DEF AcceptFinished, Flush
    <3> QED BY <3>1, <3>2, ConcatEqualIffEmpty DEF TypeOK
  <2>4. Lifetime' /\ Counted' /\ AcceptIsOver'
    BY <1>1, <2>2 DEF Lifetime, Counted, AcceptIsOver
  <2>5. Flights'
    BY <1>1, <2>1, <2>2, <2>3 DEF Flights
  <2> QED BY <2>4, <2>5
<1>5. CASE AcceptRejects
  <2>1. thread' = "failing" /\ ssl' = "failed"
    BY <1>5 DEF AcceptRejects
  <2> QED BY <1>1, <2>1 DEF Lifetime, Counted, Flights, AcceptIsOver
<1> QED BY <1>2, <1>3, <1>4, <1>5 DEF Accept

LEMMA UserIsSafe ==
  ASSUME ServerInv, User
  PROVE  ThreadInv'
<1> USE DEF ServerInv, ThreadInv
<1>1. CASE InitFails
  BY <1>1 DEF InitFails, server, sockets, Lifetime, Counted, Flights, AcceptIsOver
<1>2. CASE TlsInit
  <2>1. /\ pc = "loop" /\ stage = "idle" /\ up = <<>> /\ down = <<>> /\ got = <<>>
        /\ pair' = "open" /\ ssl' = "new" /\ thread' = "accepting" /\ heard' = 0
        /\ stage' \in {"idle", "request"} /\ ready' \in {"waiting", "failed"}
        /\ UNCHANGED <<up, down, pc, got>>
    BY <1>2 DEF TlsInit, sockets, Lifetime
  <2>2. Lifetime' /\ AcceptIsOver'
    BY <2>1 DEF Lifetime, AcceptIsOver
  <2>3. Flights'
    BY <2>1 DEF Flights, Late, FromSensor
  <2>4. Counted'
    <3>1. Len(up') = 0 /\ Sent(stage') \in 0..4
      BY <2>1, EmptySeq, SentFacts DEF Stages
    <3> QED BY <2>1, <3>1 DEF Counted
  <2> QED BY <2>2, <2>3, <2>4
<1>3. CASE Teardown
  <2>1. /\ pair # "closed" /\ pair' = "shut" /\ pc' = "joining" /\ stage' = "idle"
        /\ got' = <<>> /\ ready' = "none"
        /\ UNCHANGED <<ssl, thread, heard, up, down>>
    BY <1>3 DEF Teardown, sockets
  <2>2. Lifetime' /\ AcceptIsOver'
    BY <2>1 DEF Lifetime, AcceptIsOver
  <2>3. Flights'
    BY <2>1 DEF Flights, Late, FromSensor
  <2>4. Counted'
    <3>1. stage \in Stages /\ Len(up) \in Nat /\ heard \in Nat
      BY LenProperties DEF TypeOK
    <3>2. Sent(stage) \in Nat /\ Sent(stage') \in Nat /\ Sent(stage) <= Sent(stage')
      BY <2>1, <3>1, SentFacts
    <3> QED BY <2>1, <3>1, <3>2 DEF Counted
  <2> QED BY <2>2, <2>3, <2>4
<1> QED BY <1>1, <1>2, <1>3 DEF User

LEMMA BlockedIsSafe ==
  ASSUME ServerInv, Blocked
  PROVE  ThreadInv'
<1> USE DEF ServerInv, ThreadInv
<1>1. CASE ReadRecord
  <2>1. /\ pc = "reading" /\ down # <<>> /\ got' = Append(got, Head(down))
        /\ UNCHANGED <<pair, ssl, thread, heard, up, pc, stage, ready>>
    BY <1>1 DEF ReadRecord, server
  <2>2. got' # <<>>
    <3>1. Head(down) \in Server
      BY <2>1, HeadTailProperties DEF TypeOK
    <3> QED BY <2>1, <3>1, AppendProperties DEF TypeOK
  <2>3. Lifetime' /\ Counted' /\ AcceptIsOver'
    BY <2>1 DEF Lifetime, Counted, AcceptIsOver
  <2>4. Flights'
    BY <2>1, <2>2 DEF Flights
  <2> QED BY <2>3, <2>4
<1>2. CASE Relay
  <2>1. pc = "reading" /\ got # <<>> /\ down = <<>> /\ UNCHANGED <<server, sockets>>
    BY <1>2 DEF Relay, WholeFlight
  <2>2. CASE Fail
    BY <2>1, <2>2, FailIsSafe
  <2>3. CASE /\ stage = "HELLO_S" /\ stage' = "KH_EXCHANGE"
             /\ ready' = ready /\ pc' = "loop" /\ got' = <<>>
    <3>1. Lifetime' /\ AcceptIsOver'
      BY <2>1, <2>3 DEF Lifetime, AcceptIsOver, server, sockets
    <3>2. Counted'
      BY <2>1, <2>3, SentFacts DEF Counted, server, sockets
    <3>3. Flights'
      BY <2>1, <2>3 DEF Flights, server, sockets
    <3> QED BY <3>1, <3>2, <3>3
  <2>4. CASE /\ stage = "CHANGE_CIPHER_S" /\ stage' = "established"
             /\ ready' = ready /\ pc' = "loop" /\ got' = <<>>
    <3>1. thread \in {"failing", "gone"}
      BY <2>1, <2>4 DEF Flights, Late, Lifetime, TypeOK
    <3>2. Lifetime' /\ AcceptIsOver' /\ Counted' /\ Flights'
      BY <2>1, <2>4, <3>1 DEF Lifetime, AcceptIsOver, Counted, Flights, server, sockets
    <3> QED BY <3>2
  <2> QED BY <1>2, <2>2, <2>3, <2>4 DEF Relay, RelayHello, RelayFinish
<1>3. CASE ReadFails
  <2>1. pc = "reading" /\ Fail /\ UNCHANGED <<server, sockets>>
    BY <1>3 DEF ReadFails, Unread
  <2> QED BY <2>1, FailIsSafe
<1>4. CASE Joined
  BY <1>4 DEF Joined, relay, Lifetime, Counted, Flights, AcceptIsOver
<1> QED BY <1>1, <1>2, <1>3, <1>4 DEF Blocked

LEMMA DispatchIsSafe ==
  ASSUME ServerInv, pc = "drain", Dispatch
  PROVE  ThreadInv'
<1> USE DEF ServerInv, ThreadInv
<1>1. CASE DispatchTls
  <2>1. /\ TakesTls /\ ClientWrite(Records) /\ UNCHANGED <<pair, ssl, thread, heard, down>>
        /\ stage \in FromSensor \cup {"request"}
    BY <1>1 DEF DispatchTls, server, TakesTls, Awaited
  <2>2. Counted'
    BY <2>1, PassedIsCounted
  <2>3. CASE Fail /\ UNCHANGED up
    BY <2>1, <2>3, FailIsSafe DEF server, sockets
  <2>4. CASE /\ stage' = NextStage[stage]
             /\ pc' = IF stage' \in FromSensor THEN "loop" ELSE "reading"
             /\ UNCHANGED <<got, ready>>
    <3>1. \/ /\ stage \in FromSensor
             /\ stage' \in {"CHANGE_CIPHER_C", "HANDSHAKE_C", "CHANGE_CIPHER_S"}
          \/ stage = "request" /\ stage' = "HELLO_S"
      BY <2>1, <2>4 DEF NextStage, FromSensor
    <3>2. /\ got = <<>> /\ pair # "closed"
          /\ stage \notin {"idle", "CHANGE_CIPHER_S", "established"}
      BY <2>1 DEF Lifetime, FromSensor
    <3>3. Lifetime'
      BY <2>1, <2>4, <3>1, <3>2 DEF Lifetime, FromSensor
    <3>4. Flights'
      BY <2>1, <2>4, <3>1, <3>2 DEF Flights, Late, FromSensor
    <3>5. AcceptIsOver'
      BY <2>1, <2>4, <3>1 DEF AcceptIsOver
    <3> QED BY <2>2, <3>3, <3>4, <3>5
  <2> QED BY <2>1, <2>3, <2>4 DEF ClientWrite
<1>2. CASE DispatchAck
  <2>1. /\ stage = "established" /\ stage' = "idle" /\ ready' = "ok" /\ pc' = "loop"
        /\ UNCHANGED <<pair, ssl, thread, heard, up, down, got>>
    BY <1>2 DEF DispatchAck, TakesAck, server, sockets
  <2>2. Lifetime' /\ AcceptIsOver' /\ Flights'
    BY <2>1 DEF Lifetime, AcceptIsOver, Flights, Late, FromSensor
  <2>3. Counted'
    BY <2>1, SentFacts DEF Counted
  <2> QED BY <2>2, <2>3
<1>3. CASE DispatchOther
  BY <1>3, ThreadUntouched DEF DispatchOther
<1> QED BY <1>1, <1>2, <1>3 DEF Dispatch

LEMMA ServerStep ==
  ASSUME ServerInv, [Next]_vars
  PROVE  ServerInv'
<1> USE DEF ServerInv
<1>1. TypeOK'
  BY TypeStep DEF ThreadInv
<1>2. CASE User
  BY <1>1, <1>2, UserIsSafe
<1>3. CASE Fault
  BY <1>1, <1>3, ThreadUntouched DEF Fault
<1>4. CASE Thread
  <2>1. CASE AcceptEnds
    BY <1>1, <2>1 DEF AcceptEnds, sockets, relay,
       ThreadInv, Lifetime, Counted, Flights, AcceptIsOver
  <2>2. CASE ThreadShuts
    BY <1>1, <2>2 DEF ThreadShuts, sockets, relay,
       ThreadInv, Lifetime, Counted, Flights, AcceptIsOver
  <2> QED BY <1>1, <1>4, <2>1, <2>2, AcceptIsSafe DEF Thread
<1>5. CASE Blocked
  BY <1>1, <1>5, BlockedIsSafe
<1>6. CASE Transfer
  BY <1>1, <1>6, ThreadUntouched DEF Transfer, Receive
<1>7. CASE Drain
  <2>1. CASE Dispatch
    BY <1>1, <2>1, DispatchIsSafe DEF Dispatch
  <2>2. CASE DropCorrupt
    <3>1. pc = "drain" /\ UNCHANGED <<server, sockets>>
          /\ (Fail \/ (pc' = "loop" /\ UNCHANGED relay))
      BY <2>2 DEF DropCorrupt
    <3> QED BY <1>1, <3>1, FailIsSafe, ThreadUntouched
  <2>3. CASE Drained
    BY <1>1, <2>3, ThreadUntouched DEF Drained
  <2> QED BY <1>7, <2>1, <2>2, <2>3 DEF Drain
<1>8. CASE Timeout
  <2>1. pc = "loop" /\ Fail /\ UNCHANGED <<server, sockets>>
    BY <1>8 DEF Timeout
  <2> QED BY <1>1, <2>1, FailIsSafe
<1>9. CASE UNCHANGED vars
  BY <1>1, <1>9, ThreadUntouched DEF vars
<1> QED BY <1>2, <1>3, <1>4, <1>5, <1>6, <1>7, <1>8, <1>9 DEF Next

LEMMA ServerInit ==
  ASSUME Init
  PROVE  ServerInv
<1>1. TypeOK
  <2>1. /\ <<>> \in Seq(Client \cup {"bad"}) /\ <<>> \in Seq(Server)
        /\ <<>> \in Seq(Cell \cup {Zero})
    BY EmptySeq
  <2>2. /\ up \in Seq(Client \cup {"bad"}) /\ down \in Seq(Server) /\ got \in Seq(Server)
        /\ acc \in Seq(Cell \cup {Zero}) /\ wire \in Seq(Cell \cup {Zero})
    BY <2>1 DEF Init
  <2>3. heard \in 0..4
    BY DEF Init
  <2> QED BY <2>2, <2>3, Zenon DEF Init, TypeOK, Stages
<1>2. Lifetime /\ Counted /\ Flights /\ AcceptIsOver
  BY DEF Init, Lifetime, Counted, Flights, AcceptIsOver
<1> QED BY <1>1, <1>2 DEF ServerInv, ThreadInv

------------------------------------------------------------------------------
(* The accumulator.                                                        *)

(* A claim that is possible, and is waited for, is more than is there.     *)
LEMMA ShortStep ==
  ASSUME TypeOK, Short, [Next]_vars
  PROVE  Short'
<1> USE DEF Short
<1>1. Len(acc) \in Nat /\ Len(<<>>) = 0 /\ PACK_MAX \in Nat /\ EP_IN_MAX = PACK_MAX + 1
  BY LenProperties, EmptySeq, TlsAssumption DEF TypeOK, EP_IN_MAX
<1>2. CASE Drained
  <2>1. CASE acc = <<>>
    BY <1>1, <1>2, <2>1 DEF Drained
  <2>2. CASE acc # <<>>
    <3>1. acc[1] \in Wire
      <4>1. 1 \in 1..Len(acc) /\ acc \in Seq(Wire)
        BY <1>1, <2>2, EmptySeq DEF TypeOK, Wire
      <4> QED BY <4>1, ElementOfSeq
    <3>2. acc[1].claims \in Nat
      BY <1>1, <3>1, CellFacts
    <3>3. ~(Len(acc) > acc[1].claims) /\ ~(acc[1].claims > PACK_MAX) /\ acc' = acc
      BY <1>2, <2>2 DEF Drained, Complete, Impossible
    <3>4. Len(acc) < EP_IN_MAX
      BY <1>1, <3>2, <3>3
    <3> QED BY <3>3, <3>4
  <2> QED BY <2>1, <2>2
<1>3. CASE Teardown \/ DropCorrupt \/ Timeout \/ (Dispatch /\ ~DispatchOther)
  <2>1. acc' = <<>>
    BY <1>3 DEF Teardown, DropCorrupt, Timeout, Dispatch, DispatchTls, DispatchAck
  <2> QED BY <1>1, <2>1
<1>4. CASE Transfer \/ (Dispatch /\ DispatchOther)
  BY <1>4 DEF Transfer, Receive, Dispatch, DispatchOther
<1>5. CASE InitFails \/ TlsInit \/ Fault \/ Thread \/ Blocked \/ UNCHANGED vars
  <2>1. acc' = acc /\ (pc # "drain" \/ pc' = pc)
    BY <1>5 DEF InitFails, TlsInit, Fault, Thread, Accept, AcceptEnds, ThreadShuts,
       Blocked, ReadRecord, Relay, ReadFails, Unread, Joined, vars
  <2> QED BY <2>1
<1> QED BY <1>2, <1>3, <1>4, <1>5 DEF Next, User, Drain

------------------------------------------------------------------------------
(* The theorems.                                                           *)

LEMMA ServerInvariant == Spec => []ServerInv
<1>1. Init => ServerInv
  BY ServerInit
<1>2. ServerInv /\ [Next]_vars => ServerInv'
  BY ServerStep
<1> QED BY <1>1, <1>2, PTL DEF Spec

(* The variables keep their types.                                         *)
THEOREM TypeCorrect == Spec => []TypeOK
<1>1. ServerInv => TypeOK
  BY DEF ServerInv
<1> QED BY <1>1, ServerInvariant, PTL

(* The thread never runs on a freed SSL object or a closed socket, and no  *)
(* waiter of a handshake outlives the server: goodix_tls_server_deinit     *)
(* joins before it frees, after the slot was reset.                        *)
THEOREM NothingUsedAfterFree == Spec => []NoUseAfterFree
<1>1. ServerInv => NoUseAfterFree
  BY DEF ServerInv, ThreadInv, Lifetime, NoUseAfterFree
<1> QED BY <1>1, ServerInvariant, PTL

(* The main loop joins the thread only once the socket is shut, which      *)
(* wakes it, wherever in SSL_accept it was.                                *)
THEOREM JoinNeverWaits == Spec => []JoinIsPrompt
<1>1. ServerInv => JoinIsPrompt
  BY DEF ServerInv, ThreadInv, Lifetime, JoinIsPrompt
<1> QED BY <1>1, ServerInvariant, PTL

(* A read of the main loop never waits for a thread that has gone: one     *)
(* that was done has left its last flight, and one that failed has shut    *)
(* the socket.                                                             *)
THEOREM ReaderNeverStuck == Spec => []ReaderIsWoken
<1>1. ASSUME ServerInv
      PROVE  ReaderIsWoken
  <2>1. SUFFICES ASSUME pc = "reading", thread = "gone", pair # "shut"
                 PROVE  got \o down # <<>>
    BY DEF ReaderIsWoken
  <2>2. pair = "open" /\ stage = "CHANGE_CIPHER_S"
    BY <1>1, <2>1 DEF ServerInv, ThreadInv, Lifetime, Flights, TypeOK
  <2>3. got # <<>> \/ down # <<>>
    BY <1>1, <2>1, <2>2 DEF ServerInv, ThreadInv, Flights
  <2> QED BY <1>1, <2>3, ConcatEqualIffEmpty DEF ServerInv, TypeOK
<1>2. ServerInv => ReaderIsWoken
  BY <1>1
<1> QED BY <1>2, ServerInvariant, PTL

(* When the driver is told of a session the thread is out of SSL_accept,   *)
(* so that the reads of images have the SSL object to themselves.          *)
THEOREM AcceptNeverShared == Spec => []AcceptIsOver
<1>1. ServerInv => AcceptIsOver
  BY DEF ServerInv, ThreadInv
<1> QED BY <1>1, ServerInvariant, PTL

(* However long the packs claim to be, goodix_receive_pack leaves less     *)
(* than a transfer in the accumulator.                                     *)
THEOREM AccumulatorNeverFull == Spec => []AccumulatorFits
<1>1. Init => Short
  BY EmptySeq, TlsAssumption DEF Init, Short, EP_IN_MAX
<1>2. TypeOK /\ Short /\ [Next]_vars => Short'
  BY ShortStep
<1>3. Short => AccumulatorFits
  BY DEF Short, AccumulatorFits
<1> QED BY <1>1, <1>2, <1>3, TypeCorrect, PTL DEF Spec
==============================================================================
