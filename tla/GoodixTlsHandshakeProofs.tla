----------------------- MODULE GoodixTlsHandshakeProofs -----------------------
(***************************************************************************)
(* What holds of a handshake as long as nothing goes wrong: however the    *)
(* relay, the thread and the bus interleave, it does not fail of its own   *)
(* accord.  The server must have a key; the sensor's need not be the same. *)
(*                                                                         *)
(* Two arguments again, now apart but for the stage.  What the sensor owes *)
(* in a stage lies before the relay, cut by the bus only where a transfer  *)
(* may end.  What the relay has passed on is what SSL_accept expects next. *)
(***************************************************************************)
EXTENDS GoodixTlsProofs

(* The packs that are still to come in a stage, the first read first.      *)
Owed(s) ==
  CASE s = "request"         -> {<<"ackRequest", "CH">>, <<"CH">>}
    [] s = "KH_EXCHANGE"     -> {<<"KE", "CCS", "FIN">>}
    [] s = "CHANGE_CIPHER_C" -> {<<"CCS", "FIN">>}
    [] s = "HANDSHAKE_C"     -> {<<"FIN">>}
    [] s = "established"     -> {<<"ackEstablished">>}
    [] OTHER                 -> {<<>>}

HeadOf(f) == [type |-> "head", frame |-> f, claims |-> 1]

(* A sequence of cells holds these packs and no other cell.                *)
Laid(s, fs) ==
  /\ Len(s) = 3 * Len(fs)
  /\ \A i \in 1..Len(fs) :
       s[3 * i - 2] = HeadOf(fs[i]) /\ s[3 * i - 1] = Body(fs[i], 1) /\ s[3 * i] = Zero

(* A transfer has ended where a pack does, or behind a header.             *)
Cut ==
  /\ wire # <<>> => wire[1] # Zero
  /\ pc # "drain" => Len(acc) <= 1
  /\ \A i, j \in Heads(acc) : i = j

Streamed == (\E fs \in Owed(stage) : Laid(acc \o wire, fs)) /\ Cut

(* The server is there for every stage that relays to it.  The one thing   *)
(* it may refuse is a Finished under another key, and then its alert is    *)
(* what the relay reads last.                                              *)
Refused == PSK = "wrong" /\ stage \in {"CHANGE_CIPHER_S", "established"}

Served ==
  /\ stage # "idle" => pair = "open" \/ (Refused /\ thread = "gone")
  /\ thread = "failing" /\ stage # "idle" => Refused
  /\ stage \notin {"idle", "CHANGE_CIPHER_S", "established"} => thread = "accepting"
  /\ stage = "idle" => thread # "accepting"

(* The records of the client from one on to another.                       *)
Between(m, n) == SubSeq(ClientRecords, m, n)

Passed ==
  /\ thread = "accepting" => up = Between(heard + 1, Sent(stage))
  /\ stage = "HELLO_S" /\ heard # 0 => got \o down = ServerHello
  /\ stage = "CHANGE_CIPHER_S" /\ thread # "accepting" => got # <<>> \/ down # <<>>

(* The waiter is told of nothing but a session the server has accepted.    *)
Accepted ==
  PSK = "right" /\ thread # "accepting" /\ (stage # "idle" \/ ready = "ok") =>
    ssl = "accepted" /\ thread = "gone"

Calm == Streamed /\ Served /\ Passed /\ Accepted /\ ready # "failed"

HandshakeInv == ~faulty => Calm

------------------------------------------------------------------------------
(* What is owed.                                                           *)

LEMMA ShortTuples ==
  ASSUME NEW a \in Frames, NEW b \in Frames, NEW c \in Frames
  PROVE  /\ <<>> \in Seq(Frames) /\ Len(<<>>) = 0
         /\ <<a>> \in Seq(Frames) /\ Len(<<a>>) = 1 /\ Tail(<<a>>) = <<>> /\ <<a>> # <<>>
         /\ <<a, b>> \in Seq(Frames) /\ Len(<<a, b>>) = 2 /\ Tail(<<a, b>>) = <<b>>
         /\ <<a, b>> # <<>>
         /\ <<a, b, c>> \in Seq(Frames) /\ Len(<<a, b, c>>) = 3
         /\ Tail(<<a, b, c>>) = <<b, c>> /\ <<a, b, c>> # <<>>
<1>1. <<>> \in Seq(Frames) /\ Len(<<>>) = 0
  BY EmptySeq
<1>2. <<a>> \in Seq(Frames) /\ Len(<<a>>) = 1 /\ <<a>> # <<>>
  OBVIOUS
<1>3. <<a, b>> \in Seq(Frames) /\ Len(<<a, b>>) = 2 /\ <<a, b>> # <<>>
  OBVIOUS
<1>4. <<a, b, c>> \in Seq(Frames) /\ Len(<<a, b, c>>) = 3 /\ <<a, b, c>> # <<>>
  OBVIOUS
<1>5. Tail(<<a>>) = <<>> /\ Tail(<<a, b>>) = <<b>> /\ Tail(<<a, b, c>>) = <<b, c>>
  OBVIOUS
<1> QED BY <1>1, <1>2, <1>3, <1>4, <1>5

LEMMA OwedFacts ==
  ASSUME NEW s \in Stages, NEW fs \in Owed(s)
  PROVE  /\ fs \in Seq(Frames)
         /\ fs = <<>> <=> s \in {"idle", "HELLO_S", "CHANGE_CIPHER_S"}
         /\ Len(fs) >= 2 => fs[2] # "ackRequest"
<1>1. {"ackRequest", "ackEstablished", "CH", "KE", "CCS", "FIN"} \subseteq Frames
  BY DEF Frames, Client
<1>2. CASE s = "request"
  <2>1. fs = <<"ackRequest", "CH">> \/ fs = <<"CH">>
    BY <1>2 DEF Owed
  <2>2. CASE fs = <<"CH">>
    BY <1>1, <1>2, <2>2, ShortTuples
  <2>3. CASE fs = <<"ackRequest", "CH">>
    BY <1>1, <1>2, <2>3, ShortTuples
  <2> QED BY <2>1, <2>2, <2>3
<1>3. CASE s = "KH_EXCHANGE"
  <2>1. fs = <<"KE", "CCS", "FIN">>
    BY <1>3 DEF Owed
  <2> QED BY <1>1, <1>3, <2>1, ShortTuples
<1>4. CASE s = "CHANGE_CIPHER_C"
  <2>1. fs = <<"CCS", "FIN">>
    BY <1>4 DEF Owed
  <2> QED BY <1>1, <1>4, <2>1, ShortTuples
<1>5. CASE s = "HANDSHAKE_C"
  <2>1. fs = <<"FIN">>
    BY <1>5 DEF Owed
  <2> QED BY <1>1, <1>5, <2>1, ShortTuples
<1>6. CASE s = "established"
  <2>1. fs = <<"ackEstablished">>
    BY <1>6 DEF Owed
  <2> QED BY <1>1, <1>6, <2>1, ShortTuples
<1>7. CASE s \in {"idle", "HELLO_S", "CHANGE_CIPHER_S"}
  <2>1. fs = <<>>
    BY <1>7 DEF Owed
  <2> QED BY <1>1, <1>7, <2>1, ShortTuples
<1> QED BY <1>2, <1>3, <1>4, <1>5, <1>6, <1>7 DEF Stages, FromSensor

(* The first pack is the one the stage awaits; what is behind it is owed   *)
(* in the stage that follows.                                              *)
LEMMA OwedNext ==
  ASSUME NEW s \in Stages, NEW fs \in Owed(s), fs # <<>>
  PROVE  \/ fs[1] = "ackRequest" /\ s = "request" /\ Tail(fs) \in Owed(s)
         \/ fs[1] = "ackEstablished" /\ s = "established" /\ Tail(fs) = <<>>
         \/ /\ s \in FromSensor \cup {"request"}
            /\ fs[1] = ClientRecords[Sent(s) + 1] /\ fs[1] \in Client
            /\ Tail(fs) \in Owed(NextStage[s])
<1>1. {"ackRequest", "ackEstablished", "CH", "KE", "CCS", "FIN"} \subseteq Frames
  BY DEF Frames, Client
<1>2. /\ ClientRecords[1] = "CH" /\ ClientRecords[2] = "KE"
      /\ ClientRecords[3] = "CCS" /\ ClientRecords[4] = "FIN"
      /\ {"CH", "KE", "CCS", "FIN"} \subseteq Client
  BY DEF ClientRecords, Client
<1>3. CASE s = "request"
  <2>1. fs = <<"ackRequest", "CH">> \/ fs = <<"CH">>
    BY <1>3 DEF Owed
  <2>2. Sent(s) + 1 = 1 /\ NextStage[s] = "HELLO_S" /\ <<"CH">> \in Owed(s)
        /\ <<>> \in Owed("HELLO_S")
    BY <1>3 DEF Sent, NextStage, Owed
  <2>3. CASE fs = <<"CH">>
    BY <1>1, <1>2, <1>3, <2>2, <2>3, ShortTuples
  <2>4. CASE fs = <<"ackRequest", "CH">>
    BY <1>1, <1>3, <2>2, <2>4, ShortTuples
  <2> QED BY <2>1, <2>3, <2>4
<1>4. CASE s = "KH_EXCHANGE"
  <2>1. fs = <<"KE", "CCS", "FIN">>
    BY <1>4 DEF Owed
  <2>2. Sent(s) + 1 = 2 /\ NextStage[s] = "CHANGE_CIPHER_C"
        /\ <<"CCS", "FIN">> \in Owed("CHANGE_CIPHER_C")
    BY <1>4 DEF Sent, NextStage, Owed
  <2> QED BY <1>1, <1>2, <1>4, <2>1, <2>2, ShortTuples DEF FromSensor
<1>5. CASE s = "CHANGE_CIPHER_C"
  <2>1. fs = <<"CCS", "FIN">>
    BY <1>5 DEF Owed
  <2>2. Sent(s) + 1 = 3 /\ NextStage[s] = "HANDSHAKE_C" /\ <<"FIN">> \in Owed("HANDSHAKE_C")
    BY <1>5 DEF Sent, NextStage, Owed
  <2> QED BY <1>1, <1>2, <1>5, <2>1, <2>2, ShortTuples DEF FromSensor
<1>6. CASE s = "HANDSHAKE_C"
  <2>1. fs = <<"FIN">>
    BY <1>6 DEF Owed
  <2>2. Sent(s) + 1 = 4 /\ NextStage[s] = "CHANGE_CIPHER_S" /\ <<>> \in Owed("CHANGE_CIPHER_S")
    BY <1>6 DEF Sent, NextStage, Owed
  <2> QED BY <1>1, <1>2, <1>6, <2>1, <2>2, ShortTuples DEF FromSensor
<1>7. CASE s = "established"
  <2>1. fs = <<"ackEstablished">>
    BY <1>7 DEF Owed
  <2> QED BY <1>1, <1>7, <2>1, ShortTuples
<1>8. s \notin {"idle", "HELLO_S", "CHANGE_CIPHER_S"}
  BY OwedFacts
<1> QED BY <1>3, <1>4, <1>5, <1>6, <1>7, <1>8 DEF Stages, FromSensor

(* The sensor lays its packs so, as long as nothing is wrong.              *)
LEMMA PacksLaid ==
  ASSUME NEW fs \in Seq(Frames), NEW n
  PROVE  Laid(Packs(fs, 0, n), fs)
<1> DEFINE m == 3 * Len(fs)
           p == [k \in 1..m |-> LET i == 1 + (k - 1) \div 3
                                IN  Pack(fs[i], IF i = 0 THEN n ELSE 1)[k - 3 * (i - 1)]]
<1>1. Len(fs) \in Nat /\ m \in Nat
  BY LenProperties
<1>2. Len(p) = m
  <2> HIDE DEF m
  <2> QED BY <1>1
<1>3. ASSUME NEW i \in 1..Len(fs), NEW j \in 1..3
      PROVE  p[3 * (i - 1) + j] = Pack(fs[i], 1)[j]
  <2> DEFINE k == 3 * (i - 1) + j
  <2>1. k \in 1..m /\ 1 + (k - 1) \div 3 = i /\ k - 3 * (i - 1) = j
    BY <1>1
  <2>2. i # 0
    BY <1>1
  <2> HIDE DEF k, m
  <2>3. p[k] = Pack(fs[i], IF i = 0 THEN n ELSE 1)[j]
    BY <2>1
  <2> QED BY <2>2, <2>3 DEF k
<1>4. ASSUME NEW i \in 1..Len(fs)
      PROVE  p[3 * i - 2] = HeadOf(fs[i]) /\ p[3 * i - 1] = Body(fs[i], 1) /\ p[3 * i] = Zero
  <2>1. /\ 3 * (i - 1) + 1 = 3 * i - 2 /\ 3 * (i - 1) + 2 = 3 * i - 1
        /\ 3 * (i - 1) + 3 = 3 * i
    BY <1>1
  <2> HIDE DEF p
  <2>2. p[3 * i - 2] = Pack(fs[i], 1)[1] /\ p[3 * i - 1] = Pack(fs[i], 1)[2]
        /\ p[3 * i] = Pack(fs[i], 1)[3]
    BY <1>3, <2>1
  <2> QED BY <2>2 DEF Pack, HeadOf
<1>5. Laid(p, fs)
  <2> HIDE DEF p
  <2> QED BY <1>2, <1>4 DEF Laid
<1> QED BY <1>5 DEF Packs

LEMMA NothingLaid ==
  ASSUME NEW s \in Seq(Wire), NEW t \in Seq(Wire)
  PROVE  /\ Laid(<<>>, <<>>)
         /\ Laid(s \o t, <<>>) => s = <<>> /\ t = <<>>
<1>1. Laid(<<>>, <<>>)
  BY DEF Laid
<1>2. ASSUME Laid(s \o t, <<>>)
      PROVE  s = <<>> /\ t = <<>>
  <2>1. Len(s) + Len(t) = 0
    BY <1>2, ConcatProperties, EmptySeq DEF Laid
  <2>2. Len(s) = 0 /\ Len(t) = 0
    BY <2>1, LenProperties
  <2> QED BY <2>2, EmptySeq
<1> QED BY <1>1, <1>2

(* The cells of the first pack, in the accumulator or behind it.           *)
LEMMA FirstPack ==
  ASSUME NEW s \in Seq(Wire), NEW t \in Seq(Wire), NEW fs \in Seq(Frames),
         Laid(s \o t, fs), s # <<>>
  PROVE  /\ fs # <<>> /\ s[1] = HeadOf(fs[1])
         /\ Len(s) >= 3 => s[2] = Body(fs[1], 1) /\ s[3] = Zero
         /\ Len(s) >= 4 => Len(fs) >= 2 /\ s[4] = HeadOf(fs[2])
         /\ Len(s) = 2 => t # <<>> /\ t[1] = Zero
<1>1. Len(s) \in Nat \ {0} /\ Len(t) \in Nat /\ Len(fs) \in Nat
  BY LenProperties, EmptySeq
<1>2. /\ Len(s) + Len(t) = 3 * Len(fs)
      /\ \A i \in 1..Len(s) : (s \o t)[i] = s[i]
      /\ \A i \in 1..Len(t) : (s \o t)[Len(s) + i] = t[i]
  BY ConcatProperties DEF Laid
<1>3. Len(fs) >= 1
  BY <1>1, <1>2
<1>4. /\ (s \o t)[1] = HeadOf(fs[1]) /\ (s \o t)[2] = Body(fs[1], 1) /\ (s \o t)[3] = Zero
      /\ Len(fs) >= 2 => (s \o t)[4] = HeadOf(fs[2])
  <2> DEFINE u == s \o t
  <2>1. \A i \in 1..Len(fs) :
          u[3 * i - 2] = HeadOf(fs[i]) /\ u[3 * i - 1] = Body(fs[i], 1) /\ u[3 * i] = Zero
    BY DEF Laid
  <2>2. 1 \in 1..Len(fs) /\ (Len(fs) >= 2 => 2 \in 1..Len(fs))
    BY <1>1, <1>3
  <2>3. 3 * 1 - 2 = 1 /\ 3 * 1 - 1 = 2 /\ 3 * 1 = 3 /\ 3 * 2 - 2 = 4
    OBVIOUS
  <2> HIDE DEF u
  <2>4. u[1] = HeadOf(fs[1]) /\ u[2] = Body(fs[1], 1) /\ u[3] = Zero
    <3>1. /\ u[3 * 1 - 2] = HeadOf(fs[1]) /\ u[3 * 1 - 1] = Body(fs[1], 1)
          /\ u[3 * 1] = Zero
      BY <2>1, <2>2
    <3> QED BY <2>3, <3>1
  <2>5. ASSUME Len(fs) >= 2
        PROVE  u[4] = HeadOf(fs[2])
    <3>1. u[3 * 2 - 2] = HeadOf(fs[2])
      BY <2>1, <2>2, <2>5
    <3> QED BY <2>3, <3>1
  <2> QED BY <2>4, <2>5 DEF u
<1>5. fs # <<>>
  BY <1>3, EmptySeq
<1>6. s[1] = HeadOf(fs[1])
  BY <1>1, <1>2, <1>4
<1>7. Len(s) >= 3 => s[2] = Body(fs[1], 1) /\ s[3] = Zero
  BY <1>1, <1>2, <1>4
<1>8. Len(s) >= 4 => Len(fs) >= 2 /\ s[4] = HeadOf(fs[2])
  BY <1>1, <1>2, <1>4
<1>9. Len(s) = 2 => t # <<>> /\ t[1] = Zero
  <2> SUFFICES ASSUME Len(s) = 2
               PROVE  t # <<>> /\ t[1] = Zero
    OBVIOUS
  <2>1. Len(t) >= 1
    BY <1>1, <1>2, <1>3
  <2>2. 1 \in 1..Len(t) /\ Len(s) + 1 = 3
    BY <1>1, <2>1
  <2>3. (s \o t)[Len(s) + 1] = t[1]
    BY <1>2, <2>2, Zenon
  <2>4. (s \o t)[3] = t[1]
    BY <2>2, <2>3, Zenon
  <2>5. t # <<>>
    BY <2>1, EmptySeq
  <2> QED BY <1>4, <2>4, <2>5
<1> QED BY <1>5, <1>6, <1>7, <1>8, <1>9

(* Behind the first pack are the others.                                   *)
LEMMA OtherPacks ==
  ASSUME NEW s \in Seq(Wire), NEW fs \in Seq(Frames), fs # <<>>, Laid(s, fs)
  PROVE  Laid(SubSeq(s, 4, Len(s)), Tail(fs))
<1> DEFINE u == SubSeq(s, 4, Len(s))
<1>1. /\ Len(s) = 3 * Len(fs) /\ Len(fs) \in Nat \ {0}
      /\ Len(Tail(fs)) = Len(fs) - 1
      /\ \A i \in 1..(Len(fs) - 1) : Tail(fs)[i] = fs[i + 1]
  BY LenProperties, EmptySeq, HeadTailProperties DEF Laid
<1>2. Len(u) = Len(s) - 3 /\ \A k \in 1..(Len(s) - 3) : u[k] = s[k + 3]
  BY <1>1
<1> HIDE DEF u
<1>3. ASSUME NEW i \in 1..(Len(fs) - 1)
      PROVE  /\ u[3 * i - 2] = HeadOf(fs[i + 1]) /\ u[3 * i - 1] = Body(fs[i + 1], 1)
             /\ u[3 * i] = Zero
  <2>1. /\ {3 * i - 2, 3 * i - 1, 3 * i} \subseteq 1..(Len(s) - 3)
        /\ (3 * i - 2) + 3 = 3 * (i + 1) - 2 /\ (3 * i - 1) + 3 = 3 * (i + 1) - 1
        /\ 3 * i + 3 = 3 * (i + 1) /\ i + 1 \in 1..Len(fs)
    BY <1>1
  <2> QED BY <1>2, <2>1 DEF Laid
<1>4. Laid(u, Tail(fs))
  BY <1>1, <1>2, <1>3 DEF Laid
<1> QED BY <1>4 DEF u

(* A transfer takes from the wire what it adds to the accumulator.         *)
LEMMA Moved ==
  ASSUME NEW s \in Seq(Wire), NEW t \in Seq(Wire), NEW n \in 0..Len(t)
  PROVE  (s \o SubSeq(t, 1, n)) \o SubSeq(t, n + 1, Len(t)) = s \o t
<1> DEFINE u == SubSeq(t, 1, n)
           v == SubSeq(t, n + 1, Len(t))
<1>1. Len(t) \in Nat /\ 1 \in Nat \ {0} /\ n + 1 \in Nat \ {0} /\ Len(t) \in 0..Len(t)
  BY LenProperties
<1>2. s \in Seq(Wire) /\ u \in Seq(Wire) /\ v \in Seq(Wire)
  BY <1>1, PieceCells
<1>3. u \o v = t
  <2>1. u \o v = SubSeq(t, 1, Len(t))
    <3>1. 1 \in 1..(Len(t) + 1) /\ n \in 1-1..Len(t) /\ Len(t) \in n..Len(t)
      BY <1>1
    <3> QED BY <3>1, ConcatAdjacentSubSeq
  <2> QED BY <2>1, SubSeqFull
<1> HIDE DEF u, v
<1>4. (s \o u) \o v = s \o (u \o v)
  <2> DEFINE l == (s \o u) \o v
             r == s \o (u \o v)
  <2>1. /\ l \in Seq(Wire) /\ Len(l) = Len(s) + Len(u) + Len(v)
        /\ r \in Seq(Wire) /\ Len(r) = Len(l)
    BY <1>2
  <2>2. ASSUME NEW i \in 1..Len(l)
        PROVE  l[i] = r[i]
    BY <1>2, <2>1
  <2> HIDE DEF l, r
  <2>3. l = r
    BY <2>1, <2>2, SeqEqual
  <2> QED BY <2>3 DEF l, r
<1> QED BY <1>3, <1>4 DEF u, v

(* The first pack is dropped from the accumulator.                         *)
LEMMA Dropped ==
  ASSUME NEW s \in Seq(Wire), NEW t \in Seq(Wire), Len(s) >= 3
  PROVE  /\ SubSeq(s \o t, 4, Len(s \o t)) = SubSeq(s, 4, Len(s)) \o t
         /\ Len(s) = 3 => SubSeq(s, 4, Len(s)) = <<>>
<1>1. Len(s) \in Nat /\ Len(t) \in Nat /\ Len(s \o t) = Len(s) + Len(t)
  BY LenProperties, ConcatProperties
<1>2. Len(s) = 3 => SubSeq(s, 4, Len(s)) = <<>>
  BY <1>1
<1>3. SubSeq(s \o t, 4, Len(s \o t)) = SubSeq(s, 4, Len(s)) \o t
  BY <1>1
<1> QED BY <1>2, <1>3

LEMMA Behind ==
  ASSUME NEW s \in Seq(Wire), NEW a \in 1..Len(s)
  PROVE  /\ SubSeq(s, a, Len(s)) \in Seq(Wire)
         /\ Len(SubSeq(s, a, Len(s))) = Len(s) - a + 1
         /\ \A i \in 1..(Len(s) - a + 1) : SubSeq(s, a, Len(s))[i] = s[a + i - 1]
         /\ SubSeq(SubSeq(s, a, Len(s)), 2, Len(SubSeq(s, a, Len(s)))) = SubSeq(s, a + 1, Len(s))
<1> DEFINE n == Len(s)
           r == SubSeq(s, a, n)
<1>1. n \in Nat /\ a \in Int /\ n \in Int /\ a <= n /\ n \in a..n
  BY LenProperties
<1>2. \A i \in a..n : s[i] \in Wire
  BY <1>1, ElementOfSeq
<1>3. r \in Seq(Wire) /\ Len(r) = n - a + 1 /\ \A i \in 1..(n - a + 1) : r[i] = s[a + i - 1]
  <2> HIDE DEF n
  <2> QED BY <1>1, <1>2, SubSeqProperties
<1>4. r # <<>>
  <2> HIDE DEF r, n
  <2> QED BY <1>1, <1>3, EmptySeq
<1>5. Tail(r) = SubSeq(s, a + 1, n)
  BY <1>1, HeadTailOfSubSeq
<1>6. Tail(r) = SubSeq(r, 2, Len(r))
  <2> HIDE DEF r
  <2> QED BY <1>3, <1>4, TailIsSubSeq
<1> QED BY <1>3, <1>5, <1>6

(* A single cell of padding is skipped.                                    *)
LEMMA SkipOne ==
  ASSUME NEW s \in Seq(Wire), s # <<>>, s[1] = Zero, Len(s) >= 2 => s[2] # Zero
  PROVE  SkipZeros(s) = SubSeq(s, 2, Len(s))
<1> DEFINE P(m) == (\A i \in 1..m : s[i] = Zero) /\ (m < Len(s) => s[m + 1] # Zero)
           n == CHOOSE m \in 0..Len(s) : P(m)
<1>1. Len(s) \in Nat \ {0}
  BY EmptySeq
<1>2. 1 \in 0..Len(s) /\ P(1)
  BY <1>1
<1>3. ASSUME NEW m \in 0..Len(s), P(m)
      PROVE  m = 1
  <2>1. m # 0
    BY <1>1, <1>3
  <2>2. ~(m >= 2)
    BY <1>1, <1>3
  <2> QED BY <1>1, <2>1, <2>2
<1>4. n = 1
  <2> HIDE DEF P
  <2> QED BY <1>2, <1>3
<1>5. SkipZeros(s) = SubSeq(s, n + 1, Len(s))
  BY DEF SkipZeros
<1>6. n + 1 = 2
  <2> HIDE DEF n
  <2> QED BY <1>4
<1> QED BY <1>5, <1>6, Zenon

------------------------------------------------------------------------------
(* The stream of the sensor.                                               *)

LEMMA CellsTyped ==
  ASSUME TypeOK
  PROVE  /\ acc \in Seq(Wire) /\ wire \in Seq(Wire) /\ acc \o wire \in Seq(Wire)
         /\ Len(acc) \in Nat /\ Len(wire) \in Nat
         /\ stage \in Stages
         /\ \A fs \in Owed(stage) : fs \in Seq(Frames)
<1>1. acc \in Seq(Wire) /\ wire \in Seq(Wire) /\ stage \in Stages
  BY DEF TypeOK, Wire
<1> QED BY <1>1, LenProperties, ConcatProperties, OwedFacts

LEMMA ReceiveStreams ==
  ASSUME TypeOK, Streamed, ~faulty, NEW n \in 1..EP_IN_MAX, n <= Len(wire), Receive(n)
  PROVE  Streamed'
<1> DEFINE in == SubSeq(wire, 1, n)
           rest == SubSeq(wire, n + 1, Len(wire))
<1>1. /\ pc = "loop" /\ pc' = "drain" /\ Tidy(in, rest) /\ wire' = rest /\ stage' = stage
      /\ acc' = (IF Len(acc) + n > 2 * EP_IN_MAX THEN <<>> ELSE acc) \o in
  BY DEF Receive, relay
<1> HIDE DEF in, rest
<1>2. Len(acc) <= 1
  BY <1>1 DEF Streamed, Cut
<1>3. acc' = acc \o in
  <2>1. EP_IN_MAX \in Nat /\ EP_IN_MAX >= 2
    BY CellFacts DEF EP_IN_MAX
  <2>2. ~(Len(acc) + n > 2 * EP_IN_MAX)
    BY <1>2, <2>1, CellsTyped
  <2> QED BY <1>1, <2>2
<1>4. acc' \o wire' = acc \o wire
  <2>1. n \in 0..Len(wire)
    BY CellsTyped, CellFacts
  <2> QED BY <1>1, <1>3, <2>1, CellsTyped, Moved DEF in, rest
<1>5. Cut'
  BY <1>1, <1>3 DEF Tidy, Cut
<1> QED BY <1>1, <1>4, <1>5 DEF Streamed

(* What is before a drain is a header of the sensor's.                     *)
LEMMA Aligned ==
  ASSUME TypeOK, Streamed, acc # <<>>
  PROVE  \E fs \in Owed(stage) :
           /\ Laid(acc \o wire, fs) /\ fs # <<>> /\ acc[1] = HeadOf(fs[1])
           /\ ~Impossible(acc)
<1>1. PICK fs \in Owed(stage) : Laid(acc \o wire, fs)
  BY DEF Streamed
<1>2. fs # <<>> /\ acc[1] = HeadOf(fs[1])
  BY <1>1, CellsTyped, FirstPack
<1>3. ~Impossible(acc)
  BY <1>2, TlsAssumption DEF HeadOf, Impossible
<1> QED BY <1>1, <1>2, <1>3

(* A complete pack is dispatched whole, and only the acknowledgement of    *)
(* the request has another behind it.                                      *)
LEMMA WholePack ==
  ASSUME TypeOK, Streamed, acc # <<>>, Complete(acc)
  PROVE  \E fs \in Owed(stage) :
           /\ fs # <<>> /\ acc[1] = HeadOf(fs[1]) /\ Len(acc) >= 3 /\ acc[3] = Zero
           /\ Payload = <<Body(fs[1], 1)>>
           /\ Laid(SubSeq(acc, 4, Len(acc)) \o wire, Tail(fs))
           /\ fs[1] # "ackRequest" => Len(acc) = 3
           /\ Len(acc) >= 4 => acc[4] # Zero
<1>1. PICK fs \in Owed(stage) :
        Laid(acc \o wire, fs) /\ fs # <<>> /\ acc[1] = HeadOf(fs[1])
  BY Aligned
<1>2. /\ acc \in Seq(Wire) /\ wire \in Seq(Wire) /\ fs \in Seq(Frames)
      /\ Len(acc) \in Nat /\ stage \in Stages
  BY <1>1, CellsTyped
<1>3. /\ Len(acc) >= 3 => acc[2] = Body(fs[1], 1) /\ acc[3] = Zero
      /\ Len(acc) >= 4 => Len(fs) >= 2 /\ acc[4] = HeadOf(fs[2])
      /\ Len(acc) = 2 => wire # <<>> /\ wire[1] = Zero
  BY <1>1, <1>2, FirstPack
<1>4. Len(acc) >= 3
  <2>1. Len(acc) > 1
    BY <1>1 DEF Complete, HeadOf
  <2>2. Len(acc) # 2
    BY <1>3 DEF Streamed, Cut
  <2> DEFINE k == Len(acc)
  <2>3. k \in Nat /\ k > 1 /\ k # 2
    BY <1>2, <2>1, <2>2
  <2>4. k >= 3
    <3> HIDE DEF k
    <3> QED BY <2>3
  <2> QED BY <2>4
<1>5. Payload = <<Body(fs[1], 1)>>
  <2>1. acc[1].claims = 1
    BY <1>1 DEF HeadOf
  <2>2. Payload = SubSeq(acc, 2, 2)
    BY <2>1 DEF Payload
  <2>3. SubSeq(acc, 2, 2) = <<acc[2]>>
    <3>1. /\ SubSeq(acc, 2, 2) \in Seq(Wire) /\ Len(SubSeq(acc, 2, 2)) = 1
          /\ SubSeq(acc, 2, 2)[1] = acc[2]
      <4>1. \A s \in Seq(Wire) : Len(s) >= 3 => SubSeq(s, 2, 2)[1] = s[2]
        OBVIOUS
      <4>2. 2 \in Nat \ {0} /\ 2 \in 0..Len(acc)
        BY <1>2, <1>4
      <4> QED BY <1>2, <1>4, <4>1, <4>2, PieceCells
    <3>2. \A q \in Seq(Wire) : Len(q) = 1 => q = <<q[1]>>
      OBVIOUS
    <3> QED BY <3>1, <3>2
  <2> QED BY <1>3, <1>4, <2>2, <2>3
<1>6. Laid(SubSeq(acc, 4, Len(acc)) \o wire, Tail(fs))
  <2>1. acc \o wire \in Seq(Wire)
    BY CellsTyped
  <2>2. Laid(SubSeq(acc \o wire, 4, Len(acc \o wire)), Tail(fs))
    BY <1>1, <1>2, <2>1, OtherPacks
  <2> QED BY <1>2, <1>4, <2>2, Dropped
<1>7. Len(acc) >= 4 => acc[4] # Zero
  BY <1>3 DEF HeadOf, Zero
<1>8. ASSUME fs[1] # "ackRequest"
      PROVE  Len(acc) = 3
  <2> DEFINE k == Len(acc)
  <2>0. ~(k >= 4) => k = 3
    <3>1. k \in Nat /\ k >= 3
      BY <1>2, <1>4
    <3> HIDE DEF k
    <3> QED BY <3>1
  <2> SUFFICES ASSUME Len(acc) >= 4
               PROVE  FALSE
    BY <2>0
  <2>1. fs[2] # "ackRequest"
    BY <1>1, <1>2, <1>3, OwedFacts
  <2>2. acc[4] = HeadOf(fs[2])
    BY <1>3
  <2>3. 1 \in Heads(acc) /\ 4 \in Heads(acc)
    BY <1>1, <1>2, <1>8, <2>1, <2>2 DEF Heads, HeadOf
  <2> QED BY <2>3 DEF Streamed, Cut
<1> QED BY <1>1, <1>3, <1>4, <1>5, <1>6, <1>7, <1>8

(* A dispatched pack is the one its stage awaits.                          *)
LEMMA DispatchFlow ==
  ASSUME TypeOK, Streamed, pc = "drain", Dispatch
  PROVE  /\ Cut'
         /\ \/ /\ DispatchTls /\ stage \in FromSensor \cup {"request"}
               /\ Records = <<ClientRecords[Sent(stage) + 1]>>
               /\ \E fs \in Owed(NextStage[stage]) : Laid(acc' \o wire', fs)
            \/ DispatchAck /\ Laid(acc' \o wire', <<>>)
            \/ DispatchOther /\ \E fs \in Owed(stage) : Laid(acc' \o wire', fs)
<1>1. acc # <<>> /\ Complete(acc) /\ wire' = wire
  BY DEF Dispatch
<1>2. PICK fs \in Owed(stage) :
        /\ fs # <<>> /\ acc[1] = HeadOf(fs[1]) /\ Len(acc) >= 3 /\ acc[3] = Zero
        /\ Payload = <<Body(fs[1], 1)>>
        /\ Laid(SubSeq(acc, 4, Len(acc)) \o wire, Tail(fs))
        /\ fs[1] # "ackRequest" => Len(acc) = 3
        /\ Len(acc) >= 4 => acc[4] # Zero
  BY <1>1, WholePack
<1>3. /\ acc \in Seq(Wire) /\ wire \in Seq(Wire) /\ Len(acc) \in Nat
      /\ stage \in Stages /\ fs \in Seq(Frames)
  BY CellsTyped
<1>4. acc[1].type = "head" /\ acc[1].frame = fs[1] /\ acc[1].claims = 1
  BY <1>2 DEF HeadOf
<1>5. fs[1] # "ackRequest" => SubSeq(acc, 4, Len(acc)) = <<>>
  BY <1>2, <1>3, Dropped
<1>6. ASSUME acc' = <<>>
      PROVE  Cut'
  BY <1>1, <1>6, EmptySeq DEF Streamed, Cut, Heads
<1>7. CASE fs[1] = "ackRequest" /\ stage = "request" /\ Tail(fs) \in Owed(stage)
  <2>1. ~TakesTls /\ ~TakesAck
    BY <1>4, <1>7 DEF TakesTls, TakesAck, Client
  <2>2. DispatchOther
    BY <2>1 DEF Dispatch, DispatchTls, DispatchAck
  <2> DEFINE r == SubSeq(acc, 3, Len(acc))
  <2>3. r \in Seq(Wire) /\ r # <<>> /\ r[1] = Zero /\ (Len(r) >= 2 => r[2] # Zero)
        /\ SubSeq(r, 2, Len(r)) = SubSeq(acc, 4, Len(acc))
    <3> DEFINE k == Len(acc)
    <3>0. k \in Nat /\ k >= 3 /\ 3 \in 1..Len(acc)
      BY <1>2, <1>3
    <3>1. /\ r \in Seq(Wire) /\ Len(r) = k - 3 + 1
          /\ \A i \in 1..(k - 3 + 1) : r[i] = acc[3 + i - 1]
          /\ SubSeq(r, 2, Len(r)) = SubSeq(acc, 3 + 1, Len(acc))
      BY <1>3, <3>0, Behind
    <3>2. k >= 4 => acc[4] # Zero
      BY <1>2
    <3>3. r # <<>> /\ r[1] = Zero /\ (Len(r) >= 2 => r[2] # Zero)
      <4> HIDE DEF k, r
      <4>1. r # <<>>
        BY <3>0, <3>1, EmptySeq
      <4>2. 1 \in 1..(k - 3 + 1) /\ 3 + 1 - 1 = 3
        BY <3>0
      <4>3. r[1] = acc[3]
        <5>1. r[1] = acc[3 + 1 - 1]
          BY <3>1, <4>2
        <5> QED BY <4>2, <5>1
      <4>4. ASSUME Len(r) >= 2
            PROVE  r[2] = acc[4] /\ k >= 4
        <5>1. 2 \in 1..(k - 3 + 1) /\ 3 + 2 - 1 = 4 /\ k >= 4
          BY <3>0, <3>1, <4>4
        <5>2. r[2] = acc[3 + 2 - 1]
          BY <3>1, <5>1
        <5> QED BY <5>1, <5>2
      <4> QED BY <1>2, <3>2, <4>1, <4>3, <4>4
    <3>4. 3 + 1 = 4
      OBVIOUS
    <3> QED BY <3>1, <3>3, <3>4
  <2>4. acc' = SubSeq(acc, 4, Len(acc))
    <3>1. acc' = SkipZeros(r)
      BY <1>4, <2>2 DEF DispatchOther
    <3> HIDE DEF r
    <3> QED BY <2>3, <3>1, SkipOne
  <2>5. Cut'
    <3>1. Heads(acc') \subseteq {i \in Nat : i + 3 \in Heads(acc)}
      <4> DEFINE k == Len(acc)
      <4>1. k \in Nat
        BY <1>3
      <4>2. CASE k = 3
        <5>1. acc' = <<>>
          BY <1>3, <2>4, <4>2, Dropped
        <5>2. Heads(acc') = {}
          BY <5>1, EmptySeq DEF Heads
        <5> QED BY <5>2
      <4>3. CASE k >= 4
        <5>1. 4 \in 1..Len(acc)
          BY <4>1, <4>3
        <5>2. Len(acc') = k - 4 + 1 /\ \A i \in 1..(k - 4 + 1) : acc'[i] = acc[4 + i - 1]
          BY <1>3, <2>4, <5>1, Behind
        <5>3. ASSUME NEW i \in Heads(acc')
              PROVE  i \in Nat /\ i + 3 \in Heads(acc)
          <6>1. /\ i \in 1..(k - 4 + 1)
                /\ acc'[i].type = "head" /\ acc'[i].frame # "ackRequest"
            BY <5>2 DEF Heads
          <6>2. acc'[i] = acc[4 + i - 1]
            BY <5>2, <6>1
          <6>3. i \in Nat /\ i + 3 \in 1..k /\ 4 + i - 1 = i + 3
            <7> HIDE DEF k
            <7> QED BY <4>1, <4>3, <6>1
          <6> QED BY <6>1, <6>2, <6>3 DEF Heads
        <5> QED BY <5>3
      <4>4. k >= 3
        BY <1>2
      <4>5. k = 3 \/ k >= 4
        <5> HIDE DEF k
        <5> QED BY <4>1, <4>4
      <4> QED BY <4>2, <4>3, <4>5
    <3>2. \A i, j \in Heads(acc') : i = j
      <4>1. ASSUME NEW i \in Heads(acc'), NEW j \in Heads(acc')
            PROVE  i = j
        <5>1. i + 3 \in Heads(acc) /\ j + 3 \in Heads(acc) /\ i \in Nat /\ j \in Nat
          BY <3>1
        <5>2. i + 3 = j + 3
          BY <5>1 DEF Streamed, Cut
        <5> QED BY <5>1, <5>2
      <4> QED BY <4>1
    <3>3. pc' = "drain"
      BY <2>2 DEF DispatchOther
    <3> QED BY <1>1, <3>2, <3>3 DEF Streamed, Cut
  <2> QED BY <1>1, <1>2, <1>7, <2>2, <2>4, <2>5
<1>8. CASE fs[1] = "ackEstablished" /\ stage = "established" /\ Tail(fs) = <<>>
  <2>1. ~TakesTls /\ TakesAck
    BY <1>2, <1>4, <1>8 DEF TakesTls, TakesAck, Client
  <2>2. DispatchAck /\ acc' = <<>>
    BY <2>1 DEF Dispatch, DispatchTls, DispatchAck, DispatchOther
  <2> QED BY <1>1, <1>2, <1>5, <1>6, <1>8, <2>2
<1>9. CASE /\ stage \in FromSensor \cup {"request"}
           /\ fs[1] = ClientRecords[Sent(stage) + 1] /\ fs[1] \in Client
           /\ Tail(fs) \in Owed(NextStage[stage])
  <2>1. TakesTls /\ ~TakesAck
    BY <1>4, <1>9 DEF TakesTls, TakesAck, Awaited, FromSensor
  <2>2. DispatchTls /\ acc' = <<>>
    BY <2>1 DEF Dispatch, DispatchTls, DispatchAck, DispatchOther
  <2>3. Records = <<fs[1]>>
    <3>1. Payload # <<>> /\ Len(Payload) = 1
      BY <1>2
    <3> QED BY <1>4, <3>1 DEF Records
  <2>4. fs[1] # "ackRequest"
    BY <1>9 DEF Client
  <2> QED BY <1>1, <1>2, <1>5, <1>6, <1>9, <2>2, <2>3, <2>4
<1> QED BY <1>2, <1>3, <1>7, <1>8, <1>9, OwedNext

(* Nothing is in the air in a stage that the sensor owes nothing.          *)
LEMMA NothingOwed ==
  ASSUME TypeOK, Streamed, stage \in {"idle", "HELLO_S", "CHANGE_CIPHER_S"}
  PROVE  acc = <<>> /\ wire = <<>>
<1>1. PICK gs \in Owed(stage) : Laid(acc \o wire, gs)
  BY DEF Streamed
<1>2. gs = <<>>
  BY <1>1, CellsTyped, OwedFacts
<1> QED BY <1>1, <1>2, CellsTyped, NothingLaid

(* A stage that the sensor owes nothing is asked for the next packs.       *)
LEMMA AnswerStreams ==
  ASSUME TypeOK, Streamed, ~faulty, stage \in {"idle", "HELLO_S", "CHANGE_CIPHER_S"},
         pc # "drain", NEW fs \in Seq(Frames), fs # <<>>, Answer(fs), UNCHANGED acc,
         fs \in Owed(stage')
  PROVE  Streamed'
<1>1. acc = <<>> /\ wire = <<>>
  BY NothingOwed
<1>2. PICK n \in Corrupt : wire' = wire \o Packs(fs, 0, n)
  <2>1. PICK bad \in 0..0, n \in Corrupt : wire' = wire \o Packs(fs, bad, n)
    BY DEF Answer
  <2> QED BY <2>1
<1> DEFINE ps == Packs(fs, 0, n)
<1>3. ps \in Seq(Wire) /\ Laid(ps, fs)
  BY PacksCells, PacksLaid
<1> HIDE DEF ps
<1>4. acc' = <<>> /\ wire' = ps /\ acc' \o wire' = ps
  BY <1>1, <1>2, <1>3, ConcatEmptySeq DEF ps
<1>5. ps # <<>> /\ ps[1] # Zero
  <2>1. ps # <<>>
    BY <1>3, EmptySeq DEF Laid
  <2>2. <<>> \in Seq(Wire) /\ ps \o <<>> = ps
    BY <1>3, ConcatEmptySeq, EmptySeq
  <2>3. ps[1] = HeadOf(fs[1])
    BY <1>3, <2>1, <2>2, FirstPack
  <2> QED BY <2>1, <2>3 DEF HeadOf, Zero
<1>6. Cut'
  BY <1>4, <1>5, EmptySeq DEF Cut, Heads
<1> QED BY <1>3, <1>4, <1>6 DEF Streamed

(* What does not touch the stream leaves it as it is.                      *)
LEMMA StreamUntouched ==
  ASSUME Streamed, UNCHANGED <<stage, acc, wire>>,
         pc' = "drain" \/ pc # "drain" \/ Len(acc) <= 1
  PROVE  Streamed'
<1>1. \E fs \in Owed(stage') : Laid(acc' \o wire', fs)
  BY DEF Streamed
<1>2. Cut'
  BY DEF Streamed, Cut, Heads
<1> QED BY <1>1, <1>2 DEF Streamed

(* A wait that is given up for want of an answer does not lack one.        *)
LEMMA AnswerIsThere ==
  ASSUME TypeOK, Streamed, pc = "loop", Timed
  PROVE  wire # <<>>
<1> SUFFICES ASSUME wire = <<>>
             PROVE  FALSE
  OBVIOUS
<1>1. PICK fs \in Owed(stage) : Laid(acc \o wire, fs)
  BY DEF Streamed
<1>2. fs \in Seq(Frames) /\ fs # <<>>
  BY <1>1, CellsTyped, OwedFacts DEF Timed, FromSensor
<1>3. acc \o wire = acc
  BY CellsTyped, ConcatEmptySeq
<1>4. Len(fs) \in Nat \ {0} /\ Len(acc) = 3 * Len(fs)
  BY <1>1, <1>2, <1>3, LenProperties, EmptySeq DEF Laid
<1>5. Len(acc) <= 1
  BY DEF Streamed, Cut
<1> QED BY <1>4, <1>5

(* A record is moved from the socket to the flight.                        *)
LEMMA ReadOne ==
  ASSUME NEW s \in Seq(Server), NEW t \in Seq(Server), t # <<>>
  PROVE  Append(s, Head(t)) \o Tail(t) = s \o t
<1> DEFINE l == Append(s, Head(t)) \o Tail(t)
           r == s \o t
<1>1. /\ Head(t) \in Server /\ Tail(t) \in Seq(Server) /\ Len(Tail(t)) = Len(t) - 1
      /\ Append(s, Head(t)) \in Seq(Server) /\ Len(Append(s, Head(t))) = Len(s) + 1
  BY HeadTailProperties, AppendProperties
<1>2. /\ l \in Seq(Server) /\ Len(l) = Len(s) + Len(t)
      /\ r \in Seq(Server) /\ Len(r) = Len(s) + Len(t)
  BY <1>1
<1>3. ASSUME NEW i \in 1..Len(l)
      PROVE  l[i] = r[i]
  BY <1>1, <1>2
<1> HIDE DEF l, r
<1>4. l = r
  BY <1>2, <1>3, SeqEqual
<1> QED BY <1>4 DEF l, r

------------------------------------------------------------------------------
(* The records on their way to the server.                                 *)

LEMMA BetweenFacts ==
  ASSUME NEW h \in 0..4, NEW n \in 0..4, h <= n
  PROVE  /\ h = n => Between(h + 1, n) = <<>>
         /\ h < n => /\ Between(h + 1, n) # <<>>
                     /\ Head(Between(h + 1, n)) = ClientRecords[h + 1]
                     /\ Tail(Between(h + 1, n)) = Between((h + 1) + 1, n)
         /\ n < 4 => Between(h + 1, n) \o <<ClientRecords[n + 1]>> = Between(h + 1, n + 1)
<1>1. ClientRecords \in Seq(Client) /\ Len(ClientRecords) = 4
  BY DEF ClientRecords, Client
<1>2. ASSUME h = n
      PROVE  Between(h + 1, n) = <<>>
  BY <1>2, SubSeqEmpty DEF Between
<1>3. ASSUME h < n
      PROVE  /\ Between(h + 1, n) # <<>>
             /\ Head(Between(h + 1, n)) = ClientRecords[h + 1]
             /\ Tail(Between(h + 1, n)) = Between((h + 1) + 1, n)
  <2>1. h + 1 \in 1..Len(ClientRecords) /\ n \in (h + 1)..Len(ClientRecords)
    BY <1>1, <1>3
  <2>2. /\ Head(SubSeq(ClientRecords, h + 1, n)) = ClientRecords[h + 1]
        /\ Tail(SubSeq(ClientRecords, h + 1, n)) = SubSeq(ClientRecords, (h + 1) + 1, n)
    BY <1>1, <2>1, HeadTailOfSubSeq
  <2>3. SubSeq(ClientRecords, h + 1, n) # <<>>
    <3> DEFINE t == SubSeq(ClientRecords, (h + 1) + 1, n)
               e == <<ClientRecords[h + 1]>>
               m == h + 1
    <3>1. /\ SubSeq(ClientRecords, h + 1, n) = e \o t
          /\ ClientRecords[h + 1] \in Client
      BY <1>1, <2>1, SubSeqRecursiveFirst, ElementOfSeq
    <3>2. t \in Seq(Client)
      <4>1. m + 1 \in Int /\ n \in Int /\ \A i \in (m + 1)..n : i \in 1..Len(ClientRecords)
        BY <1>1
      <4>2. \A i \in (m + 1)..n : ClientRecords[i] \in Client
        <5> HIDE DEF m
        <5> QED BY <1>1, <4>1, ElementOfSeq
      <4> HIDE DEF m
      <4>3. SubSeq(ClientRecords, m + 1, n) \in Seq(Client)
        BY <4>1, <4>2, SubSeqProperties
      <4> QED BY <4>3 DEF m
    <3> HIDE DEF t
    <3>3. e \in Seq(Client) /\ e # <<>>
      BY <3>1
    <3> HIDE DEF e
    <3>4. e \o t # <<>>
      BY <3>2, <3>3, ConcatEqualIffEmpty
    <3> QED BY <3>1, <3>4
  <2> QED BY <2>2, <2>3 DEF Between
<1>4. ASSUME n < 4
      PROVE  Between(h + 1, n) \o <<ClientRecords[n + 1]>> = Between(h + 1, n + 1)
  <2> DEFINE m == n + 1
  <2>1. h + 1 \in 1..Len(ClientRecords) /\ m \in (h + 1)..Len(ClientRecords) /\ m - 1 = n
    BY <1>1, <1>4
  <2> HIDE DEF m
  <2>2. SubSeq(ClientRecords, h + 1, m)
          = SubSeq(ClientRecords, h + 1, m - 1) \o <<ClientRecords[m]>>
    BY <1>1, <2>1, SubSeqRecursiveSecond
  <2> QED BY <2>1, <2>2 DEF Between, m
<1> QED BY <1>2, <1>3, <1>4

(* What the thread takes is what it expects, over a socket that is open.   *)
LEMMA TakenIsExpected ==
  ASSUME ServerInv, Served, Passed, thread = "accepting", up # <<>>
  PROVE  /\ pair = "open" /\ stage # "idle" /\ stage # "established"
         /\ heard \in 0..3 /\ heard < Sent(stage) /\ Sent(stage) \in 0..4
         /\ Head(up) = ClientRecords[heard + 1]
         /\ Tail(up) = Between((heard + 1) + 1, Sent(stage))
<1>1. heard \in 0..4 /\ stage \in Stages
  BY DEF ServerInv, TypeOK
<1>2. Sent(stage) \in 0..4 /\ heard <= Sent(stage)
  BY <1>1, HeardFacts, SentFacts DEF ServerInv, ThreadInv
<1>3. up = Between(heard + 1, Sent(stage))
  BY DEF Passed
<1>4. heard < Sent(stage)
  <2>1. heard # Sent(stage)
    BY <1>1, <1>2, <1>3, BetweenFacts
  <2> QED BY <1>1, <1>2, <2>1
<1>5. pair = "open" /\ stage # "idle" /\ stage # "established"
  BY DEF Served, ServerInv, ThreadInv, AcceptIsOver
<1> DEFINE n == Sent(stage)
<1>6. /\ Head(Between(heard + 1, n)) = ClientRecords[heard + 1]
      /\ Tail(Between(heard + 1, n)) = Between((heard + 1) + 1, n)
  <2>1. n \in 0..4 /\ heard \in 0..4 /\ heard <= n /\ heard < n
    BY <1>1, <1>2, <1>4
  <2> HIDE DEF n
  <2> QED BY <2>1, BetweenFacts
<1>7. heard \in 0..3
  BY <1>1, <1>2, <1>4
<1> QED BY <1>2, <1>3, <1>4, <1>5, <1>6, <1>7

(* No one waits for a flight on a socket that is shut.                     *)
LEMMA FlightIsThere ==
  ASSUME ServerInv, Served, Passed, pc = "reading", got = <<>>, down = <<>>
  PROVE  pair = "open"
<1>1. stage \in {"HELLO_S", "CHANGE_CIPHER_S"}
  BY DEF ServerInv, ThreadInv, Lifetime
<1>2. ~(Refused /\ thread = "gone")
  BY <1>1 DEF Refused, Passed
<1> QED BY <1>1, <1>2 DEF Served

------------------------------------------------------------------------------
(* Each action, as long as nothing goes wrong.                             *)

LEMMA UserIsCalm ==
  ASSUME ServerInv, Calm, ~faulty, ~faulty', User
  PROVE  Calm'
<1> USE DEF Calm
<1>0. TypeOK
  BY DEF ServerInv
<1>1. CASE InitFails
  BY <1>1 DEF InitFails
<1>2. CASE TlsInit
  <2>1. /\ pc = "loop" /\ stage = "idle" /\ up = <<>> /\ down = <<>> /\ got = <<>>
        /\ pair' = "open" /\ thread' = "accepting" /\ heard' = 0
        /\ stage' = "request" /\ ready' = "waiting" /\ Answer(<<"ackRequest", "CH">>)
        /\ UNCHANGED <<up, down, pc, got, acc>>
    BY <1>2 DEF TlsInit, sockets, ServerInv, ThreadInv, Lifetime
  <2>2. Streamed'
    <3>1. /\ <<"ackRequest", "CH">> \in Seq(Frames) /\ <<"ackRequest", "CH">> # <<>>
          /\ <<"ackRequest", "CH">> \in Owed(stage')
      BY <2>1 DEF Frames, Client, Owed
    <3> QED BY <1>0, <2>1, <3>1, AnswerStreams
  <2>3. Passed'
    <3>1. Sent(stage') = 0
      BY <2>1 DEF Sent
    <3>2. up' = Between(heard' + 1, Sent(stage'))
      BY <2>1, <3>1, BetweenFacts
    <3> QED BY <2>1, <3>2 DEF Passed
  <2> QED BY <2>1, <2>2, <2>3 DEF Served, Accepted, Refused
<1>3. CASE Teardown
  <2>1. /\ stage = "idle" /\ UNCHANGED <<stage, wire, thread>>
        /\ acc' = <<>> /\ ready' = "none" /\ pc = "loop"
    BY <1>3 DEF Teardown, sockets
  <2>2. acc = <<>>
    BY <1>0, <2>1, NothingOwed
  <2>3. Streamed'
    BY <2>1, <2>2, StreamUntouched
  <2> QED BY <2>1, <2>3 DEF Served, Passed, Accepted
<1> QED BY <1>1, <1>2, <1>3 DEF User

LEMMA ThreadIsCalm ==
  ASSUME ServerInv, Calm, ~faulty, PSK # "absent", Thread
  PROVE  Calm'
<1> USE DEF Calm
<1>0. /\ UNCHANGED <<pc, stage, got, ready, acc, wire>>
      /\ \A r : ClientRecords[1] = "CH" /\ ClientRecords[2] = "KE"
                /\ ClientRecords[3] = "CCS" /\ ClientRecords[4] = "FIN"
  BY DEF Thread, Accept, AcceptEnds, ThreadShuts, relay, ClientRecords
<1>1. Streamed' /\ ready' # "failed"
  BY <1>0, StreamUntouched
<1>2. CASE Accept
  <2>1. /\ thread = "accepting" /\ up # <<>> /\ up' = Tail(up)
        /\ UNCHANGED <<pair, pc, stage, got, ready>>
    BY <1>2 DEF Accept, relay
  <2>2. /\ pair = "open" /\ stage # "idle" /\ stage # "established"
        /\ heard \in 0..3 /\ heard < Sent(stage) /\ Sent(stage) \in 0..4
        /\ Head(up) = ClientRecords[heard + 1]
        /\ Tail(up) = Between((heard + 1) + 1, Sent(stage))
    BY <2>1, TakenIsExpected
  <2>3. Head(up) = "FIN" => stage = "CHANGE_CIPHER_S"
    <3> SUFFICES ASSUME Head(up) = "FIN"
                 PROVE  stage = "CHANGE_CIPHER_S"
      OBVIOUS
    <3>1. heard = 3
      BY <1>0, <2>2
    <3>2. Sent(stage) = 4
      BY <2>2, <3>1
    <3> QED BY <2>2, <3>2, SentFacts DEF ServerInv, TypeOK
  <2>4. CASE AcceptHello
    <3>1. /\ heard = 0 /\ heard' = 1 /\ down' = down \o ServerHello
          /\ UNCHANGED <<ssl, thread>>
      BY <1>0, <2>2, <2>4 DEF AcceptHello, Expected, Flush
    <3>2. got = <<>> /\ down = <<>>
      BY <2>1, <3>1 DEF ServerInv, ThreadInv, Flights
    <3>3. got' \o down' = ServerHello
      <4>1. ServerHello \in Seq(Server)
        BY DEF ServerHello, Server
      <4> QED BY <2>1, <3>1, <3>2, <4>1, ConcatEmptySeq
    <3>4. up' = Between(heard' + 1, Sent(stage'))
      BY <2>1, <2>2, <3>1
    <3> QED BY <1>1, <2>1, <2>2, <3>1, <3>3, <3>4 DEF Served, Passed, Accepted, Refused
  <2>5. CASE AcceptKey
    <3>1. heard' = heard + 1 /\ UNCHANGED <<ssl, thread, down>> /\ heard # 0
      BY <1>0, <2>2, <2>5 DEF AcceptKey, Expected
    <3>2. stage # "HELLO_S"
      BY <2>2, <3>1 DEF Sent
    <3>3. up' = Between(heard' + 1, Sent(stage'))
      BY <2>1, <2>2, <3>1
    <3> QED BY <1>1, <2>1, <2>2, <3>1, <3>2, <3>3 DEF Served, Passed, Accepted, Refused
  <2>6. CASE AcceptFinished
    <3>1. /\ thread' = "gone" /\ ssl' = "accepted" /\ stage = "CHANGE_CIPHER_S"
          /\ down' = down \o ServerFinish
      BY <2>3, <2>6 DEF AcceptFinished, Expected, Flush
    <3>2. down' # <<>>
      <4>1. ServerFinish \in Seq(Server) /\ ServerFinish # <<>> /\ down \in Seq(Server)
        BY DEF ServerFinish, Server, ServerInv, TypeOK
      <4> QED BY <3>1, <4>1, ConcatEqualIffEmpty
    <3> QED BY <1>1, <2>1, <2>2, <3>1, <3>2 DEF Served, Passed, Accepted, Refused
  <2>7. CASE AcceptRejects
    <3>1. Head(up) = "FIN" /\ PSK = "wrong" /\ stage = "CHANGE_CIPHER_S"
      <4>1. Head(up) = "FIN" /\ PSK # "right"
        BY <1>0, <2>2, <2>7 DEF AcceptRejects
      <4> QED BY <2>3, <4>1, TlsAssumption
    <3>2. thread' = "failing" /\ down' = Append(down, "ALERT")
      BY <2>2, <2>7 DEF AcceptRejects
    <3>3. down' # <<>>
      <4>1. down \in Seq(Server) /\ "ALERT" \in Server
        BY DEF Server, ServerInv, TypeOK
      <4> QED BY <3>2, <4>1, AppendProperties
    <3> QED BY <1>1, <2>1, <2>2, <3>1, <3>2, <3>3 DEF Served, Passed, Accepted, Refused
  <2> QED BY <1>2, <2>4, <2>5, <2>6, <2>7 DEF Accept
<1>3. CASE AcceptEnds
  BY <1>3 DEF AcceptEnds, Served
<1>4. CASE ThreadShuts
  <2>1. /\ thread = "failing" /\ thread' = "gone"
        /\ UNCHANGED <<ssl, heard, up, down, pc, stage, got, ready>>
    BY <1>4 DEF ThreadShuts, sockets, relay
  <2>2. stage # "idle" => Refused
    BY <2>1 DEF Served
  <2>3. Served' /\ Passed'
    BY <2>1, <2>2 DEF Served, Passed, Refused
  <2>4. Accepted'
    BY <2>1 DEF Accepted
  <2> QED BY <1>1, <2>3, <2>4
<1> QED BY <1>2, <1>3, <1>4 DEF Thread

LEMMA BlockedIsCalm ==
  ASSUME ServerInv, Calm, ~faulty, Blocked
  PROVE  Calm'
<1> USE DEF Calm
<1>0. TypeOK
  BY DEF ServerInv
<1>1. CASE ReadRecord
  <2>1. /\ pc = "reading" /\ down # <<>>
        /\ got' = Append(got, Head(down)) /\ down' = Tail(down)
        /\ UNCHANGED <<pair, ssl, thread, heard, up, pc, stage, ready, acc, wire>>
    BY <1>1 DEF ReadRecord, server
  <2>2. got \in Seq(Server) /\ down \in Seq(Server)
    BY <1>0 DEF TypeOK
  <2>3. got' # <<>> /\ got' \o down' = got \o down
    <3>1. Head(down) \in Server
      BY <2>1, <2>2, HeadTailProperties
    <3>2. got' # <<>>
      BY <2>1, <2>2, <3>1, AppendProperties
    <3>3. Append(got, Head(down)) \o Tail(down) = got \o down
      BY <2>1, <2>2, ReadOne
    <3> QED BY <2>1, <3>2, <3>3
  <2>4. Streamed'
    BY <2>1, StreamUntouched
  <2>5. Passed'
    BY <2>1, <2>3 DEF Passed
  <2>6. Served' /\ Accepted'
    BY <2>1 DEF Served, Accepted, Refused
  <2> QED BY <2>1, <2>4, <2>5, <2>6
<1>2. CASE Relay
  <2>1. /\ pc = "reading" /\ got # <<>> /\ down = <<>> /\ pc' = "loop"
        /\ UNCHANGED <<pair, ssl, thread, heard, up, down, acc, ready>>
        /\ RelayHello \/ RelayFinish
    BY <1>2 DEF Relay, WholeFlight, server, sockets, RelayHello, RelayFinish
  <2>2. CASE RelayHello
    <3>1. stage = "HELLO_S" /\ stage' = "KH_EXCHANGE"
      BY <2>2 DEF RelayHello
    <3>2. thread = "accepting" /\ heard # 0
      BY <2>1, <3>1 DEF Served, ServerInv, ThreadInv, Flights
    <3>3. got = ServerHello
      <4>1. got \o down = ServerHello
        BY <3>1, <3>2 DEF Passed
      <4> QED BY <1>0, <2>1, <4>1, ConcatEmptySeq DEF TypeOK
    <3>4. Answer(<<"KE", "CCS", "FIN">>)
      BY <2>2, <3>3 DEF RelayHello
    <3>5. Streamed'
      <4>1. /\ <<"KE", "CCS", "FIN">> \in Seq(Frames) /\ <<"KE", "CCS", "FIN">> # <<>>
            /\ <<"KE", "CCS", "FIN">> \in Owed(stage')
        BY <3>1 DEF Frames, Client, Owed
      <4> QED BY <1>0, <2>1, <3>1, <3>4, <4>1, AnswerStreams
    <3>6. Passed'
      BY <2>1, <3>1, <3>2, SentFacts DEF Passed
    <3> QED BY <2>1, <3>1, <3>2, <3>5, <3>6 DEF Served, Accepted, Refused
  <2>3. CASE RelayFinish
    <3>1. /\ stage = "CHANGE_CIPHER_S" /\ stage' = "established"
          /\ Answer(<<"ackEstablished">>)
      BY <2>3 DEF RelayFinish
    <3>2. thread # "accepting"
      BY <2>1, <3>1 DEF ServerInv, ThreadInv, Flights, Late
    <3>3. Streamed'
      <4>1. /\ <<"ackEstablished">> \in Seq(Frames) /\ <<"ackEstablished">> # <<>>
            /\ <<"ackEstablished">> \in Owed(stage')
        BY <3>1 DEF Frames, Owed
      <4> QED BY <1>0, <2>1, <3>1, <4>1, AnswerStreams
    <3> QED BY <2>1, <3>1, <3>2, <3>3 DEF Served, Passed, Accepted, Refused
  <2> QED BY <2>1, <2>2, <2>3
<1>3. CASE ReadFails
  BY <1>3, FlightIsThere DEF ReadFails, Unread
<1>4. CASE Joined
  <2>1. /\ pc = "joining" /\ stage = "idle" /\ ready = "none" /\ thread' = "none"
        /\ UNCHANGED <<stage, got, ready, acc, wire>>
    BY <1>4 DEF Joined, relay, ServerInv, ThreadInv, Lifetime
  <2>2. Streamed'
    BY <2>1, StreamUntouched
  <2> QED BY <2>1, <2>2 DEF Served, Passed, Accepted
<1> QED BY <1>1, <1>2, <1>3, <1>4 DEF Blocked

(* The server and the relay are not touched.                               *)
LEMMA RelayUntouched ==
  ASSUME Served, Passed, Accepted, UNCHANGED <<server, sockets, relay>>
  PROVE  Served' /\ Passed' /\ Accepted' /\ ready' = ready
BY DEF server, sockets, relay, Served, Passed, Accepted, Refused

LEMMA DispatchIsCalm ==
  ASSUME ServerInv, Calm, ~faulty, Dispatch
  PROVE  Calm'
<1> USE DEF Calm
<1>0. TypeOK /\ pc = "drain" /\ stage \in Stages
  BY DEF ServerInv, TypeOK, Dispatch
<1>1. CASE /\ DispatchTls /\ stage \in FromSensor \cup {"request"}
           /\ Records = <<ClientRecords[Sent(stage) + 1]>>
           /\ \E fs \in Owed(NextStage[stage]) : Laid(acc' \o wire', fs)
  <2>1. pair = "open" /\ thread = "accepting"
    BY <1>1 DEF Served, Refused, FromSensor
  <2>2. /\ up' = up \o Records /\ stage' = NextStage[stage]
        /\ UNCHANGED <<pair, ssl, thread, heard, down, got, ready>>
    <3>1. Written(Records)
      BY <1>1, <2>1 DEF Written
    <3> QED BY <1>1, <3>1 DEF DispatchTls, ClientWrite, server
  <2>3. stage' \in Stages \ {"idle", "established", "request"}
    BY <1>1, <2>2 DEF NextStage, FromSensor, Stages
  <2>4. Sent(stage') = Sent(stage) + 1 /\ Sent(stage) \in 0..4 /\ Sent(stage') \in 0..4
    BY <1>0, <1>1, <2>2, <2>3, SentFacts
  <2>5. heard \in 0..4 /\ heard <= Sent(stage)
    BY <1>0, <2>1, HeardFacts DEF ServerInv, ThreadInv, TypeOK
  <2>6. up' = Between(heard' + 1, Sent(stage'))
    <3>1. up = Between(heard + 1, Sent(stage))
      BY <2>1 DEF Passed
    <3> DEFINE n == Sent(stage)
    <3>2. n \in 0..4 /\ n < 4 /\ heard \in 0..4 /\ heard <= n
      BY <2>4, <2>5
    <3>3. Between(heard + 1, n) \o <<ClientRecords[n + 1]>> = Between(heard + 1, n + 1)
      <4> HIDE DEF n
      <4> QED BY <3>2, BetweenFacts
    <3> QED BY <1>1, <2>2, <2>4, <3>1, <3>3
  <2>7. stage' = "HELLO_S" => heard' = 0
    BY <2>2, <2>4, <2>5 DEF Sent
  <2>8. Streamed'
    BY <1>0, <1>1, <2>2, DispatchFlow DEF Streamed
  <2> QED BY <2>1, <2>2, <2>3, <2>6, <2>7, <2>8 DEF Served, Passed, Accepted, Refused
<1>2. CASE DispatchAck /\ Laid(acc' \o wire', <<>>)
  <2>1. /\ stage = "established" /\ stage' = "idle" /\ ready' = "ok"
        /\ UNCHANGED <<pair, ssl, thread, heard, up, down, got>>
    BY <1>2 DEF DispatchAck, TakesAck, server, sockets
  <2>2. thread # "accepting"
    BY <2>1 DEF ServerInv, ThreadInv, AcceptIsOver
  <2>3. <<>> \in Owed(stage')
    BY <2>1 DEF Owed
  <2>4. Streamed'
    BY <1>0, <1>2, <2>3, DispatchFlow DEF Streamed
  <2> QED BY <2>1, <2>2, <2>4 DEF Served, Passed, Accepted
<1>3. CASE DispatchOther /\ \E fs \in Owed(stage) : Laid(acc' \o wire', fs)
  <2>1. UNCHANGED <<server, sockets, relay>> /\ stage' = stage
    BY <1>3 DEF DispatchOther, relay
  <2>2. Streamed'
    BY <1>0, <1>3, <2>1, DispatchFlow DEF Streamed
  <2> QED BY <2>1, <2>2, RelayUntouched
<1> QED BY <1>0, <1>1, <1>2, <1>3, DispatchFlow

LEMMA DrainIsCalm ==
  ASSUME ServerInv, Calm, ~faulty, Drain
  PROVE  Calm'
<1> USE DEF Calm
<1>0. TypeOK
  BY DEF ServerInv
<1>1. CASE DropCorrupt
  BY <1>0, <1>1, Aligned DEF DropCorrupt
<1>2. CASE Drained
  <2>1. UNCHANGED <<server, sockets, relay>> /\ UNCHANGED <<stage, acc, wire>>
    BY <1>2 DEF Drained, relay
  <2>2. Len(acc) <= 1
    <3>1. CASE acc = <<>>
      BY <3>1, EmptySeq
    <3>2. CASE acc # <<>>
      <4>1. acc[1].claims = 1
        <5>1. \E fs \in Owed(stage) : acc[1] = HeadOf(fs[1])
          BY <1>0, <3>2, Aligned
        <5> QED BY <5>1 DEF HeadOf
      <4> QED BY <1>0, <1>2, <3>2, <4>1, CellsTyped DEF Drained, Complete
    <3> QED BY <3>1, <3>2
  <2>3. Streamed'
    BY <2>1, <2>2, StreamUntouched
  <2> QED BY <2>1, <2>3, RelayUntouched
<1> QED BY <1>1, <1>2, DispatchIsCalm DEF Drain

LEMMA HandshakeStep ==
  ASSUME ServerInv, HandshakeInv, PSK # "absent", [Next]_vars
  PROVE  HandshakeInv'
<1> SUFFICES ASSUME ~faulty'
             PROVE  Calm'
  BY DEF HandshakeInv
<1>1. ~faulty
  <2>1. faulty \in BOOLEAN
    BY DEF ServerInv, TypeOK
  <2>2. faulty' = faulty \/ Teardown \/ Fault
    BY DEF Next, User, InitFails, TlsInit, Thread, Accept, AcceptEnds, ThreadShuts,
       Blocked, ReadRecord, Relay, ReadFails, Joined, Transfer, Receive,
       Drain, Dispatch, DropCorrupt, Drained, Timeout, vars
  <2> QED BY <2>1, <2>2 DEF Teardown, Fault
<1>2. Calm /\ TypeOK
  BY <1>1 DEF HandshakeInv, ServerInv
<1>3. CASE Fault
  BY <1>3 DEF Fault
<1>4. CASE Transfer
  <2>1. PICK n \in 1..EP_IN_MAX : n <= Len(wire) /\ Receive(n)
    BY <1>4 DEF Transfer
  <2>2. Streamed'
    BY <1>1, <1>2, <2>1, ReceiveStreams DEF Calm
  <2>3. UNCHANGED <<server, sockets, relay>>
    BY <2>1 DEF Receive
  <2> QED BY <1>2, <2>2, <2>3, RelayUntouched DEF Calm
<1>5. CASE Timeout
  BY <1>1, <1>2, <1>5, AnswerIsThere DEF Timeout, Calm
<1>6. CASE UNCHANGED vars
  <2>1. UNCHANGED <<server, sockets, relay>> /\ UNCHANGED <<pc, stage, acc, wire>>
    BY <1>6 DEF vars, relay
  <2>2. Streamed'
    BY <1>2, <2>1, StreamUntouched DEF Calm
  <2> QED BY <1>2, <2>1, <2>2, RelayUntouched DEF Calm
<1> QED BY <1>1, <1>2, <1>3, <1>4, <1>5, <1>6,
        UserIsCalm, ThreadIsCalm, BlockedIsCalm, DrainIsCalm DEF Next

LEMMA HandshakeInit ==
  ASSUME Init
  PROVE  HandshakeInv
<1>1. Streamed
  <2>1. acc = <<>> /\ wire = <<>> /\ stage = "idle"
    BY DEF Init
  <2>2. <<>> \in Owed(stage) /\ <<>> \in Seq(Wire)
    BY <2>1, EmptySeq DEF Owed
  <2>3. Laid(acc \o wire, <<>>)
    BY <2>1, <2>2, NothingLaid, ConcatEmptySeq
  <2> QED BY <2>1, <2>2, <2>3, EmptySeq DEF Streamed, Cut, Heads
<1> QED BY <1>1 DEF Init, HandshakeInv, Calm, Served, Passed, Accepted

------------------------------------------------------------------------------
(* The theorems.                                                           *)

LEMMA HandshakeInvariant == PSK # "absent" => (Spec => []HandshakeInv)
<1> SUFFICES ASSUME PSK # "absent"
             PROVE  Spec => []HandshakeInv
  OBVIOUS
<1>1. Init => HandshakeInv
  BY HandshakeInit
<1>2. ServerInv /\ HandshakeInv /\ [Next]_vars => HandshakeInv'
  BY HandshakeStep
<1> QED BY <1>1, <1>2, ServerInvariant, PTL DEF Spec

(* As long as the server has a key, no interleaving of relay, thread and   *)
(* bus fails a handshake: tls_handshake_run finds each flight whole, and   *)
(* each read of the sensor gets the record that it awaits.                 *)
THEOREM HandshakeNeverFailsAlone == PSK # "absent" => (Spec => []OnlyFaultsFail)
<1> SUFFICES ASSUME PSK # "absent"
             PROVE  Spec => []OnlyFaultsFail
  OBVIOUS
<1>1. HandshakeInv => OnlyFaultsFail
  BY DEF HandshakeInv, Calm, OnlyFaultsFail
<1> QED BY <1>1, HandshakeInvariant, PTL

(* What goodix_receive_pack reads as a header is one, as long as the bus   *)
(* and the sensor keep to what a transfer may hold.                        *)
THEOREM HeadersAreHeaders == PSK # "absent" => (Spec => []FramesAligned)
<1> SUFFICES ASSUME PSK # "absent"
             PROVE  Spec => []FramesAligned
  OBVIOUS
<1>1. ASSUME ServerInv, HandshakeInv
      PROVE  FramesAligned
  <2> SUFFICES ASSUME ~faulty, acc # <<>>
               PROVE  acc[1].type = "head"
    BY DEF FramesAligned
  <2>1. \E fs \in Owed(stage) : acc[1] = HeadOf(fs[1])
    <3>1. TypeOK /\ Streamed
      BY <1>1 DEF ServerInv, HandshakeInv, Calm
    <3> QED BY <3>1, Aligned
  <2> QED BY <2>1 DEF HeadOf
<1>2. ServerInv /\ HandshakeInv => FramesAligned
  BY <1>1
<1> QED BY <1>2, HandshakeInvariant, ServerInvariant, PTL

(* With the sensor's key, the claim is told of no session that SSL_accept  *)
(* has not accepted.  With another key it is, as a run shows.              *)
THEOREM ReadyMeansAccepted == PSK = "right" => (Spec => []EstablishedMeansAccepted)
<1> SUFFICES ASSUME PSK = "right"
             PROVE  Spec => []EstablishedMeansAccepted
  OBVIOUS
<1>1. ASSUME ServerInv, HandshakeInv
      PROVE  EstablishedMeansAccepted
  <2> SUFFICES ASSUME ready = "ok", ~faulty
               PROVE  ssl = "accepted"
    BY DEF EstablishedMeansAccepted
  <2>1. thread # "accepting"
    BY <1>1 DEF ServerInv, ThreadInv, AcceptIsOver
  <2> QED BY <1>1, <2>1 DEF HandshakeInv, Calm, Accepted
<1>2. ServerInv /\ HandshakeInv => EstablishedMeansAccepted
  BY <1>1
<1>3. Spec => []HandshakeInv
  BY HandshakeInvariant
<1> QED BY <1>2, <1>3, ServerInvariant, PTL
==============================================================================
