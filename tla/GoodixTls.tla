------------------------------ MODULE GoodixTls ------------------------------
(***************************************************************************)
(* The TLS session of a claim.  The driver is the TLS server: OpenSSL runs *)
(* on a thread of its own, over one end of a socket pair, and the main     *)
(* loop relays between the other end and the sensor, which is the client.  *)
(*                                                                         *)
(* What the sensor sends arrives in USB transfers.  They are joined in an  *)
(* accumulator and cut into packs again, of which the handshake takes one  *)
(* at a time.  The main loop blocks while it reads the socket and while it *)
(* joins the thread; the thread blocks in SSL_accept.                      *)
(*                                                                         *)
(* The commands' slot is that of GoodixCommand: here a stage of the        *)
(* handshake that waits for the sensor holds it.  A pack is a header cell, *)
(* a payload cell and padding; a TLS record is its name.                   *)
(***************************************************************************)
EXTENDS Naturals, Sequences

CONSTANTS
  PSK,              \* the key the server has, as the sensor sees it
  PACK_MAX,         \* GOODIX_PACK_MAX_PAYLOAD, in cells
  MaxWire           \* bound: cells the sensor keeps for the host

ASSUME TlsAssumption ==
  /\ PSK \in {"right", "wrong", "absent"}
  /\ {PACK_MAX, MaxWire} \subseteq Nat \ {0}

(* The records: the client's in the order SSL_accept expects them, and the *)
(* flights of the server.                                                  *)
ClientRecords == <<"CH", "KE", "CCS", "FIN">>
ServerHello   == <<"SH", "SHD">>
ServerFinish  == <<"CCS_S", "FIN_S">>
Client == {"CH", "KE", "CCS", "FIN"}
Server == {"SH", "SHD", "CCS_S", "FIN_S", "ALERT"}

Frames == Client \cup {"ackRequest", "ackEstablished"}

(* Any four bytes claim a length when they are read as a header.           *)
Cell == [type : {"head", "body"}, frame : Frames, claims : 0..(PACK_MAX + 1)]
Zero == [type |-> "zero", frame |-> "ackRequest", claims |-> 0]

(* Too short a length, too long, as long as may be, and impossible.        *)
Corrupt == {0, 2, PACK_MAX, PACK_MAX + 1}

(* EP_IN_MAX_BUF_SIZE holds the largest pack with its header.              *)
EP_IN_MAX == PACK_MAX + 1

VARIABLES
  \* the server and its thread
  pair,      \* the socket pair; "closed" is tls_hop = NULL
  ssl,       \* the SSL object
  thread,    \* where the serving thread is
  heard,     \* the client records SSL_accept has taken
  up,        \* records written to client_fd, unread
  down,      \* records written by OpenSSL, unread
  \* the main loop
  pc,        \* in its loop, draining the accumulator, or blocked
  stage,     \* where the handshake is
  got,       \* the records of the flight being read
  ready,     \* tls_ready_callback: none, stored, or how it was told
  acc,       \* the accumulator, priv->data
  \* the sensor
  wire,      \* cells it has sent that the host has not received
  faulty     \* something has gone wrong

server  == <<pair, ssl, thread, heard>>
sockets == <<up, down>>
relay   == <<stage, got, ready>>
vars    == <<server, sockets, pc, relay, acc, wire, faulty>>

FromSensor == {"KH_EXCHANGE", "CHANGE_CIPHER_C", "HANDSHAKE_C"}
Stages == FromSensor \cup
  {"idle", "request", "HELLO_S", "CHANGE_CIPHER_S", "established"}

Init ==
  /\ pair = "closed" /\ ssl = "freed" /\ thread = "none" /\ heard = 0
  /\ up = <<>> /\ down = <<>>
  /\ pc = "loop" /\ stage = "idle" /\ got = <<>> /\ ready = "none"
  /\ acc = <<>> /\ wire = <<>> /\ faulty = FALSE

------------------------------------------------------------------------------
(* The sensor.  Once something goes wrong it may be silent, or late, or    *)
(* corrupt the length of a pack; a transfer to it may fail.                *)

(* The payload, read as a header, may claim anything too.                  *)
Body(f, claims) == [type |-> "body", frame |-> f, claims |-> claims]

Pack(f, claims) ==
  <<[type |-> "head", frame |-> f, claims |-> claims], Body(f, claims), Zero>>

(* Packs one after another; the bad-th makes another claim.                *)
Packs(frames, bad, claims) ==
  [k \in 1..(3 * Len(frames)) |->
     LET i == 1 + (k - 1) \div 3
     IN  Pack(frames[i], IF i = bad THEN claims ELSE 1)[k - 3 * (i - 1)]]

(* The packs are sent, and one of them may be bad, if something is wrong.  *)
Answer(frames) ==
  \/ /\ Len(wire) + 3 * Len(frames) <= MaxWire
     /\ \E bad \in 0..(IF faulty THEN Len(frames) ELSE 0), claims \in Corrupt :
          wire' = wire \o Packs(frames, bad, claims)
  \/ faulty /\ UNCHANGED wire

Fault ==
  /\ ~faulty /\ faulty' = TRUE
  /\ UNCHANGED <<server, sockets, pc, relay, acc, wire>>

------------------------------------------------------------------------------
(* The thread: goodix_tls_init_serve.                                      *)

Expected(r) == thread = "accepting" /\ up # <<>> /\ Head(up) = r
               /\ r = ClientRecords[heard + 1]

Flush(flight) == pair = "open" /\ down' = down \o flight

AcceptHello ==
  /\ Expected("CH") /\ Flush(ServerHello)
  /\ heard' = 1 /\ UNCHANGED <<ssl, thread>>

AcceptKey ==
  /\ (Expected("KE") /\ PSK # "absent") \/ Expected("CCS")
  /\ heard' = heard + 1 /\ UNCHANGED <<ssl, thread, down>>

(* The Finished is the first record under the key.                         *)
AcceptFinished ==
  /\ Expected("FIN") /\ PSK = "right" /\ Flush(ServerFinish)
  /\ heard' = 4 /\ ssl' = "accepted" /\ thread' = "gone"

(* A wrong record, a record under a wrong key, or a reply that cannot be   *)
(* written.  The alert is.                                                 *)
AcceptRejects ==
  /\ \/ Head(up) # ClientRecords[heard + 1]
     \/ Head(up) = "KE" /\ PSK = "absent"
     \/ Head(up) = "FIN" /\ PSK # "right"
     \/ Head(up) \in {"CH", "FIN"} /\ pair # "open"
  /\ ssl' = "failed" /\ thread' = "failing"
  /\ down' = IF pair = "open" THEN Append(down, "ALERT") ELSE down
  /\ UNCHANGED heard

(* SSL_accept takes a record.  What it replies is one flush.               *)
Accept ==
  /\ thread = "accepting" /\ up # <<>>
  /\ AcceptHello \/ AcceptKey \/ AcceptFinished \/ AcceptRejects
  /\ up' = Tail(up)
  /\ UNCHANGED <<pair, pc, relay, acc, wire, faulty>>

(* The end of the stream, or 2 s without a record.                         *)
AcceptEnds ==
  /\ thread = "accepting" /\ up = <<>>
  /\ pair = "shut" \/ faulty
  /\ ssl' = "failed" /\ thread' = "failing"
  /\ UNCHANGED <<pair, heard, sockets, pc, relay, acc, wire, faulty>>

(* Mutant: the thread leaves the sockets as they are.                      *)
ThreadLeaves ==
  /\ thread = "failing" /\ thread' = "gone"
  /\ UNCHANGED <<pair, ssl, heard, sockets, pc, relay, acc, wire, faulty>>

(* After a failure the thread wakes whoever reads the other end.           *)
ThreadShuts ==
  /\ thread = "failing" /\ thread' = "gone"
  /\ pair' = "shut"
  /\ UNCHANGED <<ssl, heard, sockets, pc, relay, acc, wire, faulty>>

------------------------------------------------------------------------------
(* goodix_tls_init and goodix_shutdown_tls.                                *)

(* The callback is told, and the handshake is over.                        *)
Fail ==
  /\ stage' = "idle" /\ got' = <<>> /\ pc' = "loop"
  /\ ready' = IF ready = "waiting" THEN "failed" ELSE ready

(* Nothing is left of a server that cannot be built.                       *)
InitFails ==
  /\ pc = "loop" /\ pair = "closed" /\ faulty
  /\ ready' = "failed"
  /\ UNCHANGED <<server, sockets, pc, stage, got, acc, wire, faulty>>

(* The server waits for its client, and the sensor is asked to be one.     *)
TlsInit ==
  /\ pc = "loop" /\ pair = "closed"
  /\ pair' = "open" /\ ssl' = "new" /\ thread' = "accepting" /\ heard' = 0
  /\ \/ stage' = "request" /\ ready' = "waiting" /\ Answer(<<"ackRequest", "CH">>)
     \/ faulty /\ ready' = "failed" /\ UNCHANGED <<stage, wire>>
  /\ UNCHANGED <<sockets, pc, got, acc, faulty>>

(* Mutant: the thread is joined without being woken.                       *)
TeardownAsleep ==
  /\ pc = "loop" /\ pair # "closed"
  /\ pc' = "joining"
  /\ stage' = "idle" /\ got' = <<>> /\ ready' = "none" /\ acc' = <<>>
  /\ faulty' = (faulty \/ stage # "idle")
  /\ UNCHANGED <<server, sockets, wire>>

(* A teardown resets the slot, whose waiter takes the handshake with it,   *)
(* and shuts the server down.  Packs of the handshake may still come.      *)
Teardown ==
  /\ pc = "loop" /\ pair # "closed"
  /\ pair' = "shut" /\ pc' = "joining"
  /\ stage' = "idle" /\ got' = <<>> /\ ready' = "none" /\ acc' = <<>>
  /\ faulty' = (faulty \/ stage # "idle")
  /\ UNCHANGED <<ssl, thread, heard, sockets, wire>>

(* Mutant: the server is freed while its thread may run.                   *)
Unjoined ==
  /\ pc = "joining" /\ pc' = "loop"
  /\ pair' = "closed" /\ ssl' = "freed"
  /\ up' = <<>> /\ down' = <<>>
  /\ UNCHANGED <<thread, heard, relay, acc, wire, faulty>>

Joined ==
  /\ pc = "joining" /\ thread = "gone" /\ pc' = "loop"
  /\ pair' = "closed" /\ ssl' = "freed" /\ thread' = "none" /\ heard' = 0
  /\ up' = <<>> /\ down' = <<>>
  /\ UNCHANGED <<relay, acc, wire, faulty>>

------------------------------------------------------------------------------
(* The relay: tls_handshake_run.                                           *)

(* A record of the sensor is awaited, by the request or goodix_read_tls.   *)
Awaited == stage \in FromSensor \cup {"request"}

(* goodix_tls_read_all_records: records are read while there are more.     *)
ReadRecord ==
  /\ pc = "reading" /\ down # <<>>
  /\ got' = Append(got, Head(down)) /\ down' = Tail(down)
  /\ UNCHANGED <<server, up, pc, stage, ready, acc, wire, faulty>>

(* Mutant: one read is taken for the flight.                               *)
ShortFlight == got # <<>>

WholeFlight == got # <<>> /\ down = <<>>

(* The flight goes to the sensor, which answers one it understands.        *)
RelayHello ==
  /\ stage = "HELLO_S"
  /\ stage' = "KH_EXCHANGE" /\ UNCHANGED ready
  /\ IF got = ServerHello THEN Answer(<<"KE", "CCS", "FIN">>) ELSE UNCHANGED wire

(* The last flight ends the handshake, and the sensor is told.             *)
RelayFinish ==
  /\ stage = "CHANGE_CIPHER_S"
  /\ stage' = "established" /\ UNCHANGED ready
  /\ Answer(<<"ackEstablished">>)

Relay ==
  /\ pc = "reading" /\ WholeFlight
  /\ \/ /\ RelayHello \/ RelayFinish
        /\ pc' = "loop" /\ got' = <<>>
     \/ faulty /\ Fail /\ UNCHANGED wire
  /\ UNCHANGED <<server, sockets, acc, faulty>>

Unread == pc = "reading" /\ got = <<>> /\ down = <<>> /\ (pair = "shut" \/ faulty)

(* Mutant: a read that fails is taken for a flight.                        *)
ReadFailsUnchecked ==
  /\ Unread /\ (RelayHello \/ RelayFinish)
  /\ pc' = "loop" /\ UNCHANGED <<server, sockets, got, acc, faulty>>

(* The end of the stream, or 2 s without a record.                         *)
ReadFails ==
  /\ Unread /\ Fail
  /\ UNCHANGED <<server, sockets, acc, wire, faulty>>

(* The handshake goes on with what the sensor sent.  An empty payload and  *)
(* a shut socket fail the write; for the ClientHello no one looks.         *)
Written(records) == records # <<>> /\ pair = "open"

NextStage ==
  [request |-> "HELLO_S", KH_EXCHANGE |-> "CHANGE_CIPHER_C",
   CHANGE_CIPHER_C |-> "HANDSHAKE_C", HANDSHAKE_C |-> "CHANGE_CIPHER_S"]

ClientWrite(records) ==
  IF Written(records) \/ stage = "request"
  THEN /\ up' = IF Written(records) THEN up \o records ELSE up
       /\ stage' = NextStage[stage]
       /\ pc' = IF stage' \in FromSensor THEN "loop" ELSE "reading"
       /\ UNCHANGED <<got, ready>>
  ELSE Fail /\ UNCHANGED up

------------------------------------------------------------------------------
(* The accumulator: goodix_receive_pack.                                   *)

Complete(s) == Len(s) > s[1].claims

(* Mutant: any claim is waited for.                                        *)
NeverImpossible(s) == s = <<>>

Impossible(s) == s[1].claims > PACK_MAX

(* Mutant: padding is left where it is.                                    *)
KeepZeros(s) == s

(* Padding is skipped up to the next header.                               *)
SkipZeros(s) ==
  LET n == CHOOSE m \in 0..Len(s) :
             /\ \A i \in 1..m : s[i] = Zero
             /\ m < Len(s) => s[m + 1] # Zero
  IN  SubSeq(s, n + 1, Len(s))

(* One transfer holds a pack, or a piece of one; acknowledgements may come *)
(* with the pack behind them.  A faulty bus cuts and joins as it likes.    *)
Heads(s) == {i \in 1..Len(s) : s[i].type = "head" /\ s[i].frame # "ackRequest"}

Tidy(in, rest) ==
  /\ \A i, j \in Heads(acc \o in) : i = j
  /\ rest # <<>> => rest[1] # Zero

Receive(n) ==
  /\ pc = "loop" /\ pc' = "drain" /\ wire # <<>>
  /\ LET in   == SubSeq(wire, 1, n)
         rest == SubSeq(wire, n + 1, Len(wire))
     IN  /\ Tidy(in, rest) \/ faulty
         /\ wire' = rest
         /\ acc' = (IF Len(acc) + n > 2 * EP_IN_MAX THEN <<>> ELSE acc) \o in
  /\ UNCHANGED <<server, sockets, relay, faulty>>

(* Nothing, or the rest of a pack, is waited for.                          *)
Drained ==
  /\ pc = "drain" /\ pc' = "loop"
  /\ acc # <<>> => ~Complete(acc) /\ ~Impossible(acc)
  /\ UNCHANGED <<server, sockets, relay, acc, wire, faulty>>

(* The waiter is failed at once, and the bytes are dropped.                *)
DropCorrupt ==
  /\ pc = "drain" /\ acc # <<>> /\ ~Complete(acc) /\ Impossible(acc)
  /\ acc' = <<>>
  /\ IF stage # "idle" THEN Fail ELSE pc' = "loop" /\ UNCHANGED relay
  /\ UNCHANGED <<server, sockets, wire, faulty>>

Payload == SubSeq(acc, 2, 1 + acc[1].claims)

(* Mutant: an empty payload is relayed.                                    *)
RecordsEmpty == IF Payload = <<>> THEN <<"empty">> ELSE <<acc[1].frame>>

(* The records the payload is to OpenSSL: what lies behind the sensor's is *)
(* read as another.                                                        *)
Records ==
  CASE Payload = <<>>    -> <<>>
    [] Len(Payload) = 1  -> <<acc[1].frame>>
    [] OTHER             -> <<acc[1].frame, "bad">>

TakesTls == acc[1].type = "head" /\ acc[1].frame \in Client /\ Awaited
TakesAck == acc[1].type = "head" /\ Payload = <<Body("ackEstablished", 1)>> /\ stage = "established"

(* A waiter that is told takes the accumulator with it.                    *)
DispatchTls ==
  /\ TakesTls /\ acc' = <<>>
  /\ ClientWrite(Records)
  /\ UNCHANGED <<server, down>>

DispatchAck ==
  /\ TakesAck /\ acc' = <<>>
  /\ stage' = "idle" /\ ready' = "ok" /\ pc' = "loop"
  /\ UNCHANGED <<server, sockets, got>>

(* Stale, unknown, or without effect here.                                 *)
DispatchOther ==
  /\ ~TakesTls /\ ~TakesAck
  /\ acc' = SkipZeros(SubSeq(acc, 2 + acc[1].claims, Len(acc)))
  /\ UNCHANGED <<server, sockets, pc, relay>>

Dispatch ==
  /\ pc = "drain" /\ acc # <<>> /\ Complete(acc)
  /\ DispatchTls \/ DispatchAck \/ DispatchOther
  /\ UNCHANGED <<wire, faulty>>

(* Mutant: a read of the handshake has no timer.                           *)
TimedCommand == stage = "established"

(* The request for the connection has no timer.                            *)
Timed == stage \in FromSensor \cup {"established"}

Timeout ==
  /\ pc = "loop" /\ Timed
  /\ wire = <<>> \/ faulty
  /\ Fail /\ acc' = <<>>
  /\ UNCHANGED <<server, sockets, wire, faulty>>

------------------------------------------------------------------------------
Thread == Accept \/ AcceptEnds \/ ThreadShuts

Blocked == ReadRecord \/ Relay \/ ReadFails \/ Joined

Transfer == \E n \in 1..EP_IN_MAX : n <= Len(wire) /\ Receive(n)

Drain == Dispatch \/ DropCorrupt \/ Drained

User == InitFails \/ TlsInit \/ Teardown

Next == User \/ Fault \/ Thread \/ Blocked \/ Transfer \/ Drain \/ Timeout

Spec == Init /\ [][Next]_vars

(* The thread is scheduled, system calls return, transfers complete and    *)
(* timers fire.                                                            *)
FairSpec ==
  /\ Spec
  /\ WF_vars(Thread) /\ WF_vars(Blocked)
  /\ WF_vars(Transfer) /\ WF_vars(Drain) /\ WF_vars(Timeout)

------------------------------------------------------------------------------
(* The types of the variables.                                             *)
TypeOK ==
  /\ pair \in {"closed", "open", "shut"}
  /\ ssl \in {"freed", "new", "accepted", "failed"}
  /\ thread \in {"none", "accepting", "failing", "gone"} /\ heard \in 0..4
  /\ up \in Seq(Client \cup {"bad"}) /\ down \in Seq(Server)
  /\ pc \in {"loop", "drain", "reading", "joining"}
  /\ stage \in Stages /\ got \in Seq(Server)
  /\ ready \in {"none", "waiting", "ok", "failed"}
  /\ acc \in Seq(Cell \cup {Zero}) /\ wire \in Seq(Cell \cup {Zero})
  /\ faulty \in BOOLEAN

(* The thread never runs on a freed SSL object or a closed socket, and no  *)
(* waiter of a handshake outlives the server it relays to.                 *)
NoUseAfterFree ==
  thread \in {"accepting", "failing"} \/ stage # "idle" =>
    pair # "closed" /\ ssl # "freed"

(* The teardown, in the main loop, never waits out the 2 s of the thread.  *)
JoinIsPrompt ==
  pc = "joining" /\ thread = "accepting" => up # <<>> \/ pair = "shut"

(* Nor does a read of the main loop wait for a thread that has gone.       *)
ReaderIsWoken ==
  pc = "reading" /\ thread = "gone" => got \o down # <<>> \/ pair = "shut"

(* Once the handshake is over for the driver, which then reads images from *)
(* the SSL object, the thread has left SSL_accept.                         *)
AcceptIsOver ==
  stage = "established" \/ ready = "ok" => thread \in {"failing", "gone"}

(* Where nothing else goes wrong, the claim is told of a session only if   *)
(* the server accepted it: no scan starts on a dead channel.               *)
EstablishedMeansAccepted == ready = "ok" /\ ~faulty => ssl = "accepted"

(* No interleaving of relay, thread and sensor fails a handshake of its    *)
(* own accord: the flights arrive whole, in order, once.                   *)
OnlyFaultsFail == ready = "failed" => faulty

(* Whatever lengths the packs claim, less than a transfer stays behind, so *)
(* the accumulator never reaches its cap and loses a good pack to it.      *)
AccumulatorFits == pc = "loop" => Len(acc) < EP_IN_MAX

(* What is read as a header is one, if the sensor's packs are sound.       *)
FramesAligned == ~faulty /\ acc # <<>> => acc[1].type = "head"

(* A handshake ends, once the sensor has answered the request for it.      *)
HandshakeEnds ==
  stage \notin {"idle", "request"} ~> stage \in {"idle", "request"}
==============================================================================
