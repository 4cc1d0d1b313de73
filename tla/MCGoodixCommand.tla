--------------------------- MODULE MCGoodixCommand ---------------------------
(***************************************************************************)
(* Two callers, and a device that sends, in transfers of up to two frames, *)
(* what ends each command and what must not end it: acknowledgements and   *)
(* replies and TLS packs, with a good and a bad checksum, and junk.        *)
(***************************************************************************)
EXTENDS GoodixCommand

(* One command of each kind: tolerant, acknowledged, replied, without a    *)
(* timer, and a read of the handshake.                                     *)
EveryKind == {"nop", "enable", "config", "requestTls", "tlsRead"}

Ack(c, good)   == [type |-> "ack", byte |-> Byte(c), good |-> good]
Reply(c, good) == [type |-> "reply", byte |-> Byte(c), good |-> good]
Tls(good)      == [type |-> "tls", byte |-> "zero", good |-> good]

AnyFrame ==
  { Ack("enable", TRUE), Ack("enable", FALSE), Ack("config", TRUE),
    Reply("config", TRUE), Reply("config", FALSE), Ack("nop", TRUE),
    Reply("enable", TRUE), Reply("tlsRead", FALSE),
    Tls(TRUE), Tls(FALSE), JunkFrame }
=============================================================================
