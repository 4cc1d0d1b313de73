---------------------------- MODULE GoodixCommand ----------------------------
(***************************************************************************)
(* The transport of goodix.c: one command slot, its timer, and the frames  *)
(* of the device that end the command.                                     *)
(*                                                                         *)
(* An event of the main loop (a request from above, a USB transfer, a      *)
(* timer) may end a command; the callback is then called at once, and may  *)
(* send the next command before it returns.  `calls` is the stack of these *)
(* callbacks, so that a step is one of them and the main loop waits until  *)
(* the stack is empty.  The device may send any frame at any time: late,   *)
(* twice, for another command, or with a wrong checksum.                   *)
(***************************************************************************)
EXTENDS Naturals, Sequences

CONSTANTS
  Callers,    \* who waits for a command: a GoodixCallbackInfo, or an SSM
  Commands,   \* the commands sent, of AllCommands
  Frames,     \* the frames the device may send, of AllFrames
  MaxBatch,   \* bound: the frames of one USB transfer
  MaxNested   \* bound: commands sent by callbacks within one event

(* NOP is byte 0x00, and goodix_read_tls waits with the same byte; image,  *)
(* requestTls and tlsRead are ended by a TLS frame.                        *)
AllCommands == {"nop", "otp", "mcuState", "enable", "tlsEstablished", "config",
                "psk", "requestTls", "image", "tlsRead"}

Byte(c) == IF c \in {"nop", "tlsRead"} THEN "zero" ELSE c
Bytes   == {Byte(c) : c \in AllCommands}

AckOnly  == {"nop", "mcuState", "enable", "tlsEstablished"}
Timed    == AllCommands \ {"requestTls"}
Critical == {"config", "enable", "requestTls", "psk"}

Protocol  == [type : {"ack", "reply"}, byte : Bytes, good : BOOLEAN]
TlsFrames == [type : {"tls"}, byte : {"zero"}, good : BOOLEAN]
JunkFrame == [type |-> "junk", byte |-> "zero", good |-> FALSE]
AllFrames == Protocol \cup TlsFrames \cup {JunkFrame}

(* What ends a command that no frame of the device ends.                   *)
NoFrame == [type |-> "none", byte |-> "zero", good |-> TRUE]

ASSUME CommandAssumption ==
  /\ Commands \subseteq AllCommands
  /\ Frames \subseteq AllFrames
  /\ MaxBatch \in Nat /\ MaxNested \in Nat

Outcomes == {"ok", "timedOut", "busy", "cancelled", "sendFailed", "corrupt"}

Waiter   == [caller : Callers, command : Commands]
NoWaiter == [caller |-> "none", command |-> "none"]

VARIABLES
  priv,     \* the slot of FpiDeviceGoodixTlsPrivate
  sources,  \* timer sources alive in the main loop
  buffer,   \* frames of the accumulator not yet dispatched
  calls,    \* callbacks under way, the innermost first
  told,     \* what each caller was told last
  isOpen,   \* the device is open
  nested    \* commands sent by callbacks since the main loop ran

vars == <<priv, sources, buffer, calls, told, isOpen, nested>>

Private ==
  [ cmd      : Bytes,
    ack      : BOOLEAN,
    reply    : BOOLEAN,
    callback : Waiter \cup {NoWaiter},
    timeout  : BOOLEAN,
    inited   : BOOLEAN ]

(* frame: what ended the command.  running: the callback has been told,    *)
(* and has yet to return.                                                  *)
Call == [waiter : Waiter, outcome : Outcomes, frame : Frames \cup {NoFrame},
         running : BOOLEAN]

Init ==
  /\ priv = [cmd |-> "zero", ack |-> FALSE, reply |-> FALSE, callback |-> NoWaiter,
             timeout |-> FALSE, inited |-> FALSE]
  /\ sources = 0 /\ buffer = <<>> /\ calls = <<>>
  /\ told = [w \in Callers |-> "idle"]
  /\ isOpen = FALSE /\ nested = 0

------------------------------------------------------------------------------
(* Ending a command.                                                       *)

Armed == priv.ack \/ priv.reply

(* Mutant: the flags are left set.                                         *)
ClearedNotFlags == [priv EXCEPT !.cmd = "zero", !.callback = NoWaiter, !.timeout = FALSE]

(* goodix_reset_state on the slot, timer and accumulator.                  *)
Cleared == [priv EXCEPT !.cmd = "zero", !.ack = FALSE, !.reply = FALSE,
                        !.callback = NoWaiter, !.timeout = FALSE]

(* Mutant: a timer is destroyed whether or not there is one.               *)
SourcesDestroyed == sources - 1

SourcesWithout == IF priv.timeout THEN sources - 1 ELSE sources

(* Mutant: the timer of the old command goes on.                           *)
ClearSlotNotTimer == priv' = Cleared /\ buffer' = <<>> /\ UNCHANGED sources

ClearSlot == priv' = Cleared /\ sources' = SourcesWithout /\ buffer' = <<>>

CallOf(waiter, outcome, frame) ==
  [waiter |-> waiter, outcome |-> outcome, frame |-> frame, running |-> FALSE]

(* goodix_receive_done: the callback of an armed slot comes before `then`. *)
ReceiveDone(outcome, frame, then) ==
  IF Armed
  THEN /\ ClearSlot
       /\ calls' = IF priv.callback = NoWaiter THEN then
                   ELSE <<CallOf(priv.callback, outcome, frame)>> \o then
  ELSE calls' = then /\ UNCHANGED <<priv, sources, buffer>>

------------------------------------------------------------------------------
(* Sending a command.                                                      *)

(* Mutant: a refused command is refused without a word.                    *)
CollideSilently(w, c, then) ==
  /\ Armed \/ priv.timeout
  /\ ReceiveDone("busy", NoFrame, then)

(* A command on an armed slot ends the old one and is itself refused.      *)
Collide(w, c, then) ==
  /\ Armed \/ priv.timeout
  /\ ReceiveDone("busy", NoFrame,
       <<CallOf([caller |-> w, command |-> c], "busy", NoFrame)>> \o then)

(* Mutant: an acknowledgement is taken for granted, and has no timer.      *)
ArmTrusting(w, c, then) ==
  /\ ~Armed /\ ~priv.timeout
  /\ priv' = [priv EXCEPT !.cmd = Byte(c), !.ack = TRUE, !.reply = c \notin AckOnly,
                          !.callback = [caller |-> w, command |-> c],
                          !.timeout = c \in Timed \ AckOnly]
  /\ sources' = IF c \in Timed \ AckOnly THEN sources + 1 ELSE sources
  /\ calls' = then
  /\ UNCHANGED buffer

Arm(w, c, then) ==
  /\ ~Armed /\ ~priv.timeout
  /\ priv' = [priv EXCEPT !.cmd = Byte(c), !.ack = TRUE, !.reply = c \notin AckOnly,
                          !.callback = [caller |-> w, command |-> c],
                          !.timeout = c \in Timed]
  /\ sources' = IF c \in Timed THEN sources + 1 ELSE sources
  /\ calls' = then
  /\ UNCHANGED buffer

(* The encoding or the USB transfer fails: the slot was armed in vain.     *)
SendFails(w, c, then) ==
  /\ ~Armed /\ ~priv.timeout
  /\ ClearSlot
  /\ calls' = <<CallOf([caller |-> w, command |-> c], "sendFailed", NoFrame)>> \o then

SendProtocol(w, c, then) ==
  /\ c # "tlsRead"
  /\ Collide(w, c, then) \/ Arm(w, c, then) \/ SendFails(w, c, then)

(* goodix_read_tls takes the slot without a look at it.  The handshake     *)
(* calls it from the callback of its last command, which freed the slot.   *)
ReadTls(w, c, then) ==
  /\ c = "tlsRead" /\ ~Armed
  /\ priv' = [priv EXCEPT !.cmd = "zero", !.reply = TRUE, !.timeout = TRUE,
                          !.callback = [caller |-> w, command |-> c]]
  /\ sources' = SourcesWithout + 1
  /\ calls' = then
  /\ UNCHANGED buffer

(* A caller waits for one command at a time.                               *)
Request(w, c, then) ==
  /\ isOpen /\ told[w] # "waiting"
  /\ told' = [told EXCEPT ![w] = "waiting"]
  /\ SendProtocol(w, c, then) \/ ReadTls(w, c, then)

------------------------------------------------------------------------------
(* The events of the main loop.                                            *)

MainLoop == calls = <<>> /\ buffer = <<>>

Issue(w, c) ==
  /\ MainLoop /\ Request(w, c, <<>>)
  /\ UNCHANGED <<isOpen, nested>>

(* goodix_receive_timeout_cb, of whichever source it is.                   *)
Timeout ==
  /\ calls = <<>> /\ buffer = <<>> /\ sources > 0
  /\ IF Armed
     THEN /\ priv' = Cleared
          /\ calls' = <<CallOf(priv.callback, "timedOut", NoFrame)>>
     ELSE priv' = [priv EXCEPT !.timeout = FALSE] /\ UNCHANGED calls
  /\ sources' = sources - 1
  /\ UNCHANGED <<buffer, told, isOpen, nested>>

(* goodix_reset_state: an armed callback is told CANCELLED.                *)
ResetState ==
  /\ MainLoop /\ isOpen
  /\ ClearSlot
  /\ calls' = IF priv.callback = NoWaiter THEN <<>>
              ELSE <<CallOf(priv.callback, "cancelled", NoFrame)>>
  /\ UNCHANGED <<told, isOpen, nested>>

StartReadLoop ==
  /\ MainLoop /\ isOpen /\ ~priv.inited
  /\ priv' = [priv EXCEPT !.inited = TRUE]
  /\ UNCHANGED <<sources, buffer, calls, told, isOpen, nested>>

StopReadLoop ==
  /\ MainLoop /\ isOpen /\ priv.inited
  /\ priv' = [priv EXCEPT !.inited = FALSE]
  /\ UNCHANGED <<sources, buffer, calls, told, isOpen, nested>>

(* The claim of the interface succeeds; a timer of the old session, had    *)
(* there been one, is forgotten and goes on.                               *)
DevInit ==
  /\ MainLoop /\ ~isOpen
  /\ priv' = [priv EXCEPT !.ack = FALSE, !.reply = FALSE, !.callback = NoWaiter,
                          !.timeout = FALSE]
  /\ isOpen' = TRUE
  /\ UNCHANGED <<sources, buffer, calls, told, nested>>

(* Mutant: the close leaves the slot and its timer as they are.            *)
DevDeinitNotReset ==
  /\ MainLoop /\ isOpen
  /\ priv' = [priv EXCEPT !.inited = FALSE]
  /\ isOpen' = FALSE
  /\ UNCHANGED <<sources, buffer, calls, told, nested>>

(* goodix_dev_deinit.  By then the slot holds at most what a cancelled     *)
(* bring-up left, whose callback sends nothing: SessionInv of              *)
(* Goodix5e0aSession.                                                      *)
DevDeinit ==
  /\ MainLoop /\ isOpen
  /\ priv' = [Cleared EXCEPT !.inited = FALSE]
  /\ sources' = SourcesWithout
  /\ calls' = IF priv.callback = NoWaiter THEN <<>>
              ELSE <<CallOf(priv.callback, "cancelled", NoFrame)>>
  /\ isOpen' = FALSE
  /\ UNCHANGED <<buffer, told, nested>>

(* A USB transfer completes: its frames join the accumulator.              *)
Receive(batch) ==
  /\ MainLoop /\ priv.inited
  /\ buffer' = batch
  /\ UNCHANGED <<priv, sources, calls, told, isOpen, nested>>

------------------------------------------------------------------------------
(* goodix_receive_pack dispatches one frame; one that ends a command also  *)
(* drops the frames behind it.                                             *)

Ignore == buffer' = Tail(buffer) /\ UNCHANGED <<priv, sources, calls>>

Junk(f) ==
  IF Armed THEN ReceiveDone("corrupt", f, <<>>)
  ELSE buffer' = <<>> /\ UNCHANGED <<priv, sources, calls>>

(* Mutant: a wrong checksum is logged, whatever the command.               *)
NeverRejected(f) == f.type = "reply" /\ f \notin Frames

(* A frame of a safety-critical command with a wrong checksum.  The gate   *)
(* looks at the byte of a protocol frame: an ACK has a byte of its own and *)
(* a TLS pack none, and both are let through with a wrong checksum.        *)
Rejected(f) == f.type = "reply" /\ ~f.good /\ f.byte \in Critical

BadFrame(f) ==
  IF Armed /\ priv.cmd = f.byte THEN ReceiveDone("corrupt", f, <<>>) ELSE Ignore

ReceiveAck(f) ==
  IF priv.cmd # f.byte \/ ~priv.ack THEN Ignore
  ELSE IF ~priv.reply THEN ReceiveDone("ok", f, <<>>)
  ELSE /\ priv' = [priv EXCEPT !.ack = FALSE]
       /\ buffer' = Tail(buffer)
       /\ UNCHANGED <<sources, calls>>

ReceiveReply(f) ==
  IF priv.cmd # f.byte \/ ~priv.reply THEN Ignore ELSE ReceiveDone("ok", f, <<>>)

ReceiveTls(f) ==
  IF \/ priv.cmd \in {"image", "requestTls"}
     \/ priv.reply /\ priv.callback # NoWaiter /\ priv.cmd = "zero"
  THEN ReceiveDone("ok", f, <<>>)
  ELSE Ignore

Dispatch ==
  /\ calls = <<>> /\ buffer # <<>>
  /\ LET f == Head(buffer)
     IN  CASE f.type = "junk"  -> Junk(f)
           [] Rejected(f)      -> BadFrame(f)
           [] f.type = "ack"   -> ReceiveAck(f)
           [] f.type = "reply" /\ ~Rejected(f) -> ReceiveReply(f)
           [] f.type = "tls"   -> ReceiveTls(f)
  /\ UNCHANGED <<told, isOpen, nested>>

------------------------------------------------------------------------------
(* The callbacks.  Silence is what a NOP hopes for.                        *)

Tolerated(call) ==
  IF call.waiter.command = "nop" /\ call.outcome = "timedOut" THEN "ok" ELSE call.outcome

CallbackTold ==
  /\ calls # <<>> /\ ~Head(calls).running
  /\ told' = [told EXCEPT ![Head(calls).waiter.caller] = Tolerated(Head(calls))]
  /\ calls' = <<[Head(calls) EXCEPT !.running = TRUE]>> \o Tail(calls)
  /\ UNCHANGED <<priv, sources, buffer, isOpen, nested>>

CallbackSends(w, c) ==
  /\ calls # <<>> /\ Head(calls).running
  /\ nested < MaxNested /\ nested' = nested + 1
  /\ Request(w, c, Tail(calls))
  /\ UNCHANGED isOpen

CallbackReturns ==
  /\ calls # <<>> /\ Head(calls).running
  /\ calls' = Tail(calls)
  /\ nested' = IF Tail(calls) = <<>> THEN 0 ELSE nested
  /\ UNCHANGED <<priv, sources, buffer, told, isOpen>>


------------------------------------------------------------------------------
User ==
  \/ \E w \in Callers, c \in Commands : Issue(w, c)
  \/ ResetState
  \/ StartReadLoop
  \/ StopReadLoop
  \/ DevInit
  \/ DevDeinit

Batches == UNION {[1..n -> Frames] : n \in 1..MaxBatch}

Callback ==
  \/ CallbackTold
  \/ \E w \in Callers, c \in Commands : CallbackSends(w, c)
  \/ CallbackReturns

Next ==
  \/ User
  \/ \E batch \in Batches : Receive(batch)
  \/ Timeout
  \/ Dispatch
  \/ Callback

Spec == Init /\ [][Next]_vars

(* Code that runs goes on, and the main loop dispatches a timer that is    *)
(* due however much the device sends: it serves every source that is ready.*)
FairSpec ==
  /\ Spec
  /\ WF_vars(Dispatch)
  /\ WF_vars(CallbackTold)
  /\ WF_vars(CallbackReturns)
  /\ SF_vars(Timeout)

------------------------------------------------------------------------------
(* The types of the variables.                                             *)
TypeOK ==
  /\ priv \in Private
  /\ sources \in Nat
  /\ buffer \in Seq(Frames)
  /\ calls \in Seq(Call)
  /\ told \in [Callers -> Outcomes \cup {"idle", "waiting"}]
  /\ isOpen \in BOOLEAN
  /\ nested \in 0..MaxNested

(* A timer belongs to the command that set it: none outlives its command,  *)
(* to end the next one early, and no command but the request for a TLS     *)
(* connection waits without one.                                           *)
TimerOfCommand ==
  /\ sources = IF priv.timeout THEN 1 ELSE 0
  /\ priv.timeout <=> Armed /\ priv.callback.command \in Timed

(* The slot waits for its command: a callback is there to be told exactly  *)
(* while an ACK or a reply is expected, under the command's own byte, and  *)
(* no reply is expected of a command that is only acknowledged.            *)
SlotOfCommand ==
  /\ Armed <=> priv.callback # NoWaiter
  /\ Armed => priv.cmd = Byte(priv.callback.command)
  /\ priv.ack /\ ~priv.reply => priv.callback.command \in AckOnly
  /\ priv.reply => priv.callback.command \notin AckOnly

(* The calls whose caller is yet to be told.                               *)
Untold(w) == {i \in DOMAIN calls : ~calls[i].running /\ calls[i].waiter.caller = w}

InSlot(w) == priv.callback # NoWaiter /\ priv.callback.caller = w

(* A caller waits exactly while it is in the slot, or about to be called,  *)
(* and only ever in one place: through collisions, failed sends, timeouts  *)
(* and resets no callback is lost, and none is called twice.               *)
ToldOnce ==
  \A w \in Callers :
    /\ told[w] = "waiting" <=> InSlot(w) \/ Untold(w) # {}
    /\ InSlot(w) => Untold(w) = {}
    /\ \A i, j \in Untold(w) : i = j

(* A closed device waits for nothing: what goodix_dev_init overwrites is   *)
(* neither a callback to be told nor a timer to be destroyed.              *)
ClosedIsQuiet == ~isOpen => ~Armed /\ ~priv.timeout /\ priv.callback = NoWaiter

(* The frames that answer a command: its own ACK where no reply follows,   *)
(* its own reply, or a TLS pack where one is what the command asks for.    *)
Answers(f, c) ==
  \/ f.type = "ack" /\ f.byte = Byte(c) /\ c \in AckOnly
  \/ f.type = "reply" /\ f.byte = Byte(c) /\ c \notin AckOnly
  \/ f.type = "tls" /\ c \in {"requestTls", "image", "tlsRead"}

(* Late, repeated and stray frames, and callbacks that send within others, *)
(* notwithstanding, a command succeeds only on a frame that answers it;    *)
(* and no reply that fails its checksum is the success of a safety-        *)
(* critical command.  (A corrupt ACK or TLS pack may be: the code lets     *)
(* them through, and CriticalIntegrity fails of each.)                     *)
RightAnswer ==
  \A i \in DOMAIN calls :
    calls[i].outcome = "ok" =>
      /\ Answers(calls[i].frame, calls[i].waiter.command)
      /\ calls[i].frame.type = "reply" /\ calls[i].waiter.command \in Critical =>
           calls[i].frame.good

(* A safety-critical command never succeeds on a frame that fails its      *)
(* checksum, be it a reply, an ACK or a TLS pack.                          *)
CriticalIntegrity ==
  \A i \in DOMAIN calls :
    calls[i].outcome = "ok" /\ calls[i].waiter.command \in Critical => calls[i].frame.good

------------------------------------------------------------------------------
(* The transport keeps its promise to whoever sends a command.             *)
Pending ==
  [w \in Callers |->
     IF InSlot(w) THEN priv.callback.command
     ELSE IF Untold(w) # {} THEN calls[CHOOSE i \in Untold(w) : TRUE].waiter.command
     ELSE "none"]

Promise == INSTANCE CommandContract WITH
  pending <- Pending, TimedCommands <- Timed

KeepsPromise == Promise!Spec
==============================================================================
