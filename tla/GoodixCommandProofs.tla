-------------------------- MODULE GoodixCommandProofs --------------------------
(***************************************************************************)
(* What holds of the command slot for any callers, commands and frames,    *)
(* and however deep the callbacks nest.                                    *)
(*                                                                         *)
(* An action moves a waiter: from its request to the slot or to the stack, *)
(* from the slot to the top of the stack, and from there to be told.  The  *)
(* lemmas are about these moves, the actions are made of them.             *)
(***************************************************************************)
EXTENDS GoodixCommand, SequenceTheorems, TLAPS

------------------------------------------------------------------------------
(* The parts of the invariant, of any slot, stack and report.              *)

UntoldIn(cs, w) == {i \in DOMAIN cs : ~cs[i].running /\ cs[i].waiter.caller = w}

NoUntold(cs, w) == UntoldIn(cs, w) = {}

OneUntold(cs, w) == \A i, j \in UntoldIn(cs, w) : i = j

Holds(x, w) == x # NoWaiter /\ x.caller = w

(* ToldOnce of the waiter x of a slot, the stack cs and the reports td.    *)
Once(x, cs, td) ==
  \A w \in Callers :
    /\ td[w] = "waiting" <=> Holds(x, w) \/ ~NoUntold(cs, w)
    /\ Holds(x, w) => NoUntold(cs, w)
    /\ OneUntold(cs, w)

(* RightAnswer of one success: the frame f ends the command c.             *)
RightFrame(f, c) ==
  /\ Answers(f, c)
  /\ f.type = "reply" /\ c \in Critical => f.good

SoundCall(c) == c.outcome = "ok" => RightFrame(c.frame, c.waiter.command)

Sound(cs) == \A i \in DOMAIN cs : SoundCall(cs[i])

Told == [Callers -> Outcomes \cup {"idle", "waiting"}]

SlotOK ==
  /\ priv \in Private /\ sources \in Nat /\ buffer \in Seq(Frames)
  /\ TimerOfCommand /\ SlotOfCommand

CallsOK(x, cs, td) == cs \in Seq(Call) /\ Once(x, cs, td) /\ Sound(cs)

Quiet == ~Armed /\ ~priv.timeout /\ priv.callback = NoWaiter

CommandInv ==
  /\ SlotOK /\ CallsOK(priv.callback, calls, told)
  /\ told \in Told /\ isOpen \in BOOLEAN /\ nested \in 0..MaxNested
  /\ ClosedIsQuiet

------------------------------------------------------------------------------
(* The stack: pushing a call, dropping the head, marking it as running.    *)

LEMMA PushCall ==
  ASSUME NEW c \in Call, NEW cs \in Seq(Call)
  PROVE  /\ <<c>> \o cs \in Seq(Call)
         /\ DOMAIN (<<c>> \o cs) = 1..(Len(cs) + 1)
         /\ (<<c>> \o cs)[1] = c
         /\ \A i \in 1..Len(cs) : (<<c>> \o cs)[i + 1] = cs[i]
OBVIOUS

LEMMA DropCall ==
  ASSUME NEW cs \in Seq(Call), cs # <<>>
  PROVE  /\ Tail(cs) \in Seq(Call) /\ Head(cs) = cs[1] /\ Head(cs) \in Call
         /\ Len(cs) \in Nat \ {0} /\ DOMAIN cs = 1..Len(cs)
         /\ DOMAIN Tail(cs) = 1..(Len(cs) - 1)
         /\ \A i \in 1..(Len(cs) - 1) : Tail(cs)[i] = cs[i + 1]
OBVIOUS

(* The untold calls of a stack with one more call on top.                  *)
LEMMA PushUntold ==
  ASSUME NEW c \in Call, NEW cs \in Seq(Call), NEW w
  PROVE  UntoldIn(<<c>> \o cs, w) =
           {i + 1 : i \in UntoldIn(cs, w)}
             \cup (IF ~c.running /\ c.waiter.caller = w THEN {1} ELSE {})
<1> DEFINE s == <<c>> \o cs
<1>1. DOMAIN s = 1..(Len(cs) + 1) /\ s[1] = c /\ DOMAIN cs = 1..Len(cs) /\ Len(cs) \in Nat
  BY PushCall
<1>2. \A i \in 1..Len(cs) : s[i + 1] = cs[i]
  BY PushCall
<1> HIDE DEF s
<1>3. ASSUME NEW i \in UntoldIn(s, w), i # 1
      PROVE  i - 1 \in UntoldIn(cs, w) /\ i = (i - 1) + 1
  <2>1. i - 1 \in 1..Len(cs) /\ i = (i - 1) + 1
    BY <1>1, <1>3 DEF UntoldIn
  <2>2. s[i] = cs[i - 1]
    BY <1>2, <2>1
  <2> QED BY <1>1, <1>3, <2>1, <2>2 DEF UntoldIn
<1>4. ASSUME NEW i \in UntoldIn(cs, w)
      PROVE  i + 1 \in UntoldIn(s, w)
  <2>1. i \in 1..Len(cs) /\ i + 1 \in DOMAIN s
    BY <1>1, <1>4 DEF UntoldIn
  <2>2. s[i + 1] = cs[i]
    BY <1>2, <2>1
  <2> QED BY <1>4, <2>1, <2>2 DEF UntoldIn
<1>5. 1 \in UntoldIn(s, w) <=> ~c.running /\ c.waiter.caller = w
  BY <1>1 DEF UntoldIn
<1>6. UntoldIn(s, w) =
        {i + 1 : i \in UntoldIn(cs, w)}
          \cup (IF ~c.running /\ c.waiter.caller = w THEN {1} ELSE {})
  BY <1>3, <1>4, <1>5
<1> QED BY <1>6 DEF s

(* A call on top is either the one untold call of its caller, or none.     *)
LEMMA TopUntold ==
  ASSUME NEW c \in Call, NEW cs \in Seq(Call), NEW w
  PROVE  /\ (c.running \/ c.waiter.caller # w) =>
              /\ NoUntold(<<c>> \o cs, w) <=> NoUntold(cs, w)
              /\ OneUntold(<<c>> \o cs, w) <=> OneUntold(cs, w)
         /\ (~c.running /\ c.waiter.caller = w) =>
              /\ ~NoUntold(<<c>> \o cs, w)
              /\ NoUntold(cs, w) => OneUntold(<<c>> \o cs, w)
<1>1. UntoldIn(cs, w) \subseteq Nat
  BY DEF UntoldIn
<1>2. UntoldIn(<<c>> \o cs, w) =
        {i + 1 : i \in UntoldIn(cs, w)}
          \cup (IF ~c.running /\ c.waiter.caller = w THEN {1} ELSE {})
  BY PushUntold
<1> DEFINE old == UntoldIn(cs, w)
           new == UntoldIn(<<c>> \o cs, w)
<1> HIDE DEF old, new
<1>3. old \subseteq Nat
  BY <1>1 DEF old
<1>4. CASE c.running \/ c.waiter.caller # w
  <2>1. new = {i + 1 : i \in old}
    BY <1>2, <1>4 DEF old, new
  <2>2. new = {} <=> old = {}
    BY <2>1
  <2>3. ASSUME \A i, j \in new : i = j, NEW i \in old, NEW j \in old
        PROVE  i = j
    <3>1. i + 1 \in new /\ j + 1 \in new
      BY <2>1
    <3>2. i + 1 = j + 1
      BY <2>3, <3>1
    <3> QED BY <1>3, <2>3, <3>2
  <2>4. ASSUME \A i, j \in old : i = j, NEW k \in new, NEW l \in new
        PROVE  k = l
    BY <2>1, <2>4
  <2> QED BY <1>4, <2>2, <2>3, <2>4 DEF old, new, NoUntold, OneUntold
<1>5. CASE ~c.running /\ c.waiter.caller = w
  <2>1. new = {i + 1 : i \in old} \cup {1}
    BY <1>2, <1>5 DEF old, new
  <2>2. new # {} /\ (old = {} => \A i, j \in new : i = j)
    BY <2>1
  <2> QED BY <1>5, <2>2 DEF old, new, NoUntold, OneUntold
<1> QED BY <1>4, <1>5

(* A stack is its head on its tail.                                        *)
LEMMA HeadOnTail ==
  ASSUME NEW cs \in Seq(Call), cs # <<>>
  PROVE  cs = <<Head(cs)>> \o Tail(cs)
OBVIOUS

------------------------------------------------------------------------------
(* The moves of a waiter.                                                  *)

(* From the slot to the top of the stack.                                  *)
LEMMA MoveToStack ==
  ASSUME NEW x \in Waiter \cup {NoWaiter}, NEW cs \in Seq(Call), NEW td, NEW c \in Call,
         Once(x, cs, td), x # NoWaiter, c.waiter = x, ~c.running
  PROVE  Once(NoWaiter, <<c>> \o cs, td)
<1> SUFFICES ASSUME NEW w \in Callers
             PROVE  /\ td[w] = "waiting" <=> ~NoUntold(<<c>> \o cs, w)
                    /\ OneUntold(<<c>> \o cs, w)
  BY DEF Once, Holds
<1>1. CASE x.caller = w
  BY <1>1, TopUntold DEF Once, Holds
<1>2. CASE x.caller # w
  BY <1>2, TopUntold DEF Once, Holds
<1> QED BY <1>1, <1>2

(* From a request to the top of the stack: the command is refused.         *)
LEMMA MoveRefused ==
  ASSUME NEW x \in Waiter \cup {NoWaiter}, NEW cs \in Seq(Call), NEW td \in Told,
         NEW u \in Callers, NEW c \in Call,
         Once(x, cs, td), td[u] # "waiting", c.waiter.caller = u, ~c.running
  PROVE  Once(x, <<c>> \o cs, [td EXCEPT ![u] = "waiting"])
<1> SUFFICES ASSUME NEW w \in Callers
             PROVE  /\ [td EXCEPT ![u] = "waiting"][w] = "waiting"
                          <=> Holds(x, w) \/ ~NoUntold(<<c>> \o cs, w)
                    /\ Holds(x, w) => NoUntold(<<c>> \o cs, w)
                    /\ OneUntold(<<c>> \o cs, w)
  BY DEF Once
<1>1. CASE w = u
  <2>1. ~Holds(x, u) /\ NoUntold(cs, u)
    BY DEF Once
  <2>2. [td EXCEPT ![u] = "waiting"][u] = "waiting"
    BY DEF Told
  <2> QED BY <1>1, <2>1, <2>2, TopUntold
<1>2. CASE w # u
  <2>1. [td EXCEPT ![u] = "waiting"][w] = td[w]
    BY <1>2 DEF Told
  <2> QED BY <1>2, <2>1, TopUntold DEF Once
<1> QED BY <1>1, <1>2

(* From a request to the slot.                                             *)
LEMMA MoveToSlot ==
  ASSUME NEW x \in Waiter, NEW cs, NEW td \in Told, NEW u \in Callers,
         Once(NoWaiter, cs, td), td[u] # "waiting", x.caller = u, x # NoWaiter
  PROVE  Once(x, cs, [td EXCEPT ![u] = "waiting"])
<1> SUFFICES ASSUME NEW w \in Callers
             PROVE  /\ [td EXCEPT ![u] = "waiting"][w] = "waiting"
                          <=> Holds(x, w) \/ ~NoUntold(cs, w)
                    /\ Holds(x, w) => NoUntold(cs, w)
                    /\ OneUntold(cs, w)
  BY DEF Once
<1>1. CASE w = u
  <2>1. NoUntold(cs, u) /\ OneUntold(cs, u)
    BY DEF Once
  <2>2. [td EXCEPT ![u] = "waiting"][u] = "waiting"
    BY DEF Told
  <2> QED BY <1>1, <2>1, <2>2 DEF Holds
<1>2. CASE w # u
  <2>1. [td EXCEPT ![u] = "waiting"][w] = td[w]
    BY <1>2 DEF Told
  <2> QED BY <1>2, <2>1 DEF Once, Holds
<1> QED BY <1>1, <1>2

(* From the top of the stack to be told.                                   *)
LEMMA MoveToTold ==
  ASSUME NEW x \in Waiter \cup {NoWaiter}, NEW cs \in Seq(Call), cs # <<>>,
         NEW td \in Told, NEW o, o # "waiting", NEW c \in Call,
         Once(x, cs, td), ~Head(cs).running, c.running
  PROVE  Once(x, <<c>> \o Tail(cs), [td EXCEPT ![Head(cs).waiter.caller] = o])
<1> DEFINE u == Head(cs).waiter.caller
           t == Tail(cs)
<1>1. Head(cs) \in Call /\ t \in Seq(Call) /\ cs = <<Head(cs)>> \o t /\ u \in Callers
  BY DropCall, HeadOnTail DEF Call, Waiter
<1> SUFFICES ASSUME NEW w \in Callers
             PROVE  /\ [td EXCEPT ![u] = o][w] = "waiting"
                          <=> Holds(x, w) \/ ~NoUntold(<<c>> \o t, w)
                    /\ Holds(x, w) => NoUntold(<<c>> \o t, w)
                    /\ OneUntold(<<c>> \o t, w)
  BY DEF Once
<1>2. /\ NoUntold(<<c>> \o t, w) <=> NoUntold(t, w)
      /\ OneUntold(<<c>> \o t, w) <=> OneUntold(t, w)
  BY <1>1, TopUntold
<1>3. CASE w = u
  <2>1. UntoldIn(cs, u) = {i + 1 : i \in UntoldIn(t, u)} \cup {1}
    BY <1>1, PushUntold
  <2>2. NoUntold(t, u)
    <3> SUFFICES ASSUME NEW i \in UntoldIn(t, u)
                 PROVE  FALSE
      BY DEF NoUntold
    <3>1. i + 1 \in UntoldIn(cs, u) /\ 1 \in UntoldIn(cs, u)
      BY <2>1
    <3>2. i \in Nat \ {0}
      BY <1>1 DEF UntoldIn
    <3>3. i + 1 = 1
      BY <1>1, <3>1 DEF Once, OneUntold
    <3> QED BY <3>2, <3>3
  <2>3. ~Holds(x, u)
    BY <1>1, <2>1 DEF Once, NoUntold
  <2>4. [td EXCEPT ![u] = o][u] = o
    BY <1>1 DEF Told
  <2>5. OneUntold(t, u)
    BY <2>2 DEF NoUntold, OneUntold
  <2> QED BY <1>2, <1>3, <2>2, <2>3, <2>4, <2>5
<1>4. CASE w # u
  <2>1. [td EXCEPT ![u] = o][w] = td[w]
    BY <1>4 DEF Told
  <2>2. Head(cs).waiter.caller # w
    BY <1>4
  <2>3. /\ NoUntold(<<Head(cs)>> \o t, w) <=> NoUntold(t, w)
        /\ OneUntold(<<Head(cs)>> \o t, w) <=> OneUntold(t, w)
    <3> HIDE DEF t, u
    <3> QED BY <1>1, <2>2, TopUntold
  <2>4. /\ NoUntold(cs, w) <=> NoUntold(t, w)
        /\ OneUntold(cs, w) <=> OneUntold(t, w)
    BY <1>1, <2>3
  <2> QED BY <1>2, <2>1, <2>4 DEF Once
<1> QED BY <1>3, <1>4

(* A call that has run leaves the stack.                                   *)
LEMMA DropRun ==
  ASSUME NEW x, NEW cs \in Seq(Call), cs # <<>>, NEW td,
         Once(x, cs, td), Head(cs).running
  PROVE  Once(x, Tail(cs), td)
<1> DEFINE t == Tail(cs)
<1>1. Head(cs) \in Call /\ t \in Seq(Call) /\ cs = <<Head(cs)>> \o t
  BY DropCall, HeadOnTail
<1>2. \A w : /\ NoUntold(cs, w) <=> NoUntold(t, w)
             /\ OneUntold(cs, w) <=> OneUntold(t, w)
  BY <1>1, TopUntold
<1> QED BY <1>2 DEF Once

(* Soundness of the stack.                                                 *)
LEMMA SoundStack ==
  ASSUME NEW cs \in Seq(Call), Sound(cs)
  PROVE  /\ \A c \in Call : SoundCall(c) => Sound(<<c>> \o cs)
         /\ cs # <<>> => SoundCall(Head(cs)) /\ Sound(Tail(cs))
<1>1. ASSUME NEW c \in Call, SoundCall(c)
      PROVE  Sound(<<c>> \o cs)
  <2> DEFINE s == <<c>> \o cs
  <2>1. DOMAIN s = 1..(Len(cs) + 1) /\ s[1] = c /\ DOMAIN cs = 1..Len(cs) /\ Len(cs) \in Nat
    BY PushCall
  <2>2. \A i \in 1..Len(cs) : s[i + 1] = cs[i]
    BY PushCall
  <2> HIDE DEF s
  <2>3. ASSUME NEW i \in DOMAIN s, i # 1
        PROVE  SoundCall(s[i])
    <3>1. i - 1 \in 1..Len(cs) /\ i = (i - 1) + 1
      BY <2>1, <2>3
    <3>2. s[i] = cs[i - 1]
      BY <2>2, <3>1
    <3> QED BY <2>1, <3>1, <3>2 DEF Sound
  <2>4. Sound(s)
    BY <1>1, <2>1, <2>3 DEF Sound
  <2> QED BY <2>4 DEF s
<1>2. ASSUME cs # <<>>
      PROVE  SoundCall(Head(cs)) /\ Sound(Tail(cs))
  BY <1>2, DropCall DEF Sound
<1> QED BY <1>1, <1>2
------------------------------------------------------------------------------
(* Ending and sending a command.                                           *)

LEMMA WaiterFacts ==
  /\ NoWaiter \notin Waiter
  /\ \A w \in Callers, c \in Commands :
       [caller |-> w, command |-> c] \in Waiter /\ c \in AllCommands /\ Byte(c) \in Bytes
  /\ \A w \in Waiter : w.caller \in Callers /\ w.command \in Commands
  /\ "zero" \in Bytes
<1>1. "none" \notin Commands
  BY CommandAssumption DEF AllCommands
<1>2. "zero" \in Bytes
  BY DEF Bytes, Byte, AllCommands
<1> QED BY <1>1, <1>2, CommandAssumption DEF Waiter, NoWaiter, Bytes

LEMMA FreeSlot ==
  ASSUME SlotOK, ~Armed
  PROVE  Quiet
BY DEF SlotOK, TimerOfCommand, SlotOfCommand, Quiet

LEMMA ClearQuiets ==
  ASSUME SlotOK, priv' \in {Cleared, [Cleared EXCEPT !.inited = FALSE]},
         sources' = SourcesWithout, buffer' \in Seq(Frames)
  PROVE  SlotOK' /\ Quiet'
<1>1. /\ priv' \in Private
      /\ priv'.ack = FALSE /\ priv'.reply = FALSE /\ priv'.timeout = FALSE
      /\ priv'.callback = NoWaiter
  BY WaiterFacts DEF SlotOK, Private, Cleared
<1>2. sources' = 0
  BY DEF SlotOK, TimerOfCommand, SourcesWithout
<1> QED BY <1>1, <1>2 DEF SlotOK, Quiet, Armed, TimerOfCommand, SlotOfCommand

(* The callback of an armed slot goes on the stack.                        *)
LEMMA StackCallback ==
  ASSUME SlotOK, NEW then, NEW td, CallsOK(priv.callback, then, td),
         NEW outcome \in Outcomes, NEW frame \in Frames \cup {NoFrame},
         priv.callback # NoWaiter,
         outcome = "ok" => RightFrame(frame, priv.callback.command)
  PROVE  CallsOK(NoWaiter, <<CallOf(priv.callback, outcome, frame)>> \o then, td)
<1> DEFINE c == CallOf(priv.callback, outcome, frame)
<1>1. priv.callback \in Waiter
  BY DEF SlotOK, Private
<1>2. c \in Call /\ ~c.running /\ c.waiter = priv.callback /\ SoundCall(c)
  BY <1>1 DEF CallOf, Call, SoundCall
<1>3. Once(NoWaiter, <<c>> \o then, td)
  BY <1>1, <1>2, MoveToStack DEF CallsOK
<1>4. <<c>> \o then \in Seq(Call) /\ Sound(<<c>> \o then)
  BY <1>2, PushCall, SoundStack DEF CallsOK
<1> QED BY <1>3, <1>4 DEF CallsOK

LEMMA ReceiveDoneEnds ==
  ASSUME SlotOK, NEW then, NEW td, CallsOK(priv.callback, then, td),
         NEW outcome \in Outcomes, NEW frame \in Frames \cup {NoFrame},
         Armed /\ outcome = "ok" => RightFrame(frame, priv.callback.command),
         ReceiveDone(outcome, frame, then)
  PROVE  SlotOK' /\ Quiet' /\ CallsOK(NoWaiter, calls', td)
<1>1. CASE Armed
  <2>1. ClearSlot /\ priv.callback # NoWaiter
    BY <1>1 DEF ReceiveDone, SlotOK, SlotOfCommand
  <2>2. SlotOK' /\ Quiet'
    BY <2>1, ClearQuiets DEF ClearSlot
  <2>3. calls' = <<CallOf(priv.callback, outcome, frame)>> \o then
    BY <1>1, <2>1 DEF ReceiveDone
  <2> QED BY <1>1, <2>1, <2>2, <2>3, StackCallback
<1>2. CASE ~Armed
  <2>1. UNCHANGED <<priv, sources, buffer>> /\ calls' = then
    BY <1>2 DEF ReceiveDone
  <2>2. Quiet
    BY <1>2, FreeSlot
  <2> QED BY <2>1, <2>2 DEF SlotOK, Quiet, Armed, TimerOfCommand, SlotOfCommand
<1> QED BY <1>1, <1>2

(* A command that is refused, or whose send fails, is on top of the stack. *)
LEMMA RefusedWaits ==
  ASSUME SlotOK, told \in Told, NEW then, CallsOK(priv.callback, then, told),
         NEW x \in Waiter, told[x.caller] # "waiting", NEW outcome \in {"busy", "sendFailed"}
  PROVE  CallsOK(priv.callback, <<CallOf(x, outcome, NoFrame)>> \o then,
                 [told EXCEPT ![x.caller] = "waiting"])
<1> DEFINE call == CallOf(x, outcome, NoFrame)
<1>1. call \in Call /\ ~call.running /\ call.waiter = x /\ SoundCall(call)
  BY DEF CallOf, Call, SoundCall, Outcomes
<1>2. priv.callback \in Waiter \cup {NoWaiter} /\ x.caller \in Callers
  BY DEF SlotOK, Private, Waiter
<1>3. Once(priv.callback, <<call>> \o then, [told EXCEPT ![x.caller] = "waiting"])
  BY <1>1, <1>2, MoveRefused DEF CallsOK
<1>4. <<call>> \o then \in Seq(Call) /\ Sound(<<call>> \o then)
  BY <1>1, PushCall, SoundStack DEF CallsOK
<1> QED BY <1>3, <1>4 DEF CallsOK

LEMMA RequestWaits ==
  ASSUME SlotOK, told \in Told, NEW then, CallsOK(priv.callback, then, told),
         NEW w \in Callers, NEW c \in Commands, Request(w, c, then)
  PROVE  SlotOK' /\ told' \in Told /\ CallsOK(priv'.callback, calls', told')
<1> DEFINE x == [caller |-> w, command |-> c]
<1>1. told' \in Told /\ told' = [told EXCEPT ![w] = "waiting"] /\ told[w] # "waiting"
  BY DEF Request, Told
<1>2. x \in Waiter /\ x # NoWaiter /\ x.caller = w /\ x.command = c
  BY WaiterFacts
<1>3. ASSUME NEW outcome \in {"busy", "sendFailed"}
      PROVE  CallsOK(priv.callback, <<CallOf(x, outcome, NoFrame)>> \o then, told')
  BY <1>1, <1>2, RefusedWaits
<1>4. CASE Collide(w, c, then)
  <2>1. ReceiveDone("busy", NoFrame, <<CallOf(x, "busy", NoFrame)>> \o then)
    BY <1>4 DEF Collide
  <2>2. CallsOK(priv.callback, <<CallOf(x, "busy", NoFrame)>> \o then, told')
    BY <1>3
  <2>3. SlotOK' /\ Quiet' /\ CallsOK(NoWaiter, calls', told')
    <3> HIDE DEF x
    <3> QED BY <2>1, <2>2, ReceiveDoneEnds DEF Outcomes
  <2> QED BY <1>1, <2>3 DEF Quiet
<1>5. CASE SendFails(w, c, then)
  <2>1. SlotOK' /\ Quiet'
    BY <1>5, ClearQuiets DEF SendFails, ClearSlot
  <2>2. priv.callback = NoWaiter
    BY <1>5, FreeSlot DEF SendFails, Quiet
  <2> QED BY <1>1, <1>3, <1>5, <2>1, <2>2 DEF SendFails, Quiet
<1>6. ASSUME ~Armed, priv'.callback = x, calls' = then
      PROVE  CallsOK(priv'.callback, calls', told')
  <2>1. priv.callback = NoWaiter
    BY <1>6, FreeSlot DEF Quiet
  <2>2. Once(x, then, told')
    BY <1>1, <1>2, <2>1, MoveToSlot DEF CallsOK
  <2> QED BY <1>6, <2>2 DEF CallsOK
<1>7. CASE Arm(w, c, then)
  <2> DEFINE replied == c \notin AckOnly
             timed   == c \in Timed
  <2>1. /\ priv' = [priv EXCEPT !.cmd = Byte(c), !.ack = TRUE, !.reply = replied,
                                !.callback = x, !.timeout = timed]
        /\ calls' = then /\ buffer' = buffer /\ ~Armed
        /\ sources' = IF timed THEN sources + 1 ELSE sources
    BY <1>7 DEF Arm
  <2>2. replied \in BOOLEAN /\ timed \in BOOLEAN
    OBVIOUS
  <2>3. sources = 0
    BY <2>1, FreeSlot DEF SlotOK, TimerOfCommand, Quiet
  <2>4. /\ priv' \in Private /\ priv'.callback = x /\ priv'.cmd = Byte(c)
        /\ priv'.ack = TRUE /\ priv'.reply = replied /\ priv'.timeout = timed
    <3> HIDE DEF x, replied, timed
    <3> QED BY <1>2, <2>1, <2>2, WaiterFacts DEF SlotOK, Private
  <2>5. TimerOfCommand' /\ sources' \in Nat
    <3>1. priv'.callback.command = c /\ Armed'
      BY <1>2, <2>4 DEF Armed
    <3>2. priv'.timeout <=> Armed' /\ priv'.callback.command \in Timed
      BY <2>4, <3>1
    <3>3. sources' = IF priv'.timeout THEN 1 ELSE 0
      <4> HIDE DEF timed
      <4> QED BY <2>1, <2>2, <2>3, <2>4
    <3> QED BY <3>2, <3>3 DEF TimerOfCommand, Armed
  <2>6. SlotOfCommand'
    <3> HIDE DEF x
    <3> QED BY <1>2, <2>4 DEF SlotOfCommand, Armed
  <2>7. SlotOK'
    BY <2>1, <2>4, <2>5, <2>6 DEF SlotOK
  <2> QED BY <1>1, <1>6, <2>1, <2>4, <2>7
<1>8. CASE ReadTls(w, c, then)
  <2>1. /\ priv' = [priv EXCEPT !.cmd = "zero", !.reply = TRUE, !.timeout = TRUE,
                                !.callback = x]
        /\ calls' = then /\ buffer' = buffer /\ ~Armed /\ c = "tlsRead"
        /\ sources' = SourcesWithout + 1
    BY <1>8 DEF ReadTls
  <2>2. /\ priv' \in Private /\ priv'.callback = x /\ priv'.cmd = "zero"
        /\ priv'.reply = TRUE /\ priv'.timeout = TRUE /\ priv'.ack = priv.ack
    BY <1>2, <2>1, WaiterFacts DEF SlotOK, Private
  <2>3. sources' = 1
    BY <2>1, FreeSlot DEF SlotOK, TimerOfCommand, Quiet, SourcesWithout
  <2>4. c \in Timed /\ c \notin AckOnly /\ Byte(c) = "zero"
    BY <2>1 DEF Timed, AckOnly, AllCommands, Byte
  <2>5. SlotOK'
    BY <1>2, <2>1, <2>2, <2>3, <2>4 DEF SlotOK, TimerOfCommand, SlotOfCommand, Armed
  <2> QED BY <1>1, <1>6, <2>1, <2>2, <2>5
<1> QED BY <1>4, <1>5, <1>7, <1>8 DEF Request, SendProtocol
------------------------------------------------------------------------------
(* The actions.                                                            *)

LEMMA SlotUnchanged ==
  ASSUME SlotOK, priv' = priv, sources' = sources, buffer' \in Seq(Frames)
  PROVE  SlotOK' /\ (Quiet => Quiet')
BY DEF SlotOK, TimerOfCommand, SlotOfCommand, Armed, Quiet

LEMMA NoStack == NoWaiter \notin Waiter /\ \A c : <<c>> \o <<>> = <<c>>
  BY WaiterFacts

(* What a request from above, or the timer, ends: the stack was empty.     *)
LEMMA CancelEnds ==
  ASSUME CommandInv, calls = <<>>, NEW outcome \in Outcomes \ {"ok"},
         calls' = IF priv.callback = NoWaiter THEN <<>>
                  ELSE <<CallOf(priv.callback, outcome, NoFrame)>>
  PROVE  CallsOK(NoWaiter, calls', told)
<1>1. SlotOK /\ CallsOK(priv.callback, <<>>, told)
  BY DEF CommandInv
<1>2. CASE priv.callback = NoWaiter
  BY <1>1, <1>2
<1>3. CASE priv.callback # NoWaiter
  <2>1. CallsOK(NoWaiter, <<CallOf(priv.callback, outcome, NoFrame)>> \o <<>>, told)
    BY <1>1, <1>3, StackCallback
  <2> QED BY <1>3, <2>1, NoStack
<1> QED BY <1>2, <1>3

LEMMA UserSteps ==
  ASSUME CommandInv, User
  PROVE  CommandInv'
<1>1. /\ SlotOK /\ CallsOK(priv.callback, calls, told) /\ told \in Told
      /\ isOpen \in BOOLEAN /\ nested \in 0..MaxNested /\ ClosedIsQuiet
  BY DEF CommandInv
<1>2. ASSUME NEW w \in Callers, NEW c \in Commands, Issue(w, c)
      PROVE  CommandInv'
  <2>1. Request(w, c, <<>>) /\ calls = <<>> /\ isOpen /\ UNCHANGED <<isOpen, nested>>
    BY <1>2 DEF Issue, MainLoop, Request
  <2>2. SlotOK' /\ told' \in Told /\ CallsOK(priv'.callback, calls', told')
    BY <1>1, <2>1, RequestWaits
  <2> QED BY <1>1, <2>1, <2>2 DEF CommandInv, ClosedIsQuiet
<1>3. CASE ResetState
  <2>1. SlotOK' /\ Quiet'
    BY <1>1, <1>3, ClearQuiets DEF ResetState, ClearSlot
  <2>2. CallsOK(NoWaiter, calls', told)
    BY <1>3, CancelEnds DEF ResetState, MainLoop, Outcomes
  <2>3. UNCHANGED <<told, isOpen, nested>>
    BY <1>3 DEF ResetState
  <2> QED BY <1>1, <2>1, <2>2, <2>3 DEF CommandInv, ClosedIsQuiet, Quiet
<1>4. ASSUME StartReadLoop \/ StopReadLoop
      PROVE  CommandInv'
  <2>1. /\ \E b \in BOOLEAN : priv' = [priv EXCEPT !.inited = b]
        /\ UNCHANGED <<sources, buffer, calls, told, isOpen, nested>>
    BY <1>4 DEF StartReadLoop, StopReadLoop
  <2>2. /\ priv' \in Private /\ priv'.cmd = priv.cmd /\ priv'.ack = priv.ack
        /\ priv'.reply = priv.reply /\ priv'.callback = priv.callback
        /\ priv'.timeout = priv.timeout
    BY <1>1, <2>1 DEF SlotOK, Private
  <2>3. SlotOK'
    BY <1>1, <2>1, <2>2 DEF SlotOK, TimerOfCommand, SlotOfCommand, Armed
  <2>4. CallsOK(priv'.callback, calls', told') /\ ClosedIsQuiet'
    BY <1>1, <2>1, <2>2 DEF ClosedIsQuiet, Armed
  <2> QED BY <1>1, <2>1, <2>3, <2>4 DEF CommandInv
<1>5. CASE DevInit
  <2>1. /\ ~priv.ack /\ ~priv.reply /\ ~priv.timeout /\ priv.callback = NoWaiter
        /\ isOpen' = TRUE /\ UNCHANGED <<sources, buffer, calls, told, nested>>
    BY <1>1, <1>5 DEF DevInit, ClosedIsQuiet, Armed
  <2>2. priv' = priv
    BY <1>1, <1>5, <2>1 DEF DevInit, SlotOK, Private
  <2>3. SlotOK'
    BY <1>1, <2>1, <2>2, SlotUnchanged DEF SlotOK
  <2> QED BY <1>1, <2>1, <2>2, <2>3 DEF CommandInv, ClosedIsQuiet
<1>6. CASE DevDeinit
  <2>1. SlotOK' /\ Quiet'
    BY <1>1, <1>6, ClearQuiets DEF DevDeinit, SlotOK
  <2>2. CallsOK(NoWaiter, calls', told)
    BY <1>6, CancelEnds DEF DevDeinit, MainLoop, Outcomes
  <2>3. isOpen' = FALSE /\ UNCHANGED <<told, nested>>
    BY <1>6 DEF DevDeinit
  <2> QED BY <1>1, <2>1, <2>2, <2>3 DEF CommandInv, ClosedIsQuiet, Quiet
<1> QED BY <1>2, <1>3, <1>4, <1>5, <1>6 DEF User

LEMMA TimeoutSteps ==
  ASSUME CommandInv, Timeout
  PROVE  CommandInv'
<1>1. /\ SlotOK /\ told \in Told /\ isOpen \in BOOLEAN
      /\ nested \in 0..MaxNested /\ ClosedIsQuiet
  BY DEF CommandInv
<1>2. priv.timeout /\ Armed /\ priv.callback # NoWaiter /\ sources - 1 = SourcesWithout
  BY <1>1 DEF Timeout, SlotOK, TimerOfCommand, SlotOfCommand, SourcesWithout
<1>3. /\ priv' = Cleared /\ calls' = <<CallOf(priv.callback, "timedOut", NoFrame)>>
      /\ sources' = SourcesWithout /\ calls = <<>>
      /\ UNCHANGED <<buffer, told, isOpen, nested>>
  BY <1>2 DEF Timeout
<1>4. SlotOK' /\ Quiet'
  BY <1>1, <1>3, ClearQuiets DEF SlotOK
<1>5. CallsOK(NoWaiter, calls', told)
  BY <1>2, <1>3, CancelEnds DEF Outcomes
<1> QED BY <1>1, <1>3, <1>4, <1>5 DEF CommandInv, ClosedIsQuiet, Quiet

LEMMA ReceiveSteps ==
  ASSUME CommandInv, NEW batch \in Batches, Receive(batch)
  PROVE  CommandInv'
<1>1. batch \in Seq(Frames)
  BY CommandAssumption DEF Batches
<1>2. /\ SlotOK /\ CallsOK(priv.callback, calls, told) /\ told \in Told
      /\ isOpen \in BOOLEAN /\ nested \in 0..MaxNested /\ ClosedIsQuiet
  BY DEF CommandInv
<1>3. buffer' = batch /\ UNCHANGED <<priv, sources, calls, told, isOpen, nested>>
  BY DEF Receive
<1>4. SlotOK'
  BY <1>1, <1>2, <1>3, SlotUnchanged
<1> QED BY <1>2, <1>3, <1>4 DEF CommandInv, ClosedIsQuiet, Armed
LEMMA IgnoreSteps ==
  ASSUME SlotOK, buffer # <<>>, Ignore
  PROVE  SlotOK' /\ UNCHANGED <<priv, calls>>
<1>1. buffer' \in Seq(Frames)
  BY DEF SlotOK, Ignore
<1> QED BY <1>1, SlotUnchanged DEF Ignore

(* A frame that ends a command with success answers it, and is no reply    *)
(* with a wrong checksum to a critical one.                                *)
LEMMA DispatchEnds ==
  ASSUME CommandInv, Dispatch
  PROVE  SlotOK' /\ CallsOK(priv'.callback, calls', told)
         /\ (Quiet' \/ Armed \/ UNCHANGED priv)
<1> DEFINE f == Head(buffer)
<1>1. SlotOK /\ CallsOK(priv.callback, calls, told)
  BY DEF CommandInv
<1>2. buffer # <<>> /\ calls = <<>> /\ f \in AllFrames /\ f \in Frames
  BY <1>1, CommandAssumption DEF Dispatch, SlotOK
<1> HIDE DEF f
<1>3. f.type \in {"junk", "ack", "reply", "tls"}
  <2>1. CASE f \in Protocol
    BY <2>1 DEF Protocol
  <2>2. CASE f \in TlsFrames
    BY <2>2 DEF TlsFrames
  <2>3. CASE f = JunkFrame
    BY <2>3 DEF JunkFrame
  <2> QED BY <1>2, <2>1, <2>2, <2>3 DEF AllFrames
<1>4. ASSUME NEW outcome \in {"ok", "corrupt"}, ReceiveDone(outcome, f, <<>>),
             Armed /\ outcome = "ok" => RightFrame(f, priv.callback.command)
      PROVE  SlotOK' /\ Quiet' /\ CallsOK(priv'.callback, calls', told)
  <2>1. SlotOK' /\ Quiet' /\ CallsOK(NoWaiter, calls', told)
    BY <1>1, <1>2, <1>4, ReceiveDoneEnds DEF Outcomes
  <2> QED BY <2>1 DEF Quiet
<1>5. Ignore => SlotOK' /\ CallsOK(priv'.callback, calls', told) /\ UNCHANGED priv
  BY <1>1, <1>2, IgnoreSteps
<1>6. CASE Junk(f)
  <2>1. CASE Armed
    BY <1>4, <1>6, <2>1 DEF Junk
  <2>2. CASE ~Armed
    <3>1. buffer' = <<>> /\ UNCHANGED <<priv, sources, calls>>
      BY <1>6, <2>2 DEF Junk
    <3>2. SlotOK'
      BY <1>1, <3>1, SlotUnchanged
    <3> QED BY <1>1, <3>1, <3>2
  <2> QED BY <2>1, <2>2
<1>7. CASE BadFrame(f)
  BY <1>4, <1>5, <1>7 DEF BadFrame
<1>8. CASE ReceiveAck(f) /\ f.type = "ack"
  <2>1. CASE priv.cmd # f.byte \/ ~priv.ack
    BY <1>5, <1>8, <2>1 DEF ReceiveAck
  <2>2. CASE priv.cmd = f.byte /\ priv.ack /\ ~priv.reply
    <3>1. ReceiveDone("ok", f, <<>>)
      BY <1>8, <2>2 DEF ReceiveAck
    <3>2. priv.callback.command \in AckOnly /\ f.byte = Byte(priv.callback.command)
      BY <1>1, <2>2 DEF SlotOK, SlotOfCommand, Armed
    <3>3. RightFrame(f, priv.callback.command)
      BY <1>8, <3>2 DEF RightFrame, Answers
    <3> QED BY <1>4, <3>1, <3>3
  <2>3. CASE priv.cmd = f.byte /\ priv.ack /\ priv.reply
    <3>1. /\ priv' = [priv EXCEPT !.ack = FALSE] /\ buffer' = Tail(buffer)
          /\ UNCHANGED <<sources, calls>> /\ Armed
      BY <1>8, <2>3 DEF ReceiveAck, Armed
    <3>2. /\ priv' \in Private /\ priv'.cmd = priv.cmd /\ priv'.ack = FALSE
          /\ priv'.reply = TRUE /\ priv'.callback = priv.callback
          /\ priv'.timeout = priv.timeout
      BY <1>1, <2>3, <3>1 DEF SlotOK, Private
    <3>3. buffer' \in Seq(Frames)
      BY <1>1, <1>2, <3>1 DEF SlotOK
    <3>4. SlotOK'
      BY <1>1, <2>3, <3>1, <3>2, <3>3 DEF SlotOK, TimerOfCommand, SlotOfCommand, Armed
    <3> QED BY <1>1, <3>1, <3>2, <3>4
  <2> QED BY <1>1, <2>1, <2>2, <2>3 DEF SlotOK, Private
<1>9. CASE ReceiveReply(f) /\ f.type = "reply" /\ ~Rejected(f)
  <2>1. CASE priv.cmd # f.byte \/ ~priv.reply
    BY <1>5, <1>9, <2>1 DEF ReceiveReply
  <2>2. CASE priv.cmd = f.byte /\ priv.reply
    <3>1. ReceiveDone("ok", f, <<>>)
      BY <1>9, <2>2 DEF ReceiveReply
    <3>2. f.byte = Byte(priv.callback.command) /\ priv.callback.command \notin AckOnly
      BY <1>1, <2>2 DEF SlotOK, SlotOfCommand, Armed
    <3>3. priv.callback.command \in Critical => f.byte \in Critical
      BY <3>2 DEF Byte, Critical
    <3>4. f.byte \in Critical => f.good
      BY <1>9 DEF Rejected
    <3>5. RightFrame(f, priv.callback.command)
      BY <1>9, <3>2, <3>3, <3>4 DEF RightFrame, Answers
    <3> QED BY <1>4, <3>1, <3>5
  <2> QED BY <2>1, <2>2
<1>10. CASE ReceiveTls(f) /\ f.type = "tls"
  <2>1. CASE Ignore
    BY <1>5, <2>1
  <2>2. CASE /\ ReceiveDone("ok", f, <<>>)
             /\ \/ priv.cmd \in {"image", "requestTls"}
                \/ priv.reply /\ priv.callback # NoWaiter /\ priv.cmd = "zero"
    <3>1. ASSUME Armed
          PROVE  priv.callback.command \in {"requestTls", "image", "tlsRead"}
      <4>1. /\ priv.cmd = Byte(priv.callback.command)
            /\ priv.callback.command \in AllCommands
            /\ priv.reply => priv.callback.command \notin AckOnly
        BY <1>1, <3>1, WaiterFacts, CommandAssumption
           DEF SlotOK, SlotOfCommand, Private
      <4> QED BY <2>2, <4>1 DEF Byte, AckOnly, AllCommands
    <3>2. Armed => RightFrame(f, priv.callback.command)
      BY <1>10, <3>1 DEF RightFrame, Answers
    <3> QED BY <1>4, <2>2, <3>2
  <2> QED BY <1>10, <2>1, <2>2 DEF ReceiveTls
<1>11. \/ Junk(f)
       \/ BadFrame(f)
       \/ ReceiveAck(f) /\ f.type = "ack"
       \/ ReceiveReply(f) /\ f.type = "reply" /\ ~Rejected(f)
       \/ ReceiveTls(f) /\ f.type = "tls"
  BY <1>3 DEF Dispatch, f, Rejected
<1> QED BY <1>6, <1>7, <1>8, <1>9, <1>10, <1>11

LEMMA DispatchSteps ==
  ASSUME CommandInv, Dispatch
  PROVE  CommandInv'
<1>1. UNCHANGED <<told, isOpen, nested>>
  BY DEF Dispatch
<1>2. /\ told \in Told /\ isOpen \in BOOLEAN /\ nested \in 0..MaxNested /\ ClosedIsQuiet
  BY DEF CommandInv
<1>3. SlotOK' /\ CallsOK(priv'.callback, calls', told) /\ (Quiet' \/ Armed \/ UNCHANGED priv)
  BY DispatchEnds
<1> QED BY <1>1, <1>2, <1>3 DEF CommandInv, ClosedIsQuiet, Quiet, Armed

LEMMA CallbackSteps ==
  ASSUME CommandInv, Callback
  PROVE  CommandInv'
<1>1. /\ SlotOK /\ CallsOK(priv.callback, calls, told) /\ told \in Told
      /\ isOpen \in BOOLEAN /\ nested \in 0..MaxNested /\ ClosedIsQuiet
      /\ calls \in Seq(Call) /\ Once(priv.callback, calls, told) /\ Sound(calls)
      /\ priv.callback \in Waiter \cup {NoWaiter}
  BY DEF CommandInv, CallsOK, SlotOK, Private
<1>2. ASSUME calls # <<>>, Head(calls).running
      PROVE  CallsOK(priv.callback, Tail(calls), told)
  BY <1>1, <1>2, DropRun, DropCall, SoundStack DEF CallsOK
<1>3. CASE CallbackTold
  <2> DEFINE c == [Head(calls) EXCEPT !.running = TRUE]
             o == Tolerated(Head(calls))
  <2>1. /\ calls # <<>> /\ ~Head(calls).running
        /\ told' = [told EXCEPT ![Head(calls).waiter.caller] = o]
        /\ calls' = <<c>> \o Tail(calls)
        /\ UNCHANGED <<priv, sources, buffer, isOpen, nested>>
    BY <1>3 DEF CallbackTold
  <2>2. Head(calls) \in Call /\ Tail(calls) \in Seq(Call)
    BY <1>1, <2>1, DropCall
  <2>3. /\ c \in Call /\ c.running /\ c.waiter = Head(calls).waiter
        /\ c.outcome = Head(calls).outcome /\ c.frame = Head(calls).frame
    BY <2>2 DEF Call
  <2>4. o \in Outcomes /\ o # "waiting"
    BY <2>2 DEF Call, Tolerated, Outcomes
  <2>5. told' \in Told
    BY <1>1, <2>1, <2>4 DEF Told
  <2>6. Once(priv.callback, calls', told')
    <3> HIDE DEF c, o
    <3> QED BY <1>1, <2>1, <2>3, <2>4, MoveToTold
  <2>7. calls' \in Seq(Call) /\ Sound(calls')
    <3>1. SoundCall(c) /\ Sound(Tail(calls))
      BY <1>1, <2>1, <2>3, SoundStack DEF SoundCall
    <3> HIDE DEF c
    <3> QED BY <2>1, <2>2, <2>3, <3>1, PushCall, SoundStack
  <2>8. SlotOK'
    BY <1>1, <2>1, SlotUnchanged DEF SlotOK
  <2> QED BY <1>1, <2>1, <2>5, <2>6, <2>7, <2>8 DEF CommandInv, CallsOK, ClosedIsQuiet, Armed
<1>4. ASSUME NEW w \in Callers, NEW c \in Commands, CallbackSends(w, c)
      PROVE  CommandInv'
  <2>1. /\ calls # <<>> /\ Head(calls).running /\ Request(w, c, Tail(calls)) /\ isOpen
        /\ nested < MaxNested /\ nested' = nested + 1 /\ UNCHANGED isOpen
    BY <1>4 DEF CallbackSends, Request
  <2>2. SlotOK' /\ told' \in Told /\ CallsOK(priv'.callback, calls', told')
    BY <1>1, <1>2, <2>1, RequestWaits
  <2>3. nested' \in 0..MaxNested
    BY <1>1, <2>1, CommandAssumption
  <2> QED BY <1>1, <2>1, <2>2, <2>3 DEF CommandInv, ClosedIsQuiet
<1>5. CASE CallbackReturns
  <2>1. /\ calls # <<>> /\ Head(calls).running /\ calls' = Tail(calls)
        /\ UNCHANGED <<priv, sources, buffer, told, isOpen>>
        /\ nested' \in {0, nested}
    BY <1>5 DEF CallbackReturns
  <2>2. SlotOK'
    BY <1>1, <2>1, SlotUnchanged DEF SlotOK
  <2>3. nested' \in 0..MaxNested
    BY <1>1, <2>1, CommandAssumption
  <2> QED BY <1>1, <1>2, <2>1, <2>2, <2>3 DEF CommandInv, ClosedIsQuiet, Armed
<1> QED BY <1>3, <1>4, <1>5 DEF Callback

------------------------------------------------------------------------------
(* The contract: what a caller waits for moves with its waiter.            *)

(* The command w waits for, in the slot x or on the stack cs.              *)
PendingOf(x, cs, w) ==
  IF Holds(x, w) THEN x.command
  ELSE IF ~NoUntold(cs, w) THEN cs[CHOOSE i \in UntoldIn(cs, w) : TRUE].waiter.command
  ELSE "none"

LEMMA PendingHere == Pending = [w \in Callers |-> PendingOf(priv.callback, calls, w)]
  BY DEF Pending, PendingOf, Holds, InSlot, NoUntold, UntoldIn, Untold

LEMMA TheUntold ==
  ASSUME NEW cs, NEW w, OneUntold(cs, w), NEW i \in UntoldIn(cs, w), NEW x, ~Holds(x, w)
  PROVE  PendingOf(x, cs, w) = cs[i].waiter.command
<1>1. (CHOOSE j \in UntoldIn(cs, w) : TRUE) = i /\ ~NoUntold(cs, w)
  BY DEF OneUntold, NoUntold
<1> QED BY <1>1 DEF PendingOf

LEMMA PushPending ==
  ASSUME NEW c \in Call, NEW cs \in Seq(Call), NEW w, OneUntold(cs, w), NEW x
  PROVE  /\ c.running \/ c.waiter.caller # w =>
              PendingOf(x, <<c>> \o cs, w) = PendingOf(x, cs, w)
         /\ ~c.running /\ c.waiter.caller = w /\ NoUntold(cs, w) /\ ~Holds(x, w) =>
              PendingOf(x, <<c>> \o cs, w) = c.waiter.command
<1> DEFINE s == <<c>> \o cs
<1>1. s[1] = c /\ \A i \in 1..Len(cs) : s[i + 1] = cs[i]
  BY PushCall
<1>2. UntoldIn(s, w) = {i + 1 : i \in UntoldIn(cs, w)}
                         \cup (IF ~c.running /\ c.waiter.caller = w THEN {1} ELSE {})
  BY PushUntold
<1>3. /\ (c.running \/ c.waiter.caller # w) =>
           (NoUntold(s, w) <=> NoUntold(cs, w)) /\ (OneUntold(s, w) <=> OneUntold(cs, w))
      /\ ~c.running /\ c.waiter.caller = w /\ NoUntold(cs, w) => OneUntold(s, w)
  BY TopUntold
<1> HIDE DEF s
<1>4. ASSUME c.running \/ c.waiter.caller # w
      PROVE  PendingOf(x, s, w) = PendingOf(x, cs, w)
  <2>1. CASE Holds(x, w) \/ NoUntold(cs, w)
    BY <1>3, <1>4, <2>1 DEF PendingOf
  <2>2. CASE ~Holds(x, w) /\ ~NoUntold(cs, w)
    <3>1. PICK i \in UntoldIn(cs, w) : TRUE
      BY <2>2 DEF NoUntold
    <3>2. i + 1 \in UntoldIn(s, w) /\ s[i + 1] = cs[i]
      BY <1>1, <1>2, <3>1 DEF UntoldIn
    <3>3. OneUntold(s, w)
      BY <1>3, <1>4
    <3> QED BY <2>2, <3>1, <3>2, <3>3, TheUntold
  <2> QED BY <2>1, <2>2
<1>5. ASSUME ~c.running, c.waiter.caller = w, NoUntold(cs, w), ~Holds(x, w)
      PROVE  PendingOf(x, s, w) = c.waiter.command
  <2>1. 1 \in UntoldIn(s, w) /\ OneUntold(s, w)
    BY <1>2, <1>3, <1>5
  <2> QED BY <1>1, <1>5, <2>1, TheUntold
<1> QED BY <1>4, <1>5 DEF s

(* From the slot to the stack a waiter waits for the same.                 *)
LEMMA StackedPending ==
  ASSUME NEW x \in Waiter, x # NoWaiter, NEW cs, NEW td, CallsOK(x, cs, td),
         NEW outcome \in Outcomes, NEW frame \in Frames \cup {NoFrame}, NEW w \in Callers
  PROVE  PendingOf(NoWaiter, <<CallOf(x, outcome, frame)>> \o cs, w) = PendingOf(x, cs, w)
<1> DEFINE c == CallOf(x, outcome, frame)
<1>1. c \in Call /\ ~c.running /\ c.waiter = x /\ ~Holds(NoWaiter, w)
  BY DEF CallOf, Call, Holds
<1>2. cs \in Seq(Call) /\ OneUntold(cs, w) /\ (Holds(x, w) => NoUntold(cs, w))
  BY DEF CallsOK, Once
<1> HIDE DEF c
<1> SUFFICES PendingOf(NoWaiter, <<c>> \o cs, w) = PendingOf(x, cs, w)
  BY DEF c
<1>3. CASE x.caller = w
  <2>1. PendingOf(NoWaiter, <<c>> \o cs, w) = x.command
    BY <1>1, <1>2, <1>3, PushPending DEF Holds
  <2>2. PendingOf(x, cs, w) = x.command
    BY <1>3 DEF PendingOf, Holds
  <2> QED BY <2>1, <2>2
<1>4. CASE x.caller # w
  <2>1. PendingOf(NoWaiter, <<c>> \o cs, w) = PendingOf(NoWaiter, cs, w)
    BY <1>1, <1>2, <1>4, PushPending
  <2>2. PendingOf(x, cs, w) = PendingOf(NoWaiter, cs, w)
    BY <1>4 DEF PendingOf, Holds
  <2> QED BY <2>1, <2>2
<1> QED BY <1>3, <1>4

LEMMA DonePending ==
  ASSUME SlotOK, NEW then, NEW td, CallsOK(priv.callback, then, td),
         NEW outcome \in Outcomes, NEW frame \in Frames \cup {NoFrame},
         ReceiveDone(outcome, frame, then),
         NEW w \in Callers
  PROVE  PendingOf(priv'.callback, calls', w) = PendingOf(priv.callback, then, w)
<1>1. CASE Armed
  <2>1. /\ priv' = Cleared /\ priv.callback # NoWaiter
        /\ calls' = <<CallOf(priv.callback, outcome, frame)>> \o then
    BY <1>1 DEF ReceiveDone, ClearSlot, SlotOK, SlotOfCommand
  <2>2. priv.callback \in Waiter /\ priv'.callback = NoWaiter
    BY <2>1 DEF SlotOK, Private, Cleared
  <2> QED BY <2>1, <2>2, StackedPending
<1>2. CASE ~Armed
  BY <1>2 DEF ReceiveDone
<1> QED BY <1>1, <1>2

(* A request is what its caller waits for from then on.                    *)
LEMMA RequestPending ==
  ASSUME SlotOK, told \in Told, NEW then, CallsOK(priv.callback, then, told),
         NEW w \in Callers, NEW c \in Commands, Request(w, c, then), NEW v \in Callers
  PROVE  PendingOf(priv'.callback, calls', v) =
           IF v = w THEN c ELSE PendingOf(priv.callback, then, v)
<1> DEFINE x == [caller |-> w, command |-> c]
<1>1. /\ told' = [told EXCEPT ![w] = "waiting"] /\ told[w] # "waiting"
      /\ then \in Seq(Call) /\ OneUntold(then, v) /\ NoUntold(then, w)
      /\ ~Holds(priv.callback, w)
  BY DEF Request, CallsOK, Once
<1>2. x \in Waiter /\ x # NoWaiter /\ x.caller = w /\ x.command = c
  BY WaiterFacts
<1> HIDE DEF x
<1>3. ASSUME NEW outcome \in {"busy", "sendFailed"}
      PROVE  PendingOf(priv.callback, <<CallOf(x, outcome, NoFrame)>> \o then, v) =
               IF v = w THEN c ELSE PendingOf(priv.callback, then, v)
  <2> DEFINE call == CallOf(x, outcome, NoFrame)
  <2>1. call \in Call /\ ~call.running /\ call.waiter = x
    BY <1>2, <1>3 DEF CallOf, Call, Outcomes
  <2> HIDE DEF call
  <2>2. PendingOf(priv.callback, <<call>> \o then, v) =
          IF v = w THEN c ELSE PendingOf(priv.callback, then, v)
    BY <1>1, <1>2, <2>1, PushPending
  <2> QED BY <2>2 DEF call
<1>4. CASE Collide(w, c, then)
  <2> DEFINE then2 == <<CallOf(x, "busy", NoFrame)>> \o then
  <2>1. ReceiveDone("busy", NoFrame, then2)
    BY <1>4 DEF Collide, x
  <2>2. CallsOK(priv.callback, then2, told')
    BY <1>1, <1>2, RefusedWaits
  <2>3. PendingOf(priv.callback, then2, v) =
          IF v = w THEN c ELSE PendingOf(priv.callback, then, v)
    BY <1>3
  <2> HIDE DEF then2
  <2>4. PendingOf(priv'.callback, calls', v) = PendingOf(priv.callback, then2, v)
    BY <2>1, <2>2, DonePending DEF Outcomes
  <2> QED BY <2>3, <2>4
<1>5. CASE SendFails(w, c, then)
  <2>1. priv.callback = NoWaiter /\ priv'.callback = NoWaiter
    BY <1>5, FreeSlot DEF SendFails, ClearSlot, Cleared, Quiet, SlotOK, Private
  <2>2. calls' = <<CallOf(x, "sendFailed", NoFrame)>> \o then
    BY <1>5 DEF SendFails, x
  <2> QED BY <1>3, <2>1, <2>2
<1>6. CASE Arm(w, c, then) \/ ReadTls(w, c, then)
  <2>1. priv.callback = NoWaiter /\ calls' = then /\ priv'.callback = x
    BY <1>6, FreeSlot DEF Arm, ReadTls, Quiet, SlotOK, Private, x
  <2> QED BY <1>1, <1>2, <2>1 DEF PendingOf, Holds
<1> QED BY <1>4, <1>5, <1>6 DEF Request, SendProtocol

(* A frame of the device ends the command of the slot, or moves no waiter. *)
LEMMA DispatchMoves ==
  ASSUME CommandInv, Dispatch
  PROVE  \/ \E outcome \in Outcomes, frame \in Frames : ReceiveDone(outcome, frame, <<>>)
         \/ priv'.callback = priv.callback /\ calls' = calls
<1> DEFINE f == Head(buffer)
<1>1. f \in AllFrames /\ f \in Frames /\ priv \in Private
  BY CommandAssumption DEF Dispatch, CommandInv, SlotOK
<1> HIDE DEF f
<1>2. f.type \in {"junk", "ack", "reply", "tls"}
  <2>1. CASE f \in Protocol
    BY <2>1 DEF Protocol
  <2>2. CASE f \in TlsFrames
    BY <2>2 DEF TlsFrames
  <2>3. CASE f = JunkFrame
    BY <2>3 DEF JunkFrame
  <2> QED BY <1>1, <2>1, <2>2, <2>3 DEF AllFrames
<1>3. Junk(f) \/ BadFrame(f) \/ ReceiveAck(f) \/ ReceiveReply(f) \/ ReceiveTls(f)
  BY <1>2 DEF Dispatch, f, Rejected
<1>4. \/ \E outcome \in {"ok", "corrupt"} : ReceiveDone(outcome, f, <<>>)
      \/ priv' \in {priv, [priv EXCEPT !.ack = FALSE]} /\ calls' = calls
  BY <1>3 DEF Junk, BadFrame, ReceiveAck, ReceiveReply, ReceiveTls, Ignore
<1> QED BY <1>1, <1>4 DEF Outcomes, Private

LEMMA PromiseStep ==
  ASSUME CommandInv, [Next]_vars
  PROVE  [Promise!Next]_(Promise!vars)
<1>1. /\ SlotOK /\ CallsOK(priv.callback, calls, told) /\ told \in Told
      /\ calls \in Seq(Call) /\ Once(priv.callback, calls, told)
      /\ priv.callback \in Waiter \cup {NoWaiter}
  BY DEF CommandInv, CallsOK, SlotOK, Private
<1>2. /\ Pending = [w \in Callers |-> PendingOf(priv.callback, calls, w)]
      /\ Pending' = [w \in Callers |-> PendingOf(priv'.callback, calls', w)]
  BY PendingHere DEF Pending, PendingOf, Holds, InSlot, NoUntold, UntoldIn, Untold
<1>3. ASSUME \A w \in Callers :
               PendingOf(priv'.callback, calls', w) = PendingOf(priv.callback, calls, w),
             UNCHANGED told
      PROVE  [Promise!Next]_(Promise!vars)
  BY <1>2, <1>3 DEF Promise!vars
<1>4. ASSUME NEW w \in Callers, NEW c \in Commands, NEW then, Request(w, c, then),
             CallsOK(priv.callback, then, told),
             \A v \in Callers :
               PendingOf(priv.callback, then, v) = PendingOf(priv.callback, calls, v)
      PROVE  [Promise!Next]_(Promise!vars)
  <2>1. told[w] # "waiting" /\ told' = [told EXCEPT ![w] = "waiting"]
    BY <1>4 DEF Request
  <2>2. Pending[w] = "none"
    BY <1>1, <1>2, <2>1 DEF Once, PendingOf
  <2>3. \A v \in Callers : PendingOf(priv'.callback, calls', v) =
                             IF v = w THEN c ELSE PendingOf(priv.callback, calls, v)
    BY <1>1, <1>4, RequestPending
  <2>4. Pending' = [Pending EXCEPT ![w] = c]
    BY <1>2, <2>3
  <2>5. Promise!Issue(w, c)
    BY <2>1, <2>2, <2>4 DEF Promise!Issue
  <2> QED BY <2>5 DEF Promise!Next
<1>5. ASSUME NEW outcome \in Outcomes, priv.callback # NoWaiter,
             calls = <<>>, calls' = <<CallOf(priv.callback, outcome, NoFrame)>>,
             priv'.callback = NoWaiter, UNCHANGED told
      PROVE  [Promise!Next]_(Promise!vars)
  <2> DEFINE x == priv.callback
  <2>1. x \in Waiter /\ x # NoWaiter /\ CallsOK(x, calls, told)
    BY <1>1, <1>5
  <2>2. calls' = <<CallOf(x, outcome, NoFrame)>> \o calls
    BY <1>5, NoStack
  <2> HIDE DEF x
  <2>3. ASSUME NEW v \in Callers
        PROVE  PendingOf(NoWaiter, <<CallOf(x, outcome, NoFrame)>> \o calls, v)
                 = PendingOf(x, calls, v)
    BY <2>1, StackedPending
  <2> QED BY <1>3, <1>5, <2>2, <2>3 DEF x
<1>6. CASE User
  <2>1. ASSUME NEW w \in Callers, NEW c \in Commands, Issue(w, c)
        PROVE  [Promise!Next]_(Promise!vars)
    <3>1. calls = <<>> /\ Request(w, c, calls)
      BY <2>1 DEF Issue, MainLoop
    <3> QED BY <1>1, <1>4, <3>1
  <2>2. CASE ResetState \/ DevDeinit
    <3>1. /\ calls = <<>> /\ UNCHANGED told /\ priv'.callback = NoWaiter
          /\ calls' = IF priv.callback = NoWaiter THEN <<>>
                      ELSE <<CallOf(priv.callback, "cancelled", NoFrame)>>
      BY <1>1, <2>2
         DEF ResetState, DevDeinit, MainLoop, ClearSlot, Cleared, SlotOK, Private
    <3>2. CASE priv.callback = NoWaiter
      BY <1>3, <3>1, <3>2
    <3>3. CASE priv.callback # NoWaiter
      BY <1>5, <3>1, <3>3 DEF Outcomes
    <3> QED BY <3>2, <3>3
  <2>3. CASE StartReadLoop \/ StopReadLoop \/ DevInit
    <3>1. priv'.callback = priv.callback
      BY <1>1, <2>3 DEF StartReadLoop, StopReadLoop, DevInit, CommandInv, ClosedIsQuiet,
                        SlotOK, Private
    <3> QED BY <1>3, <2>3, <3>1 DEF StartReadLoop, StopReadLoop, DevInit
  <2> QED BY <1>6, <2>1, <2>2, <2>3 DEF User
<1>7. CASE Timeout
  <2>1. Armed /\ priv.callback # NoWaiter
    BY <1>1, <1>7 DEF Timeout, SlotOK, TimerOfCommand, SlotOfCommand
  <2>2. /\ calls = <<>> /\ UNCHANGED told /\ priv'.callback = NoWaiter
        /\ calls' = <<CallOf(priv.callback, "timedOut", NoFrame)>>
    BY <1>1, <1>7, <2>1 DEF Timeout, Cleared, SlotOK, Private
  <2> QED BY <1>5, <2>1, <2>2 DEF Outcomes
<1>8. CASE Dispatch
  <2>1. calls = <<>> /\ UNCHANGED told
    BY <1>8 DEF Dispatch
  <2>2. CASE \E outcome \in Outcomes, frame \in Frames : ReceiveDone(outcome, frame, <<>>)
    BY <1>1, <1>3, <2>1, <2>2, DonePending
  <2>3. CASE priv'.callback = priv.callback /\ calls' = calls
    BY <1>3, <2>1, <2>3
  <2> QED BY <1>8, <2>2, <2>3, DispatchMoves
<1>9. CASE CallbackTold
  <2> DEFINE h == Head(calls)
             u == h.waiter.caller
             c == [h EXCEPT !.running = TRUE]
             o == Tolerated(h)
  <2>1. /\ calls # <<>> /\ ~h.running /\ told' = [told EXCEPT ![u] = o]
        /\ calls' = <<c>> \o Tail(calls) /\ priv' = priv
    BY <1>9 DEF CallbackTold
  <2>2. h \in Call /\ Tail(calls) \in Seq(Call) /\ calls = <<h>> \o Tail(calls)
    BY <1>1, <2>1, DropCall, HeadOnTail
  <2>3. c \in Call /\ c.running
    BY <2>2 DEF Call
  <2>4. o \in Outcomes /\ u \in Callers /\ h.waiter.command # "none" /\ o # "waiting"
    BY <2>2, WaiterFacts, CommandAssumption
       DEF Call, Waiter, Tolerated, Outcomes, AllCommands
  <2> HIDE DEF h, c, o, u
  <2>5. \A w \in Callers : OneUntold(calls, w) /\ OneUntold(Tail(calls), w)
    <3>1. \A w \in Callers : OneUntold(calls, w)
      BY <1>1 DEF Once
    <3>2. ASSUME NEW w \in Callers
          PROVE  OneUntold(Tail(calls), w)
      <4>1. UntoldIn(calls, w) =
              {i + 1 : i \in UntoldIn(Tail(calls), w)}
                \cup (IF ~h.running /\ h.waiter.caller = w THEN {1} ELSE {})
        <5>1. UntoldIn(<<h>> \o Tail(calls), w) =
                {i + 1 : i \in UntoldIn(Tail(calls), w)}
                  \cup (IF ~h.running /\ h.waiter.caller = w THEN {1} ELSE {})
          BY <2>2, PushUntold
        <5> QED BY <2>2, <5>1
      <4>2. UntoldIn(Tail(calls), w) \subseteq Nat
        BY <2>2 DEF UntoldIn
      <4>3. ASSUME NEW i \in UntoldIn(Tail(calls), w), NEW j \in UntoldIn(Tail(calls), w)
            PROVE  i = j
        <5>1. i + 1 \in UntoldIn(calls, w) /\ j + 1 \in UntoldIn(calls, w)
          BY <4>1
        <5>2. i + 1 = j + 1
          BY <3>1, <5>1 DEF OneUntold
        <5> QED BY <4>2, <5>2
      <4> QED BY <4>3 DEF OneUntold
    <3> QED BY <3>1, <3>2
  <2>6. ASSUME NEW w \in Callers, w # u
        PROVE  PendingOf(priv'.callback, calls', w) = PendingOf(priv.callback, calls, w)
    <3>1. h.waiter.caller # w
      BY <2>6 DEF u
    <3>2. PendingOf(priv.callback, <<c>> \o Tail(calls), w)
            = PendingOf(priv.callback, Tail(calls), w)
      BY <2>2, <2>3, <2>5, PushPending
    <3>3. PendingOf(priv.callback, <<h>> \o Tail(calls), w)
            = PendingOf(priv.callback, Tail(calls), w)
      BY <2>2, <2>5, <3>1, PushPending
    <3> QED BY <2>1, <2>2, <3>2, <3>3
  <2>7. told[u] = "waiting" /\ Pending[u] # "none"
    <3>1. 1 \in UntoldIn(calls, u)
      BY <2>1, <2>2, <2>4, PushUntold DEF u
    <3>2. told[u] = "waiting" /\ ~Holds(priv.callback, u)
      BY <1>1, <2>4, <3>1 DEF Once, NoUntold
    <3>3. PendingOf(priv.callback, calls, u) = calls[1].waiter.command
      BY <2>4, <2>5, <3>1, <3>2, TheUntold
    <3>4. calls[1] = h
      BY <1>1, <2>1, DropCall DEF h
    <3> QED BY <1>2, <2>4, <3>2, <3>3, <3>4
  <2>8. PendingOf(priv'.callback, calls', u) = "none"
    <3>1. Once(priv.callback, calls', told')
      BY <1>1, <2>1, <2>3, <2>4, MoveToTold DEF h, u
    <3>2. told'[u] = o
      BY <1>1, <2>1, <2>4 DEF Told
    <3> QED BY <2>1, <2>4, <3>1, <3>2 DEF Once, PendingOf
  <2>9. Pending' = [Pending EXCEPT ![u] = "none"]
    BY <1>2, <2>4, <2>6, <2>8
  <2>10. Promise!Tell(u, o)
    BY <2>1, <2>7, <2>9 DEF Promise!Tell
  <2> QED BY <2>4, <2>10 DEF Promise!Next
<1>10. ASSUME calls # <<>>, Head(calls).running
      PROVE  /\ CallsOK(priv.callback, Tail(calls), told)
             /\ \A v \in Callers : PendingOf(priv.callback, Tail(calls), v)
                                      = PendingOf(priv.callback, calls, v)
  <2>1. CallsOK(priv.callback, Tail(calls), told)
    BY <1>1, <1>10, DropRun, DropCall, SoundStack DEF CallsOK
  <2>2. Head(calls) \in Call /\ calls = <<Head(calls)>> \o Tail(calls)
    BY <1>1, <1>10, DropCall, HeadOnTail
  <2>3. ASSUME NEW v \in Callers
        PROVE  PendingOf(priv.callback, <<Head(calls)>> \o Tail(calls), v)
                 = PendingOf(priv.callback, Tail(calls), v)
    BY <1>10, <2>1, <2>2, PushPending DEF CallsOK, Once
  <2> QED BY <2>1, <2>2, <2>3
<1>11. ASSUME NEW w \in Callers, NEW c \in Commands, CallbackSends(w, c)
       PROVE  [Promise!Next]_(Promise!vars)
  BY <1>4, <1>10, <1>11 DEF CallbackSends
<1>12. CASE CallbackReturns
  BY <1>3, <1>10, <1>12 DEF CallbackReturns
<1>13. CASE (\E batch \in Batches : Receive(batch)) \/ UNCHANGED vars
  <2>1. UNCHANGED <<priv, calls, told>>
    BY <1>13 DEF Receive, vars
  <2> QED BY <1>3, <2>1
<1> QED BY <1>6, <1>7, <1>8, <1>9, <1>11, <1>12, <1>13 DEF Next, Callback

------------------------------------------------------------------------------
(* The theorems.                                                           *)

LEMMA InitInv == Init => CommandInv
<1> SUFFICES ASSUME Init
             PROVE  CommandInv
  OBVIOUS
<1>1. priv \in Private /\ priv.callback = NoWaiter /\ Quiet /\ ~Armed
  BY WaiterFacts DEF Init, Private, Quiet, Armed
<1>2. SlotOK
  BY <1>1 DEF Init, SlotOK, TimerOfCommand, SlotOfCommand, Quiet, Armed
<1>3. CallsOK(priv.callback, calls, told)
  BY <1>1 DEF Init, CallsOK, Once, Holds, NoUntold, OneUntold, UntoldIn, Sound
<1>4. told \in Told
  BY DEF Init, Told
<1>5. isOpen \in BOOLEAN
  BY DEF Init
<1>6. nested \in 0..MaxNested
  <2>1. nested = 0 /\ MaxNested \in Nat
    BY CommandAssumption DEF Init
  <2> QED BY <2>1
<1> QED BY <1>1, <1>2, <1>3, <1>4, <1>5, <1>6 DEF CommandInv, ClosedIsQuiet, Quiet

LEMMA StepInv == CommandInv /\ [Next]_vars => CommandInv'
<1> SUFFICES ASSUME CommandInv, [Next]_vars
             PROVE  CommandInv'
  OBVIOUS
<1>1. CASE UNCHANGED vars
  BY <1>1 DEF vars, CommandInv, SlotOK, CallsOK, TimerOfCommand, SlotOfCommand, ClosedIsQuiet,
              Armed
<1> QED BY <1>1, UserSteps, ReceiveSteps, TimeoutSteps, DispatchSteps, CallbackSteps DEF Next

(* The slot of goodix.c, its timer, the stack of its callbacks and what    *)
(* their callers wait for stay together, whatever is sent and received.    *)
THEOREM CommandHolds == Spec => []CommandInv
  BY InitInv, StepInv, PTL DEF Spec

(* The types of the variables of the transport.                            *)
THEOREM CommandTypes == Spec => []TypeOK
<1>1. CommandInv => TypeOK
  BY DEF CommandInv, SlotOK, CallsOK, Told, TypeOK
<1> QED BY <1>1, CommandHolds, PTL

(* A timer of goodix_send_protocol or goodix_read_tls never outlives its   *)
(* command.                                                                *)
THEOREM TimersHold == Spec => []TimerOfCommand
<1>1. CommandInv => TimerOfCommand
  BY DEF CommandInv, SlotOK
<1> QED BY <1>1, CommandHolds, PTL

(* The slot holds a callback exactly while it waits for an ACK or a reply, *)
(* under the command byte goodix_send_protocol was given with it.          *)
THEOREM SlotsHold == Spec => []SlotOfCommand
<1>1. CommandInv => SlotOfCommand
  BY DEF CommandInv, SlotOK
<1> QED BY <1>1, CommandHolds, PTL

(* Through goodix_receive_done, goodix_reset_state and the collisions of   *)
(* goodix_send_protocol, no callback is lost and none is called twice.     *)
THEOREM EveryCallerTold == Spec => []ToldOnce
<1>1. CommandInv => ToldOnce
  BY DEF CommandInv, CallsOK, Once, ToldOnce, Holds, InSlot, NoUntold, OneUntold, UntoldIn,
         Untold
<1> QED BY <1>1, CommandHolds, PTL

(* goodix_receive_pack, goodix_receive_protocol and goodix_receive_ack end *)
(* a command with success only on a frame that answers it, and a safety-   *)
(* critical one on no reply with a wrong checksum.  Of an ACK and of a TLS *)
(* pack the code does not see to it.                                       *)
THEOREM RepliesChecked == Spec => []RightAnswer
<1>1. CommandInv => RightAnswer
  BY DEF CommandInv, CallsOK, Sound, SoundCall, RightFrame, RightAnswer
<1> QED BY <1>1, CommandHolds, PTL

(* goodix_dev_deinit leaves nothing for goodix_dev_init to forget.         *)
THEOREM ClosedQuiet == Spec => []ClosedIsQuiet
<1>1. CommandInv => ClosedIsQuiet
  BY DEF CommandInv
<1> QED BY <1>1, CommandHolds, PTL

(* The transport keeps what CommandContract promises a caller of           *)
(* goodix_send_protocol and goodix_read_tls: told once for each command,   *)
(* and for no other.                                                       *)
THEOREM PromiseKept == Spec => Promise!SafetySpec
<1>1. Init => Promise!Init
  <2> SUFFICES ASSUME Init PROVE Promise!Init
    OBVIOUS
  <2>1. \A w \in Callers : PendingOf(priv.callback, calls, w) = "none"
    <3>1. \A w : UntoldIn(<<>>, w) = {}
      BY DEF UntoldIn
    <3>2. priv.callback = NoWaiter /\ calls = <<>>
      BY DEF Init
    <3> QED BY <3>1, <3>2 DEF PendingOf, Holds, NoUntold
  <2> QED BY <2>1, PendingHere DEF Init, Promise!Init
<1>2. CommandInv /\ [Next]_vars => [Promise!Next]_(Promise!vars)
  BY PromiseStep
<1> QED BY <1>1, <1>2, CommandHolds, PTL DEF Spec, Promise!SafetySpec
==============================================================================
