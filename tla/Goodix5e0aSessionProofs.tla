----------------------- MODULE Goodix5e0aSessionProofs -----------------------
(***************************************************************************)
(* What holds of a session whichever waiters a client cancels and whatever *)
(* the environment does: the types, and the inductive invariant with what  *)
(* follows from it.                                                        *)
(***************************************************************************)
EXTENDS Goodix5e0aSession, TLAPS

(* Every operator on the driver's record returns one.                      *)

LEMMA SlotTypes ==
  ASSUME NEW d \in Driver
  PROVE  /\ ClearSlot(d) \in Driver
         /\ \A w \in Waiters, g \in Gens : Send(d, w, g) \in Driver
         /\ Bump(d) \in Driver
         /\ Report(d) \in Driver
         /\ ShutdownTls(d) \in Driver
         /\ Distrust(d) \in Driver
<1>1. ClearSlot(d) \in Driver
  BY DEF ClearSlot, Driver, Gens
<1>2. \A w \in Waiters, g \in Gens : Send(d, w, g) \in Driver
  BY DEF Send, Driver
<1>3. Bump(d) \in Driver
  BY DEF Bump, Stale, Driver, Gens
<1>4. Report(d) \in Driver
  BY DEF Report, Driver
<1>5. ShutdownTls(d) \in Driver /\ Distrust(d) \in Driver
  BY DEF ShutdownTls, Distrust, Driver, Gens
<1> QED BY <1>1, <1>2, <1>3, <1>4, <1>5

LEMMA LadderTypes ==
  ASSUME NEW d \in Driver
  PROVE  /\ \A warm \in BOOLEAN : StartLadder(d, warm) \in Driver
         /\ ActivateFailed(d) \in Driver
         /\ TlsFailed(d) \in Driver
<1>1. ASSUME NEW c \in Driver, NEW warm \in BOOLEAN
      PROVE  StartLadder(c, warm) \in Driver
  <2>1. [c EXCEPT !.scan = FALSE, !.warm_attempted = warm, !.loop = TRUE] \in Driver
    BY DEF Driver
  <2>2. "nop" \in Waiters /\ "none" \in Gens
    BY DEF Waiters, Ladder, Gens
  <2> QED BY <2>1, <2>2, SlotTypes DEF StartLadder
<1>2. ASSUME NEW c \in Driver
      PROVE  [c EXCEPT !.warm_retried = TRUE] \in Driver /\ [c EXCEPT !.ready = "none"] \in Driver
  BY DEF Driver, Gens
<1>3. ActivateFailed(d) \in Driver
  BY <1>1, <1>2, SlotTypes DEF ActivateFailed
<1>4. TlsFailed(d) \in Driver
  BY <1>1, <1>2, SlotTypes DEF TlsFailed
<1> QED BY <1>1, <1>3, <1>4

LEMMA BringUpTypes ==
  ASSUME NEW d \in Driver, NEW serverUp \in BOOLEAN
  PROVE  /\ TlsReadyError(d) \in Driver
         /\ TlsReady(d) \in Driver
         /\ TlsInit(d, serverUp) \in Driver
         /\ ChipEnabled(d) \in Driver
         /\ \A timedOut \in BOOLEAN : ProbeFailed(d, timedOut) \in Driver
         /\ ScanFailed(d) \in Driver
<1>1. TlsReadyError(d) \in Driver
  <2>1. [d EXCEPT !.ready = "none"] \in Driver
    BY DEF Driver, Gens
  <2> QED BY <2>1, LadderTypes DEF TlsReadyError
<1>2. TlsReady(d) \in Driver
  <2>1. [d EXCEPT !.hop = "agreed", !.ready = "none"] \in Driver
    BY DEF Driver, Gens
  <2>2. {"enable", "config"} \subseteq Waiters /\ "current" \in Gens
    BY DEF Waiters, Gens
  <2> QED BY <2>1, <2>2, SlotTypes DEF TlsReady
<1>3. TlsInit(d, serverUp) \in Driver
  <2>1. /\ [d EXCEPT !.hop = "fresh", !.ready = "current"] \in Driver
        /\ [d EXCEPT !.hop = "none"] \in Driver
    BY DEF Driver, Gens
  <2>2. "tlsReq" \in Waiters /\ "none" \in Gens
    BY DEF Waiters, Handshake, Gens
  <2> QED BY <2>1, <2>2, SlotTypes, LadderTypes DEF TlsInit
<1>4. ChipEnabled(d) \in Driver
  <2> DEFINE c == [d EXCEPT !.warm_ok = TRUE, !.warmBoot = TRUE,
                            !.slept = @ \ {"warm"}, !.expired = @ \ {"warm"},
                            !.warm_attempted = FALSE]
  <2>1. c \in Driver
    BY DEF Driver
  <2>2. [c EXCEPT !.scan = TRUE] \in Driver
    BY <2>1 DEF Driver
  <2>3. "scan" \in Waiters /\ "none" \in Gens
    BY DEF Waiters, Gens
  <2> HIDE DEF c
  <2>4. ScanStart(c) \in Driver
    BY <2>1, <2>2, <2>3, SlotTypes DEF ScanStart
  <2> QED BY <2>4 DEF ChipEnabled, c
<1>5. ASSUME NEW timedOut \in BOOLEAN
      PROVE  ProbeFailed(d, timedOut) \in Driver
  <2> DEFINE c == ShutdownTls(d)
  <2>1. c \in Driver
    BY SlotTypes
  <2> HIDE DEF c
  <2>2. /\ [c EXCEPT !.warm_ok = FALSE] \in Driver
        /\ [c EXCEPT !.warm_ok = @ /\ "warm" \notin d.slept] \in Driver
    BY <2>1 DEF Driver
  <2> QED BY <2>1, <2>2, LadderTypes DEF ProbeFailed, c
<1>6. ScanFailed(d) \in Driver
  <2>1. [d EXCEPT !.scan = FALSE, !.clean_close = FALSE, !.warm_ok = FALSE] \in Driver
    BY DEF Driver
  <2> QED BY <2>1, SlotTypes DEF ScanFailed
<1> QED BY <1>1, <1>2, <1>3, <1>4, <1>5, <1>6

LEMMA FailedType ==
  ASSUME NEW d \in Driver, NEW w \in Waiters \cup {"none"}, NEW gen \in Gens,
         NEW serverUp \in BOOLEAN
  PROVE  Failed(d, w, gen, serverUp) \in Driver
  BY LadderTypes, BringUpTypes, SlotTypes
  DEF Failed, Waiters, Ladder, Handshake

LEMMA ResetType ==
  ASSUME NEW d \in Driver, NEW serverUp \in BOOLEAN
  PROVE  ResetState(d, serverUp) \in Driver
<1>1. d.slot \in Waiters \cup {"none"} /\ d.slotGen \in Gens
  BY DEF Driver
<1> QED BY <1>1, SlotTypes, FailedType DEF ResetState

LEMMA DeactivateType ==
  ASSUME NEW d \in Driver, NEW serverUp \in BOOLEAN
  PROVE  Deactivate(d, serverUp) \in Driver
<1> DEFINE torn == [Bump(d) EXCEPT !.scan = FALSE]
           idle == ResetState(torn, serverUp)
<1>1. torn \in Driver
  <2>1. \A c \in Driver : [c EXCEPT !.scan = FALSE] \in Driver
    BY DEF Driver
  <2> QED BY <2>1, SlotTypes
<1>2. idle \in Driver
  BY <1>1, ResetType
<1> HIDE DEF idle
<1>3. Park(idle) \in Driver
  BY <1>2 DEF Park, Driver, Gens
<1>4. Destroy(idle) \in Driver
  <2> DEFINE c == ShutdownTls(idle)
  <2>1. c \in Driver
    BY <1>2, SlotTypes
  <2> HIDE DEF c
  <2>2. [c EXCEPT !.loop = FALSE, !.parked = FALSE, !.clean_close = FALSE] \in Driver
    BY <2>1 DEF Driver
  <2> QED BY <2>2 DEF Destroy, c
<1> QED BY <1>3, <1>4 DEF Deactivate, idle

LEMMA ActivateType ==
  ASSUME NEW d \in Driver, NEW serverUp \in BOOLEAN
  PROVE  Activate(d, serverUp) \in Driver
<1>1. ASSUME NEW c \in Driver, NEW w \in Waiters, NEW gen \in Gens
      PROVE  SendFirst(c, w, gen, serverUp) \in Driver
  BY <1>1, SlotTypes, ResetType, FailedType DEF SendFirst
<1> DEFINE bumped == Bump(d)
           begun == [bumped EXCEPT !.warm_retried = FALSE, !.parked = FALSE]
           shut  == ShutdownTls(begun)
<1>2. bumped \in Driver
  BY SlotTypes
<1> HIDE DEF bumped
<1>3. begun \in Driver
  BY <1>2 DEF Driver
<1> HIDE DEF begun
<1>4. shut \in Driver
  BY <1>3, SlotTypes
<1> HIDE DEF shut
<1>5. [begun EXCEPT !.scan = FALSE, !.loop = TRUE] \in Driver
  BY <1>3 DEF Driver
<1>6. ASSUME NEW c \in Driver, NEW b \in BOOLEAN
      PROVE  [c EXCEPT !.scan = FALSE, !.loop = TRUE, !.warm_attempted = b,
                       !.warm_ok = b] \in Driver
  BY DEF Driver
<1>9. ASSUME NEW b \in BOOLEAN
      PROVE  [shut EXCEPT !.warm_ok = @ /\ ~b] \in Driver
  BY <1>4 DEF Driver
<1>10. ASSUME NEW c \in Driver
       PROVE  WarmFresh(c) \in BOOLEAN
  BY DEF WarmFresh
<1>7. {"probe", "nop"} \subseteq Waiters /\ {"current", "none"} \subseteq Gens
  BY DEF Waiters, Ladder, Gens
<1>8. (d.parked /\ "park" \in d.slept \cup d.expired) \in BOOLEAN
  OBVIOUS
<1> DEFINE anew == [shut EXCEPT !.warm_ok = @ /\ ~(d.parked /\ "park" \in d.slept \cup d.expired)]
           warm == WarmFresh(anew)
<1>11. anew \in Driver
  BY <1>8, <1>9
<1> HIDE DEF anew
<1>12. [anew EXCEPT !.scan = FALSE, !.loop = TRUE, !.warm_attempted = warm,
                    !.warm_ok = warm] \in Driver
  BY <1>6, <1>10, <1>11
<1> QED BY <1>1, <1>5, <1>7, <1>12 DEF Activate, bumped, begun, shut, anew

------------------------------------------------------------------------------
LEMMA InitType == Init => TypeOK
<1> SUFFICES ASSUME Init PROVE TypeOK
  OBVIOUS
<1>1. h \in Driver
  BY DEF Init, NewDriver, Driver, Gens
<1>2. sensor \in Sensor
  BY DEF Init, Wiped, Sensor
<1> QED BY <1>1, <1>2 DEF Init, TypeOK

LEMMA ClientTypes == TypeOK /\ (Client \/ Return) => TypeOK'
<1> SUFFICES ASSUME TypeOK, Client \/ Return PROVE TypeOK'
  OBVIOUS
<1>0. /\ h \in Driver /\ sensor \in Sensor /\ Wiped \in Sensor
      /\ {open, busy, used, suspending} \subseteq BOOLEAN
  BY DEF TypeOK, Wiped, Sensor
<1>1. ASSUME NEW replugged \in BOOLEAN, NEW claimed \in BOOLEAN, Open(replugged, claimed)
      PROVE  TypeOK'
  <2> DEFINE free == ClearSlot(h)
  <2>1. free \in Driver
    BY <1>0, SlotTypes
  <2> HIDE DEF free
  <2>2. \A a, b \in BOOLEAN : [free EXCEPT !.clean_close = a, !.warmBoot = b] \in Driver
    BY <2>1 DEF Driver
  <2> DEFINE reset == ~h.clean_close \/ replugged \/ "close" \in h.slept
             clean == free.clean_close /\ ~reset /\ claimed
             boot  == free.warmBoot /\ ~reset
  <2>3. clean \in BOOLEAN /\ boot \in BOOLEAN
    OBVIOUS
  <2>4. h' = [free EXCEPT !.clean_close = clean, !.warmBoot = boot]
    BY <1>1 DEF Open, free
  <2>5. h' \in Driver
    BY <2>2, <2>3, <2>4
  <2> QED BY <1>0, <1>1, <2>5 DEF Open, TypeOK
<1>2. ASSUME NEW released \in BOOLEAN, NEW serverUp \in BOOLEAN, Close(released, serverUp)
      PROVE  TypeOK'
  <2>1. ASSUME NEW c \in Driver
        PROVE  /\ [c EXCEPT !.scan = FALSE] \in Driver
               /\ [c EXCEPT !.loop = FALSE] \in Driver
               /\ [c EXCEPT !.clean_close = FALSE] \in Driver
               /\ [c EXCEPT !.slept = @ \ {"close"}] \in Driver
    BY DEF Driver
  <2>2. h' \in Driver
    BY <1>0, <1>2, <2>1, SlotTypes, ResetType, DeactivateType DEF Close
  <2> QED BY <1>0, <1>2, <2>2 DEF Close, TypeOK
<1>3. ASSUME NEW usable \in BOOLEAN, NEW serverUp \in BOOLEAN, Claim(usable, serverUp)
      PROVE  TypeOK'
  <2>1. [h EXCEPT !.reports = 0] \in Driver
    BY <1>0 DEF Driver
  <2>2. h' \in Driver
    BY <1>3, <2>1, SlotTypes, ActivateType DEF Claim
  <2> QED BY <1>0, <1>3, <2>2 DEF Claim, TypeOK
<1>4. ASSUME NEW serverUp \in BOOLEAN, Cancel(serverUp)
      PROVE  TypeOK'
  <2>1. h' \in Driver
    BY <1>0, <1>4, SlotTypes, DeactivateType DEF Cancel
  <2> QED BY <1>0, <1>4, <2>1 DEF Cancel, TypeOK
<1>5. CASE Return
  BY <1>0, <1>5 DEF Return, TypeOK
<1> QED BY <1>1, <1>2, <1>3, <1>4, <1>5 DEF Client

LEMMA SystemTypes == TypeOK /\ System => TypeOK'
<1> SUFFICES ASSUME TypeOK, System PROVE TypeOK'
  OBVIOUS
<1>0. /\ h \in Driver /\ sensor \in Sensor /\ Wiped \in Sensor
      /\ {open, busy, used, suspending} \subseteq BOOLEAN
  BY DEF TypeOK, Wiped, Sensor
<1>1. ASSUME NEW serverUp \in BOOLEAN, Suspend(serverUp)
      PROVE  TypeOK'
  <2>1. ASSUME NEW c \in Driver
        PROVE  /\ [c EXCEPT !.parked = FALSE, !.clean_close = FALSE, !.warm_ok = FALSE,
                            !.warm_attempted = FALSE, !.scan = FALSE] \in Driver
               /\ [c EXCEPT !.loop = FALSE] \in Driver
    BY DEF Driver
  <2>2. h' \in Driver
    BY <1>0, <1>1, <2>1, SlotTypes, ResetType DEF Suspend
  <2> QED BY <1>0, <1>1, <2>2 DEF Suspend, TypeOK
<1>2. ASSUME NEW stamp \in {"park", "warm"}, Expire(stamp)
      PROVE  TypeOK'
  <2>1. h' \in Driver
    BY <1>0, <1>2 DEF Expire, Driver
  <2> QED BY <1>0, <1>2, <2>1 DEF Expire, TypeOK
<1>3. CASE Sleep
  <2>1. h' \in Driver
    BY <1>0, <1>3 DEF Sleep, Driver
  <2> QED BY <1>0, <1>3, <2>1 DEF Sleep, TypeOK
<1>4. CASE Restart
  <2>1. h' \in Driver
    BY <1>4 DEF Restart, NewDriver, Driver, Gens
  <2> QED BY <1>0, <1>4, <2>1 DEF Restart, TypeOK
<1> QED BY <1>1, <1>2, <1>3, <1>4 DEF System

LEMMA ReplyTypes == TypeOK /\ (TlsReply \/ TimedReply \/ ScanEnds) => TypeOK'
<1> SUFFICES ASSUME TypeOK, TlsReply \/ TimedReply \/ ScanEnds PROVE TypeOK'
  OBVIOUS
<1>0. /\ h \in Driver /\ sensor \in Sensor
      /\ {open, busy, used, suspending} \subseteq BOOLEAN
  BY DEF TypeOK
<1>1. Free \in Driver /\ [Free EXCEPT !.scan = FALSE] \in Driver
  <2>1. \A c \in Driver : [c EXCEPT !.scan = FALSE] \in Driver
    BY DEF Driver
  <2> QED BY <1>0, <2>1, SlotTypes DEF Free
<1>2. ASSUME NEW w \in Waiters, NEW gen \in {"none", "current"}
      PROVE  Send(Free, w, gen) \in Driver
  BY <1>1, SlotTypes DEF Gens
<1>3. {"otp", "fw", "psk", "hs", "tlsEst", "enable"} \subseteq Waiters
  BY DEF Waiters, Ladder, Handshake
<1>4. ASSUME NEW w \in Waiters, NEW serverUp \in BOOLEAN
      PROVE  Failed(Free, w, h.slotGen, serverUp) \in Driver
  <2>1. h.slotGen \in Gens
    BY <1>0 DEF Driver
  <2> QED BY <1>1, <2>1, FailedType
<1>5. h' \in Driver /\ sensor' \in Sensor /\ Keep
  <2>1. CASE TlsReply
    BY <1>0, <1>1, <1>2, <1>3, <2>1, BringUpTypes
    DEF TlsReply, TlsRequested, TlsRefused, Hold, Keep
  <2>2. CASE NopDone \/ OtpRead \/ LadderFails
    BY <1>0, <1>1, <1>2, <1>3, <2>2, LadderTypes
    DEF NopDone, OtpRead, LadderFails, Hold, Keep
  <2>3. CASE \E serverUp \in BOOLEAN : FirmwareRead(serverUp) \/ PskRead(serverUp)
    BY <1>0, <1>1, <1>2, <1>3, <2>3, BringUpTypes
    DEF FirmwareRead, PskRead, Hold, Keep
  <2>4. CASE HandshakeRead \/ HandshakeFails
    BY <1>0, <1>1, <1>2, <1>3, <2>4, BringUpTypes
    DEF HandshakeRead, HandshakeFails, Hold, Keep
  <2>5. CASE TlsEstablished
    BY <1>0, <1>1, <2>5, BringUpTypes DEF TlsEstablished, Sensor, Keep
  <2>6. CASE ConfigUploaded
    BY <1>0, <1>1, <1>2, <1>3, <2>6 DEF ConfigUploaded, Sensor, Keep
  <2>7. CASE ChipAnswers
    BY <1>0, <1>1, <2>7, BringUpTypes DEF ChipAnswers, Hold, Keep
  <2>8. CASE ProbeAnswers \/ ProbeTimesOut
    BY <1>0, <1>1, <1>2, <1>3, <2>8, BringUpTypes
    DEF ProbeAnswers, ProbeTimesOut, Hold, Keep
  <2>9. CASE CommandFails
    BY <1>0, <1>1, <1>4, <2>9 DEF CommandFails, Waiters, Hold, Keep
  <2>10. CASE ScanDone
    BY <1>0, <1>1, <2>10, SlotTypes DEF ScanDone, Hold, Keep
  <2>11. CASE ScanFails
    BY <1>0, <1>1, <2>11, FailedType DEF ScanFails, Waiters, Gens, Hold, Keep
  <2> QED BY <2>1, <2>2, <2>3, <2>4, <2>5, <2>6, <2>7, <2>8, <2>9, <2>10, <2>11
          DEF TimedReply, ScanEnds
<1> QED BY <1>0, <1>5 DEF TypeOK, Keep

LEMMA TypeStep == TypeOK /\ [Next]_vars => TypeOK'
<1>1. TypeOK /\ UNCHANGED vars => TypeOK'
  BY DEF TypeOK, vars
<1> QED BY <1>1, ClientTypes, SystemTypes, ReplyTypes DEF Next

(* The driver's record, the sensor and what libfprint knows of them keep   *)
(* their types, whoever cancels and whatever the environment does.         *)
THEOREM TypeCorrect == Spec => []TypeOK
  BY InitType, TypeStep, PTL DEF Spec

------------------------------------------------------------------------------
(* The inductive invariant.  Between two commands of an action the slot is *)
(* free and nothing is reported; when the callback returns, the action is  *)
(* at its next stage or reported.                                          *)

Between(d) ==
  /\ d \in Driver
  /\ d.slot = "none" /\ d.slotGen = "none" /\ d.loop /\ ~d.scan /\ d.reports = 0

Acted(d) ==
  /\ d \in Driver
  /\ Coherent(d)
  /\ d.reports = 0 => StageOK(d)
  /\ d.reports # 0 => LeftOver(d)

LEMMA ShutFields ==
  ASSUME NEW d \in Driver
  PROVE  LET s == ShutdownTls(d)
         IN  /\ s.hop = "none" /\ s.ready = "none"
             /\ s.slot = d.slot /\ s.slotGen = d.slotGen /\ s.scan = d.scan
             /\ s.loop = d.loop /\ s.reports = d.reports
             /\ s.warm_ok = d.warm_ok /\ s.warm_attempted = d.warm_attempted
  BY DEF ShutdownTls, Driver

LEMMA ReportFields ==
  ASSUME NEW d \in Driver
  PROVE  LET r == Report(d)
         IN  /\ r.reports # 0
             /\ r.slot = d.slot /\ r.scan = d.scan /\ r.ready = d.ready
             /\ r.hop = d.hop /\ r.loop = d.loop
             /\ r.warm_ok = d.warm_ok /\ r.warm_attempted = d.warm_attempted
  BY DEF Report, Driver

LEMMA StartLadderActed ==
  ASSUME NEW d \in Driver, NEW warm \in BOOLEAN,
         d.hop = "none", d.ready = "none", d.reports = 0
  PROVE  Acted(StartLadder(d, warm))
<1> DEFINE c == StartLadder(d, warm)
<1>1. c \in Driver
  BY LadderTypes
<1>2. /\ c.slot = "nop" /\ c.slotGen = "none" /\ c.loop /\ ~c.scan
      /\ c.hop = "none" /\ c.ready = "none" /\ c.reports = 0
  BY DEF StartLadder, Send, Driver
<1> HIDE DEF c
<1>3. Coherent(c) /\ StageOK(c)
  BY <1>2 DEF Coherent, StageOK, Waiters, Ladder, Handshake
<1> QED BY <1>1, <1>2, <1>3 DEF Acted, c

LEMMA ReportActed ==
  ASSUME NEW d \in Driver, d.slot = "none", d.ready = "none", ~d.scan
  PROVE  Acted(Report(d))
<1> DEFINE c == Report(d)
<1>1. c \in Driver
  BY SlotTypes
<1>2. c.slot = "none" /\ c.ready = "none" /\ ~c.scan /\ c.reports # 0
  BY DEF Report, Driver
<1> HIDE DEF c
<1> QED BY <1>1, <1>2 DEF Acted, Coherent, LeftOver, c

LEMMA ActivateFailedActed ==
  ASSUME NEW d, Between(d), d.hop = "none", d.ready = "none"
  PROVE  Acted(ActivateFailed(d))
<1> DEFINE c == Distrust(d)
           e == [c EXCEPT !.warm_retried = TRUE]
<1>1. c \in Driver
  BY SlotTypes DEF Between
<1>2. /\ c.slot = "none" /\ ~c.scan /\ c.hop = "none" /\ c.ready = "none"
      /\ c.reports = 0
  BY DEF Distrust, Between, Driver
<1> HIDE DEF c
<1>3. e \in Driver /\ e.hop = "none" /\ e.ready = "none" /\ e.reports = 0
  BY <1>1, <1>2 DEF Driver
<1> HIDE DEF e
<1>4. Acted(StartLadder(e, FALSE)) /\ Acted(Report(c))
  BY <1>1, <1>2, <1>3, StartLadderActed, ReportActed
<1> QED BY <1>4 DEF ActivateFailed, c, e

LEMMA TlsFailedActed ==
  ASSUME NEW d, Between(d)
  PROVE  Acted(TlsFailed(d))
<1> DEFINE c == Distrust(d)
           s == ShutdownTls(c)
           e == [s EXCEPT !.warm_retried = TRUE]
           r == [Report(c) EXCEPT !.ready = "none"]
<1>1. c \in Driver
  BY SlotTypes DEF Between
<1>2. c.slot = "none" /\ ~c.scan /\ c.reports = 0
  BY DEF Distrust, Between, Driver
<1> HIDE DEF c
<1>3. s \in Driver /\ s.hop = "none" /\ s.ready = "none" /\ s.reports = 0
  BY <1>1, <1>2, SlotTypes, ShutFields
<1> HIDE DEF s
<1>4. e \in Driver /\ e.hop = "none" /\ e.ready = "none" /\ e.reports = 0
  BY <1>3 DEF Driver
<1>5. r \in Driver /\ r.slot = "none" /\ ~r.scan /\ r.ready = "none" /\ r.reports # 0
  <2>1. \A e1 \in Driver :
          LET e2 == [e1 EXCEPT !.ready = "none"]
          IN  /\ e2 \in Driver /\ e2.ready = "none" /\ e2.slot = e1.slot
              /\ e2.scan = e1.scan /\ e2.reports = e1.reports
    BY DEF Driver, Gens
  <2>2. Report(c) \in Driver
    BY <1>1, SlotTypes
  <2> QED BY <1>1, <1>2, <2>1, <2>2, ReportFields
<1> HIDE DEF e, r
<1>6. Acted(StartLadder(e, FALSE))
  BY <1>4, StartLadderActed
<1>7. Acted(r)
  BY <1>5 DEF Acted, Coherent, LeftOver
<1> QED BY <1>6, <1>7 DEF TlsFailed, c, s, e, r

LEMMA SendActed ==
  ASSUME NEW d, Between(d), NEW w \in Waiters \ {"scan"}, NEW gen \in {"none", "current"},
         w \in Ladder <=> d.hop = "none",
         w \in Handshake => d.ready = "current",
         w \notin Handshake => d.ready = "none",
         gen = "none" => w \notin {"config", "probe"}
  PROVE  Acted(Send(d, w, gen))
<1> DEFINE c == Send(d, w, gen)
<1>1. c \in Driver
  BY SlotTypes DEF Between, Gens
<1>2. /\ c.slot = w /\ c.slotGen = gen /\ c.loop /\ ~c.scan
      /\ c.hop = d.hop /\ c.ready = d.ready /\ c.reports = 0
  BY DEF Send, Between, Driver
<1> HIDE DEF c
<1>3. StageOK(c)
  BY <1>2 DEF StageOK
<1>4. Coherent(c)
  BY <1>2 DEF Coherent, Ladder, Handshake
<1> QED BY <1>1, <1>2, <1>3, <1>4 DEF Acted, c

LEMMA TlsInitActed ==
  ASSUME NEW d, Between(d), d.hop = "none", d.ready = "none", NEW serverUp \in BOOLEAN
  PROVE  Acted(TlsInit(d, serverUp))
<1> DEFINE up   == [d EXCEPT !.hop = "fresh", !.ready = "current"]
           down == [d EXCEPT !.hop = "none"]
<1>1. Between(up) /\ up.hop = "fresh" /\ up.ready = "current"
  BY DEF Between, Driver, Gens
<1>2. Between(down)
  BY DEF Between, Driver
<1> HIDE DEF up, down
<1>3. Acted(Send(up, "tlsReq", "none"))
  BY <1>1, SendActed DEF Waiters, Ladder, Handshake
<1>4. Acted(TlsFailed(down))
  BY <1>2, TlsFailedActed
<1> QED BY <1>3, <1>4 DEF TlsInit, up, down

LEMMA TlsReadyActed ==
  ASSUME NEW d, Between(d), d.ready = "current"
  PROVE  Acted(TlsReady(d)) /\ Acted(TlsReadyError(d))
<1> DEFINE told == [d EXCEPT !.hop = "agreed", !.ready = "none"]
<1>1. Between(told) /\ told.hop = "agreed" /\ told.ready = "none"
  BY DEF Between, Driver, Gens
<1> HIDE DEF told
<1>2. \A w \in {"enable", "config"} : Acted(Send(told, w, "current"))
  BY <1>1, SendActed DEF Waiters, Ladder, Handshake
<1> QED BY <1>2, TlsFailedActed DEF TlsReady, TlsReadyError, told

LEMMA ProbeFailedActed ==
  ASSUME NEW d, Between(d), NEW timedOut \in BOOLEAN
  PROVE  Acted(ProbeFailed(d, timedOut))
<1> DEFINE s == ShutdownTls(d)
<1>1. s \in Driver /\ s.hop = "none" /\ s.ready = "none" /\ s.reports = 0
  BY SlotTypes, ShutFields DEF Between
<1> HIDE DEF s
<1>2. ASSUME NEW b \in BOOLEAN
      PROVE  LET c == [s EXCEPT !.warm_ok = b]
             IN  c \in Driver /\ c.hop = "none" /\ c.ready = "none" /\ c.reports = 0
  BY <1>1 DEF Driver
<1>3. \A b \in BOOLEAN : Acted(StartLadder([s EXCEPT !.warm_ok = b], FALSE))
  BY <1>2, StartLadderActed
<1>4. Acted(StartLadder(s, TRUE))
  BY <1>1, StartLadderActed
<1>5. (s.warm_ok /\ "warm" \notin d.slept) \in BOOLEAN
  OBVIOUS
<1> QED BY <1>3, <1>4, <1>5 DEF ProbeFailed, s

LEMMA ChipEnabledActed ==
  ASSUME NEW d, Between(d), d.hop # "none", d.ready = "none"
  PROVE  Acted(ChipEnabled(d))
<1> DEFINE c == [d EXCEPT !.warm_ok = TRUE, !.warmBoot = TRUE,
                          !.slept = @ \ {"warm"}, !.expired = @ \ {"warm"},
                          !.warm_attempted = FALSE]
           e == ChipEnabled(d)
<1>1. e \in Driver
  BY BringUpTypes DEF Between
<1>2. /\ c \in Driver /\ ~c.scan /\ c.loop /\ c.hop = d.hop /\ c.ready = "none"
      /\ c.reports = 0
  BY DEF Between, Driver
<1> HIDE DEF c
<1>3. e = Send([c EXCEPT !.scan = TRUE], "scan", "none")
  BY <1>2 DEF ChipEnabled, ScanStart, c
<1>4. /\ e.slot = "scan" /\ e.slotGen = "none" /\ e.scan /\ e.loop
      /\ e.hop # "none" /\ e.ready = "none" /\ e.reports = 0
  BY <1>2, <1>3 DEF Send, Driver
<1> HIDE DEF e
<1>5. Coherent(e) /\ StageOK(e)
  BY <1>4 DEF Coherent, StageOK, Waiters, Ladder, Handshake
<1> QED BY <1>1, <1>4, <1>5 DEF Acted, e

(* A teardown: the waiters that check the generation are stale, the scan   *)
(* is freed, and what the reset leaves is free, or has no action.          *)

Torn(d) ==
  /\ d \in Driver /\ ~d.scan
  /\ d.slot \in Ladder => d.hop = "none"
  /\ d.slot \notin Handshake => d.ready = "none"
  /\ d.slot \in {"config", "probe"} => d.slotGen = "stale"

Disarmed(d) ==
  /\ d \in Driver /\ ~d.scan
  /\ \/ d.slot = "none" /\ d.ready = "none"
     \/ /\ d.slot = "nop" /\ d.hop = "none" /\ d.ready = "none"
        /\ ~d.warm_attempted /\ ~d.warm_ok
     \/ d.slot = "tlsReq" /\ d.hop # "none"

LEMMA DistrustFields ==
  ASSUME NEW d \in Driver
  PROVE  LET c == Distrust(d)
         IN  /\ ~c.warm_ok /\ ~c.warm_attempted
             /\ c.slot = d.slot /\ c.scan = d.scan /\ c.ready = d.ready
             /\ c.hop = d.hop /\ c.loop = d.loop /\ c.reports = d.reports
  BY DEF Distrust, Driver

LEMMA ClearFields ==
  ASSUME NEW d \in Driver
  PROVE  LET c == ClearSlot(d)
         IN  /\ c.slot = "none" /\ c.slotGen = "none"
             /\ c.warm_ok = d.warm_ok /\ c.warm_attempted = d.warm_attempted
             /\ c.scan = d.scan /\ c.ready = d.ready
             /\ c.hop = d.hop /\ c.loop = d.loop /\ c.reports = d.reports
  BY DEF ClearSlot, Driver

LEMMA RetryDisarmed ==
  ASSUME NEW d \in Driver, d.hop = "none", d.ready = "none", ~d.warm_ok
  PROVE  Disarmed(StartLadder([d EXCEPT !.warm_retried = TRUE], FALSE))
<1> DEFINE e == [d EXCEPT !.warm_retried = TRUE]
           c == StartLadder(e, FALSE)
<1>1. e \in Driver /\ e.hop = "none" /\ e.ready = "none" /\ ~e.warm_ok
  BY DEF Driver
<1> HIDE DEF e
<1>2. c \in Driver
  BY <1>1, LadderTypes
<1>3. /\ c.slot = "nop" /\ ~c.scan /\ c.hop = "none" /\ c.ready = "none"
      /\ ~c.warm_attempted /\ ~c.warm_ok
  BY <1>1 DEF StartLadder, Send, Driver
<1> QED BY <1>2, <1>3 DEF Disarmed, e

LEMMA ReportDisarmed ==
  ASSUME NEW d \in Driver, d.slot = "none", ~d.scan
  PROVE  /\ d.ready = "none" => Disarmed(Report(d))
         /\ Disarmed([Report(d) EXCEPT !.ready = "none"])
<1> DEFINE r == Report(d)
           q == [r EXCEPT !.ready = "none"]
<1>1. r \in Driver /\ r.slot = "none" /\ ~r.scan /\ r.ready = d.ready
  BY SlotTypes, ReportFields
<1> HIDE DEF r
<1>2. q \in Driver /\ q.slot = "none" /\ ~q.scan /\ q.ready = "none"
  BY <1>1 DEF Driver, Gens
<1> QED BY <1>1, <1>2 DEF Disarmed, r

LEMMA FailureDisarmed ==
  ASSUME NEW d \in Driver, d.slot = "none", ~d.scan
  PROVE  /\ d.hop = "none" /\ d.ready = "none" => Disarmed(ActivateFailed(d))
         /\ Disarmed(TlsFailed(d))
         /\ Disarmed(TlsReadyError(d))
<1> DEFINE c == Distrust(d)
           s == ShutdownTls(c)
           q == [d EXCEPT !.ready = "none"]
<1>1. /\ c \in Driver /\ c.slot = "none" /\ ~c.scan /\ ~c.warm_ok
      /\ c.hop = d.hop /\ c.ready = d.ready
  BY SlotTypes, DistrustFields
<1> HIDE DEF c
<1>2. s \in Driver /\ s.hop = "none" /\ s.ready = "none" /\ ~s.warm_ok
  BY <1>1, SlotTypes, ShutFields
<1> HIDE DEF s
<1>3. q \in Driver /\ q.slot = "none" /\ ~q.scan /\ q.ready = "none"
  BY DEF Driver, Gens
<1> HIDE DEF q
<1>4. d.hop = "none" /\ d.ready = "none" => Disarmed(ActivateFailed(d))
  BY <1>1, RetryDisarmed, ReportDisarmed DEF ActivateFailed, c
<1>5. Disarmed(TlsFailed(d))
  BY <1>1, <1>2, RetryDisarmed, ReportDisarmed DEF TlsFailed, c, s
<1>6. Disarmed(q)
  BY <1>3 DEF Disarmed
<1> QED BY <1>4, <1>5, <1>6 DEF TlsReadyError, q

LEMMA RequestDisarmed ==
  ASSUME NEW d \in Driver, d.slot = "none", ~d.scan, NEW serverUp \in BOOLEAN
  PROVE  Disarmed(TlsInit(d, serverUp))
<1> DEFINE up   == [d EXCEPT !.hop = "fresh", !.ready = "current"]
           down == [d EXCEPT !.hop = "none"]
           c    == Send(up, "tlsReq", "none")
<1>1. up \in Driver /\ up.hop = "fresh" /\ ~up.scan
  BY DEF Driver, Gens
<1> HIDE DEF up
<1>2. c \in Driver
  BY <1>1, SlotTypes DEF Waiters, Handshake, Gens
<1>3. c.slot = "tlsReq" /\ c.hop # "none" /\ ~c.scan
  BY <1>1 DEF Send, Driver
<1> HIDE DEF c
<1>4. Disarmed(c)
  BY <1>2, <1>3 DEF Disarmed
<1>5. down \in Driver /\ down.slot = "none" /\ ~down.scan
  BY DEF Driver
<1> HIDE DEF down
<1>6. Disarmed(TlsFailed(down))
  BY <1>5, FailureDisarmed
<1> QED BY <1>4, <1>6 DEF TlsInit, up, down, c

LEMMA ResetDisarms ==
  ASSUME NEW d, Torn(d), NEW serverUp \in BOOLEAN
  PROVE  Disarmed(ResetState(d, serverUp))
<1> DEFINE f == ClearSlot(d)
           r == Failed(f, d.slot, d.slotGen, serverUp)
<1> SUFFICES Disarmed(r)
  BY DEF ResetState
<1>1. d \in Driver /\ d.slot \in Waiters \cup {"none"}
  BY DEF Torn, Driver
<1>2. f \in Driver /\ f.slot = "none" /\ ~f.scan /\ f.hop = d.hop /\ f.ready = d.ready
  BY SlotTypes, ClearFields DEF Torn
<1> HIDE DEF f
<1>3. f.ready = "none" => Disarmed(f)
  BY <1>2 DEF Disarmed
<1>4. CASE d.slot \in {"nop", "otp", "fw"}
  BY <1>2, <1>4, FailureDisarmed DEF Torn, Failed, Ladder, Handshake
<1>5. CASE d.slot = "psk"
  BY <1>2, <1>5, RequestDisarmed DEF Torn, Failed, Ladder, Handshake
<1>6. CASE d.slot \in Handshake
  BY <1>2, <1>6, FailureDisarmed DEF Failed, Handshake
<1>7. CASE d.slot = "enable"
  <2> DEFINE c == Distrust(f)
  <2>1. c \in Driver /\ c.slot = "none" /\ ~c.scan /\ c.ready = "none"
    BY <1>2, <1>7, SlotTypes, DistrustFields DEF Torn, Handshake
  <2> HIDE DEF c
  <2>2. Disarmed(Report(c))
    BY <2>1, ReportDisarmed
  <2> QED BY <1>2, <1>3, <1>7, <2>2 DEF Torn, Failed, Handshake, c
<1>8. CASE d.slot \in {"config", "probe", "scan", "none"}
  BY <1>2, <1>3, <1>8 DEF Torn, Failed, Handshake
<1> QED BY <1>1, <1>4, <1>5, <1>6, <1>7, <1>8 DEF Waiters, Ladder

LEMMA BumpFields ==
  ASSUME NEW d \in Driver
  PROVE  LET c == Bump(d)
         IN  /\ c.slot = d.slot /\ c.scan = d.scan /\ c.hop = d.hop
             /\ c.loop = d.loop /\ c.reports = d.reports
             /\ c.warm_ok = d.warm_ok /\ c.warm_attempted = d.warm_attempted
             /\ c.clean_close = d.clean_close
             /\ c.ready # "current" /\ (d.ready = "none" => c.ready = "none")
             /\ d.slotGen = "current" => c.slotGen = "stale"
  BY DEF Bump, Stale, Driver, Gens

LEMMA BumpTears ==
  ASSUME NEW d \in Driver, Coherent(d), StageOK(d) \/ LeftOver(d)
  PROVE  /\ Torn([Bump(d) EXCEPT !.scan = FALSE])
         /\ Torn([Bump(d) EXCEPT !.parked = FALSE, !.clean_close = FALSE,
                                 !.warm_ok = FALSE, !.warm_attempted = FALSE,
                                 !.scan = FALSE])
<1> DEFINE b == Bump(d)
<1>1. /\ b \in Driver
      /\ b.slot = d.slot /\ b.hop = d.hop
      /\ d.ready = "none" => b.ready = "none"
      /\ d.slotGen = "current" => b.slotGen = "stale"
  BY SlotTypes, BumpFields
<1> HIDE DEF b
<1>2. d.slotGen \in Gens
  BY DEF Driver
<1>3. /\ d.slot \in Ladder => d.hop = "none"
      /\ d.slot \notin Handshake => d.ready = "none"
      /\ d.slot \in {"config", "probe"} => d.slotGen = "current"
  BY <1>2 DEF Coherent, StageOK, LeftOver, Ladder, Handshake, Gens
<1>4. \A c : /\ c \in Driver /\ ~c.scan
             /\ c.slot = b.slot /\ c.hop = b.hop /\ c.ready = b.ready
             /\ c.slotGen = b.slotGen
             => Torn(c)
  BY <1>1, <1>3 DEF Torn
<1> DEFINE c1 == [b EXCEPT !.scan = FALSE]
           c2 == [b EXCEPT !.parked = FALSE, !.clean_close = FALSE, !.warm_ok = FALSE,
                           !.warm_attempted = FALSE, !.scan = FALSE]
<1>5. /\ c1 \in Driver /\ ~c1.scan
      /\ c1.slot = b.slot /\ c1.hop = b.hop /\ c1.ready = b.ready
      /\ c1.slotGen = b.slotGen
  BY <1>1 DEF Driver
<1>6. /\ c2 \in Driver /\ ~c2.scan
      /\ c2.slot = b.slot /\ c2.hop = b.hop /\ c2.ready = b.ready
      /\ c2.slotGen = b.slotGen
  BY <1>1 DEF Driver
<1> HIDE DEF c1, c2
<1>7. Torn(c1) /\ Torn(c2)
  BY <1>4, <1>5, <1>6
<1> QED BY <1>7 DEF c1, c2, b

LEMMA DeactivateLeaves ==
  ASSUME NEW d \in Driver, Coherent(d), StageOK(d) \/ LeftOver(d),
         NEW serverUp \in BOOLEAN
  PROVE  Coherent(Deactivate(d, serverUp)) /\ LeftOver(Deactivate(d, serverUp))
<1> DEFINE idle == ResetState([Bump(d) EXCEPT !.scan = FALSE], serverUp)
           p == Park(idle)
           q == Destroy(idle)
           e == Deactivate(d, serverUp)
<1>0. e = IF idle.hop # "none" /\ idle.warm_ok /\ ~d.scan THEN p ELSE q
  BY Zenon DEF Deactivate
<1>1. Disarmed(idle)
  BY BumpTears, ResetDisarms
<1> HIDE DEF idle, e
<1>2. /\ p.slot = idle.slot /\ ~p.scan /\ ~p.loop /\ p.hop = idle.hop
      /\ p.ready = idle.ready /\ p.warm_ok = idle.warm_ok
  BY <1>1 DEF Disarmed, Park, Driver
<1>3. /\ q.slot = idle.slot /\ ~q.scan /\ ~q.loop /\ q.hop = "none"
      /\ q.ready = "none" /\ q.warm_ok = idle.warm_ok
      /\ q.warm_attempted = idle.warm_attempted
  <2> DEFINE s == ShutdownTls(idle)
  <2>1. /\ s \in Driver /\ s.slot = idle.slot /\ ~s.scan /\ s.hop = "none"
        /\ s.ready = "none" /\ s.warm_ok = idle.warm_ok
        /\ s.warm_attempted = idle.warm_attempted
    BY <1>1, SlotTypes, ShutFields DEF Disarmed
  <2> HIDE DEF s
  <2>2. q = [s EXCEPT !.loop = FALSE, !.parked = FALSE, !.clean_close = FALSE]
    BY DEF Destroy, s
  <2> QED BY <2>1, <2>2 DEF Driver
<1> HIDE DEF p, q
<1>4. idle.hop # "none" /\ idle.warm_ok => Coherent(p) /\ LeftOver(p)
  BY <1>1, <1>2 DEF Disarmed, Coherent, LeftOver, Handshake
<1>5. Coherent(q) /\ LeftOver(q)
  BY <1>1, <1>3 DEF Disarmed, Coherent, LeftOver
<1> QED BY <1>0, <1>4, <1>5 DEF e

(* When no action is under way, a reset frees the slot for good.           *)

Quiet(d) ==
  /\ d \in Driver /\ ~d.scan
  /\ \/ d.slot = "none" /\ d.ready = "none"
     \/ d.slot \in {"nop", "otp"} /\ d.ready = "none" /\ ~d.warm_attempted
     \/ d.slot = "tlsReq" /\ d.ready # "current"

LEMMA ResetQuiets ==
  ASSUME NEW d, Quiet(d), NEW serverUp \in BOOLEAN
  PROVE  LET r == ResetState(d, serverUp)
         IN  /\ r \in Driver /\ r.slot = "none" /\ r.slotGen = "none"
             /\ ~r.scan /\ r.ready = "none" /\ r.hop = d.hop /\ r.loop = d.loop
             /\ d.slot \notin {"nop", "otp"} => r.reports = d.reports
             /\ d.slot \in {"nop", "otp"} => r.reports # 0 /\ ~r.warm_attempted
<1> DEFINE f == ClearSlot(d)
           c == Distrust(f)
           q == [f EXCEPT !.ready = "none"]
           r == ResetState(d, serverUp)
<1>1. /\ f \in Driver /\ f.slot = "none" /\ f.slotGen = "none" /\ ~f.scan
      /\ f.hop = d.hop /\ f.loop = d.loop /\ f.ready = d.ready
      /\ f.reports = d.reports /\ f.warm_attempted = d.warm_attempted
  BY SlotTypes, ClearFields DEF Quiet
<1>2. r = Failed(f, d.slot, d.slotGen, serverUp)
  BY DEF ResetState
<1> HIDE DEF f, r
<1>3. CASE d.slot = "none"
  BY <1>1, <1>2, <1>3 DEF Quiet, Failed, Handshake, r
<1>4. CASE d.slot \in {"nop", "otp"}
  <2>1. /\ c \in Driver /\ c.slot = "none" /\ ~c.scan
        /\ c.hop = d.hop /\ c.loop = d.loop /\ c.ready = "none"
        /\ c.reports = d.reports /\ ~c.warm_attempted
    BY <1>1, <1>4, SlotTypes, DistrustFields DEF Quiet
  <2>2. c.slotGen = "none"
    BY <1>1 DEF Distrust, Driver
  <2> HIDE DEF c
  <2>3. Report(c).slotGen = "none"
    BY <2>1, <2>2 DEF Report, Driver
  <2>4. r = Report(c)
    BY <1>1, <1>2, <1>4 DEF Quiet, Failed, ActivateFailed, WarmRetry, Handshake, c
  <2> QED BY <1>4, <2>1, <2>3, <2>4, SlotTypes, ReportFields DEF r
<1>5. CASE d.slot = "tlsReq"
  <2>1. /\ q \in Driver /\ q.slot = "none" /\ q.slotGen = "none" /\ ~q.scan
        /\ q.hop = d.hop /\ q.loop = d.loop /\ q.ready = "none"
        /\ q.reports = d.reports
    BY <1>1 DEF Driver, Gens
  <2>2. r = q
    BY <1>1, <1>2, <1>5 DEF Quiet, Failed, TlsReadyError, Handshake
  <2> QED BY <1>5, <2>1, <2>2 DEF r
<1> QED BY <1>3, <1>4, <1>5 DEF Quiet

------------------------------------------------------------------------------
(* A reply during an action takes it to its next stage, or reports it.     *)
LEMMA ReplyActed ==
  ASSUME TypeOK, SessionInv, Acting, TlsReply \/ TimedReply \/ ScanEnds
  PROVE  Acted(h')
<1> DEFINE f == Free
<1>1. /\ h \in Driver /\ h.reports = 0 /\ Coherent(h) /\ StageOK(h)
      /\ h.slotGen \in Gens
  BY DEF TypeOK, SessionInv, Acting, Driver
<1>2. /\ f \in Driver /\ f.slot = "none" /\ f.slotGen = "none"
      /\ f.scan = h.scan /\ f.ready = h.ready /\ f.hop = h.hop /\ f.loop
      /\ f.reports = 0
  BY <1>1, SlotTypes, ClearFields DEF Free, StageOK
<1> HIDE DEF f
<1>3. h.slot # "scan" => Between(f)
  BY <1>1, <1>2 DEF Between, Coherent
<1>4. h.slot \in Ladder => Between(f) /\ f.hop = "none" /\ f.ready = "none"
  BY <1>1, <1>2, <1>3 DEF Coherent, StageOK, Ladder, Handshake
<1>5. h.slot \in Handshake => Between(f) /\ f.hop # "none" /\ f.ready = "current"
  BY <1>1, <1>2, <1>3 DEF StageOK, Ladder, Handshake
<1>6. h.slot \in {"config", "enable", "probe"} =>
        Between(f) /\ f.hop # "none" /\ f.ready = "none" /\ h.slotGen # "stale"
  BY <1>1, <1>2, <1>3 DEF Coherent, StageOK, Ladder, Handshake
<1>7. CASE NopDone \/ OtpRead
  <2>1. ASSUME NEW w \in {"otp", "fw"} PROVE Acted(Send(f, w, "none")) \/ h.slot \notin Ladder
    BY <1>4, SendActed DEF Waiters, Ladder, Handshake
  <2> QED BY <1>7, <2>1 DEF NopDone, OtpRead, Answered, Ladder, f
<1>8. CASE \E serverUp \in BOOLEAN : FirmwareRead(serverUp) \/ PskRead(serverUp)
  <2>1. PICK serverUp \in BOOLEAN : FirmwareRead(serverUp) \/ PskRead(serverUp)
    BY <1>8
  <2>2. Between(f) /\ f.hop = "none" /\ f.ready = "none"
    BY <1>4, <2>1 DEF FirmwareRead, PskRead, Answered, Ladder
  <2>3. Acted(TlsInit(f, serverUp))
    BY <2>2, TlsInitActed
  <2>4. Acted(Send(f, "psk", "none"))
    BY <2>2, SendActed DEF Waiters, Ladder, Handshake
  <2> QED BY <2>1, <2>3, <2>4 DEF FirmwareRead, PskRead, f
<1>9. CASE LadderFails
  BY <1>4, <1>9, ActivateFailedActed DEF LadderFails, Erred, Ladder, f
<1>10. CASE TlsRequested \/ HandshakeRead
  <2>1. Between(f) /\ f.hop # "none" /\ f.ready = "current"
    BY <1>5, <1>10 DEF TlsRequested, HandshakeRead, Answered, Handshake
  <2>2. Acted(Send(f, "hs", "none")) /\ Acted(Send(f, "tlsEst", "none"))
    BY <2>1, SendActed DEF Waiters, Ladder, Handshake
  <2> QED BY <1>10, <2>2 DEF TlsRequested, HandshakeRead, f
<1>11. CASE TlsRefused \/ HandshakeFails \/ TlsEstablished
  <2>1. Between(f) /\ f.ready = "current"
    BY <1>5, <1>11
    DEF TlsRefused, HandshakeFails, TlsEstablished, Answered, Erred, Handshake
  <2>2. Acted(TlsReady(f)) /\ Acted(TlsReadyError(f))
    BY <2>1, TlsReadyActed
  <2> QED BY <1>11, <2>2 DEF TlsRefused, HandshakeFails, TlsEstablished, f
<1>12. CASE ConfigUploaded \/ ProbeAnswers
  <2>1. Between(f) /\ f.hop # "none" /\ f.ready = "none" /\ h.slotGen # "stale"
    BY <1>6, <1>12 DEF ConfigUploaded, ProbeAnswers, Answered
  <2>2. \A gen \in {"none", "current"} : Acted(Send(f, "enable", gen))
    BY <2>1, SendActed DEF Waiters, Ladder, Handshake
  <2> QED BY <1>12, <2>1, <2>2 DEF ConfigUploaded, ProbeAnswers, f
<1>13. CASE ChipAnswers
  BY <1>6, <1>13, ChipEnabledActed DEF ChipAnswers, Answered, f
<1>14. CASE ProbeTimesOut
  BY <1>6, <1>14, ProbeFailedActed DEF ProbeTimesOut, f
<1>15. CASE CommandFails
  <2>1. PICK w \in {"config", "enable", "probe"} :
          Erred(w) /\ h' = Failed(f, w, h.slotGen, TRUE)
    BY <1>15 DEF CommandFails, f
  <2>2. Between(f) /\ f.hop # "none" /\ f.ready = "none" /\ h.slotGen # "stale"
    BY <1>6, <2>1 DEF Erred
  <2> DEFINE c == Distrust(f)
  <2>3. c \in Driver /\ c.slot = "none" /\ c.ready = "none" /\ ~c.scan
    BY <1>2, <2>2, SlotTypes, DistrustFields DEF Between
  <2> HIDE DEF c
  <2>4. Acted(Report(c)) /\ Acted(Report(f)) /\ Acted(ProbeFailed(f, FALSE))
    BY <1>2, <2>2, <2>3, ReportActed, ProbeFailedActed DEF Between
  <2> QED BY <2>1, <2>2, <2>4 DEF Failed, Handshake, c
<1>16. CASE ScanDone \/ ScanFails
  <2> DEFINE c == [f EXCEPT !.scan = FALSE]
             e == [f EXCEPT !.scan = FALSE, !.clean_close = FALSE, !.warm_ok = FALSE]
  <2>1. h.slot = "scan" /\ f.scan /\ f.ready = "none"
    BY <1>1, <1>2, <1>16 DEF ScanDone, ScanFails, Answered, Erred, Coherent, Handshake
  <2>2. /\ c \in Driver /\ c.slot = "none" /\ c.ready = "none" /\ ~c.scan
        /\ e \in Driver /\ e.slot = "none" /\ e.ready = "none" /\ ~e.scan
    BY <1>2, <2>1 DEF Driver
  <2> HIDE DEF c, e
  <2>3. Acted(Report(c)) /\ Acted(Report(e))
    BY <2>2, ReportActed
  <2>4. Failed(f, "scan", "none", TRUE) = Report(e)
    BY <2>1 DEF Failed, ScanFailed, Handshake, e
  <2> QED BY <1>16, <2>3, <2>4 DEF ScanDone, ScanFails, c, f
<1> QED BY <1>7, <1>8, <1>9, <1>10, <1>11, <1>12, <1>13, <1>14, <1>15, <1>16
        DEF TlsReply, TimedReply, ScanEnds

(* A ladder left over goes on to its next command, and then fails it.      *)
LEMMA LeftOverReply ==
  ASSUME TypeOK, SessionInv, ~Acting, TlsReply \/ TimedReply \/ ScanEnds
  PROVE  Coherent(h') /\ LeftOver(h') /\ (h'.reports # 0 \/ h'.reports = h.reports)
<1> DEFINE f == Free
           n == Send(f, "otp", "none")
           c == Distrust(f)
           r == Report(c)
<1>1. /\ h \in Driver /\ Coherent(h) /\ LeftOver(h)
  BY DEF TypeOK, SessionInv
<1>2. h.slot \in {"none", "nop", "otp", "tlsReq"} /\ (h.slot # "none" => ~h.loop)
  BY <1>1 DEF LeftOver
<1>3. (h.slot = "nop" /\ h' = n) \/ (h.slot \in {"nop", "otp"} /\ h' = r)
  <2>1. NopDone \/ LadderFails
    BY <1>2 DEF TlsReply, TimedReply, ScanEnds, TlsRequested, TlsRefused, NopDone, OtpRead,
       FirmwareRead, LadderFails, PskRead, HandshakeRead, TlsEstablished,
       HandshakeFails, ConfigUploaded, ChipAnswers, ProbeAnswers, ProbeTimesOut,
       CommandFails, ScanDone, ScanFails, Answered, Erred
  <2>2. h.slot \in {"nop", "otp"} /\ ~h.warm_attempted
    BY <1>1, <1>2, <2>1 DEF NopDone, LadderFails, Erred, LeftOver
  <2>3. ~f.warm_attempted
    BY <1>1, <2>2, ClearFields DEF Free
  <2> HIDE DEF f
  <2>4. ActivateFailed(f) = r
    BY <2>3 DEF ActivateFailed, WarmRetry
  <2> QED BY <2>1, <2>2, <2>4 DEF NopDone, LadderFails, f
<1>4. /\ f \in Driver /\ f.slot = "none" /\ f.scan = h.scan /\ f.ready = h.ready
      /\ f.hop = h.hop /\ f.loop = h.loop /\ f.reports = h.reports
      /\ f.warm_ok = h.warm_ok /\ f.warm_attempted = h.warm_attempted
  BY <1>1, SlotTypes, ClearFields DEF Free
<1> HIDE DEF f
<1>5. h.slot \in {"nop", "otp"} =>
        /\ ~f.scan /\ f.ready = "none" /\ f.hop = "none" /\ ~f.loop
        /\ ~f.warm_ok /\ ~f.warm_attempted
  BY <1>1, <1>4 DEF Coherent, LeftOver, Handshake
<1>6. /\ n.slot = "otp" /\ n.scan = f.scan /\ n.ready = f.ready /\ n.hop = f.hop
      /\ n.loop = f.loop /\ n.warm_ok = f.warm_ok /\ n.reports = f.reports
      /\ n.warm_attempted = f.warm_attempted
  BY <1>4 DEF Send, Driver
<1>7. c \in Driver /\ c.slot = "none" /\ c.scan = f.scan /\ c.ready = f.ready
  BY <1>4, SlotTypes, DistrustFields
<1> HIDE DEF c
<1>8. r.slot = "none" /\ r.scan = f.scan /\ r.ready = f.ready /\ r.reports # 0
  BY <1>7, ReportFields
<1> HIDE DEF n, r
<1> QED BY <1>3, <1>4, <1>5, <1>6, <1>8 DEF Coherent, LeftOver

LEMMA ReplyKeeps ==
  ASSUME TypeOK, SessionInv, TlsReply \/ TimedReply \/ ScanEnds
  PROVE  SessionInv'
<1>1. Keep
  BY DEF TlsReply, TimedReply, ScanEnds, TlsRequested, TlsRefused, NopDone, OtpRead,
     FirmwareRead, LadderFails, PskRead, HandshakeRead, TlsEstablished,
     HandshakeFails, ConfigUploaded, ChipAnswers, ProbeAnswers, ProbeTimesOut,
     CommandFails, ScanDone, ScanFails, Hold, Keep
<1>2. open
  <2>1. h.slot # "none"
    BY DEF TlsReply, TimedReply, ScanEnds, TlsRequested, TlsRefused, NopDone, OtpRead,
       FirmwareRead, LadderFails, PskRead, HandshakeRead, TlsEstablished,
       HandshakeFails, ConfigUploaded, ChipAnswers, ProbeAnswers, ProbeTimesOut,
       CommandFails, ScanDone, ScanFails, Answered, Erred, Timed, Waiters, Ladder,
       Handshake
  <2> QED BY <2>1 DEF SessionInv
<1>3. CASE Acting
  BY <1>1, <1>2, <1>3, ReplyActed DEF Acted, SessionInv, Acting, Keep
<1>4. CASE ~Acting
  BY <1>1, <1>2, <1>4, LeftOverReply DEF SessionInv, Acting, Keep
<1> QED BY <1>3, <1>4

------------------------------------------------------------------------------
(* The steps of libfprint and of the system.                               *)

LEMMA QuietKeeps ==
  ASSUME NEW d, Quiet(d)
  PROVE  Quiet([d EXCEPT !.loop = FALSE]) /\ Quiet(ShutdownTls(Bump(d)))
<1> DEFINE b == Bump(d)
           s == ShutdownTls(b)
           c == [d EXCEPT !.loop = FALSE]
<1>1. c \in Driver /\ c.slot = d.slot /\ c.scan = d.scan /\ c.ready = d.ready
      /\ c.warm_attempted = d.warm_attempted
  BY DEF Quiet, Driver
<1>2. b \in Driver /\ b.slot = d.slot /\ b.scan = d.scan
      /\ b.warm_attempted = d.warm_attempted
  BY SlotTypes, BumpFields DEF Quiet
<1> HIDE DEF b, c
<1>3. s \in Driver /\ s.slot = d.slot /\ s.scan = d.scan /\ s.ready = "none"
      /\ s.warm_attempted = d.warm_attempted
  BY <1>2, SlotTypes, ShutFields
<1> HIDE DEF s
<1> QED BY <1>1, <1>3 DEF Quiet, b, c, s

LEMMA IdleDeactivateQuiets ==
  ASSUME NEW d \in Driver, Coherent(d), LeftOver(d), NEW serverUp \in BOOLEAN
  PROVE  LET q == Deactivate(d, serverUp)
         IN  q.slot = "none" /\ q.ready = "none" /\ ~q.scan
<1> DEFINE b == Bump(d)
           t == [b EXCEPT !.scan = FALSE]
           idle == ResetState(t, serverUp)
           p == Park(idle)
           s == ShutdownTls(idle)
           q == Destroy(idle)
           e == Deactivate(d, serverUp)
<1>1. e = IF idle.hop # "none" /\ idle.warm_ok /\ ~d.scan THEN p ELSE q
  BY Zenon DEF Deactivate
<1>2. /\ b \in Driver /\ b.slot = d.slot /\ b.ready # "current"
      /\ d.ready = "none" => b.ready = "none"
      /\ b.warm_attempted = d.warm_attempted
  BY SlotTypes, BumpFields
<1> HIDE DEF b
<1>3. /\ t \in Driver /\ t.slot = b.slot /\ t.ready = b.ready /\ ~t.scan
      /\ t.warm_attempted = b.warm_attempted
  BY <1>2 DEF Driver
<1> HIDE DEF t
<1>4. Quiet(t)
  BY <1>2, <1>3 DEF Quiet, Coherent, LeftOver, Handshake
<1>5. idle \in Driver /\ idle.slot = "none" /\ ~idle.scan /\ idle.ready = "none"
  BY <1>4, ResetQuiets
<1> HIDE DEF idle
<1>6. p.slot = "none" /\ p.ready = "none" /\ ~p.scan
  BY <1>5 DEF Park, Driver
<1>7. s \in Driver /\ s.slot = "none" /\ s.ready = "none" /\ ~s.scan
  BY <1>5, SlotTypes, ShutFields
<1>8. q = [s EXCEPT !.loop = FALSE, !.parked = FALSE, !.clean_close = FALSE]
  BY DEF Destroy
<1> HIDE DEF s
<1>9. q.slot = "none" /\ q.ready = "none" /\ ~q.scan
  BY <1>7, <1>8 DEF Driver
<1> HIDE DEF p, q, e
<1> QED BY <1>1, <1>6, <1>9 DEF e

LEMMA ActivateActed ==
  ASSUME NEW d \in Driver, Coherent(d), LeftOver(d), d.reports = 0,
         NEW serverUp \in BOOLEAN
  PROVE  Acted(Activate(d, serverUp))
<1> DEFINE b      == Bump(d)
           begun  == [b EXCEPT !.warm_retried = FALSE, !.parked = FALSE]
           asleep == "park" \in d.slept \cup d.expired
           shut   == ShutdownTls(begun)
           anew   == [shut EXCEPT !.warm_ok = @ /\ ~(d.parked /\ asleep)]
           warm   == WarmFresh(anew)
           x      == [begun EXCEPT !.scan = FALSE, !.loop = TRUE]
           z      == [anew EXCEPT !.scan = FALSE, !.loop = TRUE,
                                  !.warm_attempted = warm, !.warm_ok = warm]
           a      == Activate(d, serverUp)
<1>1. a = IF Reusable(d) /\ ~asleep
          THEN SendFirst(x, "probe", "current", serverUp)
          ELSE SendFirst(z, "nop", "none", serverUp)
  BY Zenon DEF Activate
<1>2. /\ b \in Driver /\ b.slot = d.slot /\ b.hop = d.hop /\ b.ready # "current"
      /\ d.ready = "none" => b.ready = "none"
      /\ b.reports = 0 /\ b.warm_ok = d.warm_ok
      /\ b.slotGen \in Gens /\ (d.slotGen = "none" => b.slotGen = "none")
  <2>1. b \in Driver
    BY SlotTypes
  <2>2. b.slotGen \in Gens /\ (d.slotGen = "none" => b.slotGen = "none")
    BY DEF Bump, Stale, Driver, Gens
  <2> QED BY <2>1, <2>2, BumpFields
<1> HIDE DEF b
<1>3. /\ begun \in Driver /\ begun.slot = b.slot /\ begun.hop = b.hop
      /\ begun.ready = b.ready /\ begun.reports = 0 /\ begun.warm_ok = b.warm_ok
  BY <1>2 DEF Driver
<1> HIDE DEF begun
<1>4. /\ shut \in Driver /\ shut.slot = begun.slot /\ shut.hop = "none"
      /\ shut.ready = "none" /\ shut.reports = 0 /\ shut.warm_ok = begun.warm_ok
  BY <1>3, SlotTypes, ShutFields
<1> HIDE DEF shut
<1>5. /\ anew \in Driver /\ anew.slot = shut.slot /\ anew.hop = "none"
      /\ anew.ready = "none" /\ anew.reports = 0
      /\ anew.warm_ok => shut.warm_ok
  <2>1. ASSUME NEW w \in BOOLEAN
        PROVE  LET c == [shut EXCEPT !.warm_ok = w]
               IN  /\ c \in Driver /\ c.slot = shut.slot /\ c.hop = shut.hop
                   /\ c.ready = shut.ready /\ c.reports = shut.reports
                   /\ c.warm_ok = w
    BY <1>4 DEF Driver
  <2> DEFINE w == shut.warm_ok /\ ~(d.parked /\ asleep)
  <2>2. w \in BOOLEAN /\ (w => shut.warm_ok)
    OBVIOUS
  <2>3. anew = [shut EXCEPT !.warm_ok = w]
    OBVIOUS
  <2> HIDE DEF w, anew
  <2> QED BY <1>4, <2>1, <2>2, <2>3
<1> HIDE DEF anew
<1>6. warm \in BOOLEAN /\ (warm => anew.warm_ok)
  BY DEF WarmFresh
<1> HIDE DEF warm
<1>7. /\ z \in Driver /\ z.slot = d.slot /\ z.hop = "none" /\ z.ready = "none"
      /\ z.loop /\ ~z.scan /\ z.reports = 0 /\ (z.warm_attempted => d.warm_ok)
  <2>1. warm => d.warm_ok
    BY <1>2, <1>3, <1>4, <1>5, <1>6, Zenon
  <2>2. /\ z \in Driver /\ z.slot = anew.slot /\ z.hop = "none" /\ z.ready = "none"
        /\ z.loop /\ ~z.scan /\ z.reports = 0 /\ z.warm_attempted = warm
    BY <1>5, <1>6 DEF Driver
  <2> QED BY <1>2, <1>3, <1>4, <1>5, <2>1, <2>2
<1>8. /\ x \in Driver /\ x.slot = d.slot /\ x.hop = d.hop /\ x.ready = b.ready
      /\ x.loop /\ ~x.scan /\ x.reports = 0
  BY <1>2, <1>3 DEF Driver
<1> HIDE DEF x, z, asleep
<1>9. ASSUME NEW c \in Driver, c.slot = "none", c.loop, ~c.scan, c.reports = 0,
             c.ready = "none"
      PROVE  /\ c.hop # "none" => Acted(Send(c, "probe", "current"))
             /\ c.hop = "none" => Acted(Send(c, "nop", "none"))
  <2> DEFINE y == [c EXCEPT !.slotGen = "none"]
  <2>1. Between(y) /\ y.ready = "none" /\ y.hop = c.hop
    BY <1>9 DEF Between, Driver, Gens
  <2>2. \A w, gen : Send(y, w, gen) = Send(c, w, gen)
    BY <1>9 DEF Send, Driver
  <2> HIDE DEF y
  <2> QED BY <2>1, <2>2, SendActed DEF Waiters, Ladder, Handshake
<1>10. CASE Reusable(d) /\ ~asleep
  <2>1. d.slot \in {"none", "tlsReq"} /\ x.hop # "none"
    BY <1>8, <1>10 DEF Reusable, LeftOver
  <2>2. CASE d.slot = "none"
    <3>1. x.ready = "none"
      BY <1>2, <1>8, <2>2 DEF Coherent, Handshake
    <3> QED BY <1>1, <1>8, <1>9, <1>10, <2>1, <2>2, <3>1 DEF SendFirst, a
  <2>3. CASE d.slot = "tlsReq"
    <3> DEFINE y == ResetState(x, serverUp)
    <3>1. Quiet(x)
      BY <1>2, <1>8, <2>3 DEF Quiet
    <3>2. Between(y) /\ y.hop # "none" /\ y.ready = "none"
      BY <1>8, <2>1, <2>3, <3>1, ResetQuiets DEF Between
    <3> HIDE DEF y
    <3>3. a = Failed(y, "probe", "current", serverUp)
      BY <1>1, <1>8, <1>10, <2>3 DEF SendFirst, y
    <3>4. Failed(y, "probe", "current", serverUp) = ProbeFailed(y, FALSE)
      BY DEF Failed, Handshake
    <3> QED BY <3>2, <3>3, <3>4, ProbeFailedActed
  <2> QED BY <2>1, <2>2, <2>3
<1>11. CASE ~(Reusable(d) /\ ~asleep)
  <2> DEFINE y == ResetState(z, serverUp)
  <2>1. CASE d.slot = "none"
    BY <1>1, <1>7, <1>9, <1>11, <2>1 DEF SendFirst, a
  <2>2. CASE d.slot # "none"
    <3>1. Quiet(z) /\ d.slot \in {"nop", "otp", "tlsReq"}
      BY <1>7, <2>2 DEF Quiet, LeftOver
    <3>2. /\ y \in Driver /\ y.slot = "none" /\ y.slotGen = "none" /\ ~y.scan
          /\ y.ready = "none" /\ y.hop = "none" /\ y.loop
          /\ d.slot = "tlsReq" => y.reports = 0
          /\ d.slot \in {"nop", "otp"} => y.reports # 0 /\ ~y.warm_attempted
      BY <1>7, <3>1, ResetQuiets
    <3> HIDE DEF y
    <3>3. a = ActivateFailed(y)
      <4>1. a = Failed(y, "nop", "none", serverUp)
        BY <1>1, <1>7, <1>11, <2>2 DEF SendFirst, y
      <4>2. Failed(y, "nop", "none", serverUp) = ActivateFailed(y)
        BY DEF Failed, Handshake
      <4> QED BY <4>1, <4>2
    <3>4. CASE d.slot = "tlsReq"
      BY <3>2, <3>3, <3>4, ActivateFailedActed DEF Between
    <3>5. CASE d.slot \in {"nop", "otp"}
      <4> DEFINE c == Distrust(y)
      <4>1. c \in Driver /\ c.slot = "none" /\ c.ready = "none" /\ ~c.scan
        BY <3>2, SlotTypes, DistrustFields
      <4> HIDE DEF c
      <4>2. a = Report(c)
        BY <3>2, <3>3, <3>5 DEF ActivateFailed, WarmRetry, c
      <4> QED BY <4>1, <4>2, ReportActed
    <3> QED BY <3>1, <3>4, <3>5
  <2> QED BY <2>1, <2>2
<1> QED BY <1>10, <1>11

LEMMA ClientKeeps ==
  ASSUME TypeOK, SessionInv, Client \/ Return
  PROVE  SessionInv'
<1>1. /\ h \in Driver /\ Coherent(h) /\ (busy => open) /\ (~open => h.slot = "none")
      /\ Acting => StageOK(h)
      /\ ~Acting => LeftOver(h)
  BY DEF TypeOK, SessionInv
<1>2. ASSUME NEW replugged \in BOOLEAN, NEW claimed \in BOOLEAN, Open(replugged, claimed)
      PROVE  SessionInv'
  <2> DEFINE f == ClearSlot(h)
  <2>1. f \in Driver /\ f.slot = "none" /\ f.ready = h.ready /\ f.scan = h.scan
    BY <1>1, SlotTypes, ClearFields
  <2> HIDE DEF f
  <2>2. h'.slot = "none" /\ h'.ready = h.ready /\ h'.scan = h.scan
    BY <1>2, <2>1 DEF Open, Driver, f
  <2>3. ~busy' /\ h.slot = "none"
    BY <1>1, <1>2 DEF Open
  <2> QED BY <1>1, <2>2, <2>3 DEF SessionInv, Acting, Coherent, LeftOver, Handshake
<1>3. ASSUME NEW released \in BOOLEAN, NEW serverUp \in BOOLEAN, Close(released, serverUp)
      PROVE  SessionInv'
  <2> DEFINE parks   == ~h.scan /\ h.warm_ok /\ h.hop # "none"
             left    == [h EXCEPT !.scan = FALSE]
             settled == IF parks THEN Deactivate(h, serverUp) ELSE left
             kept    == IF settled.clean_close THEN settled
                        ELSE ShutdownTls(Bump(settled))
             still   == [kept EXCEPT !.loop = FALSE]
             reset   == ResetState(still, serverUp)
             final   == [reset EXCEPT !.slept = @ \ {"close"}]
             gone    == ShutdownTls(Bump(final))
  <2>1. LeftOver(h) /\ ~busy' /\ ~open'
    BY <1>1, <1>3 DEF Close, Idle, Acting
  <2>2. /\ \/ h' = final
           \/ h' = [gone EXCEPT !.clean_close = FALSE]
           \/ h' = [final EXCEPT !.clean_close = FALSE]
    BY <1>3, Zenon DEF Close
  <2>3. left \in Driver /\ left.slot = h.slot /\ ~left.scan /\ left.ready = h.ready
        /\ left.warm_attempted = h.warm_attempted
    BY <1>1 DEF Driver
  <2>4. ~parks => Quiet(left)
    <3> SUFFICES ASSUME ~parks PROVE Quiet(left)
      OBVIOUS
    <3>1. h.slot # "scan" /\ ~h.scan
      BY <1>1, <2>1 DEF LeftOver, Coherent
    <3>2. h.slot = "tlsReq" => h.ready = "none"
      BY <1>1, <2>1, <3>1 DEF Coherent, LeftOver
    <3> HIDE DEF left
    <3>3. h.slot # "tlsReq" => h.ready = "none"
      BY <1>1, <2>1 DEF Coherent, LeftOver, Handshake
    <3> QED BY <2>1, <2>3, <3>2, <3>3 DEF Quiet, LeftOver
  <2>5. Quiet(settled)
    <3> DEFINE q == Deactivate(h, serverUp)
    <3>1. Quiet(q)
      BY <1>1, <2>1, DeactivateType, IdleDeactivateQuiets DEF Quiet
    <3> HIDE DEF q, left, parks
    <3> QED BY <2>4, <3>1 DEF q
  <2> HIDE DEF settled
  <2>6. Quiet(kept)
    BY <2>5, QuietKeeps
  <2> HIDE DEF kept
  <2>7. Quiet(still)
    BY <2>6, QuietKeeps
  <2> HIDE DEF still
  <2>8. reset \in Driver /\ reset.slot = "none" /\ reset.ready = "none" /\ ~reset.scan
    BY <2>7, ResetQuiets
  <2> HIDE DEF reset
  <2>9. final \in Driver /\ final.slot = "none" /\ final.ready = "none" /\ ~final.scan
    BY <2>8 DEF Driver
  <2> HIDE DEF final
  <2>10. Quiet(gone) /\ gone.ready = "none" /\ gone.slot = "none"
    <3> DEFINE b == Bump(final)
    <3>1. b \in Driver /\ b.slot = "none"
      BY <2>9, SlotTypes, BumpFields
    <3>2. Quiet(final)
      BY <2>9 DEF Quiet
    <3> HIDE DEF b
    <3>3. ShutdownTls(b).ready = "none" /\ ShutdownTls(b).slot = "none"
      BY <3>1, ShutFields
    <3> QED BY <3>2, <3>3, QuietKeeps DEF b
  <2> HIDE DEF gone
  <2>11. h'.slot = "none" /\ h'.ready = "none" /\ ~h'.scan
    BY <2>2, <2>9, <2>10 DEF Quiet, Driver
  <2> QED BY <2>1, <2>11 DEF SessionInv, Acting, Coherent, LeftOver
<1>4. ASSUME NEW usable \in BOOLEAN, NEW serverUp \in BOOLEAN, Claim(usable, serverUp)
      PROVE  SessionInv'
  <2> DEFINE d == [h EXCEPT !.reports = 0]
             r == Report(d)
  <2>1. /\ d \in Driver /\ d.reports = 0 /\ d.slot = h.slot /\ d.ready = h.ready
        /\ d.scan = h.scan /\ d.hop = h.hop /\ d.loop = h.loop
        /\ d.warm_ok = h.warm_ok /\ d.warm_attempted = h.warm_attempted
    BY <1>1 DEF Driver
  <2> HIDE DEF d
  <2>2. open /\ open' = open /\ busy' /\ ~suspending' /\ LeftOver(h)
    BY <1>1, <1>4 DEF Claim, Idle, Acting
  <2>3. Coherent(d) /\ LeftOver(d)
    BY <1>1, <2>1, <2>2 DEF Coherent, LeftOver
  <2>4. Acted(Activate(d, serverUp))
    BY <2>1, <2>3, ActivateActed
  <2>5. /\ r.reports # 0 /\ r.slot = d.slot /\ r.scan = d.scan /\ r.ready = d.ready
        /\ r.hop = d.hop /\ r.loop = d.loop
        /\ r.warm_ok = d.warm_ok /\ r.warm_attempted = d.warm_attempted
    BY <2>1, ReportFields
  <2>6. r \in Driver
    BY <2>1, SlotTypes
  <2> HIDE DEF r
  <2>7. Acted(r)
    BY <2>3, <2>5, <2>6 DEF Acted, Coherent, LeftOver
  <2>8. h' = Activate(d, serverUp) \/ h' = r
    BY <1>4 DEF Claim, d, r
  <2>9. Acted(h')
    BY <2>4, <2>7, <2>8
  <2> QED BY <2>2, <2>9 DEF Acted, SessionInv, Acting
<1>5. ASSUME NEW serverUp \in BOOLEAN, Cancel(serverUp)
      PROVE  SessionInv'
  <2> DEFINE d == Deactivate(h, serverUp)
             r == Report(d)
  <2>1. d \in Driver /\ Coherent(d) /\ LeftOver(d)
    BY <1>1, DeactivateType, DeactivateLeaves
  <2> HIDE DEF d
  <2>2. /\ r.reports # 0 /\ r.slot = d.slot /\ r.scan = d.scan /\ r.ready = d.ready
        /\ r.hop = d.hop /\ r.loop = d.loop
        /\ r.warm_ok = d.warm_ok /\ r.warm_attempted = d.warm_attempted
    BY <2>1, ReportFields
  <2> HIDE DEF r
  <2>3. h' = r /\ open' /\ UNCHANGED open
    BY <1>1, <1>5 DEF Cancel, r, d
  <2> QED BY <2>1, <2>2, <2>3 DEF SessionInv, Acting, Coherent, LeftOver
<1>6. CASE Return
  BY <1>1, <1>6 DEF Return, SessionInv, Acting, Coherent, LeftOver, Driver
<1> QED BY <1>2, <1>3, <1>4, <1>5, <1>6 DEF Client

LEMMA SystemKeeps ==
  ASSUME TypeOK, SessionInv, System
  PROVE  SessionInv'
<1>1. /\ h \in Driver /\ Coherent(h) /\ (busy => open) /\ (~open => h.slot = "none")
      /\ Acting => StageOK(h)
      /\ ~Acting => LeftOver(h)
  BY DEF TypeOK, SessionInv
<1>2. ASSUME NEW serverUp \in BOOLEAN, Suspend(serverUp)
      PROVE  SessionInv'
  <2> DEFINE o == [Bump(h) EXCEPT !.parked = FALSE, !.clean_close = FALSE,
                                  !.warm_ok = FALSE, !.warm_attempted = FALSE,
                                  !.scan = FALSE]
             r == ResetState(o, serverUp)
             f == [r EXCEPT !.loop = FALSE]
             s == ShutdownTls(f)
  <2>1. h' = s /\ open /\ UNCHANGED open /\ suspending'
    BY <1>1, <1>2 DEF Suspend
  <2>2. Torn(o)
    BY <1>1, BumpTears
  <2> HIDE DEF o
  <2>3. Disarmed(r)
    BY <2>2, ResetDisarms
  <2> HIDE DEF r
  <2>4. /\ f \in Driver /\ f.slot = r.slot /\ ~f.scan /\ ~f.loop
        /\ f.warm_ok = r.warm_ok /\ f.warm_attempted = r.warm_attempted
    BY <2>3 DEF Disarmed, Driver
  <2> HIDE DEF f
  <2>5. /\ s.slot = r.slot /\ ~s.scan /\ ~s.loop /\ s.hop = "none" /\ s.ready = "none"
        /\ s.warm_ok = r.warm_ok /\ s.warm_attempted = r.warm_attempted
    BY <2>4, ShutFields
  <2> HIDE DEF s
  <2>6. Coherent(s) /\ LeftOver(s)
    BY <2>3, <2>5 DEF Disarmed, Coherent, LeftOver
  <2> QED BY <2>1, <2>6 DEF SessionInv, Acting
<1>3. ASSUME NEW stamp \in {"park", "warm"}, Expire(stamp)
      PROVE  SessionInv'
  <2>1. /\ h'.slot = h.slot /\ h'.slotGen = h.slotGen /\ h'.scan = h.scan
        /\ h'.ready = h.ready /\ h'.hop = h.hop /\ h'.loop = h.loop
        /\ h'.reports = h.reports
        /\ h'.warm_ok = h.warm_ok /\ h'.warm_attempted = h.warm_attempted
        /\ UNCHANGED <<open, busy, suspending>>
    BY <1>1, <1>3 DEF Expire, Driver
  <2> QED BY <1>1, <2>1 DEF SessionInv, Acting, Coherent, StageOK, LeftOver
<1>4. CASE Sleep
  <2>1. /\ h'.slot = h.slot /\ h'.scan = h.scan /\ h'.ready = h.ready
        /\ h'.hop = h.hop /\ h'.loop = h.loop
        /\ h'.warm_ok = h.warm_ok /\ h'.warm_attempted = h.warm_attempted
        /\ ~busy /\ UNCHANGED <<open, busy>>
    BY <1>1, <1>4 DEF Sleep, Driver
  <2> QED BY <1>1, <2>1 DEF SessionInv, Acting, Coherent, LeftOver
<1>5. CASE Restart
  BY <1>5 DEF Restart, NewDriver, SessionInv, Acting, Coherent, LeftOver
<1> QED BY <1>2, <1>3, <1>4, <1>5 DEF System

LEMMA InvInit == Init => SessionInv
  BY DEF Init, NewDriver, SessionInv, Acting, Coherent, LeftOver

LEMMA InvStep == TypeOK /\ SessionInv /\ [Next]_vars => SessionInv'
<1>1. SessionInv /\ UNCHANGED vars => SessionInv'
  BY DEF vars, SessionInv, Acting, Coherent, StageOK, LeftOver
<1> QED BY <1>1, ClientKeeps, SystemKeeps, ReplyKeeps DEF Next

(* Every action keeps its stage and every end of one leaves little behind, *)
(* in goodix5e0a.c's activation, cancellation, suspend, close and reply    *)
(* paths, whichever waiters are cancelled and whatever the environment does*)
THEOREM SessionHolds == Spec => []SessionInv
<1>1. Init => TypeOK /\ SessionInv
  BY InitType, InvInit
<1>2. TypeOK /\ SessionInv /\ [Next]_vars => (TypeOK /\ SessionInv)'
  BY TypeStep, InvStep
<1> QED BY <1>1, <1>2, PTL DEF Spec

(* No action of goodix5e0a.c is lost: while one runs, unreported, the slot *)
(* of the transport is armed and the read loop listens for its answer.     *)
THEOREM ActionsAdvance == Spec => []ActionHasWaiter
<1>1. SessionInv => ActionHasWaiter
  BY DEF SessionInv, ActionHasWaiter, StageOK, Waiters, Ladder, Handshake
<1> QED BY <1>1, SessionHolds, PTL

(* The assertion of goodix_tls_init and the dereference of the TLS server  *)
(* in the handshake relay of goodix.c never fail.                          *)
THEOREM TlsServerThere == Spec => []TlsServerInTime
<1>1. SessionInv => TlsServerInTime
  BY DEF SessionInv, TlsServerInTime, StageOK, LeftOver, Ladder, Handshake
<1> QED BY <1>1, SessionHolds, PTL

(* The scan of goodix5e0a.c and its waiter come and go together.           *)
THEOREM ScanOwnsWaiter == Spec => []ScanWaiterOwned
<1>1. SessionInv => ScanWaiterOwned
  BY DEF SessionInv, ScanWaiterOwned, Coherent
<1> QED BY <1>1, SessionHolds, PTL
==============================================================================
