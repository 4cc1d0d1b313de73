------------------- MODULE Goodix5e0aSessionGuardedProofs -------------------
(***************************************************************************)
(* What holds of a session whose claims are only cancelled while the scan, *)
(* or a waiter that checks the generation, is armed: a claim is reported   *)
(* once, no waiter outlives it and a park is sound.  If moreover nothing   *)
(* touches the sensor behind the driver's back, a scan runs on a live one. *)
(* The runs that expect a violation show what becomes of this elsewhere.   *)
(***************************************************************************)
EXTENDS Goodix5e0aSessionProofs

(* The cancellations that are clean, and the environments in which what the*)
(* driver remembers of the sensor stays true.                              *)
CancelGuarded == CancelDuring \subseteq {"config", "probe", "scan"}
Guarded       == CancelGuarded /\ Events \subseteq {"release"}

(* The sensor holds the TLS key and the config.                            *)
Live(s) == s.keyed /\ s.configured

Ideal == [keyed |-> TRUE, configured |-> TRUE]

Late  == {"config", "enable", "probe", "scan"}
Armed == {"enable", "probe", "scan"}

(* The stages of an action: from the config on the key is shared, and a    *)
(* warm ladder rests on a warm stamp.                                      *)
Staged(d) ==
  /\ d.slot \in Late => d.hop = "agreed"
  /\ d.warm_attempted => d.warm_ok /\ d.slot \notin {"config", "probe", "scan"}

(* What the sensor holds at each stage.                                    *)
Fed(d, s) ==
  /\ d.slot \in Late => s.keyed
  /\ d.warm_ok \/ d.slot \in Armed => s.configured

Up(d, s) == Staged(d) /\ Fed(d, s)

(* What is left when no action runs.                                       *)
Rest(d) ==
  /\ ~d.warm_attempted
  /\ d.hop = "fresh" => ~d.warm_ok /\ ~d.parked
  /\ d.parked /\ d.hop # "none" => ~d.loop

(* What the driver remembers of the sensor from one claim to the next, so  *)
(* long as no sleep has passed its stamps.                                 *)
Memory(d, s) ==
  /\ d.warm_ok /\ d.warmBoot /\ "warm" \notin d.slept => s.configured
  /\ d.parked /\ d.hop # "none" /\ "park" \notin d.slept => Live(s)

(* A waiter outlives its action only while a suspend waits for the cancel. *)
Told ==
  /\ h.reports < 2
  /\ ~Acting => \/ h.slot = "none"
                \/ /\ busy /\ suspending /\ h.reports = 0
                   /\ h.slot = "tlsReq" /\ h.ready = "none"

Resting ==
  /\ Rest(h)
  /\ suspending => h.hop = "none" /\ ~h.clean_close /\ ~h.parked

StageInv ==
  /\ Told
  /\ Acting => Staged(h) /\ ~h.parked
  /\ ~Acting => Resting

Clean ==
  /\ h.clean_close /\ (open \/ "close" \notin h.slept) => Live(sensor)
  /\ ~open /\ h.hop # "none" => h.clean_close
  /\ ~open /\ "close" \in h.slept => h.slept = Stamps

LiveInv ==
  /\ Acting => Fed(h, sensor)
  /\ ~Acting /\ used /\ open /\ h.warm_ok /\ h.hop # "none" => Live(sensor)
  /\ Memory(h, sensor)
  /\ Clean

------------------------------------------------------------------------------
(* What the operators keep.  A driver forgets when it remembers nothing of *)
(* the sensor that it did not remember before.                             *)

Same(c, d) ==
  /\ c \in Driver
  /\ c.hop = d.hop /\ c.parked = d.parked /\ c.loop = d.loop
  /\ c.warm_ok = d.warm_ok /\ c.warmBoot = d.warmBoot
  /\ c.warm_attempted = d.warm_attempted /\ c.clean_close = d.clean_close
  /\ c.slept = d.slept

Forgets(c, d) ==
  /\ c \in Driver
  /\ c.parked => d.parked
  /\ c.clean_close => d.clean_close
  /\ c.warm_ok => d.warm_ok /\ c.warmBoot = d.warmBoot /\ c.slept = d.slept

(* What an answer leaves of an action that ran on a driver d.              *)
Went(c, d, s) ==
  /\ c \in Driver
  /\ s.configured \/ Forgets(c, d)
  /\ c.parked => d.parked
  /\ c.clean_close => d.clean_close
  /\ c.reports < 2
  /\ c.reports = 0 => Up(c, s)
  /\ c.reports # 0 =>
       /\ c.slot = "none" /\ ~c.warm_attempted
       /\ c.hop = "fresh" => ~c.warm_ok
       /\ c.warm_ok /\ c.hop # "none" => Live(s)

LEMMA SlotSame ==
  ASSUME NEW d \in Driver
  PROVE  /\ Same(ClearSlot(d), d)
         /\ \A w \in Waiters, g \in Gens :
              Same(Send(d, w, g), d) /\ Send(d, w, g).slot = w
                 /\ Send(d, w, g).reports = d.reports
         /\ Same(Bump(d), d)
<1> DEFINE Kept(c) == /\ c.hop = d.hop /\ c.parked = d.parked /\ c.loop = d.loop
                      /\ c.warm_ok = d.warm_ok /\ c.warmBoot = d.warmBoot
                      /\ c.warm_attempted = d.warm_attempted
                      /\ c.clean_close = d.clean_close /\ c.slept = d.slept
<1>1. Kept(ClearSlot(d))
  BY DEF ClearSlot, Driver
<1>2. ASSUME NEW w, NEW g
      PROVE  Kept(Send(d, w, g)) /\ Send(d, w, g).slot = w
                /\ Send(d, w, g).reports = d.reports
  BY DEF Send, Driver
<1>3. Kept(Bump(d))
  BY DEF Bump, Driver
<1>4. \A c \in Driver : Kept(c) => Same(c, d)
  BY DEF Same
<1> HIDE DEF Kept
<1> QED BY <1>1, <1>2, <1>3, <1>4, SlotTypes

LEMMA ReportMemory ==
  ASSUME NEW d \in Driver
  PROVE  /\ Same(Report(d), d)
         /\ Report(d).slot = d.slot /\ Report(d).scan = d.scan
         /\ Report(d).reports = IF d.reports = 0 THEN 1 ELSE 2
<1> DEFINE r == Report(d)
<1>1. /\ r.hop = d.hop /\ r.parked = d.parked /\ r.loop = d.loop
      /\ r.warm_ok = d.warm_ok /\ r.warmBoot = d.warmBoot
      /\ r.warm_attempted = d.warm_attempted /\ r.clean_close = d.clean_close
      /\ r.slept = d.slept /\ r.slot = d.slot /\ r.scan = d.scan
      /\ r.reports = IF d.reports = 0 THEN 1 ELSE 2
  BY DEF Report, Driver
<1>2. r \in Driver
  BY SlotTypes
<1> HIDE DEF r
<1> QED BY <1>1, <1>2 DEF Same, r

LEMMA ShutMemory ==
  ASSUME NEW d \in Driver
  PROVE  LET s == ShutdownTls(d)
         IN  /\ s \in Driver /\ s.hop = "none"
             /\ s.parked = d.parked /\ s.loop = d.loop
             /\ s.warm_ok = d.warm_ok /\ s.warmBoot = d.warmBoot
             /\ s.warm_attempted = d.warm_attempted
             /\ s.clean_close = d.clean_close /\ s.slept = d.slept
             /\ s.expired = d.expired /\ s.slot = d.slot /\ s.reports = d.reports
<1> DEFINE s == ShutdownTls(d)
<1>1. /\ s.parked = d.parked /\ s.warmBoot = d.warmBoot
      /\ s.clean_close = d.clean_close /\ s.slept = d.slept /\ s.expired = d.expired
  BY DEF ShutdownTls, Driver
<1> HIDE DEF s
<1> QED BY <1>1, SlotTypes, ShutFields DEF s

LEMMA DistrustMemory ==
  ASSUME NEW d \in Driver
  PROVE  LET c == Distrust(d)
         IN  /\ c \in Driver /\ ~c.warm_ok /\ ~c.warm_attempted /\ ~c.clean_close
             /\ c.hop = d.hop /\ c.parked = d.parked /\ c.slot = d.slot
             /\ c.reports = d.reports
<1> DEFINE c == Distrust(d)
<1>1. ~c.clean_close /\ c.parked = d.parked
  BY DEF Distrust, Driver
<1> HIDE DEF c
<1> QED BY <1>1, SlotTypes, DistrustFields DEF c

LEMMA ForgetsOn ==
  ASSUME NEW b, NEW c, NEW d, NEW s
  PROVE  /\ Same(c, d) => Forgets(c, d)
         /\ Forgets(c, b) /\ Forgets(b, d) => Forgets(c, d)
         /\ Went(c, b, s) /\ Forgets(b, d) => Went(c, d, s)
  BY DEF Same, Forgets, Went

------------------------------------------------------------------------------
(* The answers of an action.                                               *)

(* An action that is reported, in general and after its session is dirtied.*)
LEMMA ReportWent ==
  ASSUME NEW d \in Driver, NEW s \in Sensor, d.reports = 0, d.slot = "none"
  PROVE  /\ /\ ~d.warm_attempted
            /\ d.hop = "fresh" => ~d.warm_ok
            /\ d.warm_ok /\ d.hop # "none" => Live(s)
            => Went(Report(d), d, s)
         /\ Went(Report(Distrust(d)), d, s)
<1> DEFINE c == Distrust(d)
           r == Report(d)
           e == Report(c)
<1>1. /\ c \in Driver /\ ~c.warm_ok /\ ~c.warm_attempted /\ ~c.clean_close
      /\ c.parked = d.parked /\ c.slot = "none" /\ c.reports = 0
  BY DistrustMemory
<1> HIDE DEF c
<1>2. Same(r, d) /\ r.slot = "none" /\ r.reports = 1
  BY ReportMemory
<1>3. Same(e, c) /\ e.slot = "none" /\ e.reports = 1
  BY <1>1, ReportMemory
<1> HIDE DEF r, e
<1>4. /\ ~d.warm_attempted
      /\ d.hop = "fresh" => ~d.warm_ok
      /\ d.warm_ok /\ d.hop # "none" => Live(s)
      => Went(r, d, s)
  BY <1>2 DEF Same, Forgets, Went
<1>5. Went(e, d, s)
  BY <1>1, <1>3 DEF Same, Forgets, Went
<1> QED BY <1>4, <1>5 DEF r, c, e

LEMMA LadderWent ==
  ASSUME NEW d \in Driver, NEW s \in Sensor, NEW warm \in BOOLEAN, d.reports = 0,
         d.warm_ok => s.configured, warm => d.warm_ok
  PROVE  Went(StartLadder(d, warm), d, s)
<1> DEFINE c == StartLadder(d, warm)
<1>1. c \in Driver
  BY LadderTypes
<1>2. /\ c.slot = "nop" /\ c.reports = 0 /\ c.warm_attempted = warm
      /\ c.parked = d.parked /\ c.clean_close = d.clean_close
      /\ c.warm_ok = d.warm_ok /\ c.warmBoot = d.warmBoot /\ c.slept = d.slept
  BY DEF StartLadder, Send, Driver
<1> HIDE DEF c
<1> QED BY <1>1, <1>2 DEF Went, Forgets, Up, Staged, Fed, Late, Armed, c

(* A failed ladder is restarted without its warm stamp, or reported.       *)
LEMMA FailureWent ==
  ASSUME NEW d \in Driver, NEW s \in Sensor, d.reports = 0, d.slot = "none"
  PROVE  Went(ActivateFailed(d), d, s) /\ Went(TlsFailed(d), d, s)
<1> DEFINE c == Distrust(d)
           t == ShutdownTls(c)
           a == [c EXCEPT !.warm_retried = TRUE]
           b == [t EXCEPT !.warm_retried = TRUE]
           e == Report(c)
           q == [e EXCEPT !.ready = "none"]
<1>1. /\ c \in Driver /\ ~c.warm_ok /\ ~c.warm_attempted /\ ~c.clean_close
      /\ c.parked = d.parked /\ c.slot = "none" /\ c.reports = 0
  BY DistrustMemory
<1>2. Went(e, d, s)
  BY ReportWent
<1> HIDE DEF c
<1>3. /\ t \in Driver /\ ~t.warm_ok /\ ~t.clean_close /\ t.parked = d.parked
      /\ t.reports = 0
  BY <1>1, ShutMemory
<1> HIDE DEF t, e
<1>4. /\ a \in Driver /\ ~a.warm_ok /\ ~a.clean_close /\ a.parked = d.parked
      /\ a.reports = 0
  BY <1>1 DEF Driver
<1>5. /\ b \in Driver /\ ~b.warm_ok /\ ~b.clean_close /\ b.parked = d.parked
      /\ b.reports = 0
  BY <1>3 DEF Driver
<1>6. /\ q \in Driver /\ q.slot = e.slot /\ q.reports = e.reports /\ q.hop = e.hop
      /\ q.parked = e.parked /\ q.clean_close = e.clean_close
      /\ q.warm_ok = e.warm_ok /\ q.warm_attempted = e.warm_attempted
      /\ q.warmBoot = e.warmBoot /\ q.slept = e.slept
  BY <1>2 DEF Went, Driver, Gens
<1> HIDE DEF a, b, q
<1>7. Forgets(a, d) /\ Forgets(b, d)
  BY <1>4, <1>5 DEF Forgets
<1>8. Went(StartLadder(a, FALSE), d, s) /\ Went(StartLadder(b, FALSE), d, s)
  BY <1>4, <1>5, <1>7, LadderWent, ForgetsOn
<1>9. Went(q, d, s)
  <2>1. e.reports # 0
    BY <1>1, ReportFields DEF e
  <2> QED BY <1>2, <1>6, <2>1 DEF Went, Forgets
<1> QED BY <1>2, <1>8, <1>9 DEF ActivateFailed, TlsFailed, a, b, c, e, q, t

(* A command of the same stage, or of the next.                            *)
LEMMA SendWent ==
  ASSUME NEW d \in Driver, NEW s \in Sensor, NEW w \in Waiters, NEW gen \in Gens,
         d.reports = 0,
         w \in Late => d.hop = "agreed" /\ s.keyed,
         d.warm_ok \/ w \in Armed => s.configured,
         d.warm_attempted => d.warm_ok /\ w \notin {"config", "probe", "scan"}
  PROVE  Went(Send(d, w, gen), d, s)
<1> DEFINE c == Send(d, w, gen)
<1>1. Same(c, d) /\ c.slot = w /\ c.reports = 0
  BY SlotSame
<1> HIDE DEF c
<1> QED BY <1>1 DEF Same, Went, Forgets, Up, Staged, Fed, c

LEMMA HandshakeWent ==
  ASSUME NEW d \in Driver, NEW s \in Sensor, d.reports = 0, d.slot = "none",
         d.warm_ok => s.configured, d.warm_attempted => d.warm_ok
  PROVE  /\ \A serverUp \in BOOLEAN : Went(TlsInit(d, serverUp), d, s)
         /\ d.ready = "current" => Went(TlsReadyError(d), d, s)
         /\ d.ready = "current" /\ s.keyed => Went(TlsReady(d), d, s)
<1> DEFINE up   == [d EXCEPT !.hop = "fresh", !.ready = "current"]
           down == [d EXCEPT !.hop = "none"]
           told == [d EXCEPT !.hop = "agreed", !.ready = "none"]
           Alike(c) == /\ c \in Driver /\ c.reports = 0 /\ c.slot = "none"
                       /\ c.parked = d.parked /\ c.clean_close = d.clean_close
                       /\ c.warm_ok = d.warm_ok /\ c.warmBoot = d.warmBoot
                       /\ c.slept = d.slept /\ c.warm_attempted = d.warm_attempted
<1>1. Alike(up)
  BY DEF Driver, Gens
<1>2. Alike(down)
  BY DEF Driver
<1>3. Alike(told) /\ told.hop = "agreed"
  BY DEF Driver, Gens
<1> HIDE DEF up, down, told
<1>4. Forgets(up, d) /\ Forgets(down, d) /\ Forgets(told, d)
  BY <1>1, <1>2, <1>3 DEF Forgets
<1>5. Went(Send(up, "tlsReq", "none"), d, s)
  <2>1. "tlsReq" \in Waiters /\ "tlsReq" \notin Late /\ "none" \in Gens
    BY DEF Waiters, Handshake, Late, Gens
  <2>2. Went(Send(up, "tlsReq", "none"), up, s)
    BY <1>1, <2>1, SendWent DEF Armed
  <2> QED BY <1>4, <2>2, ForgetsOn
<1>6. Went(TlsFailed(down), d, s)
  BY <1>2, <1>4, FailureWent, ForgetsOn
<1>7. ASSUME s.keyed
      PROVE  Went(Send(told, IF d.warm_attempted THEN "enable" ELSE "config", "current"), d, s)
  <2>1. {"enable", "config"} \subseteq Waiters /\ "current" \in Gens
    BY DEF Waiters, Gens
  <2>2. CASE d.warm_attempted
    <3>1. Went(Send(told, "enable", "current"), told, s)
      BY <1>3, <1>7, <2>1, <2>2, SendWent
    <3> QED BY <1>4, <2>2, <3>1, ForgetsOn
  <2>3. CASE ~d.warm_attempted
    <3>1. Went(Send(told, "config", "current"), told, s)
      BY <1>3, <1>7, <2>1, <2>3, SendWent DEF Armed
    <3> QED BY <1>4, <2>3, <3>1, ForgetsOn
  <2> QED BY <2>2, <2>3
<1>8. Went(TlsFailed(d), d, s)
  BY FailureWent
<1> QED BY <1>5, <1>6, <1>7, <1>8 DEF TlsInit, TlsReadyError, TlsReady, up, down, told

LEMMA ProbeWent ==
  ASSUME NEW d \in Driver, NEW s \in Sensor, d.reports = 0,
         d.warm_ok => s.configured, NEW timedOut \in BOOLEAN
  PROVE  Went(ProbeFailed(d, timedOut), d, s)
<1> DEFINE t == ShutdownTls(d)
           c(b) == [t EXCEPT !.warm_ok = b]
<1>1. /\ t \in Driver /\ t.reports = 0 /\ t.parked = d.parked
      /\ t.clean_close = d.clean_close /\ t.warm_ok = d.warm_ok
      /\ t.warmBoot = d.warmBoot /\ t.slept = d.slept
  BY ShutMemory
<1> HIDE DEF t
<1>2. ASSUME NEW b \in BOOLEAN, b => d.warm_ok
      PROVE  Went(StartLadder(c(b), FALSE), d, s)
  <2>1. /\ c(b) \in Driver /\ c(b).reports = 0 /\ c(b).parked = d.parked
        /\ c(b).clean_close = d.clean_close /\ c(b).warm_ok = b
        /\ c(b).warmBoot = d.warmBoot /\ c(b).slept = d.slept
    BY <1>1 DEF Driver
  <2> HIDE DEF c
  <2>2. Went(StartLadder(c(b), FALSE), c(b), s)
    BY <1>2, <2>1, LadderWent
  <2>3. Forgets(c(b), d)
    BY <1>2, <2>1 DEF Forgets
  <2> QED BY <2>2, <2>3, ForgetsOn
<1>3. WarmFresh(d) => Went(StartLadder(t, TRUE), d, s)
  <2> SUFFICES ASSUME WarmFresh(d) PROVE Went(StartLadder(t, TRUE), d, s)
    OBVIOUS
  <2>1. t.warm_ok
    BY <1>1 DEF WarmFresh
  <2>2. Went(StartLadder(t, TRUE), t, s)
    BY <1>1, <2>1, LadderWent
  <2>3. Forgets(t, d)
    BY <1>1 DEF Forgets
  <2> QED BY <2>2, <2>3, ForgetsOn
<1> DEFINE old == t.warm_ok /\ "warm" \notin d.slept
<1>4. old \in BOOLEAN /\ (old => d.warm_ok)
  BY <1>1
<1>5. /\ Went(StartLadder(c(FALSE), FALSE), d, s)
      /\ Went(StartLadder(c(old), FALSE), d, s)
  BY <1>2, <1>4
<1> QED BY <1>3, <1>5, Zenon DEF ProbeFailed, t

LEMMA ScanWent ==
  ASSUME NEW d \in Driver, NEW s \in Sensor, d.reports = 0, ~d.scan,
         d.hop = "agreed", s.keyed, s.configured
  PROVE  Went(ChipEnabled(d), d, s)
<1> DEFINE c == [d EXCEPT !.warm_ok = TRUE, !.warmBoot = TRUE,
                          !.slept = @ \ {"warm"}, !.expired = @ \ {"warm"},
                          !.warm_attempted = FALSE]
           b == [c EXCEPT !.scan = TRUE]
           e == ChipEnabled(d)
<1>1. /\ c \in Driver /\ ~c.scan /\ c.hop = d.hop /\ c.reports = 0
      /\ ~c.warm_attempted /\ c.parked = d.parked /\ c.clean_close = d.clean_close
  BY DEF Driver
<1> HIDE DEF c
<1>2. /\ b \in Driver /\ b.hop = d.hop /\ b.reports = 0 /\ ~b.warm_attempted
      /\ b.parked = d.parked /\ b.clean_close = d.clean_close
  BY <1>1 DEF Driver
<1>3. e = Send(b, "scan", "none")
  BY <1>1 DEF ChipEnabled, ScanStart, c, b
<1> HIDE DEF b, e
<1>4. "scan" \in Waiters /\ "none" \in Gens
  BY DEF Waiters, Gens
<1>5. Went(e, b, s)
  BY <1>2, <1>3, <1>4, SendWent
<1>6. e \in Driver /\ (e.parked => d.parked) /\ (e.clean_close => d.clean_close)
  BY <1>2, <1>5 DEF Went
<1> QED BY <1>5, <1>6 DEF Went, e

(* An answer takes an action to its next stage, or reports it.             *)
LEMMA AnswerWent ==
  ASSUME TypeOK, SessionInv, StageInv, Acting, TlsReply \/ TimedReply \/ ScanEnds,
         NEW s \in Sensor, Fed(h, s),
         TlsEstablished => s.keyed, ConfigUploaded => s.configured
  PROVE  Went(h', h, s)
<1> DEFINE f == Free
<1>1. /\ h \in Driver /\ h.reports = 0 /\ StageOK(h) /\ Coherent(h)
      /\ Staged(h) /\ ~h.parked
  BY DEF TypeOK, SessionInv, StageInv, Acting, Driver
<1>2. /\ s \in Sensor
      /\ TlsEstablished => s.keyed
      /\ ConfigUploaded => s.configured
  OBVIOUS
<1>3. Same(f, h) /\ f.slot = "none" /\ f.reports = 0 /\ f.ready = h.ready /\ f.scan = h.scan
  BY <1>1, SlotSame, ClearFields DEF Free
<1> HIDE DEF f
<1>4. /\ f \in Driver
      /\ f.warm_ok => s.configured
      /\ f.warm_attempted => f.warm_ok /\ h.slot \notin {"config", "probe", "scan"}
      /\ h.slot \in Late => f.hop = "agreed" /\ s.keyed
      /\ h.slot \in Armed => s.configured
      /\ Forgets(f, h)
  BY <1>1, <1>3, ForgetsOn DEF Same, Staged, Fed
<1>5. ASSUME NEW w \in Waiters \ Late, NEW gen \in Gens
      PROVE  Went(Send(f, w, gen), f, s)
  BY <1>2, <1>3, <1>4, SendWent DEF Late, Armed
<1>6. {"otp", "fw", "psk", "hs", "tlsEst"} \subseteq Waiters \ Late /\ "none" \in Gens
  BY DEF Waiters, Ladder, Handshake, Late, Gens
<1>7. "enable" \in Waiters /\ {"none", "current"} \subseteq Gens
  BY DEF Waiters, Gens
<1>8. /\ \A serverUp \in BOOLEAN : Went(TlsInit(f, serverUp), f, s)
      /\ Went(ActivateFailed(f), f, s)
      /\ h.slot \in Handshake => Went(TlsReadyError(f), f, s)
      /\ h.slot \in Handshake /\ s.keyed => Went(TlsReady(f), f, s)
  BY <1>1, <1>2, <1>3, <1>4, HandshakeWent, FailureWent DEF StageOK
<1>9. \A timedOut \in BOOLEAN : Went(ProbeFailed(f, timedOut), f, s)
  BY <1>2, <1>3, <1>4, ProbeWent
<1>10. h.slot \in Late /\ s.configured =>
         \A gen \in {"none", "current"} : Went(Send(f, "enable", gen), f, s)
  BY <1>2, <1>3, <1>4, <1>7, SendWent
<1> SUFFICES Went(h', f, s)
  BY <1>4, ForgetsOn
<1>11. CASE TlsRequested \/ NopDone \/ OtpRead \/ HandshakeRead
  BY <1>5, <1>6, <1>11 DEF TlsRequested, NopDone, OtpRead, HandshakeRead, f
<1>12. CASE \E serverUp \in BOOLEAN : FirmwareRead(serverUp) \/ PskRead(serverUp)
  BY <1>5, <1>6, <1>8, <1>12 DEF FirmwareRead, PskRead, f
<1>13. CASE LadderFails
  BY <1>8, <1>13 DEF LadderFails, f
<1>14. CASE TlsRefused \/ HandshakeFails
  BY <1>8, <1>14 DEF TlsRefused, HandshakeFails, Answered, Erred, Handshake, f
<1>15. CASE TlsEstablished
  BY <1>2, <1>8, <1>15 DEF TlsEstablished, Answered, Handshake, f
<1>16. CASE ConfigUploaded
  <2>1. h.slot = "config" /\ h.slotGen # "stale" /\ h.slot \in Late
    BY <1>1, <1>16 DEF ConfigUploaded, Answered, StageOK, Late
  <2> QED BY <1>2, <1>10, <1>16, <2>1 DEF ConfigUploaded, f
<1>17. CASE ProbeAnswers
  <2>1. h.slot = "probe" /\ h.slotGen # "stale" /\ h.slot \in Late /\ h.slot \in Armed
    BY <1>1, <1>17 DEF ProbeAnswers, Answered, StageOK, Late, Armed
  <2> QED BY <1>4, <1>10, <1>17, <2>1 DEF ProbeAnswers, f
<1>18. CASE ChipAnswers
  <2>1. h.slot = "enable" /\ h.slotGen # "stale" /\ h.slot \in Late /\ h.slot \in Armed
        /\ ~h.scan
    BY <1>1, <1>18 DEF ChipAnswers, Answered, StageOK, Coherent, Late, Armed
  <2>2. Went(ChipEnabled(f), f, s)
    BY <1>2, <1>3, <1>4, <2>1, ScanWent
  <2> QED BY <1>18, <2>1, <2>2 DEF ChipAnswers, f
<1>19. CASE ProbeTimesOut
  BY <1>1, <1>9, <1>19 DEF ProbeTimesOut, StageOK, f
<1>20. CASE CommandFails
  <2>1. PICK w \in {"config", "enable", "probe"} :
          Erred(w) /\ h' = Failed(f, w, h.slotGen, TRUE)
    BY <1>20 DEF CommandFails, f
  <2>2. h.slot = w /\ h.slotGen # "stale" /\ w \in Late
    BY <1>1, <2>1 DEF Erred, StageOK, Late
  <2>3. CASE w = "config"
    <3>1. Went(Report(f), f, s)
      BY <1>2, <1>3, <1>4, <2>2, <2>3, ReportWent DEF Live
    <3> QED BY <2>1, <2>2, <2>3, <3>1 DEF Failed, Handshake
  <2>4. CASE w = "enable"
    <3>1. Went(Report(Distrust(f)), f, s)
      BY <1>2, <1>3, <1>4, ReportWent
    <3> QED BY <2>1, <2>2, <2>4, <3>1 DEF Failed, Handshake
  <2>5. CASE w = "probe"
    BY <1>9, <2>1, <2>2, <2>5 DEF Failed, Handshake
  <2> QED BY <2>3, <2>4, <2>5
<1>21. CASE ScanDone \/ ScanFails
  <2> DEFINE c == [f EXCEPT !.scan = FALSE]
             e == [f EXCEPT !.scan = FALSE, !.clean_close = FALSE, !.warm_ok = FALSE]
  <2>1. h.slot = "scan" /\ f.scan /\ ~f.warm_attempted
    BY <1>1, <1>3, <1>4, <1>21 DEF ScanDone, ScanFails, Answered, Erred, Coherent
  <2>2. f.hop = "agreed" /\ s.keyed /\ s.configured
    BY <1>4, <2>1 DEF Late, Armed
  <2>3. Same(c, f) /\ c.slot = "none" /\ c.reports = 0
    BY <1>3, <1>4 DEF Same, Driver
  <2>4. /\ e \in Driver /\ e.slot = "none" /\ e.reports = 0 /\ ~e.warm_attempted
        /\ ~e.warm_ok /\ ~e.clean_close /\ e.parked = f.parked
    BY <1>3, <1>4, <2>1 DEF Driver
  <2> HIDE DEF c, e
  <2>5. Went(Report(c), c, s) /\ Forgets(c, f)
    BY <1>2, <2>1, <2>2, <2>3, ReportWent, ForgetsOn DEF Same, Live
  <2>6. Went(Report(e), e, s) /\ Forgets(e, f)
    BY <1>2, <2>4, ReportWent DEF Forgets
  <2>7. Failed(f, "scan", "none", TRUE) = Report(e)
    BY <2>1 DEF Failed, ScanFailed, Handshake, e
  <2>8. h' = Report(c) \/ h' = Report(e)
    BY <1>21, <2>7 DEF ScanDone, ScanFails, c, f
  <2>9. Went(Report(c), f, s) /\ Went(Report(e), f, s)
    BY <2>5, <2>6, ForgetsOn
  <2> QED BY <2>8, <2>9
<1> QED BY <1>11, <1>12, <1>13, <1>14, <1>15, <1>16, <1>17, <1>18, <1>19, <1>20, <1>21
        DEF TlsReply, TimedReply, ScanEnds

------------------------------------------------------------------------------
(* The teardowns.  A waiter is silent when the reset that frees it is told *)
(* of it and does nothing.                                                 *)

Silent(d) ==
  /\ d \in Driver /\ ~d.scan
  /\ \/ d.slot \in {"none", "scan"}
     \/ d.slot \in {"config", "probe"} /\ d.slotGen = "stale"
     \/ d.slot = "tlsReq" /\ d.ready # "current"

LEMMA SilentReset ==
  ASSUME NEW d, Silent(d), NEW serverUp \in BOOLEAN
  PROVE  LET r == ResetState(d, serverUp)
         IN  /\ Same(r, d) /\ r.slot = "none" /\ ~r.scan /\ r.reports = d.reports
             /\ d.ready = "none" => r.ready = "none"
<1> DEFINE f == ClearSlot(d)
           q == [f EXCEPT !.ready = "none"]
           r == ResetState(d, serverUp)
<1>1. /\ Same(f, d) /\ f.slot = "none" /\ ~f.scan /\ f.reports = d.reports
      /\ f.ready = d.ready
  BY SlotSame, ClearFields DEF Silent
<1>2. r = Failed(f, d.slot, d.slotGen, serverUp)
  BY DEF ResetState
<1> HIDE DEF f, r
<1>3. Same(q, d) /\ q.slot = "none" /\ ~q.scan /\ q.reports = d.reports /\ q.ready = "none"
  BY <1>1 DEF Same, Driver, Gens
<1>4. r = f \/ r = q
  <2>1. CASE d.slot \in {"none", "scan"}
    BY <1>1, <1>2, <2>1 DEF Failed, Handshake
  <2>2. CASE d.slot \in {"config", "probe"} /\ d.slotGen = "stale"
    BY <1>2, <2>2 DEF Failed, Handshake
  <2>3. CASE d.slot = "tlsReq" /\ d.ready # "current"
    BY <1>1, <1>2, <2>3 DEF Failed, TlsReadyError, Handshake
  <2> QED BY <2>1, <2>2, <2>3 DEF Silent
<1> HIDE DEF q
<1> QED BY <1>1, <1>3, <1>4 DEF r

(* A deactivation of a silent waiter parks a healthy idle session, and     *)
(* destroys any other.                                                     *)
LEMMA SilentDeactivate ==
  ASSUME NEW d \in Driver, NEW serverUp \in BOOLEAN,
         Silent([Bump(d) EXCEPT !.scan = FALSE])
  PROVE  LET e == Deactivate(d, serverUp)
         IN  /\ e \in Driver
             /\ e.slot = "none" /\ e.reports = d.reports /\ ~e.scan /\ ~e.loop
             /\ e.warm_ok = d.warm_ok /\ e.warmBoot = d.warmBoot
             /\ e.warm_attempted = d.warm_attempted
             /\ d.hop # "none" /\ d.warm_ok /\ ~d.scan =>
                  /\ e.hop = d.hop /\ e.parked /\ e.clean_close
                  /\ e.slept = d.slept \ {"park"}
             /\ ~(d.hop # "none" /\ d.warm_ok /\ ~d.scan) =>
                  /\ e.hop = "none" /\ ~e.parked /\ ~e.clean_close
                  /\ e.slept = d.slept
<1> DEFINE b == Bump(d)
           t == [b EXCEPT !.scan = FALSE]
           idle == ResetState(t, serverUp)
           p == Park(idle)
           s == ShutdownTls(idle)
           q == Destroy(idle)
           e == Deactivate(d, serverUp)
<1>1. e = IF idle.hop # "none" /\ idle.warm_ok /\ ~d.scan THEN p ELSE q
  BY Zenon DEF Deactivate
<1>2. Same(b, d) /\ b.reports = d.reports
  BY SlotSame, BumpFields
<1>3. Silent(t)
  OBVIOUS
<1> HIDE DEF b
<1>4. Same(t, d) /\ t.reports = d.reports
  BY <1>2 DEF Same, Driver
<1> HIDE DEF t
<1>5. Same(idle, t) /\ idle.slot = "none" /\ ~idle.scan /\ idle.reports = d.reports
  BY <1>3, <1>4, SilentReset
<1> HIDE DEF idle
<1>6. Same(idle, d)
  BY <1>4, <1>5 DEF Same
<1>7. /\ p.slot = "none" /\ p.reports = d.reports /\ ~p.scan /\ ~p.loop
      /\ p.warm_ok = d.warm_ok /\ p.warmBoot = d.warmBoot
      /\ p.warm_attempted = d.warm_attempted
      /\ p.hop = d.hop /\ p.parked /\ p.clean_close /\ p.slept = d.slept \ {"park"}
  BY <1>5, <1>6 DEF Park, Same, Driver
<1>8. /\ s \in Driver /\ s.hop = "none" /\ s.slot = "none" /\ s.reports = d.reports
      /\ s.warm_ok = d.warm_ok /\ s.warmBoot = d.warmBoot /\ s.slept = d.slept
      /\ s.warm_attempted = d.warm_attempted /\ ~s.scan
  BY <1>5, <1>6, ShutMemory, ShutFields DEF Same
<1>9. q = [s EXCEPT !.loop = FALSE, !.parked = FALSE, !.clean_close = FALSE]
  BY DEF Destroy
<1> HIDE DEF s
<1>10. /\ q.slot = "none" /\ q.reports = d.reports /\ ~q.scan /\ ~q.loop
       /\ q.warm_ok = d.warm_ok /\ q.warmBoot = d.warmBoot
       /\ q.warm_attempted = d.warm_attempted
       /\ q.hop = "none" /\ ~q.parked /\ ~q.clean_close /\ q.slept = d.slept
  BY <1>8, <1>9 DEF Driver
<1>11. e \in Driver
  BY DeactivateType
<1> HIDE DEF p, q, e
<1>12. idle.hop = d.hop /\ idle.warm_ok = d.warm_ok
  BY <1>6 DEF Same
<1> QED BY <1>1, <1>7, <1>10, <1>11, <1>12 DEF e

(* What a reset leaves of an action whose session is dirty: it is reported,*)
(* or to be reported, once, and remembers nothing.                         *)
Dropped(d) ==
  /\ d \in Driver /\ ~d.scan
  /\ ~d.warm_ok /\ ~d.warm_attempted /\ ~d.parked /\ ~d.clean_close
  /\ d.slot = "none" \/ (d.slot = "tlsReq" /\ d.reports = 0)
  /\ d.reports < 2

LEMMA DropFields ==
  ASSUME NEW d, Dropped(d), d.slot = "none", d.reports = 0
  PROVE  /\ Dropped([d EXCEPT !.ready = "none"])
         /\ Dropped(Report(Distrust(d)))
         /\ Dropped([Report(Distrust(d)) EXCEPT !.ready = "none"])
<1> DEFINE y == Distrust(d)
           z == Report(y)
<1>1. /\ y \in Driver /\ y.slot = "none" /\ ~y.scan /\ y.reports = 0
      /\ ~y.warm_ok /\ ~y.warm_attempted /\ ~y.parked /\ ~y.clean_close
  BY DistrustMemory, DistrustFields DEF Dropped
<1> HIDE DEF y
<1>2. Same(z, y) /\ z.slot = "none" /\ ~z.scan /\ z.reports = 1
  BY <1>1, ReportMemory
<1> HIDE DEF z
<1>3. ASSUME NEW u, Dropped(u)
      PROVE  Dropped([u EXCEPT !.ready = "none"])
  <2> DEFINE v == [u EXCEPT !.ready = "none"]
  <2>1. /\ v \in Driver /\ v.slot = u.slot /\ v.scan = u.scan
        /\ v.reports = u.reports /\ v.warm_ok = u.warm_ok
        /\ v.warm_attempted = u.warm_attempted
        /\ v.parked = u.parked /\ v.clean_close = u.clean_close
    BY <1>3 DEF Dropped, Driver, Gens
  <2> HIDE DEF v
  <2> QED BY <1>3, <2>1 DEF Dropped, v
<1>4. Dropped(z)
  BY <1>1, <1>2 DEF Same, Dropped
<1> QED BY <1>3, <1>4 DEF y, z

LEMMA ResetDrops ==
  ASSUME NEW d, Torn(d), NEW serverUp \in BOOLEAN,
         ~d.warm_ok, ~d.warm_attempted, ~d.parked, ~d.clean_close, d.reports = 0,
         d.slot \in Handshake => d.ready # "current"
  PROVE  Dropped(ResetState(d, serverUp))
<1> DEFINE f == ClearSlot(d)
           r == Failed(f, d.slot, d.slotGen, serverUp)
<1>1. Same(f, d) /\ f.slot = "none" /\ ~f.scan /\ f.reports = 0 /\ f.ready = d.ready
  BY SlotSame, ClearFields DEF Torn
<1>2. ResetState(d, serverUp) = r /\ d.slot \in Waiters \cup {"none"}
  BY DEF ResetState, Torn, Driver
<1> HIDE DEF f
<1>3. Dropped(f) /\ f \in Driver /\ ~f.warm_attempted
  BY <1>1 DEF Same, Dropped
<1> SUFFICES Dropped(r)
  BY <1>2
<1>4. CASE d.slot \in {"nop", "otp", "fw"}
  <2>1. r = Report(Distrust(f))
    BY <1>3, <1>4 DEF Failed, ActivateFailed, WarmRetry, Handshake
  <2> QED BY <1>1, <1>3, <2>1, DropFields
<1>5. CASE d.slot = "psk"
  <2> DEFINE up   == [f EXCEPT !.hop = "fresh", !.ready = "current"]
             down == [f EXCEPT !.hop = "none"]
             sent == Send(up, "tlsReq", "none")
  <2>1. r = TlsInit(f, serverUp)
    BY <1>5 DEF Failed, Handshake
  <2> HIDE DEF r
  <2>2. /\ up \in Driver /\ up.reports = 0 /\ ~up.scan
        /\ ~up.warm_ok /\ ~up.warm_attempted /\ ~up.parked /\ ~up.clean_close
    BY <1>1, <1>3 DEF Dropped, Driver, Gens
  <2>3. /\ down \in Driver /\ down.slot = "none" /\ down.reports = 0 /\ ~down.scan
        /\ ~down.warm_ok /\ ~down.warm_attempted /\ ~down.parked /\ ~down.clean_close
    BY <1>1, <1>3 DEF Dropped, Driver
  <2> HIDE DEF up, down
  <2>4. "tlsReq" \in Waiters /\ "none" \in Gens
    BY DEF Waiters, Handshake, Gens
  <2>5. Same(sent, up) /\ sent.slot = "tlsReq" /\ sent.reports = 0
    BY <2>2, <2>4, SlotSame
  <2>6. ~sent.scan
    BY <2>2 DEF Send, Driver
  <2> HIDE DEF sent
  <2>7. Dropped(sent) /\ Dropped(down)
    BY <2>2, <2>3, <2>5, <2>6 DEF Same, Dropped
  <2>8. TlsFailed(down) = [Report(Distrust(down)) EXCEPT !.ready = "none"]
    BY <2>3 DEF TlsFailed, WarmRetry
  <2>9. Dropped(TlsFailed(down))
    BY <2>3, <2>7, <2>8, DropFields
  <2>10. r = sent \/ r = TlsFailed(down)
    BY <2>1 DEF TlsInit, sent, up, down
  <2> QED BY <2>7, <2>9, <2>10
<1>6. CASE d.slot \in Handshake
  <2>1. r = [f EXCEPT !.ready = "none"]
    BY <1>1, <1>6 DEF Failed, TlsReadyError, Handshake
  <2> QED BY <1>1, <1>3, <2>1, DropFields
<1>7. CASE d.slot = "enable"
  <2>1. r = f \/ r = Report(Distrust(f))
    BY <1>7 DEF Failed, Handshake
  <2> QED BY <1>1, <1>3, <2>1, DropFields
<1>8. CASE d.slot \in {"config", "probe", "scan", "none"}
  <2>1. r = f
    BY <1>1, <1>8 DEF Torn, Failed, Handshake
  <2> QED BY <1>3, <2>1
<1> QED BY <1>2, <1>4, <1>5, <1>6, <1>7, <1>8 DEF Waiters, Ladder

LEMMA WarmRecord ==
  ASSUME NEW c \in Driver, NEW t \in BOOLEAN
  PROVE  LET y == [c EXCEPT !.scan = FALSE, !.loop = TRUE,
                            !.warm_attempted = t, !.warm_ok = t]
         IN  y \in Driver /\ y.warm_ok = t /\ y.warm_attempted = t
<1> DEFINE y == [c EXCEPT !.scan = FALSE, !.loop = TRUE,
                          !.warm_attempted = t, !.warm_ok = t]
<1>1. y \in Driver
  BY DEF Driver
<1>2. y.warm_ok = t /\ y.warm_attempted = t
  BY DEF Driver
<1> QED BY <1>1, <1>2

(* A claim reuses a parked session the sensor still shares, or starts a    *)
(* ladder, a warm one only on a sensor that still holds its config.        *)
LEMMA ActivateRises ==
  ASSUME NEW d \in Driver, NEW s \in Sensor, NEW serverUp \in BOOLEAN,
         d.slot = "none", d.reports = 0, ~d.warm_attempted,
         d.hop = "fresh" => ~d.parked
  PROVE  LET a == Activate(d, serverUp)
         IN  /\ Forgets(a, d) /\ ~a.parked /\ a.reports = 0 /\ ~a.scan
             /\ Staged(a) /\ (Memory(d, s) => Fed(a, s))
<1> DEFINE b      == Bump(d)
           begun  == [b EXCEPT !.warm_retried = FALSE, !.parked = FALSE]
           asleep == "park" \in d.slept \cup d.expired
           shut   == ShutdownTls(begun)
           w      == shut.warm_ok /\ ~(d.parked /\ asleep)
           anew   == [shut EXCEPT !.warm_ok = w]
           warm   == WarmFresh(anew)
           x      == [begun EXCEPT !.scan = FALSE, !.loop = TRUE]
           z      == [anew EXCEPT !.scan = FALSE, !.loop = TRUE,
                                  !.warm_attempted = warm, !.warm_ok = warm]
           a      == Activate(d, serverUp)
           p      == Send(x, "probe", "current")
           n      == Send(z, "nop", "none")
<1>1. a = IF Reusable(d) /\ ~asleep
          THEN SendFirst(x, "probe", "current", serverUp)
          ELSE SendFirst(z, "nop", "none", serverUp)
  BY Zenon DEF Activate
<1>2. Same(b, d) /\ b.slot = "none" /\ b.reports = 0
  BY SlotSame, BumpFields
<1> HIDE DEF b
<1>3. /\ begun \in Driver /\ begun.slot = "none" /\ begun.reports = 0 /\ ~begun.parked
      /\ begun.hop = d.hop /\ begun.warm_ok = d.warm_ok /\ begun.warmBoot = d.warmBoot
      /\ begun.warm_attempted = d.warm_attempted /\ begun.clean_close = d.clean_close
      /\ begun.slept = d.slept
  BY <1>2 DEF Same, Driver
<1> HIDE DEF begun
<1>4. /\ shut \in Driver /\ shut.slot = "none" /\ shut.reports = 0 /\ ~shut.parked
      /\ shut.hop = "none" /\ shut.warm_ok = d.warm_ok /\ shut.warmBoot = d.warmBoot
      /\ shut.clean_close = d.clean_close /\ shut.slept = d.slept
  BY <1>3, ShutMemory
<1> HIDE DEF shut
<1>5. w \in BOOLEAN /\ (w => d.warm_ok)
  BY <1>4
<1> HIDE DEF w
<1>6. /\ anew \in Driver /\ anew.slot = "none" /\ anew.reports = 0 /\ ~anew.parked
      /\ anew.hop = "none" /\ anew.warm_ok = w /\ anew.warmBoot = d.warmBoot
      /\ anew.clean_close = d.clean_close /\ anew.slept = d.slept
  BY <1>4, <1>5 DEF Driver
<1> HIDE DEF anew
<1>7. /\ warm \in BOOLEAN
      /\ warm => d.warm_ok /\ d.warmBoot /\ "warm" \notin d.slept
  BY <1>5, <1>6 DEF WarmFresh
<1> HIDE DEF warm
<1>8. /\ z \in Driver /\ z.slot = "none" /\ z.reports = 0 /\ ~z.parked /\ ~z.scan
      /\ z.hop = "none" /\ z.warm_ok = warm /\ z.warm_attempted = warm
      /\ z.warmBoot = d.warmBoot /\ z.clean_close = d.clean_close /\ z.slept = d.slept
  <2>1. /\ z.slot = anew.slot /\ z.reports = anew.reports /\ z.parked = anew.parked
        /\ ~z.scan /\ z.hop = anew.hop /\ z.warmBoot = anew.warmBoot
        /\ z.clean_close = anew.clean_close /\ z.slept = anew.slept
    BY <1>6 DEF Driver
  <2>3. z \in Driver /\ z.warm_ok = warm /\ z.warm_attempted = warm
    BY <1>6, <1>7, WarmRecord
  <2> HIDE DEF z
  <2> QED BY <1>6, <2>1, <2>3
<1>9. /\ x \in Driver /\ x.slot = "none" /\ x.reports = 0 /\ ~x.parked /\ ~x.scan
      /\ x.hop = d.hop /\ x.warm_ok = d.warm_ok /\ x.warmBoot = d.warmBoot
      /\ x.warm_attempted = d.warm_attempted /\ x.clean_close = d.clean_close
      /\ x.slept = d.slept
  BY <1>3 DEF Driver
<1> HIDE DEF x, z
<1>10. {"probe", "nop"} \subseteq Waiters /\ {"current", "none"} \subseteq Gens
  BY DEF Waiters, Ladder, Gens
<1>11. /\ Same(p, x) /\ p.slot = "probe" /\ p.reports = 0 /\ ~p.scan
       /\ Same(n, z) /\ n.slot = "nop" /\ n.reports = 0 /\ ~n.scan
  <2>1. p.scan = x.scan /\ n.scan = z.scan
    BY <1>8, <1>9 DEF Send, Driver
  <2> QED BY <1>8, <1>9, <1>10, <2>1, SlotSame
<1>12. a = IF Reusable(d) /\ ~asleep THEN p ELSE n
  BY <1>1, <1>8, <1>9 DEF SendFirst
<1> HIDE DEF p, n, a, asleep
<1>13. CASE Reusable(d) /\ ~asleep
  <2>1. d.parked /\ d.hop # "none" /\ "park" \notin d.slept
    BY <1>13 DEF Reusable, asleep
  <2>2. d.hop = "agreed" /\ (Memory(d, s) => s.keyed /\ s.configured)
    BY <2>1 DEF Memory, Live, Driver
  <2>3. Forgets(p, d) /\ ~p.parked /\ p.reports = 0 /\ ~p.scan
    BY <1>9, <1>11 DEF Same, Forgets
  <2>4. Staged(p) /\ (Memory(d, s) => Fed(p, s))
    BY <1>9, <1>11, <2>2 DEF Same, Staged, Fed
  <2> QED BY <1>12, <1>13, <2>3, <2>4 DEF a
<1>14. CASE ~(Reusable(d) /\ ~asleep)
  <2>1. warm /\ Memory(d, s) => s.configured
    BY <1>7 DEF Memory
  <2>2. Forgets(n, d) /\ ~n.parked /\ n.reports = 0 /\ ~n.scan
    BY <1>7, <1>8, <1>11 DEF Same, Forgets
  <2>3. Staged(n) /\ (Memory(d, s) => Fed(n, s))
    BY <1>8, <1>11, <2>1 DEF Same, Staged, Fed, Late, Armed
  <2> QED BY <1>12, <1>14, <2>2, <2>3 DEF a
<1> QED BY <1>13, <1>14

------------------------------------------------------------------------------
(* The phases of the contract.                                             *)

LEMMA PhaseFacts ==
  /\ ~open => Phase = "closed"
  /\ open /\ ~busy => Phase = "idle"
  /\ TypeOK /\ open /\ busy => Phase = IF h.reports > 0 THEN "reported"
                                       ELSE IF h.scan THEN "scan" ELSE "bringUp"
  BY DEF Phase, TypeOK, Driver

LEMMA PhaseFactsNext ==
  /\ ~open' => Phase' = "closed"
  /\ open' /\ ~busy' => Phase' = "idle"
  /\ TypeOK' /\ open' /\ busy' => Phase' = IF h'.reports > 0 THEN "reported"
                                           ELSE IF h'.scan THEN "scan" ELSE "bringUp"
  BY DEF Phase, TypeOK, Driver

------------------------------------------------------------------------------
(* Every step keeps the invariant, and is a step of the contract.          *)

Moves == [Contract!Next]_(Contract!vars)

LEMMA ReplyActs ==
  ASSUME TypeOK, SessionInv, StageInv, TlsReply \/ TimedReply \/ ScanEnds
  PROVE  Acting /\ Keep
<1>1. Keep
  BY DEF TlsReply, TimedReply, ScanEnds, TlsRequested, TlsRefused, NopDone, OtpRead,
     FirmwareRead, LadderFails, PskRead, HandshakeRead, TlsEstablished,
     HandshakeFails, ConfigUploaded, ChipAnswers, ProbeAnswers, ProbeTimesOut,
     CommandFails, ScanDone, ScanFails, Hold, Keep
<1>2. ASSUME ~Acting PROVE FALSE
  <2>1. h.slot = "none" \/ (h.slot = "tlsReq" /\ ~h.loop)
    BY <1>2 DEF SessionInv, StageInv, Told, LeftOver
  <2> QED BY <2>1 DEF TlsReply, TimedReply, ScanEnds, TlsRequested, TlsRefused, NopDone, OtpRead,
       FirmwareRead, LadderFails, PskRead, HandshakeRead, TlsEstablished,
       HandshakeFails, ConfigUploaded, ChipAnswers, ProbeAnswers, ProbeTimesOut,
       CommandFails, ScanDone, ScanFails, Answered, Erred, Timed, Waiters, Ladder,
       Handshake
<1> QED BY <1>1, <1>2

(* The stages are those on an ideal sensor, whatever the real one holds.   *)
LEMMA ReplyStays ==
  ASSUME TypeOK, SessionInv, StageInv, TypeOK', TlsReply \/ TimedReply \/ ScanEnds
  PROVE  StageInv' /\ Moves
<1>1. Acting /\ Keep
  BY ReplyActs
<1>2. Went(h', h, Ideal)
  <2>1. Ideal \in Sensor /\ Fed(h, Ideal) /\ Ideal.keyed /\ Ideal.configured
    BY DEF Ideal, Sensor, Fed
  <2> QED BY <1>1, <2>1, AnswerWent
<1>3. /\ h' \in Driver /\ h.reports = 0 /\ busy /\ open /\ ~suspending /\ ~h.parked
      /\ UNCHANGED <<open, busy, used, suspending>>
  BY <1>1 DEF TypeOK, SessionInv, StageInv, Acting, Keep
<1>4. h'.reports = 0 \/ h'.reports = 1
  BY <1>2, <1>3 DEF Went, Driver
<1>5. /\ h'.reports < 2 /\ ~h'.parked
      /\ h'.reports = 0 => Staged(h')
      /\ h'.reports # 0 =>
           /\ h'.slot = "none" /\ ~h'.warm_attempted
           /\ h'.hop = "fresh" => ~h'.warm_ok
  BY <1>2, <1>3 DEF Went, Up
<1>6. Acting' <=> h'.reports = 0
  BY <1>3 DEF Acting
<1>7. StageInv'
  BY <1>3, <1>5, <1>6 DEF StageInv, Told, Resting, Rest
<1>8. /\ Phase = IF h.scan THEN "scan" ELSE "bringUp"
      /\ h'.reports = 0 => Phase' = IF h'.scan THEN "scan" ELSE "bringUp"
      /\ h'.reports = 1 => Phase' = "reported"
  BY <1>3, PhaseFacts, PhaseFactsNext
<1>9. Moves
  BY <1>3, <1>4, <1>8
  DEF Moves, Contract!Next, Contract!vars, Contract!AwaitFinger, Contract!Abandon,
      Contract!Report
<1> QED BY <1>7, <1>9

LEMMA ReplyFeeds ==
  ASSUME TypeOK, SessionInv, StageInv, LiveInv, TypeOK', TlsReply \/ TimedReply \/ ScanEnds
  PROVE  LiveInv'
<1> DEFINE s == sensor'
<1>1. Acting /\ Keep
  BY ReplyActs
<1>2. /\ s \in Sensor
      /\ sensor.keyed => s.keyed
      /\ sensor.configured => s.configured
      /\ TlsEstablished => s.keyed
      /\ ConfigUploaded => s.configured
  BY DEF TypeOK, TlsReply, TimedReply, ScanEnds, TlsRequested, TlsRefused, NopDone, OtpRead,
     FirmwareRead, LadderFails, PskRead, HandshakeRead, TlsEstablished,
     HandshakeFails, ConfigUploaded, ChipAnswers, ProbeAnswers, ProbeTimesOut,
     CommandFails, ScanDone, ScanFails, Hold, Sensor
<1>3. /\ h' \in Driver /\ busy /\ open /\ ~suspending /\ ~h.parked
      /\ Fed(h, sensor) /\ Memory(h, sensor) /\ (h.clean_close => Live(sensor))
      /\ UNCHANGED <<open, busy, used, suspending>>
  BY <1>1 DEF TypeOK, SessionInv, StageInv, LiveInv, Acting, Clean, Keep
<1> HIDE DEF s
<1>4. Fed(h, s)
  BY <1>2, <1>3 DEF Fed
<1>5. Went(h', h, s)
  BY <1>1, <1>2, <1>4, AnswerWent
<1>6. /\ ~h'.parked
      /\ h'.reports = 0 => Fed(h', s)
      /\ h'.reports # 0 /\ h'.warm_ok /\ h'.hop # "none" => Live(s)
      /\ h'.clean_close => Live(s)
  BY <1>2, <1>3, <1>5 DEF Went, Up, Live
<1>7. Memory(h', s)
  BY <1>2, <1>3, <1>5, <1>6 DEF Went, Forgets, Memory
<1>8. Acting' <=> h'.reports = 0
  BY <1>3 DEF Acting
<1>9. Clean'
  BY <1>3, <1>6 DEF Clean, s
<1> QED BY <1>6, <1>7, <1>8, <1>9 DEF LiveInv, s

LEMMA OpenFields ==
  ASSUME TypeOK, SessionInv, StageInv,
         NEW replugged \in BOOLEAN, NEW claimed \in BOOLEAN, Open(replugged, claimed)
  PROVE  LET reset == ~h.clean_close \/ replugged \/ "close" \in h.slept
         IN  /\ ~open /\ open' = claimed /\ ~used' /\ ~busy
             /\ UNCHANGED <<busy, suspending>> /\ ~Acting /\ ~Acting'
             /\ sensor' = (IF reset THEN Wiped ELSE sensor)
             /\ h'.slot = "none" /\ h'.reports = h.reports
             /\ h'.hop = h.hop /\ h'.parked = h.parked /\ h'.loop = h.loop
             /\ h'.warm_ok = h.warm_ok /\ h'.warm_attempted = h.warm_attempted
             /\ h'.slept = h.slept
             /\ h'.clean_close <=> h.clean_close /\ ~reset /\ claimed
             /\ h'.warmBoot <=> h.warmBoot /\ ~reset
<1> DEFINE reset == ~h.clean_close \/ replugged \/ "close" \in h.slept
           f == ClearSlot(h)
           c == f.clean_close /\ ~reset /\ claimed
           b == f.warmBoot /\ ~reset
           n == [f EXCEPT !.clean_close = c, !.warmBoot = b]
<1>1. /\ ~open /\ open' = claimed /\ ~used' /\ h' = n
      /\ sensor' = (IF reset THEN Wiped ELSE sensor)
      /\ UNCHANGED <<busy, suspending>>
  BY DEF Open
<1>2. ~busy /\ ~Acting /\ ~Acting' /\ h \in Driver
  BY <1>1 DEF SessionInv, Acting, TypeOK
<1>3. Same(f, h) /\ f.slot = "none" /\ f.reports = h.reports
  BY <1>2, SlotSame, ClearFields
<1> HIDE DEF f
<1>4. /\ n.slot = f.slot /\ n.reports = f.reports /\ n.hop = f.hop
      /\ n.parked = f.parked /\ n.loop = f.loop /\ n.warm_ok = f.warm_ok
      /\ n.warm_attempted = f.warm_attempted /\ n.slept = f.slept
      /\ n.clean_close = c /\ n.warmBoot = b
  BY <1>3 DEF Same, Driver
<1> HIDE DEF n, reset
<1> QED BY <1>1, <1>2, <1>3, <1>4 DEF Same, reset

LEMMA OpenStays ==
  ASSUME TypeOK, SessionInv, StageInv, TypeOK',
         NEW replugged \in BOOLEAN, NEW claimed \in BOOLEAN, Open(replugged, claimed)
  PROVE  StageInv' /\ Moves
<1>1. /\ ~open /\ ~busy /\ open' = claimed /\ ~Acting /\ ~Acting'
      /\ UNCHANGED <<busy, suspending>>
      /\ h'.slot = "none" /\ h'.reports = h.reports
      /\ h'.hop = h.hop /\ h'.parked = h.parked /\ h'.loop = h.loop
      /\ h'.warm_ok = h.warm_ok /\ h'.warm_attempted = h.warm_attempted
      /\ h'.clean_close => h.clean_close
  BY OpenFields
<1>2. Told /\ Resting
  BY <1>1 DEF StageInv
<1>3. StageInv'
  BY <1>1, <1>2 DEF StageInv, Told, Resting, Rest
<1>4. CASE claimed
  BY <1>1, <1>3, <1>4, PhaseFacts, PhaseFactsNext
  DEF Moves, Contract!Next, Contract!vars, Contract!Open
<1>5. CASE ~claimed
  BY <1>1, <1>3, <1>5, PhaseFacts, PhaseFactsNext DEF Moves, Contract!vars
<1> QED BY <1>4, <1>5

LEMMA OpenFeeds ==
  ASSUME Guarded, TypeOK, SessionInv, StageInv, LiveInv,
         NEW replugged \in BOOLEAN, NEW claimed \in BOOLEAN, Open(replugged, claimed)
  PROVE  LiveInv'
<1> DEFINE reset == ~h.clean_close \/ "close" \in h.slept
<1>1. ~replugged /\ claimed
  BY DEF Open, Guarded
<1>2. /\ ~open /\ open' /\ ~used' /\ ~Acting /\ ~Acting'
      /\ sensor' = (IF reset THEN Wiped ELSE sensor)
      /\ h'.hop = h.hop /\ h'.parked = h.parked
      /\ h'.warm_ok = h.warm_ok /\ h'.slept = h.slept
      /\ h'.clean_close <=> h.clean_close /\ ~reset
      /\ h'.warmBoot <=> h.warmBoot /\ ~reset
  BY <1>1, OpenFields
<1>3. Memory(h, sensor) /\ Clean
  BY DEF LiveInv
<1>4. Memory(h', sensor')
  BY <1>2, <1>3 DEF Memory, Clean, Stamps
<1>5. Clean'
  BY <1>2, <1>3 DEF Clean
<1> QED BY <1>2, <1>4, <1>5 DEF LiveInv

(* What a close leaves: an idle session parked, or what was left before it,*)
(* without its TLS context unless the session is clean.                    *)
LEMMA CloseFields ==
  ASSUME TypeOK, SessionInv, StageInv,
         NEW released \in BOOLEAN, NEW serverUp \in BOOLEAN, Close(released, serverUp)
  PROVE  LET parks == h.warm_ok /\ h.hop # "none"
         IN  /\ open /\ ~busy /\ ~suspending /\ ~open' /\ ~Acting /\ ~Acting'
             /\ UNCHANGED <<sensor, busy, used, suspending>>
             /\ h'.slot = "none" /\ h'.reports = h.reports /\ ~h'.loop
             /\ ~h'.warm_attempted /\ h'.warm_ok = h.warm_ok
             /\ h'.warmBoot = h.warmBoot
             /\ h'.parked => parks \/ h.parked
             /\ h'.hop # "none" => h'.hop = h.hop /\ h'.clean_close
             /\ "close" \notin h'.slept
             /\ "warm" \notin h'.slept => "warm" \notin h.slept
             /\ "park" \notin h'.slept => parks \/ "park" \notin h.slept
             /\ h'.clean_close => parks \/ h.clean_close
<1> DEFINE parks   == ~h.scan /\ h.warm_ok /\ h.hop # "none"
           e       == Deactivate(h, serverUp)
           left    == [h EXCEPT !.scan = FALSE]
           settled == IF parks THEN e ELSE left
           shut    == ShutdownTls(Bump(settled))
           kept    == IF settled.clean_close THEN settled ELSE shut
           still   == [kept EXCEPT !.loop = FALSE]
           reset   == ResetState(still, serverUp)
           final   == [reset EXCEPT !.slept = @ \ {"close"}]
           gone    == ShutdownTls(Bump(final))
           Facts(d) == /\ d \in Driver /\ d.slot = "none" /\ ~d.scan
                       /\ d.reports = h.reports /\ ~d.warm_attempted
                       /\ d.warm_ok = h.warm_ok /\ d.warmBoot = h.warmBoot
                       /\ d.parked => parks \/ h.parked
           Sound(d) == /\ Facts(d)
                       /\ d.hop # "none" => d.hop = h.hop
                       /\ d.slept \in {h.slept, h.slept \ {"park"}}
                       /\ "park" \notin d.slept => parks \/ "park" \notin h.slept
                       /\ d.clean_close => parks \/ h.clean_close
<1>1. /\ open /\ ~busy /\ ~suspending /\ ~open' /\ h \in Driver
      /\ UNCHANGED <<sensor, busy, used, suspending>>
  BY DEF Close, Idle, TypeOK
<1>2. ~Acting /\ ~Acting'
  BY <1>1 DEF Acting
<1>3. Resting /\ h.slot = "none" /\ ~h.scan
  BY <1>1, <1>2 DEF StageInv, Told, SessionInv, Coherent
<1>4. \/ h' = final /\ released
      \/ h' = [gone EXCEPT !.clean_close = FALSE]
      \/ h' = [final EXCEPT !.clean_close = FALSE] /\ ~settled.clean_close
  BY Zenon DEF Close
<1>5. parks <=> h.warm_ok /\ h.hop # "none"
  BY <1>3
<1>6. parks => Sound(e)
  <2> SUFFICES ASSUME parks PROVE Sound(e)
    OBVIOUS
  <2> DEFINE t == [Bump(h) EXCEPT !.scan = FALSE]
  <2>1. Silent(t)
    <3> DEFINE b == Bump(h)
    <3>1. b \in Driver /\ b.slot = "none"
      BY <1>1, <1>3, SlotTypes, BumpFields
    <3> HIDE DEF b
    <3>2. [b EXCEPT !.scan = FALSE] \in Driver
      BY <3>1 DEF Driver
    <3>3. ~[b EXCEPT !.scan = FALSE].scan /\ [b EXCEPT !.scan = FALSE].slot = "none"
      BY <3>1 DEF Driver
    <3> QED BY <3>2, <3>3 DEF Silent, b
  <2> HIDE DEF e
  <2>2. /\ e \in Driver /\ e.slot = "none" /\ e.reports = h.reports /\ ~e.scan
        /\ e.warm_ok = h.warm_ok /\ e.warmBoot = h.warmBoot
        /\ e.warm_attempted = h.warm_attempted
        /\ e.hop = h.hop /\ e.parked /\ e.clean_close
        /\ e.slept = h.slept \ {"park"}
    <3>1. h.hop # "none" /\ h.warm_ok /\ ~h.scan
      OBVIOUS
    <3> HIDE DEF parks
    <3> QED BY <1>1, <2>1, <3>1, SilentDeactivate DEF e
  <2> QED BY <1>3, <2>2 DEF Resting, Rest
<1>7. Sound(left)
  <2>1. left = h
    BY <1>1, <1>3 DEF Driver
  <2> QED BY <1>1, <1>3, <2>1 DEF Resting, Rest
<1>8. Sound(settled)
  BY <1>6, <1>7
<1> HIDE DEF settled
<1>9. Sound(kept) /\ (kept.hop # "none" => kept.clean_close)
  <2> DEFINE b == Bump(settled)
  <2>1. Same(b, settled) /\ b.slot = "none" /\ b.scan = settled.scan
        /\ b.reports = settled.reports
    BY <1>8, SlotSame, BumpFields
  <2> HIDE DEF b
  <2>2. /\ shut = ShutdownTls(b)
        /\ shut \in Driver /\ shut.hop = "none" /\ shut.parked = b.parked
        /\ shut.warm_ok = b.warm_ok /\ shut.warmBoot = b.warmBoot
        /\ shut.warm_attempted = b.warm_attempted
        /\ shut.clean_close = b.clean_close /\ shut.slept = b.slept
        /\ shut.slot = b.slot /\ shut.reports = b.reports /\ shut.scan = b.scan
    BY <2>1, ShutMemory, ShutFields DEF Same, b
  <2> HIDE DEF shut, parks
  <2>3. Sound(shut)
    BY <1>8, <2>1, <2>2 DEF Same
  <2> HIDE DEF Sound
  <2>4. CASE settled.clean_close
    BY <1>8, <2>4
  <2>5. CASE ~settled.clean_close
    BY <2>2, <2>3, <2>5
  <2> QED BY <2>4, <2>5
<1> HIDE DEF kept, parks
<1>10. Same(reset, still) /\ Sound(reset) /\ ~reset.loop
       /\ (reset.hop # "none" => reset.clean_close)
  <2>1. /\ still \in Driver /\ ~still.loop /\ still.slot = "none" /\ ~still.scan
        /\ still.reports = kept.reports /\ still.hop = kept.hop
        /\ still.parked = kept.parked
        /\ still.warm_ok = kept.warm_ok /\ still.warmBoot = kept.warmBoot
        /\ still.warm_attempted = kept.warm_attempted
        /\ still.clean_close = kept.clean_close /\ still.slept = kept.slept
    BY <1>9 DEF Driver
  <2> HIDE DEF still
  <2>2. Same(reset, still) /\ reset.slot = "none" /\ ~reset.scan
        /\ reset.reports = still.reports
    BY <2>1, SilentReset DEF Silent
  <2> HIDE DEF reset
  <2> QED BY <1>9, <2>1, <2>2 DEF Same
<1> HIDE DEF reset
<1> DEFINE Ended(d) == /\ Facts(d) /\ ~d.loop
                       /\ d.hop # "none" => d.hop = h.hop /\ d.clean_close
                       /\ "close" \notin d.slept
                       /\ "warm" \notin d.slept => "warm" \notin h.slept
                       /\ "park" \notin d.slept => parks \/ "park" \notin h.slept
                       /\ d.clean_close => parks \/ h.clean_close
<1>11. Ended(final)
  <2>1. /\ final \in Driver /\ ~final.loop /\ final.slot = "none" /\ ~final.scan
        /\ final.reports = reset.reports /\ final.hop = reset.hop
        /\ final.parked = reset.parked
        /\ final.warm_ok = reset.warm_ok /\ final.warmBoot = reset.warmBoot
        /\ final.warm_attempted = reset.warm_attempted
        /\ final.clean_close = reset.clean_close
        /\ final.slept = reset.slept \ {"close"}
    BY <1>10 DEF Driver
  <2> HIDE DEF final
  <2> QED BY <1>10, <2>1
<1>12. Ended(gone) /\ gone.hop = "none"
  <2> DEFINE b == Bump(final)
  <2>1. Same(b, final) /\ b.slot = "none" /\ b.scan = final.scan
        /\ b.reports = final.reports
    BY <1>11, SlotSame, BumpFields
  <2> HIDE DEF b
  <2>2. /\ gone \in Driver /\ gone.hop = "none" /\ gone.parked = b.parked
        /\ gone.loop = b.loop
        /\ gone.warm_ok = b.warm_ok /\ gone.warmBoot = b.warmBoot
        /\ gone.warm_attempted = b.warm_attempted
        /\ gone.clean_close = b.clean_close /\ gone.slept = b.slept
        /\ gone.slot = b.slot /\ gone.reports = b.reports /\ gone.scan = b.scan
    BY <2>1, ShutMemory, ShutFields DEF Same, b
  <2> HIDE DEF final, gone
  <2> QED BY <1>11, <2>1, <2>2 DEF Same
<1>13. ~settled.clean_close => final.hop = "none"
  <2>1. ~settled.clean_close => kept.hop = "none"
    <3>1. Bump(settled) \in Driver
      BY <1>8, SlotTypes
    <3> QED BY <3>1, ShutMemory DEF kept
  <2>2. still.hop = kept.hop
    BY <1>9 DEF Driver
  <2>3. final.hop = reset.hop
    BY <1>10 DEF Driver
  <2> QED BY <1>10, <2>1, <2>2, <2>3 DEF Same
<1> HIDE DEF final, gone
<1>14. \A d \in Driver :
         LET c == [d EXCEPT !.clean_close = FALSE]
         IN  /\ c \in Driver /\ ~c.clean_close
             /\ c.slot = d.slot /\ c.scan = d.scan /\ c.reports = d.reports
             /\ c.warm_attempted = d.warm_attempted /\ c.warm_ok = d.warm_ok
             /\ c.warmBoot = d.warmBoot /\ c.parked = d.parked /\ c.loop = d.loop
             /\ c.hop = d.hop /\ c.slept = d.slept
  BY DEF Driver
<1>15. Ended(h')
  <2>1. CASE h' = final
    BY <1>11, <2>1
  <2>2. CASE h' = [gone EXCEPT !.clean_close = FALSE]
    BY <1>12, <1>14, <2>2
  <2>3. CASE h' = [final EXCEPT !.clean_close = FALSE] /\ ~settled.clean_close
    BY <1>11, <1>13, <1>14, <2>3
  <2> QED BY <1>4, <2>1, <2>2, <2>3
<1> HIDE DEF Sound
<1> QED BY <1>1, <1>2, <1>5, <1>15

LEMMA CloseStays ==
  ASSUME TypeOK, SessionInv, StageInv, TypeOK',
         NEW released \in BOOLEAN, NEW serverUp \in BOOLEAN, Close(released, serverUp)
  PROVE  StageInv' /\ Moves
<1> DEFINE parks == h.warm_ok /\ h.hop # "none"
<1>1. /\ open /\ ~busy /\ ~suspending /\ ~open' /\ ~Acting /\ ~Acting'
      /\ UNCHANGED <<busy, suspending>>
      /\ h'.slot = "none" /\ h'.reports = h.reports /\ ~h'.loop
      /\ ~h'.warm_attempted /\ h'.warm_ok = h.warm_ok
      /\ h'.parked => parks \/ h.parked
      /\ h'.hop # "none" => h'.hop = h.hop
  BY CloseFields
<1>2. Told /\ Resting
  BY <1>1 DEF StageInv
<1>3. StageInv'
  BY <1>1, <1>2 DEF StageInv, Told, Resting, Rest
<1>4. Moves
  BY <1>1, PhaseFacts, PhaseFactsNext
  DEF Moves, Contract!Next, Contract!vars, Contract!Close
<1> QED BY <1>3, <1>4

LEMMA CloseFeeds ==
  ASSUME Guarded, TypeOK, SessionInv, StageInv, LiveInv,
         NEW released \in BOOLEAN, NEW serverUp \in BOOLEAN, Close(released, serverUp)
  PROVE  LiveInv'
<1> DEFINE parks == h.warm_ok /\ h.hop # "none"
<1>1. /\ open /\ ~open' /\ ~Acting /\ ~Acting' /\ UNCHANGED sensor
      /\ h'.warm_ok = h.warm_ok /\ h'.warmBoot = h.warmBoot
      /\ h'.parked => parks \/ h.parked
      /\ h'.hop # "none" => h'.hop = h.hop /\ h'.clean_close
      /\ "close" \notin h'.slept
      /\ "warm" \notin h'.slept => "warm" \notin h.slept
      /\ "park" \notin h'.slept => parks \/ "park" \notin h.slept
      /\ h'.clean_close => parks \/ h.clean_close
  BY CloseFields
<1>2. used
  BY DEF Close, Guarded
<1>3. parks => Live(sensor)
  BY <1>1, <1>2 DEF LiveInv
<1>4. Memory(h, sensor) /\ Clean
  BY DEF LiveInv
<1> HIDE DEF parks
<1>5. Memory(h', sensor')
  BY <1>1, <1>3, <1>4 DEF Memory
<1>6. Clean'
  BY <1>1, <1>3, <1>4 DEF Clean
<1> QED BY <1>1, <1>5, <1>6 DEF LiveInv

(* A claim starts an action, or is refused and reported.                   *)
LEMMA ClaimFields ==
  ASSUME TypeOK, SessionInv, StageInv,
         NEW usable \in BOOLEAN, NEW serverUp \in BOOLEAN, Claim(usable, serverUp)
  PROVE  /\ open /\ open' /\ ~busy /\ busy' /\ ~suspending /\ ~suspending' /\ ~Acting
         /\ UNCHANGED sensor /\ used' = (used \/ usable)
         /\ usable => /\ Acting' /\ Forgets(h', h) /\ h'.reports = 0 /\ ~h'.scan
                      /\ ~h'.parked /\ Staged(h')
                      /\ Memory(h, sensor) => Fed(h', sensor')
         /\ ~usable => ~Acting' /\ Same(h', h) /\ h'.slot = "none" /\ h'.reports = 1
<1> DEFINE d == [h EXCEPT !.reports = 0]
           a == Activate(d, serverUp)
           r == Report(d)
<1>1. /\ open /\ open' /\ ~busy /\ busy' /\ ~suspending /\ ~suspending'
      /\ h \in Driver /\ sensor \in Sensor /\ UNCHANGED sensor
      /\ used' = (used \/ usable)
  BY DEF Claim, Idle, TypeOK
<1>2. ~Acting
  BY <1>1 DEF Acting
<1>3. Resting /\ h.slot = "none" /\ ~h.scan
  BY <1>1, <1>2 DEF StageInv, Told, SessionInv, Coherent
<1>4. Same(d, h) /\ d.slot = "none" /\ d.reports = 0 /\ ~d.scan
  BY <1>1, <1>3 DEF Same, Driver
<1>5. (usable => h' = a) /\ (~usable => h' = r)
  BY DEF Claim
<1> HIDE DEF d
<1>6. /\ Forgets(a, h) /\ ~a.parked /\ a.reports = 0 /\ ~a.scan /\ Staged(a)
      /\ Memory(h, sensor) => Fed(a, sensor)
  <2>1. Memory(h, sensor) => Memory(d, sensor)
    BY <1>4 DEF Memory, Same
  <2>2. /\ Forgets(a, d) /\ ~a.parked /\ a.reports = 0 /\ ~a.scan /\ Staged(a)
        /\ Memory(d, sensor) => Fed(a, sensor)
    BY <1>1, <1>3, <1>4, ActivateRises DEF Resting, Rest, Same
  <2> QED BY <1>4, <2>1, <2>2, ForgetsOn
<1>7. Same(r, h) /\ r.slot = "none" /\ r.reports = 1
  BY <1>4, ReportMemory DEF Same
<1> HIDE DEF a, r
<1>8. (usable => Acting') /\ (~usable => ~Acting')
  BY <1>1, <1>5, <1>6, <1>7 DEF Acting
<1> QED BY <1>1, <1>2, <1>5, <1>6, <1>7, <1>8

LEMMA ClaimStays ==
  ASSUME TypeOK, SessionInv, StageInv, TypeOK',
         NEW usable \in BOOLEAN, NEW serverUp \in BOOLEAN, Claim(usable, serverUp)
  PROVE  StageInv' /\ Moves
<1>1. /\ open /\ open' /\ ~busy /\ busy' /\ ~suspending /\ ~suspending' /\ ~Acting
      /\ usable => Acting' /\ h'.reports = 0 /\ ~h'.scan /\ ~h'.parked /\ Staged(h')
      /\ ~usable => ~Acting' /\ Same(h', h) /\ h'.slot = "none" /\ h'.reports = 1
  BY ClaimFields
<1>2. Resting
  BY <1>1 DEF StageInv
<1>3. CASE usable
  <2>1. StageInv'
    BY <1>1, <1>3 DEF StageInv, Told
  <2>2. Moves
    BY <1>1, <1>3, PhaseFacts, PhaseFactsNext
    DEF Moves, Contract!Next, Contract!vars, Contract!Start
  <2> QED BY <2>1, <2>2
<1>4. CASE ~usable
  <2>1. StageInv'
    BY <1>1, <1>2, <1>4 DEF StageInv, Told, Same, Resting, Rest
  <2>2. Moves
    BY <1>1, <1>4, PhaseFacts, PhaseFactsNext
    DEF Moves, Contract!Next, Contract!vars, Contract!Start
  <2> QED BY <2>1, <2>2
<1> QED BY <1>3, <1>4

LEMMA ClaimFeeds ==
  ASSUME TypeOK, SessionInv, StageInv, LiveInv,
         NEW usable \in BOOLEAN, NEW serverUp \in BOOLEAN, Claim(usable, serverUp)
  PROVE  LiveInv'
<1>1. /\ open /\ open' /\ ~Acting /\ UNCHANGED sensor /\ used' = (used \/ usable)
      /\ usable => /\ Acting' /\ Forgets(h', h) /\ ~h'.parked
                   /\ Memory(h, sensor) => Fed(h', sensor')
      /\ ~usable => ~Acting' /\ Same(h', h)
  BY ClaimFields
<1>2. Memory(h, sensor) /\ Clean
  BY DEF LiveInv
<1>3. CASE usable
  <2>1. Memory(h', sensor') /\ Clean'
    BY <1>1, <1>2, <1>3 DEF Memory, Forgets, Clean
  <2> QED BY <1>1, <1>2, <1>3, <2>1 DEF LiveInv
<1>4. CASE ~usable
  <2>1. Memory(h', sensor') /\ Clean'
    BY <1>1, <1>2, <1>4 DEF Memory, Same, Clean
  <2> QED BY <1>1, <1>4, <2>1 DEF LiveInv, Same
<1> QED BY <1>3, <1>4

LEMMA ReturnStays ==
  ASSUME TypeOK, SessionInv, StageInv, TypeOK', Return
  PROVE  StageInv' /\ Moves /\ (LiveInv => LiveInv')
<1>1. /\ busy /\ h.reports > 0 /\ ~busy' /\ h \in Driver /\ open
      /\ UNCHANGED <<h, sensor, open, used, suspending>>
  BY DEF Return, TypeOK, SessionInv
<1>2. ~Acting /\ ~Acting' /\ h.reports # 0
  BY <1>1 DEF Acting, Driver
<1>3. Told' /\ Resting'
  BY <1>1, <1>2 DEF StageInv, Told, Resting
<1>4. LiveInv => LiveInv'
  BY <1>1, <1>2 DEF LiveInv, Clean
<1>5. Moves
  BY <1>1, PhaseFacts, PhaseFactsNext
  DEF Moves, Contract!Next, Contract!vars, Contract!Return
<1> QED BY <1>2, <1>3, <1>4, <1>5 DEF StageInv

(* A guarded cancel tells no one but its own waiter, which drops it: it    *)
(* parks the session, or leaves none.                                      *)
LEMMA CancelFields ==
  ASSUME CancelGuarded, TypeOK, SessionInv, StageInv,
         NEW serverUp \in BOOLEAN, Cancel(serverUp)
  PROVE  LET parks == h.hop # "none" /\ h.warm_ok /\ ~h.scan
         IN  /\ busy /\ open /\ h.reports = 0 /\ ~Acting'
             /\ UNCHANGED <<sensor, open, busy, used, suspending>>
             /\ parks => Acting /\ h.slot \in {"config", "probe"}
             /\ h' \in Driver /\ h'.slot = "none" /\ h'.reports = 1 /\ ~h'.loop
             /\ h'.warm_ok = h.warm_ok /\ h'.warmBoot = h.warmBoot
             /\ ~h'.warm_attempted
             /\ parks => h'.hop = "agreed" /\ h'.slept = h.slept \ {"park"}
             /\ ~parks => /\ h'.hop = "none" /\ ~h'.parked /\ ~h'.clean_close
                          /\ h'.slept = h.slept
<1> DEFINE b == Bump(h)
           t == [b EXCEPT !.scan = FALSE]
           e == Deactivate(h, serverUp)
           r == Report(e)
           parks == h.hop # "none" /\ h.warm_ok /\ ~h.scan
<1>1. /\ busy /\ h.reports = 0 /\ h \in Driver /\ open /\ Coherent(h)
      /\ suspending \/ h.slot \in {"config", "probe", "scan"}
      /\ h' = r /\ UNCHANGED <<sensor, open, busy, used, suspending>>
  BY DEF Cancel, CancelGuarded, TypeOK, SessionInv
<1>2. /\ b \in Driver /\ b.slot = h.slot /\ b.ready # "current"
      /\ h.slotGen = "current" => b.slotGen = "stale"
  BY <1>1, SlotTypes, BumpFields
<1> HIDE DEF b
<1>3. t \in Driver /\ ~t.scan /\ t.slot = b.slot /\ t.slotGen = b.slotGen /\ t.ready = b.ready
  BY <1>2 DEF Driver
<1>4. Silent(t)
  <2>1. CASE suspending
    <3>1. h.slot \in {"none", "tlsReq"}
      BY <2>1 DEF StageInv, Told, Acting
    <3> QED BY <1>2, <1>3, <3>1 DEF Silent
  <2>2. CASE ~suspending
    <3>1. h.slot \in {"config", "probe", "scan"} /\ StageOK(h)
      BY <1>1, <2>2 DEF SessionInv, Acting
    <3>2. h.slot \in {"config", "probe"} => h.slotGen = "current"
      BY <1>1, <3>1 DEF StageOK, Driver, Gens
    <3> QED BY <1>2, <1>3, <3>1, <3>2 DEF Silent
  <2> QED BY <2>1, <2>2
<1> HIDE DEF t
<1>5. /\ e \in Driver /\ e.slot = "none" /\ e.reports = 0 /\ ~e.loop
      /\ e.warm_ok = h.warm_ok /\ e.warmBoot = h.warmBoot
      /\ e.warm_attempted = h.warm_attempted
      /\ parks => e.hop = h.hop /\ e.slept = h.slept \ {"park"}
      /\ ~parks => e.hop = "none" /\ ~e.parked /\ ~e.clean_close /\ e.slept = h.slept
  BY <1>1, <1>4, SilentDeactivate DEF t, b
<1> HIDE DEF e
<1>6. Same(r, e) /\ r.slot = "none" /\ r.reports = 1
  BY <1>5, ReportMemory
<1> HIDE DEF r
<1>7. ~Acting'
  BY <1>1, <1>6 DEF Acting
<1>8. /\ ~h.warm_attempted
      /\ parks => Acting /\ h.slot \in {"config", "probe"} /\ h.hop = "agreed"
  <2>1. CASE suspending
    BY <2>1 DEF StageInv, Acting, Resting, Rest
  <2>2. CASE ~suspending
    <3>1. Acting /\ Staged(h) /\ h.slot \in {"config", "probe", "scan"}
      BY <1>1, <2>2 DEF StageInv, Acting
    <3> QED BY <1>1, <3>1 DEF Staged, Late, Coherent
  <2> QED BY <2>1, <2>2
<1> HIDE DEF parks
<1> QED BY <1>1, <1>5, <1>6, <1>7, <1>8 DEF Same, parks

LEMMA CancelStays ==
  ASSUME CancelGuarded, TypeOK, SessionInv, StageInv, TypeOK',
         NEW serverUp \in BOOLEAN, Cancel(serverUp)
  PROVE  StageInv' /\ Moves
<1> DEFINE parks == h.hop # "none" /\ h.warm_ok /\ ~h.scan
<1>1. /\ busy /\ open /\ h.reports = 0 /\ ~Acting'
      /\ UNCHANGED <<open, busy, suspending>>
      /\ parks => Acting
      /\ h'.slot = "none" /\ h'.reports = 1 /\ ~h'.loop /\ ~h'.warm_attempted
      /\ parks => h'.hop = "agreed"
      /\ ~parks => h'.hop = "none" /\ ~h'.parked /\ ~h'.clean_close
  BY CancelFields
<1> HIDE DEF parks
<1>2. suspending => ~parks
  BY <1>1 DEF Acting
<1>3. Told' /\ Resting'
  BY <1>1, <1>2 DEF Told, Resting, Rest
<1>4. Moves
  BY <1>1, PhaseFacts, PhaseFactsNext
  DEF Moves, Contract!Next, Contract!vars, Contract!Report
<1> QED BY <1>1, <1>3, <1>4 DEF StageInv

LEMMA CancelFeeds ==
  ASSUME CancelGuarded, TypeOK, SessionInv, StageInv, LiveInv,
         NEW serverUp \in BOOLEAN, Cancel(serverUp)
  PROVE  LiveInv'
<1> DEFINE parks == h.hop # "none" /\ h.warm_ok /\ ~h.scan
<1>1. /\ busy /\ open /\ ~Acting'
      /\ UNCHANGED <<sensor, open, busy, used, suspending>>
      /\ parks => Acting /\ h.slot \in {"config", "probe"}
      /\ h'.warm_ok = h.warm_ok /\ h'.warmBoot = h.warmBoot
      /\ parks => h'.slept = h.slept \ {"park"}
      /\ ~parks => /\ h'.hop = "none" /\ ~h'.parked /\ ~h'.clean_close
                   /\ h'.slept = h.slept
  BY CancelFields
<1>2. parks => Live(sensor)
  BY <1>1 DEF LiveInv, Fed, Late, Armed, Live
<1>3. Memory(h, sensor)
  BY DEF LiveInv
<1> HIDE DEF parks
<1>4. Memory(h', sensor')
  BY <1>1, <1>2, <1>3 DEF Memory
<1>5. Clean'
  BY <1>1, <1>2 DEF Clean
<1> QED BY <1>1, <1>2, <1>4, <1>5 DEF LiveInv

(* A refused suspend leaves nothing to take up again, and at most a request*)
(* whose answer nobody waits for.                                          *)
LEMMA SuspendStays ==
  ASSUME TypeOK, SessionInv, StageInv, TypeOK', NEW serverUp \in BOOLEAN, Suspend(serverUp)
  PROVE  StageInv' /\ Moves /\ LiveInv'
<1> DEFINE b == Bump(h)
           o == [b EXCEPT !.parked = FALSE, !.clean_close = FALSE,
                          !.warm_ok = FALSE, !.warm_attempted = FALSE,
                          !.scan = FALSE]
           r == ResetState(o, serverUp)
           f == [r EXCEPT !.loop = FALSE]
           s == ShutdownTls(f)
<1>1. /\ busy /\ h.reports = 0 /\ ~suspending /\ suspending' /\ open /\ h \in Driver
      /\ h' = s /\ UNCHANGED <<sensor, open, busy, used>>
  BY DEF Suspend, TypeOK, SessionInv
<1>2. Torn(o)
  BY <1>1, BumpTears DEF SessionInv
<1>3. b \in Driver /\ b.ready # "current" /\ b.reports = 0
  BY <1>1, SlotTypes, BumpFields
<1> HIDE DEF b
<1>4. /\ ~o.warm_ok /\ ~o.warm_attempted /\ ~o.parked /\ ~o.clean_close /\ o.reports = 0
      /\ o.ready # "current"
  BY <1>3 DEF Driver
<1> HIDE DEF o
<1>5. Dropped(r)
  BY <1>2, <1>4, ResetDrops
<1> HIDE DEF r
<1>6. Dropped(f) /\ ~f.loop /\ f.reports = r.reports
  <2>1. /\ f \in Driver /\ ~f.loop /\ f.slot = r.slot /\ f.scan = r.scan
        /\ f.warm_ok = r.warm_ok /\ f.warm_attempted = r.warm_attempted
        /\ f.parked = r.parked /\ f.clean_close = r.clean_close /\ f.reports = r.reports
    BY <1>5 DEF Dropped, Driver
  <2> HIDE DEF f
  <2> QED BY <1>5, <2>1 DEF Dropped
<1> HIDE DEF f
<1>7. Dropped(s) /\ s.hop = "none" /\ s.ready = "none"
  <2>1. f \in Driver
    BY <1>6 DEF Dropped
  <2> HIDE DEF s
  <2> QED BY <1>6, <2>1, ShutMemory, ShutFields DEF Dropped, s
<1> HIDE DEF s
<1>8. ~Acting'
  BY <1>1 DEF Acting
<1>9. Told'
  BY <1>1, <1>7 DEF Told, Dropped
<1>10. Resting' /\ Memory(h', sensor') /\ Clean'
  BY <1>1, <1>7 DEF Resting, Rest, Memory, Clean, Dropped
<1>11. h'.reports = 0 \/ h'.reports = 1
  BY <1>1, <1>7 DEF Dropped, Driver
<1>12. Moves
  BY <1>1, <1>7, <1>11, PhaseFacts, PhaseFactsNext
  DEF Moves, Contract!Next, Contract!vars, Contract!Report, Contract!Abandon, Dropped
<1>13. LiveInv'
  BY <1>1, <1>7, <1>8, <1>10 DEF LiveInv
<1> QED BY <1>8, <1>9, <1>10, <1>12, <1>13 DEF StageInv

LEMMA ExpireStays ==
  ASSUME TypeOK, StageInv, NEW stamp \in {"park", "warm"}, Expire(stamp)
  PROVE  StageInv' /\ Moves /\ (LiveInv => LiveInv')
<1>1. /\ h'.slot = h.slot /\ h'.ready = h.ready /\ h'.reports = h.reports
      /\ h'.hop = h.hop /\ h'.parked = h.parked /\ h'.loop = h.loop
      /\ h'.warm_ok = h.warm_ok /\ h'.warmBoot = h.warmBoot /\ h'.scan = h.scan
      /\ h'.warm_attempted = h.warm_attempted /\ h'.clean_close = h.clean_close
      /\ h'.slept = h.slept
      /\ UNCHANGED <<sensor, open, busy, used, suspending>>
  BY DEF Expire, TypeOK, Driver
<1>2. StageInv'
  BY <1>1 DEF StageInv, Told, Acting, Staged, Resting, Rest
<1>3. LiveInv => LiveInv'
  BY <1>1 DEF LiveInv, Acting, Fed, Memory, Live, Clean
<1>4. Moves
  BY <1>1 DEF Moves, Contract!vars, Phase
<1> QED BY <1>2, <1>3, <1>4

LEMMA SleepFields ==
  ASSUME TypeOK, Sleep
  PROVE  /\ ~busy /\ ~suspending' /\ sensor' = Wiped
         /\ UNCHANGED <<open, busy, used>>
         /\ h'.slot = h.slot /\ h'.reports = h.reports
         /\ h'.hop = h.hop /\ h'.parked = h.parked /\ h'.loop = h.loop
         /\ h'.warm_ok = h.warm_ok
         /\ h'.warm_attempted = h.warm_attempted /\ h'.clean_close = h.clean_close
         /\ h'.slept = Stamps
         /\ ~Acting /\ ~Acting'
<1>1. ~busy /\ ~suspending' /\ sensor' = Wiped /\ h \in Driver
      /\ UNCHANGED <<open, busy, used>>
  BY DEF Sleep, TypeOK
<1>2. /\ h'.slot = h.slot /\ h'.reports = h.reports
      /\ h'.hop = h.hop /\ h'.parked = h.parked /\ h'.loop = h.loop
      /\ h'.warm_ok = h.warm_ok
      /\ h'.warm_attempted = h.warm_attempted /\ h'.clean_close = h.clean_close
      /\ h'.slept = Stamps
  BY <1>1 DEF Sleep, Driver
<1>3. ~Acting /\ ~Acting'
  BY <1>1 DEF Acting
<1> QED BY <1>1, <1>2, <1>3

LEMMA SleepStays ==
  ASSUME TypeOK, StageInv, TypeOK', Sleep
  PROVE  StageInv' /\ Moves
<1>1. /\ ~busy /\ ~suspending' /\ UNCHANGED <<open, busy>>
      /\ h'.slot = h.slot /\ h'.reports = h.reports
      /\ h'.hop = h.hop /\ h'.parked = h.parked /\ h'.loop = h.loop
      /\ h'.warm_ok = h.warm_ok /\ h'.warm_attempted = h.warm_attempted
      /\ ~Acting /\ ~Acting'
  BY SleepFields
<1>2. Told /\ Resting
  BY <1>1 DEF StageInv
<1>3. Told' /\ Resting'
  BY <1>1, <1>2 DEF Told, Resting, Rest
<1>4. Phase' = Phase
  BY <1>1, PhaseFacts, PhaseFactsNext
<1>5. Moves
  BY <1>1, <1>4 DEF Moves, Contract!vars
<1> QED BY <1>1, <1>3, <1>5 DEF StageInv

(* Where no sleep passes an open device but the one it refused, the device *)
(* that sleeps open has no session.                                        *)
LEMMA SleepFeeds ==
  ASSUME Guarded, TypeOK, StageInv, LiveInv, Sleep
  PROVE  LiveInv'
<1>1. open => suspending
  BY DEF Sleep, Guarded
<1>2. /\ UNCHANGED <<open, used>>
      /\ h'.hop = h.hop /\ h'.parked = h.parked /\ h'.warm_ok = h.warm_ok
      /\ h'.clean_close = h.clean_close /\ h'.slept = Stamps
      /\ ~Acting /\ ~Acting'
  BY SleepFields
<1>3. Resting /\ Clean
  BY <1>2 DEF StageInv, LiveInv
<1>4. Memory(h', sensor') /\ Clean'
  BY <1>1, <1>2, <1>3 DEF Memory, Resting, Clean, Stamps
<1> QED BY <1>1, <1>2, <1>3, <1>4 DEF LiveInv, Resting

LEMMA RestartStays ==
  ASSUME Restart
  PROVE  StageInv' /\ Moves /\ LiveInv'
<1>1. h' = NewDriver /\ ~open' /\ ~busy' /\ ~used' /\ ~suspending'
  BY DEF Restart
<1>2. StageInv'
  BY <1>1 DEF NewDriver, StageInv, Told, Acting, Resting, Rest
<1>3. LiveInv'
  BY <1>1 DEF NewDriver, LiveInv, Acting, Memory, Clean
<1>4. Phase' = "closed" /\ h'.reports = 0
  BY <1>1, PhaseFactsNext DEF NewDriver
<1>5. Moves
  BY <1>4 DEF Moves, Contract!Next, Contract!Restart
<1> QED BY <1>2, <1>3, <1>5

------------------------------------------------------------------------------
LEMMA GuardedInit == Init => StageInv /\ LiveInv
  BY DEF Init, NewDriver, StageInv, LiveInv, Told, Acting, Resting, Rest, Memory, Clean

LEMMA StageStep ==
  CancelGuarded /\ TypeOK /\ SessionInv /\ StageInv /\ [Next]_vars => StageInv' /\ Moves
<1> SUFFICES ASSUME CancelGuarded, TypeOK, SessionInv, StageInv, [Next]_vars
             PROVE  StageInv' /\ Moves
  OBVIOUS
<1>1. TypeOK'
  BY TypeStep
<1>2. CASE UNCHANGED vars
  BY <1>2 DEF vars, StageInv, Told, Acting, Staged, Resting, Rest, Moves, Contract!vars,
     Phase
<1>3. CASE Client
  BY <1>1, <1>3, OpenStays, CloseStays, ClaimStays, CancelStays DEF Client
<1>4. CASE Return
  BY <1>1, <1>4, ReturnStays
<1>5. CASE System
  BY <1>1, <1>5, SuspendStays, ExpireStays, SleepStays, RestartStays DEF System
<1>6. CASE TlsReply \/ TimedReply \/ ScanEnds
  BY <1>1, <1>6, ReplyStays
<1> QED BY <1>2, <1>3, <1>4, <1>5, <1>6 DEF Next

LEMMA LiveStep ==
  Guarded /\ TypeOK /\ SessionInv /\ StageInv /\ LiveInv /\ [Next]_vars => LiveInv'
<1> SUFFICES ASSUME Guarded, TypeOK, SessionInv, StageInv, LiveInv, [Next]_vars
             PROVE  LiveInv'
  OBVIOUS
<1>1. TypeOK' /\ CancelGuarded
  BY TypeStep DEF Guarded
<1>2. CASE UNCHANGED vars
  BY <1>2 DEF vars, LiveInv, Acting, Fed, Memory, Live, Clean
<1>3. CASE Client
  BY <1>1, <1>3, OpenFeeds, CloseFeeds, ClaimFeeds, CancelFeeds DEF Client
<1>4. CASE Return
  BY <1>1, <1>4, ReturnStays
<1>5. CASE System
  BY <1>1, <1>5, SuspendStays, ExpireStays, SleepFeeds, RestartStays DEF System
<1>6. CASE TlsReply \/ TimedReply \/ ScanEnds
  BY <1>1, <1>6, ReplyFeeds
<1> QED BY <1>2, <1>3, <1>4, <1>5, <1>6 DEF Next

LEMMA StageHolds == CancelGuarded => (Spec => [](TypeOK /\ SessionInv /\ StageInv))
<1> SUFFICES ASSUME CancelGuarded PROVE Spec => [](TypeOK /\ SessionInv /\ StageInv)
  OBVIOUS
<1>1. SessionInv /\ TypeOK /\ StageInv /\ [Next]_vars => StageInv'
  BY StageStep
<1> QED BY <1>1, GuardedInit, TypeCorrect, SessionHolds, PTL DEF Spec

LEMMA LiveHolds == Guarded => (Spec => [](TypeOK /\ SessionInv /\ StageInv /\ LiveInv))
<1> SUFFICES ASSUME Guarded
             PROVE  Spec => [](TypeOK /\ SessionInv /\ StageInv /\ LiveInv)
  OBVIOUS
<1>1. Spec => [](TypeOK /\ SessionInv /\ StageInv)
  BY StageHolds DEF Guarded
<1>2. TypeOK /\ SessionInv /\ StageInv /\ LiveInv /\ [Next]_vars => LiveInv'
  BY LiveStep
<1> QED BY <1>1, <1>2, GuardedInit, PTL DEF Spec

(* A claim of goodix5e0a.c is reported once, whichever of the activation,  *)
(* the scan, the cancellation and the suspend race to its end: so long as  *)
(* it is cancelled only while its waiter drops a cancellation.             *)
THEOREM ReportedOnce == CancelGuarded => (Spec => []SingleReport)
<1>1. StageInv => SingleReport
  BY DEF StageInv, Told, SingleReport
<1> QED BY <1>1, StageHolds, PTL

(* No command waiter of goodix.c outlives the action that armed it.        *)
THEOREM NoWaiterSurvives == CancelGuarded => (Spec => []NoZombieWaiter)
<1>1. StageInv => NoZombieWaiter
  BY DEF StageInv, Told, Acting, NoZombieWaiter
<1> QED BY <1>1, StageHolds, PTL

(* A session that goodix5e0a.c may take up again was negotiated to the end,*)
(* waits for no command and has no read loop.                              *)
THEOREM ParksAreSound == CancelGuarded => (Spec => []ParkIsSound)
<1>1. TypeOK /\ StageInv => ParkIsSound
  <2> SUFFICES ASSUME TypeOK, StageInv, Reusable(h)
               PROVE  h.hop = "agreed" /\ h.slot = "none" /\ ~h.loop
    BY DEF ParkIsSound
  <2>1. ~Acting /\ h.parked /\ h.hop # "none"
    BY DEF Reusable, StageInv
  <2>2. h.hop \in {"none", "fresh", "agreed"}
    BY DEF TypeOK, Driver
  <2>3. ~suspending /\ h.hop = "agreed" /\ ~h.loop
    BY <2>1, <2>2 DEF StageInv, Resting, Rest
  <2> QED BY <2>1, <2>3 DEF StageInv, Told
<1> QED BY <1>1, StageHolds, PTL

(* Every step of goodix5e0a.c is one that libfprint expects of a driver, or*)
(* none that it notices: the device is open before it acts, an action first*)
(* brings the sensor up, then waits for a finger, and is reported once.    *)
THEOREM ContractKept == CancelGuarded => (Spec => Contract!SafetySpec)
<1> SUFFICES ASSUME CancelGuarded PROVE Spec => Contract!SafetySpec
  OBVIOUS
<1>1. Init => Contract!Init
  BY DEF Init, NewDriver, Contract!Init, Phase
<1>2. TypeOK /\ SessionInv /\ StageInv /\ [Next]_vars => [Contract!Next]_(Contract!vars)
  BY StageStep DEF Moves
<1> QED BY <1>1, <1>2, StageHolds, PTL DEF Spec, Contract!SafetySpec

(* A scan of goodix5e0a.c runs over a TLS session the sensor shares, on a  *)
(* sensor that holds its config, after a park, a warm start or an open     *)
(* without USB reset as after a full activation: so long as no sleep nor   *)
(* reset comes between two claims without the driver's knowledge.          *)
THEOREM ScansAreLive == Guarded => (Spec => []ScanOnLiveSession)
<1>1. SessionInv /\ StageInv /\ LiveInv => ScanOnLiveSession
  BY DEF SessionInv, StageInv, LiveInv, ScanOnLiveSession, Coherent, Told, Staged, Fed, Late,
     Armed
<1> QED BY <1>1, LiveHolds, PTL

(* An open of goodix5e0a.c that skips the USB reset finds a sensor with its*)
(* key and its config.                                                     *)
THEOREM CleanClosesAreAlive == Guarded => (Spec => []CleanMeansAlive)
<1>1. LiveInv => CleanMeansAlive
  BY DEF LiveInv, Clean, Live, CleanMeansAlive
<1> QED BY <1>1, LiveHolds, PTL
=============================================================================
