-------------------------- MODULE Goodix5e0aSession --------------------------
(***************************************************************************)
(* The life of a 5e0a session: opening and closing the USB device, the     *)
(* activation of a claim (parked, warm or full), the TLS bring-up, the     *)
(* scan, cancellation, suspend, and what the next claim inherits.          *)
(*                                                                         *)
(* Every callback of the driver runs to completion inside one event of the *)
(* main loop, and calls the next one synchronously: cancelling a claim     *)
(* fails the armed command waiter, whose callback may report the claim,    *)
(* restart the activation ladder or open a TLS server before the teardown  *)
(* that caused it goes on.  So the C functions are operators from a driver *)
(* record to a driver record, composed as the calls are, and every action  *)
(* is one event of the main loop.                                          *)
(***************************************************************************)
EXTENDS FiniteSets, Naturals

CONSTANTS
  CancelDuring,   \* the waiters during which the client cancels its claim
  Events          \* the rarer events of the environment, of EventKinds

(* A refused claim or release of the USB interface, a system sleep while   *)
(* the device is open and idle, a replug the kernel re-enumerates, and a   *)
(* client that opens and closes the device without a claim.                *)
EventKinds == {"claim", "release", "sleepIdle", "replug", "openOnly"}

(* The command the transport slot waits for, named for its callback.       *)
Ladder    == {"nop", "otp", "fw", "psk"}
Handshake == {"tlsReq", "hs", "tlsEst"}
Waiters   == Ladder \cup Handshake \cup {"config", "enable", "probe", "scan"}

(* Every command carries a timer but REQUEST_TLS_CONNECTION, and the scan, *)
(* which waits for a finger.                                               *)
Timed == Waiters \ {"tlsReq", "scan"}

ASSUME SessionAssumption == /\ CancelDuring \subseteq Waiters
                            /\ Events \subseteq EventKinds

(* activation_gen is compared with a captured copy and never otherwise, so *)
(* a copy is "none", equal to the counter, or made stale by a bump.        *)
Gens   == {"none", "current", "stale"}
Stamps == {"close", "park", "warm"}

VARIABLES
  h,         \* the driver's private structs, one field per C field
  sensor,    \* what the MCU holds: the TLS key, the uploaded config
  open,      \* the USB interface is claimed
  busy,      \* libfprint runs an action (verify, identify or enroll)
  used,      \* a claim was activated since the device was opened
  suspending \* the suspend hook answered NOT_SUPPORTED: a cancel will follow

vars == <<h, sensor, open, busy, used, suspending>>

Driver ==
  [ loop           : BOOLEAN,                      \* priv->inited
    slot           : Waiters \cup {"none"},        \* priv->callback
    slotGen        : Gens,                         \* its captured generation
    hop            : {"none", "fresh", "agreed"},  \* priv->tls_hop
    ready          : Gens,                         \* priv->tls_ready_callback
    scan           : BOOLEAN,                      \* self->scan_ssm != NULL
    parked         : BOOLEAN,
    parkGen        : Gens,                         \* self->tls_parked_gen
    warm_ok        : BOOLEAN,
    warmBoot       : BOOLEAN,                      \* warm_boot_seq = boot_seq
    warm_attempted : BOOLEAN,
    warm_retried   : BOOLEAN,
    clean_close    : BOOLEAN,
    slept          : SUBSET Stamps,                \* stamps a sleep has passed
    expired        : SUBSET {"park", "warm"},      \* stamps past their TTL
    reports        : 0..2 ]                        \* completions of the action

Sensor == [keyed : BOOLEAN, configured : BOOLEAN]

NewDriver ==
  [ loop |-> FALSE, slot |-> "none", slotGen |-> "none", hop |-> "none",
    ready |-> "none", scan |-> FALSE, parked |-> FALSE, parkGen |-> "none",
    warm_ok |-> FALSE, warmBoot |-> FALSE, warm_attempted |-> FALSE,
    warm_retried |-> FALSE, clean_close |-> FALSE, slept |-> {},
    expired |-> {}, reports |-> 0 ]

Wiped == [keyed |-> FALSE, configured |-> FALSE]

------------------------------------------------------------------------------
(* The transport slot, the generation and the TLS server.                  *)

ClearSlot(d) == [d EXCEPT !.slot = "none", !.slotGen = "none"]

(* A command sent while the slot is free.                                  *)
Send(d, w, gen) == [d EXCEPT !.slot = w, !.slotGen = gen]

Stale(gen) == IF gen = "none" THEN "none" ELSE "stale"

(* Mutant: a teardown that orphans nothing.                                *)
BumpForgotten(d) == d

Bump(d) == [d EXCEPT !.slotGen = Stale(@), !.ready = Stale(@),
                     !.parkGen = Stale(@)]

(* fpi_device_action_error and the verify, identify and enroll completions.*)
Report(d) == [d EXCEPT !.reports = IF @ = 0 THEN 1 ELSE 2]

ShutdownTls(d) == [d EXCEPT !.hop = "none", !.ready = "none"]

Distrust(d) == [d EXCEPT !.clean_close = FALSE, !.warm_ok = FALSE,
                         !.warm_attempted = FALSE]

------------------------------------------------------------------------------
(* Activation.  A ladder starts the read loop and sends a NOP.             *)

StartLadder(d, warm) ==
  Send([d EXCEPT !.scan = FALSE, !.warm_attempted = warm, !.loop = TRUE],
       "nop", "none")

(* Mutant: a failed ladder is started again, however often it has failed.  *)
RetryForever(d) == d \in Driver

WarmRetry(d) == d.warm_attempted /\ ~d.warm_retried

(* Mutant: the last failure of a ladder is not reported.                   *)
ActivateGivesUp(d) ==
  IF WarmRetry(d)
  THEN StartLadder([Distrust(d) EXCEPT !.warm_retried = TRUE], FALSE)
  ELSE Distrust(d)

ActivateFailed(d) ==
  IF WarmRetry(d)
  THEN StartLadder([Distrust(d) EXCEPT !.warm_retried = TRUE], FALSE)
  ELSE Report(Distrust(d))

(* Mutant: nor is the failure of a handshake.                              *)
TlsGivesUp(d) ==
  IF WarmRetry(d)
  THEN StartLadder([ShutdownTls(Distrust(d)) EXCEPT !.warm_retried = TRUE],
                   FALSE)
  ELSE [Distrust(d) EXCEPT !.ready = "none"]

TlsFailed(d) ==
  IF WarmRetry(d)
  THEN StartLadder([ShutdownTls(Distrust(d)) EXCEPT !.warm_retried = TRUE],
                   FALSE)
  ELSE [Report(Distrust(d)) EXCEPT !.ready = "none"]

(* The ready callback owns an error of the handshake; a teardown releases  *)
(* it uncalled, and a bump makes it drop what it is told.                  *)
TlsReadyError(d) ==
  IF d.ready = "current" THEN TlsFailed(d) ELSE [d EXCEPT !.ready = "none"]

TlsReady(d) ==
  LET told == [d EXCEPT !.hop = "agreed", !.ready = "none"]
  IN  IF d.ready = "current"
      THEN Send(told, IF d.warm_attempted THEN "enable" ELSE "config", "current")
      ELSE told

(* serverUp: goodix_tls_server_init has made its socket pair and thread.   *)
TlsInit(d, serverUp) ==
  IF serverUp
  THEN Send([d EXCEPT !.hop = "fresh", !.ready = "current"], "tlsReq", "none")
  ELSE TlsFailed([d EXCEPT !.hop = "none"])

ScanStart(d) ==
  IF d.scan THEN d ELSE Send([d EXCEPT !.scan = TRUE], "scan", "none")

ChipEnabled(d) ==
  ScanStart([d EXCEPT !.warm_ok = TRUE, !.warmBoot = TRUE,
                      !.slept = @ \ {"warm"}, !.expired = @ \ {"warm"},
                      !.warm_attempted = FALSE])

(* Mutant: a warm stamp survives the USB reset.                            *)
WarmAnyBoot(d) == "warm" \notin d.slept \cup d.expired /\ d.warm_ok

WarmFresh(d) ==
  /\ "warm" \notin d.slept \cup d.expired
  /\ d.warm_ok
  /\ d.warmBoot

(* Mutant: the ladder after a failed probe keeps the parked TLS server.    *)
ProbeFailedKeeps(d, timedOut) ==
  StartLadder(IF timedOut THEN [d EXCEPT !.warm_ok = FALSE] ELSE d,
              ~timedOut /\ WarmFresh(d))

ProbeFailed(d, timedOut) ==
  IF timedOut
  THEN StartLadder([ShutdownTls(d) EXCEPT !.warm_ok = FALSE], FALSE)
  ELSE IF WarmFresh(d)
       THEN StartLadder(ShutdownTls(d), TRUE)
       ELSE StartLadder([ShutdownTls(d) EXCEPT
                           !.warm_ok = @ /\ "warm" \notin d.slept], FALSE)

(* Mutant: a failed scan is reported and never freed.                      *)
ScanFailedHeld(d) ==
  Report([d EXCEPT !.clean_close = FALSE, !.warm_ok = FALSE])

ScanFailed(d) ==
  Report([d EXCEPT !.scan = FALSE, !.clean_close = FALSE, !.warm_ok = FALSE])

------------------------------------------------------------------------------
(* What the callback of waiter w does with an error that is no timeout: a  *)
(* bad frame, BUSY, or the CANCELLED of goodix_reset_state.                *)
Failed(d, w, gen, serverUp) ==
  CASE w \in {"nop", "otp", "fw"} -> ActivateFailed(d)
    [] w = "psk"                  -> TlsInit(d, serverUp)
    [] w \in Handshake            -> TlsReadyError(d)
    [] w = "config" -> IF gen = "stale" THEN d ELSE Report(d)
    [] w = "enable" -> IF gen = "stale" THEN d ELSE Report(Distrust(d))
    [] w = "probe"  -> IF gen = "stale" THEN d ELSE ProbeFailed(d, FALSE)
    [] w = "scan"   -> IF d.scan THEN ScanFailed(d) ELSE d
    [] w = "none"   -> d

(* The armed waiter is told CANCELLED before the caller goes on.           *)
ResetState(d, serverUp) ==
  Failed(ClearSlot(d), d.slot, d.slotGen, serverUp)

(* Mutant: a park that leaves the read loop running.                       *)
ParkListening(d) ==
  [d EXCEPT !.parked = TRUE, !.parkGen = "current", !.clean_close = TRUE,
            !.slept = @ \ {"park"}, !.expired = @ \ {"park"}]

Park(d) ==
  [d EXCEPT !.loop = FALSE, !.parked = TRUE, !.parkGen = "current",
            !.slept = @ \ {"park"}, !.expired = @ \ {"park"},
            !.clean_close = TRUE]

Destroy(d) ==
  [ShutdownTls(d) EXCEPT !.loop = FALSE, !.parked = FALSE,
                         !.clean_close = FALSE]

(* Mutants: the generation is not bumped; the scan is freed after the reset*)
(* has failed its waiter; any live TLS context is parked.                  *)
DeactivateUnbumped(d, serverUp) ==
  LET idle == ResetState([d EXCEPT !.scan = FALSE], serverUp)
  IN  IF idle.hop # "none" /\ idle.warm_ok /\ ~d.scan THEN Park(idle) ELSE Destroy(idle)

DeactivateLate(d, serverUp) ==
  LET idle == [ResetState(Bump(d), serverUp) EXCEPT !.scan = FALSE]
  IN  IF idle.hop # "none" /\ idle.warm_ok /\ ~d.scan THEN Park(idle) ELSE Destroy(idle)

DeactivateParks(d, serverUp) ==
  LET idle == ResetState([Bump(d) EXCEPT !.scan = FALSE], serverUp)
  IN  IF idle.hop # "none" /\ ~d.scan THEN Park(idle) ELSE Destroy(idle)

(* The scan is freed before the reset, so that its waiter drops as stale.  *)
Deactivate(d, serverUp) ==
  LET idle == ResetState([Bump(d) EXCEPT !.scan = FALSE], serverUp)
  IN  IF idle.hop # "none" /\ idle.warm_ok /\ ~d.scan
      THEN Park(idle)
      ELSE Destroy(idle)

(* goodix_send_protocol on an armed slot: the old waiter is told BUSY, and *)
(* then the callback of the command that was to be sent.                   *)
SendFirst(d, w, gen, serverUp) ==
  IF d.slot = "none"
  THEN Send(d, w, gen)
  ELSE Failed(ResetState(d, serverUp), w, gen, serverUp)

(* A parked session no other activation or teardown has come between.      *)
Reusable(d) == d.parked /\ d.parkGen = "current" /\ d.hop # "none"

(* The parked session is reused after a probe; else the TLS context, parked*)
(* or orphaned, goes and a ladder starts.                                  *)
Activate(d, serverUp) ==
  LET begun  == [Bump(d) EXCEPT !.warm_retried = FALSE, !.parked = FALSE]
      asleep == "park" \in d.slept \cup d.expired
      anew   == [ShutdownTls(begun) EXCEPT
                   !.warm_ok = @ /\ ~(d.parked /\ asleep)]
      warm   == WarmFresh(anew)
  IN  IF Reusable(d) /\ ~asleep
      THEN SendFirst([begun EXCEPT !.scan = FALSE, !.loop = TRUE],
                     "probe", "current", serverUp)
      ELSE SendFirst([anew EXCEPT !.scan = FALSE, !.loop = TRUE,
                                  !.warm_attempted = warm, !.warm_ok = warm],
                     "nop", "none", serverUp)

------------------------------------------------------------------------------
(* What libfprint asks of the driver.                                      *)

Init ==
  /\ h = NewDriver
  /\ sensor = Wiped
  /\ open = FALSE /\ busy = FALSE /\ used = FALSE /\ suspending = FALSE

Idle == open /\ ~busy /\ ~suspending

(* dev_open.  A dirty session, a sleep or a new USB identity takes the USB *)
(* reset; a refused claim leaves the device closed and the session dirty.  *)
Open(replugged, claimed) ==
  LET reset == ~h.clean_close \/ replugged \/ "close" \in h.slept
  IN  /\ ~open
      /\ replugged => "replug" \in Events
      /\ ~claimed => "claim" \in Events
      /\ h' = [ClearSlot(h) EXCEPT
                 !.clean_close = @ /\ ~reset /\ claimed,
                 !.warmBoot = @ /\ ~reset]
      /\ sensor' = IF reset THEN Wiped ELSE sensor
      /\ open' = claimed /\ used' = FALSE
      /\ UNCHANGED <<busy, suspending>>

(* dev_close, then goodix_dev_deinit: a healthy idle session is parked, and*)
(* a session that is not clean has its TLS context shut down.              *)
Close(released, serverUp) ==
  LET settled == IF ~h.scan /\ h.warm_ok /\ h.hop # "none"
                 THEN Deactivate(h, serverUp)
                 ELSE [h EXCEPT !.scan = FALSE]
      clean   == settled.clean_close
      kept    == IF clean THEN settled ELSE ShutdownTls(Bump(settled))
      final   == [ResetState([kept EXCEPT !.loop = FALSE], serverUp)
                    EXCEPT !.slept = @ \ {"close"}]
  IN  /\ Idle
      /\ used \/ "openOnly" \in Events
      /\ ~released => "release" \in Events
      /\ h' = IF released THEN final
              ELSE [IF clean THEN ShutdownTls(Bump(final)) ELSE final
                      EXCEPT !.clean_close = FALSE]
      /\ open' = FALSE
      /\ UNCHANGED <<sensor, busy, used, suspending>>

(* dev_verify, dev_identify, dev_enroll.  Without a usable template, or an  *)
(* enrolment context, the claim is refused before it is activated.         *)
Claim(usable, serverUp) ==
  LET begun == [h EXCEPT !.reports = 0]
  IN
  /\ Idle
  /\ busy' = TRUE /\ used' = (used \/ usable)
  /\ h' = IF usable THEN Activate(begun, serverUp) ELSE Report(begun)
  /\ UNCHANGED <<sensor, open, suspending>>

(* libfprint takes the report: the action is over.                         *)
Return ==
  /\ busy /\ h.reports > 0
  /\ busy' = FALSE
  /\ UNCHANGED <<h, sensor, open, used, suspending>>

(* dev_cancel, by the client or by libfprint after a refused suspend.      *)
Cancel(serverUp) ==
  /\ busy /\ h.reports = 0
  /\ suspending \/ h.slot \in CancelDuring
  /\ h' = Report(Deactivate(h, serverUp))
  /\ UNCHANGED <<sensor, open, busy, used, suspending>>

(* The suspend hook, called only during an action, answers NOT_SUPPORTED.  *)
Suspend(serverUp) ==
  LET orphan == [Bump(h) EXCEPT !.parked = FALSE, !.clean_close = FALSE,
                                !.warm_ok = FALSE, !.warm_attempted = FALSE,
                                !.scan = FALSE]
  IN  /\ busy /\ h.reports = 0 /\ ~suspending
      /\ h' = ShutdownTls([ResetState(orphan, serverUp) EXCEPT !.loop = FALSE])
      /\ suspending' = TRUE
      /\ UNCHANGED <<sensor, open, busy, used>>

(* 60s pass since the warm stamp, or 300s since the park, stamped later.   *)
Expire(stamp) ==
  /\ stamp = "park" => h.parked /\ "warm" \in h.expired
  /\ stamp \notin h.expired
  /\ h' = [h EXCEPT !.expired = @ \cup {stamp}]
  /\ UNCHANGED <<sensor, open, busy, used, suspending>>

(* Mutant: a sleep runs out the clock of every stamp, the close's as well. *)
SleepExpires ==
  /\ ~busy
  /\ open => suspending \/ "sleepIdle" \in Events
  /\ sensor' = Wiped
  /\ h' = [h EXCEPT !.slept = Stamps, !.expired = Stamps]
  /\ suspending' = FALSE
  /\ UNCHANGED <<open, busy, used>>

(* The system sleeps once no action runs; without an action no hook of the *)
(* driver is called.  The MCU loses its memory, the clocks will tell.      *)
Sleep ==
  /\ ~busy
  /\ open => suspending \/ "sleepIdle" \in Events
  /\ sensor' = Wiped
  /\ h' = [h EXCEPT !.slept = Stamps]
  /\ suspending' = FALSE
  /\ UNCHANGED <<open, busy, used>>

(* fprintd exits, or crashes: a new device object starts from zero.        *)
Restart ==
  /\ h' = NewDriver
  /\ open' = FALSE /\ busy' = FALSE /\ used' = FALSE /\ suspending' = FALSE
  /\ UNCHANGED sensor

------------------------------------------------------------------------------
(* What the armed waiter is told: an answer, while the read loop runs, or  *)
(* an error, from a bad frame, a failed send or the timer.                 *)

Answered(w) == h.slot = w /\ h.loop /\ open
Erred(w)    == h.slot = w /\ w \in Timed \cup {"scan"}

Free == ClearSlot(h)
Keep == UNCHANGED <<open, busy, used, suspending>>
Hold == UNCHANGED <<sensor, open, busy, used, suspending>>

(* A NOP that times out has flushed the device: silence is success.        *)
NopDone ==
  /\ h.slot = "nop"
  /\ h' = Send(Free, IF h.warm_attempted THEN "fw" ELSE "otp", "none")
  /\ Hold

OtpRead == Answered("otp") /\ h' = Send(Free, "fw", "none") /\ Hold

FirmwareRead(serverUp) ==
  /\ Answered("fw")
  /\ h' = IF h.warm_attempted THEN TlsInit(Free, serverUp) ELSE Send(Free, "psk", "none")
  /\ Hold

LadderFails ==
  /\ \E w \in {"nop", "otp", "fw"} : Erred(w)
  /\ h' = ActivateFailed(Free)
  /\ Hold

(* The key hash primes the MCU; nobody minds how the read ends.            *)
PskRead(serverUp) ==
  /\ h.slot = "psk"
  /\ h' = TlsInit(Free, serverUp)
  /\ Hold

(* The device's hello goes to the server, whose flight goes back.          *)
TlsRequested == Answered("tlsReq") /\ h' = Send(Free, "hs", "none") /\ Hold

(* The device's flights are relayed, and the server's last one back.       *)
HandshakeRead == Answered("hs") /\ h' = Send(Free, "tlsEst", "none") /\ Hold

TlsEstablished ==
  /\ Answered("tlsEst")
  /\ h' = TlsReady(Free)
  /\ sensor' = [sensor EXCEPT !.keyed = TRUE]
  /\ Keep

(* The request is answered by a frame that fails its checksum.             *)
TlsRefused == Answered("tlsReq") /\ h' = TlsReadyError(Free) /\ Hold

HandshakeFails ==
  /\ \E w \in {"hs", "tlsEst"} : Erred(w)
  /\ h' = TlsReadyError(Free)
  /\ Hold

ConfigUploaded ==
  /\ Answered("config")
  /\ h' = IF h.slotGen = "stale" THEN Free ELSE Send(Free, "enable", "current")
  /\ sensor' = [sensor EXCEPT !.configured = TRUE]
  /\ Keep

ChipAnswers ==
  /\ Answered("enable")
  /\ h' = IF h.slotGen = "stale" THEN Free ELSE ChipEnabled(Free)
  /\ Hold

(* The enable that follows a healthy probe captures no generation.         *)
ProbeAnswers ==
  /\ Answered("probe")
  /\ h' = IF h.slotGen = "stale" THEN Free ELSE Send(Free, "enable", "none")
  /\ Hold

ProbeTimesOut ==
  /\ h.slot = "probe"
  /\ h' = IF h.slotGen = "stale" THEN Free ELSE ProbeFailed(Free, TRUE)
  /\ Hold

CommandFails ==
  /\ \E w \in {"config", "enable", "probe"} :
       Erred(w) /\ h' = Failed(Free, w, h.slotGen, TRUE)
  /\ Hold

(* The touch was captured and reported, or the scan failed.                *)
ScanDone  == Answered("scan") /\ h' = Report([Free EXCEPT !.scan = FALSE]) /\ Hold
ScanFails == Erred("scan") /\ h' = Failed(Free, "scan", "none", TRUE) /\ Hold

------------------------------------------------------------------------------
Client ==
  \/ \E replugged, claimed \in BOOLEAN : Open(replugged, claimed)
  \/ \E released, serverUp \in BOOLEAN : Close(released, serverUp)
  \/ \E usable, serverUp \in BOOLEAN : Claim(usable, serverUp)
  \/ \E serverUp \in BOOLEAN : Cancel(serverUp)

System ==
  \/ \E serverUp \in BOOLEAN : Suspend(serverUp)
  \/ \E stamp \in {"park", "warm"} : Expire(stamp)
  \/ Sleep
  \/ Restart

TlsReply == TlsRequested \/ TlsRefused

(* The steps of the commands that carry a timer, which ends them at last.  *)
TimedReply ==
  \/ NopDone
  \/ OtpRead
  \/ \E serverUp \in BOOLEAN : FirmwareRead(serverUp)
  \/ LadderFails
  \/ \E serverUp \in BOOLEAN : PskRead(serverUp)
  \/ HandshakeRead
  \/ TlsEstablished
  \/ HandshakeFails
  \/ ConfigUploaded
  \/ ChipAnswers
  \/ ProbeAnswers
  \/ ProbeTimesOut
  \/ CommandFails

ScanEnds == ScanDone \/ ScanFails

Next == Client \/ Return \/ System \/ TlsReply \/ TimedReply \/ ScanEnds

Spec == Init /\ [][Next]_vars

(* Timers fire, libfprint takes a report, and cancels the action whose     *)
(* suspend was refused.  Neither the client, the system nor the finger is  *)
(* fair.                                                                   *)
TimedSpec ==
  /\ Spec
  /\ WF_vars(TimedReply)
  /\ WF_vars(Return)
  /\ WF_vars(suspending /\ \E serverUp \in BOOLEAN : Cancel(serverUp))

(* The device moreover answers the request for a TLS connection, to which  *)
(* the driver sets no timer.                                               *)
AnsweringSpec == TimedSpec /\ WF_vars(TlsReply)

------------------------------------------------------------------------------
(* An action under way: neither reported nor told to let go.               *)
Acting == busy /\ h.reports = 0 /\ ~suspending

(* The types of the variables.                                             *)
TypeOK ==
  /\ h \in Driver
  /\ sensor \in Sensor
  /\ {open, busy, used, suspending} \subseteq BOOLEAN

(* A scan only ever runs over a TLS session the sensor shares, on a sensor *)
(* that holds its config: no park, warm start or skipped USB reset brings  *)
(* a claim up on what a reset or a sleep has wiped.                        *)
ScanOnLiveSession ==
  h.scan => h.hop = "agreed" /\ sensor.keyed /\ sensor.configured

(* An open that skips the USB reset finds the sensor as the park left it.  *)
CleanMeansAlive ==
  ~open /\ h.clean_close /\ "close" \notin h.slept =>
     sensor.keyed /\ sensor.configured

(* A claim is reported once, whatever races its end, and nothing is        *)
(* reported of a claim that is over.                                       *)
SingleReport == h.reports < 2

(* No command waiter outlives the action that armed it, to be answered, or *)
(* to collide with the first command, during the next one.                 *)
NoZombieWaiter == ~busy => h.slot = "none"

(* A park that may be reused is quiet, and negotiated to the end.          *)
ParkIsSound ==
  Reusable(h) => h.hop = "agreed" /\ h.slot = "none" /\ ~h.loop

(* An action that is not reported waits for something: through collisions, *)
(* retries and fallbacks a waiter is armed, and the read loop runs for it. *)
ActionHasWaiter == Acting => h.slot # "none" /\ h.loop

(* The assertion of goodix_tls_init, that there is no TLS server yet, can  *)
(* not fail, nor can the relay of the handshake, which dereferences the    *)
(* server, find it freed.                                                  *)
TlsServerInTime ==
  /\ h.slot \in Ladder => h.hop = "none"
  /\ h.slot \in Handshake /\ h.loop => h.hop # "none"

(* A scan has one waiter, and the waiter of a scan has its scan.           *)
ScanWaiterOwned == h.scan <=> h.slot = "scan"

(* An action the device fails leaves a session that is not clean.          *)
DeviceErrorIsDirty ==
  [][(LadderFails \/ HandshakeFails \/ CommandFails \/ ScanFails)
       /\ h.reports = 0 /\ h'.reports > 0 => ~h'.clean_close]_vars

(* Bringing the sensor up ends, in a scan or in the end of the action.     *)
BringUpEnds == (busy /\ ~h.scan) ~> (h.scan \/ ~busy)

------------------------------------------------------------------------------
(* The inductive invariant: what every state of the driver keeps together, *)
(* what each stage of an action holds, and what may be left of an action   *)
(* that is over.                                                           *)

Coherent(d) ==
  /\ d.scan <=> d.slot = "scan"
  /\ d.ready # "none" => d.slot \in Handshake /\ d.hop # "none"

StageOK(d) ==
  /\ d.slot \in Waiters /\ d.loop
  /\ d.slot \in Ladder <=> d.hop = "none"
  /\ d.slot \in Handshake => d.ready = "current"
  /\ d.slotGen # "stale"
  /\ d.slotGen = "none" => d.slot \notin {"config", "probe"}

(* A ladder restarted by the teardown that cancelled it has no read loop,  *)
(* and nothing warm to retry; nor has a request of the teardown, whose     *)
(* ready callback is still there only if its server was parked.            *)
LeftOver(d) ==
  \/ d.slot = "none"
  \/ /\ d.slot \in {"nop", "otp"} /\ ~d.loop /\ d.hop = "none"
     /\ ~d.warm_attempted /\ ~d.warm_ok
  \/ d.slot = "tlsReq" /\ ~d.loop /\ (d.ready # "none" => d.warm_ok)

(* Every action keeps its stage, and every end of one leaves little.       *)
SessionInv ==
  /\ Coherent(h)
  /\ busy => open
  /\ ~open => h.slot = "none"
  /\ Acting => StageOK(h)
  /\ ~Acting => LeftOver(h)

------------------------------------------------------------------------------
(* The session keeps the contract of a libfprint driver.                   *)
Phase ==
  CASE ~open                            -> "closed"
    [] open /\ ~busy                    -> "idle"
    [] open /\ busy /\ h.reports > 0    -> "reported"
    [] open /\ busy /\ h.reports = 0    -> IF h.scan THEN "scan" ELSE "bringUp"

Contract == INSTANCE FpDeviceContract WITH phase <- Phase, reports <- h.reports

KeepsContract == Contract!Spec
==============================================================================
