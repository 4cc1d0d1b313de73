# The Goodix 27c6:5e0a driver, in TLA+

A verification project for the libfprint driver of `src/libfprint-driver`: the
life of a fingerprint session and the scan inside it (`goodix5e0a.c`), the
transport below it (`goodix.c`), and the TLS server between them
(`goodixtls.c`), model-checked with TLC and, where a result matters for every
instance, proved with TLAPS.

## The system

The driver runs in fprintd's main loop. libfprint opens the device, starts one
action at a time (verify, identify, enroll), may cancel it, and closes the
device. The sensor answers over USB; everything but a few ACKs travels through
a TLS connection whose *server* is the host.

| part | state | operations | who it talks to |
| --- | --- | --- | --- |
| session (`goodix5e0a.c`) | activation and scan SSMs, `tls_parked`, `warm_ok`, stamps, retries | `dev_open`, `dev_close`, claim, `dev_activate`, `activate_run_state`, `goodix5e0a_deactivate`, `goodix5e0a_suspend`, completions | libfprint (reports), transport (commands) |
| transport (`goodix.c`) | one command slot (`cmd`, `ack`, `reply`, `callback`, `timeout`), accumulator, `inited`, `activation_gen`, `boot_seq`, `clean_close` | `goodix_send_protocol`, `goodix_read_tls`, `goodix_receive_*`, `goodix_reset_state`, read loop, `goodix_dev_init`, `goodix_dev_deinit` | session (callbacks), USB |
| framing (`goodix_proto.c`) | none | encode and decode of packs and protocol messages | transport |
| TLS (`goodix.c`, `goodixtls.c`) | `tls_hop`: socket pair, accept thread, SSL object; `tls_ready_callback` | `goodix_tls_init`, the handshake relay, `goodix_shutdown_tls`, image decryption | session, transport |
| scan (`goodix5e0a.c`) | `scan_ssm`, `scan_gen`, poll timer, burst of frames | FDT down, image, FDT up, delivery | transport, Milan |
| Milan (`goodix_milan.c`) | loaded DLL, templates, enrolment context | match, enroll, quality | scan |
| OTP calibration | DAC settings | `decode_otp`, `update_dacs` | session |
| `goodix5xx.c`, `goodix511.c` | base class and sibling driver | checks shared by the activation ladder | session |

Around them: tests, tools that recover the PSK, install scripts, packaging, and
the reverse-engineering experiments. `PROJECT.json` lists every part with what
is done about it.

What is hard here is not any one function but what they are called in the
middle of. Every completion is a *synchronous* callback: a teardown that resets
the transport calls the callback of the command it cancels, which may report
the action, start the ladder again, open a TLS server or send a command before
the teardown goes on. A session outlives its claim in three ways (a parked TLS
connection, a warm sensor config, a skipped USB reset), each guarded by its own
stamp, generation or boot counter. The device may be silent, late or corrupt,
the machine sleeps, and fprintd exits. Section "Hazards" of `PROJECT.json`
gives these at their lines.

What makes each part correct:

- session: an action is reported exactly once; while it is not, something is
  awaited; no waiter of one action is left for the next; a scan runs only on a
  sensor that shares the TLS key and holds its config; bringing the sensor up
  ends.
- transport: a caller is told once how its command ended; a timer belongs to
  its command; a corrupt frame never completes a safety-critical command.
- framing: whatever lengths the packs claim, the accumulator neither grows to its
  cap nor takes padding or payload for a header.
- TLS: the thread never uses what the main loop has freed, neither waits for a
  peer that is gone, a flight is relayed whole, a failed handshake reaches the
  waiter.
- scan: a freed scan takes no step; a poll timer belongs to its scan; the best
  frame of a touch is delivered, and of that touch only; a finger that counted
  counts again only after it was lifted; every wait but the one for a finger ends.

## Modules

| module | what it is |
| --- | --- |
| `FpDeviceContract` | what libfprint expects of any driver: closed, idle, bring-up, scan, reported, once |
| `Goodix5e0aSession` | the session; its last section maps it to `FpDeviceContract` |
| `Goodix5e0aSessionProofs` | theorems about `Goodix5e0aSession` in any environment |
| `Goodix5e0aSessionGuardedProofs` | theorems about it under guarded cancellation, and its refinement of `FpDeviceContract` |
| `MCGoodix5e0aSession` | the environments it is checked in |
| `CommandContract` | what a transport promises who sends a command: told once, and in time |
| `GoodixCommand` | the command slot; its last section maps it to `CommandContract` |
| `GoodixCommandProofs` | theorems about `GoodixCommand`, and its refinement of `CommandContract` |
| `MCGoodixCommand` | two callers and a device for it |
| `TouchContract` | what a client is promised of its touches: counted one by one, none twice |
| `Goodix5e0aScan` | the scan machine and the burst; its last section maps it to `TouchContract` |
| `Goodix5e0aScanProofs` | theorems about `Goodix5e0aScan`, and its refinement of `TouchContract` |
| `MCGoodix5e0aScan` | the frames it is checked with |
| `GoodixTls` | the accept thread, its sockets, the relay of the handshake and the accumulator below it |
| `GoodixTlsProofs` | theorems about `GoodixTls` whatever fails: lifetimes, waiting, the accumulator |
| `GoodixTlsHandshakeProofs` | theorems about its handshake as long as nothing fails |

The four models describe one driver at four levels. What is one waiter of the
session ("scan", "hs") is a machine of its own in `Goodix5e0aScan` and
`GoodixTls`; what is one answer or error there is a frame, a checksum and a timer
in `GoodixCommand`. Each takes from the level below only what that level's module
checks: that a waiter is told once, in time, and synchronously by a reset.

Definitions that a comment introduces with `Mutant:` are plausible bugs of a
definition below them, used to show that a property can fail; no action uses
them.

### `Goodix5e0aSession`

An action is one event of the main loop: a call of libfprint (`Open`, `Close`,
`Claim`, `Cancel`, `Suspend`), an answer, error or timeout of the command that
is awaited (`NopDone`, `OtpRead`, ..., `ScanFails`), the passing of time
(`Expire`, `Sleep`) or of the process (`Restart`). What an event calls is an
operator from the driver's record to a driver's record, named after the C
function (`ActivateFailed` for `activate_complete` with an error, `TlsInit`,
`Deactivate`, `ResetState`, `Park`, `Destroy`), and operators are composed as
the calls are. So the order inside a teardown, which the C comments argue
about, is in the model: `Deactivate` bumps the generation, frees the scan,
resets the slot (which runs the cancelled callback) and only then looks at what
to park.

| field of `h` | C |
| --- | --- |
| `slot`, `slotGen` | `priv->callback` and the generation its `user_data` captured |
| `loop` | `priv->inited` |
| `hop` | `priv->tls_hop`; "agreed" adds that the handshake was completed (history) |
| `ready` | `priv->tls_ready_callback` and its captured generation |
| `scan` | `self->scan_ssm` |
| `parked`, `parkGen`, `warm_ok`, `warm_attempted`, `warm_retried`, `clean_close` | of the same names |
| `warmBoot` | `warm_boot_seq` equals `boot_seq` |
| `slept`, `expired` | which stamps a sleep has passed, or their TTL |
| `reports` | completions libfprint saw of the action (history) |

Abstractions. `activation_gen` is only ever compared with a captured copy, so a
copy is absent, current or stale. Clocks become the two sets of stamps: the
code compares boot time with monotonic time (a sleep) and with a TTL. A failed
send is an error of the command (`SendFails` of `GoodixCommand` shows it is told
like any other). The three reads of the TLS handshake are one waiter, "hs";
all commands of a scan, its poll timer included, are one waiter, "scan". The
`sensor` record is what the MCU remembers, and is never read by the driver's
actions. Milan, frames and OTP bytes do not occur.

### `GoodixCommand`

The level below: `priv` is the slot, `sources` the timer sources alive in the
main loop, `buffer` the frames in the accumulator, and `calls` the stack of
callbacks under way. Here a step is small: `goodix_receive_done` clears the
slot and pushes the callback, `CallbackTold` calls it, `CallbackSends` lets it
send (so every interleaving the synchronous calls allow is explored), and
`CallbackReturns` goes on with what is below. `goodix_send_protocol` is
`Collide`, `Arm` or `SendFails`; `goodix_receive_pack` dispatches one frame
with `Junk`, `BadFrame`, `ReceiveAck`, `ReceiveReply` or `ReceiveTls`. A frame is
its type, its command byte and whether it passes its checksums (the outer one,
the inner one, or the null checksum the code also accepts); `Rejected` is the
code's gate, which looks at the byte of a protocol frame, so that an ACK and a
TLS pack pass it with a wrong checksum. A call on the stack carries the frame that
ended its command.

A caller waits for one command at a time, as the SSMs do. `goodix_read_tls`
takes the slot without a look; the handshake calls it on a free slot only, and
that is its guard. After the close no callback sends: what may then be armed is
the subject of `SessionInv`, proved one level above.

### `Goodix5e0aScan`

As in the session, C functions are operators from the driver's record `d` to a
driver's record (`ScanStart`, `ScanComplete`, `Deactivate`, `Bank`), and an
action is one event: a call of libfprint (`Claim`, `Cancel`, `Close`,
`Suspend`), the end of an activation, a moving finger, time (`Age`), or what a
waiter is told (`StepDone`, `D6Replied`, `DownTouched`, ..., `StillHeld`).

| field of `d` | C |
| --- | --- |
| `scan_ssm`, `state` | `self->scan_ssm`, an address, and the machine's state |
| `slot`, `down_timeout` | the armed command's callback and the 50 ms poll timer, with the machine each carries |
| `gen_ok` | `scan_timeout_gen == scan_gen`; the two are only ever compared |
| `best`, `frame_count` | the `best_*` fields (`NULL` for `best_frame_no == 0`) and the count |
| `guard_age` | `retry_guard_mono`: unset, or less than 2 s, 2 to 30 s, or more ago |
| `mode`, `enrol_ctx`, `enroll_stage`, `air_retries`, `down_empty_polls`, `retry_guard`, `session_started`, `tls_parked` | of the same names |
| `turn` | none; flips with every command, so that one command after another is a step |

A waiter's `mine` says whether the scan it was armed in is still the one under
way, which the driver cannot see: it compares addresses, and in the model every
allocation returns the address freed before (one value of `Ssm`), the worst case.
`finger`, `lift` and `owed` are the finger, whether it was off the sensor since
FDT UP was armed, and whether the touch that counted last has not ended. `burst`
and `given` are history: what was captured since the touch was confirmed, and
what was handed over.

A frame is its quality and overlap, range and active area; air has none. Milan
is free to take or refuse an image, to pack a template or not, to match or not.
Bring-up, transport and parking are the other modules': a claim comes up or
fails, may or may not find its parked session alive, may or may not be parked
by a cancel. A cut frame may be decoded as any frame or as air. The sensor
reports a release only when the finger was off it since FDT UP was armed.

### `GoodixTls`

Two threads: `thread` is where `goodix_tls_init_serve` is, `pc` where the main
loop is (in its loop, draining the accumulator, blocked in a read of the socket,
blocked in `pthread_join`). `up` and `down` are the two directions of the socket
pair, `ssl` the object both use. `stage` is the state of the handshake machine,
with the request before it and TLS_SUCCESSFULLY_ESTABLISHED after it; `ready` is
the stored callback and how it was told. `wire` and `acc` are cells: a header
cell (the 4 bytes of a pack's header), a payload cell and a padding cell, so
that transfers may cut packs anywhere and a cut-off payload may be read as a
header. A record is its name; cryptography is whether the keys agree (`PSK`).

| action | C |
| --- | --- |
| `TlsInit`, `InitFails` | `goodix_tls_init`, `goodix_tls_server_init` |
| `Accept`, `AcceptEnds`, `ThreadShuts` | `goodix_tls_init_serve` around `SSL_accept` |
| `Receive`, `Dispatch`, `DropCorrupt`, `Drained` | `goodix_receive_pack` |
| `ClientWrite` in `DispatchTls` | `on_goodix_request_tls_connection`, `on_goodix_tls_read_handshake` |
| `ReadRecord`, `Relay`, `ReadFails` | `goodix_tls_read_all_records` in `tls_handshake_run` |
| `Teardown`, `Joined` | `goodix_reset_state` and `goodix_shutdown_tls` |
| `Timeout` | `goodix_receive_timeout_cb` |

Assumptions. OpenSSL writes a flight in one flush (its buffer holds either
flight), and the 4096-byte buffer of the relay is never full. `SSL_accept` returns
in the step of its last flush: nothing orders the two for the main loop's later
`SSL_read` but several round trips over USB, and `AcceptIsOver` is that order
as the model sees it. The 4 bytes of a header arrive together, padding with its
pack. Reset and shutdown, in either order, are one `Teardown`: the main loop does
nothing between. Until `Fault`, no transfer fails, nothing times out, and the
sensor sends one pack that ends a command in a transfer; after it, anything may
happen. Two packs in one transfer are a fault because the code loses the second
(`goodix_receive_done` clears the accumulator). A teardown in mid-handshake
counts as a fault too: packs of the old handshake may come late.

## Runs

Session, all with the full state space (no state constraint; the one bounded
counter is `reports`, which stops at 2, one beyond what is allowed):

- `session_any`: a claim may be cancelled whatever it waits for, with all of
  `EventKinds` (a refused claim or release of the interface, a sleep of the idle
  open device, a replug, an open without a claim). `SessionInv`,
  `ActionHasWaiter`, `TlsServerInTime`, `ScanWaiterOwned` hold, and bringing up
  ends (`BringUpEnds`).
- `session_guarded`: a claim is cancelled in the waiters whose callback checks
  the generation or is freed first ("config", "probe", "scan"), and a release may
  fail. Then `SingleReport`, `NoZombieWaiter`, `ParkIsSound`,
  `ScanOnLiveSession`, `CleanMeansAlive` hold, and the session implements
  `FpDeviceContract` (`KeepsContract`, with its liveness).
- Five runs show where the code departs from its own comments or tests, each
  with the smallest environment that does it: `cancel_ladder` (a claim cancelled
  during the ladder is reported twice), `cancel_psk` (a teardown arms a request
  without a timer), `open_without_claim` (a close without a claim re-parks a
  session the USB reset wiped), `config_rejected` (a failed config upload leaves
  a clean session) and `silent_tls_request` (the one command without a timer).
  `findings` in `PROJECT.json` quotes the lines.

Two more departures were met that no run is spent on: a suspend-free cancel
during the handshake's reads can park a connection that was never negotiated
(add "hs" to `CancelDuring` of `session_guarded`: `ParkIsSound` fails), and a
sleep of the idle, open device is not seen by a clean close that follows it (add
"sleepIdle" to `Events`: `CleanMeansAlive` fails).

Transport:

- `command`: two callers, five commands, one of each kind (tolerant NOP,
  acknowledged, replied, without a timer, handshake read), eleven frames, USB
  transfers of up to two frames and up to two commands sent from callbacks within
  one event. Two callers suffice for a collision, and two nested sends for a
  collision inside a collision; a third frame in a transfer would meet the same
  empty accumulator as the second. It shows the slot, timer and waiter
  invariants, that a command succeeds only on a frame that answers it and a
  safety-critical one on no corrupt reply (`RightAnswer`), that a closed device
  leaves nothing in its slot, and that the transport implements `CommandContract`
  (`KeepsPromise`, with its liveness).
- `bad_ack`: ENABLE_CHIP is safety-critical and only acknowledged, and the
  checksum gate looks at the frame's own byte: it succeeds on a corrupt ACK.
  REQUEST_TLS_CONNECTION is safety-critical too, and the gate on packs asks for
  MSG_PROTOCOL flags: with `Commands = {"requestTls"}` the same invariant fails on
  a corrupt TLS pack, against the same comment (`goodix.c:343`); no run of its own
  is spent on it. Of safety-critical commands these are the only two successes on
  a frame with a wrong checksum: `RightAnswer` leaves no other.

Scan:

- `scan`: three frames a touch, two stages, one retry for air, two empty polls,
  and four frames that lie on either side of every threshold and differ in one
  criterion each (quality, range, area): each counter meets its limit, and one
  below it. Stages and retries only count, so twelve stages and five retries meet
  no case that two and one do not. It shows that one waiter moves a scan
  (`OneMover`) and none is left to another at the same address (`NoReusedSsm`),
  that a scan ends with its claim (`ScanEndsWithClaim`), that the best frame of
  this touch is handed over (`DeliversBest`, `BurstIsOfThisTouch`), that a finger
  is not looked at twice (`NoSecondLook`), that an enrolment has its context
  (`EnrolmentHasContext`), that release waits, bursts and single touches end, and
  that the driver implements `TouchContract` (`KeepsTouchContract`).

TLS:

- `tls`: the right key, packs of up to five cells, twelve cells on the wire: room
  for the three packs of the sensor's second flight, with three cells more for a
  late one. The accumulator's cap of twelve cells is two transfers, as in C. It
  shows the lifetime and waiting invariants, that only a fault fails a handshake
  (`OnlyFaultsFail`), that the accumulator stays in step and below its cap, and
  that a handshake ends.
- `wrong_psk`: the sensor has another key. `SSL_accept` fails on the sensor's
  Finished, but its alert can be read, is relayed as the last flight, and the claim
  is told of success: `EstablishedMeansAccepted` fails without any fault of the
  bus. A journal in `.scratch/goodix-5e0a/issues/` shows the same on hardware: "bad
  record mac", then a confirmed touch, then a timeout of the image. So "agreed"
  in `Goodix5e0aSession`, a completed handshake, means a shared key only when the
  PSK is right, which its invariants assume. A corrupt pack does the same with the
  right key.

Met in the scan without a run of their own: an engine without the optional
`getQuality` export gives every frame quality 0, so every enrolment touch is
refused, and a match of the fast path is discarded as air, though
`goodix_milan.c:1031` and `:1114` have the selection fall back to range and area; `on_fdt_up_reply` sends FDT UP again from its error path, so a bus
that refuses every send nests it for up to 30 s; a decryption error in mid-burst
does not mark the session dirty; `air_retries` survives a cancel.

Fairness. `TimedSpec` of the scan: a command with a timer is answered or times
out, the poll timer fires (WF(`Timed`)), and time passes (WF(`Age`)). `TouchedSpec`
adds that touches keep coming however many samples show none (SF(`DownTouched`)),
for `SingleTouchEnds` only: FDT DOWN has no timer, and a claim may wait for a finger
for ever. `FairSpec` of `GoodixTls`: the kernel schedules the thread, system calls
return, USB transfers complete and timers fire; `HandshakeEnds` starts after the
request for the connection, which has no timer. Of the session, `TimedSpec` and
`AnsweringSpec`: timers of the main loop fire
(`WF(TimedReply)`: an armed timed command is answered or times out), libfprint
takes a report, and libfprint cancels an action whose suspend was refused. That
the device answers the request for a TLS connection is assumed in
`AnsweringSpec` only, because the driver has no timer there. Nothing is assumed
of clients, fingers, sleeps or restarts. `FairSpec`: running code goes on (WF of
dispatch and callbacks), and a timer that is due again and again is served
(SF(`Timeout`)), since GLib serves every ready source of one priority before it
polls anew, however much the device sends.

Deadlock is checked in all runs: the system never stops.

## Proofs

`Goodix5e0aSessionProofs`, for every `CancelDuring` and `Events`, from
`SessionAssumption` alone:

- `TypeCorrect`: `Spec => []TypeOK`;
- `SessionHolds`: `Spec => []SessionInv`;
- `ActionsAdvance`, `TlsServerThere`, `ScanOwnsWaiter`: the safety invariants of
  `session_any`, which follow from `SessionInv`.

`ActionHasWaiter` is not inductive: that an action never loses its last waiter
depends on what an earlier teardown left behind. `SessionInv` says it all at
once: what the driver's fields keep together at any moment (`Coherent`), what
each stage of an action holds (`StageOK`), and what may be left of one that is
over (`LeftOver`): nothing, a ladder with no read loop and nothing warm, or a
request for a TLS connection. The lemmas follow the operators, each with the
predicate that describes the driver between two calls, and there is one step
for every action.

`Goodix5e0aSessionGuardedProofs` proves what needs a hypothesis about the
environment. There are two. `CancelGuarded`: a claim is cancelled only while it
waits for "config", "probe" or "scan", whose callbacks check the generation or
were freed first. `Guarded`: moreover the only event is a failing release.

- `ReportedOnce`, `NoWaiterSurvives`, `ParksAreSound`: `SingleReport`,
  `NoZombieWaiter` and `ParkIsSound`, under `CancelGuarded` and for every
  `Events`, so for more than the run `session_guarded` explores;
- `ContractKept`: `Spec => Contract!SafetySpec`, the refinement of
  `FpDeviceContract` without its fairness, under `CancelGuarded`;
- `ScansAreLive`, `CleanClosesAreAlive`: `ScanOnLiveSession` and
  `CleanMeansAlive`, under `Guarded`.

Neither hypothesis is there for the proof's sake. TLC violates one of the first
three for every other waiter that is allowed a cancel (`cancel_ladder` and
`cancel_psk` are two of them), and both of the last for every other event
(`open_without_claim` is one); the run `session_guarded` is an instance that
satisfies both.

`StageInv` and `LiveInv` are the inductive parts, on top of `SessionInv`.
`StageInv` is about the driver alone: an action is reported at most once, its
stage says what it must hold (`Staged`: from the config on the key is shared, a
warm ladder has a warm stamp), and between actions the driver is at `Resting`:
whatever is parked is negotiated and quiet, and a suspended driver keeps nothing.
`LiveInv` relates it to the sensor: what a stage presupposes of it (`Fed`), and
what each of the three memories promises of it as long as its stamp is good
(`Memory` for the warm stamp and the park, `Clean` for the close). The lemmas
follow the callbacks: an answer leaves an action that goes on at its next stage
or was reported (`Went`) and remembers no more than before (`Forgets`); a
teardown either tells a waiter that drops it (`Silent`) or leaves a driver that
remembers nothing (`Dropped`). They are proved for any sensor; `StageInv`, which
mentions none, takes them for an ideal one, which is why it needs no hypothesis
about sleeps and resets.

`GoodixCommandProofs`, for any callers, commands and frames, any batch and any
depth of nested callbacks, from `CommandAssumption` alone:

- `CommandHolds`: `Spec => []CommandInv`;
- `CommandTypes`: `Spec => []TypeOK`;
- `TimersHold`, `SlotsHold`, `EveryCallerTold`, `RepliesChecked`, `ClosedQuiet`: the
  invariants `TimerOfCommand`, `SlotOfCommand`, `ToldOnce`, `RightAnswer` and
  `ClosedIsQuiet` of the run `command`;
- `PromiseKept`: `Spec => Promise!SafetySpec`, the refinement of `CommandContract`
  without its fairness.

The argument follows a waiter, which an action moves from its request to the slot
or to the stack of callbacks, from the slot to the top of the stack, and from there
to be told. `CommandInv` says that the slot and its timer belong together
(`SlotOK`), that a caller waits exactly when one place holds its callback and that
every success on the stack carries a frame that answers its command, a corrupt
reply never that of a safety-critical one (`CallsOK`), and that a closed device is
quiet. The parts need each other: that every callback is called
needs a slot that waits for nothing to hold no callback, because the next command
overwrites it. The lemmas are about the moves, of any slot, stack and report; the
actions compose them. For `PromiseKept` a
request is the contract's `Issue`, the call of a callback its `Tell`, and every step
that moves a waiter between slot and stack keeps what its caller waits for and is a
stutter.

`Goodix5e0aScanProofs`, for any frames with any measures, any set of addresses and
any limits, from `ScanAssumption` alone (which has `NULL` be no frame, no
address and no waiter):

- `ScanHolds`: `Spec => []ScanInv`;
- `ScanTypes`, `AddressesSuffice`, `ScansMove`, `ClaimsEndScans`,
  `BestIsDelivered`, `BurstsApart`, `LiftedBetweenLooks`, `ContextsStay`: the type
  invariant and the seven other safety invariants of the run `scan`;
- `TouchesKept`: `Spec => KeepsTouchContract`, the whole refinement, since
  `TouchContract` has no fairness.

`ScanInv` has the driver and its claim agree (`ClaimOK`), a scan have exactly one
waiter, armed command or poll timer (`WaitersOK`), the winner so far be the best
of the burst so far (`BestOfBurst`), and a finger that counted be remembered
wherever the scan is (`TouchOK`). `DeliversBest` is not inductive without
`BestOfBurst`, which needs `Beats` to be an order (`BeatsOrder`) and a burst that
starts with its touch; nor is `NoSecondLook` without `TouchOK`, which says how the
guard hands over to the wait for release and back: by the 2 s of the guard's age
between claims, by `retry_guard` until FDT UP is armed, by the release itself.
Each action has one lemma, that it keeps `ScanInv` and is a step of the contract
or a stutter.

`GoodixTlsProofs`, for any key, any size of pack and transfer, any limit of the
wire, and any fault of the bus, from `TlsAssumption` alone:

- `TypeCorrect`: `Spec => []TypeOK`;
- `NothingUsedAfterFree`, `JoinNeverWaits`, `ReaderNeverStuck`,
  `AcceptNeverShared`: `NoUseAfterFree`, `JoinIsPrompt`, `ReaderIsWoken` and
  `AcceptIsOver` of the run `tls`;
- `AccumulatorNeverFull`: its `AccumulatorFits`.

The first five are parts of one invariant, `ServerInv`. That the thread is out of
`SSL_accept` when the driver has relayed the last flight, and has left that flight
to be read when it is done, comes from counting: the records the thread has heard,
with the sound ones it has yet to read, are never more than the relay has passed
on in its stage (`Counted`), and there is no flight to relay that the thread has
not sent in answer (`Flights`). The accumulator is short because a drain stops
only at a header whose claim is possible and not yet met (`Short`).

`GoodixTlsHandshakeProofs`, as long as nothing has failed:

- `HandshakeNeverFailsAlone`: `OnlyFaultsFail`, and `HeadersAreHeaders`:
  `FramesAligned`, if the server has a key. Without one the server refuses the
  client's key exchange and fails the handshake with no fault of the bus, which TLC
  finds, so the hypothesis cannot go;
- `ReadyMeansAccepted`: `EstablishedMeansAccepted`, if the sensor has the same key;
  with another key it is false (`wrong_psk`).

The invariant, `HandshakeInv`, says of a run without a fault that what the sensor
owes in a stage lies on accumulator and wire as whole packs, cut only where a
sound transfer may end (`Streamed`), that the server is there for every stage that
relays to it (`Served`), that what the relay has passed on and the thread has not
read is what `SSL_accept` expects next (`Passed`), and that a told success was an
accepted one (`Accepted`). It rests on `ServerInv`. The lemmas on sequences of
cells (what the first pack of a stream is, what is left behind it, where a
transfer may cut it) carry the proof, for any size of transfer.

What stays with TLC: liveness, which tlapm does not prove (`BringUpEnds`,
`HandshakeEnds`, `ReleaseWaitEnds`, `BurstEnds`, `SingleTouchEnds`, and the
liveness that `KeepsContract` and `KeepsPromise` include), the action property
`DeviceErrorIsDirty`, which the code violates, and the runs that expect a
violation. Every safety invariant of a passing run is a theorem.

## Plan

1. `CleanMeansAlive` under any cancellation: TLC finds it to hold with the single
   event of a failing release, but an action cancelled in its ladder leaves more
   than `StageInv` describes.
2. Where a waiter of `CancelDuring` is unsafe for one property only, theorems with
   the exact set for each property in place of `CancelGuarded`.
3. `DeviceErrorIsDirty` for the failures other than that of the config.

## Not modelled

- Pixels, normalisation and matching: floating point, and a proprietary DLL. The
  loader of that DLL (`goodix_milan.c` up to line 1158) maps a file and patches
  its imports once, under a recursive lock, from the main loop's thread.
- The bytes of packs and protocol messages, and OTP calibration: straight-line
  code without state between calls; checksums enter `GoodixCommand` as verdicts.
- Two read loops at once (`goodix.c:697`): whether they occur depends on what
  GUsb has queued when a loop is stopped and started in one event.
- The 511 driver and the image pipeline of `goodix5xx.c`, which the 5e0a does not
  run; scripts, packaging, tools, tests and experiments.
