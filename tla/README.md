# Verification of the CC3501E bridge firmware

TLA+ models of the bridge firmware, the TLC configurations that check them on
small instances, and TLAPS proofs. Source paths below are relative to the
repository (`src/...` is the firmware core, `hal/ti/...` its CC3501E backend).
Every definition that stands for code is listed, with its lines, under `map` in
`PROJECT.json`.

## The system

A host talks to the CC3501E over an SPI bus on which it is master. It sends one
frame, and polls by repeating the identical frame until it gets a final answer.

| Part | State | Operations | Module |
|---|---|---|---|
| worker slot and drain (`src/worker.c`) | one job slot IDLE/QUEUED/RUNNING/DONE/ERR | submit, poll, the three discard/reclaim helpers, take, execute, publish, re-arm | `WorkerSlot`, used by `Bridge`, `SockRecv` and `Spi1` |
| routing and retry latch (`src/protocol.c`) | last small reply by opcode and seq | `handle_worker_routed*`, dispatch | `Bridge` |
| SOCK_SEND (`src/protocol_sockets.c`) | completion cache | send handler, cache store | `Bridge`; promise: `SendService` |
| SOCK_RECV, SOCK_CLOSE, connect, pump (`src/protocol_sockets.c`, `src/sock_recv_commit.c`, `hal/ti/cc3501e_hw_ti_sock.c`) | prefetch ring, lazy commit, completion cache, EOF and error marks | recv by ring, recv by worker, close, pump | `SockRecv` |
| SPI slave and self-heals (`hal/ti/transport_hw_ti_spi.c`, `cc3501e_hw_ti.c`) | handle, phase, READY, counters | transfer callback, re-init, release, quiesce, four heals and the quiet re-arm | `SpiLink` |
| OTA (`hal/ti/cc3501e_hw_ti_ota.c`, `src/protocol_ota.c`, the reboot latches of `cc3501e_hw_ti.c`) | session, window, flash slot, two reboot latches, boot mode | begin, chunk, finish, promote, abort, update mode, pump, reboot | `Ota` |
| Wi-Fi (`hal/ti/cc3501e_hw_ti_wifi.c`, `src/wifi_retry.c`, `wifi_connect_fail_skip.c`, `ap_role_latch.h`) | status latch, reason tag, rendezvous, role and AP latches, flags for the drain | connect with one retry, disconnect, scan, AP start/stop, RSSI, event callback | `Wifi` |
| BLE (`hal/ti/cc3501e_hw_ti_ble.c`, `cc3501e_nimble_host.c`, `src/protocol_ble.c`) | sync objects, handle, scan cache, GATT client state | enable, advertise, scan, connect, disconnect, register, read, write, disable; the host task's callbacks | `Ble` |
| event ring, listen and accept (`src/event_ring.c`, `src/protocol_diag.c`, `hal/ti/cc3501e_hw_ti_sock.c`) | ring, listen table | push, drain, listen, close, accept pump | `EventRing` |
| power policy (`hal/ti/cc3501e_hw_ti_power.c`) | policy latch, dirty marks, core constraints, radio modes | latch, service, role and AP bodies | `Power` |
| the task's round (`src/main.c`, `hal/ti/cc3501e_hw_ti.c`) | where the round is | worker body, accept pump, power service, in that order | `Tick`, composes `EventRing` and `Power` |
| SPI1 passthrough (`src/protocol_spi.c`, `src/worker.c`, `hal/ti/cc3501e_hw_ti_spi_master.c`) | transfer replay by seq, two records of a held chip select | configure, transfer, release | `Spi1` over `WorkerSlot` |
| GPIO, camera, meta, diagnostics, SDIO, stub HAL | | | not modelled, see the end |

Who interrupts whom is what makes the firmware hard:

- The SPI callback dispatches a whole frame, and interrupts the drain task
  anywhere. The task never interrupts the callback. A dispatch is one step.
- One task (`src/main.c:222-232`) alternates the tick (heals, receive pump, OTA
  pump, reboots) and the drain of the job slot. A model takes one step of it per
  critical section, blocking call, or access to state that another actor writes.
- Vendor callbacks (Wi-Fi events, the NimBLE host task) run on threads of their
  own, below the SPI callback. A Wi-Fi event is one step; a NimBLE callback that
  checks, stores and signals in separate places is one step for each.
- Replies may be lost, in every model with a host. A host may give up.

## Modules and their correspondence to the code

- **WorkerSlot** defines the slot's operations as functions from slot to slot.
- **Bridge** composes host, dispatch and drain. `Issue`, `GiveUp` and the loss of
  a reply are the host's; `PollLatched`, `PollWorker`, `PollSendCached` and
  `PollSendWorker` are the ways through a dispatch; `DrainTake`, `DrainBody`,
  `DrainPublish`, `DrainFinish` are the steps of `worker_run_pending`. Request
  numbers are ghosts: the firmware sees only their seqs, modulo the width.
- **SendService** is what SOCK_SEND promises: ask, run at most once, answer with
  the outcome of the run. `Bridge` refines it (`ImplementsSendService`); a
  request has run once its body has.
- **SockRecv** follows bytes. A byte is (connection, position), so one served
  twice, skipped, or carried over to the next use of a handle number shows.
- **SpiLink** has the slave's phase machine, and every place that closes and
  re-opens it. Counters that the code only compares are kept as the comparison.
- **Ota** has the session in both boot modes. A byte is (image, offset). A reset
  may come between any two steps; what survives is the flash and the mode flag.
- **Wifi** has a job body as a program counter; `PassClearSync`,
  `PassClearStatus` and `PassClearTag` are separate because the callback fits
  between them, and `ConnDetail`/`ConnState` are separate because WIFI_STATUS is
  answered between them. The network processor (NWP) is external: it reports
  through a FIFO, so that an event can reach a later pass or a later job. Its
  behaviour is what the comments of the file establish from the SDK: a
  disconnect of a live station reports reason 3 and leaves it in the driver, one
  of an idle station reports 200 or is refused, a temporary association reject
  leaves the driver retrying, an authentication reject deny-lists the AP, and a
  connect is refused while a disconnect is in progress. An address exists only
  while the station is associated. `torn` (the slave is deaf) is nondeterministic
  wherever the code says that a radio call may kill the slave.

- **Spi1** numbers the requests; the transfer's own seq is the number modulo
  `XferSeqs`. `Poll` is a whole dispatch: latch, refusal, replay of a finished
  transfer, submit. The bodies keep the driver's record (`bus`), the handlers
  keep theirs (`g_configured`, `g_cs_held`) when a result is collected.
- **Ble** has two threads. A blocking body is prepare, call, wait, look; a
  callback may come between any two and after the wait has timed out. The stack
  is external: it refuses or accepts a call, and owes no event by any time.
  `ops` numbers the GATT operations and operation n reads the value n, so a value
  handed to the wrong read shows. `tainted` and `orphaned` are ghosts that mark
  the two exceptions the properties name. `Torn` is a scan record that is counted
  but not filled in.
- **EventRing** follows handles, because a handle in a dropped event would be a
  connection that nobody can close. lwIP (external) gives out the lowest free
  descriptor. A reply is drained in one dispatch and may be lost afterwards.
- **Power** separates the latch (dispatch) from take, core, radio and set (task).
- **Tick** composes the two with the order of the loop in `src/main.c` and of
  `cc3501e_hw_tick`. Its `traffic` is the kind of host activity of a behaviour.

`workload` (Ble), `traffic` (Tick) and the budget of `SockRecv` are chosen in
`Init` and never change: they split one large instance into several that share
a run. The theorems do not restrict them.

Definitions marked "Variant for mutation" are not part of a specification. Each
one is the form a plausible slip would give to the definition after it, and is
used to confirm that a property would notice.

## Runs

Nine runs must pass.

| Run | Question | Bounds |
|---|---|---|
| `bridge_threads` | Does any dispatch of two concurrent callers disturb a running job, or run a send twice? Does the bridge refine `SendService`? | 2 requests per opcode, 2 outstanding, 2 seqs: an abandoned send is followed by one with the next seq |
| `bridge_lockstep` | With one caller at a time: does a numbered small-reply opcode run once, does each caller get its own answer, is one that keeps asking answered? | any 2 opcodes per behaviour (of a latched, a too-big and an unnumbered one, send, connect and AP start), 2 requests each; sends may be abandoned |
| `sock_recv` | Is a connection read without gap, repetition, foreign byte or false end? | 2 streams (symmetric) of which the first to connect gets the ring, or 1 datagram handle used twice; ring of 2 |
| `spi_link` | Is a slave that is not armed noticed, and does it come back? Does every frame end? | 2 failing opens or arms, 3 junk headers |
| `ota` | Is what is staged one whole image, does a finish report the caller's own image, and does an update end? | 3 images of 2 lengths, window 8, block 2, manifest 3, chunk 3, 3 faults (lost reply, flash error, reset, host restart) |
| `wifi` | Is what the host reads of a connect right, does a connect settle, is the slave served between jobs? | any 2 jobs of 7, 2 events ahead of the callback, a first wait woken at 0, 14, 15 or 30 s |
| `spi1` | Is a transfer clocked once, does OK mean clocked, do both records of a held chip select agree when the host relies on them? | 4 requests, 4 transfer seqs, any of them lost or abandoned |
| `ble` | Does a read return its own value, a scan what it heard, does the handle follow the connection, does every body end? | 3 advertisers, cache of 2, 3 GATT operations; workloads scan/advertise/register, connect/disconnect with a peer, connect/read/write |
| `tick` | Is every accepted connection held by someone, are the listeners those of the table, is the last policy the one applied, is everything served? | 3 sockets, 2 listeners, ring of 2, a reply that holds one accept and one bare event |

Why the bounds are enough: the hazards listed in `PROJECT.json` are about one
predecessor (an abandoned request, an earlier connection, an earlier job) that
reaches into what follows it; the smallest width at which a seq can wrap onto a live one is
2; a ring or window smaller than the data makes the full and the empty case
occur. 14 s is the last second at which the association budget admits a retry,
15 s the first at which it does not. Every property has been confirmed to fail
for a mutated definition under the same configuration.

`CHECK_DEADLOCK FALSE` is set where the system may stop: a host that has used up
its bounded number of requests or jobs. `spi_link`, `ota`, `ble` and `tick` check
deadlock.

The seqs of `spi1` do not wrap within its bounds: a wrap needs the host to
abandon a transfer and issue a whole round of others without collecting one.

### What the Wi-Fi run shows

`StatusWhole`: a terminal state is read with its own detail. `OwnLeaveUnreported`:
reason 3 of the firmware's own `Wlan_Disconnect` is never shown as the AP's.
`ConnectedJoined`: no late event can make a connect succeed; the address check is
what guarantees this, since the clearing of the rendezvous can be raced (a late
failure between clearing the sync object and the status reads as success) and
`wifi_assoc_wait_sliced` returns its initial `OSI_OK` if its budget is gone before
the first slice. `RetryKeepsVerdict`, `RetryAfterDenyList`: the
retry never loses the AP's code and waits out the deny list. The last one holds for an attempt that no event of an earlier
attempt can reach (`quiet`); otherwise a late ASSOCIATION_REJECTED can shorten
the delay, a case of the residual the file documents. `LinkRearmed` and
`ApVisibleWhenServed` tie the skip flags and the AP latch to the state of the
slave. `ConnectEnds` is the liveness property.

### What the SPI1 run shows

`ReclockedOnlyExcused`: the host's own re-sends never clock a transfer twice. Two
things do, and both are in the code's design: a failed transfer is not replayed,
so the re-send after a lost error reply runs it again; and the poll of another
worker-routed opcode discards a finished transfer, which the comment at
`src/protocol_spi.c:172-180` accepts. `ChainKept` and `ReleaseEscapes`: the two
records of a held chip select diverge after abandoned requests, but never while
the host relies on an OK it has heard. The family has one owner on the host and
one other thread uses other opcodes; two owners could drop each other's chain.

### What the BLE run shows

`ReadReturnsOwn` holds because a read's callback compares its generation. The
ghost `tainted` marks the two callbacks that get past it: a read's that had
passed the check before its read was retired, and a write's, which carries no
generation. `HandleMirrorsLink` names the two ways the handle loses a live
connection: a failed central attempt while a peer is connected to the advertiser,
and a terminate that the stack refuses. `ScanHonest` allows a scan to be cut
short by the queued completion of a cancelled one, and the one record the host
task is writing to be read unfinished: `s_scan_count` is raised before the record
is filled. `BodyEnds` needs nothing of the stack. A BLE_ENABLE while the host is
still starting repeats the set-up; a register that fails after the table reset
leaves no service until a later one succeeds.

### What the tick run shows

`AcceptedIsHeld`: an accepted connection whose event does not fit is closed, and
every other one is known to the host, in the ring or in a reply on its way. A lost
GET_PENDING_EVENTS reply takes its events with it (`lost`): the ring has no replay.
`TableIsListeners`: a closed listener's descriptor, handed to another socket, is
not accepted on. `QuietIsApplied`: a policy latched while an older one is being
applied is applied next. `ApStaysAwake` holds in whatever order the roles come up;
after the AP stops, a device without a STA role stays awake until a policy comes.
`pp_radio_ok` is the result of the previous application when the host reads it.
With 4 sockets the same properties hold (215,000 states).

## Disagreements between comments and code

Three runs are expected to be violated; `findings` quotes the lines.

- `bridge_connect_lost`: the unconditional slot reset after an AP start wipes a
  connect accepted in the re-arm window. Its status stays CONNECTING.
- `ota_swap_mode`: an update-mode request dispatched between the two reboot
  latches of one tick makes the swap reboot land in update mode.
- `wifi_failed_cleared`: the exit without a DHCP lease skips
  `wifi_clear_stale_assoc`, so a failed connect leaves the association up.

Others are visible in the models without a run of their own.

- A BLE body raises READY over a failed re-init (`hal/ti/cc3501e_hw_ti_ble.c:323`,
  also `cc3501e_hw_ti_ota.c:582-609`), although `transport.h:63-71` ties READY to an
  armed slave. `UnarmedIsSeen` shows that the heals notice it all the same.
- `cc3501e_nimble_host.c:130-131` says that a late read callback cannot touch a
  newer read's buffer. It can when it has passed its check before the retirement
  (`tainted` in `Ble`).
- A CONFIGURE that fails to open the controller is said to be retried by the
  host's re-send; the error reply is latched, and the re-send is answered from the
  latch until the host sends a new seq.
- A host that polls WIFI_STATUS during the disconnect of a failed station can read
  FAILED without a cause (`wifi.c:1545` clears it before the state), although
  `wifi.c:1510-1511` says that a reader of the terminal state observes the matching
  detail.
- `wifi.c:1664-1668` says that `wifi_clear_stale_assoc` always runs after the
  failure is published; the call before the retry (`:2470`) runs while CONNECTING.

## Fairness

- `Bridge`: weak fairness of the drain (the task loop is periodic) and of each
  caller's poll (it repeats by contract), strong fairness of a poll whose reply
  is received: a reply offered again and again is not lost for ever.
- `SpiLink`: the task keeps running, each body returns (its HAL calls are
  bounded), time passes. Nothing is assumed of the host.
- `Ota`: the task loop, a host in the middle of an update polls, and a host that
  finds the device hung resets it.
- `Wifi`: the task. Each of its waits has a timeout that is a step of the task.
  Nothing is assumed of the NWP.
- `Ble`: the body in progress. Its waits are bounded, and the end of the wait
  without a signal is a step of the body. Nothing is assumed of the stack.
- `Tick`: the task loop. Nothing is assumed of host or clients.

Two host threads that poll two worker-routed opcodes alternately may discard each
other's finished result for ever (`src/worker.c:745-790` accepts this), so
`LockstepAnswered` is about a host with one caller at a time. `KeptOwnAnswer` needs
no such restriction.

## Proofs

`BridgeProofs` proves, for every set of opcodes and every value of the bounds
(under `OpsAssumption`: the opcodes are distinct; `BoundsAssumption`: the widths
are positive):

- `TypeCorrect`, `RunningHeld`: types; the slot is RUNNING exactly while the drain
  is inside the body it took.
- `SendOnce`: a SOCK_SEND body runs at most once per request, also when seqs wrap.
- `SendCached`: a finished send that is still asked for is cached no later than
  its terminal state is visible.
- `SendImplements`: the bridge implements `SendService`, assuming `NoWrap` (no
  more sends than seqs; after a wrap the cache cannot tell two sends apart).

"At most once" is not inductive. `Inv` adds why it holds: a job in the slot
belongs to an issued request with its seq (`SlotInv`); a queued or taken send has
not run (`PendingNotRun`); while an older send occupies the slot the latest one
has not run (`OlderInSlot`); and the latest send that has run is either still
RUNNING or in the cache (`LatestKept`), so its retries cannot reach the submit.
There is one lemma per action. The refinement adds `CacheInv`: what the cache
holds is the outcome of a send that ran.

`TickProofs` (under `RingBounds`: the sizes are positive):

- `PolicyApplied`, `ApAwake`: `QuietIsApplied` and `ApStaysAwake`. Neither is
  inductive: while the task applies a policy the host may latch another one.
  `PowerInv` says what explains a difference at each point: the core differs from
  the latch only while its mark is set or the task has taken the work
  (`CoreApplied`), likewise the radio (`RadioApplied`), and the policy in the
  task's hand is the latched one unless a mark is set again (`EffIsLatched`).
- `ListenersListed`: `TableIsListeners`, for every number of sockets and slots.
  `TableInv` says it slot by slot, together with a type for the sockets. That the
  lowest free descriptor is free is `MinFree`, from the well-foundedness of <.
- `AcceptedHeld`: `AcceptedIsHeld`, for every number of sockets and slots and every
  reply size. The property counts holders; the invariant behind it (`HeldOnce`)
  says instead that no two events of the reply and the ring together name the same
  handle, that an event's handle is an accepted socket's, which the host does not
  hold and no reply lost, and that an accepted socket is named, held or lost. A
  drain cuts the ring in two and a lost or read reply is forgotten whole, so the
  sequence of the two is all that matters, and the counts follow because a set of
  at most one element has cardinality 0 or 1.

`BleProofs` (under `BleBounds`: a cache of at least one, and no advertiser named
like the mark of an unfinished record):

- `HandleMirrored`: `HandleMirrorsLink` is inductive with the handle's type.
- `ReadOwn`: `ReadReturnsOwn`, from `GattInv`: responses outstanding are numbered
  up to the current operation (`AttInv`); a pending read is the one in progress
  (`PendingInv`); a read's callback that is past its check and whose read is not
  retired belongs to it (`OwnCallback`); so a success no late callback touched
  came with the own value (`OwnValue`).
- `ScanIsHonest`: `ScanHonest`, from `DiscoveryInv` (a discovery runs only under its
  scan), `SignalInv` (a signal seen before the discovery ended is a late one) and
  `CacheInv` (the only unfinished record is the one in the callback's hand, and
  what is written there is in no other record).

`LatchProofs` (on top of `BridgeProofs`; both theorems assume `HdrSeqs > 1`, the
header numbers 31 requests apart; with a single seq a retry and the next request
look alike):

- `KeptAnswersOwn`: `KeptOwnAnswer`, for any number of host threads. `KeptInv` says
  that a request the host does not give up ends only by an answer, so the slot
  holds nothing of its opcode afterwards, and the latch holds the outcome of the
  current request or of the one before it, whose seq differs (`NextSeqDiffers`).
- `LockstepRunsOnce`: `LockstepOnce`, from `OnceInv`: a queued or taken job has not
  run for its request, and one that ran and is still asked for is in the slot or
  hits the latch.

`WifiProofs`, for any number of jobs and any length of the NWP's event queue. The
invariant is one conjunct per concern:

- `StatusIsWhole` (`StatusInv`: the detail is written before its state),
  `OwnLeaveNotReported` (`CodeInv`: before the first disconnect of the firmware's own
  its code is nowhere, afterwards it never gets past the sanitising),
  `ConnectedIsJoined` (`JoinInv`), `LinkIsRearmed` (`TornInv`: a deaf slave and a
  flag that lets the drain skip its re-init never meet).
- The action properties `ApVisibleIsServed` (`ApInv`, `TornInv`), `RetryVerdictKept`
  (`RetryInv`: the first pass's code is kept) and `RetryIsNotDenied` (`DenyInv`: in
  an attempt without leftovers the NWP answers a kick once, and a deny list and a
  comeback exclude each other).

`SpiProofs`, about the two SPI controllers (`Spi1` and `SpiLink`):

- `ReclockExcused`, `ReleaseHolds`: `ReclockedOnlyExcused` and `ReleaseEscapes`, also
  when the transfer's seq wraps. The argument rests on the slot: while a finished
  job lies in it nothing else of the family has run, so the bus is as that job
  left it (`BusInv`), and a transfer that was clocked and is still asked for has
  its result there or is excused (`ClockInv`).
- `OkClocked`, `ChainStands`: `OkWasClocked` and `ChainKept`, assuming `NoWrap`: no
  more requests than transfer seqs. After a wrap the slot's result of an older
  transfer would pass for the new one's.
- `UnarmedSeen`: `UnarmedIsSeen`. The invariant adds that the quiesce mark is up
  exactly inside the OTA bracket, whose last step arms the slave again.

`SockRecvProofs`, for any sockets, chunk and ring sizes and number of bytes (under
`RecvAssumption`; it asks for at least two values of the recv's sequence number,
because with one an answered recv would be answered again from the cache; the
header's field has five bits):

- `StreamKept`, `RingKept`, `FallbackKept` and the action property `EndKept`:
  `StreamIntact`, `RingKeepsUnread`, `FallbackKeepsUnread` and `EndIsEnd`. `IInv`
  accounts for every byte of a connection: what the host has, what is on its way
  and what lwIP holds are consecutive pieces of it, and there is no other byte. On
  the ring path (`RingSynced`) the bytes served last are with the host and still in
  the ring, and the next recv commits them, or the host does not have them and the
  next recv is the replay. On the fallback path (`FallbackSynced`) they are in the
  drain's buffer or in the cache (`Limbo`). `ControlInv` keeps the paths apart: a
  recv in flight or cached is of a socket the ring does not own, and the host will
  repeat it.

`OtaProofs`, for all images, all sizes within `SizesAssumption` (two of its
conjuncts are the static assertions of the session struct) and any number of
faults:

- `AcceptedIsKept`, `StagedIsWhole`, `FinishedMine`: `AcceptedKept`, `StagedWhole` and
  `FinishedIsMine`. `Carries` ties the three places of a byte together: the flushed
  bytes in the slot and the rest in the window are one image from offset 0 on, and
  a started slot is erased past them. Each flash operation is one lemma about it
  (`OpensCarrying`, `SlidesCarrying`, `FlushCarries`, `FinishIs`), and so is a chunk
  (`TakenCarries`). `SessionInv` adds whose image it is: the host's while it sends
  or finishes, and all of it once a FINISH is queued. That needs `OpInv`: flash work
  is queued only for an open session, also while the pump is between its check
  and its publication, and a sending host has no BEGIN on the way.

Each invariant was checked with TLC first. There is one lemma per action, and one
per group of actions that leave the relevant state alone.

Only model-checked: liveness, which is outside the prover's reach
(`LockstepAnswered`, `LinkRecovers`, `FrameEnds`, `UpdateEnds`, `ConnectEnds`,
`BodyEnds`, `TickServes`). Every other property of the passing runs has a theorem.

## Not modelled

- Frame layout, CRC and the counters of the dispatch; meta, diagnostics and log
  commands, which report state and change none that matters here.
- Wi-Fi: scan records and their packing, GET_IP and other pure reads, the DHCP
  restart kicks, the heals inside a connect's waits (`SpiLink` has the heals).
- Sockets: bind, which changes nothing the firmware keeps; the slices of the
  connect wait, which is one bounded step. Listening again on a listening socket
  is assumed to succeed in lwIP.
- BLE: notify, which keeps no state; the attribute access callbacks; the layout of
  records and advertising data.
- The one-shot accept of a new image in the first tick: it is one call into the
  vendor's update service, whose state is not visible in this repository.
- The attention pulse of the event ring (off unless built in), GPIO and camera:
  register access. Bench probes and FIFO resets of the SPI drivers.
- SDIO is a build alternative that hands frames to the same dispatch. The stub HAL
  has no concurrency.
