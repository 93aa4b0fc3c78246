# esp-hosted-open: a verification development

TLA+ models of esp-hosted-open (a fork of esp-hosted-mcu with a PHY-control
RPC layer on top), the TLC configurations that check them on small instances,
and proofs checked by TLAPS. Paths below are relative to the repository's root
(`src/` in `PROJECT.json`).

A host microcontroller uses the radio of a slave chip. The host library
`esp_hosted_open/src/phy_rpc.c` turns function calls into requests that
travel over esp-hosted's *custom data* channel; handlers in
`slave/components/phy_rpc_overlay` run them and send the answers back as
custom events. Below that is esp-hosted itself: on the host the vendored RPC
stack and transport, on the slave the firmware `slave/main` - requests,
Wi-Fi, the data path with the host's sleep, and four bus drivers.

```
 HOST                                   SLAVE
 application task                       handler of the overlay   PhyOverlay
   do_call        op_id                   answer = custom event
   | PhyRpcHost, PhyRpcLifecycle                 ^   |
   v                                             |   v
 rpc_send_req     uid                  pserial_task <- req_queue PserialQueue
   | RpcCore                             | request_table         SlaveRequests
   v                                     |                       SlaveWifi
 tx / rx thread                        recv_task, buffer r
   |                                     ^   | process_tx_pkt    SlaveDatapath
   v                                     |   v  (host's sleep)   NwSplitRouter
 bus driver  <------ SPI, SPI_HD, SDIO, UART ------> bus driver  SlaveBus
```

## Inventory

**Host call dispatcher** (`phy_rpc.c` 18-158). State: four in-flight slots,
their binary semaphores, one mutex, the op-id counter. Operations: `do_call` (in
any task), `on_response` (in the receive thread). Hard: `do_call` releases a
slot without the mutex, a timeout races with a late answer, answers are lost.
Correct if: slots are exclusively owned and never leaked, an answer reaches the
call it was sent for and no other, every call returns.

**Library lifecycle and custom-message registry** (`phy_rpc.c` 289-374,
`rpc_evt.c` 21-105 and 460-490; the slave has a twin in `slave_control.c`
888-956). State: a table of message ids and callbacks of fixed size, a mutex
created on first use, the library's mutex and semaphores. Hard: init fails half
way, deinit forgets ids and runs under calls and answers, the mutex is created
without a lock. Correct if: what was registered is routed exactly once, init
works again after deinit, nothing deleted is used.

**Host RPC core** (`vendor/esp_hosted/host/drivers/rpc/core/rpc_core.c`).
State: `uid`, `sync_rsp_table`, `async_rsp_table`, two queues, a semaphore per
synchronous request, a timer per asynchronous one. Hard: the tables are not
locked, all responses pass through one three-place queue, a timeout destroys the
semaphore the receive thread may be about to post. Correct if: a caller gets its
own response, every wait ends, the receive thread never stops.

**Slave serial endpoint** (`esp_hosted_coprocessor.c`, `protocomm_pserial.c`,
the custom-data part of `slave_control.c`). State: the reassembly buffer `r`,
`req_queue`. Operations: `process_serial_rx_pkt` in `recv_task`,
`serial_read_data` and request dispatch in `pserial_task`, event sending in any
task. Hard: the buffer is shared without a lock, the queue's only reader also
writes to it, memory may run out. Correct if: each request is executed once, in
order, whole; both tasks always go on.

**Overlay** (`slave/components/phy_rpc_overlay`, and the wrappers and upcalls
of `phy_rpc.c` at its other end). State: `s_state` (what GET_INFO reports), the
radio, the registry, the raw-capture queue and task, the host's callback.
Operations: boot (`slave_phy_apply`, three registrations), forty-seven handlers,
a retune when Wi-Fi gets ready, capture and forwarding. Hard: the retune and a
request go over the same radio, handlers depend on weak symbols of the chip's
PHY library, the registry is smaller than the tables. Correct if: what the host
is told is how the radio is, an answer says what was done, frames arrive whole
and in order.

**Slave request handlers** (`slave_control.c`, `slave_wifi_std.c`,
`slave_wifi_enterprise.c`, `slave_bt.c`, `slave_gpio_expander.c`,
`slave_ext_coex.c`). State: the OTA status and partition, heartbeat and monitor
timers, the Bluetooth controller with its semaphore, credentials, scan records.
Hard: sequences nobody wrote a test for, failures on the way, the timer task and
the controller beside them. Correct if: the answer is what was done, and what is
left behind is what was asked for.

**Slave Wi-Fi control** (`slave_wifi_std.c`). State: the flags
`station_connecting`, `new_config_recvd`, `suppress_disconnect`,
`wifi_initialized`, a cached configuration, the driver. Operations: ten requests
in `pserial_task`, seven events in the event task. Hard: the two tasks share the
flags without a lock; connect, disconnect and their events overlap. Correct if:
the host knows the link, and no accepted configuration is lost.

**Slave data path and host power save** (`esp_hosted_coprocessor.c`,
`host_power_save.c`, `slave_light_sleep.c`, `nw_split_router.c`). State: the
driver handle and its state, `datapath`, `power_save_on`, the wake-up semaphore,
the light-sleep lock. Operations: the driver's six events, a temporary task per
change of the host's sleep, senders that wake the host, the announcement. Hard:
the tasks of two changes run in any order, senders race with the unloading of
the bus, the host may reboot in its sleep. Correct if: the slave knows whether
the host sleeps, and a host that is awake is served.

**Bus drivers of the slave** (`spi_slave_api.c`, `spi_hd_slave_api.c`,
`sdio_slave_api.c`, `uart_slave_api.c`). State: pools, three receive queues and
a counting semaphore, transmit queues or places in the peripheral, throttling
flags, the data-ready line. Hard: senders, the driver's tasks and `recv_task`
interleave; buffers pass through many hands; the bus is unloaded under them.
Correct if: every buffer and count is in one place, what waits is announced, and
the host is not left throttled.

**Not modelled**: the host's vendored drivers (serial, transport, buses, power
save, Bluetooth), wrappers and encoders, memory pools, OS port, statistics, CLI,
applications and generated code; the reasons are under "Not modelled" and with
each part in `PROJECT.json`, which also lists the hazards at their lines with
the properties that cover them.

## Modules

| module | models | state in the code |
|---|---|---|
| `RpcService` | what a synchronous call promises (abstract) | - |
| `PhyRpcHost` | `do_call`, `on_response`; the slave only as a source of answers | `s_inflight`, `done` (one per slot), `mutex` = `s_inflight_mutex`, `s_next_op_id` |
| `PhyRpcLifecycle` | init, deinit, registration, event dispatch of the library | `custom_callbacks`, `custom_callbacks_mutex`, `s_inflight_mutex`, the `done` semaphores as one |
| `RpcCore` | synchronous requests of `rpc_core.c`, both threads | `uid`, `sync_rsp_table`, `rpc_tx_q`, `rpc_rx_q`, one semaphore per caller |
| `PserialQueue` | `recv_task`, `pserial_task`, event senders, host writes as fragments | `r` (valid, contents), `req_queue` |
| `PhyOverlay` | the overlay's boot, handlers, capture; wrappers and upcalls of the library | `registry` = `custom_msg_callbacks`, `info` = `s_state`, `radio`, `raw`, `up` |
| `SlaveRequests` | the request handlers, in six families that share no state | `ota`, `tmr`, `bt`, `eap`, `scan`, `pins` |
| `SlaveWifi` | Wi-Fi requests and `event_handler_wifi`; the driver external | `s` = the static variables, `drv`, `evq` = the event loop's queue |
| `NwSplitRouter` | `nw_split_filter_and_route_packet`, the reserved ports | - (operators only) |
| `SlaveDatapath` | driver events, power-save tasks, senders, announcement; extends the router | `sl` = the static variables, `ps`, `snd`, `rst` = places of the tasks |
| `SlaveRx` | what the four bus drivers share: receive path, pools, throttling | `rx`, `prod`, `rd`, `pool`, `thr` |
| `SpiSlave` | SPI: transactions, data-ready line; extends `SlaveRx` | `spi`, `flight`, `done`, `at` |
| `SlotBus` | SPI_HD, SDIO, UART: places, loading, freeing, reload; extends `SlaveRx` | `slots`, `dma`, `fin`, `td`, `wr`, `link`, `unload` = the place in `sdio_deinit` |
| `SlaveBus` | the bus of a build: `SpiSlave` or `SlotBus` with `SlaveRx` | - |

The `MC*` modules instantiate them for TLC; `PhyRpcHostProofs`,
`PhyRpcLifecycleProofs`, `RpcCoreProofs`, `PserialQueueProofs`, `PhyOverlayProofs`,
`SlaveRequestsProofs` and `SlaveWifiProofs` hold the theorems about the module
each is named for, `SlaveTransportProofs` those about `SlaveDatapath` and
`SlaveBus`. Every step of a model is the code
between two points where another task can see or change the shared state: a
critical section is one action or, where the code writes shared state outside
it, several; unlocked code is cut at each access to shared memory. Local
variables live in records (`call`, `req`, `rx`, `recv`, `pser`, `snd`, `rd`),
the place in the code in their `pc`. `PROJECT.json` maps each definition to its
lines.

Data is abstracted to what the properties tell apart. A response body is there
or not; a request is its number and its length in fragments; a packet of a bus
is its priority, or "bad"; a Wi-Fi configuration is a model value; a firmware
image is a sequence of its first and its further chunks; a raw frame is its
number. A timeout may happen whenever a wait is in progress: nothing in the code
bounds how late an answer is relative to the wait. A call of ESP-IDF succeeds or
fails unless the state of the driver decides it.

Undefined behaviour is a choice over what a build can do: in `RpcCore` a post to
a destroyed semaphore is lost or meets the assertion; in `PserialQueue` `r.len`
is read before and written after the copy; in `PhyRpcLifecycle` the first use of
a deleted object sets `bad` and ends the behaviour; in `SlaveBus` a failed
assertion (`dead`) does.

**History variables.** `harm` (`busHarm` in the bus drivers) collects the races
and failures a behaviour has met. Properties of the form "P, or a named harm
happened" say which races the code really has *and* that nothing else breaks P.
Each exception was put in because TLC, or a proof that failed, found the
behaviour, and each is described where it is set.

## What the runs show

| run | configuration | question |
|---|---|---|
| `host` | `MCPhyRpcHost.cfg` | slots and answers of two tasks on one slot; the dispatcher implements `RpcService`; calls return |
| `host_stale` | `MCPhyRpcHost_stale.cfg` | violated: a slot's answer reaches the call that owns it |
| `lifecycle` | `MCPhyRpcLifecycle.cfg` | init and deinit next to calls, answers and another user of the registry |
| `lifecycle_capacity` | `MCPhyRpcLifecycle_capacity.cfg` | violated: init succeeds with the numbers of the source |
| `rpc_two` | `MCRpcCore.cfg` | two tasks racing on `uid`, one table entry and two short queues; requests end unless the send path jams |
| `pserial` | `MCPserialQueue.cfg` | the buffer hand-shake and the queue; `recv_task` goes on |
| `overlay` | `MCPhyOverlay.cfg` | what the overlay tells the host, on four chips and three sizes of registry |
| `overlay_tx80211` | `MCPhyOverlay_tx80211.cfg` | violated: a raw 802.11 frame is sent as the host gave it |
| `requests` | `MCSlaveRequests.cfg` | every sequence of six requests of each family, with every failure |
| `wifi` | `MCSlaveWifi.cfg` | requests, driver events and steps of the event handler in every order, three builds |
| `datapath` | `MCSlaveDatapath.cfg` | a host that opens, sleeps, wakes and reboots, against senders and the slave's tasks |
| `bus` | `MCSlaveBus.cfg` | buffers, counts, announcements and throttling of the four buses, and an unloading under the tasks |

Several properties are conjunctions of named parts, each with its own comment in
the module; the type invariant is a conjunct of one of them.

**Host dispatcher.** `SlotOwnership`: although `do_call` clears `in_use`
without the mutex, a slot is in use exactly while one call owns it, on every
path out. `RxTargetStable`: a call may give up while `on_response` writes into
its slot, but the slot cannot be reserved meanwhile. `NoFalseAnswer`: what a
call reports as the slave's status was said by the slave for that op id.
`CompleteUnlessAbandoned`: a woken call finds status and length already
written, on slots nobody has given up on. `BodyGoesToLiveCall`: the memory
`on_response` copies a body into belongs to a call still in progress, with the
same exception - a call that gives up while `on_response` works returns without
waiting for it, and the copy goes to a caller that is gone.
`ImplementsService` hides slots, mutex and semaphores: a caller sees a call
that starts, is given a fresh operation, and ends with what the peer said, with
a failure or with a timeout. One slot for two tasks is the smallest table that
overflows, and gives every pairing of steps on a slot: give-up against late
answer, reservation against clearing, an answer to the last user against the
next. `host_stale` has two slots; that slots do not disturb each other is proved
for every `MAX_INFLIGHT`.

**Lifecycle.** The registry has two entries for the two ids of the library and
one foreign id, so that room runs out, and two rounds of init and deinit, so
that something can be left over. The properties hold unless two tasks make the
registry's lock at once (`TwoLocks`): `rpc_evt_register_custom_callback` tests
and creates it unlocked, and then the registry has no mutual exclusion.
`DeadUseOnlyByHarm` names the conditions under which a deleted lock or semaphore
is used: deinit while calls or answers are under way, a call made during deinit,
or deinit twice. `FailsOnlyForRoom`: what deinit leaves registered takes no room
from the next init.

**RPC core.** `NoEmptyFetch` is what makes the untimed wait of `get_response`
on `rpc_rx_q` safe: each posted semaphore is backed by a queued response, even
with both tasks racing on the table. `Conserved` (in `Accounted`) bounds what
may be in that queue by the requests in progress and those that gave up: the
receive thread cannot be stopped by fewer give-ups than the queue has places -
and, as nothing drains it, is stopped by as many. `OwnUntilDisturbed`: a caller
gets its own response as long as no two calls have overlapped and none has given
up or failed to be sent; nothing compares the uids, and after any of these it
may get another's. `CallEnds`: every request ends, with one exception that the
code has: responses nobody came for fill `rpc_rx_q`, `rpc_tx_thread` waits for
ever to add the one it makes up for a failed send, the requests behind it fill
`rpc_tx_q`, and the next caller waits for ever to add its own (`Jammed`). For that
to be reached in the run, `RPC_RX_QUEUE_SIZE` is 2 (3 in the source),
`RPC_TX_QUEUE_SIZE` is 1, and `MaxCalls` = 5. `UID_MAX` is 2, so that uids roll
over. At most two calls race: `MaxRacing`.

**Slave endpoint.** `QueuedRequestKept`: the buffer has no lock, yet what is
queued is what will be read, because `recv_task` waits for `valid` to fall. The
exception, `early_valid`, is that `serial_read_data` clears `valid` before the
length. `RequestsInOrder` contains `LostOnlyByHarm`, which lists the ways a
request is damaged: the host broke off a write, `recv_task` computed the free
room before the wait (`stale_room`), or the early `valid`. A handler's events
follow its response, as both go through the queue. `RecvReturns`:
`recv_task`, which waits without a time-out, gets to read the next fragment
unless one transmission lasts for ever (`process_tx_pkt` waits for a sleeping
host without limit), one handler does (`deinit_bluetooth` waits for the
controller, and a handler that sends an event into the full queue its own task
reads waits for itself), or no memory was found for the copy of a request, which
then stays in the buffer. With three requests of one or two fragments, two
fragments of room and a queue of two, each of them occurs.

**Overlay.** `StateTrue`: at rest, GET_INFO is how the radio is, but for the
ways to change the radio behind `s_state`: a Wi-Fi restart tunes again and arms
11p (`reapplied`), SET_FREQ and SET_BAND tune (`retuned`), SET_MOST_TPW sets the
power (`repowered`). The radio is never left on the bootstrap channel, whatever
comes between the two steps of tuning. The power reported is the power set,
except where `dbm * 4` wraps in its int8; until one is set `s_state` says 20 dBm
and the driver has its own (`UNTOLD`). That a restart of Wi-Fi leaves the
settings of the PHY as they are is an assumption about ESP-IDF.
`AnswersHonest`: ESP_OK means that it was done, and the capabilities are what is
answered, unless the registry had no room, the host asked before all handlers
were registered, or the slave restarted. A handler that passes a request on may
answer any error of ESP-IDF, `not_supported` among them though the capabilities
mark the request: FTM_INITIATE is marked since ESP-IDF has the call, and a comment
says that the chip may not. `FramesIntact`: ESP-NOW and IEEE 802.15.4 frames pass
as the host gave them, captured frames in the order of their capture. Raw 802.11
frames do not: the `tx_80211` wrapper puts the frame behind an eight-byte header,
the handler reads it behind six, two bytes of padding are sent first and the last
two are lost - a finding (`overlay_tx80211`).
`UpcallMatches`: an upcall has its callback's context unless the registration
changes under it. Registry sizes are the default (16), the largest Kconfig
allows (32), and 47: no build has the last, it is there so that all handlers can
be reached. `MaxRequest` = 3 covers ask, change, ask; `MaxReady` = 1 one retune
at any point; `RAW_QUEUE_LEN` = 2 with `MaxFrame` = 3 fills the queue.

**Requests.** `HonestAnswers`: success is answered exactly for what was carried
out. Exceptions: an activation that was not ready; a list there was no memory
for; the new password that sets the password; a certificate there was no memory
to copy, which is answered success since the dispatcher does not look at what a
handler returns and the response was attached first (`copy_failed`); and a failure
while answering. A host told of no records has had them all, unless a fetch failed,
it asked for fewer than there were - the driver frees the rest (`short_list`) - or
the driver's error was not passed on. `BootsGoodImage`: the boot partition
holds a whole image checked for this chip unless the host began another update
after the activation, or sent a refused first chunk again. `LeftAsAsked`: the
timers that run are those asked for; a credential that was set is the driver's
and its copy lives, one that was cleared the driver has let go of, so that it
points to freed memory only after a set that failed halfway or when enterprise
mode was left without clearing; no pin of the transport was configured, but
SDIO's reset pin (`CONFIG_ESP_SDIO_GPIO_RESET`), which the guard's mask lacks.
`BluetoothGoesOn`: an enabled controller can be sent packets, and a deinit does
not wait for good but for a controller that was never ready. Six
requests make begin, write, write, end, activate, begin of an update; the other
families need fewer.

**Wi-Fi.** `HostKnowsLink`: whenever no event is on its way, what the host was
last told is true of the link, frames are forwarded exactly then, and both flags
agree - although the slave hides a link it takes down itself to apply a cached
configuration. `SuppressHasItsEvent`: a disconnection is hidden only while the
one the slave caused is on its way. `FlagsTrue`, `ConfigsApplied`: the flags
agree with the driver and no accepted configuration is lost, but for named races
(`late_cache`, `set_overtaken`, `connect_twice`), a slave that joins without an
SSID, and a deinit that fails after its flag is cleared. `MaxReq` = 5,
`MaxAir` = 3 and `MaxRetry` = 1 allow connect, replace while connecting, connect
again, loss and retry in one behaviour.

**Data path.** `SleepTrue`, `PathServes`, `LostOnlyByRace`: at rest the slave is
right about the host's sleep, the semaphore senders wait for, and its own light
sleep; a host that is awake has an open path and knows the slave; packets are
lost only in a race. The races: two power-save tasks overlap, a sender borrows
the semaphore across a change, the host aborts its sleep or reboots in it, two
senders initialise the bus at once, the host wakes between two checks, a timer
cannot be made. `RoutedRight`: with network split, a frame from or to a port listed
for the host reaches it, asleep or awake, unless it is listed by five-digit ports
only - those are cut to four digits, and the cut form is reserved instead - and of
the other frames of the station those that no rule names do not wake a sleeping
host. The rules do name the wake-up message, DHCP and, with another default
stack, what is left. Frames of the SoftAP have no router: all of them
go to the host and wake it, as responses, events and Bluetooth packets do.
`MaxHost` = 3 and `MaxSend` = 2 with two senders: sleep, wake and sleep again, under
two packets. One build has all of network split, unloading and light sleep, the
other none. The frames of the run have a listed port, a five-digit one, its cut
form, and each rule's.

**Buses.** `sdio_deinit` is modelled a step at a time, under writers that wait for
a place and `recv_task`, which run on since the driver stays ACTIVE to the last:
it deletes both tasks where they are (`SdioDeletes`), unregisters the receive
buffers (`SdioStops`), resets the peripheral (`SdioResets`), takes back a few sent
buffers, whose places let writers on (`SdioReclaims`), and goes (`SdioGoes`);
`SdioUp` loads the same static buffers again, those of packets not yet read too.
`Accounted`: `NothingTwice`, no block is in two places and no place given twice;
`NothingLost`, none is lost but one block to each startup event of UART, a place
to a packet that is refused on SPI_HD or a refused startup event (`kept`), and
what an unloading finds with the deleted task (`tx_killed`), in excess of what it
takes back (`overfull`) or sent after the reset (`late`); `BuffersAllLoaded` and
`BuffersUnshared`, each receive buffer is loaded or holds one packet, and none is
written by the host under a packet unless the bus was unloaded while packets
waited to be read (`queued`); `TokensMatch`, `recv_task` finds a packet for each
count, unless its producer was deleted before the give (`rx_killed`) or SPI was
unloaded under it. `WaitingAnnounced`: on SPI the line and its shadow agree and a packet
that waits has a loaded transaction and a raised line, but for three exceptions:
the reset that races with a sender, the repeated startup event, and a pool that
has run out - it has fewer blocks than all queues together can hold, and a
finished transaction that finds none for a dummy is followed by nothing
(`starved`). On SPI_HD a loaded packet has been counted for the host.
`IdleMeansOpen`: a slave with nothing to do has not left the host throttled,
unless the start and the end of the throttling crossed, or the peripheral refused
the message that ends it. `TxQ` = 2 with
`Reclaim` = 1 (three tries in the source) let an unloading find more sent buffers
than it takes back; `InFlight` = 2 and `MaxFromHost` = 4 empty SPI's pool;
`MaxToHost` = 2; `MaxStart` = 2 repeats the startup event, `MaxBreak` = 1 unloads,
refuses or wakes the host out of a deep sleep once. `RxQ` = 1 gives loads of 0 and
100 percent only; the theorems below hold for any of these bounds.

## Fairness

- `PhyRpcHost`: weak fairness of each call and of the receive thread, strong
  fairness of taking the mutex. Sends have a timeout, waits expire, and
  FreeRTOS hands a mutex to its waiters in order. The slave need not answer.
- `RpcCore`: weak fairness of each caller and both threads. A send on the
  transport succeeds or fails, waits on semaphores expire. Nothing is assumed
  of the slave.
- `PserialQueue`: weak fairness of `recv_task` and of the steps `pserial_task`
  takes itself; none of the end of a transmission or of a handler, of the host,
  nor of the tasks that send events.
- `PhyRpcLifecycle`: weak fairness of registering tasks and of the receive
  thread, strong fairness where they take the registry's lock. The application
  need not call anything.

The models of the slave state no fairness: what could go wrong for ever there
(a sleeping host not woken, a deinit that waits, a packet not announced) is
stated as an invariant of the states at rest, which needs no scheduler.
`CHECK_DEADLOCK FALSE` is set throughout: a system nobody asks anything of
stops, and the bounds on requests end a behaviour.

## What is proved

Each `*Proofs` module proves the invariants of its component for every value of
the constants - any number of tasks, slots, messages, requests, frames, queue
and registry sizes and bounds on steps - from the named `ASSUME` of the module
it extends and from nothing else. The theorems about the properties of the runs:

| module | theorems, and the property each states |
|---|---|
| `PhyRpcHostProofs` | `TypeCorrect` (`TypeOK`), `SlotsOwned` (`SlotOwnership`), `TargetStable` (`RxTargetStable`), `AnswersAreOwn` (`NoFalseAnswer`), `AnswersComplete` (`CompleteUnlessAbandoned`), `BodiesGoToLiveCalls` (`BodyGoesToLiveCall`), `Implements` (`ImplementsService`) |
| `PhyRpcLifecycleProofs` | `RegistryIsKept` (`RegistryKept`), `DeadUseIsHarm` (`DeadUseOnlyByHarm`), `FailureIsLackOfRoom` (`FailsOnlyForRoom`) |
| `RpcCoreProofs` | `AccountsKept` (`Accounted`), `NoFetchBlocks` (`NoEmptyFetch`), `OwnAnswersUntilDisturbed` (`OwnUntilDisturbed`) |
| `PserialQueueProofs` | `QueuedRequestsKept` (`QueuedRequestKept`), `RequestsAnsweredInOrder` (`RequestsInOrder`) |
| `PhyOverlayProofs` | `StateIsTrue` (`StateTrue`), `AnswersAreHonest` (`AnswersHonest`), `FramesAreIntact` (`FramesIntact`), `UpcallsMatch` (`UpcallMatches`) |
| `SlaveRequestsProofs` | `AnswersAreHonest` (`HonestAnswers`), `GoodImageBooted` (`BootsGoodImage`), `AskedForIsLeft` (`LeftAsAsked`), `BluetoothServed` (`BluetoothGoesOn`) |
| `SlaveWifiProofs` | `HostAlwaysKnowsLink` (`HostKnowsLink`), `SuppressedIsOwn` (`SuppressHasItsEvent`), `FlagsAreTrue` (`FlagsTrue`), `ConfigsAreApplied` (`ConfigsApplied`) |
| `SlaveTransportProofs` | data path: `SleepIsTrue` (`SleepTrue`), `HostIsServed` (`PathServes`), `LossIsByRace` (`LostOnlyByRace`), `FramesAreRouted` (`RoutedRight`); buses: `BusInvariant`, `BusAccounted` (`Accounted`), `BusWaitingAnnounced` (`WaitingAnnounced`), `BusIdleMeansOpen` (`IdleMeansOpen`) |

None of the properties is inductive by itself. Each proof finds a stronger
invariant that is, TLC checks it on the component's run, and the proof has the
same three parts: it holds at the start, every step keeps it (a step of the
proof for each action, and under it one for each part the action can disturb),
it implies the properties. The inductive invariants:

- **Host dispatcher.** `HostInv`: a slot reserved under the mutex is still free
  when it is filled (`Reservation`); no two slots match one answer because op
  ids in use are in the past of the counter (`OpIdsIssued`); the status of a
  call is its own because it is so at every place a status passes through -
  link, receive thread, slot, local variable (`Provenance`). Freeing a slot is
  the delicate step, as it happens without the mutex at any moment of
  `on_response`: it changes only `in_use`, which `RxTargetStable` does not
  mention. `ServedInv` adds that each op id is requested once and answered at
  most once, so that on a slot nobody has given up on the semaphore, the answer
  and the call go through their stages together (`SlotProgress`).
  `Implements` is the refinement: initial states map to initial states, and each
  action to the step of `RpcService` it carries out, or to a stutter.
- **Lifecycle.** `LifeInv`: while there is one lock, it keeps the registry's
  users apart (`Exclusive`), and what a scan has found is still so at the write;
  the registry holds each registered id once and nothing else (`Kept`); init is
  as far as its place says (`Progress`); the lock and the semaphores live while
  someone is at them, but for a harm (`LockLives`). That init fails only for
  room is then a count: distinct ids sit in distinct places.
- **RPC core.** `CoreInv`: every posted semaphore is a woken caller's, and woken
  callers are not more than queued responses (`Woken`); responses queued or on
  their way are owed to callers that asked (`Owed`); until two calls overlap,
  all that is under way is the one caller's (`OneCaller`, `OwnOnly`).
- **Slave endpoint.** `EndpointInv`: the tasks take turns at the buffer
  (`Turns`); what the host has written, the buffer and the queue hold fragments
  in the order they were sent, each once (`Ordered`, `Handed`); what is in the
  buffer is whole, or damaged by a named harm (`Whole`).
- **Overlay.** `OverlayInv`: at each place of boot, retune and handler, how the
  radio and `s_state` stand to each other (`RadioKept`); an answer on its way
  still says what was done (`AnswersKept`); captured frames are numbered in
  order through the queue, the task and the link (`RawKept`).
- **Requests.** `RequestsInv`: one invariant per family, e.g. that what was
  written to the partition is a prefix of what begin, write and end have seen
  (`OtaKept`), and that the timers' records agree with the last request
  (`TimersKept`).
- **Wi-Fi.** `WifiInv`: the queue of events *leads from* what the handler knows
  to what the driver is (`Story`, by `Tells`: ups and downs alternate, and the
  last one agrees with the driver), and a cached configuration has someone who
  will apply it (`Configs`). Both are about queues of any length.
- **Data path.** `DatapathInv`: where a power-save task is says what the host
  does and how far the slave has noted it (`Followed`), and the semaphore is
  there, or lent to a sender, exactly while no sleep is noted, but between the
  two steps that change both (`Signalled`). The invariant needs fewer
  exceptions than were first stated: unloading the bus late and borrowing the
  semaphore lose no packet of a host that is awake, and `PathServes` and
  `LostOnlyByRace` no longer except them. Routing is a fact about the operators,
  for any lists of ports and any default stack: what a list keeps is its whole
  ports and the cut forms of the others (`ListRead`), hence a listed frame is
  routed to the host whether it sleeps or not (`ListedIsRouted`), and one that the
  router has for a sleeping host is not ordinary (`NoOrdinaryRouted`).
- **Buses.** `BusInv`. The accounts are sums over the queues and the tasks: a step
  moves a block from one term to another, and of the tasks that hold one it
  changes a single member of a finite set (`TokensMatch`, `SpiBlocksAccounted`,
  `NothingTwice`, `NothingLost`, `BuffersAllLoaded`, `UartBlocks`, and `BuffersWithin`
  while the tasks of SDIO are gone, with `RxShape`, `SlotShape` and `UnloadShape`
  for where each task and the unloading may be on each bus). The throttling is
  followed from the decision to the host: while it is on and the queue is below
  the lower threshold, `recv_task` is at the check that ends it (`EndIsSeen`), a
  decision stands until it is told (`DecisionStands`), and its end is owed to the
  host by an interrupt of SDIO, a task or a message of SPI_HD (`InterruptOwed`,
  `FlowTrue`, `MessageOwed`). On SPI one transaction at a time is loaded, finished
  or being replaced (`OneTransaction`), and with something queued or loaded the
  line is up, or a task is at the place from which it will raise it or note that it was cleared
  (`QueuedIsRaised`, `LoadedIsRaised`, by `LineShape`).

What the proofs changed in the models. `FrameKind` had overlooked that with
another default stack than the slave's what no rule is for wakes the host.
`SlaveRequests.TimerTask` and `PhyOverlay.Hook` had cases that overlap, where TLC
takes the first and TLA+ says nothing. `PhyOverlay` took the length of a frame
as one byte: it is now two, with the limits of the handlers (1500, 250, 127),
and a frame of 260 bytes in the run. `DeinitIds` of `PhyRpcLifecycle` is assumed
to be non-empty and of the library, as `esp_hosted_open_deinit` has it.
`WaitingAnnounced` had held on its run only because the bounds never emptied
SPI's pool: the sum over the pool showed that a dummy may find no block, hence
the exception `starved`, and bounds with which the run reaches it.

**Model-checked only.** The liveness properties `CallReturns`, `RecvReturns`,
`CallEnds` and `RxReturnsToBus` rest on fairness, which is out of
the prover's reach. Every other property of a passing run is a theorem.

## Findings

- **A slot's semaphore outlives its call** (`host_stale`). A call that gives up
  neither takes the mutex nor drains `done`; an answer just then leaves the
  semaphore full, and the next call on the slot returns `ESP_FAIL` at once.
- **Init cannot succeed** (`lifecycle_capacity`). It registers 54 ids; the
  registry has at most 32 entries. The unit tests use a mock with 64.
- **A raw frame is sent shifted** (`overlay_tx80211`). The headers promise the
  bytes verbatim; `esp_hosted_open_tx_80211` writes them two bytes further than
  the handler reads them.

Other unwelcome behaviours appear as named exceptions in the properties above
and in the hazards of `PROJECT.json`. Among them: responses of `rpc_core.c` are
not matched to callers; a send failure does not end the wait, as the response
made up for it carries uid 0 and wakes nobody; late responses fill `rpc_rx_q` and
stop the receive thread and, with it, `rpc_tx_thread` and its callers; a handler of
the slave can wait for a place in the queue only it empties;
`is_host_wakeup_needed` asks for a wake-up for every
interface type; only a dummy of the SPI driver can start
the throttling of the host.

## Not modelled

- *Host side below the RPC core* (serial, transport, buses, power save,
  Bluetooth, wrappers, encoders): vendored code. The models of the slave show
  it as what it does on the wire. The link between the two cores is first-in
  first-out and may lose a message where the code drops one.
- *Asynchronous requests* of `rpc_core.c`, and events other than custom ones.
- *Memory*: allocation fails where a response or a buffer depends on it;
  leaks outside the bus drivers' pools are not counted.
- *Data path*: the bus is SDIO, so `ESP_CLOSE_DATA_PATH`, which only SPI_HD
  and UART send from a deinit nobody calls, does not occur; the priority queue
  of builds without `BYPASS_TX_PRIORITY_Q`, `wakeup_host_mandate`, and the parsing
  of `host_to_slave_reconfig` are left out.
- *Network split*: `slave_network_split.c` (DHCP and DNS of the slave's
  interface, calls that abort on errors), the look-up cache of open ports.
- *Buses*: packet checks, register contents, the UART's bytes, SPI's
  chip-select interrupt, SDIO streaming, the deinit of SPI_HD and UART.
- *Requests*: record contents, SoftAP configuration, the encoders of events,
  and events that are only passed on (scan done, DPP, iTWT). The use of a
  semaphore `deinit_bluetooth` has deleted is not represented.
- *Numbers*: the op id of `PhyRpcHost` is unbounded; the source's 32 bits would
  need a call to outlive 2^32 others.
- Statistics, CLI, OS port, applications, protobuf code, tests: no protocol of
  their own.

## Plan

1. `RpcAsync`: response, timer and transport failure racing for one entry.
2. The host's serial driver, composed with `PserialQueue`.
