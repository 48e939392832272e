# TLA+ models of Blusys

Blusys is a platform for ESP32 products: a C hardware abstraction layer (`hal`),
C device drivers (`drivers`), C services on top of ESP-IDF (`services`), a C++
product framework (`framework`) and logging and counters (`observe`). All of it is
under `src/components/blusys/`. These modules model the parts that hold state
shared between tasks, interrupts, timers and callbacks, and prove or model-check
what those parts must guarantee. Code is cited below relative to
`src/components/blusys/`.

## Inventory

| Part | State | Operations | Talks to | What is hard |
|---|---|---|---|---|
| `framework/containers.hpp` ring buffer | storage, head, tail, size | push, pop, clear | everything that queues | index wrap against the redundant count |
| `framework/events/event_queue.cpp` runtime | event ring, tick state | init, `post_event`, `step`, deinit | capabilities, drivers' callbacks, reducer | posts from other threads; the wrap of `now_ms`; events around shutdown |
| `framework/app/internal/app_runtime.hpp` | action ring, context, product state | init, `step`, dispatch, deinit | runtime, capabilities, flows, product code | product code that dispatches from inside `update`; drain budget; start and stop order |
| `framework/capabilities/connectivity` | status, pending flags, handles | start, poll, stop, `request_reconnect` | Wi-Fi, provisioning, SNTP, mDNS, local control | callbacks of four services, worked off in one order |
| `framework/capabilities/mqtt` | status, flags, message queue, back-off | start, poll, stop, publish | MQTT client | events between polls, answers after a timeout |
| `framework/capabilities/ota`, `persistence` | status, NVS schema versions | start, poll, `request_update`, migrate | `services/system/ota.c`, NVS | restarts between two steps, rollback, failing flash |
| other capabilities | status, pending flags | start, poll, stop | services, runtime | flags set by service callbacks, drained by `poll` |
| `framework/flows`, `framework/ui` | screens, navigation stack, overlays | start, stop, push, pop | LVGL, runtime | life cycle of screens and overlays |
| `framework/platform` bridges | handles, intent maps | open, close, callbacks | drivers to runtime | post on the driver's thread |
| `hal/timer.c` | `started`, `closing`, active count, callback | open, start, stop, set, close | gptimer driver, alarm ISR | ISR against every call; one-shot timers that stop themselves |
| `hal/uart.c` | two mutexes, callbacks and counts, `tx_pending` | write, read, async write, callbacks, close | UART driver, its event task | callback replacement, pending TX, close |
| other `hal/*` (gpio, pcnt, twai, spi, i2c, ...) | handle, lock, callback | open, transfer, set, close | ESP-IDF drivers | ISR callbacks against close, as in timer |
| `drivers/button.c` | debounced level, timers, callback | open, set callback, close | GPIO ISR, esp_timer task | bounces, timers that fire while they are stopped |
| `drivers/encoder.c`, other drivers | decoder state, timers | open, callbacks, close | GPIO, PCNT | quadrature decoding, click timing |
| `services/connectivity/wifi.c` | flags under a lock, event group, worker | connect, disconnect, scan, close | ESP-IDF event loop | events that race calls, retries and timeouts |
| `services/protocol/ws_client.c`, `mqtt.c` | the session of `session_helper.h`, transports, a receive task | connect, send, disconnect, close | esp-transport, esp-mqtt | the other side leaving while a call disconnects |
| other services (http, local_ctrl, Bluetooth, ESP-NOW, ...) | session, locks | open, send, close | ESP-IDF | callbacks against close |
| `services/internal`, `hal/internal` | owner counts, locks | take, release | all services | staged initialisation and its rollback |

`PROJECT.json` lists every component with its sources and status, and every hazard
with its line and the properties that watch it.

What makes each part correct: queues are FIFO and bounded, and nothing accepted is
lost, repeated or delivered to a later run; an action reaches `update` once; ticks
are on time; capabilities and flows start and stop in the order their storage
needs; a handle is never freed, nor a callback replaced, under an interrupt, task
or timer that uses it; a flag agrees with the hardware, the broker or the radio it
speaks of; waiting calls return and lost connections are retried; what runs after
a restart is an image that was meant to run, on data it can read.

## Modules

- `BoundedQueue` is the abstract specification: a sequence of bounded length with
  push, pop, clear and what each answers.
- `CallbackLifecycle` is the abstract specification of what a user of
  `callback_lifecycle.h` promises the owner of a callback: one callback at a time,
  the registered one when it starts, none on a handle that closes; a call that
  changes the callback or frees the handle ends when the callback it took away has.
  `Button` and `Uart` (once for each direction) implement it (`ImplementsLifecycle`,
  with a task in its call and the two flags mapped to `changing` and `phase`). `HalTimer`
  does not: an alarm that is still latched when a call gets the lock can start its handler
  between the call's wait and its write (`late`), so its own properties say what it promises.
- `RingBuffer` is `blusys::ring_buffer`, with its storage, two indices and count.
  It implements `BoundedQueue` (`ImplementsQueue`, refinement mapping
  `Abstract`: the slots from `head_` on).
- `AppRuntime` is the application's one thread: `init` starts persistence, the
  capabilities in list order and then the flows; `step` drains actions, polls the
  capabilities, handles events, ticks when due and drains again; `deinit` undoes it.
  `pc` is the place in that sequence. While `call` is set, product or capability
  code runs and may dispatch and post any number of times; so the model covers
  every product. The queues are the sequences of `BoundedQueue`, which the ring
  is proved to implement. `MCAppRuntime` gives the lists of capabilities and
  flows values.
- `EventRing` takes the event queue apart into its memory accesses, because
  `post_event` runs on other threads without a lock.
- `HalTimer` is `hal/timer.c`: tasks that hold the handle, serialised by its lock,
  and the alarm handler, which takes no lock. The gptimer driver is external: it has the
  states init, enable, run, and fails calls made in the wrong one. `Cores`
  distinguishes chips on which a task can run during a handler from those on
  which it cannot. `late` remembers that an API call took the lock before a latched
  alarm was taken, which needs a controller that is slower than a lock.
- `Button` is `drivers/button.c`: GPIO interrupt, two esp_timers whose callbacks one
  task runs in turn, and the users' `set_callback` and `close`. The contact may be up or down at
  open, which does not look at it.
- `Uart` is `hal/uart.c`: users, the event task that runs both callbacks and may call
  the API from them, two mutexes, and the external driver with its transmitter,
  receive buffer and bounded event queue.
- `Wifi` is `services/connectivity/wifi.c`: any number of tasks in connect, disconnect
  and close; `reconnect_task_main` with its notification and delay; the event
  handler, and the radio with its queue of events. `w` is the handle's fields under
  the lock, `bits` the event group. `overlapped`, `caught` and `excused` remember
  what the properties leave out (see Findings): that two connects overlapped, that close began
  between the last look of a connect or a disconnect at the flags and its last use of the
  handle (`CatchesCall`), and that a timeout cancelled an attempt of the worker.
- `Session` is `session_helper.h`, an operator for each helper; `WsClient` and `Mqtt`
  are the two clients built from it.
- `WsClient` is `services/protocol/ws_client.c`. Connections are numbered, so that
  the receive task and the transports of one are told from those of the next.
- `Mqtt` is `services/protocol/mqtt.c`: what each call and each event of esp-mqtt does
  to the client's variables. `MqttCapability` composes it with `mqtt_device.cpp`: the
  runtime thread polls, opens and connects; the esp-mqtt task sets pending flags and
  queues messages. A step of the composition is a step of the client together with
  what its caller makes of it.
- `Update` is `services/system/ota.c` under `ota_device.cpp`, with
  `persistence_device.cpp`, whose migrations run at the same start, and the
  bootloader as `ota.c` relies on it. `image`, `mark` and `boot` are flash, as is
  `version` and the format of `data`: they survive `Reset`, which may come before any step.
  An image is a schema version and whether its digest is the one asked for. `Save` is any write of
  the product in its own format, over whatever is stored: nothing in the code makes
  it wait for a migration that failed. A write that replaces only some of the keys
  of another format leaves `Broken` data.
  otadata has one entry for each slot instead of its two sectors.
- `Connectivity` is `connectivity_device.cpp` between the runtime thread and the
  callbacks of Wi-Fi, provisioning and SNTP. It takes Wi-Fi from the outside, as
  its event callback reports it: `Wifi` is the inside of the same service.
  The worker of `wifi.c` is there with its notification and its three announcing steps
  (`worker`, `notified`), because it announces retries without looking at the link.
  The conditions it does look at change under a lock the model does not have: instead it may
  give up at each of its checks, and may run late after being woken, which is
  more than the code can do.
  `status` and `flags` are the sets of the fields and bits that are set.

`RuntimeProofs` (of `RingBuffer` and `AppRuntime`), `TimerProofs`, `ButtonProofs`,
`UartProofs`, `WifiProofs`, `ClientProofs` (of `WsClient` and `MqttCapability`),
`UpdateProofs` and `ConnectivityProofs` hold the proofs.

An action is one critical section, one driver call or one lock-free memory access
(`EventRing`); a call that blocks or waits is several, with `pc` in between. The
definitions marked `Fault:` are not part of any specification: each is a
definition below it with a plausible bug, and shows that the property watching it can fail.

## What each run checks

| Run (`.cfg`) | Question | Result |
|---|---|---|
| `MCRingBuffer` | Is the ring a FIFO queue? Types, index agreement, no slot counted before it is written (`RingInv`), refinement of `BoundedQueue` | holds |
| `MCRuntime` | Order and at-most-once of actions (`ActionsInOrder`), the only way one is lost (`LossNeedsRedispatch`), every queued action leaves (`QueuedActionsLeave`), no event outlives its run, ticks across the wrap, the order of stopping | holds |
| `MCEventRing` | Are events accepted from two threads delivered once? | violated: the ring has no lock |
| `MCTimer` | Active count and flag against hardware (`TimerInv`), no use after free, close of a periodic timer succeeds, callback never replaced under a handler, every call returns | holds |
| `MCButton` | Refinement of `CallbackLifecycle` (replaced and closed callbacks have ended); after the first edge, settling levels and long presses are reported | holds |
| `MCUart` | Writes do not overlap, refinement of `CallbackLifecycle` by both directions, counters, no byte without an event behind it, freed handle unused, transmissions and waits end | holds |
| `MCWifi` | The flag behind BUSY follows an attempt (`WifiConsistent`); close returns, and frees nothing in use but in the two windows of `caught` and after overlapping connects; a lost connection is retried | holds |
| `MCWsClient` | Nothing is freed in use, a connected handle has a receive task, the session is released, calls end | holds |
| `MCMqtt` | The capability knows the state of the broker (`MqttConsistent`), messages in order and of this run, retries | holds |
| `MCUpdate` | No tampered image runs and data fit the firmware, but for the eight `lapses`; the status is so, every request is reported | holds |
| `MCUpgrade` | Is every upgrade of the schema detected? | violated: a missing version is taken for a failure |
| `MCConnectivity` | What is ready is served; the status agrees with the radio, unless `blurred` or, for connecting and reconnecting, `belated`; waits end | holds |

Properties that the code breaks in known ways carry those ways as explicit
exceptions, remembered by variables that nothing else reads (`quirks`, `lapses`,
`overlapped`, `caught`, `excused`, `unjoined`, `blurred`, `belated`, `late`). Each is described under Findings; what the
property says is that there is no other way.

### Findings

Two disagreements have a run; `PROJECT.json` quotes both sides.

1. `event_queue.cpp:71`: `post_event`, documented as the cross-thread entry, changes
   the ring without synchronisation (`MCEventRing`).
2. `persistence_device.cpp:101`: `run_migrations` takes `BLUSYS_ERR_IO` for a missing key, as
   `nvs.h` says, but a missing key is translated to `BLUSYS_ERR_INTERNAL`: no
   version is ever recorded, and an upgrade finds old data without a migration (`MCUpgrade`).

Seen while modelling, and described here only; the exceptions above stand for them:

- Runtime: `drain_actions` (`app_runtime.hpp:234`) pops an action before it tests its budget, so the
  one after 32 iterations is lost and not counted as a drop; it takes a reducer that
  re-dispatches more than 16 in a drain (`LossNeedsRedispatch`, proved). `deinit` leaves
  `action_queue_` as it is, so an action of one run reaches `update` in the next.
- Timer: two windows around the `started` flag of one-shot timers (`timer.c:192`, `timer.c:254`);
  `stop` may return while an alarm is still latched (`timer.c:284`), and its callback runs later.
- Button: a contact that is down at open is not reported, neither as pressed nor as a long press,
  until its first edge: `blusys_button_open` (`button.c:121-205`) neither samples the pin nor
  starts the debounce timer, and `SettledIsReported` is about contacts that have moved. Close frees
  the handle under a timer callback it does not count
  (`button.c:234`); `set_callback` from inside the callback waits for itself (`button.c:271`).
- UART: `set_tx_callback` stores without testing `tx_pending` again (`uart.c:630`); when it is
  refused after its wait the old callback is already gone (`uart.c:625`); two tasks that
  both replace a callback can return while the old one runs; an event queue that
  overflows leaves bytes without an event (`uart.c:263`).
- Wi-Fi: a connect that times out (`wifi.c:624`) clears `connect_in_progress` without the
  lock and cancels the attempt the worker has just begun, after which nobody
  retries; of two overlapping connects the first to leave clears
  `connect_waiting`, and close can free the event group under the second
  (`docs/services/wifi.md:38` calls all functions thread-safe). The same happens to a single
  connect that has cleared `connect_waiting` and not yet set its bit (`wifi.c:216-217`), and to a
  disconnect that has still to wake the worker and stop the radio (`wifi.c:651-653`): close does not
  wait for them, and they may use a freed handle. `FreedHandleUnused` leaves out
  both windows (`caught`), and is about calls that had begun before close; one that begins later
  answers INVALID_STATE as long as the memory is there, and like the getters is not modelled. The
  worker may connect again after `disconnect()`; a first connect that failed is never retried.
- WebSocket: the acknowledgement of a receive task that ended by itself is taken
  by the next disconnect (`ws_client.c:421`), which then destroys transports in use; close after the server
  left frees the handle under its callback; the transports of such a connection
  leak; two overlapping connects can make a disconnect wait for ever.
- MQTT: after esp-mqtt has connected again by itself `session.connected` stays false; a
  CONNECTED event after the timeout is believed; a loss and a return in
  one poll are seen as a loss only; `stop` leaves the status as it was; the comparison of
  `now_ms` (`mqtt_device.cpp:108`) ignores the wrap.
- OTA: the new image is bootable before its digest is verified; a failed revert is
  only logged, and under rollback a revert makes the running image unconfirmed,
  so that a further reset leaves it; a second request before the restart
  erases the staged image; `mark_valid` is left to the product.
- Persistence: a crash between a migration and its record repeats the migration (`unrecorded`);
  the start goes on after a migration that failed or was skipped (`app_runtime.hpp:276-297`), and what
  the product then stores (`persistence_device.cpp:173-184` has no test) is in the new format
  under the record of the old one: the next start migrates new data, or a mixture, once more (`overwritten`);
  a flash error is taken for a first boot (`misread`); after a rollback the old
  firmware may record its version for newer data (`downgraded`).
- Connectivity: `retry_allowed` (`wifi.c:165-183`) does not ask whether there is a link. The event of the disconnect
  that `request_reconnect` makes wakes the worker; if the address comes back during its delay it
  announces RECONNECTING and CONNECTING with the link up (`wifi.c:241-273`), and the status shows
  them until the next address or loss (`belated`). Pending flags keep no order and survive `stop` and a failed start (an address
  can then be reported without a Wi-Fi handle); a dependent service that failed to open is
  not tried again; dependent services never start without Wi-Fi in the same configuration;
  provisioning cannot be opened once Wi-Fi has made the default event loop;
  `is_provisioned` is asked before `open`, against `docs/services/wifi_prov.md`.

## Bounds, and why they are enough

- Ring of 3 slots, 3 values: both indices wrap, at every fill level, with
  distinguishable contents. The proofs cover every capacity.
- Runtime queues of 2 entries and a drain budget of 2 (code: 16, 16, 32), 4 actions, 2 events and 2 runs,
  no counted drop: a queue fills, overflows, and is drained to and beyond its budget.
  The code's relation `ActionCap <= MaxDrain` is kept. A clock of 8 ms with period 3
  and gaps 1 and 4 wraps in every alignment. Persistence is in the middle of the
  list, so that list, start and stop order differ. The proofs cover all values.
- Event ring of 2 slots, 3 posts.
- Timer: two tasks, one callback and NULL, two cores, both kinds of
  timer, unboundedly many opens, alarms and calls.
- Button: two users, two callbacks, a contact that is up or down at open, unboundedly many level changes; one life of the handle.
- UART: two users (one of them registers callbacks) and the event task, two callbacks
  and NULL, a receive buffer of 2 bytes, an event queue of 1, bursts of 1 or 2 bytes read 1 at a time: buffer
  and event queue both overflow, and one event takes several callbacks.
  One registering task is assumed because neither the refinement nor
  `ReplacedCallbackEnds` is true of two.
  Calls are assumed to return before close frees the handle; all of them may
  overlap with close until then. Of the calls a callback may make, those that
  write, read and flush are modelled, registrations are not.
- Wi-Fi: two tasks, two calls of connect or disconnect on a handle besides close, which opens
  again; retries limited to 1 or endless; a queue of one event (the radio waits for
  the event task): a timeout, a retry and a late answer can all be under way.
- WebSocket: two tasks, two connections, so that the second meets what the
  first has left; three connections were checked once (851,937 states).
- MQTT: a queue of 2 messages and 3 received, so that the oldest goes; back-off from 1 to 2 polls;
  starts, losses, refusals and changes of the network are not bounded.
- Update: two slots, two schema versions, two requests, three resets: the reset
  before a revert, the one a rollback needs and one more. Four resets were checked
  once for the invariants, before `Save` wrote over existing data (2,988,792 states). Of the ways in which data can stray from their record
  the first is kept (`Strayed`): the property asks only whether there was one.
- Connectivity: the three configurations differ in what ready waits for; two runs (flags of
  the first are met by the second), two losses, one manual reconnect, with endless retries of the
  worker after each, a wait for the time of 1 poll after the one that opened SNTP. The configurations keep mDNS and SNTP apart to stay small; the proofs cover all.

`CHECK_DEADLOCK FALSE` stands where a bound or a user lets the system come to rest:
`MCWifi` and `MCWsClient` (calls and connections are used up), `MCUpdate` and `MCUpgrade`
(the product asks for nothing more), `MCConnectivity` (runs are used up). Every other run checks for deadlock.

## Fairness

- `AppRuntime`: weak fairness of the thread and of the return of product and
  capability code: the entry loop (`entry.hpp`) calls `step` for ever.
  Nothing makes an application stop, and nothing bounds how often product code dispatches before it returns except `MaxActions`.
- `HalTimer`: weak fairness of each task inside a call, and of the interrupt: a
  ready task is scheduled, a latched interrupt is taken.
- `Button`: weak fairness of the interrupt and of the esp_timer task. A timer
  that is re-armed before it fires need not fire, so nothing settles while the contact bounces.
- `Uart`: weak fairness of calls and of the transmitter; strong fairness of the
  event task, because other tasks may take a mutex again and again: the task obtains it in the end, and its
  callbacks return however often they call the API. Reads have a finite timeout.
- `Wifi`: weak fairness of each task inside a call, of the worker, of the handler and of the radio's
  answer to an attempt. A connect may wait without a timeout.
- `WsClient`: weak fairness of calls and receive tasks: the transports' own timeouts end every read and write.
- `MqttCapability`: weak fairness of `poll` and of esp-mqtt's handler once it is inside; nobody has to answer.
- `Update`: weak fairness of the bootloader, of the start and the update together, and of `poll`; resets need not happen.
- `Connectivity`: weak fairness of `poll`, of the steps of `request_reconnect` and of the return of a connect, which has a finite timeout; none of the worker.

No fairness is assumed of users, of pins, of arriving bytes or messages, of alarms, losses, resets or answers of servers.

## Proofs

TLAPS proves, for every value of the constants allowed by the modules' named
assumptions (`RingAssumption`, `RuntimeAssumption`, `TimerAssumption`,
`ButtonAssumption`, `UartAssumption`, `WifiAssumption`, `WsBoundsOK`, `MqttBoundsOK`,
`UpdateBoundsOK`, `ConnectivityBoundsOK`), and so for any number of tasks:

- `RingCorrect`: `RingInv` is types, index agreement and that counted slots were written. Index
  agreement alone is not enough to know that a popped slot was written. The arithmetic lies in
  `WrapOnce`, `SlotsDistinct`, `SuccShifts` and `SuccOfSum`: an index moved by
  less than the capacity wraps at most once.
- `RingImplementsQueue`: under `RingInv`, each step of the ring is a step of
  `BoundedQueue` or a stutter (`RingStepRefines`).
- `RuntimeTypeCorrect`, `RuntimeActionsInOrder`, `RuntimeLossNeedsRedispatch`: from
  `RuntimeInv == RuntimeTypeOK /\ ActionsInOrder /\ DrainBudget`. `DrainBudget` is the
  strengthening: during a drain, iterations plus queue length is at most
  `ActionCap + redispatched`, so a drain that exhausts its budget has seen more
  than `MaxDrain - ActionCap` new actions.
- `RuntimeEventsOfThisRun`: inductive relative to `RuntimeInv` (`EventsInvNext`).
- `RuntimeTickOnTime`: from `TickDistance`, which ties the real distance `elapsed` to the
  difference of the two wrapped counters; `WrappedDistance` and `WrappedSum`
  are the modular arithmetic. It needs gaps plus a period to stay below the wrap,
  which is the assumption on `Gaps`.
- `RuntimeStopsInReverse`: from `OrderInv` (what has started is a prefix of the start order,
  and what the stopping loop has visited is missing at its end) and `StopsBackwards`
  (the stopping loops visit the product's list exactly backwards, persistence
  being taken out of the middle and put first and last). What the loop over the
  list computes is proved by induction: `OthersUpToDefined` and `OthersSeq` take the least
  entry that would violate them, which `LeastNat` gets from the library's theorem on
  well-founded relations.
- `TimerTypeCorrect`, `TimerFreedHandleUnused`: from `HandleInv`, which adds to the property who
  holds the mutex between actions, what a call has taken from the handle by then
  (`OpInv`), that a call of close is alone, and that the driver is disabled
  exactly from close's last steps on. `TimerFlagAgrees` and `TimerPeriodicCloseSucceeds` need in addition what
  `running` says of the hardware at every step of a call (`FlagInv`).
  `TimerNoCallbackChangeUnderHandler` needs `AlarmInv`: as long as no call
  has overtaken a latched alarm, one that is past its check of `started` cannot
  meet an alarm any more.
- `ButtonTypeCorrect`, `ButtonCallbacksEnd`: from `ButtonInv`, which adds that `active` counts
  the one callback the esp_timer task can be in, that the lock is held from `set_callback`'s
  first step to its last, and that who closes is alone and has set `closing`. Under it
  `ButtonImplementsLifecycle`: each step is one of `CallbackLifecycle` or a stutter.
- `UartWritesDoNotOverlap` and `UartFreedHandleUnused`: from `UartInv`, which adds to the
  property who holds each mutex between actions (`LocksInv`) and that a task past
  close's wait knows the event task gone (`CloseInv`).
- `UartCountersMatch`, inductive as it stands, and from it and `UartInv`
  `UartReplacedCallbackEnds`: `ReplaceInv` adds that a change in progress has already
  unregistered the callback, so the only callback that can still run is the one
  the counter makes the setter wait for.
- `UartImplementsLifecycle`: `ChangeInv` adds what a change relies on after its wait, when it
  does not look again: no callback of that direction runs from the wait to the end, even if close
  overtakes it, and a handle that closes has no transmission pending. Then
  `TxLifecycleStep` and `RxLifecycleStep`, one case for each action.
- `UartTypesAndCounters`: with `MinOfThree` for the bytes one read takes.
- `UartNoStrandedBytes`: what the queue announces is a sum over it. Instead of computing it,
  `Summable` says that there is a function of partial sums (`Totals`); `SummableAppend` and
  `SummableTail` carry one from step to step, and `StrandInv` bounds the
  buffer by its last value as long as nothing was missed.
- `WifiBusyHasAttempt`: from `BusyInv`: an attempt is in the hands of a task, of the worker or of the
  radio, and never in progress once a disconnect or a close has been asked for. `WifiFreedHandleUnused`: `CloseInv` says what close has
  already stopped (the exited bit is only set by a worker that has exited), and
  `ConnectInv`, as long as connects do not overlap, that one connect at
  most is inside, that `connect_waiting` is up while it is, and that close is not past it. `CaughtInv` is
  for the calls `connect_waiting` says nothing of: a connect at its bit and a disconnect at its worker;
  none of them is inside a close unless that close found it there. The theorem holds
  but for `overlapped` and `caught`.
- `WsFlagsAreTrue`: from `SessionInv`, which names for each flag of the session the task
  or receive task that will take it back. `WsNothingFreedInUse`: `SendInv` says that one task at
  a time changes the transport and which sends may be inside meanwhile, and `JoinInv`, where
  every receive task was joined before the next connect, that there is
  at most one and that an available `task_done_sem` is its own.
- `MqttStatusAgrees`: from `ClientInv` (who has the client: the handle, `poll` while it opens one, or
  nobody), `MqttSessionInv` (what `session` and the answer to a connect say of esp-mqtt) and
  `ExpectedInv`: at every step, not only between polls, what the pending flags will have made
  of `connected_` after the next poll (`Expected`) is the state of the broker. `MqttMessagesKept`: from
  `MessagesInv`, the queue is numbered without a gap up to the last message received.
- `UpdateTypeCorrect`, inductive as it stands, and under it `UpdateTamperedNeverRuns` from `IntegrityInv` (until a lapse,
  a tampered image is neither the one that runs nor one the bootloader would choose,
  except between `Finish` and the revert), `UpdateDataFitsFirmware` from `DataInv`
  (until the data stray, the recorded version is their format; a boot with a failed migration or no
  record is outside the property) and
  `UpdateStatusConsistent` from `StatusInv` (what the flags and the status say of the slots,
  at every step and not only while the application runs).
- `ConnectivityReadyIsServed`: from `ConsistentInv`, which adds that an address has opened the services, that
  only an open SNTP service tells the time, and that the wait for it stops at its limit.
- `ConnectivityStatusAgrees`: from `StatusInv`, which states at every step, pending flags or not, what the
  next poll will show (`Shows`): a link that is up is shown, and one that is shown
  and not up has its loss pending, together with the flag that comes before it, or is blurred. For
  connecting and reconnecting: once a poll has shown the address, only an announcement that
  makes the link `belated` sets them (`UpHasTried`; `RedialIsNews` for the one of `request_reconnect`).

The proofs hold for the bounds `MaxActions` etc. too, which are arbitrary naturals.

Only model-checked: liveness, which TLAPS does not do, and `EventRing` and
`MCUpgrade`, which show disagreements. Every other property of a run is a
theorem. The invariants the proofs add were checked by TLC first on the bounds of
the runs, those of `WsClient` for three tasks and three connections.

## Not modelled

Components with status `not_modelled` in `PROJECT.json`, each with a reason. Inside
the modelled ones: argument checks and calls that answer
INVALID_ARG or INVALID_STATE at once and change nothing; failures of memory
allocation and of ESP-IDF calls that cannot fail in the state the code is in; the
contents of transmitted bytes, frames, topics and images; the choice of pins; logging. The
Wi-Fi scan and the getters change nothing the model has. Progress callbacks of an
update run in the caller and change only a number that is shown.

## Plan

Next modules, most important first:

1. The single owner of the Bluetooth stack (`bt_stack.c`) and the services that take it.
2. `Gpio` and `Encoder`: callback replacement against the shared ISR service, the
   decoder, and `CallbackLifecycle` implemented by both.
3. `LocalCtrl` and `NetBootstrap`; the navigation stack and overlays.
4. Proofs: that `Wifi`, seen from its event callback, is the Wi-Fi `Connectivity` assumes;
   that the queues of `AppRuntime` are those of `BoundedQueue`.
