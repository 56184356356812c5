# TinyGuard in TLA+

TinyGuard is two ESP32 boards.  A camera streams video to browsers and sends a
small UDP heartbeat about itself every few seconds; a monitor receives the
heartbeats, learns what is normal for that camera, and raises alerts when it
goes missing or stops behaving like itself.  It announces its dashboard on the
network by mDNS, with a library whose source is kept in the repository.  This
directory holds TLA+ models of the three, TLC configurations that check them on
small instances, and proofs of the properties that matter most, checked by TLAPS
for all values of the constants.

Paths below are relative to the repository: `main/` is
`src/firmware/monitor/main/`, `cam/` is `src/firmware/esp32cam/`, `mdns/` is
`src/firmware/monitor/managed_components/espressif__mdns/`.

## 1. The system

### Tasks

| Task | Board | What it does | Code |
|---|---|---|---|
| `app_main` | monitor | initialises eleven modules in order, three of which start tasks | `main/main.c:38-54` |
| `udp_rx` (priority 5) | monitor | for each datagram: parse, stamp, and call every analysis module in turn | `main/udp_receiver.c:119-250` |
| `hb_watchdog` (priority 3) | monitor | every second: has the camera been silent for 30 s? | `main/anomaly_engine.c:112-155` |
| HTTP server | monitor | `/status`: six snapshots put into one JSON document | `main/dashboard_server.c:553-700` |
| mDNS service task | monitor | takes actions off a queue of 16 and executes them under the service lock: packets to send, packets received, names to set, network events | `mdns/mdns_service.c:203-222` |
| mDNS timer (100 ms) | monitor | under the same lock: pushes the packets, then the searches, that are due | `mdns/mdns_send.c:1714-1746`, `mdns/mdns_querier.c:166-192` |
| streamer tasks | camera, core 1 | one per viewer: count in, send frames, count out | `cam/camera_server.cpp:93-145` |
| heartbeat task | camera, core 0 | collect telemetry, send the datagram | `cam/telemetry_collector.cpp`, `cam/heartbeat_service.cpp` |

Every module of the monitor's own keeps its state in one `static` struct behind one
mutex of its own; the receiver is almost everywhere the only writer, the HTTP
task (and the fingerprint engine) the readers.  Nothing is persisted: a reboot of
either board starts from nothing.

### Components

**Alert manager** (`main/alert_manager.c`).  State: a ring of 32 alerts, a cursor
and a count.  Operations: `raise` (from the receiver and the watchdog), `get_recent`
(HTTP).  Hard: a raise stamps and prints before it takes the mutex; the cursor
wraps; the name table is shorter than the enumeration.  Correct when it behaves
as a log of the last 32 alerts.

**Anomaly engine, detectors** (`main/anomaly_engine.c:182-237`).  State: per metric
two counters and a latch.  Operation: `evaluate`, on every heartbeat.  Hard: long
alternations of verdicts, gates that open at different times.  Correct when it
is quiet until the baseline is there, and alerts exactly on runs of three samples
(the interval's counts a sample again on heartbeats that bring none: section 6).

**Anomaly engine, watchdog** (`main/anomaly_engine.c:112-180`).  State: the time of
the last heartbeat, a flag.  Hard: a stale copy of the time, a wrapping clock, a
late scheduler.  Correct when silence is detected in time, recovery noticed in
time, and neither is reported without cause.

**Statistics engine** (`main/stats_engine.c`).  State: four rolling windows, the
learning timer, the reconnect baseline.  Operation: `update`, `get_snapshot`.  Hard:
datagrams lost, duplicated or bunched, a camera whose counter restarts.  Correct
when learning ends when it should and each reconnect enters one sample.

**Behaviour profile** (`main/behavior_profile.c`).  State: four long-term moving
averages, seeded when learning ends, ready after 120 updates each.  Hard: the one
edge that seeds them, and an interval that heartbeats need not bring.  Correct
when each matures by its own samples and none is missed.

**Correlation tracker** (`main/correlation_tracker.c`).  State: three pairs of metrics,
each with a window, a baseline of Pearson's r, readiness and an alert guard.  It
computes r outside its mutex and commits under it, raising alerts while it holds
it.  Hard: baseline and samples come in either order, readiness is tested at two
places, a window that does not vary has no r.  Correct when a pair is quiet until
it is ready, is ready when it should be, and says nothing without an r (which it
does: section 6).

**Session tracker** (`main/session_tracker.c`).  State: the session in progress, two
moving averages, a shift register of session starts.  Hard: two clocks, wrapping
differences, discarded sessions.  Correct when sessions and pauses tile the time
and the register counts the starts (it counts a few too many: section 6).

**Fingerprint engine** (`main/fingerprint_engine.c`).  State: two alert guards and the
published score, put together from the three modules above.  Hard: components
that are not ready, a truncating cast, two latches over one score.  Correct when
the score means what its header says and its two flags stay ordered.

**Device state** (`main/device_state.c`).  A copy of the last heartbeat and a packet
count.

**Camera server and telemetry** (`cam/camera_server.cpp`, `cam/telemetry_collector.cpp`).
State: the viewer count and the stream flag behind a mutex.  Hard: viewers that
come and go while the other core reads the two.  Correct when the count is the
number of viewers, the flag follows, and a heartbeat reports a pair that was true.

**Camera link** (`cam/heartbeat_service.cpp`, `cam/wifi_manager.cpp`).  State: the
socket, the time of the last beat, the reconnect counter, the reconnect timer.

**Monitor WiFi** (`main/wifi_manager.c`).  Connects, and once it has an address calls
`mdns_start` (lines 76-91): a host name, an instance name and the service `_http._tcp`
on port 80, the same three on every monitor.  Correct when two monitors on one
network end up under names of their own.

**mDNS responder** (`mdns/mdns_responder.c`, `mdns_pcb.c`, `mdns_send.c`, `mdns_receive.c`,
`mdns_utils.c`).  State: the names, a list of services, for each interface and IP
family (a "pcb") a state machine of three probes and three announcements with the
services it is about, and one queue of packets to be sent.  Operations: some
twenty calls that add, change and remove names and services, the dispatch of a
packet, the reception of one.  Hard: everything refers to everything by pointers;
a change in one service starts over or drops what was under way for another;
packets, probes and announcements are lost and cross; names are taken from each
other.  Correct when nothing that waits refers to a service that is gone (the
questions of a probe may: section 6), a name is claimed only after three probes for
it, and neighbours know what there is.

**mDNS service task** (`mdns/mdns_service.c`, `mdns_netif.c`).  State: the action queue,
the lock, which interfaces are up.  Hard: calls, the timer, the network and the
task meet in a queue that may be full, and what does not fit is dropped, in some
places without anyone being told.  Correct when what the queues say of each other
is true.

**mDNS querier and browser** (`mdns/mdns_querier.c`, `mdns_browser.c`, `mdns_receive.c`).
State: lists of searches and browses on the heap, with their results.  The monitor
itself makes no queries, but the timer and the receiver run this code all the
same.  Hard: the application makes and frees what the timer walks over and queued
actions point to; results are put together from records in any order.  Correct
when nothing is used once freed, a search ends when it should, and the
notifications of a browse add up to its cache (they do, as long as nobody says
goodbye: section 5).

**mDNS packet input and output** (`mdns/mdns_networking_lwip.c`) hands packets to lwIP and
back.  **Dashboard page, serial console and LED, mDNS console**: see "Not modelled".

## 2. The modules

| Module | Models | Kind |
|---|---|---|
| `AlertLog` | what `alert_manager` promises: the log of the last alerts | abstract |
| `AlertManager` | the ring, two-step raises, panics, queries; implements `AlertLog` | component |
| `ConsecutiveGuard` | `check_metric`: two counters and a latch | operators |
| `AlertPolicy` | what a guarded detector with a sample for each verdict promises, stated on the samples | abstract |
| `StatsSnapshot` | what the statistics tell the detectors of each heartbeat | component, interface |
| `AnomalyEngine` | the z-score detectors | component |
| `BehaviorProfile` | the long-term profiles: seeding, counting, readiness | component |
| `CorrelationTracker` | the pairs: windows, baselines, readiness, guards | component |
| `Detectors` | the receiver's pass over the four modules above; the guards of RSSI and of its correlation with the interval implement `AlertPolicy` | composition |
| `FingerprintEngine` | the divergence score and its two alerts; implements `AlertPolicy` twice | component |
| `HeartbeatWatchdog` | the polling task against the receiver, with explicit time | component |
| `StatsEngine` | learning, intervals, reconnects, with camera and network | component |
| `SessionTracker` | sessions, the register, the two clocks | component |
| `CameraServer` | the streamers, the viewer mutex and the telemetry reads | component |
| `Monitor` | boot, the receiver's pass over all modules, the log that all tasks write, `/status` | composition |
| `MdnsSend` | mDNS packets, the queue they wait in, their dispatch | operators |
| `MdnsPcb` | the server's state; probing, announcing, goodbyes, what a removal does to packets in flight | operators |
| `MdnsResponder` | the calls on names, services and delegated hosts | operators |
| `MdnsReceive` | a packet received: questions, known answers, conflicts, replies | operators |
| `MdnsService` | one monitor: application, timer, action queue, service task, network events, and a neighbour's cache | composition |
| `MdnsConflict` | several monitors under one name on a network that loses and reorders | composition |
| `MdnsClient` | queries and browses | component |
| `MCAlertManager`, `MCFingerprintEngine`, `MCMdnsService`, `MCMdnsConflict`, `MCMdnsClient` | constants for TLC | checking |
| `AlertManagerProofs`, `DetectionProofs` (`Detectors` and `FingerprintEngine`), `HeartbeatProofs` (`CameraServer` and `HeartbeatWatchdog`), `SessionTrackerProofs`, `StatsEngineProofs`, `MonitorProofs`, `MdnsClientProofs`, `MdnsServiceProofs` | theorems | proofs |

The mDNS modules extend each other in the order `MdnsSend`, `MdnsPcb`, `MdnsResponder`,
`MdnsReceive`; `MdnsService` and `MdnsConflict` each extend the last of them and add
variables and actions.

Variables have the names of the C variables they stand for; variables marked
*ghost* are history the code does not keep and no guard reads.  Constants carry
the name of the macro they stand for, with its value, in a comment.  Operators
marked *mutant* are deliberate errors, used by no specification: they are there
to show that the properties notice.

### How a step corresponds to the code

*One action is one atomic piece of the code.*  A function that runs entirely
under its module's mutex, with no other task writing what it reads, is one
action: `StatsEngine!Update`, `SessionTracker!Update`, `BehaviorProfile!ProfileUpdate`.
Code that works outside the mutex or takes it several times is one action per
piece: an alert's stamp and its store (`AlertManager!Stamp`, `Store`), the
watchdog's two reads (`ReadLast`, `Judge`), a score's evaluation and its
publication (`Evaluate`, `Publish`), a correlation's samples and their commit
(`AddSamples`, `Commit`), `DeviceGet` and `DeviceUpdate`, the two
telemetry reads (`IsStreaming`, `GetViewerCount`).  The camera's `viewer_inc` and
`viewer_dec` are two actions each, with the mutex explicit, because their two
variables are two stores.

*Data are abstracted to what a property tells apart.*
- In `StatsSnapshot` a z-score is its verdict (above three or not), any verdict
  the number of samples allows: a window of n samples has no member further than
  (n-1)/sqrt(n) standard deviations from its mean, so none beyond 3 when n < 11
  (`SpreadMin`).  With an outlier there is a spread, so the code's test of the
  standard deviation adds nothing.
- In `CorrelationTracker` a window is how many samples it holds and for how many of
  them each signal has kept its value: r exists when neither has done so for all of
  them.  The value of r is what its z-score against the baseline says, anything the
  code allows: none while the baseline's variance is below the floor.
- In `BehaviorProfile` an average is how many samples it has been fed.
- In `FingerprintEngine` the arithmetic of the score is kept in integers.  Single
  precision matters in one place, the cast to `uint8_t`: where the exact quotient
  is an integer the float may fall just short, and `Truncated` has both outcomes.
- In `SessionTracker` a moving average is what it has been fed: how many samples,
  and their sum.
- In `Monitor` what a module computes is left open within its gates; what is kept
  is which mutex is taken when, and which flag is set before which alert.  The alert
  manager is the log that `AlertManager` implements, the last `HistorySize` alerts of
  all kinds, of which `/status` copies the last `PageAlerts`.

- In the mDNS modules a packet is its lists of questions and records, a name is a
  pair of a base and the number `mangle_name` puts after it (the model compares
  lengths and numbers, as the collision tests compare strings), and a pointer is the
  identity of what it points to: addresses of services, searches and browses are
  few and are used again once freed.  An outgoing question keeps the name it was
  made with, and whose strings that name is made of (`of`): they are freed with their
  service.  An answer is resolved when it is sent, as in the code.

*mDNS: operators and steps.*  All that changes the server runs under one lock, so
each call of the library is an operator from one state of the server, a record, to
the next; `MdnsService` and `MdnsConflict` say who calls which when.  The timer takes
the lock for a walk over the queue, during which the task can take an action off
its queue but not execute it: `TimerRuns`, `TimerPushes`, `Take` and `Execute` are
separate steps.  A push to a full queue fails, and each pusher does what its code does
then.  Where the code uses freed memory or a null string the model sets `undefined`
and goes no further (in `MdnsClient` and, when freed strings are compared or sent, in
`MdnsService`); where the task waits for the lock it holds it sets `blocked`
(in `MdnsClient`).  A record that cannot be read to its end drops the packet as
`goto clear_rx_packet` does (`cut` in `MdnsClient`).

*Time* is explicit where the code compares times (`HeartbeatWatchdog`, `StatsEngine`,
`SessionTracker`): true time advances by `Tick` and the code sees it through clocks
of finite range, subtracted as `uint32_t`.  `esp_log_timestamp()` and the tick
clock are two clocks, the first ahead of the second by the time since reset
(`LogBase`).  In the mDNS modules a delay is one of three classes (at once, a probe's
250 ms, an announcement's second), counted down by `Elapse`.

*Undefined behaviour.*  `alert_manager_raise` indexes the eight names of `type_str`
with eleven types.  For a type past the end the model has both outcomes: the line
prints something (`Stamp`), or the wild pointer makes the monitor panic and reboot
(`Panic`), which empties the ring; `AlertLog` has a `Reboot` for that.

*The environment.*  In `StatsEngine` a heartbeat is a copy of the camera's counter
in a queue from whose head it is delivered, delivered and kept (a duplicate), or
lost.  It is not reordered: both boards sit on one access point, which keeps a
station's frames in order.  The camera may reboot once, which clears its counter.
In `MdnsConflict` a packet may be lost, or overtaken by the one behind it, and a
monitor may be switched off and on; in `MdnsClient` the responses of other hosts are
any of a few packets in any order.

## 3. The runs

Where a run does not list its type invariant, it is a conjunct of another invariant
(`SilentAtFirst`, `ReconnectsCountedOnce`, `RegisterInv`, `BootInv`, `TxQueueInv`,
`ClaimsInv`, `SearchInv`) or only proved (`WatchdogTypeCorrect`, `CameraTypeCorrect`).

| Run | Checks | Distinct states |
|---|---|---|
| `alert_manager` | `TypeOK`, `TaskOrder`; refinement `ImplementsLog` | 141,949 |
| `fingerprint` | `ScoreTypeOK`, `CriticalImpliesElevated`, `CriticalIsMultiSignal`; refinement `ScoreAlertsFollowPolicy` | 45,235 |
| `watchdog` | `DetectedInTime`, `RecoveredInTime`, `ResumedMeansHeartbeat` | 18,423 |
| `stats` | `LearningExact`, `ReconnectsCountedOnce`, `IntervalIsGap` | 180,374 |
| `detectors` | `SilentAtFirst`, `ReadyExact`, `GatesAgree`, `ScoredPairsHaveSamples`; refinement `AlertsFollowPolicy` | 485,097 |
| `session` | `TimeIsTiled`, `RegisterInv` | 87,583 |
| `monitor` | `BootInv`, `FlagsAreLogged`, `InStep`; liveness `HeartbeatProcessed`, `RequestAnswered` | 499,803 |
| `camera` | `ViewersCounted`, `AgreesWhenUndisturbed`; liveness `StreamEnds` | 42,826 |
| `mdns_conflict` | `DistinctWhenSettled`, `ClaimsInv`; liveness `EventuallySettled` | 180,644 |
| `mdns_service` | `NoDanglingService`, `TxQueueInv`, `ProbesAlone`, `CacheAgrees` | 1,790,832 |
| `mdns_client` | `SearchInv`, `EndsRightly`, `AddressesBelong`, `BrowseInStep`; liveness `QueryAnswered` | 533,920 |
| `mdns_goodbye` | `DeliveryEnds`, a comment of the library that TLC refutes (section 5) | 1,903 |

**alert_manager.**  Two tasks raise alerts of a type past the end of the name table
(so panics are included) around a ring of 3, seven stores deep: the cursor wraps
twice, and queries of every length are answered before, at and after the ring
fills up.  The clock has three values, enough for two stamps of one task to be
older, equal and newer than another's.  The ring of 32 differs in its size only,
which the proofs cover.

**fingerprint.**  Components become ready in any order; each z-score is 0 or
beyond the scale.  With the weights 40, 35 and 25 these give scores below, between
and above the real thresholds 25 and 75, on both sides of each; three in a row
raise and clear, and the counters, which the code only compares with three, stop
at four.  `CriticalIsMultiSignal` holds because the share of a correlation that is
not ready is *not* spread over the others.

**watchdog.**  A timeout of 5 ticks, a poll of 2, a scheduler that is up to 1 late, a
clock of 13 and silences up to 11.  All of these orders occur: a heartbeat between
the two reads, a heartbeat at the very timeout, two alerts in a row across the
clock's wrap.  The bounds in `DetectedInTime` (Timeout + Poll + Jitter) and
`RecoveredInTime` (Poll + 2 Jitter) are tight: with either reduced by one TLC finds
a counterexample.

**stats.**  A learning time of 3, heartbeats up to 2 in flight, 2 reconnects, a camera
reboot, 6 ticks.  Learning can end while heartbeats are lost; several heartbeats
arrive in one tick, faster than a rate can be computed; intervals are 0, valid and
too long.  The clock does not wrap during the run: across the wrap the comparison
`now >= learning_end_ms` ends learning early (section 6).

**detectors.**  One metric that every heartbeat samples (the three are handled alike)
and the interval, which a heartbeat may not bring; of the pairs the one that
depends on it.  Learning ends on any heartbeat but the first, before or after there
are intervals.  Verdicts become possible with the third sample, so they precede,
straddle and follow the end of the learning phase.  The window has four samples
and the counts go to six, so that it slides; a pair has its samples before its
baseline and the other way round.  Two verdicts in a row raise and clear an alert
(three in the code and in the run `fingerprint`): every order of readiness, gate and
verdict is there with two.  `AlertsFollowPolicy` is about RSSI, which every heartbeat
samples, and the correlation, which has a new r for every verdict; it is not true of
the interval, whose last sample is judged once more on a heartbeat that brings none
(section 6).  `SilentAtFirst` is tight: with one sample more in the
bound of its part about pairs TLC finds a counterexample.  `ScoredPairsHaveSamples`
needs that a profile takes longer to mature than a pair, five samples and four here,
120 and 30 in the code (`DetectorsAssumption`).

**session.**  Heartbeats at any moment with any flag, a minimum duration of 2 of 8
ticks, a register of 4 bits of which 2 should count (64 and 60 in the code): sessions
are kept and discarded in all orders, the log clock wraps during sessions and during
pauses, and starts leave the window, then the register.  `RegisterInv` says by how
much the count differs from what it should be, and the starts that make the
difference occur.

**monitor.**  Four heartbeats: one in the learning phase, the one that ends it, one
that matures the profile (three heartbeats give two intervals) and one that is
scored after that, with requests in between at every step.  The boot runs
concurrently.  The log holds 3 alerts and the page shows 2 (32 and 8 in the code), with
one alert from `app_main` or the watchdog at any moment: alerts are displaced from the
page and from the log, `LEARNING_COMPLETE` on every heartbeat among those that
displace them.  `FlagsAreLogged` accordingly says that a shown alarm's alert is
on the page or that as many later ones as it lists are.  It needs the order of the
reads in `handle_status`: with the log read before the flags it fails.  Deadlock is not checked, as the bound on
heartbeats stops the receiver and clients may stop asking; the two liveness
properties say that no step in the middle gets stuck.

**camera.**  Three streamers that come and go again and again: two that leave at
once with a third arriving.  The telemetry reads run in parallel, with their 5 ms
timeout as a choice whenever the mutex is held.

**mdns_conflict.**  Two monitors start under the names and the service of
`mdns_start`, with their calls, probes, conflicts, renames and announcements
interleaved in every way within a tick; up to two of their packets are lost or
overtaken and one monitor is switched off and on at any moment.  That is enough for a
conflict while both probe, while one probes and the other announces, after both
have settled, and after the one that had given way has come back under the first
name.  Two faults are the limit of what the library promises: with three TLC finds two
monitors that keep one name, since three lost probes defeat three probes.  The two
addresses are ordered and the ports are equal, as in `mdns_start`; with ports ordered
against the addresses each monitor would lose by one and win by the other (section 6).

**mdns_service.**  One interface with one IP family, two services of one type at most,
a queue of two actions, and up to four calls, packets and network events in any
order, with the timer and the task in between.  Four are enough to add two services,
change one and remove the other while the first probe of either waits, is handed
over or has been answered, and to disconnect in the middle; the queue is full when the
timer pushes and when the network reports an event.  `CacheAgrees` compares what a
neighbour that hears every packet has in its cache with the services there are.  It
excuses what the library does not announce rightly: calls that come before all has
settled, those that use another name than was announced, and two services under
one name (section 6).  Deadlock is
not checked: the calls are bounded and the monitor comes to rest.  Two of the names make two
services of one type distinct, so that a removal while both are probed for takes out
the other's question: the removed one's then waits with freed strings, and the states
where it is compared or sent are reached and end there.

**mdns_client.**  One search address and two browse addresses, so that what is freed is
taken again at once; a queue of two; six response packets about two instances on two
hosts, an instance and a host of our own and a goodbye, with the address before the
record that says whose it is, an address of our own host behind a record that a search
was found for, and a packet whose last record cannot be read; four inputs.  Searches end by time and by their number of results,
also at the same moment, and the queue is full when they do.  `Data` is the set of all
that these records are made of: names, hosts, services, addresses and TXT items.  Deadlock is not
checked: the inputs are bounded, and a goodbye stops the service task.

**mdns_goodbye.**  The same without searches and with three inputs.

**Mutants.**  For each property of each passing run `PROJECT.json` names a plausible
bug, an operator next to the one it replaces, under which TLC finds that property
violated.

### Fairness

Only in the four modules with liveness properties.

- `Monitor`: weak fairness of `InitModule`, of `ReceiverStep` and of the page (`StatusRead`,
  `Respond`), each steps of one task that no other disables for ever.  FreeRTOS schedules by
  priority and none of the tasks spins, so a task that can run does run.  That a
  heartbeat or a request arrives is not assumed.
- `CameraServer`: weak fairness of each streamer's own steps; clients need not come or
  leave, and a write need not fail.  `StreamEnds` accordingly says: *if* in the end there
  are no clients, the flag goes down.  A client that drops off without closing its
  connection is a write that never fails as far as the model is concerned; the
  camera then goes on streaming, which the model allows.
- `MdnsConflict`: something happens as long as anything is left to do.  The faults are
  bounded, so in the end it is tasks, deliveries and the clock that move, and each
  moves for ever only if packets keep being sent.
- `MdnsClient`: the timer runs (`WF_vars(Timer)`), time passes for every search
  (`Expire`) and a caller that has been woken goes on (`QueryReturns`).  The service task is
  treated strongly fairly (`TaskFairness`): it may find the lock taken again and
  again, but a FreeRTOS mutex wakes the task that waits for it.

## 4. The proofs

All proofs are hierarchical with one step per action.  The temporal step is always
the same: `Init => IInv`, `IInv /\ [Next]_vars => IInv'`, `IInv => Inv`.

| Theorem | Says | Argument |
|---|---|---|
| `AlertManagerProofs!TypeCorrect`, `RingShape` | types and the shape of the ring | `IInv` is `TypeOK /\ RingInv`: until the ring is full the cursor equals the count, and exactly the slots below it are filled |
| `AlertManagerProofs!RingImplementsLog` | the ring implements `AlertLog`, for any set of tasks and any size | `StoreAppends`: a store appends to what `Recent` reads and drops the oldest when full; it rests on `SlotLemma` (where the k-th newest alert is) and `WrapLemma` (arithmetic modulo the size) |
| `AlertManagerProofs!TaskOrderHolds` | a task's alerts are listed in the order it raised them | `OrderInv`: a pending alert is no older than any stored alert of its task and no newer than the clock.  Without it a store could put an old stamp after a new one |
| `DetectionProofs!FingerprintTypeCorrect` | scores stay in 0..100, for every z-score | `PdsRange`: the weighted mean of values in 0..100 |
| `DetectionProofs!CriticalImpliesElevatedHolds` | a critical alert is an elevated one | `GuardOrder`: the stricter threshold's run of hits is never longer, its run of misses never shorter.  The two latches alone are not inductive |
| `DetectionProofs!CriticalIsMultiSignalHolds` | a score of 75 has two drifted signals | the same property of the evaluation not yet published |
| `HeartbeatProofs!WatchdogTypeCorrect`, `DetectedInTimeHolds`, `ResumedMeansHeartbeatHolds` | silence is detected in time; a camera reported back was heard | `Ages`: the copy and the clock differ by the true age of the heartbeat it was copied from; `Deadline`: silence plus the time to the next wake-up stays below the bound |
| `HeartbeatProofs!RecoveredInTimeHolds` | a camera that is back is not reported missing for longer than a poll and two delays | `Calm`: the time it has been back plus the time to the next wake-up stays below the bound while the task sleeps; `Judged`: the copy about to be judged is then recent enough to clear the alarm |
| `SessionTrackerProofs!TimeIsTiledHolds` | sessions and pauses tile the time | `Kept` and `Running` tie each stamp to the true time it was taken at, so every wrapped difference is a true difference |
| `SessionTrackerProofs!RegisterInvHolds` | the register counts the sessions begun within it, so those of the window and at most half as many more as the register is longer, for any two lengths | `Window`: bit i is the edge i heartbeats ago, which makes a bijection between the set bits and the starts (`WindowCounts`); two starts cannot be next to each other, so at most every other bit above the window is set; `Rest`: what else is kept |
| `HeartbeatProofs!CameraTypeCorrect`, `ViewersCountedHolds` | the count is the number of viewers, for any number of streamers | `FlagInv`: between its two stores the streamer that holds the mutex owes the flag an update, and no one else can be there |
| `HeartbeatProofs!AgreesWhenUndisturbedHolds` | an undisturbed heartbeat reports flag and count in agreement | `ReadInv`: after the first read, unless something changed, the value read is still the value |
| `StatsEngineProofs!LearningExactHolds`, `IntervalIsGapHolds` | learning lasts its time; the interval is the true gap | `Timing`: each tick the code keeps is the true time of its heartbeat |
| `StatsEngineProofs!ReconnectsCountedOnceHolds` | no reconnect is counted twice, none is lost without a reboot, for any number of heartbeats in flight | `Chain`: what is in the network lies in order between the last heartbeat and the camera, also across the reboot; `Accounts`: the counter compared with is that of some heartbeat up to which all reconnects are in samples.  Which heartbeat cannot be told from the variables (duplicates), so it is an existential |
| `DetectionProofs!SilentAtFirstHolds`, `ReadyExactHolds`, `GatesAgreeHolds`, `ScoredPairsHaveSamplesHolds` | the properties of the run `detectors` but for the refinement, for every threshold and any set of pairs | `Gates` and `Samples` give the counts of three modules against each other at every point of the receiver's pass, not only between heartbeats; `Counters` and `Scores` bound the runs of verdicts by the samples there have been; `Phase` and `Ready` say when the baseline was taken |
| `DetectionProofs!AlertsFollowPolicyHolds`, `ScoreAlertsFollowPolicyHolds` | the RSSI and correlation alerts, and the two of the divergence score, implement `AlertPolicy` | `Follows` ties the two counters and the latch of a guard to the verdicts the ghost keeps: a counter reaches k exactly when the last k verdicts are alike.  `GuardFollows` shows that one sample keeps it, `GuardsPolicy` that the latch then moves as the policy says; the rest maps each component's steps to samples or stutters |
| `MdnsClientProofs!SearchInvHolds`, `EndsRightlyHolds` | no freed search is used, none gets more results than it asked for, none is ended too early or for another | the invariant is about the line: the action that runs, followed by the queue.  `AddsInOrder`: a search that waits for its `search_add` is as it was made, is in no list and is added once, with no `search_end` behind it.  `EndsExpired`: a `search_end` in the line is for a search that is in the list and over.  `ListInv`: the list has no search twice and the timer's walk stays within it.  Without the first, an address that is used again could meet the `search_end` of the search before it |
| `MdnsClientProofs!AddressesBelongHolds` | every address of a result was announced by that result's host, or the search matches no hosts and it was announced for the name the search asks for or for a host of our own | `ResultsGood`: the limit and the addresses of each search.  A packet is read record by record and `Parsing` holds after each.  It includes that the search in `found` wants the record at hand unless that one is our own (`Meant`), which is when a search is given what it did not ask for, and that what has been staged was announced.  `BrowseInv` keeps the caches that the same packet goes to: a browse that waits to be added is there and in no list, and so is one with a live notice |
| `MdnsClientProofs!BrowseInStepHolds` | at rest the application knows what the cache of a browse holds of each instance whose last change did not go with a lost notice | `NoticeInv`, in two parts.  `ChangesTold`: what the application knows of an instance is what the cache holds, or a notice of it is pending, or its last one was lost, because the queue was full or the packet was cut (`lost`).  `ChangesThere`: what a notice is about is in the cache, which `browse_sync` relies on when it looks the result up.  For a packet `Parsing` has, with each record, that an instance whose result has changed is noted in `browse_sync` (`Noting` for one function of the cache, `ChangesNoted` for the packet); `ToldAfter` says what a notice leaves the application knowing.  At a goodbye the task stops with the notice in its hands (section 5), so it stays pending |
| `MdnsServiceProofs!NoDanglingServiceHolds` | no answer that waits to be sent and no pcb that probes refers to a service that has been freed; a question with freed strings is in the probe of a pcb that still probes, for a host name or for a type of which a service still probed for has lost its question | `Sound`, kept by every operator of `MdnsSend`, `MdnsPcb`, `MdnsResponder` and `MdnsReceive`.  `Refs`: packets and pcbs refer to linked services, and there are none without a host name.  `Covered`: a pcb that keeps services to probe for is probing and has, alone in the packet queue, a packet that claims each of them and has for each a question of its own; a pcb that does not probe has no questions with strings of a service.  Without it the property is not inductive: a removal looks at a pcb only by way of the packets it has in the queue (`RemoveServiceFromPacket`), so a pcb without its packet would go on probing for a freed service.  Which question is whose is a function from the services to the questions (`NamedBy`), and the question of a service has its strings or freed ones.  When a removal takes out another service's question that function is changed to give that service the removed one's (`CoveredBy`, whose set are the services on their way out) |
| `MdnsServiceProofs!TxQueueInvHolds` | the packet queue and the action queue agree, unless a push found the latter full | `Handed`: the packets marked as handed over are the first of the queue, are due, and have their actions in the line (the action that runs, followed by the queue) in their order.  That they are due is what keeps a new packet from being put between them.  `ScanInv`: while the timer walks, exactly the packets before it are marked |
| `MdnsServiceProofs!ProbesAloneHolds` | a pcb that probes has no packet in the queue but its probe, which asks for each service it probes for, or in its place for a removed one of the type, and for host names exactly if it probes for those | the rest of `Covered`: the packet is the only one of that pcb (`Alone`) and asks enough (`AsksEnough`).  That each service has its question (`NamedBy`) is not inductive for the questions of that service alone: the removal of another takes the first question of the type out of the probe (`RemoveFirstQuestion`), whoever's it was, so a service may be left with the removed one's.  That the question taken out is never the host's is why the question of the host has no service to compare (`qs->service &&`, `mdns/mdns_send.c:1800`) |
| `MonitorProofs!BootInvHolds`, `FlagsAreLoggedHolds`, `InStepHolds` | the safety properties of the run `monitor`, for any number of heartbeats and alerts, any size of the ring and of the page | `Booted`: a task that runs comes after the modules it calls; `Counted`, `Seeding`, `Judging`, `Scoring`: what each module has taken in, by where the receiver is; `Logging` and `PageInv`: the alert of a flag that is set has been stored, under its number, and is in the log unless as many later ones as it holds are; the same of a half-built page.  The last alerts of that log are the page's |

The proofs about `MdnsClient` and `MdnsService` rest on what recursive functions and folds
compute, which take the records of a packet, the staged addresses, the searches that
have enough, the results the notifier is called for, the packets of the queue, the pcbs
and the services one at a time.  The library's theorems on recursive functions and on
induction take an operator as a parameter, which none of the provers can instantiate.  `UpFromZero` has instead,
from the well-foundedness of the subsets of `0 .. n`, that a set with 0 and with i + 1
for each i holds all of `0 .. n`; `Recursion` has from it that the function with a given
first value and step exists.

Assumptions are the named `ASSUME`s of the modules (checked by TLC in every run;
that of `MdnsClient` says that the parts of records and queries are data, and that
`None` is none of them; those of `MdnsSend` and `MdnsService`, that interfaces and protocols
are finitely many, that the twin of an interface is an interface, that a question list is a
list of questions with strings of their own, that `None` is neither a service, a type, a
host's name nor the action that hands a packet over, and that freed strings are none of a
service)
and three conditions the theorems state.  `NoLap` of the watchdog and of the sessions:
no silence (or no time explored) as long as the clock's range.  `NoWrap` of the
statistics: the clock does not wrap before the learning phase can end.  The runs'
constants satisfy all three.  Outside them the statements are false of the code:
after 2^32 ms, some 50 days, of silence the watchdog takes the wrapped difference for
a fresh heartbeat, and across the wrap learning ends early.

Only model-checked: liveness, which the proof system does not reach
(`HeartbeatProcessed`, `RequestAnswered`, `StreamEnds`, `EventuallySettled`, `QueryAnswered`),
and, of what is said of the mDNS server, `CacheAgrees` of `MdnsService` and
`DistinctWhenSettled` and `ClaimsInv` of `MdnsConflict`.  `DistinctWhenSettled` holds for two faults and not for three, so what would be
proved is a statement about the count of lost probes.

## 5. Findings

**A goodbye stops the mDNS service task** (run `mdns_goodbye`).  When an instance that a
browse knows says goodbye, `browse_sync` frees its result with the public
`mdns_query_results_free` (`mdns/mdns_browser.c:77`), which takes the service lock
(`mdns/mdns_querier.c:779-784`).  The lock is a mutex that is not recursive
(`mdns/mdns_service.c:290`) and `service_task` holds it around `execute_action`
(`mdns/mdns_service.c:213`): the task waits for itself for ever, and the timer and every
caller with it.  The comment at `mdns/mdns_browser.c:62-63` says that the notifier is
invoked "once per changed result accumulated for the current packet".  The monitor
itself does not browse, so it is not affected today.

## 6. Other disagreements met while reading

They have no run of their own.  Some are about wording, about data the models
abstract from, or about time scales beyond the bounds; of the others the models do
what the code does, and the properties are stated around them.

The monitor and the camera:

- `LEARNING_COMPLETE` is raised on every heartbeat: the raise at
  `main/stats_engine.c:210` stands before and outside the test that learning has
  ended, though `README.md:297` says "Phase 1 baseline established".  The heartbeat that
  does end the phase raises it twice, and the log of 32 holds little else.
- Elapsed session time wraps: `main/session_tracker.c:236` subtracts a stamp of
  `esp_log_timestamp()` from the tick clock, which is behind it by the boot time; in the
  first moments of a session the difference is about 2^32 ms, where
  `main/session_tracker.h:159` says "ms since session start".
- A frozen correlation goes on being scored: when a signal stops changing its window
  has no r and the update is skipped, but the last r and baseline stay, so every
  snapshot shows their z-score (`main/correlation_tracker.c:387-389`) and the fingerprint
  engine adds it to the score (`main/fingerprint_engine.c:149-153`).
  `main/correlation_tracker.c:40-42` says that "the degenerate guard suppresses output"
  then.  An alert that is active stays so as well.
- A heartbeat can report a stream without viewers: `telemetry_collect` takes the mutex
  once for the flag and once for the count, and a last viewer that leaves in between
  gives the very pair `devlog.md:774-776` says the mutex excludes, and the one
  `main/correlation_tracker.c:268-269` calls "the primary threat case".
- `type_str` (`main/alert_manager.c:20-29`) has no name for `HB_INTERVAL_ANOMALY` nor for
  the last two types, so `RECONNECT_ANOMALY` is printed on the serial line as
  `STREAM_ANOMALY` and the Phase 2 types read past its end.
- `alert_type_prefix` (`main/dashboard_server.c:539-549`) numbers sources, not the types
  of `main/alert_manager.h:35-48` it is called with.
- The interval detector raises `HEARTBEAT_MISSING` (`main/anomaly_engine.c:209`), though
  `README.md` describes a separate `HB_INTERVAL_ANOMALY`.
- A heartbeat that adds no interval sample has the previous verdict evaluated
  again (`main/anomaly_engine.c:202-208`), so one outlier can count three times and
  raise an alert; `main/anomaly_engine.h:15-18` and `:41` ask for three consecutive
  anomalous samples.  `AlertsFollowPolicy` does not hold of the interval for this
  reason, and is stated of RSSI and the correlation only.
- The watchdog judges by a copy of the last heartbeat's time
  (`main/anomaly_engine.c:130-137`): a heartbeat after the copy is not seen, and a camera
  that has just been heard is reported missing until the next poll, which
  `RecoveredInTime` bounds.
- `pair_add_sample` sets `ready` outside the mutex (`main/correlation_tracker.c:172-173`), so a
  snapshot can show a pair ready with the r of the heartbeat before; the comment at
  lines 350-352 says that readers always see a consistent tuple.
- When learning ends with the second heartbeat and that one brings no valid interval,
  the interval's profile is seeded with the mean of no samples, zero
  (`main/behavior_profile.c:111`), though `main/behavior_profile.h:147` says that seeding
  eliminates the zero-start bias.
- A camera that has never been heard is never reported
  (`main/anomaly_engine.c:119`), though `main/anomaly_engine.h:20-22` promises an alert.
- Learning ends at an absolute time compared with `>=` (`main/stats_engine.c:217`); if
  that time lies past the clock's wrap it ends with the second heartbeat.
- `session_count_in_window` counts all bits of a register of 64: it covers 64 heartbeats,
  where `main/session_tracker.h:18`, `:50-51` and `:155` say 60 and
  `main/session_tracker.c:34-35` that the upper bits are never counted.  So it is
  up to 2 too high, which `RegisterInv` states.
- An alarm that lasts loses its alert on the page: `/status` lists 8 alerts
  (`main/dashboard_server.c:561-562`) and every heartbeat stores a `LEARNING_COMPLETE`
  (`main/stats_engine.c:210-214`), so after eight heartbeats the alert of a latched flag
  is listed no more, and after 32 it has left the ring.  `FlagsAreLogged` says so.
- The weight of a correlation that is not ready is not redistributed, though
  `main/fingerprint_engine.h:73-74` says it is.
- The published alert flags are the latches; `main/fingerprint_engine.h:141-142`
  defines them as comparisons of the score.
- `/status` reads six modules one by one, so its fields may belong to different
  heartbeats.

The mDNS responder and its service task:

- `restart_all_pcbs_no_instance` clears what a pcb was probing for, so that a change of
  the default instance name drops another service's probing, which is then announced
  unprobed; a service added while another is announced takes its announcement's place.
- The collision tests of SRV and TXT compare with, and rename, the *first* service of
  the type, and a prober with the higher address takes a host name from its owner.
  Two hosts whose ports and addresses are ordered against each other rename each
  other again and again.
- A packet is marked as handed over before the push succeeds and unmarked when it
  fails; when the head's push fails and a later packet's succeeds, the later one is
  skipped when it comes up and stays marked, at the head, for ever
  (`mdns/mdns_send.c:1728-1744`, `1837-1848`).  `TxQueueInv` is stated for when no push failed.
- `remove_scheduled_service_packets` removes the first question of the type, not that
  of the service (`mdns/mdns_send.c:1796-1815`, comment at 1776).  Of two services of a
  type that are both probed for, removing the one asked for second takes out the other's
  question, so that the probe asks for the removed one instead; and since a question
  points to the strings of its service (`mdns/mdns_send.c:1412-1416`), which
  `free_service` frees (`mdns/mdns_responder.c:406-423`), these are used after that: when
  the probe is sent, and by the comparison of the next removal.  A question for a host
  name of a removed service stays in the same way.  `mdns/CHANGELOG.md:628` lists
  "fix possible crash when packet scheduled to transmit contained service which might
  have been already removed" as done.  `NoDanglingService` and `ProbesAlone` say where such
  questions are; `MdnsService` sets `undefined` where one is used.
- `mdns_service_instance_name_set` does not look for a service that has the name
  already, and says no goodbye for a service that had no name of its own
  (`mdns/mdns_responder.c:1424`); goodbyes are said by running pcbs only.
- One semaphore, `action_sema`, is shared by all callers that wait for an action
  (`mdns/mdns_responder.c:533, 547, 617, 666`): two tasks may wake each other.
- `mdns_service_txt_set_for_host` returns with the lock held when it runs out of memory
  (`mdns/mdns_responder.c:1025`); `mdns_unregister_netif` takes the lock a second time
  instead of giving it back (`mdns/mdns_netif.c:456`).
- A network event that finds the queue full is dropped and its poster told `ESP_OK`
  (`mdns/mdns_netif.c:175`).
- `append_host_list` skips the first delegated host (`mdns/mdns_send.c:367-383`), and the
  delay of a reply is decided by its last question alone.

The mDNS querier and browser:

- A browse may be deleted between a response and the notice that the response posts:
  the notifier of a freed browse is called, though `mdns/include/mdns.h:126-127` promises a
  live node.  `MdnsClient` sets `undefined` there.
- A notice that finds the queue full is lost (`mdns/mdns_browser.c:794-811`), and so is
  that of a packet with a later record that cannot be read
  (`mdns/mdns_receive.c:769-786`, freed at `1276-1316`), while the change stays in the cache:
  the application is not told of it until that instance changes again.
  `BrowseInStep` leaves out these instances until then.
- `search_result` and `browse_result` are not reset for a record that is our own
  (`mdns/mdns_receive.c:805-817`), so that a null instance name is compared later on
  (`mdns/mdns_receive.c:844-851`).  `MdnsClient` sets `undefined` there as well.  And an address
  of our own host is given to the search of the record before, whatever it asks for
  (`mdns/mdns_receive.c:1125-1132`, `1191-1198`): a query for a host's address may return one of
  ours.  `AddressesBelong` allows that and no more.
- A PTR search that is full ends the handling of SRV and TXT records before a browse
  sees them (`mdns/mdns_receive.c:942-947`); a browse takes PTRs away from a query of its
  type (`mdns/mdns_receive.c:862-873`); a host that advertises a type finds no others of it.
- A first TXT whose TTL is the one known already, and a port that changes with the host
  unchanged, are not notified (`mdns/mdns_browser.c:592-650`, `725-745`); the addresses of a
  host that is replaced stay.
- A second `mdns_browse_new` of a service drops its notifier without a word
  (`mdns/mdns_browser.c:188-214`).
- `max_results` of 256 is cut to 0, which means no limit, and `started_at + timeout` may
  overflow 32 bits (`mdns/mdns_querier.c:176`).

## 7. Not modelled

- **Dashboard page and JSON text** (`main/dashboard_server.c` but for its reads): text.
- **Monitor WiFi event handlers** (`main/wifi_manager.c`): they reconnect at once and for
  ever around a driver; of the module, its place in the boot order and `mdns_start` are
  modelled.
- **Datagram parsing, serial output, LED** (`main/udp_receiver.c`): a missing field
  reads as zero and every datagram counts as a heartbeat; the models start from the
  parsed fields.
- **The arithmetic of statistics** (Welford's window, Pearson's r, variances in
  single precision): planned over integers where it can be exact; rounding is out
  of reach.
- **mDNS bytes and names**: the encoding of packets, the compression and reading of
  names, the limit of a packet's length.
- **mDNS start and stop**: `mdns_free`, the stopping of the task, the registration of
  custom interfaces.  The monitor never stops it.
- **mDNS allocation failures**, the conflicts of delegated hosts, the contents of the
  questions a search sends, a result's ageing by sources on several interfaces.
- **mDNS console, debug output and memory wrappers**: a command line the monitor does
  not register, logging, and calls passed on.
- **mDNS over sockets** (`mdns/mdns_networking_socket.c`): not built for the ESP32 unless
  configured.

## 8. Plan

The order was: the alert log and the guard, which every other module uses; the
watchdog, the statistics and the sessions, where time matters; the detectors
together; the tasks together; the camera's viewers; the mDNS library from its packets
up to the monitor's names on the network; the proofs of what the runs check of the
monitor.  What is left, in order, with what each step adds:

1. `CameraLink`: the heartbeat service's socket and period, the reconnect timer and
   counter; composed with `StatsEngine` in place of its `Send` and `Reconnect`, and with
   `CameraServer` through the telemetry it sends.
2. `RollingWindow`: adding and evicting over integers, checked against the mean and
   variance of the window's contents; the baseline that goes on rolling; the value
   an average is seeded with.
3. The fingerprint's component scorers: which module's z-scores enter which
   sub-score, on top of `Detectors` and `SessionTracker`.
4. Proofs: `CacheAgrees` of `MdnsService`, which relates what a neighbour has heard to what
   the server holds, and `ClaimsInv` of `MdnsConflict`.

## Running

In this directory, for a configuration `X.cfg` of module `M`:

    tlc -config X.cfg M
    tlapm AlertManagerProofs.tla

`PROJECT.json` lists every run with its module and configuration, the map from
definitions to source lines, the hazards, the findings and the theorems.
