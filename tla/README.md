# StressScan-Sim: a TLA+ verification project

StressScan-Sim is a simulated wafer-stress metrology tool in C++17. An operator
panel, a command line and a remote host (HSMS / SECS-II / GEM) drive one
machine: a stage and a laser scan a wafer line by line, an analysis pipeline
turns the lines into a curvature and a stress, and results, events and alarms go
back to the operator and to the host.

This directory holds models of the parts of that program that are hard to test,
the TLC runs that check them on small instances, and TLAPS proofs of the
properties that matter most. `PROJECT.json` lists every component, run, mutant,
source line, finding, hazard and theorem; this file explains them.

## 1. The system

### 1.1 Parts

| Part | Source | State | Operations |
|---|---|---|---|
| Process state machine | `core/process_state_machine` | process state, stop-after-wafer flag | `apply(trigger, guards)` |
| Controller | `core/controller`, `core/machine_api` | control mode, wafer id, alarm flag, inbox of work items | Start, Stop, Abort, ClearAlarm, SetControlMode; scan-complete, result, fault and stage-stopped notifications |
| Scan thread | `hw/scan_thread`, `hw/fault_injector` | line and point, abort flag | start, request_abort, join, one loop step per point, block push, completion callbacks |
| Machine runtime | `machine/machine_runtime` | sample queue, job queue, worker, driver | construct, worker loop, process wafer, discard, shutdown |
| Sample queue | `core/spsc_ring_queue` | ring, two indices and their cached copies, waiting flags | push, pop, close, size |
| Bounded queue | `core/queue` | deque, closed flag | push, pop, close |
| Event bus | `core/event_bus` | subscriber lists, calls in flight | subscribe, unsubscribe, publish |
| Alarm manager | `core/alarms` | table of active alarms | set, clear, clear_all |
| HSMS session | `secsgem/hsms/session`, `connection_state`, `timers` | connection state, T3/T6/T7/T8, open transactions, linktest | connect, disconnect, bytes, tick, send request, send reply |
| HSMS server | `secsgem/hsms/server` | socket, write queue, generation | accept, read, write, tick, post, stop |
| Frame decoder and codec | `secsgem/hsms/frame*`, `secsgem/secs2` | partial buffer | feed, encode, decode |
| GEM service | `secsgem/gem` | communication state, open requests, preferred mode | events, alarms, host messages, remote commands |
| Analysis | `analysis` | none (pure), plus the fit pool | pipeline, gates, fit pool |
| Host simulator | `host_sim` | received messages, system bytes | script commands |
| Panel and command line | `app_qt`, `app_cli` | commands in flight | buttons, refresh, close, run once, serve |
| Logger, configuration, writers, simulated hardware | `core/logger`, `core/config`, `analysis/writers`, `hw` | files, queue of lines | log, parse, write |

### 1.2 Threads and how they interact

* The **controller thread** owns the process state machine. Everyone else posts a
  closure to its inbox (`BoundedQueue`, 256, blocking) and, for a command or a
  notification, waits for the answer.
* The **scan thread** exists during one scan. It pushes one block per line to the
  sample queue, raises and clears `ScanStall` by itself, and at its end either
  reports completion (waiting for the controller) and queues a *process wafer*
  job, or queues a *discard* job if it was aborted.
* The **processing worker** pops jobs. It discards the blocks of an aborted scan
  and reports the stage stopped, or pops the lines of a wafer, analyses them,
  reports the result (waiting for the controller) and publishes it.
* The **I/O thread** runs the HSMS session and the GEM service. A remote command
  runs on it and waits for the controller.
* The **owner thread** constructs and destroys the runtime; destruction closes
  and joins everything in a fixed order.

### 1.3 What makes it hard

An Abort may be handled between any two steps of the scan thread and of the
worker. The controller waits for the scan thread (it joins the previous one
inside Start) while the scan thread waits for the controller. Shutdown closes
queues under threads that use them. The Alarm state, the flag that guards Start
and the alarm table are separate copies of one fact. Host commands, timers and
link losses arrive in any order.

### 1.4 What should be true

* Controller: the copies of the alarm fact agree; nothing runs without a wafer.
* Runtime: a wafer is analysed from exactly its own lines; every run has exactly
  one end; after an accepted Abort nothing of the run is reported as a result;
  between runs every queue is empty; every waiting caller is answered; shutdown
  terminates.
* The runtime as a whole looks like a sequential machine (`MachineLifecycle`).
* Queues: items come out once, in order; nobody sleeps for ever.
* Session: timers run exactly in the states that need them; system bytes are
  unique among what is open; nothing survives a lost link.

## 2. Modules at a glance

| Module | Models | Checked by |
|---|---|---|
| `ProcessFsm`, `Controller` | the process state machine and the controller's handlers | `ControllerProofs`; used by the next two |
| `MachineRuntime`, `MachineLifecycle` | controller, scan thread, worker and owner together, and the sequential machine they implement | `machine_runtime`, `machine_liveness`, `join_not_short`, `ControllerProofs`, `MachineRuntimeProofs` |
| `Panel` | the operator panel on the machine it builds | `panel`, `PanelProofs` |
| `SpscRing`, `BoundedFifo` | the lock-free sample queue, and what a queue promises | `spsc_ring`, `SpscRingProofs` |
| `BoundedQueue`, `FitPool` | the blocking queue and the pool that uses it | `fit_pool`, `FitPoolProofs` |
| `Pipeline` | the pipeline on the pool, for any filter and fit | `fit_pool`, `FitPoolProofs` |
| `Analysis`, `WaferResult` | filters, fit, gates and map on small integers; what the pipeline makes of a wafer with them | `fit_pool` |
| `EventBus`, `AlarmManager` | subscriptions, announcements, the alarm table | `alarm_bus`, `AlarmManagerProofs` |
| `HsmsSession` | one host connection: state, timers, transactions | `hsms_session`, `HsmsSessionProofs` |
| `GemService`, `HsmsServer` | the I/O thread: completions, posted work, the GEM service | `hsms_server`, `stale_online_mode`, `HsmsSessionProofs`, `HsmsServerProofs` |
| `Secs2`, `FrameDecoder`, `GemMessages`, `Wire` | items, frames and messages as bytes; one connection cut into reads | `wire` |
| `HostPattern`, `HostScript`, `HostSim` | the host simulator: its script language and its runner | `host_sim` |

The modules are layered by `EXTENDS`: `Controller` under `MachineRuntime` and
`Panel`; `BoundedQueue`, `FitPool` and `Pipeline`, with `Analysis` beside it, under
`WaferResult`; `EventBus` under `AlarmManager`; `HsmsSession` and `GemService` under `HsmsServer`; `Secs2`,
`FrameDecoder`, `GemMessages` and `HostPattern` under `Wire` and `HostSim`. An `MC`
module gives values to constants that a `.cfg` cannot write.

## 3. Modules

### `ProcessFsm`

Pure operators. `Apply(state, stop_after_wafer, trigger, guards)` is
`ProcessStateMachine::apply`: the verdict (accepted or a reason code), the next
state and the next stop flag.

### `Controller`

One action per handler, atomic because each is one closure run by the controller
thread. The variables are the members of `Controller` and of the state machine
inside it, and the alarm table. A handler's call to
`transition` is the operator `Transition`; events published are left to
`MachineRuntime`, which needs them.

### `MachineRuntime`

Extends `Controller` and runs its handlers inside the threads.

| Variable | Code |
|---|---|
| `inbox`, `inbox_closed` | `Controller::inbox_` |
| `waiting` | callers blocked on a `std::future` in `run_on_controller_thread` |
| `ctl` | where the controller thread is: between items, inside Start (about to join and start the scan thread), inside Abort (about to request the abort) |
| `abort_requested`, `scan` | `ScanThread::abort_` and the thread's position |
| `samples`, `jobs` (and their closed flags) | `sample_queue_`, `jobs_` |
| `worker` | the processing worker's position, its wafer, its lines and its verdict |
| `owner` | the owner's position in `shutdown` |
| `run`, `aborts`, `announced` | history: runs started, runs whose Abort was accepted, what was published for each |

A thread yields wherever another thread can see the difference: at each queue
operation, atomic flag, wait for a future and read of the process state. A block
is `[run, line]`: heights are irrelevant to every property. The analysis picks
any verdict (clean, out of specification, or a quality alarm).

### `MachineLifecycle`

What a host may assume: Start begins the only run; a run ends once, by being
completed, aborted or failed; only a completed run delivers a result.
`MachineRuntime` implements it under `phase <- state`.

### `SpscRing` and `BoundedFifo`

`BoundedFifo` is what a queue promises: items come out once, in order, and an end
is seen only after everything accepted was taken. `SpscRing` is
`core/spsc_ring_queue.hpp`, one access to shared memory per step: the indices and
their cached copies, the slots, the waiting flags, the mutex and both condition
variables. Indices count modulo `IndexModulus`, so the wrap happens. It implements
`BoundedFifo` with the slots between `tail` and `head` as the queue.

### `BoundedQueue` and `FitPool`

`BoundedQueue` is `core/queue.hpp`: a step is one critical section, or one
notification, which the code sends after unlocking. Spurious wake-ups happen.
`FitPool` adds the workers and `for_each_index()`, whose counter, mutex and
condition variable live on the caller's stack: the hazard is a job that touches
them after the call has returned.

### `Pipeline`, `Analysis` and `WaferResult`

`Analysis` holds the pure functions of `analysis/`: edge exclusion, outlier
rejection with its sorted sliding window (one value leaves, one enters), the
parabola by Cramer's rule, the mean of the lines, the quality gates, the alarm a
wafer raises and the rays around each direction of the map. Heights, positions and
angles are small integers; halves and quotients are kept as numerator and
denominator, so that every comparison the code makes is exact.
`StraightforwardRejection` is the reference: each window sorted anew.

`Pipeline` is `run_pipeline()` on the pool: a call that filters every line, a call
that fits every line, then the serial rest. A job writes its line's place and reads
what the first call left. What filtering and fitting make of a line are the parameters
`Filter` and `Fit`; the tables `Filters` and `Fits` compute each distinct line once,
since TLC would otherwise evaluate them in every state. `WaferResult` puts the two
together: the run gives `Filter` the two filters of `Analysis` in their order
(`FilterLine`) and `Fit` its `fit_line`, and `Result` is what `run_pipeline()` and
`process_wafer()` make of the flags and fits.

### `EventBus` and `AlarmManager`

`publish()` copies the subscriber list under the lock and calls each handler
outside it; `unsubscribe()` takes the subscriber off the list and waits until no
thread is inside its handler. `AlarmManager` publishes on that bus: the table
changes under its lock and the announcement follows after it.

### `HsmsSession`

`secsgem/hsms/session`. One action per call of the session, except `on_bytes()`,
which is one action per frame (`handle_frame`, with one operator per case of the
switch), so that a read may hold any frames. A timer is the time it has left:
0 when expired, `Stopped` when not running; `Elapse` passes one unit of time.
`allocate_system_bytes()` is `Allocates`: the first free number from the counter
on, modulo `SystemModulus`.

### `GemService` and `HsmsServer`

`HsmsServer` composes the session and the service on the I/O thread.

| Variable | Code |
|---|---|
| `ready` | handlers the io_context will run, in order: completed reads and posted requests, replies and tasks |
| `reads`, `writes` | operations in flight, by the `generation` they captured: the reads as a set, the writes counted |
| `socket`, `generation`, `write_queue`, `writing`, `notified_state` | the members of `HsmsServer::Impl`; the queue holds, for each frame, the connection it belongs to |
| `io` | the thread's place inside a handler |
| `comm_`, `open_requests_`, `preferred_online_mode_` | the members of `GemService` |
| `control_mode`, `operator_mode` | the controller's mode; history: the online mode the operator last chose |

A completed read queues behind the work already posted. Handlers of accepts,
writes and ticks may run between any two others, which is more than asio's queue
allows. `stop()` is a task that can be posted at any moment, so it may run
between any two handlers. Host messages are told apart by what the service does
with them; status queries and remote commands only answer here, their effect on
the machine is `MachineRuntime`'s host.

S1F17 is one step although the service looks at the mode and then asks the controller
to change it. Every change of the mode is a handler of the controller thread, which
refuses a host's online mode unless the mode is Offline, so an operator who switches in
between only changes the code of the answer, and codes are not followed here. The
operator's own switch is one step for the same reason: storing the mode, publishing it
and posting the event's work are one handler of that thread.

### `Panel`

The operator panel of `app_qt` on the machine it builds. The controller's work
changes its state at once (`Controller`'s handlers) but is *seen* step by step:
`steps` holds, in the code's order, the stores to the atomics that other threads
read, the events and the answer of one piece of work.

| Variable | Code |
|---|---|
| `live` | `state_`, `control_mode_`, `has_active_alarm_` as other threads read them |
| `posts` | the queued connections of the GUI thread, across machines |
| `calls`, `in_flight_` | commands on pool threads, and the window's count of them |
| `gui` | where `refresh()` is: it reads the snapshot value by value |
| `panel`, `banner`, `view`, `dialog` | enabled buttons, menu and labels; alarm banner; wafer, numbers and map; a modal dialog |
| `runtime_`, `unpublished`, `stalled` | which machine exists; what the processing thread has still to publish; a scan stall |

`rebuild()` destroys bridge and machine and makes new ones, or none; what the old
bridge queued stays in the queue. A click is only possible on an enabled button
outside a dialog, and the dialog's own loop goes on with the queue.

### `Secs2`, `FrameDecoder`, `GemMessages`, `Wire`

Bytes are numbers 0..255 and every conversion is the code's: the item header with
one to three length bytes, big-endian elements of each format, nested lists with
their depth limit, the ten-byte frame header, the decoder's buffer and its sticky
error, the builders and parsers of every SxFy the program knows, and the catalogue
that says which messages a side takes. `Wire` puts a conversation on a stream, lets
the network cut it anywhere, and decodes it again; `on_data` is what the machine
makes of each data frame, refusals (S9) and remote-command parameters included. The
machine sends nothing larger than `comm.max_frame_bytes` (`queue_data`); the host knows
no limit (`do_send`).

### `HostPattern`, `HostScript`, `HostSim`

The host simulator. A script line is a sequence of tokens (where a word ends is left
out); `parse_script` and `parse_pattern` are the recursive parsers with all their
errors. `HostSim` is `Runner` over `HostClient`: one action per command, and for the
commands that wait one per start, match, pause, end and read. The machine is
external: it may send any frame of the scenario, close, reset or refuse, and it reads
what the host writes.

## 4. Runs

| Run | Shows |
|---|---|
| `machine_runtime` | Safety of all interleavings of two runs with an operator and a host, every command, stalls, alarms and shutdown; refinement of `MachineLifecycle`. |
| `machine_liveness` | Runs end and aborts come to rest, completed wafers are written, commands are answered, shutdown ends. |
| `join_not_short` (violation) | The worker's second look at the process state may see a later run's; as a consequence the controller joins a scan thread that still scans. |
| `spsc_ring` | No slot is shared, no wake-up is lost, nothing pushed is uncounted, the ring implements `BoundedFifo`, and pushes, pops and closing end. |
| `fit_pool` | However the lines of a wafer are scheduled, the result is that of the reference definitions; `for_each_index()` returns after all its jobs and no job touches its frame afterwards; the queue implements `BoundedFifo`; destruction ends. |
| `alarm_bus` | Every alarm transition is announced once, a removed handler never runs again, unsubscribing returns. |
| `panel` | Once the queue is empty the panel agrees with the machine; a completed wafer is the one shown; no machine is replaced under a command. |
| `hsms_session` | Exactly the timers of the state run, open numbers differ across the wrap, T7 and T3 are inescapable. |
| `hsms_server` | One read and one write per connection, nothing meant for one host reaches the next, every open request is known to the service. |
| `stale_online_mode` (violation) | S1F17 may bring the machine back to a mode the operator has since left. |
| `wire` | What was written is what is read, wherever the bytes are cut; bad lengths are caught at once; what decodes can be encoded; the host can read every answer and report, except a status answer too large for a frame, which is not sent. |
| `host_sim` | What a script says is what is sent, once, in order and under numbers of its own; a step passes only on evidence, and no message is evidence for two; unwanted messages stay queued in order; every request of the machine is answered once; the simulator ends. |

### Other disagreements between comments and code

These were met while modelling and are not runs of their own:

* `process_state_machine.hpp:60` confines the stop-after-wafer flag to Scanning;
  `process_state_machine.cpp:72` lets it outlive that state.
* `controller.hpp:83-84` says a fault is recorded; `controller.cpp:210` leaves no
  trace of a rejected one.
* `controller.cpp:194` publishes `WaferOutOfSpec` before the transition that may be
  refused, so it is published for an aborted wafer as well, whose result
  `machine_runtime.cpp:343-344` calls discarded (`docs/PRD.md:259` ties the event to
  a result that is ready).
* `scan_thread.cpp:169` raises `QueueOverflow` when a blocking queue is closed at
  shutdown, against `docs/PRD.md:722`.
* The second look of `join_not_short` can also discard blocks of a later run
  (against `machine_runtime.cpp:197-198`) and drop the outputs of a completed
  wafer (against `docs/PRD.md:260`).
* `event_bus.hpp:6-7` promises that a handler is not running once `unsubscribe()`
  has returned; a second `unsubscribe()` of the same id returns at once.
* Select, S1F13 and Deselect in one read leave the GEM service communicating without
  a selection: `server.cpp:102` compares the state after the whole read, against
  `handler.hpp:27-28` ("The connection state changed (a host connected, selected,
  deselected or went away)").
* `frame_decoder.cpp:35-43` drops the frames completed in the same `feed()` as a bad
  length; `frame_decoder.hpp:30-31` says "every frame they completed".
* `wafer_map.cpp:67-84`: in a direction at or below the first ray the span is
  negative, so the cell takes the last ray's height, against
  `wafer_map.hpp:4` ("interpolation between adjacent scan lines").
  `ResultIsReference` states the interpolation for the other directions.
* The result and map of a wafer are published after the controller is ready for the
  next one (`machine_runtime.cpp:340-370`), so they may appear under the next wafer's
  label, against `main_window.cpp:183-184`. Without a further Start the last result ends
  under its own label (`ResultIsShown`).
* `machine_runtime.hpp:87-88` says that `next_wafer_id()` "advances when a scan actually
  starts". A Start clicked a second time before the first one's `ScanStarted` was
  published carries the same number, and if it is handled only after that run has ended,
  two wafers have one name. `ResultIsShown` therefore speaks of the run, not of the name:
  `completed` is forgotten when a Start is accepted.
* `main_window.cpp:160` says `rebuild()` is only called while Idle; a dialog opened
  while Idle may end while the machine scans, and the menu is open in Alarm.
* A bare `*` as the first element of a list pattern is read as the wildcard of the
  list and then refused, against `docs/scenario-format.md:71-72`.
* A record logged after the logger's queue is closed is neither written nor counted
  (`logger.hpp:11-12`).

### Bounds

*Runtime.* `MaxRuns` = 2 (3 where a later run is needed): two runs are needed to
see leftovers of one in the next. `Lines` = 2 and `Points` = 1: a wafer with a
first and a last line, an abort test before each. `SampleCapacity` is lines + 1,
`JobCapacity` 8 and `InboxCapacity` 256, as in the code. One operator and one
host: both kinds of command source. The liveness run leaves out Stop and the mode
commands, which start no thread and wait for none.

`Pipelined` separates two regimes. With `FALSE` no Start is submitted while the
worker is between its result and its second look at the state. With `TRUE` it may
be; that is the window of `join_not_short`. The other safety properties are
checked in the first regime, since in the second they fail as consequences of the
same defect.

*Queues and pool.* The ring has 4 slots of which 3 are used (the code rounds up to
a power of two), indices modulo 4, four pushes: it fills, empties and wraps. The
pool has two workers, a queue of one job and the two calls of `run_pipeline()` of up
to three lines, so that the caller blocks, and the second call meets workers left over
from the first.

*Analysis.* Lines of seven samples, of which five are inside the edge exclusion, with
heights from three values or gaps, all of them up to mirror images as wafers of one
line; wafers of no, two and three lines. A window of two samples to each side is cut
off at both ends and complete in the middle, with equal values, even and odd sizes.
The limits are such that every gate and every alarm occurs.

*Panel.* Two commands, one replaced machine and at most three queued events
(`MaxPosts`: the machine waits beyond that; commands' reports do not), so that an event
of one machine meets the next, and a command a rebuild.

*Wire.* Every format empty, with one and with two elements at the edges of its range;
lists nested up to the limit (6 here, 32 in the code) and beyond; bodies with one and
two length bytes; raw bytes with bad lengths; frames up to 300 bytes and a message of the
host beyond that; status requests whose answer just fits a frame and just does not. The
bytes of every
conversation, up to three messages long, are cut at every place. TLC's integers have 32 bits, so 4- and
8-byte elements lie between -2^31 and 2^31 - 1.

*Host simulator.* Short scripts that between them use every command with every option
it takes, and texts that are no script. Scripts of three sends pair the W-bit left to the
function, `W` and `nowait` in every way, with the default and with given devices and with
odd and even functions; two further scripts send between waits for replies, events and alarms, on one
and on two connections. The machine sends up to three frames; expect-status asks at most
twice (`MaxAsks`; the code asks every 200 ms until its time is over). Time is not counted:
a wait may end whenever nothing matches.

*Alarms.* Two alarms, two users and the owner, three calls, one subscriber from
the start and one added later.

*Session.* Every duration is one unit, so each timer can be running or expired
independently. Five system bytes, two open requests and a linktest: the counter
wraps past numbers in use. `MaxFrames` = 1 bounds what one read sends and
delivers; further frames come in further reads, which may follow at once.

*Server.* `MaxConnections` = 2: late completions of one meet the next.
`MaxBacklog` = 2 stands for queues the code does not bound: a reply waits while a
read of the next connection completes. Durations are 0: a tick finds every running
timer expired, and ticks come at any time, so every expiry meets every
interleaving; timers that expire at different times are the session run's. The
host sends no linktest answer here, for the same reason. `stale_online_mode` lets
the operator use every mode.

### Fairness

*Runtime.* Weak fairness for the controller, scan and worker threads: each is an
operating system thread that only blocks on its own guards. Strong fairness for
the owner's shutdown calls: stopping the server posts a closure to the I/O
thread's first-in first-out queue, so a host cannot keep the I/O thread busy for
ever in front of it. No fairness for commands: nobody has to press a button.

*Ring.* Strong fairness for each thread's steps: one that waits for the mutex gets
it in the end although a sleeper may wake and lock it again and again. Nobody has
to push or close.

*Pool and bus.* Weak fairness for each thread's own steps; none for spurious
wake-ups and for new calls.

*Host simulator.* Weak fairness for its only thread: every read has a deadline, and a
write returns because the machine at the other end reads. A machine that stops reading
is outside `HostEnds`: `asio::write` (`host_client.cpp:63`) has no deadline. No fairness
for what the machine sends.

*Session.* A read has finitely many frames (weak fairness for the end of a read).
The tick and the passing of time are strongly fair: the server's timer re-arms
itself after every tick and its handler waits behind finitely many others.

## 5. Proofs

All proofs are for every value of the constants that satisfies the named
assumptions.

### Controller and machine

`ControllerProofs` first takes the controller alone and proves `ControllerTypeCorrect` and
`RunAlwaysHasWafer`, for any order of its handlers and of `AlarmTableChanges`, the changes
other threads make to the alarm table. The invariant `ControllerInv` is the conjunction of
the two. The proof has a lemma for `Apply` (types, and which states follow which), one for
handlers that change neither the alarm copies nor the wafer, and one per remaining handler.

The same module then turns to `MachineRuntime` and proves `ShutdownLeavesNobody`
(`NoOrphanedCaller`) under `RuntimeAssumption` alone. Its invariant `CallsInv` says that
a thread has at most one call in the inbox or at the controller, and waits while it
has (`OneCallEach`), that a call matches the position of its thread (`CallsMatchThreads`), and what each
stage of the shutdown has left behind (`ShutdownInOrder`): the inbox is closed only
after everyone who could post to it has been joined.

`AlarmCopiesAlwaysAgree` is about the composed machine too, pipelined Starts included: the
Alarm state, the flag that guards Start and the quality alarms in the table come and go
together; `ScanStall` is in the table only while the scan thread stalls, `QueueOverflow`
only after the queue was closed. With the state's type the agreement is inductive
(`AlarmInv`), since the table says which alarms are the scan thread's own; `CallsInv` gives
the types of that thread. No run lists this invariant; TLC checked it with and without
pipelined Starts before it was proved.

`MachineRuntimeProofs` proves what the composed machine guarantees, under the premise
`~ Pipelined`: nobody sends a Start between the controller's answer to a result and the
worker's second look at the process state. The premise is needed: `join_not_short` shows
what happens without it. `RunInv` locates the run under way in one place (scan thread,
job queue or worker: `RunInOnePlace`), fixes the controller's state by that place
(`StateFollowsRun`), says that the blocks in the sample queue continue what the worker
has collected (`BlocksInOrder`), that a run under way has announced no end and a run
about to be delivered exactly one (`RunNotEnded`, `ResultsDeliverable`), that a Start is
never behind the result of the wafer before (`StartsBeforeResult`, where the premise is
used), and which alarms may be set outside Alarm (`AlarmsInTime`). None of these is
inductive alone: an Abort may be handled between any two steps of the other threads, and
each of them keeps its part only because the others locate the run. `CallsInv` and
`RunInv` give

* `AlwaysQuietBetweenRuns`, `WaferAlwaysGetsItsOwnLines`, `AbortIsAlwaysFinal` and
  `JoinIsShortUnlessPipelined`, by implication;
* `StartNeverOverlooksAlarm`, the action property `StartSeesNoAlarm`;
* `RuntimeImplementsLifecycle`: every step of every thread is a step of
  `MachineLifecycle` or a stutter of it.

The handlers' lemmas are in `ControllerProofs` and those of the scan thread, the worker
and the owner in `MachineRuntimeProofs`. `RuntimeAssumption` says that capacities, lines
and points are positive, that wafers are numbered, that the threads' names differ, and
that the names of verdicts and of alarms are apart.

### Queues and pool

`SpscRingProofs` proves `WakeupsAreNotLost` for every capacity, ring size, number
of spins and number of items: a side that sleeps although it could go on has a
notification coming. The invariant `WakeInv` adds to the types `Handshake` (who
holds the mutex, and that a waiting flag is up between its two stores) and `Woke`
(a side that found nothing to do, asleep or still holding the mutex, is owed a
notification if that has changed). `Woke` alone is not inductive: the notifier
reads the waiting flag, and skips the notification if it is down.

It also proves `SlotsAreNeverShared`, `NothingIsUncounted` and `RingImplementsFifo`,
for indices that wrap at any multiple of the ring size (`SpscAssumption`). Both sides
decide by an old copy of the other's index, so `RingInv` says on which side those copies
are wrong (`IndexInv`: to the producer the ring looks no emptier, to the consumer no
fuller than it is), which slots therefore hold an item (`SlotInv`, by distance from the
tail, so that a wrap of the index does not matter) and where every item is (`CountInv`).
The abstract channel is read off the slots; each index store is its Send or Receive.

`FitPoolProofs` begins with the queue of the pool and proves `QueueImplementsFifo`: the
blocking queue refines `BoundedFifo` for any threads, any capacity and both policies,
with the deque as the channel. The invariant `QueueInv` adds to the types that a
`push()` which sleeps still brings its item.

It then proves `JobsNeverOutliveCall` for any number of workers, calls, indices
and queue places, under `PoolAssumption`. The property alone is far from inductive: the
last job to count decides that the caller may return, so one has to know where every
other job is. `PoolInv` therefore says that the jobs in the queue have consecutive
indices (one producer, first in first out), that those workers hold are older and
differ (`Transit`), that thread positions in queue and pool agree (`Roles`), and that
what is left to count is what has not run plus what has run and is not counted yet
(`Count`). The proof has one lemma for each way a job moves (enters, sleeps in `push()`,
is taken, runs, is counted), which the lemmas on the actions use.

Its last part carries both results over to `run_pipeline()`: `LinesNeverOutliveCall`
and `JobsPassInOrder` are about the specification the `fit_pool` run checks, for any
wafers. Every step of the pipeline is a step of the pool or leaves it alone.

`ScheduleDoesNotMatter` is the part of `ResultIsReference` that is about threads: the
flags and fits `run_pipeline()` returns are those of one thread that takes the lines one
after the other, whatever `Filter` and `Fit` are, as the comment at `pipeline.cpp:22-24`
says of the result. `DataInv` says that every index that has run has written its line, and
that a call only starts when the one before is complete, which is what `PoolInv` knows of
a call that has returned. What remains to TLC is that the values themselves are those of
the reference definitions.

### Event bus

`AlarmManagerProofs` proves `HandlersQuietAfterUnsubscribe` for any threads, event
types, subscribers and alarms. What `unsubscribe()` waits for is a counter, so the
invariant `BusInv` says what that counter means: `Counted` (it is the number of threads
inside the handler) and `Forbidden` (whoever waits for it to be zero has forbidden new
calls, and a released subscriber is both). Without the second part a publisher could
enter between the wait and the return.

`EachTransitionIsAnnouncedOnce` proves `AnnouncedOnce`. The table changes under one lock,
the list of subscribers is copied under another and the handlers run under none, so the
invariant `AnnounceInv` accounts for what is on its way: `Told` says that what a
subscription has been told plus the threads that owe it an announcement (`Owing`) is at
most what happened, and exactly that for one registered from the start. A thread owes a
subscription at most one announcement of an alarm at a time (`Announcing`: the events it
has still to publish differ, also from the one it is publishing), and whoever has left the
list is on no copy taken later (`Lists`, `OffTheList`).

### Panel

`PanelProofs` proves the three invariants of the `panel` run, as `PanelAgreesWithMachine`
(`PanelFollowsMachine`), `LastResultStays` (`ResultIsShown`) and `NoCommandLosesItsMachine`
(`CommandsKeepMachine`), for any number of commands, of queued events and of machines,
under `PanelAssumption` (wafers are numbered, `ScanStall` is an alarm, no alarm is called
by the text of the empty banner). Besides the types `PanelInv` has four parts:

* `LiveInv`: the copies that other threads read are the controller's values, or a store
  of the missing one is among the controller thread's `steps`; every store there has the
  right value and is followed by an event that ends in `refresh()`.
* `FreshInv`: unless a refresh is on its way (`Due`: such an event is still in `steps`, or
  `machineChanged` is in the queue), what `refresh()` has read so far is what it would
  read now, and between two events the panel shows it. It is this part that makes the
  snapshot's torn reads harmless. `AlarmInv` adds that the last `alarmSet` queued is of an
  active alarm and is followed by a refresh.
* `ResultInv`: after a result was taken, the last of the queued events that change the
  labels, or the map, is the one of that wafer, or it is shown and none is queued.
* `CommandInv`: calls have different numbers and all use the machine that exists, and
  `in_flight_` is the number of calls and of reports in the queue. Hence with `in_flight_`
  at zero there is no call, whatever is queued, and `rebuild()` may replace the machine.

There is one lemma for each action and part; those on sequences say what joins, heads and
tails do to "the last event of these kinds".

### HSMS link

`HsmsSessionProofs` proves `SessionTypeCorrect` and `TimersAlwaysFollowState` under
`SessionAssumption` (durations and bounds are natural numbers and there are more system
bytes than can be open). The timers need `LinkDuringCall` (inside `on_bytes()` there is
a link) to be inductive: without it a Select.req could revive a lost connection whose T7
is stopped. `NumbersAlwaysDiffer`, which needs facts about finite sets, is at the end of
`HsmsServerProofs`; it needs the types and one lemma for all steps that open nothing.

The second half of `HsmsSessionProofs` states the server's invariant `ServerInv` and
what each call into the session does to the state it speaks of; `HsmsServerProofs` has a
lemma per handler and proves `AlwaysOneReadOneWrite`, `MessagesAlwaysStayInConnection`
and `OpenRequestsAlwaysKnown`, under `SessionAssumption` and `ServerAssumption` (the
bounds are natural numbers, the operator's modes are modes). The argument:

* one read: it is in flight, waits completed in `ready`, or is being handled, and these
  exclude each other for the current generation (`ReadUnderWay`); no operation carries a
  later generation, so a new connection starts with none;
* one write: `writing` is the number of writes in flight of this generation, and is down
  with something queued only inside an `apply()` that is about to close
  (`WriteUnderWay`);
* messages: requests and replies carry no check of their own. What was posted for an
  earlier connection is ahead of every read of this one (`StaleWorkFirst`), so it is
  gone, refused by a session that is not selected, before this host can have selected;
* requests: a delivered reply or a reported timeout is of a request that is no longer
  open (`AnswersClosed`), and a request just opened enters the table before the
  handler returns (`RequestsKnown`).

### Only model-checked

Because the proof system does not reach them: all liveness properties (fairness), and
what recursive definitions compute (`Secs2`, `GemMessages`, `HostPattern`, `HostScript`,
the filters of `Analysis`), which would need induction over data. With them go the
invariants of `Wire` and `HostSim`, which use recursive operators, and
`ResultIsReference`, of which `ScheduleDoesNotMatter` is the part without induction.

## 6. What is not modelled

* *Logger* (`core/logger`). A writer thread behind `BoundedQueue` with the drop policy,
  which `QueueImplementsFifo` covers; nothing in the machine reads what it does, and
  records, levels and rotation are text and files.
* *Result writers, text dump* (`analysis/writers`, `secs2/text_dump`). Formatting of
  numbers into files and logs, with no state.
* *Configuration* (`core/config`). A file is read and range-checked once, before any
  thread starts.
* *Simulated hardware* (`hw`). The scan thread is modelled; the simulators behind it
  produce heights, noise and positions, numbers that no property here tells apart. That
  a point stalls, and which alarm an analysis raises, are choices of `MachineRuntime`.
* *Numbers of the analysis.* Rounding of doubles, the uncertainty, Stoney's formula with
  its constants, the anisotropy and the heights of the map's cells. TLC has no reals, and
  a claim about rounding needs another tool.
* *Values in reports.* `Wire` follows the layout of every report, not which value of the
  machine each field held when it was built.
* *Panel.* Progress bar, log view, contents of the dialogs, drawing of the map, and
  closing the window.
* *Host simulator.* Characters of a script line below its tokens, the printed trace, the
  command line's arguments, and a machine that stops reading.
* *Command line* (`app_cli`). Its commands and shutdown are `MachineRuntime`'s operator
  and owner; arguments and printing are left out.
* Creating run directories, opening the port, memory orders weaker than sequential
  consistency (argued in `SpscRing`).
