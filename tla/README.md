# TLA+ models of the Fusion runtimes

Fusion controls show equipment. A **Device Runtime** (motor, video) owns devices
and executes commands; a **Scheduler** runs Shows by submitting commands to
Runtimes over HTTP and following their events over WebSockets; **Setting**
deploys configurations. This directory models the parts of that program in which
order, loss and concurrency matter, checks them with TLC on small instances, and
proves the safety properties with TLAPS for every value of the constants.

Paths below are relative to `src/` (the repository), where `fusion/` stands for
`src/src/fusion/`.

## 1. Inventory

Each Runtime, and the Scheduler, lives in one asyncio loop. Coroutines interleave
only where they really suspend, so the hard behaviours are what may happen
between two suspensions of one coroutine, plus everything that happens between
two processes.

| Component | State | Operations | Talks to |
|---|---|---|---|
| Device Runtime `core/device_runtime.py` | runners, ledger, sessions, config | submit, acquire/renew/release session, stage/apply | adapters, event bus |
| Command ledger `core/ledger.py` | records by command id, ids by request id | begin, advance | Device Runtime |
| Target runner `core/target_runner.py` | `_active`, `execution_generation` per target | submit, `_observe`, `_finish`, bump | adapter, ledger |
| Control sessions `core/control_session.py` | the one active session, its expiry | acquire, renew, release, validate | Device Runtime |
| Configuration `core/config_service.py` | staged revisions, active revision, journal | stage, apply | guard and hook of its owner |
| Event bus `core/event_bus.py` | sequence, replay buffer, subscriber queues | publish, replay, subscribe | WebSocket handlers |
| Server, client `transport/server.py`, `client.py` | one handler per socket; none | routes, `events_ws`; calls, `events` | Runtime; Scheduler, windows |
| Show controller `core/show_controller.py` | state, hold flag, run task | arm, start, hold, abort, `_drive` | Scheduler application |
| Timeline executor `core/timeline_executor.py` | outcomes, done events, pending futures | run, `_run_cue`, `_listen` | Runtime clients |
| Scheduler application `apps/scheduler/runtime.py` | session ids, timeline, config | `_prepare`, `_run`, `_stop_all` | all of the above |
| Trigger engine `core/trigger_engine.py` | last match and last firing per trigger | handle | Show controller |
| Timeline contract `contracts/timeline.py` | none | `validate_timeline` | Scheduler |
| Setting `apps/setting/coordinator.py` | none | deploy | Runtime clients |
| MQTT adapter `transport/mqtt_adapter.py` | connection, backoff, message and status loops | stage/apply requests, status | Runtime, broker |
| MightyZap `plugins/mightyzap_modbus` | last poll, connection | connect, execute, poll, complete? | Modbus session |
| Modbus session, frames `io/serial_session.py`, `modbus_framing.py` | queue, worker thread, futures | read, write, close | serial line |
| Players `simulation/fake_video_player.py`, `apps/video/mpv_adapter.py` | media generation, tasks, `_was_playing` | execute, mpv's callback | event bus |
| Blob store `core/blob_store.py` | files | save, open | disk |
| Input endpoints, framing `io/` | buffers | parse, deliver | trigger engine |
| Windows, bridge `ui/` | widgets | buttons | clients, Scheduler |
| Entry points, telemetry, ids, errors, clocks | none of interest | | |

What makes each of them correct, and what is hard about it:

* **Commands.** One command of the current generation per target; a request id
  is executed once; every command ends once, is announced once, and is credited
  with a completion that was its own. Hard: stops run beside the moves they
  preempt, observers of preempted commands stay alive, sessions change hands and
  configurations are applied while commands are in flight, a Runtime restarts.
* **Events.** A client gets every event of its stream in order, or is told to
  resync. Hard: publication during a replay, a queue that overflows, a client
  that comes back with a cursor of an earlier boot.
* **Configuration.** The journal, the active revision and the commands in flight
  agree. Hard: what runs while an apply happens.
* **Shows.** Cues are submitted after their dependencies, their outcomes are
  true, state and run task agree, runs end, and after a run nothing is left that
  could still submit. Hard: an answer, a second question and an event race;
  answers are lost; an abort meets a cue anywhere; one cue raises, also under an abort.
* **Inputs.** One run per arming, one abort at a time, windows of time kept, and an
  abort input that ends the run. Hard: a handler waits for an abort in the middle
  of its loop and others overtake it; the window's hold button uses its own thread.
* **Deployments.** What is reported as in force was in force; the expected revision
  is the one replaced; the retained status comes to be true. Hard: two ways to
  configure one Runtime, guards that may suspend, lost answers and connections,
  messages the broker keeps.
* **Devices.** An accepted answer is that of the write it is taken for, a stop stays
  behind the move it preempts, every waiter is answered, the display catches up.
  Hard: Modbus RTU has no transaction numbers, and answers may be late.
* **Players.** A play ends once and as itself, a prepare shows its own medium. Hard:
  sleeping tasks of earlier media; mpv reports on its own thread.
* **Blobs.** Only whole files are visible. Hard: uploads of one content side by side,
  cut off, or killed with the process.

## 2. Modules

```
CommandContract   <--refined by--  DeviceRuntime  --INSTANCE-->  ConfigRegister
      ^                                 |
   (INSTANCE)                    DeviceRuntimeProofs
   ShowRun  --refines-->  ShowProtocol  <--refined by--  TriggerEngine
      ^                                                       ^
   MCShowRun  --EXTENDS-->  TimelineContract             MCTriggerEngine
                            (assumption)                      |
                                                           EXTENDS
                                                              v
                                                  InputFraming (assumptions)

   EventStream     Deployment     ModbusMotor     VideoPlayers     BlobStore
```

`DeviceRuntime`, `EventStream`, `ShowRun`, `TriggerEngine`, `ModbusMotor`,
`VideoPlayers`, `Deployment` and `BlobStore` each have a module `...Proofs` that EXTENDS
them and holds their inductive invariant, lemmas and theorems (section 4).

* `CommandContract`: what a Runtime promises the sender of a command: a request
  id goes from unknown to refused, or to pending and then to one final outcome;
  a restart forgets all of it.
* `DeviceRuntime`: the Device Runtime. A command suspends in `adapter.execute`
  (DISPATCHING) and between two polls (OBSERVING); an action is what runs between
  two suspensions. `SubmitRejected` and `SubmitDispatching` are `submit_command`
  with `CommandLedger.begin` and `TargetRunner.submit`; `ExecuteReturns` and
  `ExecuteRaises` the return of `execute` with all that follows until the next
  suspension; `ObserveStarts` (takes the deadline), `ObserveSucceeds`,
  `ObserveExpires`, `ObserveCancels`, `ObserveRaises` the turns of `_observe`;
  `AcquireSession`, `RenewSession`, `LapseSession`, `ReleaseSession` the session
  calls; `StageConfig`, `ApplyConfigRejected`, `ApplyConfigSucceeds` the
  configuration; `Restart` a new process. The device is an environment: `execute`
  may take any time, return or raise, and completion may be reported at any poll
  or never. `owner` and `published` are history variables.
* `ConfigRegister`: staged revisions, active revision and journal, used by
  `DeviceRuntime` through `Config == INSTANCE ConfigRegister`.
* `EventStream`: bus, replay buffer, queues and WebSocket handlers. A handler is
  in phase `replaying` (it has computed its replay and is sending it), `live`
  (subscribed) or `closed`. `cursor`, `covered`, `base`, `replayed`, `live` and
  `past` are history variables.
* `ShowProtocol`: what the Show controller promises whoever watches its state: which
  state follows which in `arm`, `start`, `hold`, `abort` and `_drive`, and when there is a
  run task (`driven`). `RunCancelled` has the transition from STOPPING to FAULTED, noted in
  `overruled`; from then on `Unchecked` allows what `arm`, `_drive` and `abort` assign at
  their ends whatever the state is. `ShowRun` and `TriggerEngine` both implement it
  (`KeepsProtocol` in each), with the state as it is and `driven` as "the task of the last
  run is not over".
* `ShowRun`: Show controller, Scheduler application and Timeline executor. A
  *firing* `<<n, c>>` is cue `c` of run `n`. `cue[f]` is where the coroutine is:
  `waiting` (dependencies, time), `submitting`, `asking` (`get_command`),
  `awaiting` (the future), `done`, `dead` (it raised), `cancelled`. `Runtimes`
  are their control sessions and the command contract, instantiated with firings
  as request ids; `request[f]` is the HTTP request on its way. A request is sent
  at most once and arrives even if its sender was cancelled or its answer lost.
  `task[n]` is the run task of run `n`, `preparing[i]` an `arm` under way, `aborting[k]`,
  `awaited[k]` and `left[k]` an `abort` under way: there may be several of each, because
  each assigns the state at its end. `Abort` is `abort` up to its first suspension, with what
  cancelling the gather does; `ReleaseOne`, `AbortRaises` and `AbortEnds` are `_stop_all` and
  the end. A stream that is `replaying` (`server.py:176-179`) does not get what is published
  meanwhile (`event[f] = "lost"`).
* `TriggerEngine`: `TriggerEngine.handle` in front of the Show controller, whose
  coroutines are reduced here to their first and last step (`ShowRun` has what is
  between). `handler` is the coroutine that has the loop, with the time it read
  when it began; `ConsiderInVain`, `ConsiderAndAct` and `ConsiderAndAbort` are a
  turn of its loop over the triggers, `Resume` its return from an abort. Actions of
  the loop need `LoopIsFree`; `WindowHold`, the two halves of `hold()` on the
  window's thread, does not. An abort is always taken to suspend. `live` and `cancelled` are
  the run tasks, `aborts` the coroutines in `abort` with the run each waits for, `RunEnds`
  the end of a run task, which may be FAULTED also for a cancelled one.
* `InputFraming`: the serial endpoint's buffer and lines, and OSC messages, as
  functions of what was received, compared with what was sent by the assumptions
  `LinesArrive` and `OscRoundTrip`.
* `TimelineContract`: `validate_timeline` with its depth-first search; the
  assumption `ValidIsExecutable` compares it with the existence of an order.
* `ModbusMotor`: the port of a MightyZap (`coming` holds what is in its input
  buffer or on its way), the session's worker thread, the adapter's `connect`, poll
  loop and `execute`, and the runner's commands. A transaction is named by the
  command it belongs to, `"force"` or `"poll"`; `results` is what the thread handed to
  the loop with `call_soon_threadsafe`. `generation` and `stamped` are
  `execution_generation` of the runner and of its records: a control command raises the
  one, and every command takes it over on acceptance, so that a command is stale when its
  stamp is behind. Frames are what the parser tells apart.
* `VideoPlayers`: one adapter or the other (`player`), under a runner that may
  observe a prepare. A medium is known by the generation its prepare gave it. The
  simulated player sleeps in `FakeLoaded` and `FakePlayback`; `MpvIdle` is
  `_on_idle_active` in its two halves on mpv's thread, `MpvOpens` is mpv.
* `Deployment`: `SettingCoordinator`, and the MQTT adapter of one Runtime, in front of
  the `ConfigService` of each Runtime with its lock (`calls`, in the order of the
  lock's queue) and a guard that suspends. `reporting` says that the adapter's status task
  is alive; every publication may raise, with the connection gone or not. The broker is
  external. `committed` notes what came into force and for whom.
* `BlobStore`: `save_stream`, `open_blob` and their clients. A name is the content it
  is the digest of.
* The `MC` modules define the inputs of TLC that a `.cfg` cannot.

## 3. What is checked

Bounds are constants of the modules (`Max...`) and appear in guards only. Deadlock is
not checked anywhere: an idle Runtime, a client without interest and an idle
Scheduler may wait for ever, and the bounds stop them in the end.

`TypeOK` of each module is part of the invariant of its run: of `ControlInv`, `LossInv`,
`ShowInv`, `TriggerInv`, `WriteInv`, `PlayerInv`, `DeploymentInv` and `StoreInv`, each a
conjunction of named parts; so is `LedgerInv`, the other invariant of the Device Runtime.

| Run | Shows | Instance, and why it is enough |
|---|---|---|
| `motor` | runner, ledger and announcements stay consistent under every interleaving | one target, three requests (a stop beside a move and a successor need three), two sessions, generations to 5 |
| `config` | apply against commands in flight; refinement of the contract, with a restart; every accepted command ends | two targets (a guard that forgets one would be seen), two revisions, journal of two, two boots, generations to 4: acquire, a stop that preempts a move, and an apply that succeeds while the observer of the move is alive need all of them |
| `stream` | no silent loss, no duplicate, replay exact; every event arrives or the stream ends, a departed client is unsubscribed | two connections, buffer 2, queues of 2, three events per boot, two boots: both overflow, and the cursor `oldest - 1` and the one below it happen |
| `again` | outcomes true; a Show that runs has its run task; state, run task, arm, abort and sessions agree until an abort is overruled; nothing is left after a run; IDLE means done; the controller's protocol is kept | two cues in a chain, two runs, two sessions and so two armings, one arm at a time, two aborts side by side, one stream that breaks or replays |
| `join` | dependencies first; runs end unless a cue waits for a lost event; armings and aborts end; all small Timelines validated rightly | two Runtimes, three cues, one waiting for two in order, two aborts, one stream that breaks or replays; Timelines of up to three cues |
| `inputs` | one run per arming; a Show that runs has a run task; one abort at a time and the cooldown, until an abort is overruled; the debounce; the controller's protocol is kept; an abort input ends the run; framing | five triggers (start with both windows, hold, abort past a hold that may raise, abort with cooldown, and behind it a hold with debounce for the same input), four inputs, three units of time, two armings, one person who aborts beside the handlers |
| `line` | accepted echoes are true, writes in the order of acceptance, so no move after its stop, every waiter answered, the display catches up | a move and a stop beside force-on and polls, two faults: a late answer needs one fault and the damage it does another |
| `players` | a play ends once, as itself (simulated player), a prepare shows itself (same), a playback ends | three media and three plays, length two: a playback can be replaced by another of its own and of another medium |
| `deploy` | what a deployment reports was done by its own applies, or by none if it was only staged; requests are carried out once; the expected revision is replaced; applies end; the status converges unless its task has died on a standing connection | two Runtimes, two revisions, two deployments, one MQTT request, one break or restart; a second deployment that succeeds everywhere would need four revisions and is beyond the bound |
| `files` | only whole blobs, confirmed ones stay, no temporary file without owner, downloads whole | two uploads and a download, contents of up to two of two chunks, one crash |

In the two other runs the code contradicts a sentence of the repository; TLC finds the
counterexample and `PROJECT.json` quotes the sentence:

| Run | What the code does |
|---|---|
| `early` | a move ends as observed on the poll before its own acknowledgement (`plugins/mightyzap_modbus/adapter.py:177`) |
| `window` | the window's `hold()` on the Qt thread leaves a Show HOLDING that has ended (`ui/scheduler_window.py:151`) |

### Where the models stop short of a claim

The code also does the following. The properties above are stated so as to hold of
it, and a reader should know what they do not say:

* A command preempted while its `execute` runs succeeds if it asked for less than
  observation (`target_runner.py:88`, against its docstring).
* A late release of a replaced session cancels its successor's commands
  (`device_runtime.py:228`).
* What is published while a replay is sent is neither replayed nor queued
  (`server.py:179`); a cursor of an earlier boot that is beyond the new sequence
  connects without a resync (`event_bus.py:92`).
* An abort does not always have the last word (`show_controller.py:91-93` under `:106`).
  When a cue has raised and its gather has not been told yet, while a sibling is still
  alive, `cancel()` goes to the gather; the gather then ends with the cue's exception, the
  run task with it, and `_drive` sets FAULTED while the Show is STOPPING. In the models this
  is `overruled`. A second abort then passes `show_controller.py:102` and runs beside the
  first. Whichever ends first sets IDLE; the other pops the sessions of the first, or of a
  Show armed meanwhile (and one of the two raises `KeyError` out of `abort`,
  `apps/scheduler/runtime.py:141`), and sets IDLE over whatever the state is, a
  running Show included. That Show can then be armed again and started beside its own run,
  against "one active Show at a time" (`show_controller.py:2`), and a trigger may fire
  within its cooldown. `ShowInv`, `TriggerInv`, `TransitionsEnd`, `CooldownHolds` and
  `ShowProtocol` say what holds until then; `RunningIsDriven`, `OutcomeIsTrue`,
  `DependenciesFirst`, `QuietAfterRun`, `SuccessMeansDone`, `RunEnds`, `DebounceIsQuiet` and
  one run per arming hold through it. The runs reach a second abort beside the first, an
  abort that raises and IDLE over a live run; two *live* runs side by side would need a third
  run in `again` or a third arming in `inputs`, which is beyond their bounds: of that only
  the theorems speak.
* A cue that raises leaves its siblings alive, and they may submit after the run
  (`timeline_executor.py:64`). A cue whose stream has ended, or whose completion was
  published while its stream was replaying, waits for ever (`timeline_executor.py:153`,
  `Stuck` of `ShowRun`): `RunEnds` excepts it and nothing else. A failed arming keeps the
  sessions it had (`apps/scheduler/runtime.py:80`).
* mpv: a late callback is announced with the generation of the next medium
  (`mpv_adapter.py:166`), a prepare is complete while the duration of the old file is
  still there (line 133), and, kept open, mpv does not go idle at the natural end of a
  file. `EndedWasPlaying` and `PrepareShowsItsMedium` are stated for the simulated
  player.
* Simulated player: a prepare does not reset the position, and `loop` is ignored.
* A handler that resumes after an abort goes on with the time it had read before
  (`trigger_engine.py:43, 69`). At each trigger behind the abort that its input matches it
  writes that time to `_last_matched_at`, over the later one of a handler that overtook
  it: the next input is then compared with a match that is too old, and may act within the
  debounce window. `DebounceIsQuiet` is therefore stated for triggers without an abort
  trigger before them, and `inputs` has such a trigger; `_last_fired_at` is not affected
  (`CooldownHolds`). The debounce is per trigger where `contracts/trigger.py:42` speaks
  of the source.
* A deployment whose answer is lost is FAILED with its revision in force
  (`coordinator.py:55`). A request its publisher sends twice is executed twice; only
  what the broker repeats is ignored.
* The MQTT adapter's delay is not reset by a connection that was established and then
  lost (`mqtt_adapter.py:138-150`). A status publication that raises while the connection
  survives ends the status task, and nobody looks at it (lines 159-172): until the next
  apply or connection the retained status may be wrong. `StatusConverges` says that there
  is no other way for it to stay wrong.
* A JSON line with a value that is no number, text or boolean ends the serial
  endpoint's thread; the buffer is cut before it is split.
* The temporary file of a killed process is not removed later; a download that breaks
  off leaves part of a file at the client (`client.py:130-137`).

### Fairness

* `DeviceRuntime`: the clock advances, `execute` returns or raises in the end
  (adapters bound their I/O), an observer that wakes up takes its deadline, and
  ends when it is late or stale. No device is assumed to complete anything, no
  client to submit or release.
* `EventStream`: a handler with something to do does it; a send completes or
  fails. Publication, departure and restart are not assumed.
* `ShowRun`: tasks of the loop run, an HTTP call ends (httpx times out), a
  stream that has not broken delivers what was not lost in a replay, a replay ends, a
  Runtime handles what it received and ends what it accepted -- the latter is
  `EveryCommandEnds` of `DeviceRuntime`. Users, other clients, expiry, broken connections
  and replays are not assumed. A coroutine of a cue takes finitely many steps, so fairness
  is asked of all cues together, of all listeners and of all requests.
* `TriggerEngine`: tasks of the loop run, a cancelled run task ends, arm and abort end
  (their HTTP calls time out). Inputs, buttons and the end of a run are not assumed.
* `ModbusMotor`: thread and loop run, a read ends by its timeout, the poll loop wakes
  up. The motor may be blocked for ever.
* `VideoPlayers`: the sleeps of a playback end. `Deployment`: guards end, the lock is
  fair (asyncio's is), the adapter connects again, its message loop runs, and its status
  loop as long as its task lives (it may die at any publication), a client's call times out. `BlobStore` has no liveness.

## 4. What is proved

Every safety invariant and every action property that the passing runs check is also a
theorem, for every value of the constants. The assumptions are those named in the
modules and no others; each says of a constant what the program's types or its
configuration say of the value it stands for: bounds are natural numbers, the sizes of
buffers, queues and the journal are positive (their defaults are 500, 200 and 50 and the
applications do not change them), `None` is none of the values it stands beside. TLC
evaluates them in the runs.

Each proof has the same plan: `IInv` is the inductive invariant, of named parts; one lemma
per part and group of actions shows that a step keeps it; a theorem says that `IInv`
implies the property, or that a step from `IInv` does. `IInv` of each module was checked by
TLC on the instances of section 3 before it was proved.

### DeviceRuntimeProofs

For every set of targets, requests, commands, sessions and revisions. Requests have the
fields of a request; control, normal and undeclared actions differ.

* `TypeCorrect`: `[]TypeOK`, the base of everything else.
* `ControlIsExclusive`: `[]ControlInv`, that is `TypeOK` and `Controlled`.
  `OneCurrentCommand` alone is not
  inductive: a new command takes over `active` without looking for others, so one
  must know that any live command of the current generation *is* `active`
  (`CurrentCommandIsActive`), and that no record has a generation ahead of its
  runner (`NoneAhead`), for otherwise a bump might make an old command current.
  With both, a bump leaves every command of the target behind (`BumpStales`),
  which is what a stop, a handover and an apply rely on; that the current command
  belongs to the session in control (`CurrentCommandIsOwners`) follows the same
  way.
* `OneCurrentCommandAlways`: two live commands of one target and of its current
  generation are both `active`, hence one.
* `LedgerIsConsistent`: request ids and records are in bijection, the completion
  is announced once and last and agrees with the record, the achieved level is
  the requested one. Every step either leaves the ledger alone, opens a record,
  moves one forward, or concludes one; one lemma for each.
* `OutcomesAreFinal`, `ObservationIsOfLatest`, `ApplyLeavesNothingCurrent`:
  action properties that follow from the invariants step by step.
* `JournalAgrees`: the latest success in the journal is the active revision. When the
  journal is full it drops its oldest entry and all others move by one (`RecordAgrees`):
  the latest success is then only dropped when the journal holds no other, so an older one
  never takes its place.
* `RuntimeImplementsContract`: under `result[r] == ResultOf(r)` each step is
  Accept, Refuse, Resolve, Forget or a stutter of `CommandContract`.

### EventStreamProofs

For any number of clients and any positive sizes of buffer and queues.

* `NoLossIsSilent`, `SubscribersMissNothing`, `ReplaysAreExact`, `NothingArrivesTwice`.
  The invariant describes every sequence as a *run* of consecutive numbers with a known
  first: the buffer ends at `sequence` (`BufferIsRecent`), a replay runs from the cursor
  to what it covers, what is sent and what is queued run from the subscription to
  `sequence`. A queue that was cut off is no run any more, only rising and closed by the
  sentinel (`CutOffRises`). Without `covered <= base` (`LiveRises`), `NothingTwice` would
  not survive the subscription after a replay.

### ShowRunProofs

For every Timeline -- any cues, Runtimes and dependencies, also cyclic ones -- and any
number of runs, sessions, broken streams, and arms and aborts side by side. `None` is no
outcome (`NoneAssumption`), and there is a Runtime (`RuntimesAssumption`: without one no cue
could fire).

* `ShowIsWhole`, `OutcomesAreTrue`, `DependenciesComeFirst`, `RunsLeaveNothing`,
  `IdleMeansDone`. `CueIs` says of each coroutine what its place lets it know: what the
  future of a cue was resolved with is what the Runtime says (`payload` and `result`), a
  cue that waits has asked for nothing, and a request that has not been taken has no
  result. `Fresh` adds that the coroutines of a run do not exist before its listeners,
  `RunsCounted` that the runs that were started have a task and no others.
  `RunningIsDriven` is kept by itself, for only `start` sets RUNNING and the run task that
  ends under RUNNING or HOLDING takes the state with it. The rest of the agreement
  (`InOrder`: one live run, one arm, one abort, which awaits the last run; what it has
  listed is still in the dict; the sessions of the last arming) is inductive only as a
  whole, and only until `overruled`: one abort at a time needs STOPPING to last until the
  abort ends, and an overruled abort takes exactly that away. `IInv` is therefore
  `... /\ (overruled \/ InOrder)`, and the cues' part does not depend on it.
* `RuntimesKeepContract`: `ShowRun` implements `CommandContract` with its Runtimes' part.
  Together with `RuntimeImplementsContract`, the Scheduler is proved against no less than
  a Runtime may do.
* `ShowKeepsProtocol`: `ShowRun` implements `ShowProtocol`. The states map to themselves;
  that `Start` finds no live run task is `OneRun`, that `AbortEnds` comes after its end
  `AbortOfRun`; `Close` under STOPPING is `RunCancelled`, and the ends of arms, runs and
  aborts after `overruled` are `Unchecked`. What happens to cues, sessions and streams maps
  to a stutter.

### TriggerEngineProofs

For every list of triggers with natural windows, and any inputs, armings and times.

* `ShowIsControlled`, the invariant of the Show under its inputs, and from it
  `TriggersAreHarmless` and `ShowIsDriven`. `ShowControlled` ties the state to the
  coroutines: a Show that runs has a run task that nobody has cancelled, always; and until
  `overruled`, one arming while PREPARING, one abort exactly while STOPPING, and no run but
  the one that is running or being cancelled (`InOrder`). None of the parts of `InOrder` is
  inductive without the others. The theorems are about `Spec`, in which `hold()` is one
  step; under the specification of `window`, in which it is two, `RunningIsDriven` fails.
* `TriggersKeepProtocol`: `TriggerEngine` implements `ShowProtocol` too. Here a cancelled
  run task takes its time, well or with the exception of a cue (`RunCancelled`), and whoever
  aborts, a handler (`Resume`) or a person, sets the Show to IDLE only when it is over. So `TriggerEngine`, which reduces arming,
  running and aborting to first and last steps, and `ShowRun`, which has what is between,
  are both held to one description of the controller.
* `CooldownIsKept`, `DebounceIsKept` need the order of times (`TimesKept`): a handler that
  does not come from an abort is not older than any match or firing; one that does may be
  older than a match, but, until `overruled`, not than a firing, for nothing fires while the
  Show is STOPPING (`FiringsKept`).
  The proof of `DebounceIsKept` for all triggers failed at exactly that point, which is how
  the exception described in section 3 was found.

### ModbusMotorProofs

For any moves, goals and control commands, and any number of faults. A command is no name
of a transaction of the adapter's own (`MotorAssumption`).

* `AcknowledgedWasCarried`: every echo, in the port's buffer or on its way to the loop, is
  that of a write the motor has carried out (`EchoesAreTrue`), although it may be taken
  for the answer to another transaction: an accepted echo names register and value. It says
  that *such* a write was carried out, not which of two equal ones.
* `PreemptionHolds`: the queue is sorted by the generation its commands were accepted
  with, behind what was carried out (`QueuesAreOrdered`). Stated with the generations of
  the runner instead of with a single stop, it also holds for several control commands.

### VideoPlayersProofs

For media of any length and any number of prepares and plays.

* `PlaysEndOnce`: each play gives one credit and each end takes one. On mpv's thread the
  flag is tested and reset in two steps, and notices wait to be posted, so a credit is
  owed for each notice and one more for the flag *or* the callback that has tested it
  (`CreditIsOwed`), not for both.
* `WhatEndedWasPlaying`, `PreparesShowTheirMedium`: of the simulated player, everything it
  loads, observes or has loaded is of the last generation (`FakeIsAtItsMedium`), and a
  playback of that generation is due.

### DeploymentProofs

For any list of different Runtimes and any bounds.

* `WhatWasExpectedIsReplaced`: an apply that is inside the lock found what it expected
  (`LockIsHeld`), and nobody else is inside until it has ended, however often its guard
  suspends.
* `DeploymentsAreHonest`: the coordinator waits for one apply, at the Runtime whose turn it
  is (`SettingWaits`), so a success it hears is of the revision it staged there; results
  are those of the first Runtimes and were in force for it (`DeployHonest`). That what was
  only staged is untouched (`StagedOnly`) needs that revision ids are never used twice
  (`RevisionsMinted`): a revision is new when it is staged, and the only revision the
  coordinator ever applies is the one of the deployment under way. Each MQTT request is
  carried out once, because only what is not retained is handled (`RequestsOnce`).

### BlobStoreProofs

For any uploads, downloads, chunks and size limit.

* `StoreIsWhole`: the temporary file of a live upload is what has been hashed of it
  (`HashedIsWritten`), so what `replace` makes visible has the name's content.
* `DownloadsAreWhole`: what has been read is a beginning of the content asked for
  (`ReadsWhatIsThere`), also when the same blob is stored again meanwhile, because it is
  replaced by the same content.

### Model-checked only

* Liveness under fairness, which is beyond the prover (as is ENABLED):
  `EveryCommandEnds`, `EventsArrive`, `SubscriptionsEnd`, `ShowEnds`,
  `EveryWaiterAnswered`, `ShownConverges`, `AbortInputEndsRun`, `PlaybackEnds`,
  `AppliesEnd`, `StatusConverges`.
* `TimelineContract` and `InputFraming`, recursive or folds over data: what they compute
  for every input would need induction over data. They are compared with their references
  on small inputs, by assumptions that TLC evaluates.

## 5. Not modelled

* Time as such: expiry and timeouts are counters (`DeviceRuntime`, `TriggerEngine`) or
  choices (`ShowRun`: a cue may be late at any time, a session may lapse at any time).
* Malformed requests, formats, logging. Requests that raise without changing
  anything are stutters.
* In `ShowRun`: a Runtime that restarts in the middle of a Show, and the stop commands
  of an abort (they end commands, which may end anyway).
* In `ModbusMotor`: positions other than the place asked for, ages and the STALE
  quality, the delays between transactions.
* In `Deployment`: kind and content of a revision, the journal, delays between
  connections.
* Persistence: the repository has none for commands, sessions and
  configurations. Its specification asks for a persistent record of change
  requests (docs, section on idempotence); `Restart` and `Forget` say what holds
  instead. Blobs are on disk; a power failure, which may lose what was renamed without
  a sync, is not in `BlobStore`.
* The physical device: what a motor does after its command was cancelled.
* Widgets of the three windows and the command lines of the entry points, which only
  call what is modelled; telemetry, identifiers and error codes, which have no state.

## 6. Plan

1. `ConfigRegister` as what `Deployment` implements at each Runtime, between the halves of
   an apply.
2. `TimelineContract`: soundness of the check for cycles, as far as it can be stated
   without recursion.

## 7. Running

```
tlasany DeviceRuntime.tla
tlc -workers 4 -config DeviceRuntime_motor.cfg MCDeviceRuntime.tla
tlc -workers 4 -config ShowRun_again.cfg MCShowRun.tla
tlc -workers 4 -config ModbusMotor_line.cfg MCModbusMotor.tla
tlapm DeviceRuntimeProofs.tla        # and the other modules ...Proofs
```

Operators marked `(mutant of X: ...)` are plausible mistakes in `X`, kept beside
it: each property is violated when the operator that `PROJECT.json` names for it takes
the place of `X`.
