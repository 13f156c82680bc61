# Formal models of Hearthspace

TLA+ specifications of the parts of Hearthspace that are hard to test: what
several threads, processes and services do to one another between two lines of
code. Each module is translated from the Rust source (paths below are relative
to `src/crates/`), model-checked with TLC on small instances, and, for eight
components, proved with TLAPS for every value of the constants.

`PROJECT.json` holds the details this text leaves out: the lines behind each
definition (`map`), the hazards of the code with the properties that cover them
(`hazards`), what each run shows (`runs`), for each property a plausible bug that
it catches (`mutants`), and the theorems.

## 1. Inventory

Hearthspace is a Wayland desktop: a compositor, a shell, a settings daemon and
application, a lock client, a notification daemon, and a session manager that
starts and watches the others. `C/` below is
`hearthspace-compositor/src/compositor/`.

| Component | State | Operations | Talks to |
| --- | --- | --- | --- |
| Presentation barrier, `C/session_lock/barrier.rs` | active, generation, outputs, those presented, availability | begin, update, invalidate, presented, unlock | session lock |
| Session lock, `C/session_lock.rs`, `session_lock/power.rs` | barrier, owner, pending locker, awaiting locker, sleep latch | lock, unlock, client gone, lock-shield, prepare-sleep, session-resume | lock client (Wayland), backends, control socket |
| Lock surfaces and input isolation, `C/session_lock/{surfaces,input}.rs` | surfaces per output, previous focus | map, commit, focus, restore | input routing |
| Native backend, `C/udev*` | devices, surfaces, published outputs, seat, recovery | hotplug, pause, activate, retry, presenter events, render | libseat, udev, DRM, presenters |
| Presenter threads, `C/udev/presenter/*` | mailbox, schedules, frames in flight, epochs | submit, take, queue, vblank, retire | the event loop (channel), KMS |
| Headless backend, `C/runtime.rs` | one virtual output | render, resume | session lock |
| Power coordinator, `hearthspace-session/src/power/*` | cycle, inhibitors, lid policy, request slot, shutdown gate | poll, sleep signals, Suspend, reboot, power off | logind (D-Bus), compositor (control socket), shell (power socket) |
| Control socket, `C/shell_integration/command_socket*` | connections with deadlines | commands and status | power coordinator, shell, automation |
| Lock client, `hearthspace-lock` | phase, attempt, generation | password, PAM answer, locked, unlocked | compositor, PAM worker |
| Settings daemon, `hearthspace-settingsd` | file, revision, lock file, clients, watches | update, snapshot, watch | other writers, compositor, settings application |
| Settings consumers, `C/settings_watch.rs` | cursor, mailbox, refreshes asked for | watch, refresh, accept | settings daemon, event loop |
| Supervisor, `hearthspace-session/src/supervisor*` | child processes, restart budgets, deadlines | start, monitor, restart, shut down | all processes, session bus |
| App scopes, session bus, `hearthspace-session/src/{app_scopes,session_bus}*` | ownership records on disk, published environment | start, retire, recover after a crash | systemd, D-Bus |
| Notifications, `hearthspace-notifications` | entries, events, identifiers | notify, close, invoke, expire | D-Bus senders, shell |
| Tray, `hearthspace-shell/src/tray` | items, queues of reads, one action | discover, read, act, poll | applications (D-Bus), shell view |
| Device controls, `hearthspace-shell` and `C/shell_integration/device_control.rs` | tokens, queue of requests, measured values | key, slider, adjust, poll | hardware, compositor |
| Launch, `C/shell_integration/launch/*`, `hearthspace-desktop` | pending launches, worker permits | prepare, spawn, time out | event loop timer, worker threads |
| Window groups, `C/window_group*`, `hearthspace-ai` | mailbox with one request, groups | gather, cancel, replace | inference worker |
| Idle tracking, `C/idle.rs` | heap of deadlines, registrations | activity, fire | daemon thread |
| Screen capture, `C/capture*` | requests, staged scenes, encoder places | request, stage, present, encode | presenter, encoder threads |
| Windows, input, canvas, clipboard, XWayland, views, catalogues, wire types | large, mostly sequential | | |

### What is hard, and what makes each part correct

- *Lock.* Frames travel through a presenter thread, KMS and an event channel
  while outputs, the seat and lockers come and go. Correct: a locker is told
  `locked` only when no screen shows the desktop and nothing of it is on its way;
  nobody but that locker opens the session; a crash never does; and the waiting
  locker is eventually answered.
- *Presenters.* Coalescing, epochs and admission race. Correct: what is reported
  as presented is on the screen and of the security state in force; no buffer is
  drawn to while an earlier configuration still uses it.
- *Lock client.* A PAM answer may arrive after its attempt. Correct: only an
  accepted answer to the attempt begun last unlocks, and only a live lock.
- *Power.* An async task with some twenty awaits acts on replies that are already
  old, over two connections that time out or drop. Correct: the machine sleeps
  only with the desktop sealed; no suspend or shutdown is repeated; every request
  is answered; recovery is proved by new frames only; a healthy session is
  reported awake.
- *Settings.* Two daemons, one file, crashes at every write. Correct: updates
  serialise, revisions grow, no watcher sleeps through a change, a refresh is
  acknowledged only with what the file held since.
- *Supervisor.* Correct: bounded restarts, nothing removed while a scope may
  still run, every owned process is reaped whichever step fails.
- *Scopes and environment.* What outlives a process must be found again by
  another one. Correct: no scope outlives the barrier; no application is started
  with the directories of a session that has gone.
- *Notifications, launches, gathers, captures, controls.* A request and its answer
  are seconds apart. Correct: one closing event for each notification; no
  application starts after its launch was reported as failed; an answer that is
  out of date changes nothing; pixels are of the state of the lock in which they
  are sent; everything is answered.

## 2. Modules

```
PresentationBarrier            barrier.rs: pure operators on the barrier record
   |
SessionLock                    LockState, its handlers, the protocol object
   |              \
NativeSession   HeadlessSession      one backend each
   |              |
   +- implement --+--> LockPromise   what the lock promises
                          |      \
              PowerCoordinator   LockClient      rely on it

PresenterState - Presenter     the threads behind NativeSession's frames

SettingsRegister <- implements - SettingsStore         one file, several daemons
        ^---------- reads ------ SettingsWatch         how a change reaches a program

Supervisor                                                         the session's processes
SessionRemains  =  AppScopes + ActivationEnvironment               what a session leaves
Notifications   Tray                                               services on the bus
IdleTracker   WindowGroup   ScreenCapture   PendingLaunch          threads of the compositor
DeviceControls                                                     the shell's
```

`X_proofs` holds the theorems about `X` (`NativeSession_proofs` also those about the barrier
and the headless backend, `CompositorThreads_proofs` those about its five threads and what they
keep together, `Services_proofs` those about the settings file, the notification daemon and the
tray, `Session_proofs` those about the supervisor, the scopes and the environment). An `MC` module adds what only TLC needs:
constants, bounds, scenarios, and several components in one run. Where it has
several, they share no state: a behaviour chooses a *side* in its initial state,
moves that component only, and the states add up instead of multiplying. The
fairness of a resting side asks for nothing: no action it is about is enabled in
the side's initial state, or it is guarded by the side.

### The lock: PresentationBarrier, SessionLock, NativeSession, HeadlessSession, LockPromise

A barrier is a record with the fields of `PresentationBarrier`; each method is an
operator from record to record. `SessionLock` holds `LockState` (`barrier`,
`pending`, `owner`, `awaitingLocker`, `sleepPrepared`), the advertised outputs,
smithay's lock status, and what each lock object (`client`) has been told. One
handler is one action: `LockAccepted` and `LockRefused` (`lock`),
`UnlockAndDestroy`, `Disconnect`, `LockShield`, `PrepareSleep`. Confirmation
(`ConfirmIfPresented`) is part of every handler that calls it in the code, as is
`ReconfigureLockOutputs`.

`NativeSession` is the event loop thread against one presenter thread per GPU. For
each output: `dev` is its device, `scene` whether the presenter holds a scene it
may queue, `kms` the frame queued, `glass` what the screen shows; `events` are
Presented events on their way back. A frame is identified with its *tag*: the lock
generation it was made for, `Desktop` (0) when there was none. `QueueFrame` and
`PageFlip` are the worker's; hotplug (`DeviceAdded`, `DeviceChanged`,
`DeviceRemoved` ...), seat (`PauseSession`, `ActivateSession`,
`ResumeSessionHere` ...), `RecoveryTimer`, `Configured`, `PresenterFailed` and
`PresentedEvent` are handlers of the event loop, and `EventLoopTurn` is the tail
it runs after each batch (render, then security published to the presenters).
Abstractions: one output per device; recovery is unbudgeted and without its
input-source and rescan reasons; `presented_once` is approximated by the barrier's
own `presented`; the worker's and the loop's halves of Configured are one step;
the key and epoch check of `accepts_event` is not applied, so the model accepts
more events than the code (what it proves needs only the lock generation); a
hotplug check followed by a sync that is still queued equals one queued just
before the sync; surfaces, focus, cursors, captures and pacing are left out; the
64-bit generation does not wrap.

In `HeadlessSession` outputs never change and a render is its own presentation.
`LockPromise` is the abstract lock: `phase` (open, shielded, held), `holder`,
`acknowledged`, `sealed`, `latch`, and nothing about frames or outputs.

### PresenterState, Presenter

What `NativeSession` does in one step each (queue, flip) is a worker's turn here:
it reads the mailbox at the start of a turn, before it publishes a configuration,
before it renders and before it queues, and acts on what it has read while the
event loop goes on. `presenter.pc` is where the worker is, `presenter.held` the
control it has read; `mailbox` is the scene to be taken and those it replaced;
`crtc` is `Output` with its `Schedule`; `kernel` is the frame queued, the page flips
not yet read and the screen. The event loop's actions are `Configure`,
`SetSecurity`, `Pause`, `Activate`, `Stop`, `SubmitScene`, `Handle`; the worker's
`Take`, `Check`, `ConfigureOutput`, `Publish`, `Render`, `Submit`, `Queue`, `Vblank`.
`PresenterState` holds the variables and the two properties of them that are
proved. Left out: cursors, captures, empty frames, scenes of uncertain reads,
several outputs on one GPU, and a second page flip without a time.

### LockClient

The lock process against a compositor known by `LockPromise` only: each GTK
callback is a step (`Activate`, `ReceiveLocked`, `ReceiveFinished`, `Begin`,
`Submit`, `Poll`, `MonitorAdded` ...), each PAM transaction a thread whose answer
is polled (`Authenticate`, `Poll`), the socket two queues. `phase`, `attempt` and
`generation` are `SessionState`. Drawing and text are left out.

### PowerCoordinator

The task of `power/coordinator.rs`. `pc` names the await it is at and every
action of the task ends at one, so anything may happen between what it read
(`snap` from logind, `seen` from the compositor) and what it does next. `cycle`
is `Cycle` with the lid policy and the reported phase; `request`, `cancelled` and
`gate` are the request slot and the shutdown gate of `api.rs`.

| Code | Actions |
| --- | --- |
| connect, establish | `Connect`, `Arm`, `ArmFailed`, `Reshield`, `Resume` |
| loss of the bus | `BusLost`, `ShieldAfterLoss` |
| PrepareForSleep, from a signal or from a snapshot | `SleepSignal`, `SleepStarts`, `SleepEnds` |
| poll | `Tick`, `LidShield`, `ReadStatus`, `Act`, `Lid`, `LidSeat`, `LidSuspend` |
| Suspend from the menu | `RequestSuspend`, `RequestStatus`, `RequestShield`, then in the polls `ManualSnapshot`, `ManualStatus`, `ManualSeat`, `ManualSuspend`, `ManualFails` |
| reboot, power off | `RequestPower`, `ShutdownStatus`, `ShutdownCall`, `ShutdownWithdrawn` |
| the select! loop | `Timer`, `SessionLockSignal`, `Poll` |

The environment: the compositor takes any step of `LockPromise` (`LockStep`), its
display changes (`DisplayChanges`), and a command that timed out may be executed
later (`LateCommand`). The machine prepares a sleep, sleeps, wakes, hands the
seat over; the lid and the dock move; the menu submits and cancels.

The compositor is known by `LockPromise` and by `confirmed => sealed` only. That
is what `NativeSession_proofs` establishes of it (`KeepsPromise` and
`ConfirmedOnScreen`), so the claims about power hold with the real lock.

History variables carry what properties compare with: `proven` (display proved
since the wake), `closure` (the last lid closure not yet answered), `unresolved`
(a shutdown call not rejected) and `unprotected`. The last one *excuses* a sleep:
it began without a delay inhibitor, or while the task was still in the previous
sleep; a budget ran out; prepare-sleep was refused or lost; or a stale or late
session-resume arrived while it was prepared. In each of these the code lets the
machine sleep by design (POWER.md: the delay is bounded by logind), and the
property is about all other sleeps.

Abstractions: the locked hint, permission queries, counters, texts; `local_seat`
is true; a dock and an external display are one variable; whether the compositor
has the seat (`active` in its status) is the same as whether logind says so;
deadlines may pass at any time (`expired`); a request may be submitted whatever
availability the shell saw last; session-resume always invalidates the
confirmation (without outputs the code keeps it: an immediate `LockStep` has the
same effect).

### SettingsRegister, SettingsStore, SettingsWatch

`SettingsRegister` is what the file is to its readers: a register that daemons
commit to with growing revisions and that a person may edit or remove.
`SettingsStore` is the transaction of the daemon: lock, load, reserve a revision,
write and sync a temporary file, rename, sync the directory, answer; `pc[d]` is
the system call daemon `d` is at, and an edit, a kill and a power failure may fall
between any two. `mark` and `syncedMark` are the high-water mark of revisions. A
snapshot is a revision and a function from fields to values; validation and the
limit of a reply are sets of values. Left out: the setters of single values, the
stop command, a lock file removed by hand, a torn write of its eight bytes.

`SettingsWatch` is the loop of the daemon (`Drain`, `Accept`, the visits of the
clients in order, `Wait`), over inotify (`events`, `watched`, `held`, `gone`), and
the subscription of a consumer: its worker (`worker`, `after`, `taken`), the
channel of refreshes and the mailbox. A cursor is the snapshot itself. Answers of
visits are chosen from the stage a client is in; connections given up by a
consumer stay with the daemon until it finds out.

### Supervisor

`at` walks `StartOrder`, `Round` or `StopOrder`, as `phase` is startup, monitoring
or stopping; `child[c]` is the state of a child, `kin` the children with a
process group, `strays` those of an earlier generation. A step of the supervisor
that can fail has a failing twin (`failed` remembers it in the shutdown). One
entry stands for each of the desktop services. Left out: the start of the login
guard, the power, portal and AI children, adopted D-Bus entries, and failures to
record a process.

### AppScopes, ActivationEnvironment, PendingLaunch

`AppScopes`: the guard of a runtime, the launchers that record a scope and ask the
manager for it, the barrier that stops the owner and waits, run by the supervisor
or after its death by the login guard. The manager may take any request late.
`ActivationEnvironment`: sessions publish their values to the user's manager and
bus under one file lock and restore them from a journal; an operation may be cut
short between any two steps, whoever else begins, lives or ends. The history
variable `stranded` names the sessions that an environment still named when a
later publication was cut short over them (section 4). `SessionRemains` puts the
scopes of one session beside the environment of two. The private bus and the
identity checks of mounts are left out. `PendingLaunch`: the worker, the source that owns the deadline and
admits, the connection that waits, and the `Lifetime` they share. A worker's look
at it is one step with the message it leads to, because the event loop looks again
when it takes the message; its last look is a step of its own. What is prepared
is data; the end of the event loop, the half-closed envelope and the deadline of
the transport (10 s, beyond the 8 s of the launch) are left out.

### Notifications, Tray

`Notifications` is the whole store with its limits, ownership, replacement, expiry
and events, and the loop that delivers them; each call takes the mutex once. Texts,
images and the wire format are left out. `Tray` is one loop that joins the results
of the tasks it spawned (a discovery, reads, an action) in any order. A read may
fail as a whole or without its menu alone; an action may fail at any moment and on a
live application too (the two seconds, an error, a refusal, a menu or a row that is
not what was shown), also after a click that did arrive. Icons, labels and the
replacement of a menu's path are left out, the shell owns the watcher, pruning and
listing are one step, and polls are further apart than a discovery takes. Two races
of the code are in the model, and `TraySettles` allows for them: an application that
registers between the listing of names and the pruning is removed again, so it is
not one the tray has to show; and the menu of an action that is joined after a newer
read stays until the next poll.

### IdleTracker, WindowGroup, ScreenCapture, DeviceControls

`IdleTracker`: the daemon thread's registrations and its heap with stale deadlines
and compaction (its transitions are only logged; commands arrive in order).
`WindowGroup`: the group, the queue of one request, and the worker that answers
seconds later, dies or cannot be created, with what cancels a request: a lock, the
window switcher, another tool, a changed selection or title; the lasso, layouts and flights are
geometry, what the model is asked is data, and the cancel flag of a finished
request counts as set. `ScreenCapture`: requests, the scene rendered for them, the
pixels read at submission, the page flip that releases them, the encoder's places;
the presenter is reduced to the scene it holds, Wayland's capture protocol and
remote desktop are left out. `DeviceControls`: a key's token from the compositor
over the shell's interface to the task that asks again before it writes; muting,
several outputs and replaced devices are left out. A key is taken whenever the
session is active and unlocked (`listening`); its token lasts only while the outputs
are recovered too (`available`). The write comes after the token was accepted, so it
may fall after a lock, and so may the second write that unmutes a volume, before which
only the session is asked (audio.rs:165-174): a token says in which session a key was
*accepted*, and that is all `ControlsSound` says of it.

## 3. Runs

TLC with two workers needs at most four minutes for each.

| Run | Question | Distinct states |
| --- | --- | --- |
| `session_lock` | two lockers and one screen on a native session with every event, or on a headless one: who is told what, and is a waiting locker answered | 171 k |
| `power_safety` | sleeps, lid, menu and shutdown against bus losses, VT switches and one lost or late command: is the desktop sealed, is nothing repeated | 1.62 M |
| `power_answers` | under fairness every request is answered and a healthy session reported awake | 100 k |
| `power_degraded` | the same with one lost command: **violated** | |
| `power_lid_asleep` | a lid closed during a sleep suspends again: **violated** | |
| `lock_client` | the lock process against `LockPromise`; the presenter thread against the event loop | 271 k |
| `settings_store` | two daemons, an editor and crashes on one file | 549 k |
| `settings_watch` | one subscription, through changes, a refresh and a fault | 241 k |
| `session` | a session with every part, exits, an escaped descendant and one failing step | 327 k |
| `desktop_services` | applications against the notification daemon and the tray; what outlives a session: scopes, published environments | 323 k |
| `session_overtaken` | a publication cut short over a published session: **violated** | |
| `compositor_threads` | idle timer, gathering, capture, launches and device controls against the event loop | 417 k |

### The properties

Lock (`session_lock`, `lock_client`):
- `ConfirmedMeansPresented`: while the lock is reported confirmed, every connected
  screen shows a frame of its present generation and nothing of the desktop is
  shown, queued or held.
- `OnlyOwnerReveals`: the session opens only by the acknowledged owner's unlock, never
  with a sleep prepared; a vanished owner is never replaced.
- `PromiseSpec`, `HeadlessPromise`: both backends implement `LockPromise`.
- `FirstLockerSettled`: a locker that waits is answered or leaves, on either backend.
  It is stated for one of two interchangeable lockers.
- `Consistent` (types, `OneConversation`, `NoForgottenSecret`): PAM is asked one
  question at a time though abandoned threads go on, and no password outlives its use.
- `HonestExit`: success is reported only of a lock that was opened. `OpensOnlyForAccepted`:
  it is opened only when the answer to the attempt begun last accepted the password; an
  answer to an attempt that was given up opens nothing. `AcceptedOpens`: such an answer opens
  it, whether it came before or after the acknowledgement.
- `LeasesKept`, `PresentationTruthful`, `SecurityShown`: no scene of the pool in use is
  lost or drawn to twice; a presentation the loop accepts is on the screen and of the
  security state in force; that state ends on the screen.

Power (`power_*`):
- `ProtectedSleepIsSealed`: a sleep that is not excused starts sealed and latched.
- `AwakeIsProven`: with all signals read, `awake` is reported only with a proof of the
  display since the wake.
- `SuspendsOnce`: a Suspend call answers a closure or a request no call or sleep has
  answered yet.
- `ShutdownIsFinal`: no power call follows an accepted or ambiguous shutdown.
- `RequestAnswered`: the request slot is always freed.
- `RecoversAwake`, `WakeNeverResuspends`: see the findings.

Settings (`settings_store`, `settings_watch`):
- `NoUpdateLost` (types, `WriterSeesLatest`), `TruthfulReplies`: an update that
  publishes has loaded what the file holds, unless a person has edited it since; a
  client is told failure only of what was not published, and success only of what was.
- `RegisterSpec`: the file with its lock, reservations and crashes implements
  `SettingsRegister`. `OneAnswered`: a request is answered though another daemon keeps
  the lock.
- `WatchSound` (`NoLostWakeup`, `PlacesReserved`, `RefreshesCounted`): the daemon does
  not sleep on a change a watch has not seen; quiet connections leave places for
  others; each refresh is with exactly one of channel, worker and mailbox.
- `RefreshAnswered`: a refresh is answered, and with success only with what the file
  held since. `SettlesOnFile`: the consumer ends with what the file holds.

Processes (`session`; `desktop_services` for what a session leaves):
- `SessionSound` (`NothingLeft`, `OneGeneration`, `RemovedMeansClean`): nothing runs
  when the supervisor exits, no part runs twice, and the runtime directory is removed
  only when it is no longer needed. `EndsForCause`, `SessionEnds`: what ends a session,
  and that it then ends.
- `RemainsOwned` (`BarrierHolds`, `GoneLeavesNothing`, `OwnerIntact`): no scope outlives
  the barrier; a session that has gone leaves nothing published, unless it is `stranded`;
  what a user set is not overwritten. `RemainsEnd`: barriers and retirements end.
  `RetiredBeforeRemoval` is `GoneLeavesNothing` without the exception: see the findings.

Services and threads (`desktop_services`, `compositor_threads`):
- `ServicesSound` (`ReportedOnce`, `TrayKept`): one closing event for each notification,
  and limits and owners of both services agree. `ActedOnce`: an action is sent once.
  `DueIsReported`, `TraySettles`: what expires is reported, and the tray ends with what
  is registered.
- `ThreadsSound` (`DeadlinesSound`, `GatherKept`, `HeldOnce`, `LaunchesSound`,
  `ControlsSound`): every active window has its deadline in the heap; the pending request
  of a group is one the worker has; a rendered scene is held once; a slot is held by one
  launch and success told only of a child that started; the token of
  a key is accepted only in the session in which it was pressed, requests are adjusted in
  order, and a value hides the measured one only while its own request is unanswered.
- `JoinsAsJudged`: windows join a group only by a judgment of what they still are.
  `CapturesPresented`: pixels are sent only of a presented scene of the lock state in
  force. `RefusedNeverStarts`: no application starts after its launch was refused, but
  for the one step named under Fairness. `CapturesAnswered`, `ThreadsSettle`: all of it ends.

Several liveness properties are stated as `[]<>`: where the condition persists until it
is resolved this is the leads-to form, and cheaper to check.

### Bounds, and why they are enough

All are CONSTANTS of the cfg or named definitions of the MC module. An action that
would exceed one is disabled. Where deadlock is not checked, the bounded environment
may really stop: no more requests, no more faults.

- *Lock* (`MaxGeneration` 4, `MaxInFlight` 1, two lockers, one screen): a bad
  confirmation needs a frame of one generation taken for another, so two locks and
  an invalidation in each, with one event on its way. Two lockers compete for the
  lock and for a vanished owner's shield. That one screen says enough for several
  rests on the proofs, which have any number.
- *Power* (`MaxSignals` 2, `MaxLost` 1 or 0, one locker): a wake and the next sleep
  unread by the task; one refused, lost or late command at any place. The
  environment is split into scenarios (`MCPowerCoordinator`): VT switches are not with
  lost commands, and in `power_answers` sleeps of others only with display changes.
  Every action of task and environment occurs in one; the proofs cover all of `Next`.
- *Lock client* (two monitors, `MaxAttempts` 2, `MaxChanges` 3): a late answer needs a
  second attempt. *Presenter* (`Slots` 2, `MaxTag` 2, `MaxKey` 3, `MaxScenes` 2, one pause
  and one fault): one lock, one reconfiguration during another, one scene that replaces
  an unread one.
- *Settings store* (two daemons, one field, four values of which one invalid and one
  too large, `MaxRevision` 3, `MaxRequests` 3, `MaxFaults` 1): each daemon commits, and
  one again after a crash of the other. *Watch* (one consumer and a stranger,
  `MaxClients` 2, `MaxWatchers`, `MaxUnfinished`, `MaxPending` 1, `MaxChanges` 2, one refresh,
  one fault): every limit is reached; a second change comes only without faults or
  refreshes. With `MaxUnfinished` 1 (8 in the code) one silent stranger suffices to
  fill the unfinished places.
- *Session* (every part, `MaxRestarts` and `ServiceRestarts` 1, 2 in the code,
  `MaxExits` 2, one fork, one fault): a restart budget that is used up, by the same
  child or with another's exit between. *Remains* (one terminal and one snap with a login
  guard, one fault; two sessions, `MaxDisturbances` 2 operations cut short, deaths and changes
  by the user in all, `MaxUserSets` 1, a path set before): each journal is cut short once, or
  one of them twice, at any step and with the other session anywhere; the first of the two to
  begin is called `one`, which loses nothing, as they are alike. `session_overtaken`
  needs one such cut only.
- *Services* (two applications, one key, three kinds, `MaxActive`, `MaxRetained`,
  `MaxEvents` 2, `MaxId` 3, one click or one failure, resident messages by one application and
  transient ones by the other; tray: two applications and one each of
  reads at a time, changes, commands and faults, `MaxGeneration` 2): every limit is
  reached by two entries, and identifiers are spent. The tray has a scenario of two items
  with one change, one of a menu with a command and a click, or with a change and a command, and
  one of a change and a fault; in each an action may fail.
- *Threads*: two windows and two levels, `MaxTime` 4, a heap rebuilt beyond three
  entries; two windows, `MaxGathers` 4, `MaxChanges` 2, one death, the last change and
  the last request not in the same behaviour; two captures with one encoder place,
  both around a lock, one around an unlock; one level of one device, `MaxQueue` 2,
  one pending value, one lock; two launches for one slot, the second without faults.

### Fairness

- Lock: `WF(Turn)`, `WF(PresentedEvent)`: calloop dispatches every ready source and the
  loop runs its tail after each batch. `WF(PageFlip)`: KMS completes what was queued.
  `WF(OwedFrame)`: after a change of its security state a presenter forces a commit
  until one has been shown. Headless `WF(Render)`: each accepted request asks for a
  redraw.
- Presenter: `WF` of the loop's `Handle`, the worker's turn, the flip and the fence;
  `SF(Vblank)`: one dispatch reads every ready page flip.
- Power: `WF(Wake)`: a sleep ends. `WF(Coordinator)`: tokio runs the task and each of
  its awaits has a timeout. Strong fairness of `Timer`, `RequestSuspend` and
  `RequestPower`: `select!` picks at random among ready branches, so none that is
  ready again and again is passed over for ever. Strong fairness of the pending
  deadline: it is a fixed instant, and polls go on.
- Lock client: `WF` of what GTK's main loop has ready (`Poll`, `ReceiveLocked`, `Exit`)
  and of a compositor that reads an unlock (`TakeUnlock`).
- Settings: `WF` of the steps and timeouts of *one* daemon, so it is answered whatever
  the other does. Watch: `WF` of the daemon's loop, its deadlines, the worker and the
  pings of the event loop.
- Supervisor: `WF` of its own loop, and of a wait that ends by its deadline. Scopes:
  `WF` of guard, barrier, supervisor and owner, and of a scope told to stop.
- Environment: `WF` of publication and display, `SF` of the retirement of each session:
  they compete for a file lock. Launch: `WF` of deadline, source, connection and of a
  worker past its preparation; none of the preparation and of the helper, which may
  hang. A worker that has had its last look starts the child although a deadline
  falls between that look and the start; `RefusedNeverStarts` allows for exactly this.
- Notifications: `WF` of its loop; with a bounded number of identifiers, so in a
  scenario of its own. Tray: `WF` of the joins, the polls, the signal handler and the
  reconnection. Window group: `WF` of loop, worker and maintenance, and that a drag
  ends. Capture: `WF` of turn, presentation and encoder. Controls: `WF` of key events,
  updates, the overlay's expiry and the task.

No fairness is assumed of clients, users, devices, the seat or recovery retries;
`FirstLockerSettled` and `RecoversAwake` instead assume what they need of them
(`<>[]NativeOutputsReady`, `<>[]Healthy`). `RecoversAwake` also needs that no request is
pending, nor a Suspend call that nothing has answered for.

## 4. Findings

Three are shown by runs:

- **A lid closed during a sleep suspends again** (`power_lid_asleep`,
  `WakeNeverResuspends`). POWER.md:20-22 and policy.rs:1 say that waking with a
  closed lid does not suspend. The policy still holds the lid position from
  before the sleep, and nothing resets it on resume, so the first poll after the
  wake (coordinator.rs:261) sees an edge.
- **One failed session-resume degrades a healthy session for good**
  (`power_degraded`, `RecoversAwake`). The comment at coordinator.rs:367-368 says a
  temporary transport failure must not. `resume_accepted` (line 361) is set only by
  that command, which is not repeated before the next sleep or reconnection. A
  test in coordinator/tests.rs expects that an *old status* does not clear such a
  failure, which is compatible with repeating the command.

- **A session is left published after its directory has gone** (`session_overtaken`,
  `RetiredBeforeRemoval`). session_bus.rs:10 says "Retire shared activation values before
  removing the session directory". A publication claims the marker before it replaces the
  values (publish.rs:72-80). When the second session's is cut short in between while the
  first is published, the first one's retirement sees the marker of another and removes
  its journal only, and the second's takes back what it has put there itself, the marker.
  `GoneLeavesNothing` excuses exactly the sessions that were overtaken so, and the theorem
  `RemainsAreOwned` says that there is no other way for two sessions. With three it says
  too little: a third session that begins while the second's values are half published
  takes the second's DISPLAY for one from before, and may restore it later.

Three more were met while modelling; the models exclude or name the case, and no run
is spent on them:

- *Scopes*, cleanup.rs:77: when systemd collects a failed owner between `show` and
  `stop`, shutdown keeps the runtime directory for recovery although nothing of it
  runs (LOGIN_SESSION.md:161-164 expects it removed).
- *Settings*, supervisor.rs:220-222: a restarted settings daemon that exits before it
  is ready ends the session with restarts left (SETTINGS.md:105).
- *Controls*, control_task.rs:94 says "A delayed result must not reopen a surface after
  VT loss or locking". The session is asked before the message is sent; a lock in
  between still opens the overlay, until the next poll or its expiry.

These are statements about documentation and code that disagree; which of them is
meant is for the maintainers to say.

## 5. Proofs

`tlapm` checks eight modules. The theorems hold for any sets of outputs, lockers,
monitors, daemons, consumers, parts, windows, applications, scopes, requests and launches and for any
bounds. They rest on no assumption but those on the constants, which are named in the modules
that declare them, or in the module of the run where a component is instantiated, and which TLC
evaluates on every run:

- bounds are naturals; markers such as `None`, `Absent` and `Unlocked` are not elements of the
  sets they mark; the sets of launches, of scopes and of idle windows are finite;
- no scope is the owner service, and none is asked for in both ways; the four keys of an
  environment differ from each other, and so do its values;
- what the code has as a literal is positive or large enough: a heap's slack per window, a
  channel's and a queue's capacity (`DeviceControls`), `MaxActive` within `MaxRetained`, two
  events at least in a batch (`Notifications`), two scenes at least in a pool (`RENDER_SLOTS`);
- a settings file has a field, and a default is a legal value.

| Theorem | Property | Rests on |
| --- | --- | --- |
| `NativeSession_proofs!ConfirmedOnScreen` | `ConfirmedMeansPresented` | `Invariance` |
| `OwnerReveals`, `KeepsPromise` | `OnlyOwnerReveals`, `PromiseSpec` | `Invariance` |
| `HeadlessKeepsPromise` | `HeadlessPromise` | `HeadlessInv` |
| `PowerCoordinator_proofs!SleepIsSealed` | `ProtectedSleepIsSealed` | `SleepInv` |
| `AwakeMeansProven` | `AwakeIsProven` | `StoryInv`, `ProofInv` |
| `NeverSuspendsTwice` | `SuspendsOnce` | `RequestInv`, `ClosureInv` |
| `ShutdownLast` | `ShutdownIsFinal` | `GateInv` |
| `LockClient_proofs!StateAgrees`, `ExitIsHonest`, `OpensOnlyAccepted` | `Consistent`, `HonestExit`, `OpensOnlyForAccepted` | `IInv` |
| `Presenter_proofs!PresentsTruthfully` | `PresentationTruthful` | `Ordered` |
| `ScenesKept` | `LeasesKept` | `Owned` |
| `Services_proofs!UpdatesKept`, `RepliesTrue`, `ImplementsRegister` | `NoUpdateLost`, `TruthfulReplies`, `RegisterSpec` | `Inv` |
| `EndsAreReported` | the daemon's part of `ServicesSound` | `DaemonInv` |
| `TrayForgetsNothing` | the tray's part of `ServicesSound` | `TrayInv` |
| `ServicesAreSound`, `ActionsAreFinal` | `ServicesSound`, `ActedOnce` | `ServicesInv` |
| `SettingsWatch_proofs!WatchesSound` | `WatchSound` | `WatchInv` |
| `RefreshesTruthful` | first half of `RefreshAnswered` | `TruthInv` |
| `CompositorThreads_proofs!DeadlinesAreSound` | the idle windows' part of `ThreadsSound` | `IdleInv` |
| `GatheringSound` | the group's part of `ThreadsSound` | `GroupInv` |
| `JoinsJudged` | `JoinsAsJudged` | `GroupInv` |
| `CapturesTruthful` | `CapturesPresented` | `CaptureInv` |
| `RequestsHeldOnce` | the captures' part of `ThreadsSound` | `CaptureInv`, `HeldInv` |
| `LaunchesAreSound` | the launches' part of `ThreadsSound` | `LaunchInv` |
| `NothingLaunchedLate` | `RefusedNeverStarts` | `LaunchInv` |
| `ControlsAreSound` | the devices' part of `ThreadsSound` | `ControlInv` |
| `ThreadsAreSound` | `ThreadsSound` | `ThreadsInv` |
| `ThreadsActRightly` | `JoinsAsJudged`, `CapturesPresented`, `RefusedNeverStarts` | the same |
| `Session_proofs!NothingForgotten`, `EndsOnlyForCause` | `SessionSound`, `EndsForCause` | `Inv` |
| `ScopesBarred` | the scopes' part of `RemainsOwned` | `ScopeInv` |
| `RemainsAreOwned` | `RemainsOwned` | `ScopeInv`, `EnvInv` |

So every invariant of a passing run is a theorem. `RemainsAreOwned` is about two sessions
and any number of operations cut short.

`TypeCorrect`, `AcknowledgedIsSealed`, `ShieldFollowsOutputs` and `PowerTypeCorrect`
state what no run spends a property on.

### The lock

`ConfirmedMeansPresented` is not inductive: that every output is in
`barrier.presented` says nothing of the screens by itself. The strengthening is
`Inv == TypeOK /\ Base /\ Protocol`, and its heart is `Counted`:

> if an output is counted for the present generation, or an event that would
> count it is on its way, then its screen shows that generation, its presenter
> works under it, and nothing older is queued behind.

It holds because a generation is never reused (`Tags`: nothing carries a
generation that has not begun) and because each event that puts something else
on a screen also raises the generation or withdraws the output. So the proof has
two kinds of step: those after which the old counts mean nothing (`Fades`), and those that leave a counted screen as it is.
`Topology` ties the barrier's outputs and availability to the devices, and
`Protocol` says who has been told what. There is one lemma for each action.

`OwnerReveals` and `KeepsPromise` classify the steps: an accepted lock, an unlock, a
shield, or a step that can only confirm. `KeepsPromise` maps each of these to a step of
`LockPromise` or to a stutter.

`HeadlessKeepsPromise` does the same for the other backend, with less: outputs do not
change and nothing is in flight, so `HeadlessInv` only says that what the barrier has
counted was rendered. It needs `Outputs # {}`. The code has exactly one virtual output
(compositor/mod.rs:527-541); with none, a barrier would be ready before anything was
rendered.

### The presenter

`NativeSession` takes a worker's turn as atomic. The two theorems say what makes that
right. `PresentsTruthfully` rests on one order: of the tags on the way from the worker
over the kernel to the event loop none overtakes another, and the screen is never behind
what was reported of it (`Ordered`). So a presentation whose tag is the state in force
has nothing older behind it. `ScenesKept` rests on what a turn that configures knows:
it has given every scene back (`Preparing`), and the event loop does not render into
the new pool before it is announced (`Offered`, `Pooled`). The control that a worker
holds may be old all the while; `Numbered` says how old, and what then still holds.

### The lock client

`Handshake` lists the points at which the conversation on the socket can be: the library's
state, the messages in both queues and the compositor's view of the holder. With it,
`PhaseFollowsLock` says that between callbacks the phase agrees with the library.
`ThreadsArePolled` says that the only thread at work is the one whose channel is
polled, so an answer that arrives is one to the attempt it is taken for, and
`GrantsAreAccepted` follows.

### Power

- `PowerTypeCorrect`: by parts of `TypeOK`, each with the few steps that touch it.
- `ShutdownLast`, by `GateInv`: an unresolved shutdown has the gate closed, and with
  the gate closed the task is at no await from which a power call follows. Each
  place that could open the gate, or reach such an await, checks it.
- `SleepIsSealed`, by `SleepInv`: while an unexcused sleep is prepared the task
  holds the delay until it has latched the compositor; it releases the delay
  only after a confirmation it read later than that; and a latched lock stays
  shielded, so what was sealed remains so. It uses the compositor only through
  `LockPromise` and `confirmed => sealed`.
- `NeverSuspendsTwice`, by `RequestInv` (what frees the slot of a request also ends the
  wait for it) and `ClosureInv` (a lid that was open when the task last looked and is
  closed now has been closed since the last call: its level is never taken for an
  edge of its own).
- `AwakeMeansProven`: the hard case is a task that has read every signal but acts on a
  snapshot and a reply from before. `StoryInv` ties what the task believes of the sleep
  to the signals it has not read. `ProofInv` says of a task that is `Caught` up with the
  last wake, while the display is not proven, that it does not report `awake`, and that
  neither a confirmation nor the status reply it holds can still make it: resuming
  invalidated both. The steps between two signals preserve this alike (`Calm`).

### Settings

The lock file gives mutual exclusion, also over a daemon that is killed (`Exclusive`).
So what a daemon has loaded stands until it publishes, but for edits
(`WriterSeesLatest`), and `Answers` ties replies to publication. The high-water mark
is synced before anything is published (`Fresh`), which keeps revisions rising over
power failures. `ImplementsRegister` maps the rename to the commit of
`SettingsRegister`, an edit to an edit, and every other step to a stutter.

`WatchesSound`: a change leaves an event wherever the watch is held, and a watch that lost
its directory has left one (`Alert`). So with no event pending, what the visits of a
round have seen is what the file holds (`Sighted`), and the round counts what it leaves
in its places (`Counted`). `RefreshesTruthful`: a consumer has one open connection at a
time (`SoleFor`); what the daemon answers on it was read after everything was asked that
the consumer has not acknowledged (`TimelyFor`).

### The services

- `EndsAreReported`, by `DaemonInv`: the signals in the queue, in the batch and sent are one
  stream, in which an identifier has its closing once and last, and has it exactly when no
  entry of it is active (`StreamOK`). What expires under the lock is one recursive function of
  the entries; `AfterDue` says after how many of them the two halves still agree, by induction.
- `ActionsAreFinal` needs of the same invariant that the identifiers of entries differ
  (`EntriesOK`): a click acts on the entry that is active, which the step then retires.
- `TrayForgetsNothing`, by `TrayInv`: what an application shows is what the tray keeps, or its
  key is marked, queued, named by a signal on its way, or under a read that has not passed
  (`Covered`). A branch may end a read as it is only if nothing was said since (`Following`).
  The queue has no repetitions (`QueueOK`), so a prefix of it can be started; a key is of one
  generation of its application, and a generation is given once (`KeysFollow`), so an answer
  to an application that came back is never taken for one of the new.

### The session

The supervisor. The reason that nothing is left is the order of the shutdown: what it has passed stays
reaped (`Reaped`) or withdrawn unless that failed (`Withdrawn`), the directory goes last
(`GoesLast`), and every child has a place in the order (`EveryChildStops`).

`ScopesBarred`, by `ScopeInv`: a launcher records a scope before it asks for it
(`ScopesRecorded`), and after the marker stands and the desktop has ended nobody asks. So the
units that a cleaner has listed are all that the manager was ever asked for (`Listed`), and it
waits for each of them. The manager may take a request late and start the owner anew for it;
but the new guard finds the marker at its first look, so no owner is watched again and a
scope seen stopped runs at most until that look (`Checked`). `LivesInOrder` says that there is
one cleaner at a time and that it works while there is a directory to remove.

`RemainsAreOwned`, for the environment, by `EnvInv`. The danger is that a retirement restores
what another session had published. It does not: a journal takes over only what names no
session (`Journals`), and a retirement puts no session in the place of its own (`Restores`). A
marker comes with the directory of its session, unless the publication was cut short, over a
stranded session or over an environment that named none (`ComesWhole`). Whoever has no journal,
or not the marker, is stranded or nowhere in either environment (`Cleared`). A session is
stranded only once both have begun, and never has the marker again (`Apart`), so no journal is
written while one is. The display goes with the directory (`Together`), and what it shows of a
session is what its journal says of it, also while a change is under way (`Displays`).
`Working` says where each operation has got to, which is what the file lock makes of them:
one at a time.

### The compositor's threads

- `GatheringSound`, `JoinsJudged`, by `GroupInv`: a generation is never used again. So an
  answer with the identifier of the pending request is an answer to that request
  (`Known`), whatever the worker was asked before, died of or was told to give up; and
  that request holds the selection and the titles the windows are compared with.
- `CapturesTruthful`, by `CaptureInv`: a request that waits was made in the present state
  of the lock, and none waits once the event loop has told the presenter of a lock
  (`RequestsTimely`); what the presenter reports of that state was on the screen in it
  (`EventsTrue`). So the pixels that a report brings are of both.
- `DeadlinesAreSound`, by `IdleInv`, which looks at each registered window: its pending
  deadline is the one that its level and its quiet time call for, and is in the heap
  (`WindowSound`), whatever stale ones are there too. What the level should be is a sum over
  the thresholds, `Until`, a recursive function; `UntilSums` shows by induction that it has the
  values it is defined by. A rebuild of the heap leaves one entry for each window.
- `RequestsHeldOnce`, by `HeldInv` on top of `CaptureInv`: what is requested, staged, encoded
  and answered are sets apart, and an encoder's job belongs to a request nobody has answered.
- `ControlsAreSound`, by `ControlInv`: a press carries the token of the session it was made in,
  and a new session draws a token never used (`TokensIssued`, `PressesSound`). The channel,
  what the task has taken from it and its job form one line of requests with growing identifiers
  (`LineSound`, `JobSound`), and what coalesces takes the place of a last one of the same
  device (`Extends`). So a value that hides
  the measured one belongs to a request that is still in the line (`HidingSound`).
- `ThreadsAreSound`: the five share no state, so each invariant is carried by the steps of its
  own and by stutters of the others.
- `NothingLaunchedLate`, `LaunchesAreSound`, by `LaunchInv`: whoever tells a caller of a
  failure has cancelled its launch before (`Standing`), and the last look sees it; "ok"
  is on its way only once the child is there, and the thread that says so goes nowhere
  but to its end. The slots are counted by the threads that hold one (`Holding`).

### Only model-checked

- Liveness, which TLAPS does not do under fairness: `FirstLockerSettled`, `AcceptedOpens`,
  `SecurityShown`, `RequestAnswered`, `RecoversAwake`, `OneAnswered`, `SettlesOnFile`, the
  second half of `RefreshAnswered`, `SessionEnds`, `RemainsEnd`, `DueIsReported`,
  `TraySettles`, `CapturesAnswered`, `ThreadsSettle`.
- The refinement of the worker's turn of `Presenter` to the atomic steps of
  `NativeSession`, which is argued above and not stated.

## 6. What is left

Next: the refinement of a worker's turn named above.

Not modelled, and worth it: `LockFocus`, the surfaces, focus and input isolation while
the shield is up (`session_lock/{surfaces,input}.rs`).

Not planned: rendering, geometry, window stacking, input gestures, the canvas and its
layout, clipboard, XWayland, views, catalogues, wire types, downloads of the local model,
the test driver. There a state is large, the control small and sequential, and unit
tests say more than a model. `PROJECT.json` gives the reason for each.
