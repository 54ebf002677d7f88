# TLA+ models of snry-shell

This directory holds TLA+ modules that model the programs of this repository (a Hyprland
desktop shell written in Go with a QML frontend): the session daemon, the display manager, the
configuration sync engine and the installer. Beside them are the TLC configurations that check the
modules and proofs checked by TLAPS. `PROJECT.json` is the index: components, runs, mutants, the map
from definitions to source lines, findings, hazards and theorems.

    tlc -workers 2 -config lock_all.cfg LockScreenMC      # one run
    tlapm LockScreenProofs.tla                            # one proof module

## 1. The system

`snry-daemon` is one process per session. `app.App` starts a goroutine per service; the services
call each other through callbacks that `App` wires. `snry-dm` is a display manager that runs as
root before any session, and `snry-daemon sync/setup` is an installer that merges configuration
files. The QML frontend is a separate process that talks to the daemon over a Unix socket, one
JSON line per event, one text line per command.

| component | state | operations | talks to | what is hard |
|---|---|---|---|---|
| lock screen service (`lockscreen/`) | `locked`, `attempts`, `lockedOut`, `inAuth` (atomics) | Lock, Unlock, Authenticate, TryAutoUnlock, LockWithAutoUnlock, EmitSnapshot, a ticker goroutine per lockout | PAM/su; events to `App.onLockscreenEvent` | every caller is another goroutine; the mutex covers only the entry of Authenticate; tickers outlive their lockout |
| lock panel (QML) | locked, waiting for an answer, locked out, seconds | tryUnlock, handlers of auth_result / lock_state / lockout_tick, clear timer, fingerprint, activate | the socket; `qs ipc` processes | it holds a copy of the daemon's flag and can change it alone |
| idle service (`idle/`) | inhibition flags, `inhibited`, `displayOn`, `displayOffForced`, `lastLocked`, `lockCancel`, the Wayland notification | setDisplay, recomputeInhibition, idled/resumed, NotifyLockChanged, doLock, the ScreenSaver D-Bus object | compositor, logind, Hyprland events, lock screen, powersave | no loop of its own: a method per calling goroutine, short mutex sections, atomics outside them, timers that race with activity |
| deep idle (`powersave/`) | `screenOff`, `since`, `active` | SetScreenOff, Tick | idle service, lock flag | a stamp that must be taken once and a mode that must end with the lock |
| state loop (`app/app.go`) | the canonical tablet / keyboard / lock state, `stateCh`, hide timers, mode file | seven kinds of event, emitState, EmitSnapshot, save on shutdown | everything above | a bounded channel, timer callbacks that cannot be recalled, a file written in two steps, a snapshot read from another goroutine |
| tablet mode monitor (`tabletmode/`) | switch, logind mode, keyboard activity, the published flag | publish, three monitors, keyboard timers | state loop | sources read under the mutex, flag swapped and callback made outside it |
| socket server (`socket/`) | the set of clients | accept, dispatch, emit, snapshots | everything | broadcast from any goroutine; a write to a slow client blocks |
| command dispatcher (`app/commands.go`) | none | about a hundred commands | all services | some commands start processes that act later |
| input method watcher (`inputmethod/`) | last focus | activate, deactivate | state loop | - |
| compositor watcher, autoscale (`app.go`, `compositor/`, `manager/autoscale.go`) | ready flag, generated `monitors.lua` and `workspaces.lua`, key binds in Hyprland | poll, set up, soft reload, autoscale | Hyprland's socket | the instance and the dialect are settled once, at start; reloads forget what was bound at run time |
| display manager (`dm/`) | VT, greeter, socket clients, auth channel, PAM transaction, session | greeter cycle, accept, auth, rate limit, session, shutdown | PAM, greeter, user session | a listener goroutine that outlives its cycle; a bounded channel of credentials; a write to a client that does not read, under the mutex; every process may exit by itself; a failure at each of a dozen steps |
| sync engine (`syncengine/`) | manifest, deployed files, `.orig` copies | decide, merge, deploy, back up, save | the disk, the user's editor | a three-way decision repeated over many releases; three writes and a crash between any two |
| file guard (`guard/`) | set of changed files, debounce timer | collect, restore | fsnotify, the disk | map and timer shared without a lock |
| quickshell supervisor (`quickshell/`) | the child, restart count | run, stop, restart | the frontend process | two goroutines wait for one child, one with the mutex held |
| brightness (`brightness/`) | levels, multipliers, the panels | set, poll, emit, measure | `ddcutil`, `brightnessctl`, `grim`, Hyprland events | a poll that writes back a copy; a goroutine per request; a debounce whose flush overlaps the next |
| status services (`gamemode`, `hyprsunset`, `easyeffects`, `network`, `session`, `weather`, `updates`, `resources`, `darkmode`) | a copy of something they do not own | tick, monitor, toggle, emit | subprocesses, the frontend | reads, requests and callbacks that overtake each other |
| installer (`manager/`) | what is on the disk | setup's four phases, uninstall | package managers, `meson`, `uv`, the sync engine | a step that fails, is interrupted or was half done by an earlier run |
| wallpaper, image, wrappers | - | - | - | numerical code and system calls |

Correctness properties, per component:

* lock screen: one password check at a time; at most `MaxAttempts` guesses per lockout period;
  every lockout ends, after as long as it announced; the QML side and the service agree; every
  call is answered.
* idle service: what is published as `inhibited` follows its sources; the display, DPMS and the
  report agree; the timer in the compositor is the one of the lock state; no pending lock that
  cannot be called off; dark only while locked or until activity; lit while inhibited; a session
  that is left alone ends up locked, dark and in deep idle.
* state loop: the keyboard is shown exactly when the state says so, never over the lock screen
  unless pinned; a focus lost is noticed, a focus held is not forgotten; the lock flag is the
  lock screen's; a mode survives any crash; a client's view is current.
* tablet mode: the state loop was told what the sources say by priority; an active keyboard is
  declared idle, but not while it is typed on.
* display manager: nothing of a cycle outlives it, wherever it failed; the two compositors never
  share the VT; the socket of the cycle that accepts credentials is reachable; credentials are
  judged and answered; a granted login ends in a new greeter.
* sync engine: what the user wrote is in the file or in its copy, until a reported conflict overwrites
  the copy; an untouched file follows upstream; a repeated sync settles.
* smaller services: a changed file is put right; Quickshell comes back and is given up only for
  a cause; levels, multipliers and cards end up with what they are copies of; a set-up that
  reports success is whole but for what it passes over, and can be repeated after any failure; every workspace has one monitor.

## 2. The modules

| module | models | form |
|---|---|---|
| `LockScreen` | `lockscreen.go`, the lock commands of `commands.go`, the QML lock panel | programs of atomic steps run by goroutines |
| `AttemptThrottle` | abstract: at most so many guesses, then shut for so long | what the lock screen promises |
| `LockScreenMC` | instances; a history variable for overlapping operations | - |
| `LockScreenProofs` | proofs | - |
| `IdleService` | `idle.go`, `screensaver.go`, the idle notification | programs of atomic steps, timers in ticks |
| `PowerSave` | `powersave.go`, instantiated by `IdleService` | one step per mutex section |
| `InhibitionPolicy` | abstract: sources come and go, the published state follows | what the inhibition promises |
| `IdleServiceMC`, `IdleServiceProofs` | instances, proofs | - |
| `ShellState` | `runStateLoop` and its handlers, the hide timers, the mode file, snapshots | one step per handler |
| `ShellStateMC`, `ShellStateProofs` | instances, proofs | - |
| `TabletMode` | `tabletmode.go` | publish in three steps, one action per monitor |
| `TabletModeMC`, `TabletModeProofs` | instances, proofs | - |
| `DisplayManager`, `DisplayManagerProofs` | `dm/` | the cycle as a program counter; listener, handlers and processes beside it |
| `KVMerge`, `KVMergeProofs` | `kvparse`, `sectionparse` | pure operators and lemmas about them |
| `SyncEngine`, `SyncEngineMC`, `SyncEngineProofs` | `engine.go`, `manifest.go`, `conflict.go` | one action per read or write of the disk |
| `FileGuard` | `guard.go` | event loop and timer functions that share a map |
| `QuickshellSupervisor` | `quickshell.go` | Run's loop, the process, and a killer with the mutex |
| `Brightness`, `AntiFlashbang` | `brightness.go` | levels and polls; multipliers and flushes |
| `StatusService` | the nine status services | one module, since they share the shape read - store - call back; a behaviour is about one of them |
| `Installer` | `manager/` | the steps as data, a run as a walk over them |
| `CompositorSetup` | the compositor watcher, the Hyprland client's decisions, `autoscale.go` | programs of two goroutines against one Hyprland |
| `ServicesMC`, `ServicesProofs` | the instance of the seven modules above and of `TabletModeMC`; proofs about the seven | a behaviour is about one `subject` |

### LockScreen

`locked`, `attempts`, `lockedOut`, `inAuth` are the service's atomics. `todo[t]` is what goroutine
`t` has yet to execute, a sequence of operations of which each is one atomic store, one atomic
read with its branch, or one emitted event; a call replaces the head by the callee's program. The
only section under a mutex that does more than one thing, the entry of `Authenticate`, is one
operation (`Enter`). `Callers` run `Authenticate` (the dispatcher starts it with `go`),
`Commanders` run the other commands, `Tickers` are the goroutines of `startLockout`, whose
deadline is `left[g]`. `ui` is the lock panel's state and changes with the events it receives;
`activations` counts `qs ipc call lock activate` processes that have not arrived yet. PAM, su and
the keyring are a nondeterministic answer after an arbitrary time.

Left out: `cleanupSpecialWorkspaces` and `SetOption` (calls to Hyprland that touch no state of the
daemon), the texts of the messages, `remainingAttempts` (shown, never decided on). `SetLocked`
of the service has no caller.

### IdleService

The same representation. Threads are socket clients, applications that call the ScreenSaver
object, the logind, block-list, Hyprland and Wayland monitors, and the lock delay goroutines.
`setDisplay(true)` is a gate under the mutex (`OnGate`: suppressed? cancel the pending lock) and then
the store, the DPMS command and the report as separate steps; `setDisplay(false)` has no gate. `dpms` is what
Hyprland was last told, carried out or not: `setDPMS` (`idle.go:201`) discards the answer, so that what the panel does after
a refused request is known to nobody, and a property that compares `displayOn` with `dpms` compares it with the request.
`notif` is the notification object in the compositor: its mode (which timeout), whether it has idled
and the time left. `lockCancel` names the delay goroutine that the stored cancel function cancels,
`delay[d]` is that goroutine. `blocked` is logind's property, as the list the code sees in quotes.
`away` is set when the user leaves for good. Ticks are one unit of the timeouts; `Tick` may not pass
over a due timer.

Left out: the suspend timeout, whose value is 0 in `cmd/snry-daemon/main.go` and which `tick` then
ignores; the Wayland registry; D-Bus peers that vanish (the code does not watch for them).

### PowerSave, InhibitionPolicy, AttemptThrottle

`PowerSave` has the three fields of the service, with the stamp kept as an age. The two abstract
modules have no code behind them: they are what the services promise, and the detailed modules
implement them through the mappings at their ends (`Policy`, `Throttle`; `ThrottleSpec` is the throttle as a property of the lock screen).

### ShellState

`state` is the record of canonical fields that the loop owns, `queue` is `stateCh` with capacity
`Cap`; a sender that finds it full is blocked, which is a send that is not enabled. `timer[i]` is
"off", "armed" or "fired" - a fired timer is a goroutine that is about to send and that `Stop` does not
reach - and `hideTimer` is the one the loop remembers. `focusAge` is the time since
`lastFocusActive` in tenths of a second, up to the 300 ms that matter. `modeFile` is truncated and written
in two steps, either of which may fail (`SaveFails`): `saveUserMode` ignores the error, and `unsaved` remembers it. `Crash` kills the process between any two steps, `Shutdown` and `Exit` are the
cancelled context. `Connect` and `FinishSnapshot` are the unsynchronised reads of `EmitSnapshot`: each
field that the loop changed in between may come out old or new. `StoreLock` and `SendLock` are the
two halves of a lock: the flag in the lock screen service, then the event.

### TabletMode

`publish` is `ReadSources` (the section under the mutex), `Swap` and `CallBack`. Each monitor stores its
source under the mutex and goes on to publish. `KeyPressed` stops the timer it remembers and makes a new
one; a timer that has fired waits for the mutex at "expire". A failed query of logind is an action of
its own, as it changes the source and publishes nothing.

### DisplayManager

`pc` is where `runGreeterCycle` stands, between the calls that may fail or block; `vt`, `pam` and `procs` are
what a cycle acquires. `lis` is the listener of the cycle, `path` what the file system has under
`SocketPath`: nothing, this listener's socket, or one of an earlier cycle. Closing a Unix listener in Go
unlinks its path whatever the path names by then, which is what `CloseListener` does and what
`SocketReachable` is about. The goroutine that closes it is woken by the cancellation and runs when it is
scheduled; that it has run before `waitForHyprland` first looks for the compositor's socket is the one timing
assumption of the module, the operator `Ticked`: the loop's first tick comes after 500 ms. Without
it (the mutant `TickedAtOnce`) the old listener takes the new socket away. `conn` are the handlers, which
block in `authCh <- creds`; `queue` is the channel, `creds` what `waitForAuth` took from it last. `PAMAnswers` and `Answered` are the
judgement and the answer: `emitAll` writes to every connection and holds the socket's mutex until the last one has taken it, so
a client that does not read and whose buffer is full (`deaf`) holds up the answer, the accept loop, the rate limit and the end of other
handlers. `Killing` ends one process after the other, as `killProcWithTimeout` does: SIGTERM changes nothing by itself, and within
five seconds the process ends or SIGKILL ends it; the cycle goes on when all are gone. A compositor that is
killed hard or crashes leaves its `.socket.sock` behind. What PAM says is chosen when it answers.

Left out: the texts of errors, the environment of the session, the ioctls behind `VT`; SIGKILL takes effect at once.

### KVMerge, SyncEngine

A document is its settings, a function on pairs <<section, key>>, its lines outside the markers and whether it
has markers. Lines of a start-up file that are no settings are one key, `Code`, whose value stands for their wording; a block with only
such lines is no KV content, and `MergeSection` then takes upstream's block, which is empty for a file without markers. `MergeKV` does what the code does with sections: it merges one map over all of them
(the last section that has a key decides) and writes no header back. `SyncEngine` keeps a content where the code
keeps its hash. A step of a run is `ReadFiles` (which decides and merges), `WriteConflictBackups`, `WriteDeployed`,
`WriteOrigCopy`, `Record`; each write may fail where the code goes on after a failure, and `Crash` stops the program
between any two. Releases, edits and faults are bounded by `Budget`; `calm[f]` counts the undisturbed steps on a file
since the last release and is -1 for ever once a user or a fault has touched it.

Left out: permissions, symbolic links, the text of a file below its settings, template variables (a release
carries its rendered form), an edit between the read and the write of one step, which the code would overwrite.

### The smaller services

* `FileGuard`: `affected` is the map, `visiting[r]` what a timer function has yet to restore; a `range` over a Go map
  may or may not see an addition (`SeeAddition`), and the runtime may notice a concurrent write and end the
  daemon (`RuntimeStops`). A restore may fail (`RestoreFails`): it gives up with a log line, or finds no Hyprland to generate for, and
  nothing comes of it; or it has spoilt the file first (`os.WriteFile` truncates, an unreadable source makes the file
  an unauthorized one), which fsnotify reports and another restore follows.
* `QuickshellSupervisor`: `killer` holds the mutex from SIGTERM to the end of its wait; the process may be `deaf` to it.
* `Brightness`: `known` is the list, `ddc` the screens that were detected with a bus of their own (none or one of two in the instance),
  `setting` the goroutines of `go setBrightness`, `poll` the copy a poll began with, what it has read and the panels it has still to read, one
  step each, `emitting` the copies on their way to the callback.
* `AntiFlashbang`: `queue` is `eventCh` with its bounded room, which drops a line that finds it full; `pending` is the debounce,
  `flushing[f]` a goroutine of a flush, which measures a screen and then stores the multiplier; `Disconnected` may leave lines in the channel,
  and while `subscribed` is false `Run` sleeps between two connections.
* `StatusService`: `source` is the real thing, `stored` the service's copy, `view` the frontend's; the actions
  `DetectState`, `FetchState`, `PollAll`, ... are the bodies of one `Tick`.
* `Installer`: a `Task` says what it leaves on the disk and how (beside its target and then over it, in place, only
  if nothing is there, after removing what is there, with its error ignored), a `Step` whether its failure ends the run and which artefact
  makes it skip.
  `PassOver` is a step that returns nil with the rest of it undone, and `forgone` what this run has passed over: the frontend, when
  its directory may not be made, the generated files, when Hyprland does not run, the Python environment, when uv is missing.
* `CompositorSetup`: `signature` is the instance in the daemon's environment, `assumed` the dialect detected at
  start; a request arrives if the instance still lives and is understood if the dialect is right. Coordinates
  are whole numbers and `Logical` rounds as `math.Round` does. `WorkspacesSplit` reads the lists of workspaces alone; the positions, the binds and
  the dialect are there because the handlers set them in the same step, decide by them whether anything is written, and are what
  the counterexamples of section 5 about the compositor were found with.

## 3. The runs

Each run answers one question. A passing run finishes with no error; for each of its properties
`PROJECT.json` names a mutant, a definition with a plausible bug of this code (a dropped guard, a missing reset, an
off-by-one), under which the run finds the property violated.

| run | question | bounds | states |
|---|---|---|---|
| `lock_all` | does any interleaving of all operations allow two checks, or lose the end of a lockout? do QML and service agree while operations do not overlap? | 2 callers, 1 commander, 2 tickers, 2 attempts, 2 ticks, 1 activation | 1.6 M |
| `lock_throttle` | how many guesses does someone in front of the screen get, and how long is a lockout? | 2 callers, 1 commander, 2 tickers, 3 attempts, 3 ticks; no unlock command | 0.12 M |
| `idle_rest` | what do display, timers, inhibitors and deep idle agree on whenever nothing runs? | 1 client, 2 applications, 1 delay; one program at a time | 84 k |
| `idle_races` | can a delayed lock get out of reach, or a change of a source be lost, when goroutines interleave? | 1 client, 4 monitors, 2 delays; at most 2 goroutines at work at once (a constraint), delays symmetric | 0.52 M |
| `idle_autolock` | is a session that nobody uses locked in the end? | 1 client, 1 application, 1 delay; one program at a time; fair | 16 k |
| `shell_keyboard` | does the keyboard follow the state, and a lost focus get noticed? | 2 timers, channel of 2, 1 locker; fair | 0.35 M |
| `shell_mode` | does the mode survive, does a client see the current state, does the loop know the lock? | channel of 2, 2 restarts or failed saves, 1 client | 7.5 M |
| `dm_cycles` | what is left of a cycle that failed anywhere, is the socket reachable, are credentials judged and answered? | 2 connections, channel of 1, 1 attempt per second, 1 fault or client that does not read; fair | 93 k |
| `sync_files` | which edits survive releases, conflicts and crashes, does an untouched file catch up, does syncing settle? | 6 files in 4 plans, 2 releases, 2 edits, 1 fault | 0.20 M |
| `sync_startup` | the counterexample of a finding: does an untouched start-up file catch up? | the same files, 1 release, no edit, no fault | - |
| `services` | the properties of the smaller services and of the tablet mode monitor in section 1, each with its own races and faults | 3 files, 2 timer functions, 2 changes, 1 failed restore; 2 restarts allowed, 3 kills; 2 screens with and without a bus of their own, 3 levels, 2 upsets; 2 flushes, a channel of 1, 2 lines, 1 loss; each status service with 2 changes, 1 request, 1 failure; 2 mishaps of the installer; 3 monitors, 2 reloads, 1 upheaval; 2 keyboards, 2 timers, at most 2 goroutines at work at once | 0.39 M |
| `lock_unanswered` | the counterexample of a finding | small | - |

`services` is one run with eight subjects: `ServicesMC` conjoins the modules, each behaviour moves one of them and
the others rest in a state in which nothing of theirs is due, so the states add up and do not multiply. They
share no state in the code that a step of these modules touches. Deadlock is checked in every other run; in
`services` a subject really may stop (a guard with nothing to restore, a set-up that is done), so it is not.

Why the bounds are enough. Two of a kind is where these components can go wrong: two checks, an old
and a new ticker, a delay that is cancelled and one that replaces it, a fired timer and an armed one, two
publications. The attempt limit and the lockout are reached in every run of the lock screen, and a channel
of two is full as soon as two senders meet. The timeouts keep their order (`LockDelay < IdleTimeout`)
and not their ratio, which no decision depends on. Where operations interleave freely the number of states
grows too fast for three goroutines of the idle service or of the tablet monitor; the bound `AtMostTwo` in
their MC modules keeps all pairs, and the theorems below have no such bound.

For the display manager one fault at any step and free exits of the session's processes reach every error path, and
two connections with a channel of one give a blocked handler and a waiting one. For the sync engine two releases
and two edits reach every row of the decision table, and one fault hits each write once. The installer's two mishaps
are a run cut short, or a step passed over, and a second one that meets what the first left. A channel of one line is full after the first, and
two lines are one that fills it and one that is dropped.

`Serialised`. `IdleService` and `ShellState` have a constant `Serialised` that forbids an operation to start while another
one runs (in `ShellState`: a client to connect while the loop is at work). The properties "with nothing
under way, A agrees with B" are checked with it, because with overlapping operations several of them do
not hold: section 5. `LockScreenMC` and `TabletModeMC` do the same with a history variable, `disturbed`: the
instance explores every interleaving, and the property is stated for the behaviours in which no two
operations have overlapped.

## 4. Fairness

* `LockScreen`: goroutines are scheduled (weak fairness of `Run`), a password check returns (PAM and su have
  time-outs of their own), and seconds pass: `Second` is strongly fair, since each try leaves a
  moment at which nothing but a check is under way, and a ticker is not delayed by typing.
* `IdleService`: goroutines are scheduled, the compositor reports idleness, the connection is retried for
  ever (`waylandLoop`), the five-second powersave ticker runs, time passes.
* `ShellState`: the loop runs and timers fire; a send on the channel is strongly fair because Go serves blocked
  senders in order. Nothing is assumed of the user, the input method or clients.
* `TabletMode`: goroutines that have begun go on, timers fire and time passes.
* `DisplayManager`: the cycle, the listener and its closer run; a compositor that lives listens in the end; a session that
  was started ends (a user logs out); a handler that sends on the channel is strongly fair, as above.
* `SyncEngine`: none. `Settles` says that no behaviour changes files for ever, however often the engine is run.
* `FileGuard`, `QuickshellSupervisor`, `Brightness`, `AntiFlashbang`, `StatusService`: goroutines run and
  tickers tick; of the emitted copies and calls the oldest is delivered. qs ends when its context has ended (it is killed).
* `Installer`: a task ends one way or the other, and a user whose set-up failed runs it again.

The liveness properties of the modules in `services` state the fairness of their module in front of them (`GuardFairness => ...`), so that a
behaviour about one of them assumes nothing of the others and the specification of the run is the steps alone.

No fairness is assumed of a user's edits and commands, a crash, a failure or a compositor restart.

## 5. Findings and known counterexamples

`sync_startup` shows a disagreement between the code and README.md of the repository, whose line 74 says of the start-up files `Merge only
between # >>> snry-shell >>> markers`. The shipped files have no markers. The first deployment wraps them (`engine.go:366`); the
baseline in the manifest is the unwrapped content, so the next release finds a conflict, and `ExtractBlock(upstream)` is nil without
markers (`sectionparse/parser.go:19`). For a file whose lines are no settings, `~/.bash_profile` for one, `merge.go:25` then puts the empty
block in place of the old one, and what upstream ships is gone from a file nobody touched. A file with settings fares no better: to the merge upstream has dropped every key the user left alone.

`lock_unanswered` shows a disagreement between the code and its comment: `lockscreen.go:36` says that `AuthResult is emitted
after every Authenticate call`, and a call that is refused at the door emits nothing.

Known counterexamples, which TLC finds when the named property is checked without the restriction it carries in
the passing runs:

| property | instance | what happens |
|---|---|---|
| `AgreeAtRest` | `lock_all` without `~disturbed` | `EmitSnapshot` reads the flag, a Lock stores and emits, the old value is broadcast: QML is unlocked over a locked service (`lockscreen.go:262`) |
| `AgreeAtRest` | the same, `Fingerprint = TRUE` | a fingerprint takes the surface away in QML and the daemon stays locked (`LockContext.qml:126`) |
| `TimersMatchLock` | `IdleService`, two clients that lock and unlock, `Serialised = FALSE` | two `NotifyLockChanged` read the provider in one order and store in the other; the timers stay those of the wrong mode (`idle.go:383`) |
| `ScreenSaverExact` | `IdleService`, two applications, `Serialised = FALSE` | an Inhibit between UnInhibit's look at the empty map and its callback is lowered again (`screensaver.go:37`) |
| `LitWhileInhibited` | `IdleService`, a block and activity, `Serialised = FALSE` | the idled handler tested the inhibition before it was raised and turns the display off (`idle.go:264`) |
| `LockoutNotCutShort` | `LockScreen`, `Commands <- LockAndUnlock` | the ticker of a lockout that an unlock ended lives on and lifts the next lockout early (`lockscreen.go:190`; 189 says `Unlock clears the locked state and resets auth tracking`) |
| `LogindExact` | `IdleService`, `Requests <- IdleBlock` | the block list is searched for `:idle:` in the quoted form of the value: idle alone, first or last is not found (`idle.go:681`; 628-629 name `systemd-inhibit --what=idle`) |
| `FocusNotLost` | `ShellState`, `Inputs <- FocusOnly` | a hide timer that has fired cannot be stopped; its event is handled after the focus came back (`app.go:445`; 444 says `focus returned before delay expired`) |
| `AutoLock` | `IdleService`, unlock commands at any time | an unlock of a session that is dark but not locked yet lights the display, which calls off the delay, and creates no timer: the compositor sends no second idled event (`idle.go:382`) |
| `LockAgrees` | `ShellState`, two lockers | two callers store in one order and send in the other (`app.go:787`) |
| `ViewCurrent` | `ShellState`, `Serialised = FALSE` | a snapshot read while the loop works is written after the loop emitted (`app.go:564`) |
| `ToldCurrent` | `services`, without `~disturbed` | two publications swap or call back in the order opposite to the one they read in (`tabletmode.go:102`); a failed logind query is not published (`tabletmode.go:249`) |

Consequences the models show, or that were found by reading while modelling. None has a run of its own.

* Lock screen, idle, state loop: a DPMS request that is refused is neither noticed nor repeated (`idle.go:201`); a mode that could not be
  saved is lost with the next restart, and truncated it is the automatic one (`app.go:593`); a compositor without `ext_idle_notifier_v1` makes the Wayland loop reconnect without a pause
  (`idle.go:545`); PrepareForSleep locks through `doLock`, which does nothing while idling is inhibited (`idle.go:612`); the state
  command `apply-wallpaper` has no handler (`commands.go:874`).
* Display manager: a listener that fails leaves the cycle in `waitForAuth` with no way to be reached; nobody watches the greeter's
  processes there either, so a greeter that crashes is not replaced until shutdown (hence no liveness from "wait" itself is claimed).
  A `.socket.sock` left by a killed compositor is taken for the next one's (`greeter.go:133`, `pam.go:353`). A handler blocked on a full
  channel stays blocked after its cycle (`socket.go:179`), the state "stuck". `emitAll` writes to every client under the mutex and without a time
  limit (`socket.go:283`): a client that does not read and whose buffer is full holds up the answer to every other, the accept loop and, since the
  cycle is in that write, the shutdown as well.
* Sync engine: a merged file loses its section headers, and a key that two sections have collapses to one (`kvparse/merge.go`).
  The baseline hash never advances (`engine.go:170`), so from the second release on an untouched file meets upstream as a conflict,
  whose first sync turns the file into the new `.orig` copy and whose second takes upstream (`UntouchedCatchesUp`). The same befalls the
  user's file: the first sync with a conflicting release backs it up and reports the conflict, the second takes upstream, and then the `.orig` copy
  holds the only trace of the user's value. A third release is a conflict again, reported again, and `WriteConflictBackups` overwrites
  that copy with the file as it is (`conflict.go:26`): three syncs without a hand on the keyboard and the value is gone. This is
  the one exemption of `LostOnlyInConflict`, and without it TLC shows these steps. A release that takes a value back to the
  baseline leaves an untouched file as it was, and one that drops a key which an earlier one had changed leaves the key in it (both are what
  `ReleasesGrow` excludes). A conflict without a `.orig` copy is settled for upstream. `~/.config/bash/bashrc` and `~/.bashrc` share
  one manifest entry (`files.go:335`). `README.md:71` of the repository says that overwrite always replaces, the code keeps a file
  the user changed while upstream stands still; line 74 says that only the marked block is merged, a file without a
  baseline or without markers is replaced (`engine.go:380`); line 75 names files for skip-if-exists
  for which `categorize.go` has no rule; line 76 says that a template is merged, it is overwritten.
* File guard: restoring a shipped file always writes it, which fsnotify reports, which restores it again, about ten times a
  second; an event that arrives while a restore runs is thrown away with the map; a restore that fails is logged and forgotten, and one of a
  generated file while Hyprland does not run is not even logged (`autoscale.go:147`), so that the file stays wrong until it is changed again; new subdirectories are not watched; no part
  of `app.go` starts the guard.
* Brightness: a multiplier other than one compounds through the poll, which stores the multiplied level, and the next request
  multiplies again; the goroutines of two requests may set the panel in the other order, which the next poll makes the truth;
  monitors are detected once; screens without DDC share one backlight; the level shown is stale for good when an older
  emission is delivered last (`crossed`). AntiFlashbang: events between two connections are missed, as are those that find the channel
  full of lines that mean nothing (`brightness.go:182`) and those left in it when the connection ends (`brightness.go:215`), and of two flushes
  that overlap the older measurement may be stored last and stay; the monitors are not listed anew after a reconnection. All of them are `excused`.
* Status services: "disconnected" contains "connected", so a wifi that is not connected is shown as connected (`network.go:140`); the resources' threshold is
  in kB where bytes were meant, and a snapshot of them is neither stored nor complete; a failed read of the weather blanks it, one of the updates
  shows none; gamemode's Disable reloads Hyprland and loses binds made at run time, and its Enable counts as done when the options
  could not be set; `memoryAvailable` of the resources is never compared (`resources.go:199`); easyeffects is shown inactive while it still ends.
* Installer: three steps pass over in silence what they cannot do, and the run reports success: `already deployed` is printed exactly when the
  directory of the frontend could not be made (`files.go:242`), nothing is generated when Hyprland does not run (`autoscale.go:147`, 229) and no Python
  environment is made without uv (`files.go:588`); the error of writing `snry-override.lua` is discarded (`files.go:311`). `CompleteIsWhole` names them. A signal between two steps makes the step runner and every later phase return nil, and the command prints success
  (`steps.go:32`; `CompleteIsWhole` excuses it); a virtual environment that was cut off after its `activate` script is trusted for ever (`files.go:598`;
  `SetupConverges` excuses it), and so is a truncated PAM file, whose step is optional; uninstall removes what the list of installed files names, which is
  one marker, though `uninstall.go:13` says `removes installed files and reverts system changes`; `autoscale` from
  the command line passes no client and fails always (`main.go:108`); the message about the link is printed when linking failed (`files.go:445`).
* Compositor: `isHyprlandAvailable` looks at an environment variable that does not change by itself, so the branch for a Hyprland that
  was lost is never taken, though the comment on the watcher describes it (`app.go:704`); `defer cleanupBinds()` keeps the empty initial function
  (`app.go:715`); each autoscale divides positions that are logical already (`autoscale.go:189`); more than ten monitors get no
  workspace each; nothing is generated again after a hotplug until a reload.

## 6. The proofs

The theorems hold for every value of the constants that the named assumptions allow: any number of
goroutines, applications, timers, any limits and capacity, overlapping operations or not. Every safety
invariant and every action property that a passing run checks is a theorem (two of them under hypotheses that are named). Each inductive invariant was
first checked by TLC as an invariant of the run it belongs to.

### LockScreenProofs

* `TypeCorrect`, `AuthExclusive` (`OneAuthAtATime`), `LockoutIsLifted` (`LockoutHasTicker`).
  Invariant `IInv`: `TypeOK /\ ProgramsOK /\ OneAuthAtATime /\ LockoutHasTicker`. `ProgramsOK` is needed
  because the safety of a step depends on what its goroutine has yet to run: "enter" and "leave" occur only in
  callers, a caller past its entry ends with exactly one "leave", and "setLockedOut" is always followed by
  "startTicker". `TailShape` and the lemmas on concatenation show that returning from and calling an operation
  keep these shapes. Assumptions: `ThreadsAssumption` (a goroutine has one role), `LimitsAssumption`.
* `GateIsExact` (`LockoutExact`) and `ThrottleImplemented`: the service implements `AttemptThrottle` (initial states
  map to initial states, every step to a step of the throttle or a stutter). Hypothesis `PasswordsOnly`: no unlock,
  auto-unlock or locked start among the commands, which is what "in front of the screen" means; with an unlock the
  property is false (section 5). Invariant `GInv`: beyond the count and the flag, what each goroutine does next and may
  do after it (`Chained`), that callers only report while the gate is shut (`OnlyReports`), that one ticker counts or opens
  at a time and nobody is past the gate then (`OneCountdown`, `OneOpening`).
* `ScreenFollowsService` (`AgreeUnlessDisturbed`), of `MCSpec`, whose history variable records whether two
  operations have overlapped. Invariant `Following`: every program stores before it shows (`StoresFirst`), and the one under
  way, run alone from where it stands, ends with the lock screen shown exactly when the service is locked (`Settles`).

### IdleServiceProofs

* `InhibitionIsFollowed` (`InhibitionFollows`) and `PolicyImplemented`, the safety part of `InhibitionSpec`: initial
  states map to initial states and every step to a step of the policy or a stutter. Invariant:
  `FlagsOK /\ inhibited \in BOOLEAN /\ ProgramsOK /\ InhibitionFollows`, where `ProgramsOK` says that every
  operation that stores a flag has a "recompute" after it. Recomputing is one step because the code's section is
  under the mutex; storing a flag is not, and that is the interleaving the theorem is about.
* `TypesHold` (`TypeOK`). Invariant `TInv`: the types of the values, which operations each goroutine runs and in which
  order (`ProgramsWellFormed`), and that a count of fullscreen windows that is going to rise has room (`RoomToCount`).
* `DelaysAreNotOrphaned` (`NoOrphanDelay`), in every interleaving. The idled handler overwrites `lockCancel` without looking
  whether a delay still runs; that none does follows from the clocks: `DelayEndsFirst`, a running delay ends before any idle timer of an
  unlocked session can, and `FreshWhileArming`, a timer that runs while a delay is being started has just begun.
  This is where `LockDelay < IdleTimeout` is used.
* `AgreementAtRest` (`AgreeAtRest`), `NobodyLockedOutWhileLit` (`NoLockWhileLit`), `DarkForAReason` (`DarkOnPurpose`), all under
  `Serialised`, without which they are false (section 5); the last one also without a lost Wayland connection. What holds at rest is
  not inductive; `OneStory` says for every operation the one program at work may be in the middle of what is already done
  and what it is still going to do.
* Assumption: `IdleThreadsAssumption` (a goroutine has one role, and no delay is called "nil").

### ShellStateProofs

* `TypeCorrect`, `KeyboardFollows` (`OskFollows`), `KeyboardUnderLock` (`NoOskOverLock`), `ModeSurvives` (`ModeSaved`, which excuses a save that failed). Invariant:
  the types, what the loop's position says about the mode file (`ModeKept`), that a restart starts fresh
  (`LoadsFresh`), and a form of `OskFollows` that also covers the positions at which a handler has run and nothing is
  emitted (`OskKept`). It needs the fact that a timer or its event exists as long as a hide is due.
* `PartiesAgree` (`StatesAgree`), with one goroutine in Lock or Unlock at a time and `Serialised`; both are needed (section 5).
  Invariant `Agreed`: what was emitted last is what a client shows, and is the state at each point where the loop waits
  (`ClientTold`); the last lock event in the channel is the flag's, or there is none and the loop knows the flag (`LockKnown`).
* `FocusIsLetGo`: a loop at rest does not believe in a field that has lost the focus. Invariant `FocusKnown`: the last focus
  event in the channel is the deactivation, or it was handled and a hide is still coming if the focus was kept. Both use
  `ReceiveKeepsOrder` and `SendKeepsOrder`, on the last event of a kind in a channel.

### TabletModeProofs

* `TypeCorrect` (`TypeOK`) and `TimerNeverLost` (`KeyboardTimerLives`): the property is nearly inductive; what it needs
  is the type of the timers.
* `FlagFollowsSources` (`FollowsUnlessDisturbed`), of `WatchedSpec`, which has the instance's history variable and not
  its bound on goroutines at work. Invariant `Following`: what the one publication under way has read and swapped so far
  (`AtWork`), and that the one armed timer has what is left of the timeout since the last key (`OneTimer`).

### DisplayManagerProofs

`TypeCorrect` (`TypeOK`), `NothingOutlivesItsCycle` (`CleanBetweenCycles`), `CompositorsApart` (`OneCompositor`),
`SessionsAreGranted` (`SessionGranted`), `SocketStaysReachable` (`SocketReachable`). `CleanBetweenCycles` is not inductive, because it says nothing of
the positions from which a cycle ends: `Held` says for every position of the cycle which processes may live, which mode the VT
has and how far the PAM transaction is. `SocketReachable` needs `ListenerHeld`: no listener of an earlier
cycle is waiting to be closed, the path is this cycle's whenever its listener is open and not cancelled, it is not
cancelled while credentials are taken, and it is before the path is removed. Assumption: `BoundsAssumption` (the
limits are positive). The timing assumption is part of the module (`Ticked`, section 2).

### KVMergeProofs and SyncEngineProofs

* Five facts about `ThreeWayMergeKV` for all contents, users and releases: a value only the user changed survives
  (`UserChangeSurvives`), an untouched key follows upstream (`UntouchedFollowsUpstream`), what is deleted and added
  (`DeletionsAndAdditions`), without a reported conflict each side's change is in the result (`NothingLostInSilence`),
  and merging a file with itself changes nothing (`MergeWithItself`). They rest on no invariant.
* `SeedsAndConflictsKept`: the conjunct `SeedKept` of `LostOnlyInConflict`, without a hypothesis. Invariant `JobOK`: the
  result a step is about to write is the content it read whenever the strategy seeds or a conflict was found, which
  needs that nothing but the engine writes the file between its read and its write.
* `EditsLostOnlyInConflict` (`LostOnlyInConflict`): of the user's values that the file and its `.orig` copy hold before a step, none is
  missing from both after it, but for one that the copy alone held in a step that reports a conflict. Invariant `KInv`: at each stage of
  a step, what is still to be written and what is on the disk already hold the user's values and lines between them (`StepOK`).
  Hypothesis `PlainContents`: what is shipped and written is a document, no key stands in two of its sections, and no release has a
  value of the user's. The code merges one map over all sections, so with such a key the property is false (section 5).
* `TrackingFilesCatchUp` (`UntouchedCatchesUp`), for merge-kv, overwrite and template files; a merge-section file does not catch up
  (`sync_startup`). Invariant `Catching`: file, `.orig` copy, baseline and upstream are releases in
  this order (`OnItsWay`), for a file between two steps and for the one in work, with what the step still has to write. The
  core is `MergeReachesUpstream`: a merge without a conflict takes such a file all the way. Hypotheses: `PlainContents`,
  and `ReleasesGrow`, that releases only add keys and bring no value back. Nothing in the code demands this of the files it
  ships, but a baseline that never advances cannot follow others: section 5 has the counterexamples. TLC evaluates it for the instance.

### ServicesProofs

* `GivenUpForCause` (`GivesUpForCause`). Invariant `Counted`: the count is at most one more than the short runs in a row since the last
  long one, and Run is done only when stopped or when the count has passed the limit.
* `SuccessIsWhole` (`CompleteIsWhole`). Invariant `InstallInv`: the insisted-on artefacts of every step before the current one are
  whole in this run or passed over by it, and an artefact that makes a step skip is never half done. That the steps are such that this suffices
  (`StepsSound`) is checked step by step on the data of the module.
* `EveryWorkspaceOnce` (`WorkspacesSplit`), for any number of monitors: `RunsSplit`, on the runs of workspaces
  that integer division gives; the rest is that the file is only ever written from a list of different monitors.
* The safety halves of four liveness properties, each with a history variable for the races the code leaves open:
  `GuardRestsOnRightFiles` (a wrong file is remembered by an event, the map or a function under way, also after a restore that failed
  half-way; a name in the map has a timer or a function that will visit it; excused are what went with the map or the daemon and a
  restore that gave up), `MultipliersFollow` (a screen whose multiplier is old has a line in the channel, is pending, or due in one of
  the flushes that run, however many overlap; excused is what nobody heard, what failed, and a measurement stored before an older one), `BrightnessIsShown` and `ViewIsWhatIsStored` (the newest copy on its way is what the service
  holds; `AnotherInLine`, `RemovedFromLine`). Hypotheses: `Levels \in Nat`; no file is called "asleep", the value that marks an
  idle function in the model.

### Only model-checked

* Liveness: `LockoutEnds`, `AutoLock`, `FocusLeaves`, `KeyboardGoesIdle`, `AttemptAnswered`, `GreeterReturns`, `Settles`,
  `ChangesUndone`, `QsComesBack`, `BrightnessSettles`, `MultiplierFollows`, `ViewCatchesUp`, `SetupConverges`, and the fairness
  of `InhibitionSpec`: they need ENABLED, which is out of the prover's reach.
* `PlainContents` quantifies over all contents and TLC does not evaluate it; the documents, releases and edits of
  `SyncEngineMC` are chosen to satisfy it (`MCEdits` adds a key only if no section has it).

## 7. Not modelled

`PROJECT.json` lists every part with its reason. In short: subprocess wrappers and system calls (no state beyond a cached
answer), numerical code (colour, images), text below the level of settings and markers, `hyprparse` (the strategy that uses it
has no file shipped; read, its merge duplicates binds and `exec` lines), conflict detection, clipboard history, the virtual keyboard, Fedora's
package steps, the QML frontend apart from the lock panel, and the suspend time-out of the idle service, which is disabled where the
service is built.

## 8. Plan

1. `Emitter`: broadcast to clients that do not read, and the senders it blocks, with the shutdown of the state loop (`app.go:335`).
2. Composition: `LockScreen` with `IdleService` and `ShellState`, where `onLockscreenEvent` runs `NotifyLockChanged`, the send to
   the loop and the broadcast on the caller's goroutine in that order; `ShellState` with `TabletMode`.
3. `SyncEngine`: an abstract three-way module that it implements.
4. Proofs: the safety halves of the liveness properties that have none yet (`AutoLock`: a dark unlocked session has a
   delay or a timer; `AttemptAnswered`: a credential is in the channel, with a handler or judged; `GreeterReturns`);
   the per-subject theorems lifted to `ServicesMC`; the merge of the own lines as lemmas of `KVMerge`.
