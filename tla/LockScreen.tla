------------------------------ MODULE LockScreen ------------------------------
(***************************************************************************)
(* The daemon's lock screen service (internal/daemon/lockscreen) together  *)
(* with the QML lock screen it talks to (common/panels/lock).              *)
(*                                                                         *)
(* The service keeps four atomics: locked, attempts, lockedOut and inAuth. *)
(* Every operation on them is a goroutine: an `auth' command starts one    *)
(* per password, each socket client's dispatcher and the logind monitor    *)
(* run Lock and Unlock, and each lockout leaves a ticker goroutine behind. *)
(* Only the entry of Authenticate is guarded by the mutex, so the model    *)
(* gives every atomic store and every emitted event a step of its own.     *)
(*                                                                         *)
(* todo[t] is the program that thread t has yet to run: its head is the    *)
(* next atomic store or event, a call replaces the head by the callee's    *)
(* program, and a thread whose program is empty is at rest.                *)
(***************************************************************************)
EXTENDS Naturals, Sequences

CONSTANTS
  Callers,        \* goroutines running Authenticate
  Commanders,     \* goroutines that run the other commands
  Tickers,        \* lockout ticker goroutines (a bound: the code has no limit)
  Commands,       \* the commands the commanders issue in this instance
  MaxAttempts,    \* Config.MaxAttempts
  LockoutTicks,   \* Config.LockoutDuration, in ticks of the ticker
  MaxActivations, \* bound on the pending `qs ipc call lock activate' processes
  Fingerprint     \* TRUE: the QML lock screen has a fingerprint reader

AllCommands == {"lock", "lock startup", "unlock", "auto-unlock", "power-button",
                "connect", "restart QML"}

ASSUME ThreadsAssumption ==
  /\ Callers \cap Commanders = {}
  /\ Callers \cap Tickers = {}
  /\ Commanders \cap Tickers = {}

ASSUME LimitsAssumption ==
  /\ MaxAttempts \in Nat \ {0}
  /\ LockoutTicks \in Nat \ {0}
  /\ MaxActivations \in Nat
  /\ Commands \subseteq AllCommands
  /\ Fingerprint \in BOOLEAN

Threads == Callers \cup Commanders \cup Tickers

VARIABLES
  locked,      \* Service.locked
  attempts,    \* Service.attempts
  lockedOut,   \* Service.lockedOut
  inAuth,      \* Service.inAuth
  todo,        \* the rest of every thread's program
  left,        \* ticks until a ticker goroutine's deadline, 0 when it has none
  ui,          \* the QML lock screen
  activations  \* lock activations on their way to the QML lock screen

service == <<locked, attempts, lockedOut, inAuth>>
vars == <<locked, attempts, lockedOut, inAuth, todo, left, ui, activations>>

----------------------------------------------------------------------------
(* The QML side: GlobalStates.screenLocked and the fields of LockContext.  *)

UiState == [locked: BOOLEAN, waiting: BOOLEAN, out: BOOLEAN, secs: 0..LockoutTicks]

\* LockContext.reset(): also run when the screen becomes locked.
UiReset(u) == [u EXCEPT !.waiting = FALSE, !.out = FALSE, !.secs = 0]

\* A new QML process: nothing is locked until the daemon says so.
UiFresh == [locked |-> FALSE, waiting |-> FALSE, out |-> FALSE, secs |-> 0]

\* onScreenLockedChanged resets the context when the screen becomes locked.
UiSetLocked(u, v) ==
  IF v /\ ~u.locked THEN [UiReset(u) EXCEPT !.locked = TRUE]
                    ELSE [u EXCEPT !.locked = v]

\* onUnlocked: the screen is unlocked first, then the context is reset.
UiUnlocked(u) == UiReset([u EXCEPT !.locked = FALSE])

\* onAuthResult of an unsuccessful result.
UiRefused(u, out) == [u EXCEPT !.waiting = FALSE, !.out = out]

\* onLockoutTick.
UiTick(u, n) == [u EXCEPT !.secs = n, !.out = @ /\ n > 0]

----------------------------------------------------------------------------
(* Programs.                                                               *)

LockProgram == <<"setLocked", "emitLocked">>

\* The `lock' command: Lock, then tell the QML side to show the lock screen.
LockCommandProgram == <<"setLocked", "emitLocked", "activate">>

\* Bug: the event is forgotten, as SetLocked does on purpose.
UnlockSilently == <<"clearLocked", "zeroAttempts", "clearLockedOut">>

UnlockProgram == <<"clearLocked", "zeroAttempts", "clearLockedOut", "emitUnlocked">>

TryAutoUnlockProgram ==
  <<"clearLocked", "zeroAttempts", "clearLockedOut", "emitUnlocked", "emitSuccess">>

LockWithAutoUnlockProgram ==
  <<"zeroAttempts", "clearLockedOut", "clearLocked", "emitUnlocked", "emitSuccess">>

SuccessProgram == LockWithAutoUnlockProgram

\* Bug: the goroutine that lifts the lockout is never started.
LockoutWithoutTicker == <<"setLockedOut", "emitLockedOut">>

LockoutProgram == <<"setLockedOut", "startTicker", "emitLockedOut">>

\* Bugs: the end of the lockout leaves the gate shut, or the count at its limit.
ExpireKeepingShut == <<"zeroAttempts", "emitTick", "emitReset">>

ExpireKeepingAttempts == <<"clearLockedOut", "emitTick", "emitReset">>

ExpireProgram ==
  <<"clearLockedOut", "zeroAttempts", "emitTick", "emitReset">>

Ops == {"enter", "check", "leave", "addAttempt", "emitRefused",
        "setLocked", "clearLocked", "zeroAttempts", "setLockedOut", "clearLockedOut",
        "startTicker", "emitLocked", "emitUnlocked", "emitSuccess", "emitLockedOut",
        "emitTick", "emitReset", "lockIfUnlocked", "activate", "readState"}

----------------------------------------------------------------------------
(* Running a program.                                                      *)

AtRest(t) == todo[t] = <<>>

At(t, op) == todo[t] # <<>> /\ Head(todo[t]) = op

\* The thread waits for PAM and su, which take as long as they like.
Waiting(t) == At(t, "check")

\* No goroutine is between two of its steps, so time may pass.
Settled == \A t \in Threads : AtRest(t) \/ Waiting(t)

Return(t) == todo' = [todo EXCEPT ![t] = Tail(@)]

Call(t, program) == todo' = [todo EXCEPT ![t] = program \o Tail(@)]

Begin(t, program) == AtRest(t) /\ todo' = [todo EXCEPT ![t] = program]

Idle(g) == AtRest(g) /\ left[g] = 0

----------------------------------------------------------------------------
(* Authenticate.                                                           *)

\* Bugs: the entry looks at one of the two flags only.
EnterWhileInAuth(c) ==
  /\ At(c, "enter")
  /\ IF lockedOut
       THEN Return(c) /\ UNCHANGED inAuth
       ELSE Call(c, <<"check", "leave">>) /\ inAuth' = TRUE
  /\ UNCHANGED <<locked, attempts, lockedOut, left, ui, activations>>

EnterWhileLockedOut(c) ==
  /\ At(c, "enter")
  /\ IF inAuth
       THEN Return(c) /\ UNCHANGED inAuth
       ELSE Call(c, <<"check", "leave">>) /\ inAuth' = TRUE
  /\ UNCHANGED <<locked, attempts, lockedOut, left, ui, activations>>

\* The guarded entry: one check at a time, none while locked out.
Enter(c) ==
  /\ At(c, "enter")
  /\ IF inAuth \/ lockedOut
       THEN Return(c) /\ UNCHANGED inAuth
       ELSE Call(c, <<"check", "leave">>) /\ inAuth' = TRUE
  /\ UNCHANGED <<locked, attempts, lockedOut, left, ui, activations>>

CheckSucceeds(c) ==
  /\ At(c, "check")
  /\ Call(c, SuccessProgram)
  /\ UNCHANGED <<service, left, ui, activations>>

CheckFails(c) ==
  /\ At(c, "check")
  /\ \E g \in Tickers : Idle(g)  \* the bound on ticker goroutines
  /\ Call(c, <<"addAttempt">>)
  /\ UNCHANGED <<service, left, ui, activations>>

AddAttempt(c) ==
  /\ At(c, "addAttempt")
  /\ attempts' = attempts + 1
  /\ Call(c, IF attempts + 1 >= MaxAttempts THEN LockoutProgram ELSE <<"emitRefused">>)
  /\ UNCHANGED <<locked, lockedOut, inAuth, left, ui, activations>>

\* startLockout: the flag, then the ticker goroutine with its deadline.
SetLockedOut(c) ==
  /\ At(c, "setLockedOut")
  /\ lockedOut' = TRUE
  /\ Return(c)
  /\ UNCHANGED <<locked, attempts, inAuth, left, ui, activations>>

\* Bug: the deadline is a tick late.
StartTickerLate(c) ==
  /\ At(c, "startTicker")
  /\ \E g \in Tickers : Idle(g) /\ left' = [left EXCEPT ![g] = LockoutTicks + 1]
  /\ Return(c)
  /\ UNCHANGED <<service, ui, activations>>

StartTicker(c) ==
  /\ At(c, "startTicker")
  /\ \E g \in Tickers : Idle(g) /\ left' = [left EXCEPT ![g] = LockoutTicks]
  /\ Return(c)
  /\ UNCHANGED <<service, ui, activations>>

\* The deferred inAuth.Store(false).
Leave(c) ==
  /\ At(c, "leave")
  /\ inAuth' = FALSE
  /\ Return(c)
  /\ UNCHANGED <<locked, attempts, lockedOut, left, ui, activations>>

----------------------------------------------------------------------------
(* Stores and events shared by several programs.                           *)

SetLocked(t) ==
  /\ At(t, "setLocked")
  /\ locked' = TRUE
  /\ Return(t)
  /\ UNCHANGED <<attempts, lockedOut, inAuth, left, ui, activations>>

ClearLocked(t) ==
  /\ At(t, "clearLocked")
  /\ locked' = FALSE
  /\ Return(t)
  /\ UNCHANGED <<attempts, lockedOut, inAuth, left, ui, activations>>

ZeroAttempts(t) ==
  /\ At(t, "zeroAttempts")
  /\ attempts' = 0
  /\ Return(t)
  /\ UNCHANGED <<locked, lockedOut, inAuth, left, ui, activations>>

ClearLockedOut(t) ==
  /\ At(t, "clearLockedOut")
  /\ lockedOut' = FALSE
  /\ Return(t)
  /\ UNCHANGED <<locked, attempts, inAuth, left, ui, activations>>

\* What the QML lock screen makes of an event.
Received(t, op) ==
  CASE op = "emitLocked"    -> UiSetLocked(ui, TRUE)
    [] op = "emitUnlocked"  -> UiSetLocked(ui, FALSE)
    [] op = "emitSuccess"   -> UiUnlocked(ui)
    [] op = "emitRefused"   -> UiRefused(ui, FALSE)
    [] op = "emitLockedOut" -> UiRefused(ui, TRUE)
    [] op = "emitReset"     -> UiRefused(ui, FALSE)
    [] op = "emitTick"      -> UiTick(ui, left[t])

Events == {"emitLocked", "emitUnlocked", "emitSuccess", "emitRefused", "emitLockedOut",
           "emitReset", "emitTick"}

Emit(t) ==
  /\ \E op \in Events : At(t, op) /\ ui' = Received(t, op)
  /\ Return(t)
  /\ UNCHANGED <<service, left, activations>>

\* EmitSnapshot reads the flag first and writes to every client later.
ReadState(t) ==
  /\ At(t, "readState")
  /\ Call(t, IF locked THEN <<"emitLocked">> ELSE <<"emitUnlocked">>)
  /\ UNCHANGED <<service, left, ui, activations>>

\* The `lock' command tests the flag first.
LockIfUnlocked(t) ==
  /\ At(t, "lockIfUnlocked")
  /\ Call(t, IF locked THEN <<>> ELSE LockCommandProgram)
  /\ UNCHANGED <<service, left, ui, activations>>

\* dispatchQsLock; processes beyond the bound are merged with a pending one.
StartActivation(t) ==
  /\ At(t, "activate")
  /\ activations' = IF activations < MaxActivations THEN activations + 1 ELSE activations
  /\ Return(t)
  /\ UNCHANGED <<service, left, ui>>

----------------------------------------------------------------------------
(* What starts the programs.                                               *)

\* The keyring may or may not be open when an auto-unlock asks.
ProgramsOf(command) ==
  CASE command = "lock"         -> {<<"lockIfUnlocked">>}
    [] command = "power-button" -> {LockProgram}
    [] command = "unlock"       -> {UnlockProgram}
    [] command = "lock startup" -> {LockProgram, LockWithAutoUnlockProgram}
    [] command = "auto-unlock"  -> {TryAutoUnlockProgram}
    [] command = "connect"      -> {<<"readState">>}
    [] command = "restart QML"  -> {<<"readState">>}

\* A command, or the connection of a client, whose snapshot goes to every client.
Command(k) ==
  /\ \E command \in Commands :
       /\ \E program \in ProgramsOf(command) : Begin(k, program)
       /\ ui' = IF command = "restart QML" THEN UiFresh ELSE ui
  /\ UNCHANGED <<service, left, activations>>

\* tryUnlock: the field is disabled while an answer is awaited.
TryUnlock(c) ==
  /\ ui.locked
  /\ ~ui.waiting
  /\ ui' = [ui EXCEPT !.waiting = TRUE]
  /\ Begin(c, <<"enter">>)
  /\ UNCHANGED <<service, left, activations>>

\* passwordClearTimer: ten seconds, so nothing but a password check is under way.
ClearTimer ==
  /\ Settled
  /\ ui' = UiReset(ui)
  /\ ui' # ui
  /\ UNCHANGED <<service, todo, left, activations>>

\* fingerPam.onCompleted: the lock surface goes, and nothing is sent.
FingerprintUnlock ==
  /\ Fingerprint
  /\ ui.locked
  /\ ui' = UiUnlocked(ui)
  /\ UNCHANGED <<service, todo, left, activations>>

\* lock.activate: a QML lock screen that is not locked locks and sends `lock'.
Activate(k) ==
  /\ activations > 0
  /\ activations' = activations - 1
  /\ IF ui.locked
       THEN UNCHANGED <<todo, ui>>
       ELSE /\ Begin(k, <<"lockIfUnlocked">>)
            /\ ui' = UiSetLocked(ui, TRUE)
  /\ UNCHANGED <<service, left>>

\* One second: every ticker counts down, and the last tick lifts the lockout.
\* The code between two blocking calls is assumed to take less than a tick.
Second ==
  /\ Settled
  /\ \E g \in Tickers : left[g] > 0
  /\ left' = [g \in Tickers |-> IF left[g] > 0 THEN left[g] - 1 ELSE 0]
  /\ todo' = [t \in Threads |->
                IF t \in Tickers /\ left[t] > 0
                  THEN IF left[t] = 1 THEN ExpireProgram ELSE <<"emitTick">>
                  ELSE todo[t]]
  /\ UNCHANGED <<service, ui, activations>>

----------------------------------------------------------------------------

Init ==
  /\ locked = FALSE
  /\ attempts = 0
  /\ lockedOut = FALSE
  /\ inAuth = FALSE
  /\ todo = [t \in Threads |-> <<>>]
  /\ left = [g \in Tickers |-> 0]
  /\ ui = UiFresh
  /\ activations = 0

\* Steps of a thread whose program is not empty.
Run(t) ==
  \/ SetLocked(t) \/ ClearLocked(t) \/ ZeroAttempts(t) \/ ClearLockedOut(t)
  \/ Emit(t) \/ ReadState(t) \/ LockIfUnlocked(t) \/ StartActivation(t)
  \/ Enter(t) \/ AddAttempt(t) \/ SetLockedOut(t) \/ StartTicker(t) \/ Leave(t)

Check(c) == CheckSucceeds(c) \/ CheckFails(c)

Next ==
  \/ \E t \in Threads : Run(t)
  \/ \E c \in Callers : Check(c) \/ TryUnlock(c)
  \/ \E k \in Commanders : Command(k) \/ Activate(k)
  \/ ClearTimer
  \/ FingerprintUnlock
  \/ Second

Spec == Init /\ [][Next]_vars

\* Goroutines are scheduled and password checks return.  A second passes even if
\* someone keeps typing: each try leaves a moment in which all threads are settled.
Fairness ==
  /\ \A t \in Threads : WF_vars(Run(t))
  /\ \A c \in Callers : WF_vars(Check(c))
  /\ SF_vars(Second)

FairSpec == Spec /\ Fairness
----------------------------------------------------------------------------
(* Properties.                                                             *)

\* The types of the variables.
TypeOK ==
  /\ locked \in BOOLEAN
  /\ attempts \in Nat
  /\ lockedOut \in BOOLEAN
  /\ inAuth \in BOOLEAN
  /\ todo \in [Threads -> Seq(Ops)]
  /\ left \in [Tickers -> 0..LockoutTicks]
  /\ ui \in UiState
  /\ activations \in 0..MaxActivations

\* Authenticate is past its guarded entry.
Running(c) == ~AtRest(c) /\ ~At(c, "enter")

\* However the goroutines interleave, at most one password check runs, and inAuth
\* is set exactly while it does: `Serialise entry so only one auth runs at a time'.
OneAuthAtATime ==
  /\ \A c, d \in Callers : Running(c) /\ Running(d) => c = d
  /\ inAuth <=> \E c \in Callers : Running(c)

\* A goroutine that is going to lift the lockout.
WillLift(t) == At(t, "clearLockedOut") \/ At(t, "startTicker")

\* A lockout is never left without a goroutine that lifts it: whatever Unlock and
\* older tickers did in between, the user is not locked out for ever.
LockoutHasTicker ==
  lockedOut => \/ \E g \in Tickers : left[g] > 0
               \/ \E t \in Threads : WillLift(t)

\* Nothing is under way.
Quiet == activations = 0 /\ Settled

\* When nothing is under way, QML shows the lock screen iff the service is locked.
AgreeAtRest == Quiet => ui.locked = locked

\* Once no Authenticate runs, the QML side no longer waits for an answer to it:
\* `AuthResult is emitted after every Authenticate call'.
EveryCallAnswered == (\A c \in Callers : AtRest(c)) => ~ui.waiting

\* The ticker of an earlier lockout never lifts a later one: `Unlock clears the
\* locked state and resets auth tracking'.
LockoutNotCutShort ==
  \A g \in Tickers : lockedOut /\ At(g, "clearLockedOut") => \A h \in Tickers : left[h] = 0

\* With the counter at the limit the gate is shut, but for the goroutine that is
\* just shutting it and the ticker that is just reopening it.
GateShutAtLimit ==
  attempts >= MaxAttempts =>
    \/ lockedOut
    \/ \E c \in Callers : At(c, "setLockedOut")
    \/ \E g \in Tickers : At(g, "zeroAttempts")

\* In front of a locked screen the gate stays shut from the attempt that reached the
\* limit until the ticker of that very lockout opens it.
LockoutExact == GateShutAtLimit /\ LockoutNotCutShort

\* Every lockout ends.
LockoutEnds == lockedOut ~> ~lockedOut

----------------------------------------------------------------------------
(* The service as a throttle on password guessing.                         *)

\* A failed check that reached the limit has shut the gate before it says so.
Shutting == \E c \in Callers : At(c, "setLockedOut") \/ At(c, "startTicker")

Longest == CHOOSE n \in 0..LockoutTicks :
             /\ \A g \in Tickers : left[g] <= n
             /\ n = 0 \/ \E g \in Tickers : left[g] = n

Throttle == INSTANCE AttemptThrottle WITH
  failures  <- IF Shutting \/ lockedOut THEN MaxAttempts
               ELSE IF \E g \in Tickers : At(g, "zeroAttempts") THEN 0 ELSE attempts,
  shut      <- Shutting \/ lockedOut,
  remaining <- IF Shutting THEN LockoutTicks ELSE Longest

\* Someone who can only type passwords gets no more guesses than the throttle allows.
ThrottleSpec == Throttle!Spec
=============================================================================
