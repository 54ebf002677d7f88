------------------------------ MODULE IdleService ------------------------------
(***************************************************************************)
(* The idle service of the daemon (internal/daemon/idle) with the parts it *)
(* drives: the ScreenSaver D-Bus object, the lock flag of the lock screen  *)
(* service, the display power state and the deep idle mode (PowerSave).    *)
(*                                                                         *)
(* The service has no loop of its own.  The Wayland dispatcher, the logind *)
(* monitors, the Hyprland event reader, every client of the daemon socket, *)
(* every D-Bus call of an application and every delayed lock is a          *)
(* goroutine that calls its methods.  The mutex covers short sections; the *)
(* atomics, the DPMS command and the callbacks are outside, so each        *)
(* section, each atomic access and each call out is a step.                *)
(*                                                                         *)
(* todo[t] is the program that thread t has yet to run, as in LockScreen.  *)
(***************************************************************************)
EXTENDS Naturals, Sequences

CONSTANTS
  Clients,       \* socket clients, each with a dispatcher of its own
  Apps,          \* applications that call org.freedesktop.ScreenSaver
  Delays,        \* lock delay goroutines (a bound: the code has no limit)
  Requests,      \* what the world asks for in this instance
  MaxFullscreen, \* bound on fullscreenCount
  IdleTimeout,   \* Config.IdleTimeout, in ticks
  LockDelay,     \* Config.LockDelay, in ticks
  DisplayOffTimeout, \* Config.LockDisplayOffTimeout, in ticks
  Threshold,     \* the threshold of the deep idle mode, in ticks
  Serialised     \* TRUE: no program starts while another one is running

Monitors == {"wayland", "logind", "inhibits", "hyprland"}

AllRequests == {"lock", "unlock", "password", "power-button", "logind lock", "logind unlock",
                "inhibit", "uninhibit",
                "block idle", "block sleep and idle", "release",
                "fullscreen", "unfullscreen", "hyprland restart", "wayland restart",
                "activity", "leave"}

ASSUME IdleThreadsAssumption ==
  /\ Clients \cap Apps = {} /\ Clients \cap Delays = {} /\ Apps \cap Delays = {}
  /\ Monitors \cap (Clients \cup Apps \cup Delays) = {}
  /\ "nil" \notin Delays

ASSUME IdleLimitsAssumption ==
  /\ Requests \subseteq AllRequests
  /\ MaxFullscreen \in Nat \ {0}
  /\ LockDelay \in Nat \ {0}
  /\ IdleTimeout \in Nat \ {0}
  /\ LockDelay < IdleTimeout  \* three seconds against five minutes
  /\ DisplayOffTimeout \in Nat \ {0}
  /\ Threshold \in Nat \ {0}
  /\ Serialised \in BOOLEAN

Threads == Clients \cup Apps \cup Delays \cup Monitors

VARIABLES
  locked,       \* lockscreen.Service.locked, the lockedProvider
  flags,        \* the inhibition sources, with Service.fullscreenCount
  inhibitors,   \* ScreenSaver.inhibitors, the applications in it
  blocked,      \* logind's BlockInhibited property
  inhibited,    \* Service.inhibited
  displayOn,    \* Service.displayOn
  dpms,         \* what Hyprland was last told, carried out or not: TRUE for on
  forced,       \* Service.displayOffForced
  lastLocked,   \* Service.lastLocked
  lockCancel,   \* the goroutine that Service.lockCancel cancels, or "nil"
  delay,        \* the lock delay goroutines
  notif,        \* the idle notification object in the compositor
  connected,    \* Service.manager # nil
  away,         \* the user has left and nothing else happens any more
  todo,         \* the rest of every thread's program
  screenOff, since, active  \* the deep idle mode

PS == INSTANCE PowerSave

display == <<displayOn, dpms, forced, lastLocked>>
sources == <<flags, inhibitors, blocked>>
timers == <<lockCancel, delay, notif, connected>>
powersave == <<screenOff, since, active>>
vars == <<locked, sources, inhibited, display, timers, away, todo, powersave>>

----------------------------------------------------------------------------
(* Programs.                                                               *)

\* setDisplay(on): a gate under the mutex, then three steps outside it.
DisplayOn == <<"onGate">>
DisplayOff == <<"storeOff", "dpmsOff", "reportOff">>

\* lockscreen.Service.Lock and Unlock, whose event calls NotifyLockChanged.
Lock == <<"setLocked", "notify">>
Unlock == <<"clearLocked", "notify">>

\* doLock, and the resumed handler of both notifications.
DoLock == <<"testInhibited">>
Resumed == DisplayOn \o <<"recreate">>

Ops == {"onGate", "storeOn", "dpmsOn", "reportOn", "storeOff", "dpmsOff", "reportOff",
        "setLocked", "clearLocked", "notify", "noteLocked", "noteUnlocked",
        "testInhibited", "testLocked", "recreate", "recompute", "suppress",
        "idledLocked", "idledUnlocked", "armDelay",
        "storeInhibitor", "deleteInhibitor", "rangeInhibitors",
        "screensaverOn", "screensaverOff", "logindOn", "logindOff",
        "countUp", "countDown", "countReset"}

\* logind's list of what is blocked, in its fixed order.  The daemon blocks the power
\* key and the lid switch itself.
BlockInhibited ==
  [request \in {"block idle", "block sleep and idle", "release"} |->
     CASE request = "release"              -> <<"handle-power-key", "handle-lid-switch">>
       [] request = "block idle"           -> <<"idle", "handle-power-key",
                                                "handle-lid-switch">>
       [] request = "block sleep and idle" -> <<"sleep", "idle", "handle-power-key",
                                                "handle-lid-switch">>]

\* handleBlockInhibited looks for `:idle:' in `:"a:b:c":': the variant's String method
\* quotes the list, so the first and the last entry are never recognised.
HandleBlockInhibited(list) == \E i \in 2..(Len(list) - 1) : list[i] = "idle"

\* Whose request it is, and the program that serves it.
ThreadsFor(request) ==
  CASE request \in {"lock", "unlock", "password", "power-button"} -> Clients
    [] request \in {"inhibit", "uninhibit"}           -> Apps
    [] request \in {"logind lock", "logind unlock"}   -> {"logind"}
    [] request \in DOMAIN BlockInhibited              -> {"inhibits"}
    [] request \in {"fullscreen", "unfullscreen", "hyprland restart"} -> {"hyprland"}
    [] request \in {"wayland restart", "activity", "leave"} -> {}

ProgramFor(request) ==
  CASE request = "lock"             -> <<"testLocked">>
    [] request = "unlock"           -> Unlock
    [] request = "password"         -> Unlock  \* a successful Authenticate
    [] request = "power-button"     -> <<"suppress">> \o Lock \o DisplayOff
    [] request = "logind lock"      -> DoLock  \* and PrepareForSleep
    [] request = "logind unlock"    -> Unlock \o DisplayOn
    [] request = "inhibit"          -> <<"storeInhibitor", "screensaverOn", "recompute">>
    [] request = "uninhibit"        -> <<"deleteInhibitor", "rangeInhibitors">>
    [] request \in DOMAIN BlockInhibited ->
         IF HandleBlockInhibited(BlockInhibited[request])
           THEN <<"logindOn", "recompute">> ELSE <<"logindOff", "recompute">>
    [] request = "fullscreen"       -> <<"countUp", "recompute">>
    [] request = "unfullscreen"     -> <<"countDown", "recompute">>
    [] request = "hyprland restart" -> <<"countReset", "recompute">>

\* A password is typed on the lock screen; an application releases what it holds and
\* takes what it does not hold.
Sensible(t, request) ==
  /\ request = "password" => locked
  /\ request = "inhibit" => t \notin inhibitors
  /\ request = "uninhibit" => t \in inhibitors
  /\ request = "fullscreen" => flags.fullscreen < MaxFullscreen

----------------------------------------------------------------------------
(* Running a program.                                                      *)

AtRest(t) == todo[t] = <<>>

At(t, op) == todo[t] # <<>> /\ Head(todo[t]) = op

Quiet == \A t \in Threads : AtRest(t)

MayBegin == Serialised => Quiet

Return(t) == todo' = [todo EXCEPT ![t] = Tail(@)]

Call(t, program) == todo' = [todo EXCEPT ![t] = program \o Tail(@)]

Begin(t, program) == AtRest(t) /\ MayBegin /\ todo' = [todo EXCEPT ![t] = program]

----------------------------------------------------------------------------
(* Inhibition.                                                             *)

Raised == {s \in {"screensaver", "logind"} : flags[s]}
            \cup (IF flags.fullscreen > 0 THEN {"fullscreen"} ELSE {})

\* Bug: leaving fullscreen counts below zero.
FlagsAfterUnclamped(op) ==
  CASE op = "screensaverOn"  -> [flags EXCEPT !.screensaver = TRUE]
    [] op = "screensaverOff" -> [flags EXCEPT !.screensaver = FALSE]
    [] op = "logindOn"       -> [flags EXCEPT !.logind = TRUE]
    [] op = "logindOff"      -> [flags EXCEPT !.logind = FALSE]
    [] op = "countUp"        -> [flags EXCEPT !.fullscreen = @ + 1]
    [] op = "countDown"      -> [flags EXCEPT !.fullscreen = @ - 1]
    [] op = "countReset"     -> [flags EXCEPT !.fullscreen = 0]

FlagsAfter(op) ==
  CASE op = "screensaverOn"  -> [flags EXCEPT !.screensaver = TRUE]
    [] op = "screensaverOff" -> [flags EXCEPT !.screensaver = FALSE]
    [] op = "logindOn"       -> [flags EXCEPT !.logind = TRUE]
    [] op = "logindOff"      -> [flags EXCEPT !.logind = FALSE]
    [] op = "countUp"        -> [flags EXCEPT !.fullscreen = @ + 1]
    [] op = "countDown"      -> [flags EXCEPT !.fullscreen = IF @ > 0 THEN @ - 1 ELSE 0]
    [] op = "countReset"     -> [flags EXCEPT !.fullscreen = 0]

FlagOps == {"screensaverOn", "screensaverOff", "logindOn", "logindOff",
            "countUp", "countDown", "countReset"}

SetFlag(t) ==
  /\ \E op \in FlagOps : At(t, op) /\ flags' = FlagsAfter(op)
  /\ Return(t)
  /\ UNCHANGED <<locked, inhibitors, blocked, inhibited, display, timers, away, powersave>>

\* Bugs: a source is left out; the state only ever rises.
RecomputeWithoutFullscreen(t) ==
  /\ At(t, "recompute")
  /\ inhibited' = (Raised \ {"fullscreen"} # {})
  /\ IF inhibited' = inhibited THEN Return(t) ELSE Call(t, <<"recreate">>)
  /\ UNCHANGED <<locked, sources, display, timers, away, powersave>>

RecomputeRisingOnly(t) ==
  /\ At(t, "recompute")
  /\ inhibited' = (inhibited \/ Raised # {})
  /\ IF inhibited' = inhibited THEN Return(t) ELSE Call(t, <<"recreate">>)
  /\ UNCHANGED <<locked, sources, display, timers, away, powersave>>

\* recomputeInhibition: one section under the mutex decides what comes after it.
Recompute(t) ==
  /\ At(t, "recompute")
  /\ inhibited' = (Raised # {})
  /\ IF inhibited' = inhibited THEN Return(t)
     ELSE IF inhibited' /\ ~displayOn /\ ~locked THEN Call(t, DisplayOn \o <<"recreate">>)
     ELSE Call(t, <<"recreate">>)
  /\ UNCHANGED <<locked, sources, display, timers, away, powersave>>

StoreInhibitor(t) ==
  /\ At(t, "storeInhibitor")
  /\ inhibitors' = inhibitors \cup {t}
  /\ Return(t)
  /\ UNCHANGED <<locked, flags, blocked, inhibited, display, timers, away, powersave>>

DeleteInhibitor(t) ==
  /\ At(t, "deleteInhibitor")
  /\ inhibitors' = inhibitors \ {t}
  /\ Return(t)
  /\ UNCHANGED <<locked, flags, blocked, inhibited, display, timers, away, powersave>>

\* UnInhibit calls back only when it finds the map empty.
RangeInhibitors(t) ==
  /\ At(t, "rangeInhibitors")
  /\ IF inhibitors = {} THEN Call(t, <<"screensaverOff", "recompute">>) ELSE Return(t)
  /\ UNCHANGED <<locked, sources, inhibited, display, timers, away, powersave>>

----------------------------------------------------------------------------
(* Display power.                                                          *)

\* lockCancel(): nothing happens if the goroutine is gone.
Cancelled == IF lockCancel = "nil" THEN delay
             ELSE [delay EXCEPT ![lockCancel].cancelled = delay[lockCancel].running]

\* Bugs: the state is stored although the display is forced off; no lock is cancelled.
OnGateStoring(t) ==
  /\ At(t, "onGate")
  /\ IF forced
       THEN Call(t, <<"storeOn">>) /\ UNCHANGED <<lockCancel, delay>>
       ELSE /\ Call(t, <<"storeOn", "dpmsOn", "reportOn">>)
            /\ delay' = Cancelled
            /\ lockCancel' = "nil"
  /\ UNCHANGED <<locked, sources, inhibited, display, notif, connected, away, powersave>>

OnGateKeepingDelay(t) ==
  /\ At(t, "onGate")
  /\ IF forced THEN Return(t) ELSE Call(t, <<"storeOn", "dpmsOn", "reportOn">>)
  /\ UNCHANGED <<locked, sources, inhibited, display, timers, away, powersave>>

\* The head of setDisplay(true).
OnGate(t) ==
  /\ At(t, "onGate")
  /\ IF forced
       THEN Return(t) /\ UNCHANGED <<lockCancel, delay>>
       ELSE /\ Call(t, <<"storeOn", "dpmsOn", "reportOn">>)
            /\ delay' = Cancelled
            /\ lockCancel' = "nil"
  /\ UNCHANGED <<locked, sources, inhibited, display, notif, connected, away, powersave>>

StoreDisplay(t) ==
  /\ \/ At(t, "storeOn") /\ displayOn' = TRUE
     \/ At(t, "storeOff") /\ displayOn' = FALSE
  /\ Return(t)
  /\ UNCHANGED <<locked, sources, inhibited, dpms, forced, lastLocked, timers, away,
                 powersave>>

\* setDPMS throws the answer of Hyprland away: a refused request leaves the panel as it
\* was and the service none the wiser.
SetDPMS(t) ==
  /\ \/ At(t, "dpmsOn") /\ dpms' = TRUE
     \/ At(t, "dpmsOff") /\ dpms' = FALSE
  /\ Return(t)
  /\ UNCHANGED <<locked, sources, inhibited, displayOn, forced, lastLocked, timers, away,
                 powersave>>

\* onDisplayChange
ReportDisplay(t) ==
  /\ \/ At(t, "reportOn") /\ PS!SetScreenOff(FALSE, locked)
     \/ At(t, "reportOff") /\ PS!SetScreenOff(TRUE, locked)
  /\ Return(t)
  /\ UNCHANGED <<locked, sources, inhibited, display, timers, away>>

\* SuppressDisplayOn(true)
Suppress(t) ==
  /\ At(t, "suppress")
  /\ forced' = TRUE
  /\ Return(t)
  /\ UNCHANGED <<locked, sources, inhibited, displayOn, dpms, lastLocked, timers, away,
                 powersave>>

----------------------------------------------------------------------------
(* The lock.                                                               *)

SetLocked(t) ==
  /\ \/ At(t, "setLocked") /\ locked' = TRUE
     \/ At(t, "clearLocked") /\ locked' = FALSE
  /\ Return(t)
  /\ UNCHANGED <<sources, inhibited, display, timers, away, powersave>>

\* doLock gives up while inhibited or locked; so does the `lock' command while locked.
TestInhibited(t) ==
  /\ At(t, "testInhibited")
  /\ IF inhibited THEN Return(t) ELSE Call(t, <<"testLocked">>)
  /\ UNCHANGED <<locked, sources, inhibited, display, timers, away, powersave>>

TestLocked(t) ==
  /\ At(t, "testLocked")
  /\ IF locked THEN Return(t) ELSE Call(t, Lock)
  /\ UNCHANGED <<locked, sources, inhibited, display, timers, away, powersave>>

\* NotifyLockChanged reads the provider before it takes the mutex.
Notify(t) ==
  /\ At(t, "notify")
  /\ Call(t, IF locked THEN <<"noteLocked">> ELSE <<"noteUnlocked">>)
  /\ UNCHANGED <<locked, sources, inhibited, display, timers, away, powersave>>

\* Bug: the display stays forced off after an unlock.
NoteKeepingForced(t, v) ==
  /\ At(t, IF v THEN "noteLocked" ELSE "noteUnlocked")
  /\ lastLocked' = v
  /\ UNCHANGED forced
  /\ Call(t, IF v # lastLocked THEN DisplayOn \o <<"recreate">> ELSE DisplayOn)
  /\ UNCHANGED <<locked, sources, inhibited, displayOn, dpms, timers, away, powersave>>

\* Its section under the mutex, with the value v it read.
Note(t, v) ==
  /\ At(t, IF v THEN "noteLocked" ELSE "noteUnlocked")
  /\ lastLocked' = v
  /\ forced' = (forced /\ v)
  /\ Call(t, IF v # lastLocked THEN DisplayOn \o <<"recreate">> ELSE DisplayOn)
  /\ UNCHANGED <<locked, sources, inhibited, displayOn, dpms, timers, away, powersave>>

----------------------------------------------------------------------------
(* Timers.                                                                 *)

NoNotif == [mode |-> "none", idled |-> FALSE, left |-> 0]

Timeout(mode) == IF mode = "locked" THEN DisplayOffTimeout ELSE IdleTimeout

NewNotif(mode) == [mode |-> mode, idled |-> FALSE, left |-> Timeout(mode)]

\* Bug: an existing notification is kept.
RecreateIfMissing(t) ==
  /\ At(t, "recreate")
  /\ notif' = IF ~connected \/ notif.mode # "none" THEN notif
              ELSE NewNotif(IF locked THEN "locked" ELSE "unlocked")
  /\ Return(t)
  /\ UNCHANGED <<locked, sources, inhibited, display, lockCancel, delay, connected, away,
                 powersave>>

\* recreateTimers: all of it under waylandMu, with one look at the lock.
Recreate(t) ==
  /\ At(t, "recreate")
  /\ notif' = IF ~connected THEN notif
              ELSE NewNotif(IF locked THEN "locked" ELSE "unlocked")
  /\ Return(t)
  /\ UNCHANGED <<locked, sources, inhibited, display, lockCancel, delay, connected, away,
                 powersave>>

\* The idled handlers: nothing happens while inhibited.
Idled(t) ==
  /\ \/ At(t, "idledLocked") /\ Call(t, IF inhibited THEN <<>> ELSE DisplayOff)
     \/ /\ At(t, "idledUnlocked")
        /\ Call(t, IF inhibited THEN <<>> ELSE DisplayOff \o <<"armDelay">>)
  /\ UNCHANGED <<locked, sources, inhibited, display, timers, away, powersave>>

NoDelay == [running |-> FALSE, cancelled |-> FALSE, left |-> 0]

\* Bug: the cancel function goes to a local variable.
ArmDelayShadowed(t) ==
  /\ At(t, "armDelay")
  /\ \E d \in Delays :
       /\ AtRest(d) /\ ~delay[d].running
       /\ delay' = [delay EXCEPT ![d] =
                      [running |-> TRUE, cancelled |-> FALSE, left |-> LockDelay]]
  /\ Return(t)
  /\ UNCHANGED <<locked, sources, inhibited, display, lockCancel, notif, connected, away,
                 powersave>>

\* The cancellable lock goroutine; an older cancel function is overwritten.
ArmDelay(t) ==
  /\ At(t, "armDelay")
  /\ \E d \in Delays :
       /\ AtRest(d) /\ ~delay[d].running
       /\ delay' = [delay EXCEPT ![d] =
                      [running |-> TRUE, cancelled |-> FALSE, left |-> LockDelay]]
       /\ lockCancel' = d
  /\ Return(t)
  /\ UNCHANGED <<locked, sources, inhibited, display, notif, connected, away, powersave>>

\* The goroutine's select: with both channels ready it may take either.
DelayExpires(d) ==
  /\ delay[d].running /\ delay[d].left = 0
  /\ delay' = [delay EXCEPT ![d] = NoDelay]
  /\ Begin(d, DoLock)
  /\ UNCHANGED <<locked, sources, inhibited, display, lockCancel, notif, connected, away,
                 powersave>>

DelayCancelled(d) ==
  /\ delay[d].running /\ delay[d].cancelled
  /\ delay' = [delay EXCEPT ![d] = NoDelay]
  /\ UNCHANGED <<locked, sources, inhibited, display, lockCancel, notif, connected, away,
                 todo, powersave>>

\* The compositor: its idled event starts the handler of the notification's mode.
NotifDue == notif.mode # "none" /\ ~notif.idled /\ notif.left = 0

NotifIdles ==
  /\ NotifDue
  /\ notif' = [notif EXCEPT !.idled = TRUE]
  /\ Begin("wayland", IF notif.mode = "locked" THEN <<"idledLocked">>
                                               ELSE <<"idledUnlocked">>)
  /\ UNCHANGED <<locked, sources, inhibited, display, lockCancel, delay, connected, away,
                 powersave>>

\* The user does something: the countdown starts again, or the resumed event comes.
Activity ==
  /\ ~away
  /\ "activity" \in Requests
  /\ notif.mode # "none"
  /\ notif' = NewNotif(notif.mode)
  /\ notif' # notif
  /\ IF notif.idled THEN Begin("wayland", Resumed) ELSE UNCHANGED todo
  /\ UNCHANGED <<locked, sources, inhibited, display, lockCancel, delay, connected, away,
                 powersave>>

\* cleanupWayland after the compositor is gone.
WaylandLost ==
  /\ ~away
  /\ "wayland restart" \in Requests
  /\ connected
  /\ AtRest("wayland")
  /\ MayBegin
  /\ connected' = FALSE
  /\ notif' = NoNotif
  /\ UNCHANGED <<locked, sources, inhibited, display, lockCancel, delay, away, todo,
                 powersave>>

\* initAndDispatch: manager and seat are set, then the timers are created.
WaylandConnect ==
  /\ ~connected
  /\ connected' = TRUE
  /\ Begin("wayland", <<"recreate">>)
  /\ UNCHANGED <<locked, sources, inhibited, display, lockCancel, delay, notif, away,
                 powersave>>

----------------------------------------------------------------------------
(* The world.                                                              *)

Request(t) ==
  /\ ~away
  /\ \E request \in Requests :
       /\ t \in ThreadsFor(request)
       /\ Sensible(t, request)
       /\ Begin(t, ProgramFor(request))
       /\ blocked' = IF request \in DOMAIN BlockInhibited THEN BlockInhibited[request]
                                                         ELSE blocked
  /\ UNCHANGED <<locked, flags, inhibitors, inhibited, display, timers, away, powersave>>

\* The user leaves, and neither applications nor the system do anything from now on.
Leave ==
  /\ ~away
  /\ "leave" \in Requests
  /\ away' = TRUE
  /\ UNCHANGED <<locked, sources, inhibited, display, timers, todo, powersave>>

\* powersave.Service.Tick, every five seconds.
PowersaveTick ==
  /\ MayBegin
  /\ PS!EnterPowersave(locked)
  /\ UNCHANGED <<locked, sources, inhibited, display, timers, away, todo>>

\* One unit of time: no goroutine has anything to do but wait, which assumes that a
\* handler takes less time than the shortest timer.
Tick ==
  /\ Quiet
  /\ connected
  /\ ~NotifDue
  /\ \A d \in Delays : delay[d].running => delay[d].left > 0 /\ ~delay[d].cancelled
  /\ delay' = [d \in Delays |-> IF delay[d].running THEN [delay[d] EXCEPT !.left = @ - 1]
                                                    ELSE delay[d]]
  /\ notif' = IF notif.mode = "none" \/ notif.idled THEN notif
              ELSE [notif EXCEPT !.left = @ - 1]
  /\ since' = PS!Age
  /\ UNCHANGED <<locked, sources, inhibited, display, lockCancel, connected, away, todo,
                 screenOff, active>>

----------------------------------------------------------------------------

Init ==
  /\ locked = FALSE
  /\ flags = [screensaver |-> FALSE, logind |-> FALSE, fullscreen |-> 0]
  /\ inhibitors = {}
  /\ blocked = BlockInhibited["release"]
  /\ inhibited = FALSE
  /\ displayOn = TRUE
  /\ dpms = TRUE
  /\ forced = FALSE
  /\ lastLocked = FALSE
  /\ lockCancel = "nil"
  /\ delay = [d \in Delays |-> NoDelay]
  /\ notif = NoNotif
  /\ connected = FALSE
  /\ away = FALSE
  /\ todo = [t \in Threads |-> <<>>]
  /\ PS!PsInit

Run(t) ==
  \/ SetFlag(t) \/ Recompute(t)
  \/ StoreInhibitor(t) \/ DeleteInhibitor(t) \/ RangeInhibitors(t)
  \/ OnGate(t) \/ StoreDisplay(t) \/ SetDPMS(t) \/ ReportDisplay(t) \/ Suppress(t)
  \/ SetLocked(t) \/ TestInhibited(t) \/ TestLocked(t) \/ Notify(t)
  \/ Note(t, TRUE) \/ Note(t, FALSE)
  \/ Recreate(t) \/ Idled(t) \/ ArmDelay(t)

Delayed(d) == DelayExpires(d) \/ DelayCancelled(d)

Next ==
  \/ \E t \in Threads : Run(t) \/ Request(t)
  \/ \E d \in Delays : Delayed(d)
  \/ NotifIdles \/ Activity
  \/ WaylandLost \/ WaylandConnect
  \/ Leave
  \/ PowersaveTick
  \/ Tick

Spec == Init /\ [][Next]_vars

\* Goroutines are scheduled, the compositor sends its events, the Wayland connection is
\* retried for ever and time passes.
Fairness ==
  /\ \A t \in Threads : WF_vars(Run(t))
  /\ \A d \in Delays : WF_vars(Delayed(d))
  /\ WF_vars(NotifIdles)
  /\ WF_vars(WaylandConnect)
  /\ WF_vars(PowersaveTick)
  /\ WF_vars(Tick)

FairSpec == Spec /\ Fairness

----------------------------------------------------------------------------
(* Properties.                                                             *)

FlagsType == [screensaver : BOOLEAN, logind : BOOLEAN, fullscreen : 0..MaxFullscreen]

DelayType == [running : BOOLEAN, cancelled : BOOLEAN, left : 0..LockDelay]

NotifType == [mode : {"none", "locked", "unlocked"}, idled : BOOLEAN, left : Nat]

\* The types of the variables.
TypeOK ==
  /\ locked \in BOOLEAN
  /\ flags \in FlagsType
  /\ inhibitors \subseteq Apps
  /\ \E request \in DOMAIN BlockInhibited : blocked = BlockInhibited[request]
  /\ inhibited \in BOOLEAN
  /\ displayOn \in BOOLEAN /\ dpms \in BOOLEAN
  /\ forced \in BOOLEAN /\ lastLocked \in BOOLEAN
  /\ lockCancel \in Delays \cup {"nil"}
  /\ delay \in [Delays -> DelayType]
  /\ notif \in NotifType
  /\ connected \in BOOLEAN
  /\ away \in BOOLEAN
  /\ todo \in [Threads -> Seq(Ops)]
  /\ PS!PsTypeOK

\* Thread t is going to recompute the inhibition.
WillRecompute(t) == \E i \in 1..Len(todo[t]) : todo[t][i] = "recompute"

\* The inhibition the timers go by never gets out of step with its sources for good:
\* while they differ, some goroutine that changed a source has yet to recompute it.
InhibitionFollows ==
  inhibited # (Raised # {}) => \E t \in Threads : WillRecompute(t)

\* A lock that is still coming can be called off: its goroutine is the one lockCancel
\* knows, so that turning the display on cancels it.
NoOrphanDelay ==
  \A d \in Delays : delay[d].running /\ ~delay[d].cancelled => lockCancel = d

\* With no goroutine busy, the service, what it told Hyprland last and the deep idle mode
\* agree on whether the display is on.
DisplayAgrees == Quiet => dpms = displayOn /\ screenOff = ~displayOn

\* With no goroutine busy, the idle timer is the one for the state of the lock: a timer
\* of the wrong mode never locks the session, or leaves it dark after three seconds.
TimersMatchLock ==
  Quiet /\ notif.mode # "none" => notif.mode = IF locked THEN "locked" ELSE "unlocked"

\* Nobody who has come back and made the display come on is locked out by the timer of
\* his absence.
NoLockWhileLit == Quiet /\ displayOn => \A d \in Delays : ~delay[d].running \/ delay[d].cancelled

\* An unlocked session is dark only until the user does something: the notification
\* that will report it is waiting.
DarkUntilActivity ==
  Quiet /\ ~displayOn /\ ~locked => notif.mode = "unlocked" /\ notif.idled

\* The display of an unlocked session is on while something inhibits idling.
LitWhileInhibited == Quiet /\ inhibited /\ ~locked => displayOn

\* With no D-Bus call under way the ScreenSaver source is raised iff an application
\* holds an inhibitor.
ScreenSaverExact == Quiet => flags.screensaver = (inhibitors # {})

\* With no signal under way the logind source is raised iff logind lists idle:
\* `watches the logind BlockInhibited property for systemd-inhibit --what=idle'.
LogindExact == Quiet => flags.logind = \E i \in 1..Len(blocked) : blocked[i] = "idle"

\* The deep idle mode is left with the lock: it never outlives an unlock.
DeepIdleEndsWithLock == Quiet /\ active => locked /\ screenOff

\* With no goroutine busy the separate steps of setDisplay, NotifyLockChanged, UnInhibit
\* and SetScreenOff have left the display, the timer of the lock state, the ScreenSaver
\* source and the deep idle mode telling the same story.
AgreeAtRest ==
  /\ DisplayAgrees
  /\ TimersMatchLock
  /\ ScreenSaverExact
  /\ DeepIdleEndsWithLock

\* An unlocked session is dark for a reason only: nothing inhibits idling, and the first
\* activity will light it.
DarkOnPurpose == DarkUntilActivity /\ LitWhileInhibited

\* A session that nobody uses and nothing inhibits is locked in the end, goes dark and
\* enters the deep idle mode.
AutoLock == away ~> Raised # {} \/ (locked /\ ~displayOn /\ active)

----------------------------------------------------------------------------
(* The service as an inhibition policy.                                    *)

Policy == INSTANCE InhibitionPolicy WITH
  Source    <- {"screensaver", "logind", "fullscreen"},
  raised    <- Raised,
  published <- inhibited

\* Whatever the interleaving, the sources do not override each other.
InhibitionSpec == Policy!Spec
=============================================================================
