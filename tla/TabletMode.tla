------------------------------- MODULE TabletMode -------------------------------
(***************************************************************************)
(* The tablet mode monitor (internal/daemon/tabletmode): the switch of the *)
(* hardware, logind's property and the inactivity of the keyboards decide, *)
(* in that priority, whether the machine is a tablet.  Each source has a   *)
(* goroutine that stores what it saw under the mutex and then publishes:   *)
(* it reads all sources in one section under the mutex, swaps the atomic   *)
(* flag after it and calls back if the flag was different.  The swap and   *)
(* the callback are outside the mutex.                                     *)
(***************************************************************************)
EXTENDS Integers

CONSTANTS
  Keyboards,      \* physical keyboards, each with a reader
  Timers,         \* keyboard inactivity timers (a bound)
  Timeout,        \* kbInactivityTimeout, in ticks
  HasTouch,       \* detectTouchDevice()
  HasSwitch,      \* TRUE: there is a SW_TABLET_MODE device
  QueriesFail     \* TRUE: a query of logind may fail

ASSUME TabletAssumption ==
  /\ Keyboards \cap Timers = {}
  /\ {"switch", "logind", "startup"} \cap (Keyboards \cup Timers) = {}
  /\ "nil" \notin Timers
  /\ Timeout \in Nat \ {0}
  /\ {HasTouch, HasSwitch, QueriesFail} \subseteq BOOLEAN

Threads == Keyboards \cup Timers \cup {"switch", "logind", "startup"}

Modes == {"enabled", "disabled", "indeterminate"}

VARIABLES
  evdev,       \* evdevAvailable and evdevTablet: "none", "laptop" or "tablet"
  logindMode,  \* Monitor.logindMode, "indeterminate" standing for the empty one
  kbActive,    \* Monitor.kbActive
  kbTimer,     \* Monitor.kbTimer
  timer,       \* the timers made by time.AfterFunc
  tablet,      \* Monitor.tablet
  reported,        \* the argument of the last callback
  pc,          \* where each goroutine is
  want,        \* what a publishing goroutine found out in its section
  signalled,   \* a signal of logind is waiting for the monitor
  sinceKey     \* the time since a key was pressed

readings == <<evdev, logindMode, kbActive>>
clocks == <<kbTimer, timer, sinceKey>>
tmVars == <<readings, clocks, tablet, reported, pc, want, signalled>>

----------------------------------------------------------------------------

\* What publish makes of the sources.
IsTablet ==
  CASE evdev # "none"                                -> evdev = "tablet"
    [] evdev = "none" /\ logindMode = "enabled"       -> TRUE
    [] evdev = "none" /\ logindMode = "disabled"      -> FALSE
    [] evdev = "none" /\ logindMode = "indeterminate" -> ~kbActive /\ HasTouch

Engaged(t) == pc[t] # "rest"

Quiet == \A t \in Threads : ~Engaged(t)

TmGoto(t, to) == pc' = [pc EXCEPT ![t] = to]

\* publish reads the sources,
ReadSources(t) ==
  /\ pc[t] = "publish"
  /\ want' = [want EXCEPT ![t] = IsTablet]
  /\ TmGoto(t, "swap")
  /\ UNCHANGED <<readings, clocks, tablet, reported, signalled>>

\* swaps the flag,
Swap(t) ==
  /\ pc[t] = "swap"
  /\ tablet' = want[t]
  /\ TmGoto(t, IF tablet # want[t] THEN "call" ELSE "rest")
  /\ want' = IF tablet' # tablet THEN want ELSE [want EXCEPT ![t] = FALSE]
  /\ UNCHANGED <<readings, clocks, reported, signalled>>

\* and calls back.
CallBack(t) ==
  /\ pc[t] = "call"
  /\ reported' = want[t]
  /\ want' = [want EXCEPT ![t] = FALSE]
  /\ TmGoto(t, "rest")
  /\ UNCHANGED <<readings, clocks, tablet, signalled>>

----------------------------------------------------------------------------
(* The sources.                                                            *)

\* The switch: its state at the start, then its events.
SwitchEvent ==
  /\ HasSwitch
  /\ ~Engaged("switch")
  /\ evdev' \in {"laptop", "tablet"}
  /\ evdev' # evdev
  /\ TmGoto("switch", "publish")
  /\ UNCHANGED <<logindMode, kbActive, clocks, tablet, reported, want, signalled>>

\* The property changes.
LogindSignal ==
  /\ ~signalled
  /\ signalled' = TRUE
  /\ UNCHANGED <<readings, clocks, tablet, reported, pc, want>>

\* queryLogind
LogindAnswers ==
  /\ signalled
  /\ ~Engaged("logind")
  /\ signalled' = FALSE
  /\ logindMode' \in Modes
  /\ TmGoto("logind", "publish")
  /\ UNCHANGED <<evdev, kbActive, clocks, tablet, reported, want>>

\* A failed query, or one without a string, changes the source and publishes nothing.
LogindFails ==
  /\ QueriesFail
  /\ signalled
  /\ ~Engaged("logind")
  /\ signalled' = FALSE
  /\ logindMode' = "indeterminate"
  /\ UNCHANGED <<evdev, kbActive, clocks, tablet, reported, pc, want>>

NoTimer == [armed |-> FALSE, left |-> 0]

Stopped == [i \in Timers |-> IF i = kbTimer THEN NoTimer ELSE timer[i]]

\* Bugs: the timer of the first key is kept; no timer is started.
KeyPressedOnce(k) ==
  /\ ~Engaged(k)
  /\ kbActive' = TRUE
  /\ sinceKey' = 0
  /\ IF kbTimer # "nil" THEN UNCHANGED <<kbTimer, timer>>
     ELSE \E i \in Timers : /\ ~Engaged(i) /\ ~timer[i].armed
                            /\ timer' = [timer EXCEPT ![i] = [armed |-> TRUE, left |-> Timeout]]
                            /\ kbTimer' = i
  /\ TmGoto(k, "publish")
  /\ UNCHANGED <<evdev, logindMode, tablet, reported, want, signalled>>

KeyPressedForEver(k) ==
  /\ ~Engaged(k)
  /\ kbActive' = TRUE
  /\ sinceKey' = 0
  /\ timer' = Stopped
  /\ TmGoto(k, "publish")
  /\ UNCHANGED <<evdev, logindMode, kbTimer, tablet, reported, want, signalled>>

\* onKeyboardActivity: the old timer is stopped, if it has not fired, and a new one made.
KeyPressed(k) ==
  /\ ~Engaged(k)
  /\ kbActive' = TRUE
  /\ sinceKey' = 0
  /\ \E i \in Timers :
       /\ ~Engaged(i) /\ ~Stopped[i].armed
       /\ timer' = [Stopped EXCEPT ![i] = [armed |-> TRUE, left |-> Timeout]]
       /\ kbTimer' = i
  /\ TmGoto(k, "publish")
  /\ UNCHANGED <<evdev, logindMode, tablet, reported, want, signalled>>

InactivityFires(i) ==
  /\ ~Engaged(i)
  /\ timer[i].armed /\ timer[i].left = 0
  /\ timer' = [timer EXCEPT ![i] = NoTimer]
  /\ TmGoto(i, "expire")
  /\ UNCHANGED <<readings, kbTimer, sinceKey, tablet, reported, want, signalled>>

\* Bug: the flag is not cleared.
KeyboardIdleKeeping(i) ==
  /\ pc[i] = "expire"
  /\ TmGoto(i, "publish")
  /\ UNCHANGED <<readings, clocks, tablet, reported, want, signalled>>

\* Its function gets the mutex.
KeyboardIdle(i) ==
  /\ pc[i] = "expire"
  /\ kbActive' = FALSE
  /\ TmGoto(i, "publish")
  /\ UNCHANGED <<evdev, logindMode, clocks, tablet, reported, want, signalled>>

\* Time does not pass over a timer that is due.
TmTick ==
  /\ \A i \in Timers : timer[i].armed => timer[i].left > 0
  /\ \A i \in Timers : pc[i] # "expire"
  /\ sinceKey < Timeout \/ \E i \in Timers : timer[i].armed
  /\ sinceKey' = IF sinceKey < Timeout THEN sinceKey + 1 ELSE sinceKey
  /\ timer' = [i \in Timers |-> IF timer[i].armed THEN [timer[i] EXCEPT !.left = @ - 1]
                                                  ELSE timer[i]]
  /\ UNCHANGED <<readings, kbTimer, tablet, reported, pc, want, signalled>>

----------------------------------------------------------------------------

\* The monitors are started; the first publication is half a second away.
TmInit ==
  /\ evdev = "none"
  /\ logindMode = "indeterminate"
  /\ kbActive = FALSE
  /\ kbTimer = "nil"
  /\ timer = [i \in Timers |-> NoTimer]
  /\ tablet = FALSE
  /\ reported = FALSE
  /\ pc = [t \in Threads |-> IF t = "startup" THEN "publish" ELSE "rest"]
  /\ want = [t \in Threads |-> FALSE]
  /\ signalled = TRUE
  /\ sinceKey = Timeout

Publish(t) == ReadSources(t) \/ Swap(t) \/ CallBack(t)

TmNext ==
  \/ \E t \in Threads : Publish(t)
  \/ SwitchEvent
  \/ LogindSignal \/ LogindAnswers \/ LogindFails
  \/ \E k \in Keyboards : KeyPressed(k)
  \/ \E i \in Timers : InactivityFires(i) \/ KeyboardIdle(i)
  \/ TmTick

TmSpec == TmInit /\ [][TmNext]_tmVars

\* Goroutines and timers are scheduled.
TmFairness ==
  /\ \A t \in Threads : WF_tmVars(Publish(t))
  /\ \A i \in Timers : WF_tmVars(InactivityFires(i)) /\ WF_tmVars(KeyboardIdle(i))
  /\ WF_tmVars(TmTick)

----------------------------------------------------------------------------
(* Properties.                                                             *)

\* The types of the variables.
TmTypeOK ==
  /\ evdev \in {"none", "laptop", "tablet"}
  /\ logindMode \in Modes
  /\ kbActive \in BOOLEAN
  /\ kbTimer \in Timers \cup {"nil"}
  /\ timer \in [Timers -> [armed : BOOLEAN, left : 0..Timeout]]
  /\ tablet \in BOOLEAN /\ reported \in BOOLEAN
  /\ pc \in [Threads -> {"rest", "publish", "swap", "call", "expire"}]
  /\ want \in [Threads -> BOOLEAN]
  /\ signalled \in BOOLEAN
  /\ sinceKey \in 0..Timeout

\* With no goroutine busy the flag is what the sources say and the state loop was told
\* so: `watches for tablet mode changes and calls cb with the current state'.
ToldCurrent == Quiet => tablet = IsTablet /\ reported = tablet

\* Whatever the interleaving, an active keyboard has a timer that will end it.
KeyboardTimerLives ==
  kbActive => \E i \in Timers : timer[i].armed \/ pc[i] = "expire"

\* A machine that is being typed on does not become a tablet for lack of typing.
TypingKeepsActive == Quiet /\ sinceKey < Timeout => kbActive

\* A keyboard that is left alone is idle in the end.
KeyboardGoesIdle ==
    TmFairness => (<>[](sinceKey = Timeout) => <>[]~kbActive)
=============================================================================
