------------------------------- MODULE ShellState -------------------------------
(***************************************************************************)
(* The state loop of the daemon (internal/daemon/app): one goroutine that  *)
(* owns the tablet mode, the text focus, the lock flag and the visibility  *)
(* of the on-screen keyboard, a bounded channel of events that the other   *)
(* goroutines and the hide timers send to it, the mode file it keeps and   *)
(* the picture of the state that a QML client has.                         *)
(*                                                                         *)
(* A handler touches nothing but the loop's own variables, the timers and  *)
(* the mode file; only the file and the final emission are steps of their  *)
(* own.  A sender whose event finds the channel full is blocked, which is  *)
(* a send that is not enabled.                                             *)
(***************************************************************************)
EXTENDS Naturals, Sequences, FiniteSets, TLC

CONSTANTS
  Lockers,    \* goroutines in lockscreen.Service.Lock or Unlock
  Timers,     \* hide timers, running or sending (a bound: the code has no limit)
  Cap,        \* the capacity of stateCh
  Inputs,     \* the events that come in this instance
  Faults,     \* bound on the restarts of the daemon and its failed saves
  Serialised  \* TRUE: no client connects while the loop is at work

OskCommands == {"osk-dismiss", "osk-undismiss", "osk-toggle", "osk-show", "osk-hide",
                "osk-pin", "osk-unpin"}
ModeCommands == {"set-mode auto", "set-mode tablet", "set-mode desktop", "cycle-mode"}
AllInputs == {"tablet", "no tablet", "focus", "unfocus", "locked", "unlocked", "connect"}
               \cup OskCommands \cup ModeCommands

ASSUME ShellStateAssumption ==
  /\ Cap \in Nat \ {0}
  /\ Inputs \subseteq AllInputs
  /\ Faults \in Nat
  /\ "nil" \notin Timers
  /\ IsFiniteSet(Timers)
  /\ Serialised \in BOOLEAN

\* In tenths of a second: the window in which a deactivation is not believed, and the
\* delay with which the keyboard is hidden.
Debounce == 3
HideDelay == 2

VARIABLES
  loop,       \* where the state loop is
  queue,      \* stateCh
  state,      \* the canonical state
  hideTimer,  \* App.oskHideTimer
  timer,      \* the timers made by time.AfterFunc
  focusAge,   \* the time since lastFocusActive
  modeFile,   \* the mode in the mode file, NoMode when there is none
  unsaved,    \* history: the last save failed
  emitted,    \* what was emitted last, <<>> for nothing
  connection, \* the QML client
  snapshot,   \* what a snapshot began to read
  view,       \* what the QML client was told last
  focus,      \* what the input method said last
  lockFlag,   \* lockscreen.Service.locked
  locker,     \* the event a locker has yet to send
  faults      \* restarts and failed saves so far

timers == <<hideTimer, timer, focusAge>>
client == <<connection, snapshot, view>>
world == <<focus, lockFlag, locker, faults>>
vars == <<loop, queue, state, timers, modeFile, unsaved, emitted, client, world>>

----------------------------------------------------------------------------
(* The canonical state.                                                    *)

ModeAuto == 0
ModeTablet == 1
ModeDesktop == 2
NoMode == 3

Fresh == [hwTablet |-> FALSE, textFocus |-> FALSE, screenLocked |-> FALSE,
          userMode |-> ModeAuto, oskVisible |-> FALSE, oskDismissed |-> FALSE,
          oskPinned |-> FALSE]

EffectiveTablet(s) == s.userMode = ModeTablet \/ (s.userMode = ModeAuto /\ s.hwTablet)

OskVisible(s) ==
  \/ s.oskPinned
  \/ ~s.screenLocked /\ EffectiveTablet(s) /\ s.textFocus /\ ~s.oskDismissed

RecomputeOsk(s) == [s EXCEPT !.oskVisible = OskVisible(s)]

\* What a client is told.
StateData(s) == s @@ [effectiveTablet |-> EffectiveTablet(s)]

\* loadUserMode: what a mode file means.
LoadUserMode(file) == IF file = NoMode THEN ModeAuto ELSE file

----------------------------------------------------------------------------
(* Timers and the channel.                                                 *)

NoTimer == [is |-> "off", left |-> 0]

\* Stop() keeps a timer from firing, but not the function of one that has fired.
Stopped == [i \in Timers |-> IF i = hideTimer /\ timer[i].is = "armed" THEN NoTimer
                                                                      ELSE timer[i]]

Arm(delay) ==
  \E i \in Timers :
    /\ Stopped[i].is = "off"
    /\ timer' = [Stopped EXCEPT ![i] = [is |-> "armed", left |-> delay]]
    /\ hideTimer' = i

Waiting(event) == Cardinality({n \in 1..Len(queue) : queue[n] = event})

Running == Cardinality({i \in Timers : timer[i].is # "off"})

CanSend == Len(queue) < Cap

Send(event) == CanSend /\ queue' = Append(queue, event)

\* The loop takes an event.
Receive(event) ==
  /\ loop = "receive"
  /\ Serialised => connection # "reading"
  /\ queue # <<>>
  /\ Head(queue) = event
  /\ queue' = Tail(queue)

----------------------------------------------------------------------------
(* Handlers.                                                               *)

HandleTablet ==
  /\ \/ Receive("tablet") /\ state' = RecomputeOsk([state EXCEPT !.hwTablet = TRUE])
     \/ Receive("no tablet") /\ state' = RecomputeOsk([state EXCEPT !.hwTablet = FALSE])
  /\ loop' = "emit"
  /\ UNCHANGED <<timers, modeFile, unsaved, emitted, client, world>>

HandleFocus ==
  /\ Receive("focus")
  /\ state' = RecomputeOsk([state EXCEPT !.textFocus = TRUE, !.oskDismissed = FALSE])
  /\ focusAge' = 0
  /\ timer' = Stopped
  /\ hideTimer' = "nil"
  /\ loop' = "emit"
  /\ UNCHANGED <<modeFile, unsaved, emitted, client, world>>

\* Bug: a deactivation that is not believed has no fallback.
HandleUnfocusForgetting ==
  /\ Receive("unfocus")
  /\ IF focusAge < Debounce
       THEN state' = [state EXCEPT !.textFocus = TRUE] /\ UNCHANGED <<timer, hideTimer>>
       ELSE state' = [state EXCEPT !.textFocus = FALSE] /\ Arm(HideDelay)
  /\ loop' = "emit"
  /\ UNCHANGED <<focusAge, modeFile, unsaved, emitted, client, world>>

\* The visibility is left to the timer.
HandleUnfocus ==
  /\ Receive("unfocus")
  /\ IF focusAge < Debounce
       THEN state' = [state EXCEPT !.textFocus = TRUE] /\ Arm(Debounce - focusAge)
       ELSE state' = [state EXCEPT !.textFocus = FALSE] /\ Arm(HideDelay)
  /\ loop' = "emit"
  /\ UNCHANGED <<focusAge, modeFile, unsaved, emitted, client, world>>

HandleHideTimeout ==
  /\ Receive("osk_hide_timeout")
  /\ hideTimer' = "nil"
  /\ state' = RecomputeOsk([state EXCEPT !.textFocus = FALSE])
  /\ loop' = "emit"
  /\ UNCHANGED <<timer, focusAge, modeFile, unsaved, emitted, client, world>>

\* Bug: the keyboard stays up over the lock screen.
HandleLockKeepingOsk ==
  /\ \/ Receive("locked") /\ state' = [state EXCEPT !.screenLocked = TRUE]
     \/ Receive("unlocked") /\ state' = [state EXCEPT !.screenLocked = FALSE]
  /\ loop' = "emit"
  /\ UNCHANGED <<timers, modeFile, unsaved, emitted, client, world>>

HandleLock ==
  /\ \/ Receive("locked") /\ state' = RecomputeOsk([state EXCEPT !.screenLocked = TRUE])
     \/ Receive("unlocked")
        /\ state' = RecomputeOsk([state EXCEPT !.screenLocked = FALSE])
  /\ loop' = "emit"
  /\ UNCHANGED <<timers, modeFile, unsaved, emitted, client, world>>

\* Bug: the keyboard is not computed anew.
AfterOskCommandOnly(s, command) ==
  CASE command \in {"osk-dismiss", "osk-hide"}   -> [s EXCEPT !.oskDismissed = TRUE]
    [] command \in {"osk-undismiss", "osk-show"} -> [s EXCEPT !.oskDismissed = FALSE]
    [] command = "osk-toggle"                    -> [s EXCEPT !.oskDismissed = s.oskVisible]
    [] command \in {"osk-pin", "osk-unpin"}      -> [s EXCEPT !.oskPinned =
                                                              command = "osk-pin"]

AfterOskCommand(s, command) ==
  RecomputeOsk(
    CASE command \in {"osk-dismiss", "osk-hide"}   -> [s EXCEPT !.oskDismissed = TRUE]
      [] command \in {"osk-undismiss", "osk-show"} -> [s EXCEPT !.oskDismissed = FALSE]
      [] command = "osk-toggle"                    -> [s EXCEPT !.oskDismissed = s.oskVisible]
      [] command \in {"osk-pin", "osk-unpin"}      -> [s EXCEPT !.oskPinned =
                                                                command = "osk-pin"])

HandleOskCommand ==
  /\ \E command \in OskCommands :
       Receive(command) /\ state' = AfterOskCommand(state, command)
  /\ loop' = "emit"
  /\ UNCHANGED <<timers, modeFile, unsaved, emitted, client, world>>

\* Bug: the cycle has a fourth mode.
AfterModeCommandUncycled(s, command) ==
  [s EXCEPT !.userMode = CASE command = "set-mode auto"    -> ModeAuto
                           [] command = "set-mode tablet"  -> ModeTablet
                           [] command = "set-mode desktop" -> ModeDesktop
                           [] command = "cycle-mode"       -> @ + 1]

AfterModeCommand(s, command) ==
  [s EXCEPT !.userMode = CASE command = "set-mode auto"    -> ModeAuto
                           [] command = "set-mode tablet"  -> ModeTablet
                           [] command = "set-mode desktop" -> ModeDesktop
                           [] command = "cycle-mode"       -> (@ + 1) % 3]

\* Bug: a command that comes back to the automatic mode is not saved.
HandleModeCommandUnsaved ==
  /\ \E command \in ModeCommands :
       Receive(command) /\ state' = AfterModeCommand(state, command)
  /\ loop' = IF state'.userMode = ModeAuto THEN "reeval" ELSE "save"
  /\ UNCHANGED <<timers, modeFile, unsaved, emitted, client, world>>

\* The mode is saved before the keyboard follows it.
HandleModeCommand ==
  /\ \E command \in ModeCommands :
       Receive(command) /\ state' = AfterModeCommand(state, command)
  /\ loop' = "save"
  /\ UNCHANGED <<timers, modeFile, unsaved, emitted, client, world>>

\* saveUserMode truncates the file, then writes it.
Truncate ==
  /\ loop \in {"save", "stop"}
  /\ loop' = IF loop = "save" THEN "saving" ELSE "stopping"
  /\ modeFile' = NoMode
  /\ UNCHANGED <<queue, state, timers, unsaved, emitted, client, world>>

WriteMode ==
  /\ loop = "saving"
  /\ modeFile' = state.userMode
  /\ unsaved' = FALSE
  /\ loop' = "reeval"
  /\ UNCHANGED <<queue, state, timers, emitted, client, world>>

\* It ignores the error of a file that cannot be opened, or not be written once it is
\* truncated.  (One that fails on the way out is a Crash.)
SaveFails ==
  /\ loop \in {"save", "saving"}
  /\ faults < Faults
  /\ faults' = faults + 1
  /\ unsaved' = TRUE
  /\ loop' = "reeval"
  /\ UNCHANGED <<queue, state, timers, modeFile, emitted, client, focus, lockFlag, locker>>

ReevalOsk ==
  /\ loop = "reeval"
  /\ state' = RecomputeOsk(state)
  /\ loop' = "emit"
  /\ UNCHANGED <<queue, timers, modeFile, unsaved, emitted, client, world>>

\* Bug: the lock flag is left out of the hash.
EmitStateUnhashed ==
  /\ loop = "emit"
  /\ LET data == StateData(state) IN
       IF emitted # <<>> /\ [emitted[1] EXCEPT !.screenLocked = state.screenLocked] = data
         THEN UNCHANGED <<emitted, view>>
         ELSE /\ emitted' = <<data>>
              /\ view' = IF connection # "none" THEN data ELSE view
  /\ loop' = "receive"
  /\ UNCHANGED <<queue, state, timers, modeFile, unsaved, connection, snapshot, world>>

\* emitState keeps what it told the clients last to itself if nothing has changed.
EmitState ==
  /\ loop = "emit"
  /\ LET data == StateData(state) IN
       IF emitted = <<data>>
         THEN UNCHANGED <<emitted, view>>
         ELSE /\ emitted' = <<data>>
              /\ view' = IF connection # "none" THEN data ELSE view
  /\ loop' = "receive"
  /\ UNCHANGED <<queue, state, timers, modeFile, unsaved, connection, snapshot, world>>

\* The head of runStateLoop.
Load ==
  /\ loop = "load"
  /\ state' = [state EXCEPT !.userMode = LoadUserMode(modeFile)]
  /\ loop' = "receive"
  /\ UNCHANGED <<queue, timers, modeFile, unsaved, emitted, client, world>>

Handle ==
  \/ HandleTablet \/ HandleFocus \/ HandleUnfocus \/ HandleHideTimeout
  \/ HandleLock \/ HandleOskCommand \/ HandleModeCommand

StateLoop ==
  Handle \/ Truncate \/ WriteMode \/ SaveFails \/ ReevalOsk \/ EmitState \/ Load

----------------------------------------------------------------------------
(* Timers.                                                                 *)

TimerFires(i) ==
  /\ timer[i].is = "armed" /\ timer[i].left = 0
  /\ timer' = [timer EXCEPT ![i].is = "fired"]
  /\ UNCHANGED <<loop, queue, state, hideTimer, focusAge, modeFile, unsaved, emitted, client,
                 world>>

TimerSends(i) ==
  /\ timer[i].is = "fired"
  /\ Send("osk_hide_timeout")
  /\ timer' = [timer EXCEPT ![i] = NoTimer]
  /\ UNCHANGED <<loop, state, hideTimer, focusAge, modeFile, unsaved, emitted, client, world>>

\* A tenth of a second.
Tick ==
  /\ focusAge < Debounce \/ \E i \in Timers : timer[i].left > 0
  /\ focusAge' = IF focusAge < Debounce THEN focusAge + 1 ELSE focusAge
  /\ timer' = [i \in Timers |-> [timer[i] EXCEPT !.left = IF @ > 0 THEN @ - 1 ELSE 0]]
  /\ UNCHANGED <<loop, queue, state, hideTimer, modeFile, unsaved, emitted, client, world>>

----------------------------------------------------------------------------
(* Senders.                                                                *)

\* The tablet mode monitor and the clients' commands.
SendInput ==
  /\ \E input \in Inputs \ {"focus", "unfocus", "locked", "unlocked", "connect"} : Send(input)
  /\ UNCHANGED <<loop, state, timers, modeFile, unsaved, emitted, client, world>>

\* The input method; the guard is the bound on the timers.
SendFocus ==
  /\ \/ "focus" \in Inputs /\ Send("focus") /\ focus' = TRUE
     \/ /\ "unfocus" \in Inputs
        /\ Waiting("unfocus") + Running < Cardinality(Timers)
        /\ Send("unfocus")
        /\ focus' = FALSE
  /\ UNCHANGED <<loop, state, timers, modeFile, unsaved, emitted, client,
                 lockFlag, locker, faults>>

\* Lock and Unlock store the flag, then their event is sent to the loop.
StoreLock(k) ==
  /\ locker[k] = "rest"
  /\ \E event \in Inputs \cap {"locked", "unlocked"} :
       /\ lockFlag' = (event = "locked")
       /\ locker' = [locker EXCEPT ![k] = event]
  /\ UNCHANGED <<loop, queue, state, timers, modeFile, unsaved, emitted, client,
                 focus, faults>>

SendLock(k) ==
  /\ locker[k] # "rest"
  /\ Send(locker[k])
  /\ locker' = [locker EXCEPT ![k] = "rest"]
  /\ UNCHANGED <<loop, state, timers, modeFile, unsaved, emitted, client,
                 focus, lockFlag, faults>>

----------------------------------------------------------------------------
(* Clients.                                                                *)

\* A client joins the emitter's clients, then EmitSnapshot runs on its goroutine.
Connect ==
  /\ "connect" \in Inputs
  /\ connection # "reading"
  /\ Serialised => loop = "receive" /\ queue = <<>>
  /\ connection' = "reading"
  /\ snapshot' = StateData(state)
  /\ UNCHANGED <<loop, queue, state, timers, modeFile, unsaved, emitted, view, world>>

\* Its reads race with the loop: each field may be the one before or after a handler.
FinishSnapshot ==
  /\ connection = "reading"
  /\ LET now == StateData(state)
         changed == {field \in DOMAIN now : now[field] # snapshot[field]}
     IN \E new \in SUBSET changed :
          view' = [field \in DOMAIN now |-> IF field \in new THEN now[field]
                                                             ELSE snapshot[field]]
  /\ connection' = "connected"
  /\ snapshot' = StateData(Fresh)
  /\ UNCHANGED <<loop, queue, state, timers, modeFile, unsaved, emitted, world>>

----------------------------------------------------------------------------
(* The end of the daemon, and its next start.                              *)

NewProcess ==
  /\ faults < Faults
  /\ faults' = faults + 1
  /\ loop' = "load"
  /\ queue' = <<>>
  /\ state' = Fresh
  /\ hideTimer' = "nil"
  /\ timer' = [i \in Timers |-> NoTimer]
  /\ focusAge' = Debounce
  /\ unsaved' = FALSE
  /\ emitted' = <<>>
  /\ connection' = "none"
  /\ snapshot' = StateData(Fresh)
  /\ view' = StateData(Fresh)
  /\ focus' = FALSE
  /\ lockFlag' = FALSE
  /\ locker' = [k \in Lockers |-> "rest"]

Crash == NewProcess /\ UNCHANGED modeFile

\* The context is cancelled: the loop saves the mode once more.
Shutdown ==
  /\ faults < Faults
  /\ loop = "receive"
  /\ loop' = "stop"
  /\ UNCHANGED <<queue, state, timers, modeFile, unsaved, emitted, client, world>>

Exit ==
  /\ loop = "stopping"
  /\ modeFile' = state.userMode
  /\ NewProcess

----------------------------------------------------------------------------

Init ==
  /\ loop = "load"
  /\ queue = <<>>
  /\ state = Fresh
  /\ hideTimer = "nil"
  /\ timer = [i \in Timers |-> NoTimer]
  /\ focusAge = Debounce
  /\ modeFile = NoMode
  /\ unsaved = FALSE
  /\ emitted = <<>>
  /\ connection = "none"
  /\ snapshot = StateData(Fresh)
  /\ view = StateData(Fresh)
  /\ focus = FALSE
  /\ lockFlag = FALSE
  /\ locker = [k \in Lockers |-> "rest"]
  /\ faults = 0

Next ==
  \/ StateLoop
  \/ \E i \in Timers : TimerFires(i) \/ TimerSends(i)
  \/ Tick
  \/ SendInput \/ SendFocus
  \/ \E k \in Lockers : StoreLock(k) \/ SendLock(k)
  \/ Connect \/ FinishSnapshot
  \/ Crash \/ Shutdown \/ Exit

Spec == Init /\ [][Next]_vars

\* Goroutines and timers are scheduled; blocked senders are served in order.
Fairness ==
  /\ WF_vars(StateLoop)
  /\ WF_vars(Tick)
  /\ WF_vars(FinishSnapshot)
  /\ WF_vars(Exit)
  /\ \A i \in Timers : WF_vars(TimerFires(i)) /\ SF_vars(TimerSends(i))
  /\ \A k \in Lockers : SF_vars(SendLock(k))

FairSpec == Spec /\ Fairness

----------------------------------------------------------------------------
(* Properties.                                                             *)

StateType == [hwTablet : BOOLEAN, textFocus : BOOLEAN, screenLocked : BOOLEAN,
              userMode : {ModeAuto, ModeTablet, ModeDesktop}, oskVisible : BOOLEAN,
              oskDismissed : BOOLEAN, oskPinned : BOOLEAN]

Events == (AllInputs \ {"connect"}) \cup {"osk_hide_timeout"}

\* The types of the variables.
TypeOK ==
  /\ loop \in {"load", "receive", "save", "saving", "reeval", "emit", "stop", "stopping"}
  /\ queue \in Seq(Events) /\ Len(queue) <= Cap
  /\ state \in StateType
  /\ hideTimer \in Timers \cup {"nil"}
  /\ timer \in [Timers -> [is : {"off", "armed", "fired"}, left : 0..Debounce]]
  /\ focusAge \in 0..Debounce
  /\ modeFile \in {ModeAuto, ModeTablet, ModeDesktop, NoMode}
  /\ unsaved \in BOOLEAN
  /\ Len(emitted) <= 1
  /\ connection \in {"none", "reading", "connected"}
  /\ focus \in BOOLEAN
  /\ lockFlag \in BOOLEAN
  /\ locker \in [Lockers -> {"rest", "locked", "unlocked"}]
  /\ faults \in 0..Faults

HidePending == Running > 0 \/ Waiting("osk_hide_timeout") > 0

\* Whatever comes between a deactivation and its timer, the keyboard is up exactly when
\* the state says so, except while a hide is still coming.
OskFollows == loop = "receive" /\ ~HidePending => state.oskVisible = OskVisible(state)

\* The keyboard is never over the lock screen unless it was pinned.
NoOskOverLock == state.screenLocked /\ state.oskVisible => state.oskPinned

\* The loop has nothing to do and no hide is coming.
AtRest == loop = "receive" /\ queue = <<>> /\ ~HidePending

\* A field that has the focus is known to have it: `Cancel pending hide - focus returned
\* before delay expired'.
FocusNotLost == AtRest => (focus => state.textFocus)

\* The loop knows whether the session is locked once the lock screen service is done:
\* `Every state mutation goes through stateCh to avoid races'.
LockAgrees ==
  AtRest /\ (\A k \in Lockers : locker[k] = "rest") => state.screenLocked = lockFlag

\* With nothing on its way, a client has the current state: `so new QML clients receive
\* the full current state on connect'.
ViewCurrent == AtRest /\ connection = "connected" => view = StateData(state)

\* With nothing on its way the three parties that hold the state agree: the lock screen
\* service with the loop, and the loop with the client that has the last snapshot and
\* the events after it.
StatesAgree == LockAgrees /\ ViewCurrent

\* Whenever the daemon is killed while the loop waits, the next one starts in the mode
\* that this one was in, unless the last save failed.
ModeSaved == loop = "receive" /\ ~unsaved => LoadUserMode(modeFile) = state.userMode

\* When the last field has lost the focus the loop notices in the end, however the
\* deactivations were debounced and whatever else keeps it busy.
FocusLeaves == <>[]~focus => <>[]~state.textFocus
=============================================================================
