---------------------------- MODULE ShellStateProofs ----------------------------
(***************************************************************************)
(* Proofs about ShellState, for every capacity of the channel, every       *)
(* number of timers and lockers and every set of inputs.                   *)
(***************************************************************************)
EXTENDS ShellState, FiniteSetTheorems, SequenceTheorems, TLAPS

Loops == {"load", "receive", "save", "saving", "reeval", "emit", "stop", "stopping"}

TimerType == [is : {"off", "armed", "fired"}, left : 0..Debounce]

\* The conjuncts of TypeOK, grouped by what changes them.
QueueOK == queue \in Seq(Events) /\ Len(queue) <= Cap

TimersOK ==
  /\ hideTimer \in Timers \cup {"nil"}
  /\ timer \in [Timers -> TimerType]
  /\ focusAge \in 0..Debounce

LoopOK ==
  /\ loop \in Loops
  /\ state \in StateType
  /\ modeFile \in {ModeAuto, ModeTablet, ModeDesktop, NoMode}
  /\ unsaved \in BOOLEAN
  /\ Len(emitted) <= 1

WorldOK ==
  /\ connection \in {"none", "reading", "connected"}
  /\ focus \in BOOLEAN
  /\ lockFlag \in BOOLEAN
  /\ locker \in [Lockers -> {"rest", "locked", "unlocked"}]
  /\ faults \in 0..Faults

Types == QueueOK /\ TimersOK /\ LoopOK /\ WorldOK

LEMMA TypesAreTypeOK == Types => TypeOK
  BY DEF Types, TypeOK, QueueOK, TimersOK, LoopOK, WorldOK, Loops, TimerType

----------------------------------------------------------------------------
(* The operators.                                                          *)

LEMMA RecomputeType ==
  ASSUME NEW s \in StateType
  PROVE  RecomputeOsk(s) \in StateType
  BY DEF StateType, RecomputeOsk, OskVisible

\* A command changes what the keyboard depends on, never the mode or the lock, and computes
\* it anew.
LEMMA OskCommandRecomputes ==
  ASSUME NEW s \in StateType, NEW command \in OskCommands
  PROVE  \E t \in StateType : /\ t.userMode = s.userMode
                              /\ t.screenLocked = s.screenLocked
                              /\ t.textFocus = s.textFocus
                              /\ AfterOskCommand(s, command) = RecomputeOsk(t)
<1>1. \A d \in BOOLEAN : /\ [s EXCEPT !.oskDismissed = d] \in StateType
                        /\ [s EXCEPT !.oskDismissed = d].userMode = s.userMode
                        /\ [s EXCEPT !.oskDismissed = d].screenLocked = s.screenLocked
                        /\ [s EXCEPT !.oskDismissed = d].textFocus = s.textFocus
                        /\ [s EXCEPT !.oskPinned = d] \in StateType
                        /\ [s EXCEPT !.oskPinned = d].userMode = s.userMode
                        /\ [s EXCEPT !.oskPinned = d].screenLocked = s.screenLocked
                        /\ [s EXCEPT !.oskPinned = d].textFocus = s.textFocus
  BY DEF StateType
<1>2. CASE command = "osk-dismiss" \/ command = "osk-hide"
  <2>1. AfterOskCommand(s, command) = RecomputeOsk([s EXCEPT !.oskDismissed = TRUE])
    BY <1>2 DEF AfterOskCommand
  <2> QED
    BY <1>1, <2>1
<1>3. CASE command = "osk-undismiss" \/ command = "osk-show"
  <2>1. AfterOskCommand(s, command) = RecomputeOsk([s EXCEPT !.oskDismissed = FALSE])
    BY <1>3 DEF AfterOskCommand
  <2> QED
    BY <1>1, <2>1
<1>4. CASE command = "osk-toggle"
  <2>1. s.oskVisible \in BOOLEAN
    BY DEF StateType
  <2>2. AfterOskCommand(s, command)
          = RecomputeOsk([s EXCEPT !.oskDismissed = s.oskVisible])
    BY <1>4 DEF AfterOskCommand
  <2> QED
    BY <1>1, <2>1, <2>2
<1>5. CASE command = "osk-pin" \/ command = "osk-unpin"
  <2>1. AfterOskCommand(s, command)
          = RecomputeOsk([s EXCEPT !.oskPinned = (command = "osk-pin")])
    BY <1>5 DEF AfterOskCommand
  <2> QED
    BY <1>1, <2>1
<1> QED
  BY <1>2, <1>3, <1>4, <1>5 DEF OskCommands

LEMMA OskCommandType ==
  ASSUME NEW s \in StateType, NEW command \in OskCommands
  PROVE  AfterOskCommand(s, command) \in StateType
  BY OskCommandRecomputes, RecomputeType

LEMMA ModeCommandType ==
  ASSUME NEW s \in StateType, NEW command \in ModeCommands
  PROVE  AfterModeCommand(s, command) \in StateType
<1>1. (s.userMode + 1) % 3 \in {ModeAuto, ModeTablet, ModeDesktop}
  BY DEF StateType, ModeAuto, ModeTablet, ModeDesktop
<1>2. CASE command = "cycle-mode"
  BY <1>1, <1>2 DEF AfterModeCommand, StateType
<1>3. CASE command \in {"set-mode auto", "set-mode tablet", "set-mode desktop"}
  BY <1>3 DEF AfterModeCommand, StateType, ModeAuto, ModeTablet, ModeDesktop
<1> QED
  BY <1>2, <1>3 DEF ModeCommands

LEMMA ReceiveType ==
  ASSUME QueueOK, NEW event, Receive(event)
  PROVE  QueueOK'
  BY ShellStateAssumption DEF QueueOK, Receive

LEMMA SendType ==
  ASSUME QueueOK, NEW event \in Events, Send(event)
  PROVE  QueueOK'
  BY ShellStateAssumption DEF QueueOK, Send, CanSend

LEMMA StoppedType ==
  ASSUME TimersOK
  PROVE  Stopped \in [Timers -> TimerType]
  BY DEF TimersOK, Stopped, TimerType, NoTimer, Debounce

LEMMA ArmType ==
  ASSUME TimersOK, NEW delay \in 0..Debounce, Arm(delay)
  PROVE  hideTimer' \in Timers \cup {"nil"} /\ timer' \in [Timers -> TimerType]
<1>1. PICK i \in Timers :
        timer' = [Stopped EXCEPT ![i] = [is |-> "armed", left |-> delay]] /\ hideTimer' = i
  BY DEF Arm
<1>2. [is |-> "armed", left |-> delay] \in TimerType
  BY DEF TimerType
<1> QED
  BY <1>1, <1>2, StoppedType

----------------------------------------------------------------------------
(* Type correctness.                                                       *)

LEMMA InitTypes == Init => Types
<1> SUFFICES ASSUME Init
             PROVE  Types
  OBVIOUS
<1>1. QueueOK
  BY ShellStateAssumption DEF Init, QueueOK
<1>2. TimersOK
  BY DEF Init, TimersOK, TimerType, NoTimer, Debounce
<1>3. LoopOK
  <2>1. unsaved \in BOOLEAN
    BY DEF Init
  <2>2. /\ loop = "load" /\ state = Fresh /\ emitted = <<>> /\ modeFile = NoMode
    BY DEF Init
  <2> QED
    BY <2>1, <2>2 DEF LoopOK, Loops, StateType, Fresh
<1>4. WorldOK
  <2>1. faults \in 0..Faults
    BY ShellStateAssumption DEF Init
  <2> QED
    BY <2>1 DEF Init, WorldOK
<1> QED
  BY <1>1, <1>2, <1>3, <1>4 DEF Types

\* What a step leaves alone keeps its type.
LEMMA QueueStays == ASSUME QueueOK, UNCHANGED queue PROVE QueueOK'
  BY DEF QueueOK

LEMMA TimersStay == ASSUME TimersOK, UNCHANGED timers PROVE TimersOK'
  BY DEF TimersOK, timers

LEMMA WorldStays == ASSUME WorldOK, UNCHANGED <<connection, world>> PROVE WorldOK'
  BY DEF WorldOK, world

LEMMA LoopStays ==
  ASSUME LoopOK, UNCHANGED <<loop, state, modeFile, unsaved, emitted>>
  PROVE  LoopOK'
  BY DEF LoopOK

\* A handler that leaves the timers alone.
LEMMA PlainHandlerType ==
  ASSUME Types, NEW event, Receive(event), state' \in StateType, loop' \in Loops,
         UNCHANGED <<timers, modeFile, unsaved, emitted, client, world>>
  PROVE  Types'
<1>1. QueueOK'
  BY ReceiveType DEF Types
<1>2. TimersOK' /\ LoopOK' /\ WorldOK'
  BY DEF Types, TimersOK, LoopOK, WorldOK, timers, client, world
<1> QED
  BY <1>1, <1>2 DEF Types

LEMMA HandleTypes == Types /\ Handle => Types'
<1> SUFFICES ASSUME Types, Handle
             PROVE  Types'
  OBVIOUS
<1> USE DEF Types
<1>0. state \in StateType /\ \A b \in BOOLEAN :
        /\ [state EXCEPT !.hwTablet = b] \in StateType
        /\ [state EXCEPT !.textFocus = b] \in StateType
        /\ [state EXCEPT !.screenLocked = b] \in StateType
  BY DEF LoopOK, StateType
<1>1. CASE HandleTablet
  <2>1. PICK event : Receive(event)
    BY <1>1 DEF HandleTablet
  <2>2. state' \in StateType
    BY <1>0, <1>1, RecomputeType DEF HandleTablet
  <2> QED
    BY <1>1, <2>1, <2>2, PlainHandlerType DEF HandleTablet, Loops
<1>2. CASE HandleFocus
  <2>1. QueueOK'
    BY <1>2, ReceiveType DEF HandleFocus
  <2>2. [state EXCEPT !.textFocus = TRUE, !.oskDismissed = FALSE] \in StateType
    BY <1>0 DEF StateType
  <2>3. state' \in StateType
    BY <1>2, <2>2, RecomputeType DEF HandleFocus
  <2>4. TimersOK'
    BY <1>2, StoppedType DEF HandleFocus, TimersOK, Debounce
  <2>5. LoopOK' /\ WorldOK'
    BY <1>2, <2>3 DEF HandleFocus, LoopOK, WorldOK, Loops, client, world
  <2> QED
    BY <2>1, <2>4, <2>5
<1>3. CASE HandleUnfocus
  <2>1. QueueOK'
    BY <1>3, ReceiveType DEF HandleUnfocus
  <2>2. PICK delay \in 0..Debounce : Arm(delay)
    BY <1>3 DEF HandleUnfocus, TimersOK, Debounce, HideDelay
  <2>3. TimersOK'
    BY <1>3, <2>2, ArmType DEF HandleUnfocus, TimersOK
  <2>4. state' \in StateType
    BY <1>0, <1>3 DEF HandleUnfocus
  <2>5. LoopOK' /\ WorldOK'
    BY <1>3, <2>4 DEF HandleUnfocus, LoopOK, WorldOK, Loops, client, world
  <2> QED
    BY <2>1, <2>3, <2>5
<1>4. CASE HandleHideTimeout
  <2>1. QueueOK'
    BY <1>4, ReceiveType DEF HandleHideTimeout
  <2>2. state' \in StateType
    BY <1>0, <1>4, RecomputeType DEF HandleHideTimeout
  <2>3. TimersOK' /\ LoopOK' /\ WorldOK'
    BY <1>4, <2>2 DEF HandleHideTimeout, TimersOK, LoopOK, WorldOK, Loops, client, world
  <2> QED
    BY <2>1, <2>3
<1>5. CASE HandleLock
  <2>1. PICK event : Receive(event)
    BY <1>5 DEF HandleLock
  <2>2. state' \in StateType
    BY <1>0, <1>5, RecomputeType DEF HandleLock
  <2> QED
    BY <1>5, <2>1, <2>2, PlainHandlerType DEF HandleLock, Loops
<1>6. CASE HandleOskCommand
  <2>1. PICK command \in OskCommands :
          Receive(command) /\ state' = AfterOskCommand(state, command)
    BY <1>6 DEF HandleOskCommand
  <2>2. state' \in StateType
    BY <1>0, <2>1, OskCommandType
  <2> QED
    BY <1>6, <2>1, <2>2, PlainHandlerType DEF HandleOskCommand, Loops
<1>7. CASE HandleModeCommand
  <2>1. PICK command \in ModeCommands :
          Receive(command) /\ state' = AfterModeCommand(state, command)
    BY <1>7 DEF HandleModeCommand
  <2>2. state' \in StateType
    BY <1>0, <2>1, ModeCommandType
  <2> QED
    BY <1>7, <2>1, <2>2, PlainHandlerType DEF HandleModeCommand, Loops
<1> QED
  BY <1>1, <1>2, <1>3, <1>4, <1>5, <1>6, <1>7 DEF Handle

\* The steps of the loop after a handler.
LEMMA LoopTypes ==
  Types /\ (Truncate \/ WriteMode \/ SaveFails \/ ReevalOsk \/ EmitState \/ Load) => Types'
<1> SUFFICES ASSUME Types, Truncate \/ WriteMode \/ SaveFails \/ ReevalOsk \/ EmitState \/ Load
             PROVE  Types'
  OBVIOUS
<1> USE DEF Types
<1>1. CASE Truncate
  <2>1. /\ UNCHANGED <<queue, state, timers, unsaved, emitted, connection, world>>
        /\ modeFile' = NoMode
        /\ loop' = "saving" \/ loop' = "stopping"
    BY <1>1 DEF Truncate, client
  <2>2. QueueOK' /\ TimersOK' /\ WorldOK'
    BY <2>1, QueueStays, TimersStay, WorldStays
  <2>3. LoopOK'
    BY <2>1 DEF LoopOK, Loops
  <2> QED
    BY <2>2, <2>3
<1>2. CASE WriteMode
  <2>1. /\ UNCHANGED <<queue, state, timers, emitted, connection, world>>
        /\ modeFile' = state.userMode
        /\ unsaved' = FALSE
        /\ loop' = "reeval"
    BY <1>2 DEF WriteMode, client
  <2>2. QueueOK' /\ TimersOK' /\ WorldOK'
    BY <2>1, QueueStays, TimersStay, WorldStays
  <2>3. state.userMode \in {ModeAuto, ModeTablet, ModeDesktop}
    BY DEF LoopOK, StateType
  <2>4. LoopOK'
    BY <2>1, <2>3 DEF LoopOK, Loops
  <2> QED
    BY <2>2, <2>4
<1>s. CASE SaveFails
  <2>1. /\ UNCHANGED <<queue, state, timers, modeFile, emitted, connection, focus,
                        lockFlag, locker>>
        /\ unsaved' = TRUE
        /\ loop' = "reeval"
    BY <1>s DEF SaveFails, client
  <2>2. faults' \in 0..Faults
    BY <1>s, ShellStateAssumption DEF SaveFails, WorldOK
  <2>3. QueueOK' /\ TimersOK'
    BY <2>1, QueueStays, TimersStay
  <2>4. LoopOK'
    BY <2>1 DEF LoopOK, Loops
  <2>5. WorldOK'
    BY <2>1, <2>2 DEF WorldOK
  <2> QED
    BY <2>3, <2>4, <2>5
<1>3. CASE ReevalOsk
  <2>1. state' \in StateType
    BY <1>3, RecomputeType DEF ReevalOsk, LoopOK
  <2>2. /\ UNCHANGED <<queue, timers, modeFile, unsaved, emitted, connection, world>>
        /\ loop' = "emit"
    BY <1>3 DEF ReevalOsk, client
  <2>3. QueueOK' /\ TimersOK' /\ WorldOK'
    BY <2>2, QueueStays, TimersStay, WorldStays
  <2>4. LoopOK'
    BY <2>1, <2>2 DEF LoopOK, Loops
  <2> QED
    BY <2>3, <2>4
<1>4. CASE EmitState
  <2>1. Len(emitted') <= 1
    <3>1. emitted' = emitted \/ emitted' = <<StateData(state)>>
      BY <1>4 DEF EmitState
    <3>2. Len(<<StateData(state)>>) <= 1
      OBVIOUS
    <3>3. Len(emitted) <= 1
      BY DEF LoopOK
    <3> QED
      BY <3>1, <3>2, <3>3, Zenon
  <2>2. /\ UNCHANGED <<queue, state, timers, modeFile, unsaved, connection, world>>
        /\ loop' = "receive"
    BY <1>4 DEF EmitState
  <2>3. QueueOK' /\ TimersOK'
    BY <2>2, QueueStays, TimersStay
  <2>4. LoopOK'
    BY <2>1, <2>2 DEF LoopOK, Loops
  <2>5. WorldOK'
    BY <2>2, WorldStays
  <2> QED
    BY <2>3, <2>4, <2>5
<1>5. CASE Load
  <2>1. LoadUserMode(modeFile) \in {ModeAuto, ModeTablet, ModeDesktop}
    BY DEF LoopOK, LoadUserMode
  <2>2. state' \in StateType
    BY <1>5, <2>1 DEF Load, LoopOK, StateType
  <2>3. /\ UNCHANGED <<queue, timers, modeFile, unsaved, emitted, connection, world>>
        /\ loop' = "receive"
    BY <1>5 DEF Load, client
  <2>4. QueueOK' /\ TimersOK' /\ WorldOK'
    BY <2>3, QueueStays, TimersStay, WorldStays
  <2>5. LoopOK'
    BY <2>2, <2>3 DEF LoopOK, Loops
  <2> QED
    BY <2>4, <2>5
<1> QED
  BY <1>1, <1>2, <1>s, <1>3, <1>4, <1>5

LEMMA NewProcessTypes ==
  ASSUME Types, NewProcess, modeFile' \in {ModeAuto, ModeTablet, ModeDesktop, NoMode}
  PROVE  Types'
<1> USE DEF Types
<1>1. QueueOK'
  BY ShellStateAssumption DEF NewProcess, QueueOK
<1>2. TimersOK'
  BY DEF NewProcess, TimersOK, TimerType, NoTimer, Debounce
<1>3. LoopOK'
  <2>1. unsaved' \in BOOLEAN
    BY DEF NewProcess
  <2>2. /\ loop' = "load" /\ state' = Fresh /\ emitted' = <<>>
    BY DEF NewProcess
  <2> QED
    BY <2>1, <2>2 DEF LoopOK, Loops, StateType, Fresh
<1>4. WorldOK'
  <2>1. faults' \in 0..Faults
    BY ShellStateAssumption DEF NewProcess, WorldOK
  <2> QED
    BY <2>1 DEF NewProcess, WorldOK
<1> QED
  BY <1>1, <1>2, <1>3, <1>4

LEMMA NextTypes == Types /\ [Next]_vars => Types'
<1> SUFFICES ASSUME Types, [Next]_vars
             PROVE  Types'
  OBVIOUS
<1> USE DEF Types
<1>1. CASE StateLoop
  BY <1>1, HandleTypes, LoopTypes DEF StateLoop
<1>2. ASSUME NEW i \in Timers, TimerFires(i)
      PROVE  Types'
  <2>1. TimersOK'
    BY <1>2 DEF TimerFires, TimersOK, TimerType
  <2>2. UNCHANGED <<queue, loop, state, modeFile, unsaved, emitted, connection, world>>
    BY <1>2 DEF TimerFires, client
  <2> QED
    BY <2>1, <2>2, QueueStays, LoopStays, WorldStays
<1>3. ASSUME NEW i \in Timers, TimerSends(i)
      PROVE  Types'
  <2>1. TimersOK'
    BY <1>3 DEF TimerSends, TimersOK, TimerType, NoTimer, Debounce
  <2>2. QueueOK'
    BY <1>3, SendType DEF TimerSends, Events
  <2>3. UNCHANGED <<loop, state, modeFile, unsaved, emitted, connection, world>>
    BY <1>3 DEF TimerSends, client
  <2> QED
    BY <2>1, <2>2, <2>3, LoopStays, WorldStays
<1>4. CASE Tick
  <2>1. TimersOK'
    BY <1>4 DEF Tick, TimersOK, TimerType, Debounce
  <2>2. UNCHANGED <<queue, loop, state, modeFile, unsaved, emitted, connection, world>>
    BY <1>4 DEF Tick, client
  <2> QED
    BY <2>1, <2>2, QueueStays, LoopStays, WorldStays
<1>5. CASE SendInput
  <2>1. PICK input \in Inputs \ {"focus", "unfocus", "locked", "unlocked", "connect"} :
          Send(input)
    BY <1>5 DEF SendInput
  <2>2. QueueOK'
    BY <2>1, SendType, ShellStateAssumption DEF Events
  <2>3. UNCHANGED <<timers, loop, state, modeFile, unsaved, emitted, connection, world>>
    BY <1>5 DEF SendInput, client
  <2> QED
    BY <2>2, <2>3, TimersStay, LoopStays, WorldStays
<1>6. CASE SendFocus
  <2>1. QueueOK' /\ focus' \in BOOLEAN
    BY <1>6, SendType DEF SendFocus, Events, AllInputs
  <2>2. UNCHANGED <<timers, loop, state, modeFile, unsaved, emitted, connection, lockFlag,
                    locker, faults>>
    BY <1>6 DEF SendFocus, client
  <2>3. WorldOK'
    BY <2>1, <2>2 DEF WorldOK
  <2> QED
    BY <2>1, <2>2, <2>3, TimersStay, LoopStays
<1>7. ASSUME NEW k \in Lockers, StoreLock(k)
      PROVE  Types'
  <2>1. PICK event \in {"locked", "unlocked"} :
          lockFlag' = (event = "locked") /\ locker' = [locker EXCEPT ![k] = event]
    BY <1>7 DEF StoreLock
  <2>2. WorldOK'
    BY <1>7, <2>1 DEF StoreLock, WorldOK, client
  <2>3. UNCHANGED <<queue, timers, loop, state, modeFile, unsaved, emitted>>
    BY <1>7 DEF StoreLock
  <2> QED
    BY <2>2, <2>3, QueueStays, TimersStay, LoopStays
<1>8. ASSUME NEW k \in Lockers, SendLock(k)
      PROVE  Types'
  <2>1. QueueOK'
    BY <1>8, SendType DEF SendLock, WorldOK, Events, AllInputs
  <2>2. WorldOK'
    BY <1>8 DEF SendLock, WorldOK, client
  <2>3. UNCHANGED <<timers, loop, state, modeFile, unsaved, emitted>>
    BY <1>8 DEF SendLock
  <2> QED
    BY <2>1, <2>2, <2>3, TimersStay, LoopStays
<1>9. CASE Connect \/ FinishSnapshot
  <2>1. /\ UNCHANGED <<queue, timers, loop, state, modeFile, unsaved, emitted, world>>
        /\ connection' \in {"none", "reading", "connected"}
    BY <1>9 DEF Connect, FinishSnapshot
  <2>2. WorldOK'
    BY <2>1 DEF WorldOK, world
  <2> QED
    BY <2>1, <2>2, QueueStays, TimersStay, LoopStays
<1>10. CASE Crash
  BY <1>10, NewProcessTypes DEF Crash, LoopOK
<1>11. CASE Shutdown
  <2>1. /\ UNCHANGED <<queue, timers, state, modeFile, unsaved, emitted, connection, world>>
        /\ loop' = "stop"
    BY <1>11 DEF Shutdown, client
  <2>2. LoopOK'
    BY <2>1 DEF LoopOK, Loops
  <2> QED
    BY <2>1, <2>2, QueueStays, TimersStay, WorldStays
<1>12. CASE Exit
  <2>1. modeFile' \in {ModeAuto, ModeTablet, ModeDesktop, NoMode}
    BY <1>12 DEF Exit, LoopOK, StateType
  <2> QED
    BY <1>12, <2>1, NewProcessTypes DEF Exit
<1>13. CASE UNCHANGED vars
  <2>1. UNCHANGED <<queue, timers, loop, state, modeFile, unsaved, emitted, connection,
                    world>>
    BY <1>13 DEF vars, client
  <2> QED
    BY <2>1, QueueStays, TimersStay, LoopStays, WorldStays
<1> QED
  BY <1>1, <1>2, <1>3, <1>4, <1>5, <1>6, <1>7, <1>8, <1>9, <1>10, <1>11, <1>12, <1>13
  DEF Next

\* Every variable of the state loop keeps its type: the channel never holds more than its
\* capacity, a cycled mode is a mode, no timer is armed for longer than the debounce.
THEOREM TypeCorrect == Spec => []TypeOK
  BY InitTypes, NextTypes, TypesAreTypeOK, PTL DEF Spec

----------------------------------------------------------------------------
(* The keyboard, the lock and the mode.                                    *)

\* A hide has yet to come: a timer runs, or has sent its event.
HideComing ==
  \/ \E i \in Timers : timer[i].is # "off"
  \/ \E n \in 1..Len(queue) : queue[n] = "osk_hide_timeout"

LoadsFresh == loop = "load" => state = Fresh

ModeKept ==
  loop \in {"receive", "reeval", "emit"} /\ ~unsaved
    => LoadUserMode(modeFile) = state.userMode

OskKept ==
  loop \in {"receive", "emit"} => HideComing \/ state.oskVisible = OskVisible(state)

Kept == LoadsFresh /\ ModeKept /\ NoOskOverLock /\ OskKept

IInv == Types /\ Kept

LEMMA RecomputeKeeps ==
  ASSUME NEW s \in StateType
  PROVE  LET r == RecomputeOsk(s) IN
           /\ r.oskVisible = OskVisible(r)
           /\ r.screenLocked /\ r.oskVisible => r.oskPinned
           /\ r.userMode = s.userMode
<1> DEFINE r == RecomputeOsk(s)
<1>1. /\ r = [s EXCEPT !.oskVisible = OskVisible(s)]
      /\ r.oskVisible = OskVisible(s)
      /\ r.hwTablet = s.hwTablet
      /\ r.textFocus = s.textFocus
      /\ r.screenLocked = s.screenLocked
      /\ r.userMode = s.userMode
      /\ r.oskDismissed = s.oskDismissed
      /\ r.oskPinned = s.oskPinned
  BY DEF RecomputeOsk, StateType
<1>2. OskVisible(r) = OskVisible(s)
  BY <1>1 DEF OskVisible, EffectiveTablet
<1>3. r.screenLocked /\ r.oskVisible => r.oskPinned
  BY <1>1 DEF OskVisible
<1> QED
  BY <1>1, <1>2, <1>3

\* A handler that computes the keyboard anew.
LEMMA RecomputingStep ==
  ASSUME Kept, NEW s \in StateType, s.userMode = state.userMode,
         loop \in {"receive", "reeval"}, loop' = "emit",
         state' = RecomputeOsk(s), UNCHANGED <<modeFile, unsaved>>
  PROVE  Kept'
  BY RecomputeKeeps DEF Kept, LoadsFresh, ModeKept, NoOskOverLock, OskKept

\* A step that leaves the loop and its state alone.
LEMMA OtherStep ==
  ASSUME Kept, UNCHANGED <<loop, state, modeFile, unsaved>>, HideComing => HideComing'
  PROVE  Kept'
  BY DEF Kept, LoadsFresh, ModeKept, NoOskOverLock, OskKept

LEMMA SendKeepsHide ==
  ASSUME QueueOK, NEW event \in Events, Send(event), UNCHANGED timer
  PROVE  HideComing => HideComing'
<1>1. \A n \in 1..Len(queue) : n \in 1..Len(queue') /\ queue'[n] = queue[n]
  BY DEF Send, QueueOK
<1> QED
  BY <1>1 DEF HideComing

LEMMA HandleKept == IInv /\ Handle => Kept'
<1> SUFFICES ASSUME IInv, Handle
             PROVE  Kept'
  OBVIOUS
<1>0. state \in StateType /\ Kept
  BY DEF IInv, Types, LoopOK
<1>1. CASE HandleTablet
  <2>1. PICK b \in BOOLEAN : state' = RecomputeOsk([state EXCEPT !.hwTablet = b])
    BY <1>1 DEF HandleTablet
  <2>2. /\ [state EXCEPT !.hwTablet = b] \in StateType
        /\ [state EXCEPT !.hwTablet = b].userMode = state.userMode
    BY <1>0 DEF StateType
  <2>3. loop = "receive" /\ loop' = "emit" /\ UNCHANGED <<modeFile, unsaved>>
    BY <1>1 DEF HandleTablet, Receive
  <2> QED
    BY <1>0, <2>1, <2>2, <2>3, RecomputingStep
<1>2. CASE HandleFocus
  <2> DEFINE s == [state EXCEPT !.textFocus = TRUE, !.oskDismissed = FALSE]
  <2>1. s \in StateType /\ s.userMode = state.userMode
    BY <1>0 DEF StateType
  <2>2. /\ loop = "receive" /\ loop' = "emit" /\ UNCHANGED <<modeFile, unsaved>>
        /\ state' = RecomputeOsk(s)
    BY <1>2 DEF HandleFocus, Receive
  <2> QED
    BY <1>0, <2>1, <2>2, RecomputingStep
<1>3. CASE HandleUnfocus
  <2>1. HideComing'
    <3>1. PICK delay \in Nat : Arm(delay)
      BY <1>3 DEF HandleUnfocus, IInv, Types, TimersOK, Debounce, HideDelay
    <3>2. PICK i \in Timers :
            timer' = [Stopped EXCEPT ![i] = [is |-> "armed", left |-> delay]]
      BY <3>1 DEF Arm
    <3>3. timer'[i].is = "armed"
      BY <3>2 DEF Stopped
    <3> QED
      BY <3>3 DEF HideComing
  <2>2. PICK b \in BOOLEAN : state' = [state EXCEPT !.textFocus = b]
    BY <1>3 DEF HandleUnfocus
  <2>3. loop = "receive" /\ loop' = "emit" /\ UNCHANGED <<modeFile, unsaved>>
    BY <1>3 DEF HandleUnfocus, Receive
  <2> QED
    BY <1>0, <2>1, <2>2, <2>3
    DEF Kept, LoadsFresh, ModeKept, NoOskOverLock, OskKept, StateType
<1>4. CASE HandleHideTimeout
  <2> DEFINE s == [state EXCEPT !.textFocus = FALSE]
  <2>1. s \in StateType /\ s.userMode = state.userMode
    BY <1>0 DEF StateType
  <2>2. /\ loop = "receive" /\ loop' = "emit" /\ UNCHANGED <<modeFile, unsaved>>
        /\ state' = RecomputeOsk(s)
    BY <1>4 DEF HandleHideTimeout, Receive
  <2> QED
    BY <1>0, <2>1, <2>2, RecomputingStep
<1>5. CASE HandleLock
  <2>1. PICK b \in BOOLEAN : state' = RecomputeOsk([state EXCEPT !.screenLocked = b])
    BY <1>5 DEF HandleLock
  <2>2. /\ [state EXCEPT !.screenLocked = b] \in StateType
        /\ [state EXCEPT !.screenLocked = b].userMode = state.userMode
    BY <1>0 DEF StateType
  <2>3. loop = "receive" /\ loop' = "emit" /\ UNCHANGED <<modeFile, unsaved>>
    BY <1>5 DEF HandleLock, Receive
  <2> QED
    BY <1>0, <2>1, <2>2, <2>3, RecomputingStep
<1>6. CASE HandleOskCommand
  <2>1. PICK command \in OskCommands : state' = AfterOskCommand(state, command)
    BY <1>6 DEF HandleOskCommand
  <2>2. PICK s \in StateType : s.userMode = state.userMode /\ state' = RecomputeOsk(s)
    BY <1>0, <2>1, OskCommandRecomputes
  <2>3. loop = "receive" /\ loop' = "emit" /\ UNCHANGED <<modeFile, unsaved>>
    BY <1>6 DEF HandleOskCommand, Receive
  <2> QED
    BY <1>0, <2>2, <2>3, RecomputingStep
<1>7. CASE HandleModeCommand
  <2>1. PICK m : state' = [state EXCEPT !.userMode = m]
    BY <1>7 DEF HandleModeCommand, AfterModeCommand
  <2>2. loop' = "save"
    BY <1>7 DEF HandleModeCommand
  <2> QED
    BY <1>0, <2>1, <2>2 DEF Kept, LoadsFresh, ModeKept, NoOskOverLock, OskKept, StateType
<1> QED
  BY <1>1, <1>2, <1>3, <1>4, <1>5, <1>6, <1>7 DEF Handle

LEMMA LoopKept ==
  IInv /\ (Truncate \/ WriteMode \/ SaveFails \/ ReevalOsk \/ EmitState \/ Load) => Kept'
<1> SUFFICES ASSUME IInv, Truncate \/ WriteMode \/ SaveFails \/ ReevalOsk \/ EmitState \/ Load
             PROVE  Kept'
  OBVIOUS
<1>0. state \in StateType /\ Kept
  BY DEF IInv, Types, LoopOK
<1>1. CASE Truncate
  BY <1>0, <1>1 DEF Truncate, Kept, LoadsFresh, ModeKept, NoOskOverLock, OskKept
<1>2. CASE WriteMode
  <2>1. LoadUserMode(modeFile') = state'.userMode
    BY <1>0, <1>2 DEF WriteMode, LoadUserMode, StateType, ModeAuto, ModeTablet, ModeDesktop,
       NoMode
  <2> QED
    BY <1>0, <1>2, <2>1 DEF WriteMode, Kept, LoadsFresh, ModeKept, NoOskOverLock, OskKept
<1>s. CASE SaveFails
  BY <1>0, <1>s DEF SaveFails, Kept, LoadsFresh, ModeKept, NoOskOverLock, OskKept
<1>3. CASE ReevalOsk
  BY <1>0, <1>3, RecomputingStep DEF ReevalOsk
<1>4. CASE EmitState
  <2>1. /\ loop = "emit" /\ loop' = "receive"
        /\ UNCHANGED <<queue, state, timers, modeFile, unsaved>>
    BY <1>4 DEF EmitState
  <2>2. HideComing => HideComing'
    BY <2>1 DEF HideComing, timers
  <2> QED
    BY <1>0, <2>1, <2>2 DEF Kept, LoadsFresh, ModeKept, NoOskOverLock, OskKept
<1>5. CASE Load
  <2>1. state = Fresh
    BY <1>0, <1>5 DEF Load, Kept, LoadsFresh
  <2>2. state'.oskVisible = FALSE /\ OskVisible(state') = FALSE
    BY <1>5, <2>1 DEF Load, Fresh, OskVisible
  <2>3. LoadUserMode(modeFile') = state'.userMode
    BY <1>5, <2>1 DEF Load, Fresh
  <2> QED
    BY <1>5, <2>2, <2>3 DEF Load, Kept, LoadsFresh, ModeKept, NoOskOverLock, OskKept
<1> QED
  BY <1>1, <1>2, <1>s, <1>3, <1>4, <1>5

LEMMA NewProcessKept ==
  ASSUME NewProcess
  PROVE  Kept'
  BY DEF NewProcess, Kept, LoadsFresh, ModeKept, NoOskOverLock, OskKept, Fresh

LEMMA InitIInv == Init => IInv
<1> SUFFICES ASSUME Init
             PROVE  IInv
  OBVIOUS
<1>1. Kept
  BY DEF Init, Kept, LoadsFresh, ModeKept, NoOskOverLock, OskKept, Fresh
<1> QED
  BY <1>1, InitTypes DEF IInv

LEMMA NextIInv == IInv /\ [Next]_vars => IInv'
<1> SUFFICES ASSUME IInv, [Next]_vars
             PROVE  Kept'
  BY NextTypes DEF IInv
<1>0. Types /\ QueueOK /\ Kept
  BY DEF IInv, Types
<1>1. CASE StateLoop
  BY <1>1, HandleKept, LoopKept DEF StateLoop
<1>2. ASSUME NEW i \in Timers, TimerFires(i)
      PROVE  Kept'
  <2>1. timer'[i].is = "fired"
    BY <1>0, <1>2 DEF TimerFires, Types, TimersOK, TimerType
  <2>2. HideComing'
    BY <2>1 DEF HideComing
  <2> QED
    BY <1>0, <1>2, <2>2, OtherStep DEF TimerFires
<1>3. ASSUME NEW i \in Timers, TimerSends(i)
      PROVE  Kept'
  <2>1. Len(queue') \in 1..Len(queue') /\ queue'[Len(queue')] = "osk_hide_timeout"
    BY <1>0, <1>3 DEF TimerSends, Send, QueueOK
  <2>2. HideComing'
    BY <2>1 DEF HideComing
  <2> QED
    BY <1>0, <1>3, <2>2, OtherStep DEF TimerSends
<1>4. CASE Tick
  <2>1. \A i \in Timers : timer'[i].is = timer[i].is
    BY <1>0, <1>4 DEF Tick, Types, TimersOK, TimerType
  <2>2. HideComing => HideComing'
    BY <1>4, <2>1 DEF Tick, HideComing
  <2> QED
    BY <1>0, <1>4, <2>2, OtherStep DEF Tick
<1>5. CASE SendInput
  <2>1. PICK input \in Events : Send(input)
    BY <1>5, ShellStateAssumption DEF SendInput, Events
  <2>2. UNCHANGED <<loop, state, modeFile, unsaved, timer>>
    BY <1>5 DEF SendInput, timers
  <2> QED
    BY <1>0, <2>1, <2>2, SendKeepsHide, OtherStep
<1>6. CASE SendFocus
  <2>1. PICK event \in Events : Send(event)
    BY <1>6 DEF SendFocus, Events, AllInputs
  <2>2. UNCHANGED <<loop, state, modeFile, unsaved, timer>>
    BY <1>6 DEF SendFocus, timers
  <2> QED
    BY <1>0, <2>1, <2>2, SendKeepsHide, OtherStep
<1>7. ASSUME NEW k \in Lockers, StoreLock(k)
      PROVE  Kept'
  BY <1>0, <1>7, OtherStep DEF StoreLock, timers, HideComing
<1>8. ASSUME NEW k \in Lockers, SendLock(k)
      PROVE  Kept'
  <2>1. locker[k] \in Events /\ Send(locker[k])
    BY <1>0, <1>8 DEF SendLock, Types, WorldOK, Events, AllInputs
  <2>2. UNCHANGED <<loop, state, modeFile, unsaved, timer>>
    BY <1>8 DEF SendLock, timers
  <2> QED
    BY <1>0, <2>1, <2>2, SendKeepsHide, OtherStep
<1>9. CASE Connect \/ FinishSnapshot
  <2>1. UNCHANGED <<loop, queue, state, modeFile, unsaved, timer>>
    BY <1>9 DEF Connect, FinishSnapshot, timers
  <2> QED
    BY <1>0, <2>1, OtherStep DEF HideComing
<1>10. CASE Crash \/ Exit
  BY <1>10, NewProcessKept DEF Crash, Exit
<1>11. CASE Shutdown
  BY <1>0, <1>11 DEF Shutdown, Kept, LoadsFresh, ModeKept, NoOskOverLock, OskKept
<1>12. CASE UNCHANGED vars
  BY <1>0, <1>12, OtherStep DEF vars, timers, HideComing
<1> QED
  BY <1>1, <1>2, <1>3, <1>4, <1>5, <1>6, <1>7, <1>8, <1>9, <1>10, <1>11, <1>12 DEF Next

\* The sets that HidePending counts are finite, so what is coming is counted.
LEMMA HideIsPending == Types /\ HideComing => HidePending
<1> SUFFICES ASSUME Types, HideComing
             PROVE  HidePending
  OBVIOUS
<1>1. CASE \E i \in Timers : timer[i].is # "off"
  <2> DEFINE S == {i \in Timers : timer[i].is # "off"}
  <2>1. IsFiniteSet(S) /\ S # {}
    BY <1>1, ShellStateAssumption, FS_Subset
  <2>2. Cardinality(S) \in Nat /\ Cardinality(S) # 0
    BY <2>1, FS_CardinalityType, FS_EmptySet
  <2> QED
    BY <2>2 DEF HidePending, Running
<1>2. CASE \E n \in 1..Len(queue) : queue[n] = "osk_hide_timeout"
  <2> DEFINE S == {n \in 1..Len(queue) : queue[n] = "osk_hide_timeout"}
  <2>1. Len(queue) \in Nat
    BY DEF Types, QueueOK
  <2>2. IsFiniteSet(S) /\ S # {}
    <3>1. IsFiniteSet(1..Len(queue))
      BY <2>1, FS_Interval
    <3>2. S \subseteq 1..Len(queue) /\ S # {}
      BY <1>2
    <3> HIDE DEF S
    <3> QED
      BY <3>1, <3>2, FS_Subset
  <2>3. Cardinality(S) \in Nat /\ Cardinality(S) # 0
    BY <2>2, FS_CardinalityType, FS_EmptySet
  <2> QED
    BY <2>3 DEF HidePending, Waiting
<1> QED
  BY <1>1, <1>2 DEF HideComing

LEMMA Invariance == Spec => []IInv
  BY InitIInv, NextIInv, PTL DEF Spec

\* Whatever the order of deactivations, timers, commands and locks (onTextFocus, the two
\* time.AfterFunc and osk_hide_timeout), the keyboard is what the state says unless a
\* hide is still coming: no hide is ever lost with the keyboard left up.
THEOREM KeyboardFollows == Spec => []OskFollows
<1>1. IInv => OskFollows
  BY HideIsPending DEF IInv, Kept, OskKept, OskFollows
<1> QED
  BY <1>1, Invariance, PTL

\* onScreenLock and the commands never leave the keyboard over the lock screen, unless
\* it was pinned.
THEOREM KeyboardUnderLock == Spec => []NoOskOverLock
<1>1. IInv => NoOskOverLock
  BY DEF IInv, Kept
<1> QED
  BY <1>1, Invariance, PTL

\* A daemon that is killed while its loop waits comes back in the mode the user chose
\* (saveUserMode, loadUserMode), however often it restarts, unless
\* the last save failed.
THEOREM ModeSurvives == Spec => []ModeSaved
<1>1. IInv => ModeSaved
  BY DEF IInv, Kept, ModeKept, ModeSaved
<1> QED
  BY <1>1, Invariance, PTL

----------------------------------------------------------------------------
(* What is on its way in the channel.                                      *)

\* The last of the events E in the channel is this one, or there is none.
EndsIn(q, E, event) ==
  \E n \in DOMAIN q : q[n] = event /\ \A m \in DOMAIN q : m > n => q[m] \notin E

HasNone(q, E) == \A n \in DOMAIN q : q[n] \notin E

LEMMA ReceiveKeepsOrder ==
  ASSUME NEW q \in Seq(Events), q # <<>>, NEW E, NEW event
  PROVE  /\ EndsIn(q, E, event) =>
              \/ EndsIn(Tail(q), E, event)
              \/ HasNone(Tail(q), E) /\ Head(q) = event
         /\ HasNone(q, E) => HasNone(Tail(q), E) /\ Head(q) \notin E
<1>1. /\ Len(q) \in Nat /\ Len(q) > 0 /\ DOMAIN q = 1..Len(q)
      /\ Len(Tail(q)) = Len(q) - 1 /\ DOMAIN Tail(q) = 1..Len(Tail(q))
      /\ Head(q) = q[1]
      /\ \A n \in 1..(Len(q) - 1) : Tail(q)[n] = q[n + 1]
  OBVIOUS
<1>2. ASSUME EndsIn(q, E, event)
      PROVE  EndsIn(Tail(q), E, event) \/ (HasNone(Tail(q), E) /\ Head(q) = event)
  <2>1. PICK n \in 1..Len(q) :
          q[n] = event /\ \A m \in 1..Len(q) : m > n => q[m] \notin E
    BY <1>1, <1>2 DEF EndsIn
  <2>2. CASE n = 1
    BY <1>1, <2>1, <2>2 DEF HasNone
  <2>3. CASE n # 1
    <3>1. n - 1 \in DOMAIN Tail(q) /\ Tail(q)[n - 1] = event
      BY <1>1, <2>1, <2>3
    <3>2. \A m \in DOMAIN Tail(q) : m > n - 1 => Tail(q)[m] \notin E
      BY <1>1, <2>1
    <3> DEFINE k == n - 1
    <3>3. /\ k \in DOMAIN Tail(q) /\ Tail(q)[k] = event
          /\ \A m \in DOMAIN Tail(q) : m > k => Tail(q)[m] \notin E
      BY <3>1, <3>2
    <3> HIDE DEF k
    <3> QED
      BY <3>3, Zenon DEF EndsIn
  <2> QED
    BY <2>2, <2>3
<1>3. HasNone(q, E) => HasNone(Tail(q), E) /\ Head(q) \notin E
  BY <1>1 DEF HasNone
<1> QED
  BY <1>2, <1>3

LEMMA SendKeepsOrder ==
  ASSUME NEW q \in Seq(Events), NEW E, NEW sent, NEW event
  PROVE  /\ sent = event => EndsIn(Append(q, sent), E, event)
         /\ sent \notin E =>
              /\ EndsIn(q, E, event) => EndsIn(Append(q, sent), E, event)
              /\ HasNone(q, E) => HasNone(Append(q, sent), E)
<1> DEFINE r == Append(q, sent)
           k == Len(q)
<1>1. /\ k \in Nat /\ DOMAIN q = 1..k /\ DOMAIN r = 1..(k + 1)
      /\ r[k + 1] = sent
      /\ \A n \in 1..k : r[n] = q[n]
  OBVIOUS
<1> HIDE DEF r, k
<1>2. sent = event => EndsIn(r, E, event)
  BY <1>1 DEF EndsIn
<1>3. ASSUME sent \notin E, EndsIn(q, E, event) PROVE EndsIn(r, E, event)
  <2>1. PICK n \in 1..k : q[n] = event /\ \A m \in 1..k : m > n => q[m] \notin E
    BY <1>1, <1>3 DEF EndsIn
  <2>2. \A m \in 1..(k + 1) : m > n => r[m] \notin E
    <3>1. \A m \in 1..(k + 1) : m \in 1..k \/ m = k + 1
      BY <1>1
    <3> QED
      BY <1>1, <1>3, <2>1, <3>1
  <2>3. n \in 1..(k + 1) /\ r[n] = event
    BY <1>1, <2>1
  <2> QED
    BY <1>1, <2>2, <2>3 DEF EndsIn
<1>4. sent \notin E /\ HasNone(q, E) => HasNone(r, E)
  BY <1>1 DEF HasNone
<1> QED
  BY <1>2, <1>3, <1>4 DEF r

----------------------------------------------------------------------------
(* The lock screen service, the loop and the client.                       *)

\* Where the loop is between two events.
Idle == {"receive", "stop", "stopping"}

\* What was emitted last is the state as soon as a handler is done, and a client that is
\* connected was told it, or has read it while the loop waited.
ClientTold ==
  /\ connection = "reading" => loop \in Idle /\ snapshot = StateData(state)
  /\ loop \in Idle /\ emitted # <<>> => emitted = <<StateData(state)>>
  /\ connection = "connected" /\ loop \in Idle => view = StateData(state)
  /\ connection = "connected" /\ emitted # <<>> => emitted = <<view>>
  /\ loop = "load" => connection = "none" /\ emitted = <<>>

LockEvents == {"locked", "unlocked"}
LockEvent == IF lockFlag THEN "locked" ELSE "unlocked"


\* The loop will learn the flag from the last lock event on its way, or has learnt it.
LockKnown ==
  /\ \A k \in Lockers : locker[k] # "rest" => locker[k] = LockEvent
  /\ (\A k \in Lockers : locker[k] = "rest") =>
       \/ EndsIn(queue, LockEvents, LockEvent)
       \/ HasNone(queue, LockEvents) /\ state.screenLocked = lockFlag

Agreed == ClientTold /\ LockKnown

\* A handler: it takes an event and follows the lock if it is one.
Takes(event) ==
  /\ Receive(event)
  /\ loop' \notin Idle /\ loop' # "load"
  /\ UNCHANGED <<emitted, client, world>>
  /\ state'.screenLocked = IF event \in LockEvents THEN event = "locked"
                                                   ELSE state.screenLocked

LEMMA HandlerTakes ==
  ASSUME Types, Handle
  PROVE  \E event : Takes(event)
<1>0. state \in StateType /\ "emit" \notin Idle /\ "save" \notin Idle
  BY DEF Types, LoopOK, Idle
<1>s. \A s \in StateType : RecomputeOsk(s).screenLocked = s.screenLocked
  BY DEF RecomputeOsk, StateType
<1>1. CASE HandleTablet
  <2>1. PICK event \in {"tablet", "no tablet"}, b \in BOOLEAN :
          Receive(event) /\ state' = RecomputeOsk([state EXCEPT !.hwTablet = b])
    BY <1>1 DEF HandleTablet
  <2>2. /\ [state EXCEPT !.hwTablet = b] \in StateType
        /\ [state EXCEPT !.hwTablet = b].screenLocked = state.screenLocked
    BY <1>0 DEF StateType
  <2>3. state'.screenLocked = state.screenLocked
    BY <1>s, <2>1, <2>2
  <2>4. event \notin LockEvents
    BY DEF LockEvents
  <2> QED
    BY <1>0, <1>1, <2>1, <2>3, <2>4 DEF HandleTablet, Takes
<1>2. CASE HandleFocus
  <2> DEFINE s == [state EXCEPT !.textFocus = TRUE, !.oskDismissed = FALSE]
  <2>1. s \in StateType /\ s.screenLocked = state.screenLocked
    BY <1>0 DEF StateType
  <2>2. state'.screenLocked = state.screenLocked
    BY <1>2, <1>s, <2>1 DEF HandleFocus
  <2>3. "focus" \notin LockEvents
    BY DEF LockEvents
  <2> QED
    BY <1>0, <1>2, <2>2, <2>3 DEF HandleFocus, Takes
<1>3. CASE HandleUnfocus
  <2>1. PICK b \in BOOLEAN : state' = [state EXCEPT !.textFocus = b]
    BY <1>3 DEF HandleUnfocus
  <2>2. state'.screenLocked = state.screenLocked
    BY <1>0, <2>1 DEF StateType
  <2>3. "unfocus" \notin LockEvents
    BY DEF LockEvents
  <2> QED
    BY <1>0, <1>3, <2>2, <2>3 DEF HandleUnfocus, Takes
<1>4. CASE HandleHideTimeout
  <2> DEFINE s == [state EXCEPT !.textFocus = FALSE]
  <2>1. s \in StateType /\ s.screenLocked = state.screenLocked
    BY <1>0 DEF StateType
  <2>2. state'.screenLocked = state.screenLocked
    BY <1>4, <1>s, <2>1 DEF HandleHideTimeout
  <2>3. "osk_hide_timeout" \notin LockEvents
    BY DEF LockEvents
  <2> QED
    BY <1>0, <1>4, <2>2, <2>3 DEF HandleHideTimeout, Takes
<1>5. CASE HandleLock
  <2>1. PICK event \in LockEvents :
          /\ Receive(event)
          /\ state' = RecomputeOsk([state EXCEPT !.screenLocked = (event = "locked")])
    BY <1>5 DEF HandleLock, LockEvents
  <2> DEFINE s == [state EXCEPT !.screenLocked = (event = "locked")]
  <2>2. s \in StateType /\ s.screenLocked = (event = "locked")
    BY <1>0 DEF StateType
  <2>3. state'.screenLocked = (event = "locked")
    BY <1>s, <2>1, <2>2
  <2> QED
    BY <1>0, <1>5, <2>1, <2>3 DEF HandleLock, Takes
<1>6. CASE HandleOskCommand
  <2>1. PICK command \in OskCommands :
          Receive(command) /\ state' = AfterOskCommand(state, command)
    BY <1>6 DEF HandleOskCommand
  <2>2. PICK s \in StateType : /\ s.screenLocked = state.screenLocked
                               /\ state' = RecomputeOsk(s)
    BY <1>0, <2>1, OskCommandRecomputes
  <2>3. command \notin LockEvents
    BY DEF LockEvents, OskCommands
  <2> QED
    BY <1>0, <1>6, <1>s, <2>1, <2>2, <2>3 DEF HandleOskCommand, Takes
<1>7. CASE HandleModeCommand
  <2>1. PICK command \in ModeCommands :
          Receive(command) /\ state' = AfterModeCommand(state, command)
    BY <1>7 DEF HandleModeCommand
  <2>2. state'.screenLocked = state.screenLocked
    BY <1>0, <2>1 DEF AfterModeCommand, StateType
  <2>3. command \notin LockEvents
    BY DEF LockEvents, ModeCommands
  <2> QED
    BY <1>0, <1>7, <2>1, <2>2, <2>3 DEF HandleModeCommand, Takes
<1> QED
  BY <1>1, <1>2, <1>3, <1>4, <1>5, <1>6, <1>7 DEF Handle

LEMMA TakesAgreed ==
  ASSUME Serialised, Types, Agreed, NEW event, Takes(event)
  PROVE  Agreed'
<1>1. /\ loop = "receive" /\ connection # "reading" /\ queue # <<>> /\ Head(queue) = event
      /\ queue' = Tail(queue) /\ queue \in Seq(Events)
      /\ UNCHANGED <<emitted, connection, snapshot, view, lockFlag, locker>>
  BY DEF Takes, Receive, client, world, Types, QueueOK
<1>2. ClientTold'
  BY <1>1 DEF Takes, Agreed, ClientTold
<1>3. LockKnown'
  <2>1. LockEvent' = LockEvent
    BY <1>1 DEF LockEvent
  <2>2. \A k \in Lockers : locker'[k] # "rest" => locker'[k] = LockEvent'
    BY <1>1, <2>1 DEF Agreed, LockKnown
  <2>3. ASSUME \A k \in Lockers : locker[k] = "rest"
        PROVE  \/ EndsIn(queue', LockEvents, LockEvent)
               \/ HasNone(queue', LockEvents) /\ state'.screenLocked = lockFlag
    <3>1. CASE EndsIn(queue, LockEvents, LockEvent)
      <4>0. queue' = Tail(queue)
        BY <1>1
      <4>1. CASE EndsIn(Tail(queue), LockEvents, LockEvent)
        BY <4>0, <4>1, Zenon
      <4>2. CASE HasNone(Tail(queue), LockEvents) /\ event = LockEvent
        <5>1. lockFlag \in BOOLEAN
          BY DEF Types, WorldOK
        <5>2. event \in LockEvents /\ (event = "locked") = lockFlag
          BY <4>2, <5>1 DEF LockEvent, LockEvents
        <5> QED
          BY <1>1, <4>2, <5>2 DEF Takes
      <4> QED
        BY <1>1, <3>1, <4>1, <4>2, ReceiveKeepsOrder
    <3>2. CASE HasNone(queue, LockEvents) /\ state.screenLocked = lockFlag
      <4>1. HasNone(Tail(queue), LockEvents) /\ event \notin LockEvents
        BY <1>1, <3>2, ReceiveKeepsOrder
      <4> QED
        BY <1>1, <3>2, <4>1 DEF Takes
    <3> QED
      BY <2>3, <3>1, <3>2 DEF Agreed, LockKnown
  <2> QED
    BY <1>1, <2>1, <2>2, <2>3 DEF LockKnown
<1> QED
  BY <1>2, <1>3 DEF Agreed

\* A step that leaves the lock and what is on its way alone.
LEMMA LockStays ==
  ASSUME LockKnown, UNCHANGED <<queue, lockFlag, locker>>,
         state'.screenLocked = state.screenLocked
  PROVE  LockKnown'
  BY DEF LockKnown, LockEvent, EndsIn, HasNone

\* A step that sends an event that is none of the lock's.
LEMMA OtherEventSent ==
  ASSUME Types, LockKnown, NEW event, event \notin LockEvents, Send(event),
         UNCHANGED <<state, lockFlag, locker>>
  PROVE  LockKnown'
<1>1. queue' = Append(queue, event) /\ queue \in Seq(Events)
  BY DEF Send, Types, QueueOK
<1>2. LockEvent' = LockEvent
  BY DEF LockEvent
<1>3. EndsIn(queue, LockEvents, LockEvent) => EndsIn(queue', LockEvents, LockEvent)
  BY <1>1, SendKeepsOrder
<1>4. HasNone(queue, LockEvents) => HasNone(queue', LockEvents)
  BY <1>1, SendKeepsOrder
<1> QED
  BY <1>2, <1>3, <1>4 DEF LockKnown

\* A step that leaves the client and what it could be told alone.
LEMMA ClientStays ==
  ASSUME ClientTold, UNCHANGED <<loop, state, emitted, client>>
  PROVE  ClientTold'
  BY DEF ClientTold, client

LEMMA LoopAgreed ==
  ASSUME Types, LoadsFresh, Agreed,
         Truncate \/ WriteMode \/ SaveFails \/ ReevalOsk \/ EmitState \/ Load
  PROVE  Agreed'
<1>0. UNCHANGED <<queue, lockFlag, locker>>
  BY DEF Truncate, WriteMode, SaveFails, ReevalOsk, EmitState, Load, world
<1>1. state'.screenLocked = state.screenLocked
  BY DEF Truncate, WriteMode, SaveFails, ReevalOsk, EmitState, Load, RecomputeOsk, Types,
     LoopOK, StateType
<1>2. LockKnown'
  BY <1>0, <1>1, LockStays DEF world, Agreed
<1>3. ClientTold'
  <2>1. CASE Truncate
    BY <2>1 DEF Truncate, Agreed, ClientTold, client, Idle
  <2>2. CASE WriteMode \/ SaveFails \/ ReevalOsk
    BY <2>2 DEF WriteMode, SaveFails, ReevalOsk, Agreed, ClientTold, client, Idle
  <2>3. CASE EmitState
    <3> DEFINE data == StateData(state)
    <3>1. /\ loop = "emit" /\ loop' = "receive" /\ UNCHANGED <<state, connection, snapshot>>
          /\ connection # "reading"
      BY <2>3 DEF EmitState, Agreed, ClientTold, Idle
    <3>2. emitted' = <<data>> /\ (connection = "connected" => view' = data)
      <4>1. CASE emitted = <<data>>
        <5>1. emitted' = emitted /\ view' = view
          BY <2>3, <4>1 DEF EmitState
        <5>2. emitted # <<>>
          BY <4>1
        <5>3. connection = "connected" => <<view>> = <<data>>
          BY <4>1, <5>2 DEF Agreed, ClientTold
        <5>4. <<view>> = <<data>> => view = data
          OBVIOUS
        <5> QED
          BY <4>1, <5>1, <5>3, <5>4
      <4>2. CASE emitted # <<data>>
        BY <2>3, <4>2 DEF EmitState
      <4> QED
        BY <4>1, <4>2
    <3>3. StateData(state)' = data
      BY <3>1 DEF StateData, EffectiveTablet
    <3> QED
      BY <3>1, <3>2, <3>3 DEF ClientTold
  <2>4. CASE Load
    BY <2>4 DEF Load, Agreed, ClientTold, client, Idle
  <2> QED
    BY <2>1, <2>2, <2>3, <2>4
<1> QED
  BY <1>2, <1>3 DEF Agreed

LEMMA NewProcessAgreed ==
  ASSUME NewProcess
  PROVE  Agreed'
<1>1. ClientTold'
  BY DEF NewProcess, ClientTold, Idle
<1>2. LockKnown'
  <2>1. queue' = <<>> /\ state' = Fresh /\ lockFlag' = FALSE
        /\ locker' = [k \in Lockers |-> "rest"]
    BY DEF NewProcess
  <2>2. HasNone(<<>>, LockEvents) /\ Fresh.screenLocked = FALSE
    BY DEF HasNone, Fresh
  <2>3. HasNone(queue', LockEvents) /\ state'.screenLocked = lockFlag'
    BY <2>1, <2>2, Zenon
  <2> QED
    BY <2>1, <2>3, Zenon DEF LockKnown
<1> QED
  BY <1>1, <1>2 DEF Agreed

LEMMA InitAgreed == Init => Agreed
<1>1. Init => ClientTold
  BY DEF Init, ClientTold, Idle
<1>2. ASSUME Init PROVE LockKnown
  <2>1. queue = <<>> /\ state = Fresh /\ lockFlag = FALSE
        /\ locker = [k \in Lockers |-> "rest"]
    BY <1>2 DEF Init
  <2>2. HasNone(<<>>, LockEvents) /\ Fresh.screenLocked = FALSE
    BY DEF HasNone, Fresh
  <2>3. HasNone(queue, LockEvents) /\ state.screenLocked = lockFlag
    BY <2>1, <2>2, Zenon
  <2> QED
    BY <2>1, <2>3, Zenon DEF LockKnown
<1> QED
  BY <1>1, <1>2 DEF Agreed

\* Lock and Unlock: the flag is stored, then its event is sent, by one goroutine.
LEMMA LockersAgreed ==
  ASSUME \A k, l \in Lockers : k = l, Types, Agreed,
         NEW k \in Lockers, StoreLock(k) \/ SendLock(k)
  PROVE  Agreed'
<1>0. /\ locker \in [Lockers -> {"rest", "locked", "unlocked"}] /\ lockFlag \in BOOLEAN
      /\ queue \in Seq(Events)
  BY DEF Types, WorldOK, QueueOK
<1>1. ClientTold'
  BY ClientStays DEF StoreLock, SendLock, Agreed
<1>2. CASE StoreLock(k)
  <2>1. PICK event \in LockEvents :
          lockFlag' = (event = "locked") /\ locker' = [locker EXCEPT ![k] = event]
    BY <1>2 DEF StoreLock, LockEvents
  <2>2. locker'[k] = event /\ event # "rest" /\ event = LockEvent'
    BY <1>0, <2>1 DEF LockEvent, LockEvents
  <2> QED
    BY <1>1, <2>2 DEF Agreed, LockKnown
<1>3. CASE SendLock(k)
  <2>1. /\ locker[k] # "rest" /\ queue' = Append(queue, locker[k])
        /\ locker' = [locker EXCEPT ![k] = "rest"] /\ lockFlag' = lockFlag
    BY <1>3 DEF SendLock, Send
  <2>2. locker[k] = LockEvent /\ LockEvent' = LockEvent
    BY <2>1 DEF Agreed, LockKnown, LockEvent
  <2>3. EndsIn(queue', LockEvents, LockEvent)
    BY <1>0, <2>1, <2>2, SendKeepsOrder
  <2>4. \A l \in Lockers : locker'[l] = "rest"
    BY <1>0, <2>1
  <2> QED
    BY <1>1, <2>2, <2>3, <2>4 DEF Agreed, LockKnown
<1> QED
  BY <1>2, <1>3

LEMMA ClientsAgreed ==
  ASSUME Serialised, Agreed, Connect \/ FinishSnapshot
  PROVE  Agreed'
<1>0. LockKnown'
  <2>1. UNCHANGED <<queue, state, world>>
    BY DEF Connect, FinishSnapshot
  <2> QED
    BY <2>1, LockStays DEF Agreed, world
<1>1. UNCHANGED <<loop, state, emitted>>
  BY DEF Connect, FinishSnapshot
<1>2. StateData(state)' = StateData(state)
  BY <1>1 DEF StateData, EffectiveTablet
<1>3. CASE Connect
  <2>1. loop = "receive" /\ connection' = "reading" /\ snapshot' = StateData(state)
    BY <1>3 DEF Connect
  <2> QED
    BY <1>0, <1>1, <1>2, <2>1 DEF Agreed, ClientTold, Idle
<1>4. CASE FinishSnapshot
  <2> DEFINE now == StateData(state)
  <2>1. loop \in Idle /\ snapshot = now /\ connection' = "connected"
    BY <1>4 DEF FinishSnapshot, Agreed, ClientTold
  <2>2. \A new : [field \in DOMAIN now |-> IF field \in new THEN now[field] ELSE now[field]]
                   = [field \in DOMAIN now |-> now[field]]
    OBVIOUS
  <2>3. now = [field \in DOMAIN now |-> now[field]]
    BY DEF StateData, @@
  <2>4. view' = now
    BY <1>4, <2>1, <2>2, <2>3 DEF FinishSnapshot
  <2>5. loop # "load"
    BY <2>1 DEF Idle
  <2> QED
    BY <1>0, <1>1, <1>2, <2>1, <2>4, <2>5 DEF Agreed, ClientTold
<1> QED
  BY <1>3, <1>4

LEMMA NextAgreed ==
  ASSUME Serialised, \A k, l \in Lockers : k = l, IInv, Agreed, [Next]_vars
  PROVE  Agreed'
<1>0. Types /\ LoadsFresh /\ ClientTold /\ LockKnown
  BY DEF IInv, Kept, Agreed
<1>1. CASE StateLoop
  BY <1>0, <1>1, HandlerTakes, TakesAgreed, LoopAgreed DEF StateLoop
<1>2. ASSUME NEW i \in Timers, TimerFires(i) PROVE Agreed'
  <2>1. UNCHANGED <<loop, queue, state, emitted, client, world>>
    BY <1>2 DEF TimerFires
  <2> QED
    BY <1>0, <2>1, ClientStays, LockStays DEF Agreed, world
<1>3. ASSUME NEW i \in Timers, TimerSends(i) PROVE Agreed'
  <2>1. UNCHANGED <<loop, state, emitted, client, world>> /\ Send("osk_hide_timeout")
    BY <1>3 DEF TimerSends
  <2>2. "osk_hide_timeout" \notin LockEvents
    BY DEF LockEvents
  <2> QED
    BY <1>0, <2>1, <2>2, ClientStays, OtherEventSent DEF Agreed, world
<1>4. CASE Tick
  <2>1. UNCHANGED <<loop, queue, state, emitted, client, world>>
    BY <1>4 DEF Tick
  <2> QED
    BY <1>0, <2>1, ClientStays, LockStays DEF Agreed, world
<1>5. CASE SendInput \/ SendFocus
  <2>1. PICK event : event \notin LockEvents /\ Send(event)
    BY <1>5 DEF SendInput, SendFocus, LockEvents
  <2>2. UNCHANGED <<loop, state, emitted, client, lockFlag, locker>>
    BY <1>5 DEF SendInput, SendFocus, world
  <2> QED
    BY <1>0, <2>1, <2>2, ClientStays, OtherEventSent DEF Agreed
<1>6. ASSUME NEW k \in Lockers, StoreLock(k) \/ SendLock(k) PROVE Agreed'
  BY <1>0, <1>6, LockersAgreed
<1>7. CASE Connect \/ FinishSnapshot
  BY <1>7, ClientsAgreed
<1>8. CASE Crash \/ Exit
  BY <1>8, NewProcessAgreed DEF Crash, Exit
<1>9. CASE Shutdown
  <2>1. /\ loop = "receive" /\ loop' = "stop"
        /\ UNCHANGED <<queue, state, emitted, client, world>>
    BY <1>9 DEF Shutdown
  <2>2. StateData(state)' = StateData(state)
    BY <2>1 DEF StateData, EffectiveTablet
  <2>3. ClientTold'
    BY <1>0, <2>1, <2>2 DEF ClientTold, Idle, client
  <2> QED
    BY <1>0, <2>1, <2>3, LockStays DEF Agreed, world
<1>10. CASE UNCHANGED vars
  BY <1>0, <1>10, ClientStays, LockStays DEF Agreed, vars, world
<1> QED
  BY <1>1, <1>2, <1>3, <1>4, <1>5, <1>6, <1>7, <1>8, <1>9, <1>10 DEF Next

\* With one goroutine at a time in Lock or Unlock, and clients that connect while the loop
\* waits, the lock screen service, the loop and the client agree as soon as nothing is on
\* its way: the hash of emitState never keeps a change to itself.
THEOREM PartiesAgree ==
  ASSUME Serialised, \A k, l \in Lockers : k = l
  PROVE  Spec => []StatesAgree
<1>1. Init => Agreed
  BY InitAgreed
<1>2. IInv /\ Agreed /\ [Next]_vars => Agreed'
  BY NextAgreed
<1>3. IInv /\ Agreed => StatesAgree
  <2> SUFFICES ASSUME Agreed PROVE StatesAgree
    OBVIOUS
  <2>1. ASSUME AtRest, \A k \in Lockers : locker[k] = "rest"
        PROVE  state.screenLocked = lockFlag
    <3>1. DOMAIN queue = {}
      BY <2>1 DEF AtRest
    <3>2. ~EndsIn(queue, LockEvents, LockEvent)
      BY <3>1 DEF EndsIn
    <3> QED
      BY <2>1, <3>2 DEF Agreed, LockKnown
  <2>2. ASSUME AtRest, connection = "connected" PROVE view = StateData(state)
    BY <2>2 DEF AtRest, Agreed, ClientTold, Idle
  <2> QED
    BY <2>1, <2>2 DEF StatesAgree, LockAgrees, ViewCurrent
<1> QED
  BY <1>1, <1>2, <1>3, Invariance, PTL DEF Spec

----------------------------------------------------------------------------
(* The focus.                                                              *)

FocusEvents == {"focus", "unfocus"}

\* With no field left, a deactivation is the last the loop will hear of the focus, or it
\* has heard it: then it has let the focus go, or will with the hide that is coming.
FocusKnown ==
  ~focus => \/ EndsIn(queue, FocusEvents, "unfocus")
            \/ HasNone(queue, FocusEvents) /\ (state.textFocus => HideComing)

\* The loop does not believe in a focus that is gone once nothing is on its way.
FocusLetGo == AtRest => (state.textFocus => focus)

\* A step that leaves the focus alone, and does not take a hide away.
LEMMA FocusStays ==
  ASSUME FocusKnown, UNCHANGED <<queue, focus>>, state'.textFocus => state.textFocus,
         HideComing => HideComing'
  PROVE  FocusKnown'
  BY DEF FocusKnown

\* A step that sends an event that is none of the focus's.
LEMMA PlainEventSent ==
  ASSUME Types, FocusKnown, NEW event \in Events, event \notin FocusEvents, Send(event),
         UNCHANGED <<state, focus>>, HideComing => HideComing'
  PROVE  FocusKnown'
<1>1. queue' = Append(queue, event) /\ queue \in Seq(Events)
  BY DEF Send, Types, QueueOK
<1>2. EndsIn(queue, FocusEvents, "unfocus") => EndsIn(queue', FocusEvents, "unfocus")
  BY <1>1, SendKeepsOrder
<1>3. HasNone(queue, FocusEvents) => HasNone(queue', FocusEvents)
  BY <1>1, SendKeepsOrder
<1> QED
  BY <1>2, <1>3 DEF FocusKnown

\* An event that is none of the focus's is handled.
LEMMA OtherHandled ==
  ASSUME Types, FocusKnown, NEW event, Receive(event), event \notin FocusEvents,
         UNCHANGED focus, state'.textFocus => state.textFocus /\ event # "osk_hide_timeout",
         UNCHANGED timer
  PROVE  FocusKnown'
<1>1. queue # <<>> /\ Head(queue) = event /\ queue' = Tail(queue) /\ queue \in Seq(Events)
  BY DEF Receive, Types, QueueOK
<1>2. EndsIn(queue, FocusEvents, "unfocus") => EndsIn(queue', FocusEvents, "unfocus")
  <2>1. "unfocus" \in FocusEvents
    BY DEF FocusEvents
  <2> QED
    BY <1>1, <2>1, ReceiveKeepsOrder
<1>3. HasNone(queue, FocusEvents) => HasNone(queue', FocusEvents)
  BY <1>1, ReceiveKeepsOrder
<1>4. ASSUME HideComing, event # "osk_hide_timeout" PROVE HideComing'
  <2>1. CASE \E i \in Timers : timer[i].is # "off"
    BY <2>1 DEF HideComing
  <2>2. ASSUME NEW n \in 1..Len(queue), queue[n] = "osk_hide_timeout" PROVE HideComing'
    <3>1. /\ Len(queue) \in Nat /\ Len(queue') = Len(queue) - 1 /\ Head(queue) = queue[1]
          /\ \A m \in 1..Len(queue') : queue'[m] = queue[m + 1]
      BY <1>1
    <3>2. n # 1
      BY <1>1, <1>4, <2>2, <3>1
    <3>3. n - 1 \in 1..Len(queue') /\ queue'[n - 1] = "osk_hide_timeout"
      BY <2>2, <3>1, <3>2
    <3> QED
      BY <3>3 DEF HideComing
  <2> QED
    BY <1>4, <2>1, <2>2 DEF HideComing
<1> QED
  BY <1>2, <1>3, <1>4 DEF FocusKnown

LEMMA HandleFocusKnown == Types /\ FocusKnown /\ Handle => FocusKnown'
<1> SUFFICES ASSUME Types, FocusKnown, Handle
             PROVE  FocusKnown'
  OBVIOUS
<1>0. state \in StateType /\ queue \in Seq(Events)
  BY DEF Types, LoopOK, QueueOK
<1>f. \A s \in StateType : RecomputeOsk(s).textFocus = s.textFocus
  BY DEF RecomputeOsk, StateType
<1>1. CASE HandleTablet
  <2>1. PICK event \in {"tablet", "no tablet"}, b \in BOOLEAN :
          Receive(event) /\ state' = RecomputeOsk([state EXCEPT !.hwTablet = b])
    BY <1>1 DEF HandleTablet
  <2>2. state'.textFocus = state.textFocus
    BY <1>0, <1>f, <2>1 DEF StateType
  <2>3. event \notin FocusEvents /\ event # "osk_hide_timeout"
    BY DEF FocusEvents
  <2> QED
    BY <1>1, <2>1, <2>2, <2>3, OtherHandled DEF HandleTablet, timers, world
<1>2. CASE HandleFocus
  <2>1. /\ queue # <<>> /\ Head(queue) = "focus" /\ queue' = Tail(queue)
        /\ UNCHANGED focus
    BY <1>2 DEF HandleFocus, Receive, world
  <2>2. "focus" \in FocusEvents /\ "focus" # "unfocus"
    BY DEF FocusEvents
  <2>3. HasNone(queue, FocusEvents) => Head(queue) \notin FocusEvents
    BY <1>0, <2>1, ReceiveKeepsOrder
  <2>4. EndsIn(queue, FocusEvents, "unfocus") => EndsIn(queue', FocusEvents, "unfocus")
    BY <1>0, <2>1, <2>2, ReceiveKeepsOrder
  <2> QED
    BY <2>1, <2>2, <2>3, <2>4 DEF FocusKnown
<1>3. CASE HandleUnfocus
  <2>1. PICK delay \in Nat : Arm(delay)
    BY <1>3 DEF HandleUnfocus, Types, TimersOK, Debounce, HideDelay
  <2>2. PICK i \in Timers :
          timer' = [Stopped EXCEPT ![i] = [is |-> "armed", left |-> delay]]
    BY <2>1 DEF Arm
  <2>3. timer'[i].is = "armed"
    BY <2>2 DEF Stopped
  <2>4. HideComing'
    BY <2>3 DEF HideComing
  <2>5. /\ queue # <<>> /\ Head(queue) = "unfocus" /\ queue' = Tail(queue)
        /\ UNCHANGED focus
    BY <1>3 DEF HandleUnfocus, Receive, world
  <2>6. EndsIn(queue, FocusEvents, "unfocus") =>
          EndsIn(queue', FocusEvents, "unfocus") \/ HasNone(queue', FocusEvents)
    BY <1>0, <2>5, ReceiveKeepsOrder
  <2>7. HasNone(queue, FocusEvents) => HasNone(queue', FocusEvents)
    BY <1>0, <2>5, ReceiveKeepsOrder
  <2> QED
    BY <2>4, <2>5, <2>6, <2>7 DEF FocusKnown
<1>4. CASE HandleHideTimeout
  <2>1. state'.textFocus = FALSE
    BY <1>0, <1>4, <1>f DEF HandleHideTimeout, StateType
  <2>2. "osk_hide_timeout" \notin FocusEvents
    BY DEF FocusEvents
  <2>3. Receive("osk_hide_timeout") /\ UNCHANGED <<timer, focus>>
    BY <1>4 DEF HandleHideTimeout, world
  <2> QED
    BY <2>1, <2>2, <2>3, OtherHandled
<1>5. CASE HandleLock
  <2>1. PICK event \in LockEvents, b \in BOOLEAN :
          Receive(event) /\ state' = RecomputeOsk([state EXCEPT !.screenLocked = b])
    BY <1>5 DEF HandleLock, LockEvents
  <2>2. state'.textFocus = state.textFocus
    BY <1>0, <1>f, <2>1 DEF StateType
  <2>3. event \notin FocusEvents /\ event # "osk_hide_timeout"
    BY DEF FocusEvents, LockEvents
  <2> QED
    BY <1>5, <2>1, <2>2, <2>3, OtherHandled DEF HandleLock, timers, world
<1>6. CASE HandleOskCommand
  <2>1. PICK command \in OskCommands :
          Receive(command) /\ state' = AfterOskCommand(state, command)
    BY <1>6 DEF HandleOskCommand
  <2>2. PICK s \in StateType : s.textFocus = state.textFocus /\ state' = RecomputeOsk(s)
    BY <1>0, <2>1, OskCommandRecomputes
  <2>3. command \notin FocusEvents /\ command # "osk_hide_timeout"
    BY DEF FocusEvents, OskCommands
  <2> QED
    BY <1>6, <1>f, <2>1, <2>2, <2>3, OtherHandled DEF HandleOskCommand, timers, world
<1>7. CASE HandleModeCommand
  <2>1. PICK command \in ModeCommands :
          Receive(command) /\ state' = AfterModeCommand(state, command)
    BY <1>7 DEF HandleModeCommand
  <2>2. state'.textFocus = state.textFocus
    BY <1>0, <2>1 DEF AfterModeCommand, StateType
  <2>3. command \notin FocusEvents /\ command # "osk_hide_timeout"
    BY DEF FocusEvents, ModeCommands
  <2> QED
    BY <1>7, <2>1, <2>2, <2>3, OtherHandled DEF HandleModeCommand, timers, world
<1> QED
  BY <1>1, <1>2, <1>3, <1>4, <1>5, <1>6, <1>7 DEF Handle

\* A process that begins has heard of no focus.
LEMMA NobodyFocused ==
  ASSUME NEW q, NEW s, q = <<>>, s = Fresh
  PROVE  HasNone(q, FocusEvents) /\ s.textFocus = FALSE
  BY DEF HasNone, Fresh

LEMMA NextFocusKnown ==
  ASSUME IInv, FocusKnown, [Next]_vars
  PROVE  FocusKnown'
<1>0. Types /\ QueueOK /\ LoadsFresh
  BY DEF IInv, Types, Kept
<1>1. CASE Handle
  BY <1>0, <1>1, HandleFocusKnown
<1>2. CASE Truncate \/ WriteMode \/ SaveFails \/ ReevalOsk \/ EmitState \/ Load
  <2>1. UNCHANGED <<queue, timer, focus>>
    BY <1>2 DEF Truncate, WriteMode, SaveFails, ReevalOsk, EmitState, Load, timers, world
  <2>2. state'.textFocus = state.textFocus
    BY <1>0, <1>2 DEF Truncate, WriteMode, SaveFails, ReevalOsk, EmitState, Load, RecomputeOsk,
       Types, LoopOK, StateType
  <2> QED
    BY <2>1, <2>2, FocusStays DEF HideComing
<1>3. ASSUME NEW i \in Timers, TimerFires(i) PROVE FocusKnown'
  <2>1. timer'[i].is = "fired"
    BY <1>0, <1>3 DEF TimerFires, Types, TimersOK, TimerType
  <2>2. HideComing'
    BY <2>1 DEF HideComing
  <2> QED
    BY <1>3, <2>2, FocusStays DEF TimerFires, world
<1>4. ASSUME NEW i \in Timers, TimerSends(i) PROVE FocusKnown'
  <2>1. Len(queue') \in 1..Len(queue') /\ queue'[Len(queue')] = "osk_hide_timeout"
    BY <1>0, <1>4 DEF TimerSends, Send, QueueOK
  <2>2. HideComing'
    BY <2>1 DEF HideComing
  <2>3. "osk_hide_timeout" \in Events /\ "osk_hide_timeout" \notin FocusEvents
    BY DEF Events, FocusEvents
  <2>4. Send("osk_hide_timeout") /\ UNCHANGED <<state, focus>>
    BY <1>4 DEF TimerSends, world
  <2> QED
    BY <1>0, <2>2, <2>3, <2>4, PlainEventSent
<1>5. CASE Tick
  <2>1. \A i \in Timers : timer'[i].is = timer[i].is
    BY <1>0, <1>5 DEF Tick, Types, TimersOK, TimerType
  <2>2. UNCHANGED <<queue, state, focus>>
    BY <1>5 DEF Tick, world
  <2> QED
    BY <2>1, <2>2, FocusStays DEF HideComing
<1>6. CASE SendInput
  <2>1. PICK input \in Events : input \notin FocusEvents /\ Send(input)
    BY <1>6, ShellStateAssumption DEF SendInput, Events, FocusEvents
  <2>2. UNCHANGED <<state, focus, timer>>
    BY <1>6 DEF SendInput, timers, world
  <2> QED
    BY <1>0, <2>1, <2>2, SendKeepsHide, PlainEventSent
<1>7. CASE SendFocus
  <2>1. CASE Send("unfocus") /\ focus' = FALSE
    <3>1. queue' = Append(queue, "unfocus") /\ queue \in Seq(Events)
      BY <1>0, <2>1 DEF Send, QueueOK
    <3>2. EndsIn(queue', FocusEvents, "unfocus")
      BY <3>1, SendKeepsOrder
    <3> QED
      BY <3>2 DEF FocusKnown
  <2>2. CASE focus' = TRUE
    BY <2>2 DEF FocusKnown
  <2> QED
    BY <1>7, <2>1, <2>2 DEF SendFocus
<1>8. ASSUME NEW k \in Lockers, StoreLock(k) PROVE FocusKnown'
  BY <1>8, FocusStays DEF StoreLock, timers, HideComing
<1>9. ASSUME NEW k \in Lockers, SendLock(k) PROVE FocusKnown'
  <2>1. locker[k] \in Events /\ locker[k] \notin FocusEvents /\ Send(locker[k])
    BY <1>0, <1>9 DEF SendLock, Types, WorldOK, Events, AllInputs, FocusEvents
  <2>2. UNCHANGED <<state, focus, timer>>
    BY <1>9 DEF SendLock, timers
  <2> QED
    BY <1>0, <2>1, <2>2, SendKeepsHide, PlainEventSent
<1>10. CASE Connect \/ FinishSnapshot \/ Shutdown \/ UNCHANGED vars
  <2>1. UNCHANGED <<queue, state, timer, focus>>
    BY <1>10 DEF Connect, FinishSnapshot, Shutdown, vars, timers, world
  <2> QED
    BY <2>1, FocusStays DEF HideComing
<1>11. CASE Crash \/ Exit
  <2>1. queue' = <<>> /\ state' = Fresh
    BY <1>11 DEF Crash, Exit, NewProcess
  <2>2. HasNone(queue', FocusEvents) /\ state'.textFocus = FALSE
    BY <2>1, NobodyFocused
  <2> QED
    BY <2>2 DEF FocusKnown
<1> QED
  BY <1>1, <1>2, <1>3, <1>4, <1>5, <1>6, <1>7, <1>8, <1>9, <1>10, <1>11 DEF Next, StateLoop

\* However deactivations are debounced and hide timers are armed, stopped and replaced
\* (onTextFocus), a loop at rest never believes in a field that has lost the focus.
THEOREM FocusIsLetGo == Spec => []FocusLetGo
<1>1. Init => FocusKnown
  <2> SUFFICES ASSUME Init PROVE FocusKnown
    OBVIOUS
  <2>1. queue = <<>> /\ state = Fresh
    BY DEF Init
  <2>2. HasNone(queue, FocusEvents) /\ state.textFocus = FALSE
    BY <2>1, NobodyFocused
  <2> QED
    BY <2>2 DEF FocusKnown
<1>2. IInv /\ FocusKnown => FocusLetGo
  <2> SUFFICES ASSUME IInv, FocusKnown, AtRest, state.textFocus
               PROVE  focus
    BY DEF FocusLetGo
  <2>1. DOMAIN queue = {} /\ ~HideComing
    BY HideIsPending DEF AtRest, IInv
  <2>2. ~EndsIn(queue, FocusEvents, "unfocus")
    BY <2>1 DEF EndsIn
  <2> QED
    BY <2>1, <2>2 DEF FocusKnown
<1> QED
  BY <1>1, <1>2, NextFocusKnown, Invariance, PTL DEF Spec
=============================================================================
