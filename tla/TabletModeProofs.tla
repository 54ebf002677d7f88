---------------------------- MODULE TabletModeProofs ----------------------------
(***************************************************************************)
(* Proofs about TabletMode, for every number of keyboards and timers and   *)
(* every timeout.                                                          *)
(***************************************************************************)
EXTENDS TabletModeMC, TLAPS

\* The invariant, with the types its steps need.
IInv ==
  /\ timer \in [Timers -> [armed : BOOLEAN, left : Int]]
  /\ pc \in [Threads -> {"rest", "publish", "swap", "call", "expire"}]
  /\ KeyboardTimerLives

LEMMA TimersAreThreads == Timers \subseteq Threads
  BY DEF Threads

\* A goroutine that does not hold the idle flag's end in its hands moves on.
LEMMA OtherGoesOn ==
  ASSUME IInv, NEW t \in Threads, pc[t] # "expire",
         NEW to \in {"rest", "publish", "swap", "call", "expire"}, TmGoto(t, to),
         UNCHANGED timer, kbActive' => kbActive
  PROVE  IInv'
<1>1. pc' \in [Threads -> {"rest", "publish", "swap", "call", "expire"}]
  BY DEF IInv, TmGoto
<1>2. \A i \in Timers : pc[i] = "expire" => pc'[i] = "expire"
  BY TimersAreThreads DEF IInv, TmGoto
<1> QED
  BY <1>1, <1>2 DEF IInv, KeyboardTimerLives

LEMMA InitIInv == TmInit => IInv
<1> SUFFICES ASSUME TmInit
             PROVE  IInv
  OBVIOUS
<1>1. timer \in [Timers -> [armed : BOOLEAN, left : Int]]
  BY DEF TmInit, NoTimer
<1>2. pc \in [Threads -> {"rest", "publish", "swap", "call", "expire"}]
  BY DEF TmInit
<1> QED
  BY <1>1, <1>2 DEF TmInit, IInv, KeyboardTimerLives

LEMMA NextIInv == IInv /\ [TmNext]_tmVars => IInv'
<1> SUFFICES ASSUME IInv, [TmNext]_tmVars
             PROVE  IInv'
  OBVIOUS
<1>1. ASSUME NEW t \in Threads, Publish(t)
      PROVE  IInv'
  <2>1. CASE ReadSources(t)
    BY <2>1, OtherGoesOn DEF ReadSources, readings, clocks
  <2>2. CASE Swap(t)
    <3>1. TmGoto(t, "call") \/ TmGoto(t, "rest")
      BY <2>2, Zenon DEF Swap
    <3> QED
      BY <2>2, <3>1, OtherGoesOn DEF Swap, readings, clocks
  <2>3. CASE CallBack(t)
    BY <2>3, OtherGoesOn DEF CallBack, readings, clocks
  <2> QED
    BY <1>1, <2>1, <2>2, <2>3 DEF Publish
<1>2. CASE SwitchEvent
  <2>1. "switch" \in Threads
    BY DEF Threads
  <2> QED
    BY <1>2, <2>1, OtherGoesOn DEF SwitchEvent, Engaged, clocks
<1>3. CASE LogindAnswers
  <2>1. "logind" \in Threads
    BY DEF Threads
  <2> QED
    BY <1>3, <2>1, OtherGoesOn DEF LogindAnswers, Engaged, clocks
<1>4. CASE LogindSignal \/ LogindFails \/ UNCHANGED tmVars
  BY <1>4 DEF LogindSignal, LogindFails, tmVars, readings, clocks, IInv, KeyboardTimerLives
<1>5. ASSUME NEW k \in Keyboards, KeyPressed(k)
      PROVE  IInv'
  <2>1. PICK i \in Timers :
          timer' = [Stopped EXCEPT ![i] = [armed |-> TRUE, left |-> Timeout]]
    BY <1>5 DEF KeyPressed
  <2>2. Stopped \in [Timers -> [armed : BOOLEAN, left : Int]]
    BY DEF Stopped, IInv, NoTimer
  <2>3. timer' \in [Timers -> [armed : BOOLEAN, left : Int]] /\ timer'[i].armed
    BY <2>1, <2>2, TabletAssumption
  <2>4. pc' \in [Threads -> {"rest", "publish", "swap", "call", "expire"}]
    BY <1>5 DEF KeyPressed, TmGoto, IInv
  <2> QED
    BY <2>3, <2>4 DEF IInv, KeyboardTimerLives
<1>6. ASSUME NEW i \in Timers, InactivityFires(i)
      PROVE  IInv'
  <2>1. i \in Threads
    BY TimersAreThreads
  <2>2. timer' \in [Timers -> [armed : BOOLEAN, left : Int]]
    BY <1>6 DEF InactivityFires, IInv, NoTimer
  <2>3. pc' \in [Threads -> {"rest", "publish", "swap", "call", "expire"}]
        /\ pc'[i] = "expire"
    BY <1>6, <2>1 DEF InactivityFires, TmGoto, IInv
  <2> QED
    BY <2>2, <2>3 DEF IInv, KeyboardTimerLives
<1>7. ASSUME NEW i \in Timers, KeyboardIdle(i)
      PROVE  IInv'
  BY <1>7 DEF KeyboardIdle, TmGoto, IInv, KeyboardTimerLives, clocks
<1>8. CASE TmTick
  <2>1. /\ timer' \in [Timers -> [armed : BOOLEAN, left : Int]]
        /\ \A i \in Timers : timer'[i].armed = timer[i].armed
    BY <1>8 DEF TmTick, IInv
  <2> QED
    BY <1>8, <2>1 DEF TmTick, IInv, KeyboardTimerLives, readings
<1> QED
  BY <1>1, <1>2, <1>3, <1>4, <1>5, <1>6, <1>7, <1>8 DEF TmNext

\* However keys, timers and publications interleave (onKeyboardActivity and the function
\* of its timer), an active keyboard always has a timer that will end it: the machine
\* never stays a laptop for want of a timer.
THEOREM TimerNeverLost == TmSpec => []KeyboardTimerLives
<1>1. IInv => KeyboardTimerLives
  BY DEF IInv
<1> QED
  BY <1>1, InitIInv, NextIInv, PTL DEF TmSpec

----------------------------------------------------------------------------
(* The types.                                                              *)

LEMMA InitTypes == TmInit => TmTypeOK
<1> SUFFICES ASSUME TmInit
             PROVE  TmTypeOK
  OBVIOUS
<1>1. timer \in [Timers -> [armed : BOOLEAN, left : 0..Timeout]] /\ sinceKey \in 0..Timeout
  BY TabletAssumption DEF TmInit, NoTimer
<1>2. pc \in [Threads -> {"rest", "publish", "swap", "call", "expire"}]
  BY DEF TmInit
<1>3. want \in [Threads -> BOOLEAN]
  BY DEF TmInit
<1> QED
  BY <1>1, <1>2, <1>3 DEF TmInit, TmTypeOK, Modes

LEMMA PublishTypes ==
  ASSUME TmTypeOK, NEW t \in Threads, Publish(t)
  PROVE  TmTypeOK'
<1> USE DEF TmTypeOK, readings, clocks
<1>1. CASE ReadSources(t)
  <2>1. IsTablet \in BOOLEAN
    <3>1. CASE evdev # "none"
      BY <3>1 DEF IsTablet
    <3>2. CASE evdev = "none" /\ logindMode = "enabled"
      BY <3>2 DEF IsTablet
    <3>3. CASE evdev = "none" /\ logindMode = "disabled"
      BY <3>3 DEF IsTablet
    <3>4. CASE evdev = "none" /\ logindMode = "indeterminate"
      BY <3>4 DEF IsTablet
    <3> QED
      BY <3>1, <3>2, <3>3, <3>4 DEF Modes
  <2>2. want' \in [Threads -> BOOLEAN]
    BY <1>1, <2>1, Zenon DEF ReadSources
  <2>3. pc' \in [Threads -> {"rest", "publish", "swap", "call", "expire"}]
    BY <1>1 DEF ReadSources, TmGoto
  <2> QED
    BY <1>1, <2>2, <2>3 DEF ReadSources
<1>2. CASE Swap(t)
  <2>1. want' \in [Threads -> BOOLEAN]
    BY <1>2 DEF Swap
  <2>2. pc' \in [Threads -> {"rest", "publish", "swap", "call", "expire"}]
    BY <1>2 DEF Swap, TmGoto
  <2> QED
    BY <1>2, <2>1, <2>2 DEF Swap
<1>3. CASE CallBack(t)
  BY <1>3 DEF CallBack, TmGoto
<1> QED
  BY <1>1, <1>2, <1>3 DEF Publish

LEMMA NextTypes == TmTypeOK /\ [TmNext]_tmVars => TmTypeOK'
<1> SUFFICES ASSUME TmTypeOK, [TmNext]_tmVars
             PROVE  TmTypeOK'
  OBVIOUS
<1> USE DEF TmTypeOK, readings, clocks
<1>0. /\ {"switch", "logind"} \cup Keyboards \cup Timers \subseteq Threads
      /\ Timeout \in Nat \ {0}
  BY TabletAssumption DEF Threads
<1>1. ASSUME NEW t \in Threads, Publish(t)
      PROVE  TmTypeOK'
  BY <1>1, PublishTypes
<1>2. CASE SwitchEvent
  BY <1>0, <1>2 DEF SwitchEvent, TmGoto
<1>3. CASE LogindSignal \/ LogindAnswers \/ LogindFails \/ UNCHANGED tmVars
  BY <1>0, <1>3 DEF LogindSignal, LogindAnswers, LogindFails, TmGoto, Modes, tmVars
<1>4. ASSUME NEW k \in Keyboards, KeyPressed(k)
      PROVE  TmTypeOK'
  <2>1. Stopped \in [Timers -> [armed : BOOLEAN, left : 0..Timeout]]
    BY <1>0 DEF Stopped, NoTimer
  <2>2. PICK i \in Timers :
          /\ timer' = [Stopped EXCEPT ![i] = [armed |-> TRUE, left |-> Timeout]]
          /\ kbTimer' = i
    BY <1>4 DEF KeyPressed
  <2>3. timer' \in [Timers -> [armed : BOOLEAN, left : 0..Timeout]]
    BY <1>0, <2>1, <2>2
  <2>4. pc' \in [Threads -> {"rest", "publish", "swap", "call", "expire"}]
    BY <1>4 DEF KeyPressed, TmGoto
  <2> QED
    BY <1>0, <1>4, <2>2, <2>3, <2>4 DEF KeyPressed
<1>5. ASSUME NEW i \in Timers, InactivityFires(i) \/ KeyboardIdle(i)
      PROVE  TmTypeOK'
  <2>1. timer' \in [Timers -> [armed : BOOLEAN, left : 0..Timeout]]
    <3>1. NoTimer \in [armed : BOOLEAN, left : 0..Timeout]
      BY <1>0 DEF NoTimer
    <3>2. timer' = [timer EXCEPT ![i] = NoTimer] \/ timer' = timer
      BY <1>5 DEF InactivityFires, KeyboardIdle
    <3> QED
      BY <3>1, <3>2
  <2>2. pc' \in [Threads -> {"rest", "publish", "swap", "call", "expire"}]
    BY <1>5 DEF InactivityFires, KeyboardIdle, TmGoto
  <2> QED
    BY <1>5, <2>1, <2>2 DEF InactivityFires, KeyboardIdle
<1>6. CASE TmTick
  <2>1. timer' \in [Timers -> [armed : BOOLEAN, left : 0..Timeout]]
    <3> SUFFICES ASSUME NEW i \in Timers
                 PROVE  (IF timer[i].armed THEN [timer[i] EXCEPT !.left = @ - 1] ELSE timer[i])
                          \in [armed : BOOLEAN, left : 0..Timeout]
      BY <1>6 DEF TmTick
    <3>1. timer[i] \in [armed : BOOLEAN, left : 0..Timeout]
      OBVIOUS
    <3>2. timer[i].armed => timer[i].left > 0
      BY <1>6 DEF TmTick
    <3> QED
      BY <1>0, <3>1, <3>2
  <2>2. sinceKey' \in 0..Timeout
    BY <1>0, <1>6 DEF TmTick
  <2> QED
    BY <1>6, <2>1, <2>2 DEF TmTick
<1> QED
  BY <1>1, <1>2, <1>3, <1>4, <1>5, <1>6 DEF TmNext

\* Every variable of the monitor keeps its type: no timer runs longer than the timeout and
\* publish finds every source in a state it knows.
THEOREM TypeCorrect == TmSpec => []TmTypeOK
  BY InitTypes, NextTypes, PTL DEF TmSpec

----------------------------------------------------------------------------
(* The flag follows the sources, as long as publications do not overlap.   *)

\* The timer of the keyboards ends when they have been idle for the timeout, and no other
\* one is armed: an old timer was stopped or has fired.
OneTimer ==
  \A i \in Timers : timer[i].armed => i = kbTimer /\ timer[i].left + sinceKey = Timeout

\* What each goroutine knows while it is the only one at work.
AtWork(t) ==
  /\ pc[t] \in {"expire", "publish"} => reported = tablet
  /\ pc[t] = "swap" => reported = tablet /\ want[t] = IsTablet
  /\ pc[t] = "call" => tablet = IsTablet /\ want[t] = IsTablet
  /\ pc[t] = "expire" => sinceKey = Timeout

Alone == \A t, u \in Threads : Engaged(t) /\ Engaged(u) => t = u

\* The invariant.
Following ==
  /\ OneTimer
  /\ ~disturbed => /\ Alone
                   /\ \A t \in Threads : AtWork(t)
                   /\ ToldCurrent
                   /\ sinceKey < Timeout => kbActive

LEMMA InitFollowing == WatchedInit => Following
<1> SUFFICES ASSUME WatchedInit
             PROVE  Following
  OBVIOUS
<1> USE DEF WatchedInit, TmInit
<1>1. OneTimer
  BY DEF OneTimer, NoTimer
<1>2. Alone /\ \A t \in Threads : AtWork(t)
  BY DEF Alone, AtWork, Engaged
<1>3. ToldCurrent
  BY DEF ToldCurrent, Quiet, Engaged, Threads
<1> QED
  BY <1>1, <1>2, <1>3, TabletAssumption DEF Following

\* Only the goroutine that takes a step can be at work after it.
LEMMA TheOneAtWork ==
  ASSUME TmTypeOK, NEW t \in Threads, NEW to, TmGoto(t, to), Alone', to # "rest"
  PROVE  \A u \in Threads : u # t => pc'[u] = "rest"
<1>1. pc'[t] = to
  BY DEF TmTypeOK, TmGoto
<1> QED
  BY <1>1 DEF Alone, Engaged

\* What is left to show of a step that leaves one goroutine at work.
LEMMA FollowingWhileBusy ==
  ASSUME TmTypeOK, OneTimer', NEW t \in Threads, NEW to, TmGoto(t, to), to # "rest",
         ~disturbed' => Alone' /\ AtWork(t)' /\ (sinceKey' < Timeout => kbActive')
  PROVE  Following'
<1> SUFFICES ASSUME ~disturbed'
             PROVE  (\A u \in Threads : AtWork(u)') /\ ToldCurrent'
  BY DEF Following
<1>1. \A u \in Threads : u # t => pc'[u] = "rest"
  BY TheOneAtWork
<1>2. \A u \in Threads : AtWork(u)'
  BY <1>1 DEF AtWork
<1>3. ToldCurrent'
  BY DEF ToldCurrent, Quiet, Engaged, TmTypeOK, TmGoto
<1> QED
  BY <1>2, <1>3

\* Two goroutines at work at once disturb.
LEMMA AloneUnlessDisturbed ==
  ASSUME WatchedNext
  PROVE  ~disturbed' => ~disturbed /\ Alone' /\ ~LogindFails
  BY Zenon DEF WatchedNext, Overlap, Alone

LEMMA PublishFollows ==
  ASSUME TmTypeOK, Following, WatchedNext, NEW t \in Threads, Publish(t)
  PROVE  Following'
<1> USE DEF readings, clocks
<1>1. OneTimer'
  BY DEF Publish, ReadSources, Swap, CallBack, Following, OneTimer
<1>2. /\ ~disturbed' => ~disturbed /\ Alone'
      /\ (sinceKey < Timeout => kbActive) => (sinceKey' < Timeout => kbActive')
      /\ IsTablet' = IsTablet
  <2>1. UNCHANGED <<readings, clocks>>
    BY DEF Publish, ReadSources, Swap, CallBack
  <2> QED
    BY <2>1, AloneUnlessDisturbed DEF IsTablet
<1>3. ~disturbed => AtWork(t) /\ (sinceKey < Timeout => kbActive)
  BY DEF Following
<1>4. CASE ReadSources(t)
  <2>1. /\ pc[t] = "publish" /\ pc'[t] = "swap" /\ want'[t] = IsTablet
        /\ TmGoto(t, "swap") /\ reported' = reported /\ tablet' = tablet
    BY <1>4 DEF ReadSources, TmGoto, TmTypeOK
  <2>2. ~disturbed' => AtWork(t)'
    BY <1>2, <1>3, <2>1 DEF AtWork
  <2> QED
    BY <1>1, <1>2, <1>3, <2>1, <2>2, FollowingWhileBusy
<1>5. ASSUME Swap(t), tablet # want[t]
      PROVE  Following'
  <2>1. /\ pc[t] = "swap" /\ pc'[t] = "call" /\ tablet' = want[t]
        /\ TmGoto(t, "call") /\ want' = want
    BY <1>5 DEF Swap, TmGoto, TmTypeOK
  <2>2. ~disturbed' => AtWork(t)'
    BY <1>2, <1>3, <2>1 DEF AtWork
  <2> QED
    BY <1>1, <1>2, <1>3, <2>1, <2>2, FollowingWhileBusy
<1>6. ASSUME TmGoto(t, "rest"), Engaged(t),
             ~disturbed' => tablet' = IsTablet' /\ reported' = tablet'
      PROVE  Following'
  <2> SUFFICES ASSUME ~disturbed'
               PROVE  (\A u \in Threads : AtWork(u)') /\ ToldCurrent'
    BY <1>1, <1>2, <1>3 DEF Following
  <2>1. \A u \in Threads : pc'[u] = "rest"
    BY <1>2, <1>6 DEF Following, Alone, Engaged, TmGoto, TmTypeOK
  <2> QED
    BY <1>6, <2>1 DEF AtWork, ToldCurrent
<1>7. ASSUME Swap(t), tablet = want[t]
      PROVE  Following'
  <2>1. /\ pc[t] = "swap" /\ tablet' = tablet /\ reported' = reported /\ TmGoto(t, "rest")
    BY <1>7 DEF Swap
  <2>2. ~disturbed => tablet' = IsTablet /\ reported' = tablet'
    BY <1>3, <1>7, <2>1 DEF AtWork
  <2> QED
    BY <1>2, <1>6, <2>1, <2>2 DEF Engaged
<1>8. CASE CallBack(t)
  <2>1. /\ pc[t] = "call" /\ tablet' = tablet /\ reported' = want[t] /\ TmGoto(t, "rest")
    BY <1>8 DEF CallBack
  <2>2. ~disturbed => tablet' = IsTablet /\ reported' = tablet'
    BY <1>3, <2>1 DEF AtWork
  <2> QED
    BY <1>2, <1>6, <2>1, <2>2 DEF Engaged
<1> QED
  BY <1>4, <1>5, <1>7, <1>8 DEF Publish

\* A source that has changed is published by the goroutine that saw it, which finds the
\* others at rest: the state loop was told the flag.
LEMMA SourceFollows ==
  ASSUME TmTypeOK, Following, WatchedNext, NEW t \in Threads, ~Engaged(t),
         NEW to \in {"publish", "expire"}, TmGoto(t, to),
         UNCHANGED <<tablet, reported, want>>, OneTimer',
         to = "expire" => sinceKey' = Timeout,
         (sinceKey < Timeout => kbActive) => (sinceKey' < Timeout => kbActive')
  PROVE  Following'
<1>1. ~disturbed' => ~disturbed /\ Alone'
  BY AloneUnlessDisturbed
<1>2. ~disturbed' => Quiet
  <2> SUFFICES ASSUME ~disturbed', NEW u \in Threads, Engaged(u)
               PROVE  FALSE
    BY DEF Quiet
  <2>1. u # t /\ pc'[u] = pc[u] /\ pc'[t] = to
    BY DEF TmGoto, TmTypeOK
  <2> QED
    BY <1>1, <2>1 DEF Alone, Engaged
<1>3. pc'[t] = to
  BY DEF TmGoto, TmTypeOK
<1>4. ~disturbed' => AtWork(t)'
  BY <1>1, <1>2, <1>3 DEF AtWork, Following, ToldCurrent
<1> QED
  BY <1>1, <1>4, FollowingWhileBusy DEF Following

LEMMA NextFollows ==
  ASSUME TmTypeOK, Following, [WatchedNext]_<<tmVars, disturbed>>
  PROVE  Following'
<1> USE DEF readings, clocks
<1>0. /\ {"switch", "logind"} \cup Keyboards \cup Timers \subseteq Threads
      /\ Timeout \in Nat \ {0}
  BY TabletAssumption DEF Threads
<1>1. OneTimer
  BY DEF Following
<1>2. ASSUME WatchedNext, NEW t \in Threads, Publish(t)
      PROVE  Following'
  BY <1>2, PublishFollows
<1>3. CASE WatchedNext /\ SwitchEvent
  <2>1. OneTimer'
    BY <1>1, <1>3 DEF SwitchEvent, OneTimer
  <2> QED
    BY <1>0, <1>3, <2>1, SourceFollows DEF SwitchEvent
<1>4. CASE WatchedNext /\ LogindAnswers
  <2>1. OneTimer'
    BY <1>1, <1>4 DEF LogindAnswers, OneTimer
  <2> QED
    BY <1>0, <1>4, <2>1, SourceFollows DEF LogindAnswers
<1>5. CASE WatchedNext /\ LogindFails
  <2>1. OneTimer'
    BY <1>1, <1>5 DEF LogindFails, OneTimer
  <2> QED
    BY <1>5, <2>1, AloneUnlessDisturbed DEF Following
<1>6. CASE WatchedNext /\ LogindSignal
  <2>1. ~disturbed' => ~disturbed
    BY <1>6, AloneUnlessDisturbed
  <2>2. UNCHANGED <<readings, clocks, tablet, reported, pc, want>>
    BY <1>6 DEF LogindSignal
  <2> QED
    BY <2>1, <2>2 DEF Following, OneTimer, Alone, AtWork, ToldCurrent, Quiet, Engaged, IsTablet
<1>7. CASE UNCHANGED <<tmVars, disturbed>>
  BY <1>7 DEF tmVars, Following, OneTimer, Alone, AtWork, ToldCurrent, Quiet, Engaged, IsTablet
<1>8. ASSUME WatchedNext, NEW k \in Keyboards, KeyPressed(k)
      PROVE  Following'
  <2>1. PICK i \in Timers :
          /\ timer' = [Stopped EXCEPT ![i] = [armed |-> TRUE, left |-> Timeout]]
          /\ kbTimer' = i
    BY <1>8 DEF KeyPressed
  <2>2. sinceKey' = 0 /\ kbActive' = TRUE
    BY <1>8 DEF KeyPressed
  <2>3. \A j \in Timers : ~Stopped[j].armed
    BY <1>1 DEF Stopped, NoTimer, OneTimer
  <2>4. \A j \in Timers : timer'[j] = IF j = i THEN [armed |-> TRUE, left |-> Timeout]
                                               ELSE Stopped[j]
    BY <2>1 DEF Stopped
  <2>5. OneTimer'
    BY <1>0, <2>1, <2>2, <2>3, <2>4 DEF OneTimer
  <2> QED
    BY <1>0, <1>8, <2>2, <2>5, SourceFollows DEF KeyPressed
<1>9. ASSUME WatchedNext, NEW i \in Timers, InactivityFires(i)
      PROVE  Following'
  <2>1. timer[i].armed /\ timer[i].left = 0 /\ timer' = [timer EXCEPT ![i] = NoTimer]
        /\ sinceKey' = sinceKey /\ kbTimer' = kbTimer /\ kbActive' = kbActive
    BY <1>9 DEF InactivityFires
  <2>2. sinceKey = Timeout
    BY <1>0, <1>1, <2>1 DEF OneTimer, TmTypeOK
  <2>3. OneTimer'
    BY <1>1, <2>1 DEF OneTimer, NoTimer, TmTypeOK
  <2> QED
    BY <1>0, <1>9, <2>1, <2>2, <2>3, SourceFollows DEF InactivityFires
<1>10. ASSUME WatchedNext, NEW i \in Timers, KeyboardIdle(i)
       PROVE  Following'
  <2>1. /\ pc[i] = "expire" /\ pc'[i] = "publish" /\ TmGoto(i, "publish")
        /\ UNCHANGED <<clocks, tablet, reported, want>>
    BY <1>0, <1>10 DEF KeyboardIdle, TmGoto, TmTypeOK
  <2>2. OneTimer'
    BY <1>1, <2>1 DEF OneTimer
  <2>3. ~disturbed' => ~disturbed /\ Alone'
    BY <1>10, AloneUnlessDisturbed
  <2>4. ~disturbed' => AtWork(i)' /\ sinceKey' = Timeout
    BY <1>0, <2>1, <2>3 DEF Following, AtWork
  <2> QED
    BY <1>0, <2>1, <2>2, <2>3, <2>4, FollowingWhileBusy
<1>11. CASE WatchedNext /\ TmTick
  <2>1. /\ UNCHANGED <<readings, kbTimer, tablet, reported, pc, want>>
        /\ \A i \in Timers : pc[i] # "expire"
        /\ \A i \in Timers : timer[i].armed => timer[i].left > 0
        /\ sinceKey' = IF sinceKey < Timeout THEN sinceKey + 1 ELSE sinceKey
    BY <1>11 DEF TmTick
  <2>2. \A i \in Timers :
          /\ timer'[i].armed = timer[i].armed
          /\ timer[i].armed => timer'[i].left = timer[i].left - 1
    BY <1>11 DEF TmTick, TmTypeOK
  <2>3. OneTimer'
    <3> SUFFICES ASSUME NEW i \in Timers, timer'[i].armed
                 PROVE  i = kbTimer' /\ timer'[i].left + sinceKey' = Timeout
      BY DEF OneTimer
    <3>1. timer[i].armed /\ timer[i].left > 0 /\ timer'[i].left = timer[i].left - 1
      BY <2>1, <2>2
    <3>2. i = kbTimer /\ timer[i].left + sinceKey = Timeout
      BY <1>1, <3>1 DEF OneTimer
    <3>3. timer[i].left \in Int /\ sinceKey \in Int
      BY <1>0 DEF TmTypeOK
    <3> QED
      BY <1>0, <2>1, <3>1, <3>2, <3>3
  <2>4. ~disturbed' => ~disturbed
    BY <1>11, AloneUnlessDisturbed
  <2>5. \A t \in Threads : AtWork(t) => AtWork(t)'
    <3>1. sinceKey = Timeout => sinceKey' = Timeout
      BY <1>0, <2>1
    <3>2. IsTablet' = IsTablet
      BY <2>1 DEF IsTablet
    <3> QED
      BY <2>1, <3>1, <3>2 DEF AtWork
  <2>6. Alone => Alone'
    BY <2>1 DEF Alone, Engaged
  <2>7. ToldCurrent => ToldCurrent'
    BY <2>1 DEF ToldCurrent, Quiet, Engaged, IsTablet
  <2>8. (sinceKey < Timeout => kbActive) => (sinceKey' < Timeout => kbActive')
    BY <1>0, <2>1 DEF TmTypeOK
  <2> QED
    BY <2>3, <2>4, <2>5, <2>6, <2>7, <2>8 DEF Following
<1> QED
  BY <1>2, <1>3, <1>4, <1>5, <1>6, <1>7, <1>8, <1>9, <1>10, <1>11 DEF WatchedNext, TmNext

\* As long as publications come one after the other and every query of logind is answered
\* (publish, which reads, swaps and calls back with the mutex free in between), the state
\* loop was told what the switch, logind and the keyboards say by their priorities, and a
\* key that was pressed within the timeout keeps the machine from being a tablet.  However
\* many goroutines there are: the bound of the instance is not assumed.
THEOREM FlagFollowsSources == WatchedSpec => []FollowsUnlessDisturbed
<1>1. WatchedInit => TmTypeOK /\ Following
  BY InitTypes, InitFollowing DEF WatchedInit
<1>2. TmTypeOK /\ Following /\ [WatchedNext]_<<tmVars, disturbed>> => TmTypeOK' /\ Following'
  <2>1. [WatchedNext]_<<tmVars, disturbed>> => [TmNext]_tmVars
    BY DEF WatchedNext
  <2> QED
    BY <2>1, NextTypes, NextFollows
<1>3. TmTypeOK /\ Following => FollowsUnlessDisturbed
  BY DEF Following, FollowsUnlessDisturbed, TypingKeepsActive
<1> QED
  BY <1>1, <1>2, <1>3, PTL DEF WatchedSpec
=============================================================================
