--------------------------- MODULE LockScreenProofs ---------------------------
(***************************************************************************)
(* Proofs about LockScreen, for every number of goroutines, every limit,   *)
(* every set of commands and whether or not operations overlap.  Then come *)
(* instances in which nothing but a password unlocks: there the gate is    *)
(* exact, and the service implements AttemptThrottle.  The last part is    *)
(* about steps without overlap: there the lock screen follows the service. *)
(***************************************************************************)
EXTENDS LockScreenMC, TLAPS, SequenceTheorems

----------------------------------------------------------------------------
(* The shape of programs.                                                  *)

Guards == {"enter", "leave"}

\* No step of s enters or leaves the guarded part of Authenticate.
Unguarded(s) == \A i \in 1..Len(s) : s[i] \notin Guards

\* What is left of an Authenticate past its entry: the deferred store comes last.
Guarded(s) ==
  /\ Len(s) > 0
  /\ s[Len(s)] = "leave"
  /\ \A i \in 1..(Len(s) - 1) : s[i] \notin Guards

\* The lockout flag is set by startLockout only, which starts a ticker next.
Paired(s) ==
  \A i \in 1..Len(s) :
    s[i] = "setLockedOut" => i < Len(s) /\ s[i + 1] = "startTicker"

\* Only tickers tell how many seconds are left.
Tickless(s) == \A i \in 1..Len(s) : s[i] # "emitTick"

CallerProgram(s) == s = <<>> \/ s = <<"enter">> \/ Guarded(s)

ProgramsOK ==
  /\ \A t \in Threads : Paired(todo[t])
  /\ \A c \in Callers : CallerProgram(todo[c])
  /\ \A t \in Commanders \cup Tickers : Unguarded(todo[t])
  /\ \A t \in Callers \cup Commanders : Tickless(todo[t])

IInv == TypeOK /\ ProgramsOK /\ OneAuthAtATime /\ LockoutHasTicker

----------------------------------------------------------------------------
(* Lemmas about sequences of operations.                                   *)

\* What a returning thread has left is a program of the same shape.
LEMMA TailShape ==
  ASSUME NEW s \in Seq(Ops), s # <<>>
  PROVE  /\ Tail(s) \in Seq(Ops)
         /\ Paired(s) => Paired(Tail(s))
         /\ Unguarded(s) => Unguarded(Tail(s))
         /\ Tickless(s) => Tickless(Tail(s))
         /\ Guarded(s) /\ Head(s) # "leave" => Guarded(Tail(s))
         /\ Guarded(s) /\ Head(s) = "leave" => Tail(s) = <<>>
<1>1. /\ Len(s) \in Nat /\ Len(s) > 0
      /\ Head(s) = s[1]
      /\ Tail(s) \in Seq(Ops)
      /\ Len(Tail(s)) = Len(s) - 1
      /\ \A i \in 1..Len(Tail(s)) : Tail(s)[i] = s[i + 1]
  BY HeadTailProperties, EmptySeq, LenProperties
<1>2. Paired(s) => Paired(Tail(s))
  BY <1>1 DEF Paired
<1>3. (Unguarded(s) => Unguarded(Tail(s))) /\ (Tickless(s) => Tickless(Tail(s)))
  BY <1>1 DEF Unguarded, Tickless
<1>4. ASSUME Guarded(s), Head(s) # "leave"
      PROVE  Guarded(Tail(s))
  <2>1. Len(s) > 1
    BY <1>1, <1>4 DEF Guarded
  <2> QED
    BY <1>1, <1>4, <2>1 DEF Guarded
<1>5. ASSUME Guarded(s), Head(s) = "leave"
      PROVE  Tail(s) = <<>>
  <2>1. Len(s) = 1
    BY <1>1, <1>5 DEF Guarded, Guards
  <2>2. Tail(s) \in Seq(Ops) /\ Len(Tail(s)) = 0
    BY <1>1, <2>1
  <2> QED
    BY <2>2, EmptySeq, Zenon
<1> QED
  BY <1>1, <1>2, <1>3, <1>4, <1>5

\* So is what a thread has left that calls a program without guards.
LEMMA CallShape ==
  ASSUME NEW s \in Seq(Ops), s # <<>>,
         NEW p \in Seq(Ops), Paired(p), Unguarded(p)
  PROVE  /\ p \o Tail(s) \in Seq(Ops)
         /\ Paired(s) => Paired(p \o Tail(s))
         /\ Unguarded(s) => Unguarded(p \o Tail(s))
         /\ Tickless(s) /\ Tickless(p) => Tickless(p \o Tail(s))
         /\ Guarded(s) /\ Head(s) # "leave" => Guarded(p \o Tail(s))
<1> DEFINE r == Tail(s)
<1>1. /\ r \in Seq(Ops)
      /\ Paired(s) => Paired(r)
      /\ Unguarded(s) => Unguarded(r)
      /\ Tickless(s) => Tickless(r)
      /\ Guarded(s) /\ Head(s) # "leave" => Guarded(r)
  BY TailShape
<1> HIDE DEF r
<1>2. /\ p \o r \in Seq(Ops)
      /\ Len(p) \in Nat /\ Len(r) \in Nat
      /\ Len(p \o r) = Len(p) + Len(r)
      /\ \A i \in 1..(Len(p) + Len(r)) :
           (p \o r)[i] = IF i <= Len(p) THEN p[i] ELSE r[i - Len(p)]
  BY <1>1, ConcatProperties, LenProperties
<1>3. Paired(r) => Paired(p \o r)
  <2> SUFFICES ASSUME Paired(r), NEW i \in 1..(Len(p) + Len(r)), (p \o r)[i] = "setLockedOut"
               PROVE  i < Len(p) + Len(r) /\ (p \o r)[i + 1] = "startTicker"
    BY <1>2 DEF Paired
  <2>1. CASE i <= Len(p)
    BY <1>2, <2>1 DEF Paired
  <2>2. CASE i > Len(p)
    <3>1. i - Len(p) \in 1..Len(r) /\ r[i - Len(p)] = "setLockedOut"
      BY <1>2, <2>2
    <3>2. i - Len(p) < Len(r) /\ r[(i - Len(p)) + 1] = "startTicker"
      BY <3>1 DEF Paired
    <3>3. i + 1 \in 1..(Len(p) + Len(r)) /\ (i + 1) - Len(p) = (i - Len(p)) + 1
      BY <1>2, <2>2, <3>2
    <3> QED
      BY <1>2, <2>2, <3>2, <3>3
  <2> QED
    BY <1>2, <2>1, <2>2
<1>4. Unguarded(r) => Unguarded(p \o r)
  BY <1>2 DEF Unguarded
<1>5. Tickless(r) /\ Tickless(p) => Tickless(p \o r)
  BY <1>2 DEF Tickless
<1>6. Guarded(r) => Guarded(p \o r)
  BY <1>2 DEF Guarded, Unguarded
<1> QED
  BY <1>1, <1>2, <1>3, <1>4, <1>5, <1>6 DEF r

\* A caller past the entry is one whose program ends with the deferred store.
LEMMA RunningIsGuarded ==
  ASSUME NEW s \in Seq(Ops), CallerProgram(s)
  PROVE  (s # <<>> /\ Head(s) # "enter") <=> Guarded(s)
<1>1. CASE s = <<>>
  <2>1. Len(s) = 0
    BY <1>1, EmptySeq
  <2> QED
    BY <1>1, <2>1 DEF Guarded
<1>2. CASE s = <<"enter">>
  <2>1. Len(s) = 1 /\ s[1] = "enter" /\ Head(s) = "enter"
    BY <1>2
  <2> QED
    BY <2>1 DEF Guarded
<1>3. CASE Guarded(s)
  <2>1. s # <<>> /\ Len(s) \in Nat /\ Head(s) = s[1]
    BY <1>3, EmptySeq, LenProperties, HeadTailProperties DEF Guarded
  <2>2. s[1] # "enter"
    <3>1. CASE Len(s) = 1
      BY <1>3, <3>1 DEF Guarded
    <3>2. CASE Len(s) > 1
      BY <1>3, <2>1, <3>2 DEF Guarded, Guards
    <3> QED
      BY <1>3, <2>1, <3>1, <3>2 DEF Guarded
  <2> QED
    BY <1>3, <2>1, <2>2
<1> QED
  BY <1>1, <1>2, <1>3 DEF CallerProgram

\* Every program but the entry of Authenticate is free of guards.
Harmless(p) == p \in Seq(Ops) /\ Paired(p) /\ Unguarded(p)

CommandPrograms ==
  {LockProgram, UnlockProgram, LockWithAutoUnlockProgram, TryAutoUnlockProgram,
   LockoutProgram, LockCommandProgram, <<"lockIfUnlocked">>, <<"readState">>,
   <<"addAttempt">>, <<"emitRefused">>, <<"emitLocked">>, <<"emitUnlocked">>, <<>>}

LEMMA ProgramShapes == \A p \in CommandPrograms : Harmless(p) /\ Tickless(p)
<1> USE DEF Harmless, Paired, Unguarded, Guards, Tickless, Ops
<1>1. Harmless(LockProgram) /\ Tickless(LockProgram)
  BY DEF LockProgram
<1>2. Harmless(UnlockProgram) /\ Tickless(UnlockProgram)
  BY DEF UnlockProgram
<1>3. Harmless(LockWithAutoUnlockProgram) /\ Tickless(LockWithAutoUnlockProgram)
  BY DEF LockWithAutoUnlockProgram
<1>4. Harmless(LockoutProgram) /\ Tickless(LockoutProgram)
  BY DEF LockoutProgram
<1>5. Harmless(TryAutoUnlockProgram) /\ Tickless(TryAutoUnlockProgram)
  BY DEF TryAutoUnlockProgram
<1>6. ASSUME NEW o \in Ops, o # "setLockedOut", o \notin Guards, o # "emitTick"
      PROVE  Harmless(<<o>>) /\ Tickless(<<o>>)
  BY <1>6
<1>7. Harmless(LockCommandProgram) /\ Tickless(LockCommandProgram)
  BY DEF LockCommandProgram
<1>8. Harmless(<<>>) /\ Tickless(<<>>)
  OBVIOUS
<1>9. \A o \in {"lockIfUnlocked", "readState", "addAttempt", "emitRefused",
                "emitLocked", "emitUnlocked"} : Harmless(<<o>>) /\ Tickless(<<o>>)
  <2> HIDE DEF Harmless, Tickless
  <2> QED
    BY <1>6
<1> HIDE DEF Harmless, Tickless
<1> QED
  BY <1>1, <1>2, <1>3, <1>4, <1>5, <1>7, <1>8, <1>9 DEF CommandPrograms

\* Nor do the programs of a ticker enter or leave anything.
LEMMA TickerShapes == Harmless(ExpireProgram) /\ Harmless(<<"emitTick">>)
<1>1. Harmless(ExpireProgram)
  BY DEF Harmless, ExpireProgram, Paired, Unguarded, Guards, Ops
<1>2. Harmless(<<"emitTick">>)
  BY DEF Harmless, Paired, Unguarded, Guards, Ops
<1> QED
  BY <1>1, <1>2

----------------------------------------------------------------------------
(* Lemmas about steps.                                                     *)

\* A thread that runs an ordinary operation: it returns or calls a harmless program.
Ordinary(t) ==
  /\ todo[t] # <<>>
  /\ Head(todo[t]) \notin Guards
  /\ \/ Return(t)
     \/ \E p \in Seq(Ops) : /\ Harmless(p)
                            /\ t \notin Tickers => Tickless(p)
                            /\ Call(t, p)

\* An ordinary operation keeps all programs in shape and ends no Authenticate.
LEMMA OrdinaryShape ==
  ASSUME TypeOK, ProgramsOK, NEW t \in Threads, Ordinary(t)
  PROVE  /\ todo' \in [Threads -> Seq(Ops)]
         /\ ProgramsOK'
         /\ \A c \in Callers : Running(c)' <=> Running(c)
         /\ \A u \in Threads \ {t} : todo'[u] = todo[u]
<1>1. todo \in [Threads -> Seq(Ops)] /\ todo[t] \in Seq(Ops)
  BY DEF TypeOK
<1>2. PICK s \in Seq(Ops) :
        /\ todo' = [todo EXCEPT ![t] = s]
        /\ Paired(todo[t]) => Paired(s)
        /\ Unguarded(todo[t]) => Unguarded(s)
        /\ t \notin Tickers /\ Tickless(todo[t]) => Tickless(s)
        /\ Guarded(todo[t]) => Guarded(s)
  <2>1. CASE Return(t)
    BY <1>1, <2>1, TailShape DEF Ordinary, Return, Guards
  <2>2. CASE \E p \in Seq(Ops) : /\ Harmless(p)
                                 /\ t \notin Tickers => Tickless(p)
                                 /\ Call(t, p)
    <3>1. PICK p \in Seq(Ops) : /\ Harmless(p)
                                /\ t \notin Tickers => Tickless(p)
                                /\ Call(t, p)
      BY <2>2
    <3> QED
      BY <1>1, <3>1, CallShape DEF Ordinary, Call, Guards, Harmless
  <2> QED
    BY <2>1, <2>2 DEF Ordinary
<1>3. todo' \in [Threads -> Seq(Ops)] /\ todo'[t] = s
      /\ \A u \in Threads \ {t} : todo'[u] = todo[u]
  BY <1>1, <1>2
<1>4. \A c \in Callers : c = t => Guarded(todo[t]) /\ Guarded(s)
  <2> SUFFICES ASSUME t \in Callers PROVE Guarded(todo[t])
    BY <1>2
  <2>1. Head(todo[t]) # "enter" /\ todo[t] # <<>> /\ CallerProgram(todo[t])
    BY DEF Ordinary, Guards, ProgramsOK
  <2> QED
    BY <1>1, <2>1, RunningIsGuarded
<1>5. ProgramsOK'
  <2>1. \A u \in Threads : Paired(todo'[u])
    BY <1>2, <1>3 DEF ProgramsOK
  <2>2. \A c \in Callers : CallerProgram(todo'[c])
    BY <1>3, <1>4 DEF ProgramsOK, CallerProgram, Threads
  <2>3. \A u \in Commanders \cup Tickers : Unguarded(todo'[u])
    BY <1>2, <1>3 DEF ProgramsOK, Threads
  <2>4. \A u \in Callers \cup Commanders : Tickless(todo'[u])
    BY <1>2, <1>3, ThreadsAssumption DEF ProgramsOK, Threads
  <2> QED
    BY <2>1, <2>2, <2>3, <2>4 DEF ProgramsOK
<1>6. ASSUME NEW c \in Callers PROVE Running(c)' <=> Running(c)
  <2>1. CASE c # t
    BY <1>3, <2>1 DEF Running, AtRest, At, Threads
  <2>2. CASE c = t
    <3>1. Running(c)
      BY <2>2 DEF Ordinary, Running, AtRest, At, Guards
    <3>2. s # <<>> /\ Head(s) # "enter"
      BY <1>4, <2>2, RunningIsGuarded DEF CallerProgram
    <3> QED
      BY <1>3, <2>2, <3>1, <3>2 DEF Running, AtRest, At
  <2> QED
    BY <2>1, <2>2
<1> QED
  BY <1>3, <1>5, <1>6

\* An ordinary operation that lifts no lockout keeps the inductive invariant.
LEMMA OrdinaryStep ==
  ASSUME IInv, NEW t \in Threads, Ordinary(t), TypeOK',
         inAuth' = inAuth,
         lockedOut' => lockedOut /\ ~WillLift(t) /\ left' = left
  PROVE  IInv'
<1>1. /\ ProgramsOK'
      /\ \A c \in Callers : Running(c)' <=> Running(c)
      /\ \A u \in Threads \ {t} : todo'[u] = todo[u]
  BY OrdinaryShape DEF IInv
<1>2. OneAuthAtATime'
  BY <1>1 DEF IInv, OneAuthAtATime
<1>3. LockoutHasTicker'
  <2> SUFFICES ASSUME lockedOut'
               PROVE  \/ \E g \in Tickers : left'[g] > 0
                      \/ \E u \in Threads : WillLift(u)'
    BY DEF LockoutHasTicker
  <2>1. \A u \in Threads : WillLift(u) => u # t
    OBVIOUS
  <2>2. \A u \in Threads \ {t} : WillLift(u)' <=> WillLift(u)
    BY <1>1 DEF WillLift, At
  <2> QED
    BY <2>1, <2>2 DEF IInv, LockoutHasTicker
<1> QED
  BY <1>1, <1>2, <1>3 DEF IInv

----------------------------------------------------------------------------
(* The inductive invariant.                                                *)

THEOREM InitIInv == Init => IInv
<1> SUFFICES ASSUME Init PROVE IInv
  OBVIOUS
<1> USE DEF Init
<1>1. TypeOK
  <2>1. todo \in [Threads -> Seq(Ops)]
    BY EmptySeq
  <2>2. ui \in UiState
    BY LimitsAssumption DEF UiFresh, UiState
  <2>3. left \in [Tickers -> 0..LockoutTicks] /\ activations \in 0..MaxActivations
    BY LimitsAssumption
  <2> QED
    BY <2>1, <2>2, <2>3 DEF TypeOK
<1>2. \A t \in Threads : todo[t] = <<>>
  OBVIOUS
<1>3. ProgramsOK
  BY <1>2, ProgramShapes
     DEF ProgramsOK, CallerProgram, Threads, Harmless, CommandPrograms
<1>4. OneAuthAtATime /\ LockoutHasTicker
  BY <1>2 DEF OneAuthAtATime, Running, AtRest, Threads, LockoutHasTicker
<1> QED
  BY <1>1, <1>3, <1>4 DEF IInv

\* The QML lock screen's fields keep their types.
LEMMA UiTypes ==
  ASSUME NEW u \in UiState
  PROVE  /\ UiReset(u) \in UiState
         /\ UiFresh \in UiState
         /\ UiUnlocked(u) \in UiState
         /\ \A v \in BOOLEAN : UiSetLocked(u, v) \in UiState
         /\ \A v \in BOOLEAN : UiRefused(u, v) \in UiState
         /\ \A n \in 0..LockoutTicks : UiTick(u, n) \in UiState
<1>0. 0 \in 0..LockoutTicks
  BY LimitsAssumption
<1>1. \A w \in UiState : UiReset(w) \in UiState
  BY <1>0 DEF UiState, UiReset
<1>2. \A v \in BOOLEAN : [u EXCEPT !.locked = v] \in UiState
  BY DEF UiState
<1>3. UiUnlocked(u) \in UiState
  BY <1>1, <1>2 DEF UiUnlocked
<1>7. UiFresh \in UiState
  BY <1>0 DEF UiState, UiFresh
<1>4. ASSUME NEW v \in BOOLEAN
      PROVE  UiSetLocked(u, v) \in UiState
  <2>1. \A w \in UiState : [w EXCEPT !.locked = TRUE] \in UiState
    BY DEF UiState
  <2> QED
    BY <1>1, <1>2, <2>1 DEF UiSetLocked
<1>5. \A v \in BOOLEAN : UiRefused(u, v) \in UiState
  BY DEF UiState, UiRefused
<1>6. \A n \in 0..LockoutTicks : UiTick(u, n) \in UiState
  BY LimitsAssumption DEF UiState, UiTick
<1> QED
  BY <1>1, <1>3, <1>4, <1>5, <1>6, <1>7

\* Steps of the QML side alone.
LEMMA SameRest ==
  ASSUME IInv, UNCHANGED <<service, todo, left>>,
         activations' \in 0..MaxActivations, ui' \in UiState
  PROVE  IInv'
<1>1. TypeOK'
  BY DEF IInv, TypeOK, service
<1>2. ProgramsOK'
  BY DEF IInv, ProgramsOK
<1>3. OneAuthAtATime' /\ LockoutHasTicker'
  BY DEF IInv, OneAuthAtATime, LockoutHasTicker, Running, AtRest, At, WillLift, service
<1> QED
  BY <1>1, <1>2, <1>3 DEF IInv

\* Only callers enter or leave the guarded part, as the head of their program.
LEMMA GuardHeads ==
  ASSUME TypeOK, ProgramsOK, NEW t \in Threads, todo[t] # <<>>, Head(todo[t]) \in Guards
  PROVE  t \in Callers
<1> SUFFICES ASSUME t \in Commanders \cup Tickers PROVE FALSE
  BY DEF Threads
<1>1. todo[t] \in Seq(Ops) /\ Unguarded(todo[t])
  BY DEF TypeOK, ProgramsOK
<1>2. Len(todo[t]) > 0 /\ Len(todo[t]) \in Nat /\ todo[t][1] = Head(todo[t])
  BY <1>1, HeadTailProperties, EmptySeq, LenProperties
<1> QED
  BY <1>1, <1>2 DEF Unguarded

\* Entering: nobody else is past the entry, because inAuth was clear.
LEMMA EnterInv ==
  ASSUME IInv, NEW t \in Threads, Enter(t)
  PROVE  IInv'
<1> USE DEF IInv
<1>1. t \in Callers /\ ~Running(t)
  BY GuardHeads DEF Enter, At, Guards, Running
<1>2. todo \in [Threads -> Seq(Ops)] /\ todo[t] = <<"enter">>
  <2>1. ~Guarded(todo[t]) /\ todo[t] # <<>>
    BY <1>1, RunningIsGuarded DEF Enter, At, TypeOK, ProgramsOK, Running, AtRest
  <2> QED
    BY <1>1, <2>1 DEF TypeOK, ProgramsOK, CallerProgram
<1>3. Tail(todo[t]) = <<>>
  BY <1>2
<1>4. CASE inAuth \/ lockedOut
  <2>1. todo' = [todo EXCEPT ![t] = <<>>] /\ inAuth' = inAuth
    BY <1>3, <1>4 DEF Enter, Return
  <2>2. TypeOK' /\ ProgramsOK'
    BY <1>1, <1>2, <2>1, ProgramShapes, EmptySeq
       DEF Enter, TypeOK, ProgramsOK, CallerProgram, Harmless, CommandPrograms
  <2>3. \A c \in Callers : Running(c)' <=> Running(c)
    BY <1>1, <1>2, <2>1 DEF Running, AtRest, At, Threads
  <2>4. OneAuthAtATime'
    BY <2>1, <2>3 DEF OneAuthAtATime
  <2>5. LockoutHasTicker'
    BY <1>2, <2>1 DEF Enter, LockoutHasTicker, WillLift, At
  <2> QED
    BY <2>2, <2>4, <2>5
<1>5. CASE ~inAuth /\ ~lockedOut
  <2> DEFINE s == <<"check", "leave">>
  <2>1. todo' = [todo EXCEPT ![t] = s] /\ inAuth' = TRUE
    <3>1. <<"check", "leave">> \o <<>> = s
      BY ConcatEmptySeq, EmptySeq
    <3> QED
      BY <1>3, <1>5, <3>1 DEF Enter, Call
  <2>2. /\ s \in Seq(Ops) /\ Paired(s) /\ Tickless(s) /\ Guarded(s)
        /\ s # <<>> /\ Head(s) # "enter"
    BY DEF Ops, Paired, Tickless, Guarded, Guards
  <2> HIDE DEF s
  <2>3. TypeOK'
    BY <1>2, <1>5, <2>1, <2>2 DEF Enter, TypeOK
  <2>4. ProgramsOK'
    BY <1>1, <1>2, <2>1, <2>2, ThreadsAssumption DEF ProgramsOK, CallerProgram
  <2>5. \A c \in Callers : ~Running(c)
    BY <1>5 DEF OneAuthAtATime
  <2>6. \A c \in Callers : Running(c)' <=> c = t
    BY <1>1, <1>2, <2>1, <2>2, <2>5 DEF Running, AtRest, At, Threads
  <2>7. OneAuthAtATime'
    BY <1>1, <2>1, <2>6 DEF OneAuthAtATime
  <2>8. LockoutHasTicker'
    BY <1>5 DEF Enter, LockoutHasTicker
  <2> QED
    BY <2>3, <2>4, <2>7, <2>8
<1> QED
  BY <1>4, <1>5

\* Leaving: the only Authenticate past the entry ends with the store of inAuth.
LEMMA LeaveInv ==
  ASSUME IInv, NEW t \in Threads, Leave(t)
  PROVE  IInv'
<1> USE DEF IInv
<1>1. t \in Callers /\ Running(t)
  BY GuardHeads DEF Leave, At, Guards, Running, AtRest
<1>2. todo \in [Threads -> Seq(Ops)] /\ Guarded(todo[t])
  BY <1>1, RunningIsGuarded DEF TypeOK, ProgramsOK, Running, AtRest, At, Threads
<1>3. todo' = [todo EXCEPT ![t] = <<>>] /\ inAuth' = FALSE
  BY <1>2, TailShape DEF Leave, Return, At
<1>4. TypeOK' /\ ProgramsOK'
  <2>1. <<>> \in Seq(Ops) /\ Paired(<<>>) /\ Tickless(<<>>)
    BY ProgramShapes DEF Harmless, CommandPrograms
  <2>2. todo' \in [Threads -> Seq(Ops)]
    BY <1>2, <1>3, <2>1
  <2>3. ProgramsOK'
    BY <1>1, <1>2, <1>3, <2>1, ThreadsAssumption DEF ProgramsOK, CallerProgram
  <2> QED
    BY <1>3, <2>2, <2>3 DEF Leave, TypeOK
<1>5. \A c \in Callers : ~Running(c)'
  BY <1>1, <1>2, <1>3 DEF OneAuthAtATime, Running, AtRest, At, Threads
<1>6. OneAuthAtATime'
  BY <1>3, <1>5 DEF OneAuthAtATime
<1>7. LockoutHasTicker'
  BY <1>2, <1>3 DEF Leave, LockoutHasTicker, WillLift, At
<1> QED
  BY <1>4, <1>6, <1>7

\* The steps of a thread that leave everything but its program and one flag alone.
LEMMA RunsInv ==
  ASSUME IInv, NEW t \in Threads, Run(t)
  PROVE  IInv'
<1> USE DEF IInv
<1>0. todo \in [Threads -> Seq(Ops)] /\ todo[t] \in Seq(Ops)
  BY DEF TypeOK
<1>1. ASSUME todo[t] # <<>>, Head(todo[t]) \notin Guards, Return(t)
      PROVE  Ordinary(t) /\ todo' \in [Threads -> Seq(Ops)]
  BY <1>1, OrdinaryShape DEF Ordinary
<1>2. ASSUME todo[t] # <<>>, Head(todo[t]) \notin Guards,
             NEW p \in CommandPrograms, Call(t, p)
      PROVE  Ordinary(t) /\ todo' \in [Threads -> Seq(Ops)]
  <2>1. p \in Seq(Ops) /\ Harmless(p) /\ Tickless(p)
    BY ProgramShapes DEF Harmless
  <2>2. Ordinary(t)
    BY <1>2, <2>1 DEF Ordinary
  <2> QED
    BY <2>2, OrdinaryShape
<1>3. CASE SetLocked(t)
  <2>1. Ordinary(t) /\ TypeOK'
    BY <1>1, <1>3 DEF SetLocked, At, Guards, TypeOK
  <2> QED
    BY <1>3, <2>1, OrdinaryStep DEF SetLocked, At, WillLift
<1>4. CASE ClearLocked(t)
  <2>1. Ordinary(t) /\ TypeOK'
    BY <1>1, <1>4 DEF ClearLocked, At, Guards, TypeOK
  <2> QED
    BY <1>4, <2>1, OrdinaryStep DEF ClearLocked, At, WillLift
<1>5. CASE ZeroAttempts(t)
  <2>1. Ordinary(t) /\ TypeOK'
    BY <1>1, <1>5 DEF ZeroAttempts, At, Guards, TypeOK
  <2> QED
    BY <1>5, <2>1, OrdinaryStep DEF ZeroAttempts, At, WillLift
<1>6. CASE ClearLockedOut(t)
  <2>1. Ordinary(t) /\ TypeOK'
    BY <1>1, <1>6 DEF ClearLockedOut, At, Guards, TypeOK
  <2> QED
    BY <1>6, <2>1, OrdinaryStep DEF ClearLockedOut
<1>7. CASE Emit(t)
  <2>1. PICK op \in Events : At(t, op) /\ ui' = Received(t, op)
    BY <1>7 DEF Emit
  <2>2. Ordinary(t) /\ todo' \in [Threads -> Seq(Ops)] /\ ~WillLift(t)
    BY <1>1, <1>7, <2>1 DEF Emit, Events, At, Guards, WillLift
  <2>3. op = "emitTick" => t \in Tickers
    <3> SUFFICES ASSUME op = "emitTick", t \notin Tickers PROVE FALSE
      OBVIOUS
    <3>1. Tickless(todo[t]) /\ todo[t] # <<>> /\ Head(todo[t]) = "emitTick"
      BY <2>1 DEF At, ProgramsOK, Threads
    <3> QED
      BY <1>0, <3>1, HeadTailProperties, EmptySeq, LenProperties DEF Tickless
  <2>4. op = "emitTick" => left[t] \in 0..LockoutTicks
    BY <2>3 DEF TypeOK
  <2>5. Received(t, op) \in UiState
    <3>1. ui \in UiState
      BY DEF TypeOK
    <3> QED
      BY <2>1, <2>4, <3>1, UiTypes DEF Received, Events
  <2>6. TypeOK'
    BY <1>7, <2>1, <2>2, <2>5 DEF Emit, TypeOK, service
  <2> QED
    BY <1>7, <2>2, <2>6, OrdinaryStep DEF Emit, service
<1>8. CASE ReadState(t)
  <2>1. Ordinary(t) /\ todo' \in [Threads -> Seq(Ops)]
    BY <1>2, <1>8 DEF ReadState, At, Guards, CommandPrograms
  <2>2. TypeOK'
    BY <1>8, <2>1 DEF ReadState, TypeOK, service
  <2> QED
    BY <1>8, <2>1, <2>2, OrdinaryStep DEF ReadState, At, WillLift, service
<1>9. CASE LockIfUnlocked(t)
  <2>1. Ordinary(t) /\ todo' \in [Threads -> Seq(Ops)]
    BY <1>2, <1>9 DEF LockIfUnlocked, At, Guards, CommandPrograms
  <2>2. TypeOK'
    BY <1>9, <2>1 DEF LockIfUnlocked, TypeOK, service
  <2> QED
    BY <1>9, <2>1, <2>2, OrdinaryStep DEF LockIfUnlocked, At, WillLift, service
<1>10. CASE StartActivation(t)
  <2>1. Ordinary(t) /\ todo' \in [Threads -> Seq(Ops)]
    BY <1>1, <1>10 DEF StartActivation, At, Guards
  <2>2. activations' \in 0..MaxActivations
    BY <1>10, LimitsAssumption DEF StartActivation, TypeOK
  <2>3. TypeOK'
    BY <1>10, <2>1, <2>2 DEF StartActivation, TypeOK, service
  <2> QED
    BY <1>10, <2>1, <2>3, OrdinaryStep DEF StartActivation, At, WillLift, service
<1>12. CASE AddAttempt(t)
  <2>1. Ordinary(t) /\ todo' \in [Threads -> Seq(Ops)]
    BY <1>2, <1>12 DEF AddAttempt, At, Guards, CommandPrograms
  <2>2. TypeOK'
    BY <1>12, <2>1 DEF AddAttempt, TypeOK
  <2> QED
    BY <1>12, <2>1, <2>2, OrdinaryStep DEF AddAttempt, At, WillLift
<1>13. CASE SetLockedOut(t)
  <2>1. Ordinary(t) /\ todo' \in [Threads -> Seq(Ops)]
    BY <1>1, <1>13 DEF SetLockedOut, At, Guards
  <2>2. TypeOK'
    BY <1>13, <2>1 DEF SetLockedOut, TypeOK
  <2>3. ProgramsOK' /\ \A c \in Callers : Running(c)' <=> Running(c)
    BY <2>1, OrdinaryShape
  <2>4. OneAuthAtATime'
    BY <1>13, <2>3 DEF SetLockedOut, OneAuthAtATime
  <2>5. todo'[t] # <<>> /\ Head(todo'[t]) = "startTicker"
    <3>1. todo[t] # <<>> /\ Head(todo[t]) = "setLockedOut" /\ Paired(todo[t])
          /\ todo'[t] = Tail(todo[t])
      BY <1>0, <1>13 DEF SetLockedOut, At, Return, ProgramsOK
    <3>2. Len(todo[t]) \in Nat /\ Len(todo[t]) > 0 /\ todo[t][1] = "setLockedOut"
      BY <1>0, <3>1, HeadTailProperties, EmptySeq, LenProperties
    <3>3. 1 < Len(todo[t]) /\ todo[t][2] = "startTicker"
      BY <3>1, <3>2 DEF Paired
    <3>4. Tail(todo[t]) \in Seq(Ops) /\ Len(Tail(todo[t])) = Len(todo[t]) - 1
          /\ Tail(todo[t])[1] = "startTicker"
      BY <1>0, <3>1, <3>2, <3>3, HeadTailProperties
    <3>5. Tail(todo[t]) # <<>>
      <4> SUFFICES ASSUME Tail(todo[t]) = <<>> PROVE FALSE
        OBVIOUS
      <4>1. Len(Tail(todo[t])) = 0
        BY EmptySeq, Zenon
      <4> QED
        BY <3>2, <3>3, <3>4, <4>1
    <3> QED
      BY <3>1, <3>4, <3>5, HeadTailProperties
  <2>6. LockoutHasTicker'
    BY <2>5 DEF LockoutHasTicker, WillLift, At
  <2> QED
    BY <2>2, <2>3, <2>4, <2>6
<1>14. CASE StartTicker(t)
  <2>1. Ordinary(t) /\ todo' \in [Threads -> Seq(Ops)]
    BY <1>1, <1>14 DEF StartTicker, At, Guards
  <2>2. PICK g \in Tickers : left[g] = 0 /\ left' = [left EXCEPT ![g] = LockoutTicks]
    BY <1>14 DEF StartTicker, Idle
  <2>3. TypeOK'
    BY <1>14, <2>1, <2>2, LimitsAssumption DEF StartTicker, TypeOK, service
  <2>4. ProgramsOK' /\ \A c \in Callers : Running(c)' <=> Running(c)
    BY <2>1, OrdinaryShape
  <2>5. OneAuthAtATime'
    BY <1>14, <2>4 DEF StartTicker, OneAuthAtATime, service
  <2>6. LockoutHasTicker'
    BY <2>2, LimitsAssumption DEF LockoutHasTicker, TypeOK
  <2> QED
    BY <2>3, <2>4, <2>5, <2>6
<1>15. CASE Enter(t)
  BY <1>15, EnterInv
<1>16. CASE Leave(t)
  BY <1>16, LeaveInv
<1> QED
  BY <1>3, <1>4, <1>5, <1>6, <1>7, <1>8, <1>9, <1>10, <1>12, <1>13, <1>14, <1>15, <1>16
     DEF Run

\* A password check that returns.
LEMMA CheckInv ==
  ASSUME IInv, NEW c \in Callers, Check(c)
  PROVE  IInv'
<1> USE DEF IInv
<1>1. PICK p \in CommandPrograms : Call(c, p)
  BY DEF Check, CheckSucceeds, CheckFails, SuccessProgram, CommandPrograms
<1>2. At(c, "check") /\ UNCHANGED <<service, left, ui, activations>>
  BY DEF Check, CheckSucceeds, CheckFails
<1>3. p \in Seq(Ops) /\ Harmless(p) /\ Tickless(p)
  BY ProgramShapes DEF Harmless
<1>4. c \in Threads /\ Ordinary(c)
  BY <1>1, <1>2, <1>3 DEF Ordinary, At, Guards, Threads
<1>5. TypeOK'
  <2>1. todo' \in [Threads -> Seq(Ops)]
    BY <1>4, OrdinaryShape
  <2> QED
    BY <1>2, <2>1 DEF TypeOK, service
<1> QED
  BY <1>2, <1>4, <1>5, OrdinaryStep DEF At, WillLift, service

\* A goroutine at rest starts a program.
LEMMA BeginStep ==
  ASSUME IInv, NEW t \in Threads, NEW p \in Seq(Ops), Begin(t, p),
         UNCHANGED <<service, left>>, activations' \in 0..MaxActivations, ui' \in UiState,
         \/ t \in Commanders /\ Harmless(p) /\ Tickless(p)
         \/ t \in Callers /\ p = <<"enter">>
  PROVE  IInv'
<1> USE DEF IInv
<1>1. /\ todo \in [Threads -> Seq(Ops)] /\ todo[t] = <<>>
      /\ todo' = [todo EXCEPT ![t] = p]
  BY DEF Begin, AtRest, TypeOK
<1>2. TypeOK'
  BY <1>1 DEF TypeOK, service
<1>3. Paired(p) /\ Tickless(p)
  <2>1. CASE p = <<"enter">>
    BY <2>1 DEF Paired, Tickless
  <2> QED
    BY <2>1 DEF Harmless
<1>4. ProgramsOK'
  <2>1. t \in Commanders => Unguarded(p)
    BY ThreadsAssumption DEF Harmless
  <2>2. t \in Callers => CallerProgram(p)
    BY ThreadsAssumption DEF CallerProgram
  <2> QED
    BY <1>1, <1>3, <2>1, <2>2, ThreadsAssumption DEF ProgramsOK, Threads
<1>5. \A c \in Callers : Running(c)' <=> Running(c)
  <2> SUFFICES ASSUME NEW c \in Callers PROVE Running(c)' <=> Running(c)
    OBVIOUS
  <2>1. CASE c # t
    BY <1>1, <2>1 DEF Running, AtRest, At, Threads
  <2>2. CASE c = t
    <3>1. p = <<"enter">> /\ p # <<>> /\ Head(p) = "enter"
      BY <2>2, ThreadsAssumption
    <3> QED
      BY <1>1, <2>2, <3>1 DEF Running, AtRest, At
  <2> QED
    BY <2>1, <2>2
<1>6. OneAuthAtATime'
  BY <1>5 DEF OneAuthAtATime, service
<1>7. LockoutHasTicker'
  <2>1. \A u \in Threads : WillLift(u) => WillLift(u)'
    BY <1>1 DEF WillLift, At
  <2> QED
    BY <2>1 DEF LockoutHasTicker, service
<1> QED
  BY <1>2, <1>4, <1>6, <1>7

\* A command, a connection or an activation.
LEMMA CommanderInv ==
  ASSUME IInv, NEW k \in Commanders, Command(k) \/ Activate(k)
  PROVE  IInv'
<1> USE DEF IInv
<1>0. k \in Threads /\ ui \in UiState /\ activations \in 0..MaxActivations
  BY DEF Threads, TypeOK
<1>1. CASE Command(k)
  <2>1. PICK command \in Commands :
          /\ \E program \in ProgramsOf(command) : Begin(k, program)
          /\ ui' = IF command = "restart QML" THEN UiFresh ELSE ui
    BY <1>1 DEF Command
  <2>2. PICK program \in ProgramsOf(command) : Begin(k, program)
    BY <2>1
  <2>3. program \in CommandPrograms
    <3>1. command \in AllCommands
      BY LimitsAssumption
    <3> QED
      BY <2>2, <3>1, Zenon DEF ProgramsOf, CommandPrograms, AllCommands
  <2>4. program \in Seq(Ops) /\ Harmless(program) /\ Tickless(program)
    BY <2>3, ProgramShapes DEF Harmless
  <2>5. ui' \in UiState
    BY <1>0, <2>1, UiTypes
  <2>6. UNCHANGED <<service, left, activations>>
    BY <1>1 DEF Command
  <2>7. activations' \in 0..MaxActivations /\ UNCHANGED <<service, left>>
    BY <1>0, <2>6
  <2> QED
    BY <1>0, <2>2, <2>4, <2>5, <2>7, BeginStep
<1>2. CASE Activate(k)
  <2>1. activations' \in 0..MaxActivations
    BY <1>0, <1>2, LimitsAssumption DEF Activate
  <2>2. CASE ui.locked
    BY <1>0, <1>2, <2>1, <2>2, SameRest DEF Activate
  <2>3. CASE ~ui.locked
    <3>1. Harmless(<<"lockIfUnlocked">>) /\ Tickless(<<"lockIfUnlocked">>)
      BY ProgramShapes DEF CommandPrograms
    <3>2. <<"lockIfUnlocked">> \in Seq(Ops)
      BY <3>1 DEF Harmless
    <3>3. ui' \in UiState
      BY <1>0, <1>2, <2>3, UiTypes DEF Activate
    <3> QED
      BY <1>0, <1>2, <2>1, <2>3, <3>1, <3>2, <3>3, BeginStep DEF Activate
  <2> QED
    BY <2>2, <2>3
<1> QED
  BY <1>1, <1>2

\* A second: every ticker whose time is up is about to lift the lockout.
LEMMA SecondInv ==
  ASSUME IInv, Second
  PROVE  IInv'
<1> USE DEF IInv
<1>1. /\ todo \in [Threads -> Seq(Ops)]
      /\ left \in [Tickers -> 0..LockoutTicks]
      /\ Settled
      /\ UNCHANGED <<service, ui, activations>>
  BY DEF TypeOK, Second
<1>2. /\ left' \in [Tickers -> 0..LockoutTicks]
      /\ \A g \in Tickers : left[g] > 1 => left'[g] > 0
  BY <1>1, LimitsAssumption DEF Second
<1>3. Harmless(ExpireProgram) /\ Harmless(<<"emitTick">>)
  BY TickerShapes
<1>4. ASSUME NEW t \in Threads
      PROVE  \/ todo'[t] = todo[t]
             \/ t \in Tickers /\ todo'[t] = ExpireProgram
             \/ t \in Tickers /\ todo'[t] = <<"emitTick">>
  BY DEF Second
<1>5. todo' \in [Threads -> Seq(Ops)]
  BY <1>1, <1>3 DEF Second, Harmless
<1>6. TypeOK'
  BY <1>1, <1>2, <1>5 DEF TypeOK, service
<1>7. ProgramsOK'
  <2>1. \A t \in Threads : Paired(todo'[t])
    BY <1>3, <1>4 DEF ProgramsOK, Harmless
  <2>2. \A c \in Callers : todo'[c] = todo[c]
    BY <1>4, ThreadsAssumption DEF Threads
  <2>3. \A t \in Commanders \cup Tickers : Unguarded(todo'[t])
    BY <1>3, <1>4 DEF ProgramsOK, Harmless, Threads
  <2>4. \A k \in Commanders : todo'[k] = todo[k]
    BY <1>4, ThreadsAssumption DEF Threads
  <2> QED
    BY <2>1, <2>2, <2>3, <2>4 DEF ProgramsOK
<1>8. OneAuthAtATime'
  <2>1. \A c \in Callers : todo'[c] = todo[c]
    BY <1>4, ThreadsAssumption DEF Threads
  <2> QED
    BY <1>1, <2>1 DEF OneAuthAtATime, Running, AtRest, At, service
<1>9. LockoutHasTicker'
  <2> SUFFICES ASSUME lockedOut
               PROVE  \/ \E g \in Tickers : left'[g] > 0
                      \/ \E t \in Threads : WillLift(t)'
    BY <1>1 DEF LockoutHasTicker, service
  <2>1. \A t \in Threads : ~WillLift(t)
    BY <1>1 DEF Settled, AtRest, Waiting, At, WillLift
  <2>2. PICK g \in Tickers : left[g] > 0
    BY <2>1 DEF LockoutHasTicker
  <2>3. CASE left[g] = 1
    <3>1. g \in Threads /\ todo'[g] = ExpireProgram
      BY <2>2, <2>3 DEF Second, Threads
    <3>2. ExpireProgram # <<>> /\ Head(ExpireProgram) = "clearLockedOut"
      BY DEF ExpireProgram
    <3> QED
      BY <3>1, <3>2 DEF WillLift, At
  <2>4. CASE left[g] > 1
    BY <1>2, <2>4
  <2>5. left[g] \in Nat
    BY <1>1
  <2> QED
    BY <2>2, <2>3, <2>4, <2>5
<1> QED
  BY <1>6, <1>7, <1>8, <1>9

THEOREM NextIInv == IInv /\ [Next]_vars => IInv'
<1> SUFFICES ASSUME IInv, [Next]_vars PROVE IInv'
  OBVIOUS
<1>1. ui \in UiState /\ activations \in 0..MaxActivations
  BY DEF IInv, TypeOK
<1>2. CASE \E t \in Threads : Run(t)
  BY <1>2, RunsInv
<1>3. ASSUME NEW c \in Callers, Check(c)
      PROVE  IInv'
  BY <1>3, CheckInv
<1>4. ASSUME NEW c \in Callers, TryUnlock(c)
      PROVE  IInv'
  <2>1. c \in Threads /\ <<"enter">> \in Seq(Ops)
    BY DEF Threads, Ops
  <2>2. ui' \in UiState
    BY <1>1, <1>4 DEF TryUnlock, UiState
  <2> QED
    BY <1>1, <1>4, <2>1, <2>2, BeginStep DEF TryUnlock
<1>5. CASE \E k \in Commanders : Command(k) \/ Activate(k)
  BY <1>5, CommanderInv
<1>6. CASE ClearTimer
  BY <1>1, <1>6, SameRest, UiTypes DEF ClearTimer
<1>7. CASE FingerprintUnlock
  BY <1>1, <1>7, SameRest, UiTypes DEF FingerprintUnlock
<1>8. CASE Second
  BY <1>8, SecondInv
<1>9. CASE UNCHANGED vars
  BY <1>1, <1>9, SameRest DEF vars, service
<1> QED
  BY <1>2, <1>3, <1>4, <1>5, <1>6, <1>7, <1>8, <1>9 DEF Next

----------------------------------------------------------------------------
(* The theorems.                                                           *)

\* The inductive invariant holds throughout, whatever the commands and their order.
THEOREM SpecIInv == Spec => []IInv
  BY InitIInv, NextIInv, PTL DEF Spec

\* The service's flags, its counter and all programs keep their types.
THEOREM TypeCorrect == Spec => []TypeOK
  BY SpecIInv, PTL DEF IInv

\* Authenticate's guarded entry admits one goroutine at a time, however many there are.
THEOREM AuthExclusive == Spec => []OneAuthAtATime
  BY SpecIInv, PTL DEF IInv

\* No interleaving of Unlock, failed passwords and tickers of earlier lockouts leaves
\* the user locked out with nobody to lift it.
THEOREM LockoutIsLifted == Spec => []LockoutHasTicker
  BY SpecIInv, PTL DEF IInv

----------------------------------------------------------------------------
(* Only passwords and time.                                                *)

\* Nothing unlocks but a password: no `unlock' command, auto-unlock or locked start.
PasswordsOnly == Commands \cap {"unlock", "auto-unlock", "lock startup"} = {}

\* What an Authenticate, a ticker and a command go on with after each operation.
CallerFlow ==
  {<<"enter", "end">>, <<"check", "leave">>, <<"leave", "end">>,
   <<"addAttempt", "leave">>, <<"emitRefused", "leave">>,
   <<"setLockedOut", "startTicker">>, <<"startTicker", "emitLockedOut">>,
   <<"emitLockedOut", "leave">>,
   <<"zeroAttempts", "clearLockedOut">>, <<"clearLockedOut", "clearLocked">>,
   <<"clearLocked", "emitUnlocked">>, <<"emitUnlocked", "emitSuccess">>,
   <<"emitSuccess", "leave">>}

TickerFlow ==
  {<<"clearLockedOut", "zeroAttempts">>, <<"zeroAttempts", "emitTick">>,
   <<"emitTick", "emitReset">>, <<"emitTick", "end">>, <<"emitReset", "end">>}

CommanderOps ==
  {"lockIfUnlocked", "readState", "setLocked", "emitLocked", "emitUnlocked", "activate"}

CommanderFlow == CommanderOps \X (CommanderOps \cup {"end"})

\* Each operation of s is followed by one that the flow allows.
Chained(flow, s) ==
  \A i \in 1..Len(s) : <<s[i], IF i = Len(s) THEN "end" ELSE s[i + 1]>> \in flow

ThrottledPrograms ==
  /\ \A c \in Callers : Chained(CallerFlow, todo[c])
  /\ \A g \in Tickers : Chained(TickerFlow, todo[g])
  /\ \A k \in Commanders : Chained(CommanderFlow, todo[k])

\* The next operation of a program, and of a thread.
Upcoming(s) == IF s = <<>> THEN "end" ELSE Head(s)

Doing(t) == Upcoming(todo[t])

\* While somebody is locked out, no Authenticate does more than report it.
OnlyReports ==
  lockedOut => \A c \in Callers :
                 Doing(c) \in {"end", "enter", "startTicker", "emitLockedOut", "leave"}

\* A ticker that counts is alone, and the gate is shut as long as it does.
OneCountdown ==
  \A g \in Tickers : left[g] > 0 =>
    /\ lockedOut
    /\ \A h \in Tickers : h # g => left[h] = 0
    /\ \A h \in Tickers : Doing(h) # "clearLockedOut"
    /\ \A c \in Callers : Doing(c) \notin {"setLockedOut", "startTicker"}

\* So is one that opens the gate, and nobody is past the gate then.
OneOpening ==
  \A g \in Tickers : Doing(g) = "clearLockedOut" =>
    /\ lockedOut
    /\ \A h \in Tickers : Doing(h) = "clearLockedOut" => h = g
    /\ \A c \in Callers : Doing(c) \in {"end", "enter"}

ShutBeforeTicker == \A c \in Callers : Doing(c) = "startTicker" => lockedOut

GInv ==
  /\ ThrottledPrograms
  /\ OnlyReports
  /\ OneCountdown
  /\ OneOpening
  /\ ShutBeforeTicker
  /\ GateShutAtLimit

----------------------------------------------------------------------------
(* What a step does to the gate, told by the next operation of each thread. *)

gate == <<attempts, lockedOut, left>>

OthersWait(t) == \A u \in Callers \cup Tickers : u # t => Doing(u)' = Doing(u)

CallerMoves(c) ==
  \/ Doing(c) = "end" /\ Doing(c)' = "enter" /\ UNCHANGED gate
  \/ Doing(c) = "enter" /\ Doing(c)' = "end" /\ UNCHANGED gate
  \/ Doing(c) = "enter" /\ ~lockedOut /\ Doing(c)' = "check" /\ UNCHANGED gate
  \/ Doing(c) = "check" /\ Doing(c)' \in {"zeroAttempts", "addAttempt"} /\ UNCHANGED gate
  \/ /\ Doing(c) = "addAttempt" /\ attempts' = attempts + 1
     /\ Doing(c)' = IF attempts + 1 >= MaxAttempts THEN "setLockedOut" ELSE "emitRefused"
     /\ UNCHANGED <<lockedOut, left>>
  \/ /\ Doing(c) = "setLockedOut" /\ Doing(c)' = "startTicker" /\ lockedOut'
     /\ UNCHANGED <<attempts, left>>
  \/ /\ Doing(c) = "startTicker" /\ Doing(c)' = "emitLockedOut"
     /\ \E g \in Tickers : left[g] = 0 /\ left' = [left EXCEPT ![g] = LockoutTicks]
     /\ UNCHANGED <<attempts, lockedOut>>
  \/ /\ Doing(c) = "zeroAttempts" /\ Doing(c)' = "clearLockedOut" /\ attempts' = 0
     /\ UNCHANGED <<lockedOut, left>>
  \/ /\ Doing(c) = "clearLockedOut" /\ Doing(c)' = "clearLocked" /\ ~lockedOut'
     /\ UNCHANGED <<attempts, left>>
  \/ /\ Doing(c) \in {"clearLocked", "emitUnlocked", "emitSuccess", "emitRefused"}
     /\ Doing(c)' \in {"emitUnlocked", "emitSuccess", "leave"}
     /\ UNCHANGED gate
  \/ Doing(c) = "emitLockedOut" /\ Doing(c)' = "leave" /\ UNCHANGED gate
  \/ Doing(c) = "leave" /\ Doing(c)' = "end" /\ UNCHANGED gate

TickerMoves(g) ==
  \/ /\ Doing(g) = "clearLockedOut" /\ Doing(g)' = "zeroAttempts" /\ ~lockedOut'
     /\ UNCHANGED <<attempts, left>>
  \/ /\ Doing(g) = "zeroAttempts" /\ Doing(g)' = "emitTick" /\ attempts' = 0
     /\ UNCHANGED <<lockedOut, left>>
  \/ /\ Doing(g) \in {"emitTick", "emitReset"} /\ Doing(g)' \in {"emitReset", "end"}
     /\ UNCHANGED gate

\* Nobody but callers, tickers and time touches the gate.
Moves ==
  \/ \E c \in Callers : CallerMoves(c) /\ OthersWait(c)
  \/ \E g \in Tickers : TickerMoves(g) /\ OthersWait(g)
  \/ Second
  \/ UNCHANGED gate /\ \A u \in Callers \cup Tickers : Doing(u)' = Doing(u)

\* A thread that returns goes on with what the flow allows.
LEMMA TailChained ==
  ASSUME NEW flow, NEW s \in Seq(Ops), s # <<>>, Chained(flow, s)
  PROVE  /\ Tail(s) \in Seq(Ops)
         /\ Chained(flow, Tail(s))
         /\ <<Head(s), Upcoming(Tail(s))>> \in flow
<1> DEFINE r == Tail(s)
<1>1. /\ Len(s) \in Nat /\ Len(s) > 0
      /\ Head(s) = s[1]
      /\ r \in Seq(Ops)
      /\ Len(r) = Len(s) - 1
      /\ \A i \in 1..Len(r) : r[i] = s[i + 1]
  BY HeadTailProperties, EmptySeq, LenProperties
<1> HIDE DEF r
<1>2. Chained(flow, r)
  <2> SUFFICES ASSUME NEW i \in 1..Len(r)
               PROVE  <<r[i], IF i = Len(r) THEN "end" ELSE r[i + 1]>> \in flow
    BY DEF Chained
  <2>1. i + 1 \in 1..Len(s) /\ r[i] = s[i + 1] /\ (i = Len(r) <=> i + 1 = Len(s))
    BY <1>1
  <2>2. i # Len(r) => r[i + 1] = s[(i + 1) + 1]
    BY <1>1
  <2>3. <<s[i + 1], IF i + 1 = Len(s) THEN "end" ELSE s[(i + 1) + 1]>> \in flow
    BY <2>1 DEF Chained
  <2> QED
    BY <2>1, <2>2, <2>3
<1>3. <<s[1], IF 1 = Len(s) THEN "end" ELSE s[1 + 1]>> \in flow
  <2>1. 1 \in 1..Len(s)
    BY <1>1
  <2> QED
    BY <2>1 DEF Chained
<1>4. CASE Len(s) = 1
  <2>1. r = <<>>
    BY <1>1, <1>4, EmptySeq
  <2> QED
    BY <1>1, <1>2, <1>3, <1>4, <2>1 DEF Upcoming, r
<1>5. CASE Len(s) > 1
  <2>1. r \in Seq(Ops) /\ r # <<>> /\ r[1] = s[1 + 1]
    BY <1>1, <1>5, EmptySeq
  <2>2. Upcoming(r) = s[1 + 1]
    BY <2>1, HeadTailProperties DEF Upcoming
  <2> QED
    BY <1>1, <1>2, <1>3, <1>5, <2>2 DEF r
<1> QED
  BY <1>1, <1>4, <1>5

\* So does one that calls a program which the flow allows to precede the rest.
LEMMA CallChained ==
  ASSUME NEW flow, NEW s \in Seq(Ops), Chained(flow, s),
         NEW p \in Seq(Ops), Len(p) > 0,
         \A i \in 1..(Len(p) - 1) : <<p[i], p[i + 1]>> \in flow,
         <<p[Len(p)], Upcoming(s)>> \in flow
  PROVE  /\ Chained(flow, p \o s)
         /\ Upcoming(p \o s) = p[1]
<1>1. /\ p \o s \in Seq(Ops)
      /\ Len(p) \in Nat /\ Len(s) \in Nat
      /\ Len(p \o s) = Len(p) + Len(s)
      /\ \A i \in 1..(Len(p) + Len(s)) :
           (p \o s)[i] = IF i <= Len(p) THEN p[i] ELSE s[i - Len(p)]
  BY ConcatProperties, LenProperties
<1> DEFINE q == p \o s
<1> HIDE DEF q
<1>2. q \in Seq(Ops) /\ Len(q) > 0 /\ q[1] = p[1] /\ q # <<>> /\ Head(q) = q[1]
  BY <1>1, EmptySeq, HeadTailProperties DEF q
<1>3. Len(s) > 0 => Upcoming(s) = s[1]
  BY EmptySeq, HeadTailProperties DEF Upcoming
<1>4. Len(s) = 0 => Upcoming(s) = "end"
  BY EmptySeq DEF Upcoming
<1>5. ASSUME NEW i \in 1..Len(q)
      PROVE  <<q[i], IF i = Len(q) THEN "end" ELSE q[i + 1]>> \in flow
  <2>1. CASE i < Len(p)
    <3>1. q[i] = p[i] /\ q[i + 1] = p[i + 1] /\ i # Len(q) /\ i \in 1..(Len(p) - 1)
      BY <1>1, <2>1 DEF q
    <3> QED
      BY <3>1
  <2>2. CASE i = Len(p)
    <3>1. q[i] = p[Len(p)]
      BY <1>1, <2>2 DEF q
    <3>2. Len(s) > 0 => i # Len(q) /\ q[i + 1] = s[1]
      BY <1>1, <2>2 DEF q
    <3>3. Len(s) = 0 => i = Len(q)
      BY <1>1, <2>2 DEF q
    <3> QED
      BY <1>1, <1>3, <1>4, <3>1, <3>2, <3>3
  <2>3. CASE i > Len(p)
    <3> DEFINE j == i - Len(p)
    <3>1. j \in 1..Len(s) /\ q[i] = s[j] /\ (i = Len(q) <=> j = Len(s))
      BY <1>1, <2>3 DEF q
    <3>2. i # Len(q) => q[i + 1] = s[j + 1]
      <4> SUFFICES ASSUME i # Len(q) PROVE q[i + 1] = s[j + 1]
        OBVIOUS
      <4>0. Len(q) = Len(p) + Len(s) /\ Len(p) \in Nat /\ Len(s) \in Nat
        BY <1>1 DEF q
      <4>1. i \in Nat /\ i > Len(p) /\ i < Len(p) + Len(s)
        BY <2>3, <4>0
      <4>2. i + 1 \in 1..(Len(p) + Len(s)) /\ ~(i + 1 <= Len(p))
        BY <1>1, <4>1
      <4>3. q[i + 1] = s[(i + 1) - Len(p)]
        BY <1>1, <4>2 DEF q
      <4>4. (i + 1) - Len(p) = j + 1
        BY <1>1, <4>1
      <4> QED
        BY <4>3, <4>4
    <3>3. <<s[j], IF j = Len(s) THEN "end" ELSE s[j + 1]>> \in flow
      BY <3>1 DEF Chained
    <3> QED
      BY <3>1, <3>2, <3>3
  <2> QED
    BY <1>1, <2>1, <2>2, <2>3
<1> QED
  BY <1>2, <1>5 DEF Chained, Upcoming, q

\* The programs that a password check calls, before what it still has to do.
LEMMA CheckPrograms ==
  ASSUME NEW s \in Seq(Ops), Chained(CallerFlow, s)
  PROVE  /\ s = <<>> => LET q == <<"check", "leave">> \o s
                        IN  Chained(CallerFlow, q) /\ Upcoming(q) = "check"
         /\ Upcoming(s) = "leave" =>
              /\ LET q == SuccessProgram \o s
                 IN  Chained(CallerFlow, q) /\ Upcoming(q) = "zeroAttempts"
              /\ LET q == LockoutProgram \o s
                 IN  Chained(CallerFlow, q) /\ Upcoming(q) = "setLockedOut"
              /\ \A op \in {"addAttempt", "emitRefused"} :
                   LET q == <<op>> \o s
                   IN  Chained(CallerFlow, q) /\ Upcoming(q) = op
<1>1. ASSUME s = <<>>
      PROVE  LET q == <<"check", "leave">> \o s
             IN  Chained(CallerFlow, q) /\ Upcoming(q) = "check"
  <2> DEFINE p == <<"check", "leave">>
  <2>1. /\ p \in Seq(Ops) /\ Len(p) = 2 /\ p[1] = "check" /\ p[2] = "leave"
        /\ <<p[1], p[1 + 1]>> \in CallerFlow /\ <<p[2], "end">> \in CallerFlow
    BY DEF Ops, CallerFlow
  <2> HIDE DEF p
  <2>2. Upcoming(s) = "end" /\ \A i \in 1..(Len(p) - 1) : <<p[i], p[i + 1]>> \in CallerFlow
    BY <1>1, <2>1 DEF Upcoming
  <2>3. Chained(CallerFlow, p \o s) /\ Upcoming(p \o s) = p[1]
    <3>1. p \in Seq(Ops) /\ Len(p) > 0 /\ <<p[Len(p)], Upcoming(s)>> \in CallerFlow
      BY <2>1, <2>2
    <3> QED
      BY <2>2, <3>1, CallChained
  <2> QED
    BY <2>1, <2>3 DEF p
<1>2. ASSUME Upcoming(s) = "leave"
      PROVE  LET q == SuccessProgram \o s
             IN  Chained(CallerFlow, q) /\ Upcoming(q) = "zeroAttempts"
  <2> DEFINE p == SuccessProgram
  <2>1. /\ p \in Seq(Ops) /\ Len(p) = 5 /\ p[1] = "zeroAttempts"
        /\ p[2] = "clearLockedOut" /\ p[3] = "clearLocked" /\ p[4] = "emitUnlocked"
        /\ p[5] = "emitSuccess"
    BY DEF SuccessProgram, LockWithAutoUnlockProgram, Ops
  <2> HIDE DEF p
  <2>2. \A i \in 1..(Len(p) - 1) : <<p[i], p[i + 1]>> \in CallerFlow
    <3>1. \A i \in 1..(Len(p) - 1) : i \in {1, 2, 3, 4}
      BY <2>1
    <3>2. /\ <<p[1], p[1 + 1]>> \in CallerFlow /\ <<p[2], p[2 + 1]>> \in CallerFlow
          /\ <<p[3], p[3 + 1]>> \in CallerFlow /\ <<p[4], p[4 + 1]>> \in CallerFlow
      BY <2>1 DEF CallerFlow
    <3> QED
      BY <3>1, <3>2
  <2>3. <<p[Len(p)], Upcoming(s)>> \in CallerFlow
    BY <1>2, <2>1 DEF CallerFlow
  <2>4. Chained(CallerFlow, p \o s) /\ Upcoming(p \o s) = p[1]
    <3>1. p \in Seq(Ops) /\ Len(p) > 0
      BY <2>1
    <3> QED
      BY <2>2, <2>3, <3>1, CallChained
  <2> QED
    BY <2>1, <2>4 DEF p
<1>3. ASSUME Upcoming(s) = "leave"
      PROVE  LET q == LockoutProgram \o s
             IN  Chained(CallerFlow, q) /\ Upcoming(q) = "setLockedOut"
  <2> DEFINE p == LockoutProgram
  <2>1. /\ p \in Seq(Ops) /\ Len(p) = 3 /\ p[1] = "setLockedOut"
        /\ p[2] = "startTicker" /\ p[3] = "emitLockedOut"
    BY DEF LockoutProgram, Ops
  <2> HIDE DEF p
  <2>2. \A i \in 1..(Len(p) - 1) : <<p[i], p[i + 1]>> \in CallerFlow
    <3>1. \A i \in 1..(Len(p) - 1) : i \in {1, 2}
      BY <2>1
    <3>2. <<p[1], p[1 + 1]>> \in CallerFlow /\ <<p[2], p[2 + 1]>> \in CallerFlow
      BY <2>1 DEF CallerFlow
    <3> QED
      BY <3>1, <3>2
  <2>3. <<p[Len(p)], Upcoming(s)>> \in CallerFlow
    BY <1>3, <2>1 DEF CallerFlow
  <2>4. Chained(CallerFlow, p \o s) /\ Upcoming(p \o s) = p[1]
    <3>1. p \in Seq(Ops) /\ Len(p) > 0
      BY <2>1
    <3> QED
      BY <2>2, <2>3, <3>1, CallChained
  <2> QED
    BY <2>1, <2>4 DEF p
<1>4. ASSUME Upcoming(s) = "leave", NEW op \in {"addAttempt", "emitRefused"}
      PROVE  LET q == <<op>> \o s
             IN  Chained(CallerFlow, q) /\ Upcoming(q) = op
  <2> DEFINE p == <<op>>
  <2>1. p \in Seq(Ops) /\ Len(p) = 1 /\ p[1] = op
    BY DEF Ops
  <2> HIDE DEF p
  <2>2. \A i \in 1..(Len(p) - 1) : <<p[i], p[i + 1]>> \in CallerFlow
    BY <2>1
  <2>3. <<p[Len(p)], Upcoming(s)>> \in CallerFlow
    BY <1>4, <2>1 DEF CallerFlow
  <2>4. Chained(CallerFlow, p \o s) /\ Upcoming(p \o s) = p[1]
    <3>1. p \in Seq(Ops) /\ Len(p) > 0
      BY <2>1
    <3> QED
      BY <2>2, <2>3, <3>1, CallChained
  <2> QED
    BY <2>1, <2>4 DEF p
<1> QED
  BY <1>1, <1>2, <1>3, <1>4

----------------------------------------------------------------------------
(* Every step is one of the moves.                                         *)

\* Other threads are where they were; t has returned, or called p.
LEMMA Returned ==
  ASSUME TypeOK, NEW t \in Threads, todo[t] # <<>>, Return(t)
  PROVE  /\ todo'[t] = Tail(todo[t]) /\ Tail(todo[t]) \in Seq(Ops)
         /\ \A u \in Threads : u # t => todo'[u] = todo[u]
<1>1. todo \in [Threads -> Seq(Ops)]
  BY DEF TypeOK
<1>2. todo'[t] = Tail(todo[t]) /\ \A u \in Threads : u # t => todo'[u] = todo[u]
  BY <1>1 DEF Return
<1>3. Tail(todo[t]) \in Seq(Ops)
  BY <1>1, HeadTailProperties
<1> QED
  BY <1>2, <1>3

LEMMA Called ==
  ASSUME TypeOK, NEW t \in Threads, todo[t] # <<>>, NEW p, Call(t, p)
  PROVE  /\ todo'[t] = p \o Tail(todo[t]) /\ Tail(todo[t]) \in Seq(Ops)
         /\ \A u \in Threads : u # t => todo'[u] = todo[u]
<1>1. todo \in [Threads -> Seq(Ops)]
  BY DEF TypeOK
<1>2. todo'[t] = p \o Tail(todo[t]) /\ \A u \in Threads : u # t => todo'[u] = todo[u]
  BY <1>1 DEF Call
<1>3. Tail(todo[t]) \in Seq(Ops)
  BY <1>1, HeadTailProperties
<1> QED
  BY <1>2, <1>3

\* An operation of a flow.
LEMMA UpcomingFlow ==
  ASSUME NEW flow, NEW s \in Seq(Ops), s # <<>>, Chained(flow, s)
  PROVE  Upcoming(s) = Head(s) /\ \E op : <<Head(s), op>> \in flow
<1>1. /\ Len(s) \in Nat /\ Len(s) > 0 /\ Head(s) = s[1]
  BY HeadTailProperties, EmptySeq, LenProperties
<1>2. 1 \in 1..Len(s)
  BY <1>1
<1>3. <<s[1], IF 1 = Len(s) THEN "end" ELSE s[1 + 1]>> \in flow
  BY <1>2 DEF Chained
<1> QED
  BY <1>1, <1>3 DEF Upcoming

\* One thread went from a chained program to another.
LEMMA OneProgram ==
  ASSUME ThrottledPrograms, NEW t \in Threads,
         \A u \in Threads : u # t => todo'[u] = todo[u],
         t \in Callers => Chained(CallerFlow, todo'[t]),
         t \in Tickers => Chained(TickerFlow, todo'[t]),
         t \in Commanders => Chained(CommanderFlow, todo'[t])
  PROVE  /\ ThrottledPrograms'
         /\ OthersWait(t)
<1>1. ThrottledPrograms'
  BY DEF ThrottledPrograms, Threads
<1>2. OthersWait(t)
  BY DEF OthersWait, Doing, Threads
<1> QED
  BY <1>1, <1>2

\* The steps of an Authenticate.
LEMMA CallerSteps ==
  ASSUME TypeOK, OneAuthAtATime, ThrottledPrograms, NEW c \in Callers, Run(c) \/ Check(c)
  PROVE  ThrottledPrograms' /\ CallerMoves(c) /\ OthersWait(c)
<1> DEFINE s == todo[c]
<1>0. /\ c \in Threads /\ c \notin Tickers /\ c \notin Commanders
      /\ s \in Seq(Ops) /\ Chained(CallerFlow, s)
  BY ThreadsAssumption DEF Threads, TypeOK, ThrottledPrograms
<1>1. s # <<>>
  BY DEF Run, Check, SetLocked, ClearLocked, ZeroAttempts, ClearLockedOut, Emit, ReadState,
         LockIfUnlocked, StartActivation, Enter, AddAttempt, SetLockedOut, StartTicker, Leave,
         CheckSucceeds, CheckFails, At
<1>2. /\ Tail(s) \in Seq(Ops) /\ Chained(CallerFlow, Tail(s))
      /\ <<Head(s), Upcoming(Tail(s))>> \in CallerFlow
      /\ Doing(c) = Head(s)
      /\ \A op : At(c, op) <=> Head(s) = op
  BY <1>0, <1>1, TailChained DEF Doing, Upcoming, At
<1>3. ASSUME Return(c)
      PROVE  /\ ThrottledPrograms' /\ OthersWait(c)
             /\ <<Doing(c), Doing(c)'>> \in CallerFlow
  <2>1. todo'[c] = Tail(s) /\ \A u \in Threads : u # c => todo'[u] = todo[u]
    BY <1>0, <1>1, <1>3, Returned
  <2>2. ThrottledPrograms' /\ OthersWait(c)
    BY <1>0, <1>2, <2>1, OneProgram
  <2>3. Doing(c)' = Upcoming(Tail(s))
    BY <2>1 DEF Doing, Upcoming
  <2> QED
    BY <1>2, <2>2, <2>3
<1>4. ASSUME NEW p, Call(c, p), Chained(CallerFlow, p \o Tail(s))
      PROVE  /\ ThrottledPrograms' /\ OthersWait(c)
             /\ Doing(c)' = Upcoming(p \o Tail(s))
  <2>1. todo'[c] = p \o Tail(s) /\ \A u \in Threads : u # c => todo'[u] = todo[u]
    BY <1>0, <1>1, <1>4, Called
  <2>2. ThrottledPrograms' /\ OthersWait(c)
    BY <1>0, <1>4, <2>1, OneProgram
  <2>3. Doing(c)' = Upcoming(p \o Tail(s))
    BY <2>1 DEF Doing, Upcoming
  <2> QED
    BY <2>2, <2>3
<1>5. Head(s) \in {"check", "addAttempt"} => Upcoming(Tail(s)) = "leave"
  BY <1>2 DEF CallerFlow
<1>6. Head(s) \notin {"setLocked", "readState", "lockIfUnlocked", "activate",
                      "emitLocked", "emitTick", "emitReset"}
  BY <1>2 DEF CallerFlow
<1> HIDE DEF s
<1>7. CASE Enter(c)
  <2>1. Head(s) = "enter" /\ UNCHANGED gate
    BY <1>2, <1>7 DEF Enter, gate
  <2>2. CASE Return(c)
    BY <1>2, <1>3, <2>1, <2>2 DEF CallerMoves, CallerFlow
  <2>3. CASE ~lockedOut /\ Call(c, <<"check", "leave">>)
    <3>1. Tail(s) = <<>>
      <4>1. Upcoming(Tail(s)) = "end"
        BY <1>2, <2>1 DEF CallerFlow
      <4>2. "end" \notin Ops
        BY DEF Ops
      <4> QED
        BY <1>2, <4>1, <4>2, HeadTailProperties DEF Upcoming
    <3>2. Chained(CallerFlow, <<"check", "leave">> \o Tail(s))
          /\ Upcoming(<<"check", "leave">> \o Tail(s)) = "check"
      BY <1>2, <3>1, CheckPrograms
    <3>3. Doing(c)' = "check" /\ ThrottledPrograms' /\ OthersWait(c)
      BY <1>4, <2>3, <3>2
    <3> QED
      BY <1>2, <2>1, <2>3, <3>3 DEF CallerMoves
  <2> QED
    BY <1>7, <2>2, <2>3 DEF Enter
<1>8. CASE CheckSucceeds(c)
  <2>1. Head(s) = "check" /\ UNCHANGED gate /\ Call(c, SuccessProgram)
    BY <1>2, <1>8 DEF CheckSucceeds, gate, service
  <2>2. Chained(CallerFlow, SuccessProgram \o Tail(s))
        /\ Upcoming(SuccessProgram \o Tail(s)) = "zeroAttempts"
    BY <1>2, <1>5, <2>1, CheckPrograms
  <2>3. Doing(c)' = "zeroAttempts" /\ ThrottledPrograms' /\ OthersWait(c)
    BY <1>4, <2>1, <2>2
  <2> QED
    BY <1>2, <2>1, <2>3 DEF CallerMoves
<1>9. CASE CheckFails(c)
  <2>1. Head(s) = "check" /\ UNCHANGED gate /\ Call(c, <<"addAttempt">>)
    BY <1>2, <1>9 DEF CheckFails, gate, service
  <2>2. Chained(CallerFlow, <<"addAttempt">> \o Tail(s))
        /\ Upcoming(<<"addAttempt">> \o Tail(s)) = "addAttempt"
    BY <1>2, <1>5, <2>1, CheckPrograms
  <2>3. Doing(c)' = "addAttempt" /\ ThrottledPrograms' /\ OthersWait(c)
    BY <1>4, <2>1, <2>2
  <2> QED
    BY <1>2, <2>1, <2>3 DEF CallerMoves
<1>10. CASE AddAttempt(c)
  <2>1. /\ Head(s) = "addAttempt" /\ attempts' = attempts + 1 /\ UNCHANGED <<lockedOut, left>>
        /\ Call(c, IF attempts + 1 >= MaxAttempts THEN LockoutProgram ELSE <<"emitRefused">>)
    BY <1>2, <1>10 DEF AddAttempt
  <2>2. CASE attempts + 1 >= MaxAttempts
    <3>1. Chained(CallerFlow, LockoutProgram \o Tail(s))
          /\ Upcoming(LockoutProgram \o Tail(s)) = "setLockedOut"
      BY <1>2, <1>5, <2>1, CheckPrograms
    <3>2. Doing(c)' = "setLockedOut" /\ ThrottledPrograms' /\ OthersWait(c)
      BY <1>4, <2>1, <2>2, <3>1
    <3> QED
      BY <1>2, <2>1, <2>2, <3>2 DEF CallerMoves
  <2>3. CASE ~(attempts + 1 >= MaxAttempts)
    <3>1. Chained(CallerFlow, <<"emitRefused">> \o Tail(s))
          /\ Upcoming(<<"emitRefused">> \o Tail(s)) = "emitRefused"
      BY <1>2, <1>5, <2>1, CheckPrograms
    <3>2. Doing(c)' = "emitRefused" /\ ThrottledPrograms' /\ OthersWait(c)
      BY <1>4, <2>1, <2>3, <3>1
    <3> QED
      BY <1>2, <2>1, <2>3, <3>2 DEF CallerMoves
  <2> QED
    BY <2>2, <2>3
<1>11. CASE SetLockedOut(c)
  BY <1>2, <1>3, <1>11 DEF SetLockedOut, CallerMoves, CallerFlow
<1>12. CASE StartTicker(c)
  <2>1. /\ Doing(c) = "startTicker" /\ Return(c) /\ UNCHANGED <<attempts, lockedOut>>
        /\ \E g \in Tickers : left[g] = 0 /\ left' = [left EXCEPT ![g] = LockoutTicks]
    BY <1>2, <1>12 DEF StartTicker, Idle, service
  <2>2. Doing(c)' = "emitLockedOut"
    BY <1>3, <2>1 DEF CallerFlow
  <2> QED
    BY <1>3, <2>1, <2>2 DEF CallerMoves
<1>13. CASE ZeroAttempts(c)
  BY <1>2, <1>3, <1>13 DEF ZeroAttempts, CallerMoves, CallerFlow
<1>14. CASE ClearLockedOut(c)
  BY <1>2, <1>3, <1>14 DEF ClearLockedOut, CallerMoves, CallerFlow
<1>15. CASE Leave(c)
  BY <1>2, <1>3, <1>15 DEF Leave, CallerMoves, CallerFlow, gate
<1>16. CASE ClearLocked(c)
  BY <1>2, <1>3, <1>16 DEF ClearLocked, CallerMoves, CallerFlow, gate
<1>17. CASE Emit(c)
  <2>1. Return(c) /\ UNCHANGED gate /\ Head(s) \in Events
    BY <1>2, <1>17 DEF Emit, gate, service
  <2>2. Head(s) \in {"emitUnlocked", "emitSuccess", "emitRefused", "emitLockedOut"}
    BY <1>6, <2>1 DEF Events
  <2>3. IF Head(s) = "emitLockedOut" THEN Doing(c)' = "leave"
                                     ELSE Doing(c)' \in {"emitUnlocked", "emitSuccess", "leave"}
    BY <1>2, <1>3, <2>1, <2>2 DEF CallerFlow
  <2> QED
    BY <1>2, <1>3, <2>1, <2>2, <2>3 DEF CallerMoves
<1>18. CASE SetLocked(c) \/ ReadState(c) \/ LockIfUnlocked(c) \/ StartActivation(c)
  BY <1>2, <1>6, <1>18 DEF SetLocked, ReadState, LockIfUnlocked, StartActivation
<1> QED
  BY <1>7, <1>8, <1>9, <1>10, <1>11, <1>12, <1>13, <1>14, <1>15, <1>16, <1>17, <1>18
     DEF Run, Check

\* The steps of a ticker.
LEMMA TickerSteps ==
  ASSUME TypeOK, ThrottledPrograms, NEW g \in Tickers, Run(g)
  PROVE  ThrottledPrograms' /\ TickerMoves(g) /\ OthersWait(g)
<1> DEFINE s == todo[g]
<1>0. /\ g \in Threads /\ g \notin Callers /\ g \notin Commanders
      /\ s \in Seq(Ops) /\ Chained(TickerFlow, s)
  BY ThreadsAssumption DEF Threads, TypeOK, ThrottledPrograms
<1>1. s # <<>>
  BY DEF Run, SetLocked, ClearLocked, ZeroAttempts, ClearLockedOut, Emit, ReadState,
         LockIfUnlocked, StartActivation, Enter, AddAttempt, SetLockedOut, StartTicker, Leave,
         At
<1>2. /\ Tail(s) \in Seq(Ops) /\ Chained(TickerFlow, Tail(s))
      /\ <<Head(s), Upcoming(Tail(s))>> \in TickerFlow
      /\ Doing(g) = Head(s)
      /\ \A op : At(g, op) <=> Head(s) = op
  BY <1>0, <1>1, TailChained DEF Doing, Upcoming, At
<1>3. ASSUME Return(g)
      PROVE  /\ ThrottledPrograms' /\ OthersWait(g)
             /\ <<Doing(g), Doing(g)'>> \in TickerFlow
  <2>1. todo'[g] = Tail(s) /\ \A u \in Threads : u # g => todo'[u] = todo[u]
    BY <1>0, <1>1, <1>3, Returned
  <2>2. ThrottledPrograms' /\ OthersWait(g)
    BY <1>0, <1>2, <2>1, OneProgram
  <2>3. Doing(g)' = Upcoming(Tail(s))
    BY <2>1 DEF Doing, Upcoming
  <2> QED
    BY <1>2, <2>2, <2>3
<1>4. Head(s) \in {"clearLockedOut", "zeroAttempts", "emitTick", "emitReset"}
  BY <1>2 DEF TickerFlow
<1> HIDE DEF s
<1>5. CASE ZeroAttempts(g)
  BY <1>2, <1>3, <1>5 DEF ZeroAttempts, TickerMoves, TickerFlow
<1>6. CASE ClearLockedOut(g)
  BY <1>2, <1>3, <1>6 DEF ClearLockedOut, TickerMoves, TickerFlow
<1>7. CASE Emit(g)
  <2>1. Return(g) /\ UNCHANGED gate /\ Head(s) \in Events
    BY <1>2, <1>7 DEF Emit, gate, service
  <2>2. Head(s) \in {"emitTick", "emitReset"}
    BY <1>4, <2>1 DEF Events
  <2>3. Doing(g)' \in {"emitReset", "end"}
    BY <1>2, <1>3, <2>1, <2>2 DEF TickerFlow
  <2> QED
    BY <1>2, <1>3, <2>1, <2>2, <2>3 DEF TickerMoves
<1> QED
  BY <1>2, <1>4, <1>5, <1>6, <1>7
     DEF Run, SetLocked, ClearLocked, ReadState, LockIfUnlocked, StartActivation, Enter,
         AddAttempt, SetLockedOut, StartTicker, Leave

\* The programs of the commands, of a snapshot and of an expiring ticker.
LEMMA OtherPrograms ==
  /\ \A p \in {<<>>, <<"lockIfUnlocked">>, <<"readState">>, <<"emitLocked">>,
               <<"emitUnlocked">>, LockProgram, LockCommandProgram} :
       p \in Seq(Ops) /\ Chained(CommanderFlow, p)
  /\ ExpireProgram \in Seq(Ops) /\ Chained(TickerFlow, ExpireProgram)
  /\ Upcoming(ExpireProgram) = "clearLockedOut"
  /\ Chained(TickerFlow, <<"emitTick">>) /\ Upcoming(<<"emitTick">>) = "emitTick"
  /\ Chained(CallerFlow, <<"enter">>) /\ Upcoming(<<"enter">>) = "enter"
<1>1. <<>> \in Seq(Ops) /\ Chained(CommanderFlow, <<>>)
  BY EmptySeq DEF Chained
<1>2. \A op \in CommanderOps : <<op>> \in Seq(Ops) /\ Chained(CommanderFlow, <<op>>)
  BY DEF Chained, CommanderFlow, CommanderOps, Ops
<1>3. LockProgram \in Seq(Ops) /\ Chained(CommanderFlow, LockProgram)
  BY DEF Chained, CommanderFlow, CommanderOps, LockProgram, Ops
<1>4. LockCommandProgram \in Seq(Ops) /\ Chained(CommanderFlow, LockCommandProgram)
  BY DEF Chained, CommanderFlow, CommanderOps, LockCommandProgram, Ops
<1>5. /\ ExpireProgram \in Seq(Ops) /\ Chained(TickerFlow, ExpireProgram)
      /\ Upcoming(ExpireProgram) = "clearLockedOut"
  BY DEF Chained, TickerFlow, ExpireProgram, Upcoming, Ops
<1>6. Chained(TickerFlow, <<"emitTick">>) /\ Upcoming(<<"emitTick">>) = "emitTick"
  BY DEF Chained, TickerFlow, Upcoming
<1>7. Chained(CallerFlow, <<"enter">>) /\ Upcoming(<<"enter">>) = "enter"
  BY DEF Chained, CallerFlow, Upcoming
<1> QED
  BY <1>1, <1>2, <1>3, <1>4, <1>5, <1>6, <1>7 DEF CommanderOps

\* No command, and no activation of the lock screen, touches the gate.
LEMMA CommanderSteps ==
  ASSUME PasswordsOnly, TypeOK, ThrottledPrograms, NEW k \in Commanders,
         Run(k) \/ Command(k) \/ Activate(k)
  PROVE  ThrottledPrograms' /\ UNCHANGED gate
         /\ \A u \in Callers \cup Tickers : Doing(u)' = Doing(u)
<1> DEFINE s == todo[k]
<1>0. /\ k \in Threads /\ k \notin Callers /\ k \notin Tickers
      /\ todo \in [Threads -> Seq(Ops)] /\ s \in Seq(Ops) /\ Chained(CommanderFlow, s)
  BY ThreadsAssumption DEF Threads, TypeOK, ThrottledPrograms
<1>1. ASSUME \A u \in Threads : u # k => todo'[u] = todo[u], Chained(CommanderFlow, todo'[k])
      PROVE  ThrottledPrograms' /\ \A u \in Callers \cup Tickers : Doing(u)' = Doing(u)
  <2>1. ThrottledPrograms' /\ OthersWait(k)
    BY <1>0, <1>1, OneProgram
  <2> QED
    BY <1>0, <2>1 DEF OthersWait
<1>2. ASSUME NEW p \in Seq(Ops), Begin(k, p), Chained(CommanderFlow, p)
      PROVE  ThrottledPrograms' /\ \A u \in Callers \cup Tickers : Doing(u)' = Doing(u)
  <2>1. todo'[k] = p /\ \A u \in Threads : u # k => todo'[u] = todo[u]
    BY <1>0, <1>2 DEF Begin
  <2> QED
    BY <1>1, <1>2, <2>1
<1>3. CASE Command(k)
  <2>0. PICK command \in Commands : \E program \in ProgramsOf(command) : Begin(k, program)
    BY <1>3 DEF Command
  <2>1. PICK program \in ProgramsOf(command) : Begin(k, program)
    BY <2>0
  <2>2. command \in {"lock", "power-button", "connect", "restart QML"}
    BY <2>1, LimitsAssumption DEF PasswordsOnly, AllCommands
  <2>3. program \in {<<"lockIfUnlocked">>, <<"readState">>, LockProgram}
    BY <2>1, <2>2, Zenon DEF ProgramsOf
  <2>4. program \in Seq(Ops) /\ Chained(CommanderFlow, program)
    BY <2>3, OtherPrograms
  <2> QED
    BY <1>2, <1>3, <2>1, <2>4 DEF Command, gate, service
<1>4. CASE Activate(k)
  <2>1. CASE ui.locked
    BY <1>0, <1>1, <1>4, <2>1 DEF Activate, gate, service
  <2>2. CASE ~ui.locked
    <3>1. Begin(k, <<"lockIfUnlocked">>) /\ UNCHANGED gate
      BY <1>4, <2>2 DEF Activate, gate, service
    <3>2. <<"lockIfUnlocked">> \in Seq(Ops) /\ Chained(CommanderFlow, <<"lockIfUnlocked">>)
      BY OtherPrograms
    <3> QED
      BY <1>2, <3>1, <3>2
  <2> QED
    BY <2>1, <2>2
<1>5. CASE Run(k)
  <2>1. s # <<>>
    BY <1>5 DEF Run, SetLocked, ClearLocked, ZeroAttempts, ClearLockedOut, Emit, ReadState,
           LockIfUnlocked, StartActivation, Enter, AddAttempt, SetLockedOut, StartTicker,
           Leave, At
  <2>2. /\ Tail(s) \in Seq(Ops) /\ Chained(CommanderFlow, Tail(s))
        /\ <<Head(s), Upcoming(Tail(s))>> \in CommanderFlow
        /\ \A op : At(k, op) <=> Head(s) = op
    BY <1>0, <2>1, TailChained DEF At
  <2>3. Head(s) \in CommanderOps
    BY <2>2 DEF CommanderFlow
  <2>4. ASSUME Return(k)
        PROVE  ThrottledPrograms' /\ \A u \in Callers \cup Tickers : Doing(u)' = Doing(u)
    <3>1. todo'[k] = Tail(s) /\ \A u \in Threads : u # k => todo'[u] = todo[u]
      BY <1>0, <2>1, <2>4, Returned
    <3> QED
      BY <1>1, <2>2, <3>1
  <2>5. ASSUME NEW p \in Seq(Ops), Call(k, p), Chained(CommanderFlow, p),
                      Chained(CommanderFlow, p \o Tail(s))
        PROVE  ThrottledPrograms' /\ \A u \in Callers \cup Tickers : Doing(u)' = Doing(u)
    <3>1. todo'[k] = p \o Tail(s) /\ \A u \in Threads : u # k => todo'[u] = todo[u]
      BY <1>0, <2>1, <2>5, Called
    <3> QED
      BY <1>1, <2>5, <3>1
  <2>6. ASSUME NEW p \in Seq(Ops), Chained(CommanderFlow, p)
        PROVE  Chained(CommanderFlow, p \o Tail(s))
    <3>1. CASE p = <<>>
      BY <2>2, <3>1, ConcatEmptySeq
    <3>2. CASE p # <<>>
      <4>1. Len(p) \in Nat /\ Len(p) > 0
        BY <3>2, EmptySeq, LenProperties
      <4>2. \A i \in 1..Len(p) : p[i] \in CommanderOps
        BY <2>6 DEF Chained, CommanderFlow
      <4>3. \A i \in 1..(Len(p) - 1) : <<p[i], p[i + 1]>> \in CommanderFlow
        BY <4>1, <4>2 DEF CommanderFlow
      <4>4. <<p[Len(p)], Upcoming(Tail(s))>> \in CommanderFlow
        BY <2>2, <4>1, <4>2 DEF CommanderFlow
      <4> QED
        BY <2>2, <4>1, <4>3, <4>4, CallChained
    <3> QED
      BY <3>1, <3>2
  <2> HIDE DEF s
  <2>7. CASE SetLocked(k) \/ Emit(k) \/ StartActivation(k)
    BY <2>4, <2>7 DEF SetLocked, Emit, StartActivation, gate, service
  <2>8. CASE ReadState(k)
    <3>1. PICK p \in {<<"emitLocked">>, <<"emitUnlocked">>} : Call(k, p)
      BY <2>8 DEF ReadState
    <3>2. p \in Seq(Ops) /\ Chained(CommanderFlow, p)
      BY <3>1, OtherPrograms
    <3> QED
      BY <2>5, <2>6, <2>8, <3>1, <3>2 DEF ReadState, gate, service
  <2>9. CASE LockIfUnlocked(k)
    <3>1. PICK p \in {<<>>, LockCommandProgram} : Call(k, p)
      BY <2>9 DEF LockIfUnlocked
    <3>2. p \in Seq(Ops) /\ Chained(CommanderFlow, p)
      BY <3>1, OtherPrograms
    <3> QED
      BY <2>5, <2>6, <2>9, <3>1, <3>2 DEF LockIfUnlocked, gate, service
  <2> QED
    BY <1>5, <2>2, <2>3, <2>7, <2>8, <2>9
       DEF Run, CommanderOps, ClearLocked, ZeroAttempts, ClearLockedOut, Enter, AddAttempt,
           SetLockedOut, StartTicker, Leave
<1> QED
  BY <1>3, <1>4, <1>5

\* What a second does to the threads.
LEMMA SecondSteps ==
  ASSUME TypeOK, ThrottledPrograms, Second
  PROVE  /\ ThrottledPrograms'
         /\ \A c \in Callers : Doing(c)' = Doing(c) /\ Doing(c) \in {"end", "check"}
         /\ \A g \in Tickers :
              /\ Doing(g) = "end"
              /\ Doing(g)' = IF left[g] = 1 THEN "clearLockedOut"
                             ELSE IF left[g] > 0 THEN "emitTick" ELSE "end"
              /\ left'[g] = IF left[g] > 0 THEN left[g] - 1 ELSE 0
<1>0. left \in [Tickers -> 0..LockoutTicks]
  BY DEF TypeOK
<1>1. \A t \in Threads : todo'[t] = IF t \in Tickers /\ left[t] > 0
                                      THEN IF left[t] = 1 THEN ExpireProgram ELSE <<"emitTick">>
                                      ELSE todo[t]
  BY DEF Second
<1>2. \A t \in Threads : Doing(t) \in {"end", "check"}
  BY DEF Second, Settled, AtRest, Waiting, At, Doing, Upcoming
<1>3. ASSUME NEW c \in Callers
      PROVE  todo'[c] = todo[c] /\ Doing(c)' = Doing(c) /\ Doing(c) \in {"end", "check"}
  BY <1>1, <1>2, ThreadsAssumption DEF Threads, Doing
<1>4. ASSUME NEW k \in Commanders
      PROVE  todo'[k] = todo[k]
  BY <1>1, ThreadsAssumption DEF Threads
<1>5. ASSUME NEW g \in Tickers
      PROVE  /\ Doing(g) = "end"
             /\ Doing(g)' = IF left[g] = 1 THEN "clearLockedOut"
                             ELSE IF left[g] > 0 THEN "emitTick" ELSE "end"
             /\ left'[g] = IF left[g] > 0 THEN left[g] - 1 ELSE 0
             /\ Chained(TickerFlow, todo'[g])
  <2>1. g \in Threads /\ todo[g] \in Seq(Ops) /\ Chained(TickerFlow, todo[g])
    BY DEF Threads, TypeOK, ThrottledPrograms
  <2>2. Doing(g) = "end"
    <3>1. CASE todo[g] = <<>>
      BY <3>1 DEF Doing, Upcoming
    <3>2. CASE todo[g] # <<>>
      <4>1. <<Doing(g), Upcoming(Tail(todo[g]))>> \in TickerFlow
        BY <2>1, <3>2, TailChained DEF Doing, Upcoming
      <4> QED
        BY <1>2, <2>1, <4>1 DEF TickerFlow
    <3> QED
      BY <3>1, <3>2
  <2>3. left'[g] = IF left[g] > 0 THEN left[g] - 1 ELSE 0
    BY DEF Second
  <2>4. CASE left[g] = 1
    <3>1. todo'[g] = ExpireProgram
      BY <1>1, <2>1, <2>4
    <3> QED
      BY <2>2, <2>3, <2>4, <3>1, OtherPrograms DEF Doing, Upcoming
  <2>5. CASE left[g] > 1
    <3>0. left[g] > 0 /\ left[g] # 1
      BY <1>0, <2>5
    <3>1. todo'[g] = <<"emitTick">>
      BY <1>1, <2>1, <2>5, <3>0
    <3> QED
      BY <2>2, <2>3, <3>0, <3>1, OtherPrograms DEF Doing, Upcoming
  <2>6. CASE ~(left[g] > 0)
    <3>1. todo'[g] = todo[g]
      BY <1>1, <2>1, <2>6
    <3>2. Doing(g)' = Doing(g)
      BY <3>1 DEF Doing
    <3>3. left[g] # 1
      BY <2>6
    <3> QED
      BY <2>1, <2>2, <2>3, <2>6, <3>1, <3>2, <3>3
  <2>7. left[g] = 1 \/ left[g] > 1 \/ ~(left[g] > 0)
    BY <1>0
  <2> QED
    BY <2>4, <2>5, <2>6, <2>7
<1>6. ThrottledPrograms'
  BY <1>3, <1>4, <1>5 DEF ThrottledPrograms
<1> QED
  BY <1>3, <1>5, <1>6

LEMMA EveryMove ==
  ASSUME PasswordsOnly, IInv, ThrottledPrograms, [Next]_vars
  PROVE  ThrottledPrograms' /\ Moves
<1> USE DEF IInv
<1>1. ASSUME NEW t \in Threads, Run(t) PROVE ThrottledPrograms' /\ Moves
  <2>1. CASE t \in Callers
    BY <1>1, <2>1, CallerSteps DEF Moves
  <2>2. CASE t \in Tickers
    BY <1>1, <2>2, TickerSteps DEF Moves
  <2>3. CASE t \in Commanders
    BY <1>1, <2>3, CommanderSteps DEF Moves
  <2> QED
    BY <2>1, <2>2, <2>3 DEF Threads
<1>2. ASSUME NEW c \in Callers, Check(c) PROVE ThrottledPrograms' /\ Moves
  BY <1>2, CallerSteps DEF Moves
<1>3. ASSUME NEW c \in Callers, TryUnlock(c) PROVE ThrottledPrograms' /\ Moves
  <2>1. /\ c \in Threads /\ c \notin Tickers /\ c \notin Commanders
        /\ todo \in [Threads -> Seq(Ops)]
    BY ThreadsAssumption DEF Threads, TypeOK
  <2>2. /\ todo[c] = <<>> /\ todo'[c] = <<"enter">>
        /\ \A u \in Threads : u # c => todo'[u] = todo[u]
    BY <1>3, <2>1 DEF TryUnlock, Begin, AtRest
  <2>3. ThrottledPrograms' /\ OthersWait(c)
    BY <2>1, <2>2, OneProgram, OtherPrograms
  <2>4. Doing(c) = "end" /\ Doing(c)' = "enter"
    BY <2>2, OtherPrograms DEF Doing, Upcoming
  <2>5. UNCHANGED gate
    BY <1>3 DEF TryUnlock, gate, service
  <2> QED
    BY <2>3, <2>4, <2>5 DEF Moves, CallerMoves
<1>4. ASSUME NEW k \in Commanders, Command(k) \/ Activate(k) PROVE ThrottledPrograms' /\ Moves
  BY <1>4, CommanderSteps DEF Moves
<1>5. CASE ClearTimer \/ FingerprintUnlock \/ UNCHANGED vars
  <2>1. UNCHANGED <<gate, todo>>
    BY <1>5 DEF ClearTimer, FingerprintUnlock, vars, gate, service
  <2> QED
    BY <2>1 DEF Moves, ThrottledPrograms, Doing, gate
<1>6. CASE Second
  BY <1>6, SecondSteps DEF Moves
<1> QED
  BY <1>1, <1>2, <1>3, <1>4, <1>5, <1>6 DEF Next

----------------------------------------------------------------------------
(* The gate stays shut exactly as long as it should.                       *)

\* OneAuthAtATime, told by the next operations.
LEMMA OnePastEntry ==
  ASSUME OneAuthAtATime, NEW c \in Callers, NEW d \in Callers,
         Doing(c) \notin {"end", "enter"}, Doing(d) \notin {"end", "enter"}
  PROVE  c = d
<1>1. Running(c) /\ Running(d)
  BY DEF Doing, Upcoming, Running, AtRest, At
<1> QED
  BY <1>1 DEF OneAuthAtATime

\* GateShutAtLimit, told by the next operations.
LEMMA ShutAtLimit ==
  GateShutAtLimit <=>
    (attempts >= MaxAttempts =>
       \/ lockedOut
       \/ \E c \in Callers : Doing(c) = "setLockedOut"
       \/ \E g \in Tickers : Doing(g) = "zeroAttempts")
  BY DEF GateShutAtLimit, Doing, Upcoming, At

LEMMA ShutAtLimitNext ==
  GateShutAtLimit' <=>
    (attempts' >= MaxAttempts =>
       \/ lockedOut'
       \/ \E c \in Callers : Doing(c)' = "setLockedOut"
       \/ \E g \in Tickers : Doing(g)' = "zeroAttempts")
  BY DEF GateShutAtLimit, Doing, Upcoming, At

LEMMA InitGInv == Init => GInv
<1> SUFFICES ASSUME Init PROVE GInv
  OBVIOUS
<1>1. \A t \in Threads : todo[t] = <<>> /\ Doing(t) = "end"
  BY DEF Init, Doing, Upcoming
<1>2. ThrottledPrograms
  <2>1. \A flow : Chained(flow, <<>>)
    BY EmptySeq DEF Chained
  <2> QED
    BY <1>1, <2>1 DEF ThrottledPrograms, Threads
<1>3. \A g \in Tickers : left[g] = 0
  BY DEF Init
<1>4. attempts = 0 /\ ~lockedOut /\ MaxAttempts \in Nat \ {0}
  BY LimitsAssumption DEF Init
<1> QED
  BY <1>1, <1>2, <1>3, <1>4, ShutAtLimit
     DEF GInv, OnlyReports, OneCountdown, OneOpening, ShutBeforeTicker, Threads

GateInv == OnlyReports /\ OneCountdown /\ OneOpening /\ ShutBeforeTicker /\ GateShutAtLimit

\* What the callers' moves need to know of the types.
LEMMA CallerMovesInv ==
  ASSUME TypeOK, OneAuthAtATime, GateInv,
         NEW c \in Callers, CallerMoves(c), OthersWait(c)
  PROVE  GateInv'
<1>0. /\ c \notin Tickers /\ attempts \in Nat /\ lockedOut \in BOOLEAN
      /\ left \in [Tickers -> 0..LockoutTicks] /\ MaxAttempts \in Nat \ {0}
      /\ LockoutTicks \in Nat \ {0}
  BY ThreadsAssumption, LimitsAssumption DEF TypeOK
<1>1. /\ \A d \in Callers : d # c => Doing(d)' = Doing(d)
      /\ \A g \in Tickers : Doing(g)' = Doing(g)
  BY <1>0 DEF OthersWait
<1>2. \A d \in Callers : Doing(c) \notin {"end", "enter"} /\ d # c => Doing(d) \in {"end", "enter"}
  BY OnePastEntry
<1>3. OnlyReports'
  BY <1>1, <1>2 DEF GateInv, OnlyReports, OneOpening, ShutBeforeTicker, CallerMoves, gate
<1>4. OneCountdown'
  BY <1>0, <1>1, <1>2
  DEF GateInv, OneCountdown, OnlyReports, OneOpening, ShutBeforeTicker, CallerMoves, gate
<1>5. OneOpening'
  BY <1>1, <1>2 DEF GateInv, OneOpening, CallerMoves, gate
<1>6. ShutBeforeTicker'
  BY <1>1, <1>2 DEF GateInv, OnlyReports, ShutBeforeTicker, CallerMoves, gate
<1>7. GateShutAtLimit'
  BY <1>0, <1>1, <1>2, ShutAtLimit, ShutAtLimitNext DEF GateInv, OnlyReports, CallerMoves, gate
<1> QED
  BY <1>3, <1>4, <1>5, <1>6, <1>7 DEF GateInv

LEMMA TickerMovesInv ==
  ASSUME TypeOK, GateInv, NEW g \in Tickers, TickerMoves(g), OthersWait(g)
  PROVE  GateInv'
<1>0. /\ g \notin Callers /\ attempts \in Nat /\ lockedOut \in BOOLEAN
      /\ left \in [Tickers -> 0..LockoutTicks] /\ MaxAttempts \in Nat \ {0}
  BY ThreadsAssumption, LimitsAssumption DEF TypeOK
<1>1. /\ \A h \in Tickers : h # g => Doing(h)' = Doing(h)
      /\ \A c \in Callers : Doing(c)' = Doing(c)
  BY <1>0 DEF OthersWait
<1>3. OnlyReports'
  BY <1>1 DEF GateInv, OnlyReports, TickerMoves, gate
<1>4. OneCountdown'
  BY <1>0, <1>1 DEF GateInv, OneCountdown, OneOpening, TickerMoves, gate
<1>5. OneOpening'
  BY <1>1 DEF GateInv, OneOpening, TickerMoves, gate
<1>6. ShutBeforeTicker'
  BY <1>1 DEF GateInv, OneOpening, ShutBeforeTicker, TickerMoves, gate
<1>7. GateShutAtLimit'
  BY <1>0, <1>1, ShutAtLimit, ShutAtLimitNext DEF GateInv, TickerMoves, gate
<1> QED
  BY <1>3, <1>4, <1>5, <1>6, <1>7 DEF GateInv

LEMMA SecondGate ==
  ASSUME TypeOK, ThrottledPrograms, GateInv, Second
  PROVE  GateInv'
<1>0. /\ attempts \in Nat /\ lockedOut \in BOOLEAN
      /\ left \in [Tickers -> 0..LockoutTicks] /\ MaxAttempts \in Nat \ {0}
      /\ LockoutTicks \in Nat \ {0}
      /\ UNCHANGED <<attempts, lockedOut>>
  BY LimitsAssumption DEF TypeOK, Second, service
<1>1. PICK g \in Tickers : left[g] > 0
  BY DEF Second
<1>2. lockedOut /\ \A h \in Tickers : h # g => left[h] = 0
  BY <1>1 DEF GateInv, OneCountdown
<1>3. \A c \in Callers : Doing(c)' = Doing(c) /\ Doing(c) = "end"
  BY <1>2, SecondSteps DEF GateInv, OnlyReports
<1>4. \A h \in Tickers : h # g => Doing(h)' = "end" /\ left'[h] = 0
  BY <1>2, SecondSteps
<1>5. Doing(g)' = IF left[g] = 1 THEN "clearLockedOut" ELSE "emitTick"
  BY <1>1, SecondSteps
<1>6. left'[g] = left[g] - 1
  BY <1>1, SecondSteps
<1>7. left'[g] > 0 => Doing(g)' # "clearLockedOut"
  BY <1>0, <1>5, <1>6
<1>8. OnlyReports' /\ OneOpening' /\ ShutBeforeTicker'
  BY <1>0, <1>2, <1>3, <1>4 DEF OnlyReports, OneOpening, ShutBeforeTicker
<1>9. OneCountdown'
  BY <1>0, <1>2, <1>3, <1>4, <1>7 DEF OneCountdown
<1>10. GateShutAtLimit'
  BY <1>0, <1>2 DEF GateShutAtLimit
<1> QED
  BY <1>8, <1>9, <1>10 DEF GateInv

LEMMA NextGInv ==
  ASSUME PasswordsOnly, IInv, GInv, [Next]_vars
  PROVE  GInv'
<1>1. TypeOK /\ OneAuthAtATime /\ ThrottledPrograms /\ GateInv
  BY DEF IInv, GInv, GateInv
<1>2. ThrottledPrograms' /\ Moves
  BY <1>1, EveryMove
<1>3. GateInv'
  <2>1. CASE \E c \in Callers : CallerMoves(c) /\ OthersWait(c)
    BY <1>1, <2>1, CallerMovesInv
  <2>2. CASE \E g \in Tickers : TickerMoves(g) /\ OthersWait(g)
    BY <1>1, <2>2, TickerMovesInv
  <2>3. CASE Second
    BY <1>1, <2>3, SecondGate
  <2>4. CASE UNCHANGED gate /\ \A u \in Callers \cup Tickers : Doing(u)' = Doing(u)
    BY <1>1, <2>4, ShutAtLimit, ShutAtLimitNext
       DEF gate, GateInv, OnlyReports, OneCountdown, OneOpening, ShutBeforeTicker
  <2> QED
    BY <1>2, <2>1, <2>2, <2>3, <2>4 DEF Moves
<1> QED
  BY <1>2, <1>3 DEF GInv, GateInv

\* In front of a screen that only passwords unlock, the gate is shut from the attempt
\* that reached the limit until the ticker of that very lockout opens it.
THEOREM GateIsExact ==
  ASSUME PasswordsOnly
  PROVE  Spec => []LockoutExact
<1>1. IInv /\ GInv => LockoutExact
  <2> SUFFICES ASSUME IInv, GInv PROVE LockoutExact
    OBVIOUS
  <2>1. \A h \in Tickers : left[h] \in Nat
    BY DEF IInv, TypeOK
  <2>2. LockoutNotCutShort
    BY <2>1 DEF GInv, OneCountdown, LockoutNotCutShort, Doing, Upcoming, At
  <2> QED
    BY <2>2 DEF GInv, LockoutExact
<1>2. PasswordsOnly /\ IInv /\ GInv /\ [Next]_vars => GInv'
  BY NextGInv
<1>3. Spec => []GInv
  BY <1>2, InitGInv, SpecIInv, PTL DEF Spec
<1> QED
  BY <1>1, <1>3, SpecIInv, PTL

----------------------------------------------------------------------------
(* The service implements the throttle.                                    *)

LongestOf(ticks) ==
  CHOOSE n \in 0..LockoutTicks :
    /\ \A g \in Tickers : ticks[g] <= n
    /\ n = 0 \/ \E g \in Tickers : ticks[g] = n

\* A countdown that is alone is the longest.
LEMMA LongestIs ==
  ASSUME NEW ticks \in [Tickers -> 0..LockoutTicks], NEW n \in 0..LockoutTicks,
         \A g \in Tickers : ticks[g] \in {0, n}, n = 0 \/ \E g \in Tickers : ticks[g] = n
  PROVE  LongestOf(ticks) = n
<1> DEFINE P(m) == /\ \A g \in Tickers : ticks[g] <= m
                   /\ m = 0 \/ \E g \in Tickers : ticks[g] = m
<1>0. LockoutTicks \in Nat
  BY LimitsAssumption
<1>1. P(n)
  <2>1. \A g \in Tickers : ticks[g] <= n
    BY <1>0
  <2> QED
    BY <2>1
<1>2. ASSUME NEW m \in 0..LockoutTicks, P(m) PROVE m = n
  BY <1>0, <1>2
<1>3. LongestOf(ticks) = CHOOSE m \in 0..LockoutTicks : P(m)
  BY DEF LongestOf
<1> HIDE DEF P
<1> QED
  BY <1>1, <1>2, <1>3

\* The mapping, told by the next operations; in a state and in its successor.
Refused == \E c \in Callers : Doing(c) \in {"setLockedOut", "startTicker"}

Reopening == \E g \in Tickers : Doing(g) = "zeroAttempts"

Failures == IF Refused \/ lockedOut THEN MaxAttempts ELSE IF Reopening THEN 0 ELSE attempts

Remaining == IF Refused THEN LockoutTicks ELSE LongestOf(left)

LEMMA Mapping ==
  /\ Shutting <=> Refused
  /\ (\E g \in Tickers : At(g, "zeroAttempts")) <=> Reopening
  /\ Longest = LongestOf(left)
<1>1. Shutting <=> Refused
  BY DEF Shutting, Refused, Doing, Upcoming, At
<1>2. (\E g \in Tickers : At(g, "zeroAttempts")) <=> Reopening
  BY DEF Reopening, Doing, Upcoming, At
<1>3. Longest = LongestOf(left)
  BY DEF Longest, LongestOf
<1> QED
  BY <1>1, <1>2, <1>3

LEMMA MappingNext ==
  /\ Shutting' <=> Refused'
  /\ (\E g \in Tickers : At(g, "zeroAttempts"))' <=> Reopening'
  /\ Longest' = LongestOf(left')
<1>1. Shutting' <=> Refused'
  BY DEF Shutting, Refused, Doing, Upcoming, At
<1>2. (\E g \in Tickers : At(g, "zeroAttempts"))' <=> Reopening'
  BY DEF Reopening, Doing, Upcoming, At
<1>3. Longest' = LongestOf(left')
  BY DEF Longest, LongestOf
<1> QED
  BY <1>1, <1>2, <1>3

\* The steps of the throttle on the mapped state.
Guess ==
  /\ ~(Refused \/ lockedOut)
  /\ \/ Failures' = 0 /\ ~(Refused \/ lockedOut)' /\ Remaining' = Remaining
     \/ /\ Failures + 1 < MaxAttempts /\ Failures' = Failures + 1
        /\ ~(Refused \/ lockedOut)' /\ Remaining' = Remaining
     \/ Failures' = MaxAttempts /\ (Refused \/ lockedOut)' /\ Remaining' = LockoutTicks

Shut ==
  /\ Refused \/ lockedOut
  /\ \/ /\ Remaining > 0 /\ Remaining' = Remaining - 1
        /\ (Refused \/ lockedOut)' /\ Failures' = Failures
     \/ /\ Remaining = 0 /\ Remaining' = Remaining
        /\ ~(Refused \/ lockedOut)' /\ Failures' = 0

Stutter ==
  /\ (Refused \/ lockedOut)' <=> (Refused \/ lockedOut)
  /\ Failures' = Failures
  /\ Remaining' = Remaining

LEMMA ThrottleSteps ==
  Guess \/ Shut \/ Stutter => [Throttle!Next]_(Throttle!vars)
<1>1. ASSUME Guess PROVE Throttle!Next
  BY <1>1, Mapping, MappingNext
     DEF Guess, Failures, Remaining, Throttle!Next, Throttle!Succeed, Throttle!Fail,
         Throttle!FailAndShut
<1>2. ASSUME Shut PROVE Throttle!Next
  BY <1>2, Mapping, MappingNext
     DEF Shut, Failures, Remaining, Throttle!Next, Throttle!Second, Throttle!Open
<1>3. ASSUME Stutter PROVE UNCHANGED Throttle!vars
  BY <1>3, Mapping, MappingNext DEF Stutter, Failures, Remaining, Throttle!vars
<1> QED
  BY <1>1, <1>2, <1>3

LEMMA CallerThrottle ==
  ASSUME TypeOK, TypeOK', OneAuthAtATime, GateInv,
         NEW c \in Callers, CallerMoves(c), OthersWait(c)
  PROVE  Guess \/ Shut \/ Stutter
<1>0. /\ c \notin Tickers /\ attempts \in Nat /\ lockedOut \in BOOLEAN /\ lockedOut' \in BOOLEAN
      /\ left \in [Tickers -> 0..LockoutTicks] /\ left' \in [Tickers -> 0..LockoutTicks]
      /\ MaxAttempts \in Nat \ {0} /\ LockoutTicks \in Nat \ {0}
  BY ThreadsAssumption, LimitsAssumption DEF TypeOK
<1>1. /\ \A d \in Callers : d # c => Doing(d)' = Doing(d)
      /\ \A g \in Tickers : Doing(g)' = Doing(g)
  BY <1>0 DEF OthersWait
<1>2. \A d \in Callers : Doing(c) \notin {"end", "enter"} /\ d # c => Doing(d) \in {"end", "enter"}
  BY OnePastEntry
<1>3. Reopening' <=> Reopening
  BY <1>1 DEF Reopening
<1>4. ASSUME Doing(c) \notin {"end", "enter"}
      PROVE  /\ Refused <=> Doing(c) \in {"setLockedOut", "startTicker"}
             /\ Refused' <=> Doing(c)' \in {"setLockedOut", "startTicker"}
  BY <1>1, <1>2, <1>4 DEF Refused
<1>5. ASSUME lockedOut
      PROVE  Doing(c) \in {"end", "enter", "startTicker", "emitLockedOut", "leave"}
  BY <1>5 DEF GateInv, OnlyReports
<1>6. CASE /\ Doing(c) = "addAttempt" /\ attempts' = attempts + 1
           /\ Doing(c)' = IF attempts + 1 >= MaxAttempts THEN "setLockedOut" ELSE "emitRefused"
           /\ UNCHANGED <<lockedOut, left>>
  <2>1. ~Refused /\ ~lockedOut /\ ~lockedOut'
    BY <1>4, <1>5, <1>6
  <2>2. CASE attempts + 1 >= MaxAttempts
    <3>1. Refused'
      BY <1>4, <1>6, <2>2
    <3> QED
      BY <2>1, <3>1 DEF Guess, Failures, Remaining
  <2>3. CASE ~(attempts + 1 >= MaxAttempts)
    <3>1. ~Refused'
      BY <1>4, <1>6, <2>3
    <3>2. attempts + 1 < MaxAttempts
      BY <1>0, <2>3
    <3>3. Remaining' = Remaining
      BY <1>6, <2>1, <3>1 DEF Remaining
    <3>4. CASE Reopening
      BY <1>3, <2>1, <3>1, <3>3, <3>4 DEF Stutter, Failures
    <3>5. CASE ~Reopening
      BY <1>3, <1>6, <2>1, <3>1, <3>2, <3>3, <3>5 DEF Guess, Failures
    <3> QED
      BY <3>4, <3>5
  <2> QED
    BY <2>2, <2>3
<1>7. CASE /\ Doing(c) = "setLockedOut" /\ Doing(c)' = "startTicker" /\ lockedOut'
           /\ UNCHANGED <<attempts, left>>
  <2>1. Refused /\ Refused'
    BY <1>4, <1>7
  <2> QED
    BY <2>1 DEF Stutter, Failures, Remaining
<1>8. CASE /\ Doing(c) = "startTicker" /\ Doing(c)' = "emitLockedOut"
           /\ \E g \in Tickers : left[g] = 0 /\ left' = [left EXCEPT ![g] = LockoutTicks]
           /\ UNCHANGED <<attempts, lockedOut>>
  <2>1. Refused /\ ~Refused' /\ lockedOut /\ lockedOut'
    BY <1>4, <1>8 DEF GateInv, ShutBeforeTicker
  <2>2. PICK g \in Tickers : left' = [left EXCEPT ![g] = LockoutTicks]
    BY <1>8
  <2>3. \A h \in Tickers : left[h] = 0
    BY <1>0, <1>8 DEF GateInv, OneCountdown
  <2>4. LongestOf(left') = LockoutTicks
    <3>1. \A h \in Tickers : left'[h] \in {0, LockoutTicks}
      BY <1>0, <2>2, <2>3
    <3>2. left'[g] = LockoutTicks
      BY <1>0, <2>2
    <3> QED
      BY <1>0, <3>1, <3>2, LongestIs
  <2> QED
    BY <2>1, <2>4 DEF Stutter, Failures, Remaining
<1>9. CASE /\ Doing(c) = "zeroAttempts" /\ Doing(c)' = "clearLockedOut" /\ attempts' = 0
           /\ UNCHANGED <<lockedOut, left>>
  <2>1. ~Refused /\ ~Refused' /\ ~lockedOut /\ ~lockedOut'
    BY <1>4, <1>5, <1>9
  <2> QED
    BY <1>9, <2>1 DEF Guess, Failures, Remaining
<1>10. CASE /\ Doing(c) = "clearLockedOut" /\ Doing(c)' = "clearLocked" /\ ~lockedOut'
            /\ UNCHANGED <<attempts, left>>
  <2>1. ~Refused /\ ~Refused' /\ ~lockedOut
    BY <1>4, <1>5, <1>10
  <2> QED
    BY <1>3, <1>10, <2>1 DEF Stutter, Failures, Remaining
<1>11. CASE /\ Doing(c) \notin {"setLockedOut", "startTicker"}
            /\ Doing(c)' \notin {"setLockedOut", "startTicker"}
            /\ UNCHANGED gate
  <2>1. Refused' <=> Refused
    BY <1>1, <1>11 DEF Refused
  <2> QED
    BY <1>3, <1>11, <2>1 DEF Stutter, Failures, Remaining, gate
<1> QED
  BY <1>6, <1>7, <1>8, <1>9, <1>10, <1>11 DEF CallerMoves

LEMMA TickerThrottle ==
  ASSUME TypeOK, TypeOK', GateInv, NEW g \in Tickers, TickerMoves(g), OthersWait(g)
  PROVE  Guess \/ Shut \/ Stutter
<1>0. /\ g \notin Callers /\ attempts \in Nat
      /\ left \in [Tickers -> 0..LockoutTicks] /\ left' \in [Tickers -> 0..LockoutTicks]
      /\ LockoutTicks \in Nat \ {0}
  BY ThreadsAssumption, LimitsAssumption DEF TypeOK
<1>1. /\ \A h \in Tickers : h # g => Doing(h)' = Doing(h)
      /\ \A c \in Callers : Doing(c)' = Doing(c)
  BY <1>0 DEF OthersWait
<1>2. Refused' <=> Refused
  BY <1>1 DEF Refused
<1>3. CASE /\ Doing(g) = "clearLockedOut" /\ Doing(g)' = "zeroAttempts" /\ ~lockedOut'
           /\ UNCHANGED <<attempts, left>>
  <2>1. lockedOut /\ ~Refused
    BY <1>3 DEF GateInv, OneOpening, Refused
  <2>2. \A h \in Tickers : left[h] = 0
    BY <1>0, <1>3 DEF GateInv, OneCountdown
  <2>3. LongestOf(left) = 0
    BY <1>0, <2>2, LongestIs
  <2>4. Reopening'
    BY <1>3 DEF Reopening
  <2> QED
    BY <1>2, <1>3, <2>1, <2>3, <2>4 DEF Shut, Failures, Remaining
<1>4. CASE /\ Doing(g) = "zeroAttempts" /\ Doing(g)' = "emitTick" /\ attempts' = 0
           /\ UNCHANGED <<lockedOut, left>>
  <2>1. Reopening
    BY <1>4 DEF Reopening
  <2> QED
    BY <1>2, <1>4, <2>1 DEF Stutter, Failures, Remaining
<1>5. CASE /\ Doing(g) \in {"emitTick", "emitReset"} /\ Doing(g)' \in {"emitReset", "end"}
           /\ UNCHANGED gate
  <2>1. Reopening' <=> Reopening
    BY <1>1, <1>5 DEF Reopening
  <2> QED
    BY <1>2, <1>5, <2>1 DEF Stutter, Failures, Remaining, gate
<1> QED
  BY <1>3, <1>4, <1>5 DEF TickerMoves

LEMMA SecondThrottle ==
  ASSUME TypeOK, TypeOK', ThrottledPrograms, GateInv, Second
  PROVE  Guess \/ Shut \/ Stutter
<1>0. /\ left \in [Tickers -> 0..LockoutTicks] /\ left' \in [Tickers -> 0..LockoutTicks]
      /\ LockoutTicks \in Nat \ {0}
      /\ UNCHANGED <<attempts, lockedOut>>
  BY LimitsAssumption DEF TypeOK, Second, service
<1>1. PICK g \in Tickers : left[g] > 0
  BY DEF Second
<1>2. lockedOut /\ \A h \in Tickers : h # g => left[h] = 0
  BY <1>1 DEF GateInv, OneCountdown
<1>3. ~Refused /\ ~Refused'
  BY SecondSteps DEF Refused
<1>4. left'[g] = left[g] - 1 /\ \A h \in Tickers : h # g => left'[h] = 0
  BY <1>1, <1>2, SecondSteps
<1>5. LongestOf(left) = left[g]
  <2>1. \A h \in Tickers : left[h] \in {0, left[g]}
    BY <1>2
  <2> QED
    BY <1>0, <2>1, LongestIs
<1>6. LongestOf(left') = left'[g]
  <2>1. \A h \in Tickers : left'[h] \in {0, left'[g]}
    BY <1>4
  <2> QED
    BY <1>0, <2>1, LongestIs
<1>7. Remaining = left[g] /\ Remaining' = left[g] - 1 /\ Remaining > 0
  BY <1>1, <1>3, <1>4, <1>5, <1>6 DEF Remaining
<1> QED
  BY <1>0, <1>2, <1>3, <1>7 DEF Shut, Failures

LEMMA NextThrottle ==
  ASSUME PasswordsOnly, IInv, GInv, [Next]_vars
  PROVE  [Throttle!Next]_(Throttle!vars)
<1>1. TypeOK /\ TypeOK' /\ OneAuthAtATime /\ ThrottledPrograms /\ GateInv
  BY NextIInv DEF IInv, GInv, GateInv
<1>2. Moves
  BY <1>1, EveryMove
<1>3. Guess \/ Shut \/ Stutter
  <2>1. CASE \E c \in Callers : CallerMoves(c) /\ OthersWait(c)
    BY <1>1, <2>1, CallerThrottle
  <2>2. CASE \E g \in Tickers : TickerMoves(g) /\ OthersWait(g)
    BY <1>1, <2>2, TickerThrottle
  <2>3. CASE Second
    BY <1>1, <2>3, SecondThrottle
  <2>4. CASE UNCHANGED gate /\ \A u \in Callers \cup Tickers : Doing(u)' = Doing(u)
    BY <2>4 DEF Stutter, Failures, Remaining, Refused, Reopening, gate
  <2> QED
    BY <1>2, <2>1, <2>2, <2>3, <2>4 DEF Moves
<1> QED
  BY <1>3, ThrottleSteps

LEMMA InitThrottle == Init => Throttle!Init
<1> SUFFICES ASSUME Init PROVE Throttle!Init
  OBVIOUS
<1>1. \A t \in Threads : Doing(t) = "end"
  BY DEF Init, Doing, Upcoming
<1>2. ~Refused /\ ~Reopening
  BY <1>1 DEF Refused, Reopening, Threads
<1>3. left \in [Tickers -> 0..LockoutTicks] /\ \A g \in Tickers : left[g] = 0
  BY LimitsAssumption DEF Init
<1>4. LongestOf(left) = 0
  BY <1>3, LimitsAssumption, LongestIs
<1> QED
  BY <1>2, <1>4, Mapping DEF Init, Throttle!Init

\* Someone who can only type passwords gets no more guesses than the throttle allows:
\* every step of every goroutine is a guess, a second, the opening of the gate, or
\* nothing at all to the throttle.
THEOREM ThrottleImplemented ==
  ASSUME PasswordsOnly
  PROVE  Spec => ThrottleSpec
<1>1. PasswordsOnly /\ IInv /\ GInv /\ [Next]_vars => GInv'
  BY NextGInv
<1>2. PasswordsOnly /\ IInv /\ GInv /\ [Next]_vars => [Throttle!Next]_(Throttle!vars)
  BY NextThrottle
<1>3. Spec => Throttle!Init /\ [][Throttle!Next]_(Throttle!vars)
  BY <1>1, <1>2, InitGInv, InitThrottle, SpecIInv, PTL DEF Spec
<1> QED
  BY <1>3 DEF ThrottleSpec, Throttle!Spec

----------------------------------------------------------------------------
(* The lock screen follows the service, as long as operations do not       *)
(* overlap.                                                                *)

OpsOf(s) == {s[i] : i \in 1..Len(s)}

Stores(b) == IF b THEN {"setLocked"} ELSE {"clearLocked"}

Shows(b) == IF b THEN {"emitLocked"} ELSE {"emitUnlocked", "emitSuccess"}

\* The operations that look at the flag or store it, and those that move the lock screen.
Deciding == {"readState", "lockIfUnlocked", "setLocked", "clearLocked"}

Showing == {"emitLocked", "emitUnlocked", "emitSuccess"}

Mute(s) == OpsOf(s) \cap (Deciding \cup Showing) = {}

\* Every store comes before every event.
StoresFirst(s) ==
  \A i, j \in 1..Len(s) : s[i] \in Deciding /\ s[j] \in Showing => i < j

ShowsOnly(s, b) == OpsOf(s) \cap Showing # {} /\ OpsOf(s) \cap Showing \subseteq Shows(b)

\* s stores b and then shows it; s shows b and stores nothing.
Turns(s, b) == StoresFirst(s) /\ OpsOf(s) \cap Deciding = Stores(b) /\ ShowsOnly(s, b)

Tells(s, b) == OpsOf(s) \cap Deciding = {} /\ ShowsOnly(s, b)

\* Run alone from here, s ends with the lock screen shown iff the service is locked.
Settles(s, isLocked, isShown) ==
  \/ Mute(s) /\ isShown = isLocked
  \/ Tells(s, isLocked)
  \/ Turns(s, TRUE)
  \/ Turns(s, FALSE)
  \/ s = <<"readState">>
  \/ s = <<"lockIfUnlocked">> /\ (isLocked => isShown)

\* A check and the count of a failed one are followed by the deferred store only.
AuthAlone(s) == \A op \in {"check", "addAttempt"} : op \in OpsOf(s) => s = <<op, "leave">>

Working(t) == ~AtRest(t) /\ ~Waiting(t)

Users == Callers \cup Commanders

OneWorks == \A t, u \in Users : Working(t) /\ Working(u) => t = u

\* The invariant.
Following ==
  /\ \A t \in Threads : AuthAlone(todo[t])
  /\ \A g \in Tickers : Mute(todo[g])
  /\ ~disturbed =>
       /\ OneWorks
       /\ (\A t \in Users : ~Working(t)) => ui.locked = locked
       /\ \A t \in Users : Working(t) => Settles(todo[t], locked, ui.locked)

----------------------------------------------------------------------------
(* Lemmas about programs.                                                  *)

LEMMA TailOps ==
  ASSUME NEW s \in Seq(Ops), s # <<>>
  PROVE  /\ Tail(s) \in Seq(Ops)
         /\ OpsOf(s) = {Head(s)} \cup OpsOf(Tail(s))
         /\ StoresFirst(s) => StoresFirst(Tail(s))
         /\ StoresFirst(s) /\ Head(s) \in Showing => OpsOf(s) \cap Deciding = {}
<1> DEFINE r == Tail(s)
<1>1. /\ Len(s) \in Nat /\ Len(s) > 0
      /\ Head(s) = s[1]
      /\ r \in Seq(Ops)
      /\ Len(r) = Len(s) - 1
      /\ \A i \in 1..Len(r) : r[i] = s[i + 1]
  BY HeadTailProperties, EmptySeq, LenProperties
<1> HIDE DEF r
<1>2. OpsOf(s) = {Head(s)} \cup OpsOf(r)
  <2>1. ASSUME NEW i \in 1..Len(s)
        PROVE  s[i] = Head(s) \/ \E j \in 1..Len(r) : s[i] = r[j]
    <3>1. CASE i = 1
      BY <1>1, <3>1
    <3>2. CASE i # 1
      <4>1. i - 1 \in 1..Len(r) /\ (i - 1) + 1 = i
        BY <1>1, <3>2
      <4> QED
        BY <1>1, <4>1
    <3> QED
      BY <3>1, <3>2
  <2>2. \A j \in 1..Len(r) : j + 1 \in 1..Len(s) /\ r[j] = s[j + 1]
    BY <1>1
  <2>3. 1 \in 1..Len(s)
    BY <1>1
  <2>4. \A o \in OpsOf(s) : o \in {Head(s)} \cup OpsOf(r)
    BY <2>1 DEF OpsOf
  <2>5. Head(s) \in OpsOf(s) /\ \A o \in OpsOf(r) : o \in OpsOf(s)
    BY <1>1, <2>2, <2>3 DEF OpsOf
  <2> QED
    BY <2>4, <2>5
<1>3. StoresFirst(s) => StoresFirst(r)
  <2> SUFFICES ASSUME StoresFirst(s), NEW i \in 1..Len(r), NEW j \in 1..Len(r),
                      r[i] \in Deciding, r[j] \in Showing
               PROVE  i < j
    BY DEF StoresFirst
  <2>1. /\ i + 1 \in 1..Len(s) /\ j + 1 \in 1..Len(s)
        /\ s[i + 1] = r[i] /\ s[j + 1] = r[j]
    BY <1>1
  <2>2. i + 1 < j + 1
    BY <2>1 DEF StoresFirst
  <2> QED
    BY <2>2
<1>4. ASSUME StoresFirst(s), Head(s) \in Showing
      PROVE  OpsOf(s) \cap Deciding = {}
  <2>1. 1 \in 1..Len(s) /\ s[1] \in Showing
    BY <1>1, <1>4
  <2>2. \A i \in 1..Len(s) : s[i] \notin Deciding
    <3> SUFFICES ASSUME NEW i \in 1..Len(s), s[i] \in Deciding
                 PROVE  FALSE
      OBVIOUS
    <3>1. i < 1
      BY <1>4, <2>1 DEF StoresFirst
    <3> QED
      BY <3>1
  <2> QED
    BY <2>2 DEF OpsOf
<1> QED
  BY <1>1, <1>2, <1>3, <1>4 DEF r

LEMMA ConcatOps ==
  ASSUME NEW p \in Seq(Ops), NEW r \in Seq(Ops)
  PROVE  /\ p \o r \in Seq(Ops)
         /\ OpsOf(p \o r) = OpsOf(p) \cup OpsOf(r)
         /\ StoresFirst(p) /\ Mute(r) => StoresFirst(p \o r)
         /\ Mute(p) /\ StoresFirst(r) => StoresFirst(p \o r)
<1> DEFINE q == p \o r
<1>1. /\ q \in Seq(Ops)
      /\ Len(p) \in Nat /\ Len(r) \in Nat
      /\ Len(q) = Len(p) + Len(r)
      /\ \A i \in 1..Len(p) : q[i] = p[i]
      /\ \A i \in (Len(p) + 1)..(Len(p) + Len(r)) : q[i] = r[i - Len(p)]
  BY ConcatProperties, LenProperties
<1> HIDE DEF q
<1>2. ASSUME NEW i \in 1..Len(q)
      PROVE  \/ i \in 1..Len(p) /\ q[i] = p[i]
             \/ i - Len(p) \in 1..Len(r) /\ q[i] = r[i - Len(p)]
  BY <1>1
<1>3. OpsOf(q) = OpsOf(p) \cup OpsOf(r)
  <2>1. \A i \in 1..Len(p) : i \in 1..Len(q) /\ q[i] = p[i]
    BY <1>1
  <2>2. ASSUME NEW i \in 1..Len(r)
        PROVE  i + Len(p) \in 1..Len(q) /\ q[i + Len(p)] = r[i]
    <3>1. /\ i + Len(p) \in (Len(p) + 1)..(Len(p) + Len(r))
          /\ i + Len(p) \in 1..Len(q)
          /\ (i + Len(p)) - Len(p) = i
      BY <1>1
    <3>2. q[i + Len(p)] = r[(i + Len(p)) - Len(p)]
      BY <1>1, <3>1
    <3> QED
      BY <3>1, <3>2
  <2>3. \A o \in OpsOf(q) : o \in OpsOf(p) \cup OpsOf(r)
    BY <1>2 DEF OpsOf
  <2>4. (\A o \in OpsOf(p) : o \in OpsOf(q)) /\ \A o \in OpsOf(r) : o \in OpsOf(q)
    BY <2>1, <2>2 DEF OpsOf
  <2> QED
    BY <2>3, <2>4
<1>4. ASSUME StoresFirst(p), Mute(r)
      PROVE  StoresFirst(q)
  <2> SUFFICES ASSUME NEW i \in 1..Len(q), NEW j \in 1..Len(q),
                      q[i] \in Deciding, q[j] \in Showing
               PROVE  i < j
    BY DEF StoresFirst
  <2>1. \A k \in 1..Len(r) : r[k] \notin Deciding /\ r[k] \notin Showing
    BY <1>4 DEF Mute, OpsOf
  <2>2. i \in 1..Len(p) /\ q[i] = p[i] /\ j \in 1..Len(p) /\ q[j] = p[j]
    BY <1>2, <2>1
  <2> QED
    BY <1>4, <2>2 DEF StoresFirst
<1>5. ASSUME Mute(p), StoresFirst(r)
      PROVE  StoresFirst(q)
  <2> SUFFICES ASSUME NEW i \in 1..Len(q), NEW j \in 1..Len(q),
                      q[i] \in Deciding, q[j] \in Showing
               PROVE  i < j
    BY DEF StoresFirst
  <2>1. \A k \in 1..Len(p) : p[k] \notin Deciding /\ p[k] \notin Showing
    BY <1>5 DEF Mute, OpsOf
  <2>2. /\ i - Len(p) \in 1..Len(r) /\ q[i] = r[i - Len(p)]
        /\ j - Len(p) \in 1..Len(r) /\ q[j] = r[j - Len(p)]
    BY <1>2, <2>1
  <2>3. i - Len(p) < j - Len(p)
    BY <1>5, <2>2 DEF StoresFirst
  <2> QED
    BY <1>1, <2>3
<1> QED
  BY <1>1, <1>3, <1>4, <1>5 DEF q

\* What is left of a program that settles still does, once its first operation is done.
LEMMA TailSettles ==
  ASSUME NEW s \in Seq(Ops), s # <<>>, NEW lk \in BOOLEAN, NEW sh \in BOOLEAN,
         Settles(s, lk, sh)
  PROVE  /\ Head(s) \notin Deciding \cup Showing => Settles(Tail(s), lk, sh)
         /\ \A b \in BOOLEAN : Head(s) \in Stores(b) => Settles(Tail(s), b, sh)
         /\ \A b \in BOOLEAN : Head(s) \in Shows(b) => Settles(Tail(s), lk, b)
<1> DEFINE r == Tail(s)
<1>1. /\ r \in Seq(Ops)
      /\ OpsOf(s) = {Head(s)} \cup OpsOf(r)
      /\ StoresFirst(s) => StoresFirst(r)
      /\ StoresFirst(s) /\ Head(s) \in Showing => OpsOf(s) \cap Deciding = {}
  BY TailOps
<1>2. ASSUME NEW o, s = <<o>>
      PROVE  Head(s) = o
  BY <1>2
<1> HIDE DEF r
<1>3. ASSUME Head(s) \notin Deciding \cup Showing
      PROVE  Settles(r, lk, sh)
  <2>1. OpsOf(r) \cap Deciding = OpsOf(s) \cap Deciding
        /\ OpsOf(r) \cap Showing = OpsOf(s) \cap Showing
    BY <1>1, <1>3
  <2>2. s # <<"readState">> /\ s # <<"lockIfUnlocked">>
    BY <1>2, <1>3 DEF Deciding
  <2>3. Mute(s) => Mute(r)
    BY <1>1 DEF Mute
  <2>4. \A b \in BOOLEAN : (Tells(s, b) => Tells(r, b)) /\ (Turns(s, b) => Turns(r, b))
    BY <1>1, <2>1 DEF Tells, Turns, ShowsOnly
  <2> QED
    BY <2>2, <2>3, <2>4 DEF Settles
<1>4. ASSUME NEW b \in BOOLEAN, Head(s) \in Stores(b)
      PROVE  Settles(r, b, sh)
  <2>1. Head(s) \in Deciding /\ Head(s) \notin Showing
        /\ Head(s) # "readState" /\ Head(s) # "lockIfUnlocked" /\ Head(s) \notin Stores(~b)
    BY <1>4 DEF Stores, Deciding, Showing
  <2>2. Turns(s, b)
    <3>1. s # <<"readState">> /\ s # <<"lockIfUnlocked">>
      BY <1>2, <2>1
    <3>2. ~Mute(s) /\ ~Tells(s, lk) /\ ~Turns(s, ~b)
      BY <1>1, <2>1 DEF Mute, Tells, Turns
    <3> QED
      BY <3>1, <3>2 DEF Settles
  <2>3. /\ StoresFirst(r) /\ ShowsOnly(r, b)
        /\ OpsOf(r) \cap Deciding \subseteq Stores(b)
    BY <1>1, <2>1, <2>2 DEF Turns, ShowsOnly
  <2>4. OpsOf(r) \cap Deciding = {} \/ OpsOf(r) \cap Deciding = Stores(b)
    BY <2>3 DEF Stores
  <2> QED
    BY <2>3, <2>4 DEF Settles, Tells, Turns
<1>5. ASSUME NEW b \in BOOLEAN, Head(s) \in Shows(b)
      PROVE  Settles(r, lk, b)
  <2>1. Head(s) \notin Deciding /\ Head(s) \in Showing /\ Head(s) \notin Shows(~b)
    BY <1>5 DEF Shows, Deciding, Showing
  <2>2. Tells(s, lk)
    <3>1. s # <<"readState">> /\ s # <<"lockIfUnlocked">>
      BY <1>2, <2>1 DEF Deciding
    <3>2. ~Mute(s)
      BY <1>1, <2>1 DEF Mute
    <3>3. \A c \in BOOLEAN : Stores(c) # {}
      BY DEF Stores
    <3>4. ~Turns(s, TRUE) /\ ~Turns(s, FALSE)
      BY <1>1, <2>1, <3>3 DEF Turns
    <3> QED
      BY <3>1, <3>2, <3>4 DEF Settles
  <2>3. b = lk
    BY <1>1, <2>1, <2>2 DEF Tells, ShowsOnly
  <2>4. OpsOf(r) \cap Deciding = {} /\ OpsOf(r) \cap Showing \subseteq Shows(lk)
    BY <1>1, <2>2 DEF Tells, ShowsOnly
  <2>5. CASE OpsOf(r) \cap Showing = {}
    BY <2>3, <2>4, <2>5 DEF Settles, Mute
  <2>6. CASE OpsOf(r) \cap Showing # {}
    BY <2>4, <2>6 DEF Settles, Tells, ShowsOnly
  <2> QED
    BY <2>5, <2>6
<1> QED
  BY <1>3, <1>4, <1>5 DEF r

\* A program that asks for the flag does nothing else.
LEMMA AsksAlone ==
  ASSUME NEW s \in Seq(Ops), s # <<>>, Head(s) \in {"readState", "lockIfUnlocked"},
         NEW lk \in BOOLEAN, NEW sh \in BOOLEAN, Settles(s, lk, sh)
  PROVE  s = <<Head(s)>> /\ (Head(s) = "lockIfUnlocked" => (lk => sh))
<1>1. Head(s) \in OpsOf(s) \cap Deciding
  BY TailOps DEF Deciding
<1>2. ~Mute(s) /\ ~Tells(s, lk) /\ ~Turns(s, TRUE) /\ ~Turns(s, FALSE)
  BY <1>1 DEF Mute, Tells, Turns, Stores
<1>3. CASE s = <<"readState">>
  <2>1. Head(s) = "readState"
    BY <1>3
  <2> QED
    BY <1>3, <2>1
<1>4. CASE s = <<"lockIfUnlocked">> /\ (lk => sh)
  <2>1. Head(s) = "lockIfUnlocked"
    BY <1>4
  <2> QED
    BY <1>4, <2>1
<1> QED
  BY <1>2, <1>3, <1>4 DEF Settles

\* Neither a mute callee nor a mute rest changes what a program settles.
LEMMA ConcatSettles ==
  ASSUME NEW p \in Seq(Ops), NEW r \in Seq(Ops), NEW lk \in BOOLEAN, NEW sh \in BOOLEAN
  PROVE  /\ Mute(p) /\ Mute(r) => Mute(p \o r)
         /\ Mute(p) /\ Settles(r, lk, sh) /\ r # <<"readState">> /\ r # <<"lockIfUnlocked">>
              => Settles(p \o r, lk, sh)
         /\ \A b \in BOOLEAN : Turns(p, b) /\ Mute(r) => Settles(p \o r, lk, sh)
<1> DEFINE q == p \o r
<1>1. /\ q \in Seq(Ops)
      /\ OpsOf(q) = OpsOf(p) \cup OpsOf(r)
      /\ StoresFirst(p) /\ Mute(r) => StoresFirst(q)
      /\ Mute(p) /\ StoresFirst(r) => StoresFirst(q)
  BY ConcatOps
<1> HIDE DEF q
<1>2. Mute(p) /\ Mute(r) => Mute(q)
  BY <1>1 DEF Mute
<1>3. ASSUME Mute(p)
      PROVE  \A b \in BOOLEAN : (Tells(r, b) => Tells(q, b)) /\ (Turns(r, b) => Turns(q, b))
  <2>1. OpsOf(q) \cap Deciding = OpsOf(r) \cap Deciding
        /\ OpsOf(q) \cap Showing = OpsOf(r) \cap Showing
    BY <1>1, <1>3 DEF Mute
  <2> QED
    BY <1>1, <1>3, <2>1 DEF Tells, Turns, ShowsOnly
<1>4. ASSUME Mute(r), NEW b \in BOOLEAN, Turns(p, b)
      PROVE  Turns(q, b)
  <2>1. OpsOf(q) \cap Deciding = OpsOf(p) \cap Deciding
        /\ OpsOf(q) \cap Showing = OpsOf(p) \cap Showing
    BY <1>1, <1>4 DEF Mute
  <2> QED
    BY <1>1, <1>4, <2>1 DEF Turns, ShowsOnly
<1> QED
  BY <1>2, <1>3, <1>4 DEF Settles, q

\* What the programs store and show.
LEMMA ProgramsSettle ==
  /\ \A p \in {<<>>, <<"enter">>, <<"check", "leave">>, <<"leave">>, <<"addAttempt">>,
               <<"emitRefused">>, <<"emitTick">>, LockoutProgram, ExpireProgram} :
       p \in Seq(Ops) /\ Mute(p)
  /\ \A p \in {LockProgram, LockCommandProgram} : p \in Seq(Ops) /\ Turns(p, TRUE)
  /\ \A p \in {UnlockProgram, TryAutoUnlockProgram, LockWithAutoUnlockProgram} :
       p \in Seq(Ops) /\ Turns(p, FALSE)
  /\ <<"emitLocked">> \in Seq(Ops) /\ Tells(<<"emitLocked">>, TRUE)
  /\ <<"emitUnlocked">> \in Seq(Ops) /\ Tells(<<"emitUnlocked">>, FALSE)
<1> USE DEF Ops, Mute, Turns, Tells, ShowsOnly, StoresFirst, OpsOf, Deciding, Showing,
            Stores, Shows
<1>1. \A o \in {"enter", "leave", "addAttempt", "emitRefused", "emitTick"} :
        <<o>> \in Seq(Ops) /\ Mute(<<o>>)
  OBVIOUS
<1>0. <<>> \in Seq(Ops) /\ Mute(<<>>)
  OBVIOUS
<1>11. <<"check", "leave">> \in Seq(Ops) /\ Mute(<<"check", "leave">>)
  OBVIOUS
<1>2. LockoutProgram \in Seq(Ops) /\ Mute(LockoutProgram)
  BY DEF LockoutProgram
<1>3. ExpireProgram \in Seq(Ops) /\ Mute(ExpireProgram)
  BY DEF ExpireProgram
<1>4. LockProgram \in Seq(Ops) /\ Turns(LockProgram, TRUE)
  BY DEF LockProgram
<1>5. LockCommandProgram \in Seq(Ops) /\ Turns(LockCommandProgram, TRUE)
  BY DEF LockCommandProgram
<1>6. UnlockProgram \in Seq(Ops) /\ Turns(UnlockProgram, FALSE)
  BY DEF UnlockProgram
<1>7. TryAutoUnlockProgram \in Seq(Ops) /\ Turns(TryAutoUnlockProgram, FALSE)
  BY DEF TryAutoUnlockProgram
<1>8. LockWithAutoUnlockProgram \in Seq(Ops) /\ Turns(LockWithAutoUnlockProgram, FALSE)
  BY DEF LockWithAutoUnlockProgram
<1>9. <<"emitLocked">> \in Seq(Ops) /\ Tells(<<"emitLocked">>, TRUE)
  OBVIOUS
<1>10. <<"emitUnlocked">> \in Seq(Ops) /\ Tells(<<"emitUnlocked">>, FALSE)
  OBVIOUS
<1> HIDE DEF Mute, Turns, Tells
<1> QED
  BY <1>0, <1>1, <1>2, <1>3, <1>4, <1>5, <1>6, <1>7, <1>8, <1>9, <1>10, <1>11

\* Only the entry of Authenticate checks anything, and only a failed check is counted.
NoAuth(s) == "check" \notin OpsOf(s) /\ "addAttempt" \notin OpsOf(s)

LEMMA ProgramsWithoutAuth ==
  \A p \in {LockProgram, LockCommandProgram, UnlockProgram, TryAutoUnlockProgram,
            LockWithAutoUnlockProgram, LockoutProgram, ExpireProgram, <<>>, <<"enter">>,
            <<"emitRefused">>, <<"emitTick">>, <<"emitLocked">>, <<"emitUnlocked">>,
            <<"readState">>, <<"lockIfUnlocked">>} : NoAuth(p)
<1> USE DEF OpsOf, NoAuth
<1>1. \A o \in {"enter", "emitRefused", "emitTick", "emitLocked", "emitUnlocked",
                "readState", "lockIfUnlocked"} : NoAuth(<<o>>)
  OBVIOUS
<1>2. NoAuth(<<>>)
  OBVIOUS
<1>3. NoAuth(LockProgram) /\ NoAuth(LockCommandProgram)
  BY DEF LockProgram, LockCommandProgram
<1>4. NoAuth(UnlockProgram) /\ NoAuth(TryAutoUnlockProgram)
  BY DEF UnlockProgram, TryAutoUnlockProgram
<1>5. NoAuth(LockWithAutoUnlockProgram)
  BY DEF LockWithAutoUnlockProgram
<1>6. NoAuth(LockoutProgram) /\ NoAuth(ExpireProgram)
  BY DEF LockoutProgram, ExpireProgram
<1> HIDE DEF NoAuth
<1> QED
  BY <1>1, <1>2, <1>3, <1>4, <1>5, <1>6

LEMMA AuthPrograms ==
  AuthAlone(<<"check", "leave">>) /\ AuthAlone(<<"addAttempt", "leave">>)
  BY DEF AuthAlone, OpsOf

\* A thread that has returned from its check, or called a program, is past the check.
LEMMA PastAuth ==
  ASSUME NEW s \in Seq(Ops), s # <<>>, AuthAlone(s)
  PROVE  /\ NoAuth(Tail(s))
         /\ \A p \in Seq(Ops) : NoAuth(p) => NoAuth(p \o Tail(s))
<1>1. Tail(s) \in Seq(Ops) /\ OpsOf(s) = {Head(s)} \cup OpsOf(Tail(s))
  BY TailOps
<1>2. ASSUME NEW op \in {"check", "addAttempt"}, op \in OpsOf(Tail(s))
      PROVE  FALSE
  <2>1. s = <<op, "leave">>
    BY <1>1, <1>2 DEF AuthAlone
  <2>2. Tail(s) = <<"leave">> /\ \A i \in 1..Len(<<"leave">>) : <<"leave">>[i] = "leave"
    BY <2>1
  <2>3. \A i \in 1..Len(Tail(s)) : Tail(s)[i] = "leave"
    BY <2>2
  <2> QED
    BY <1>2, <2>3 DEF OpsOf
<1>3. NoAuth(Tail(s))
  BY <1>2 DEF NoAuth
<1>4. ASSUME NEW p \in Seq(Ops), NoAuth(p)
      PROVE  NoAuth(p \o Tail(s))
  <2>1. OpsOf(p \o Tail(s)) = OpsOf(p) \cup OpsOf(Tail(s))
    BY <1>1, ConcatOps
  <2> QED
    BY <1>3, <1>4, <2>1 DEF NoAuth
<1> QED
  BY <1>3, <1>4

----------------------------------------------------------------------------
(* Steps.                                                                  *)

\* The program of t goes on, and brings flag and screen together if it would have.
GoesOn(t) ==
  /\ \A u \in Threads : u # t => todo'[u] = todo[u]
  /\ AuthAlone(todo'[t])
  /\ Mute(todo[t]) => /\ Mute(todo'[t])
                      /\ locked' = locked /\ ui'.locked = ui.locked
  /\ Settles(todo[t], locked, ui.locked) => Settles(todo'[t], locked', ui'.locked)

\* A thread returns from an operation that neither stores nor shows.
LEMMA ReturnGoesOn ==
  ASSUME TypeOK, NEW t \in Threads, AuthAlone(todo[t]), todo[t] # <<>>, Return(t),
         Head(todo[t]) \notin Deciding \cup Showing,
         locked' = locked, ui'.locked = ui.locked
  PROVE  GoesOn(t)
<1>1. todo[t] \in Seq(Ops) /\ locked \in BOOLEAN /\ ui.locked \in BOOLEAN
  BY DEF TypeOK, UiState
<1>2. todo'[t] = Tail(todo[t]) /\ \A u \in Threads : u # t => todo'[u] = todo[u]
  BY Returned
<1>3. AuthAlone(todo'[t])
  BY <1>1, <1>2, PastAuth DEF AuthAlone, NoAuth
<1>4. Mute(todo[t]) => Mute(todo'[t])
  BY <1>1, <1>2, TailOps DEF Mute
<1>5. Settles(todo[t], locked, ui.locked) => Settles(todo'[t], locked, ui.locked)
  BY <1>1, <1>2, TailSettles
<1> QED
  BY <1>2, <1>3, <1>4, <1>5 DEF GoesOn

\* A thread calls a program that neither stores nor shows.
LEMMA CallGoesOn ==
  ASSUME TypeOK, NEW t \in Threads, AuthAlone(todo[t]), todo[t] # <<>>,
         NEW p \in Seq(Ops), Mute(p), Call(t, p),
         AuthAlone(p \o Tail(todo[t])),
         Head(todo[t]) \notin Deciding \cup Showing,
         Tail(todo[t]) # <<"readState">>, Tail(todo[t]) # <<"lockIfUnlocked">>,
         locked' = locked, ui'.locked = ui.locked
  PROVE  GoesOn(t)
<1>1. todo[t] \in Seq(Ops) /\ locked \in BOOLEAN /\ ui.locked \in BOOLEAN
  BY DEF TypeOK, UiState
<1>2. /\ todo'[t] = p \o Tail(todo[t]) /\ Tail(todo[t]) \in Seq(Ops)
      /\ \A u \in Threads : u # t => todo'[u] = todo[u]
  BY Called
<1>3. AuthAlone(todo'[t])
  BY <1>2
<1>4. Mute(todo[t]) => Mute(Tail(todo[t]))
  BY <1>1, TailOps DEF Mute
<1>5. Mute(todo[t]) => Mute(todo'[t])
  BY <1>2, <1>4, ConcatSettles
<1>6. Settles(todo[t], locked, ui.locked) => Settles(Tail(todo[t]), locked, ui.locked)
  BY <1>1, TailSettles
<1>7. Settles(todo[t], locked, ui.locked) => Settles(todo'[t], locked, ui.locked)
  BY <1>1, <1>2, <1>6, ConcatSettles
<1> QED
  BY <1>2, <1>3, <1>5, <1>7 DEF GoesOn

\* An operation of any thread but a check.
LEMMA RunGoesOn ==
  ASSUME IInv, NEW t \in Threads, AuthAlone(todo[t]), Run(t)
  PROVE  GoesOn(t) /\ todo[t] # <<>> /\ Head(todo[t]) # "check"
<1>0. /\ TypeOK /\ todo[t] \in Seq(Ops)
      /\ locked \in BOOLEAN /\ ui \in UiState /\ ui.locked \in BOOLEAN
  BY DEF IInv, TypeOK, UiState
<1>1. ASSUME SetLocked(t) \/ ClearLocked(t)
      PROVE  GoesOn(t) /\ todo[t] # <<>> /\ Head(todo[t]) # "check"
  <2>1. PICK b \in BOOLEAN : /\ todo[t] # <<>> /\ Head(todo[t]) \in Stores(b)
                             /\ locked' = b
    BY <1>1 DEF SetLocked, ClearLocked, At, Stores
  <2>2. Return(t) /\ ui' = ui
    BY <1>1 DEF SetLocked, ClearLocked
  <2>3. /\ todo'[t] = Tail(todo[t])
        /\ \A u \in Threads : u # t => todo'[u] = todo[u]
    BY <1>0, <2>1, <2>2, Returned
  <2>4. Head(todo[t]) \in Deciding /\ Head(todo[t]) # "check"
    BY <2>1 DEF Stores, Deciding
  <2>5. ~Mute(todo[t])
    BY <1>0, <2>1, <2>4, TailOps DEF Mute
  <2>6. AuthAlone(todo'[t])
    BY <1>0, <2>1, <2>3, PastAuth DEF AuthAlone, NoAuth
  <2>7. Settles(todo[t], locked, ui.locked) => Settles(todo'[t], locked', ui'.locked)
    BY <1>0, <2>1, <2>2, <2>3, TailSettles
  <2> QED
    BY <2>1, <2>3, <2>4, <2>5, <2>6, <2>7 DEF GoesOn
<1>2. ASSUME NEW op \in Showing, At(t, op), ui' = Received(t, op), Return(t), UNCHANGED locked
      PROVE  GoesOn(t) /\ todo[t] # <<>> /\ Head(todo[t]) # "check"
  <2>1. PICK b \in BOOLEAN : Head(todo[t]) \in Shows(b) /\ ui'.locked = b
    <3>1. CASE op = "emitLocked"
      <4>1. ui' = UiSetLocked(ui, TRUE)
        BY <1>2, <3>1, Zenon DEF Received
      <4>2. ui'.locked = TRUE
        BY <1>0, <4>1 DEF UiSetLocked, UiReset, UiState
      <4> QED
        BY <1>2, <3>1, <4>2 DEF At, Shows
    <3>2. CASE op = "emitUnlocked"
      <4>1. ui' = UiSetLocked(ui, FALSE)
        BY <1>2, <3>2, Zenon DEF Received
      <4>2. ui'.locked = FALSE
        BY <1>0, <4>1 DEF UiSetLocked, UiState
      <4> QED
        BY <1>2, <3>2, <4>2 DEF At, Shows
    <3>3. CASE op = "emitSuccess"
      <4>1. ui' = UiUnlocked(ui)
        BY <1>2, <3>3, Zenon DEF Received
      <4>2. ui'.locked = FALSE
        BY <1>0, <4>1 DEF UiUnlocked, UiReset, UiState
      <4> QED
        BY <1>2, <3>3, <4>2 DEF At, Shows
    <3> QED
      BY <3>1, <3>2, <3>3 DEF Showing
  <2>2. todo[t] # <<>> /\ Head(todo[t]) = op
    BY <1>2 DEF At
  <2>3. /\ todo'[t] = Tail(todo[t])
        /\ \A u \in Threads : u # t => todo'[u] = todo[u]
    BY <1>0, <1>2, <2>2, Returned
  <2>4. Head(todo[t]) # "check"
    BY <2>2 DEF Showing
  <2>5. ~Mute(todo[t])
    BY <1>0, <2>2, TailOps DEF Mute
  <2>6. AuthAlone(todo'[t])
    BY <1>0, <2>2, <2>3, PastAuth DEF AuthAlone, NoAuth
  <2>7. Settles(todo[t], locked, ui.locked) => Settles(todo'[t], locked', ui'.locked)
    BY <1>0, <1>2, <2>1, <2>2, <2>3, TailSettles
  <2> QED
    BY <2>2, <2>3, <2>4, <2>5, <2>6, <2>7 DEF GoesOn
<1>3. ASSUME NEW op, At(t, op), op \notin Deciding \cup Showing \cup {"check"}, Return(t),
             UNCHANGED locked, ui'.locked = ui.locked
      PROVE  GoesOn(t) /\ todo[t] # <<>> /\ Head(todo[t]) # "check"
  BY <1>0, <1>3, ReturnGoesOn DEF At
<1>4. ASSUME Emit(t)
      PROVE  GoesOn(t) /\ todo[t] # <<>> /\ Head(todo[t]) # "check"
  <2>1. PICK op \in Events : At(t, op) /\ ui' = Received(t, op)
    BY <1>4 DEF Emit
  <2>2. Return(t) /\ UNCHANGED locked
    BY <1>4 DEF Emit, service
  <2>3. CASE op \in Showing
    BY <1>2, <2>1, <2>2, <2>3
  <2>4. CASE op \notin Showing
    <3>1. \E o \in BOOLEAN, n \in Nat : ui' = UiRefused(ui, o) \/ ui' = UiTick(ui, left[t])
      <4>1. ui' \in {UiRefused(ui, FALSE), UiRefused(ui, TRUE), UiTick(ui, left[t])}
        BY <2>1, <2>4, Zenon DEF Received, Events, Showing
      <4> QED
        BY <4>1
    <3>2. ui'.locked = ui.locked
      BY <1>0, <3>1 DEF UiRefused, UiTick, UiState
    <3>3. op \notin Deciding \cup Showing \cup {"check"}
      BY <2>4 DEF Events, Deciding, Showing
    <3> QED
      BY <1>3, <2>1, <2>2, <3>2, <3>3
  <2> QED
    BY <2>3, <2>4
<1>5. ASSUME NEW op \in {"zeroAttempts", "clearLockedOut", "activate", "setLockedOut",
                         "startTicker", "leave", "enter"},
             At(t, op), Return(t), UNCHANGED <<locked, ui>>
      PROVE  GoesOn(t) /\ todo[t] # <<>> /\ Head(todo[t]) # "check"
  <2>1. op \notin Deciding \cup Showing \cup {"check"}
    BY DEF Deciding, Showing
  <2> QED
    BY <1>3, <1>5, <2>1
<1>6. CASE ZeroAttempts(t) \/ ClearLockedOut(t) \/ StartActivation(t) \/ SetLockedOut(t)
           \/ StartTicker(t) \/ Leave(t)
  BY <1>5, <1>6 DEF ZeroAttempts, ClearLockedOut, StartActivation, SetLockedOut, StartTicker,
                    Leave, service
<1>7. ASSUME ReadState(t)
      PROVE  GoesOn(t) /\ todo[t] # <<>> /\ Head(todo[t]) # "check"
  <2>1. todo[t] # <<>> /\ Head(todo[t]) = "readState" /\ UNCHANGED <<locked, ui>>
    BY <1>7 DEF ReadState, At, service
  <2> DEFINE p == IF locked THEN <<"emitLocked">> ELSE <<"emitUnlocked">>
  <2>2. Call(t, p)
    BY <1>7 DEF ReadState
  <2>3. p \in Seq(Ops) /\ Tells(p, locked) /\ NoAuth(p)
    BY <1>0, ProgramsSettle, ProgramsWithoutAuth
  <2> HIDE DEF p
  <2>4. /\ todo'[t] = p \o Tail(todo[t]) /\ Tail(todo[t]) \in Seq(Ops)
        /\ \A u \in Threads : u # t => todo'[u] = todo[u]
    BY <1>0, <2>1, <2>2, Called
  <2>5. ~Mute(todo[t])
    BY <1>0, <2>1, TailOps DEF Mute, Deciding
  <2>6. AuthAlone(todo'[t])
    BY <1>0, <2>1, <2>3, <2>4, PastAuth DEF AuthAlone, NoAuth
  <2>7. ASSUME Settles(todo[t], locked, ui.locked)
        PROVE  Settles(todo'[t], locked', ui'.locked)
    <3>1. todo[t] = <<"readState">>
      BY <1>0, <2>1, <2>5, <2>7, AsksAlone
    <3>2. todo'[t] = p
      BY <2>3, <2>4, <3>1
    <3> QED
      BY <2>1, <2>3, <3>2 DEF Settles
  <2> QED
    BY <2>1, <2>4, <2>5, <2>6, <2>7 DEF GoesOn
<1>8. ASSUME LockIfUnlocked(t)
      PROVE  GoesOn(t) /\ todo[t] # <<>> /\ Head(todo[t]) # "check"
  <2>1. todo[t] # <<>> /\ Head(todo[t]) = "lockIfUnlocked" /\ UNCHANGED <<locked, ui>>
    BY <1>8 DEF LockIfUnlocked, At, service
  <2> DEFINE p == IF locked THEN <<>> ELSE LockCommandProgram
  <2>2. Call(t, p)
    BY <1>8 DEF LockIfUnlocked
  <2>3. /\ p \in Seq(Ops) /\ NoAuth(p)
        /\ ~locked => Turns(p, TRUE)
        /\ locked => Mute(p)
    BY ProgramsSettle, ProgramsWithoutAuth
  <2> HIDE DEF p
  <2>4. /\ todo'[t] = p \o Tail(todo[t]) /\ Tail(todo[t]) \in Seq(Ops)
        /\ \A u \in Threads : u # t => todo'[u] = todo[u]
    BY <1>0, <2>1, <2>2, Called
  <2>5. ~Mute(todo[t])
    BY <1>0, <2>1, TailOps DEF Mute, Deciding
  <2>6. AuthAlone(todo'[t])
    BY <1>0, <2>1, <2>3, <2>4, PastAuth DEF AuthAlone, NoAuth
  <2>7. ASSUME Settles(todo[t], locked, ui.locked)
        PROVE  Settles(todo'[t], locked', ui'.locked)
    <3>1. todo[t] = <<"lockIfUnlocked">> /\ (locked => ui.locked)
      BY <1>0, <2>1, <2>5, <2>7, AsksAlone
    <3>2. todo'[t] = p
      BY <2>3, <2>4, <3>1
    <3> QED
      BY <1>0, <2>1, <2>3, <3>1, <3>2 DEF Settles
  <2> QED
    BY <2>1, <2>4, <2>5, <2>6, <2>7 DEF GoesOn
<1>9. ASSUME Enter(t)
      PROVE  GoesOn(t) /\ todo[t] # <<>> /\ Head(todo[t]) # "check"
  <2>1. todo[t] # <<>> /\ Head(todo[t]) = "enter" /\ UNCHANGED <<locked, ui>> /\ At(t, "enter")
    BY <1>9 DEF Enter, At
  <2>2. CASE inAuth \/ lockedOut
    BY <1>5, <1>9, <2>1, <2>2 DEF Enter
  <2>3. CASE ~(inAuth \/ lockedOut)
    <3>1. Call(t, <<"check", "leave">>)
      BY <1>9, <2>3 DEF Enter
    <3>2. todo[t] = <<"enter">>
      <4>1. t \in Callers
        BY <2>1, GuardHeads DEF IInv, Guards
      <4>2. ~Guarded(todo[t])
        BY <1>0, <2>1, <4>1, RunningIsGuarded DEF IInv, ProgramsOK
      <4> QED
        BY <2>1, <4>1, <4>2 DEF IInv, ProgramsOK, CallerProgram
    <3>3. Tail(todo[t]) = <<>> /\ <<"check", "leave">> \o Tail(todo[t]) = <<"check", "leave">>
      BY <3>2
    <3>4. AuthAlone(<<"check", "leave">> \o Tail(todo[t]))
      BY <3>3, AuthPrograms
    <3>5. Tail(todo[t]) # <<"readState">> /\ Tail(todo[t]) # <<"lockIfUnlocked">>
      BY <3>3
    <3>6. <<"check", "leave">> \in Seq(Ops) /\ Mute(<<"check", "leave">>)
      BY ProgramsSettle
    <3>7. Head(todo[t]) \notin Deciding \cup Showing
      BY <2>1 DEF Deciding, Showing
    <3> QED
      BY <1>0, <2>1, <3>1, <3>4, <3>5, <3>6, <3>7, CallGoesOn
  <2> QED
    BY <2>2, <2>3
<1>10. ASSUME AddAttempt(t)
       PROVE  GoesOn(t) /\ todo[t] # <<>> /\ Head(todo[t]) # "check"
  <2>1. /\ todo[t] # <<>> /\ Head(todo[t]) = "addAttempt" /\ UNCHANGED <<locked, ui>>
    BY <1>10 DEF AddAttempt, At
  <2> DEFINE p == IF attempts + 1 >= MaxAttempts THEN LockoutProgram ELSE <<"emitRefused">>
  <2>2. Call(t, p)
    BY <1>10 DEF AddAttempt
  <2>3. p \in Seq(Ops) /\ NoAuth(p) /\ Mute(p)
    BY ProgramsSettle, ProgramsWithoutAuth
  <2> HIDE DEF p
  <2>4. todo[t] = <<"addAttempt", "leave">>
    BY <1>0, <2>1, TailOps DEF AuthAlone
  <2>5. Tail(todo[t]) # <<"readState">> /\ Tail(todo[t]) # <<"lockIfUnlocked">>
    BY <2>4
  <2>6. AuthAlone(p \o Tail(todo[t]))
    BY <1>0, <2>1, <2>3, PastAuth DEF AuthAlone, NoAuth
  <2>7. Head(todo[t]) \notin Deciding \cup Showing
    BY <2>1 DEF Deciding, Showing
  <2> QED
    BY <1>0, <2>1, <2>2, <2>3, <2>5, <2>6, <2>7, CallGoesOn
<1> QED
  BY <1>1, <1>4, <1>6, <1>7, <1>8, <1>9, <1>10 DEF Run

----------------------------------------------------------------------------
(* The invariant is kept.                                                  *)

\* What overlap and disturbance mean.
LEMMA Undisturbed ==
  ASSUME MCNext, ~disturbed'
  PROVE  ~disturbed /\ OneWorks' /\ ~FingerprintUnlock
<1>1. ~Overlap' /\ ~disturbed /\ ~FingerprintUnlock
  BY Zenon DEF MCNext
<1>2. OneWorks'
  <2> SUFFICES ASSUME NEW t \in Users, NEW u \in Users, Working(t)', Working(u)', t # u
               PROVE  FALSE
    BY DEF OneWorks
  <2>1. \A w \in {t, u} : ~AtRest(w)' /\ ~Waiting(w)'
    BY DEF Working
  <2> QED
    BY <1>1, <2>1 DEF Overlap, Users
<1> QED
  BY <1>1, <1>2

\* A user's program that is not at work leaves nothing unsaid.
LEMMA NotWorkingIsMute ==
  ASSUME NEW s \in Seq(Ops), AuthAlone(s), s = <<>> \/ Head(s) = "check",
         NEW lk \in BOOLEAN, NEW sh \in BOOLEAN
  PROVE  Mute(s) /\ (Settles(s, lk, sh) => sh = lk)
<1>1. s = <<>> \/ s = <<"check", "leave">>
  <2> SUFFICES ASSUME s # <<>>
               PROVE  s = <<"check", "leave">>
    OBVIOUS
  <2>1. "check" \in OpsOf(s)
    BY TailOps
  <2> QED
    BY <2>1 DEF AuthAlone
<1>2. Mute(s)
  BY <1>1, ProgramsSettle
<1>3. s # <<"readState">> /\ s # <<"lockIfUnlocked">>
  BY <1>1
<1>4. ~Tells(s, lk) /\ ~Turns(s, TRUE) /\ ~Turns(s, FALSE)
  BY <1>2 DEF Mute, Tells, Turns, ShowsOnly
<1> QED
  BY <1>2, <1>3, <1>4 DEF Settles

\* A step of the one user that is at work, or gets to work.
LEMMA UserStep ==
  ASSUME IInv, TypeOK', Following, MCNext, NEW t \in Users,
         \A u \in Threads : u # t => todo'[u] = todo[u],
         AuthAlone(todo'[t]),
         Working(t) \/ Working(t)',
         /\ ~disturbed
         /\ \/ Working(t) /\ Settles(todo[t], locked, ui.locked)
            \/ ~Working(t) /\ ui.locked = locked
         => Settles(todo'[t], locked', ui'.locked)
  PROVE  Following'
<1>1. /\ t \in Threads /\ t \notin Tickers
      /\ Users \subseteq Threads /\ Tickers \subseteq Threads
      /\ todo'[t] \in Seq(Ops) /\ locked' \in BOOLEAN /\ ui'.locked \in BOOLEAN
  BY ThreadsAssumption DEF Users, Threads, TypeOK, UiState
<1>2. \A u \in Threads : AuthAlone(todo'[u])
  BY DEF Following
<1>3. \A g \in Tickers : Mute(todo'[g])
  BY <1>1 DEF Following
<1>4. ASSUME ~disturbed'
      PROVE  /\ OneWorks'
             /\ (\A u \in Users : ~Working(u)') => ui'.locked = locked'
             /\ \A u \in Users : Working(u)' => Settles(todo'[u], locked', ui'.locked)
  <2>1. ~disturbed /\ OneWorks'
    BY <1>4, Undisturbed
  <2>2. \A u \in Users : u # t => (Working(u)' <=> Working(u))
    BY <1>1 DEF Working, AtRest, Waiting, At
  <2>3. \A u \in Users : u # t => ~Working(u) /\ ~Working(u)'
    BY <2>1, <2>2 DEF OneWorks, Following
  <2>4. \/ Working(t) /\ Settles(todo[t], locked, ui.locked)
        \/ ~Working(t) /\ ui.locked = locked
    BY <2>1, <2>3 DEF Following
  <2>5. Settles(todo'[t], locked', ui'.locked)
    BY <2>1, <2>4
  <2>6. ASSUME ~Working(t)'
        PROVE  ui'.locked = locked'
    <3>1. todo'[t] = <<>> \/ Head(todo'[t]) = "check"
      BY <2>6 DEF Working, AtRest, Waiting, At
    <3> QED
      BY <1>1, <2>5, <3>1, NotWorkingIsMute
  <2> QED
    BY <2>1, <2>3, <2>5, <2>6
<1> QED
  BY <1>2, <1>3, <1>4 DEF Following

\* A step that moves neither the flag, nor the lock screen, nor a user.
LEMMA ElseStep ==
  ASSUME IInv, Following, ~disturbed' => ~disturbed,
         \A t \in Users : todo'[t] = todo[t],
         \A g \in Tickers : Mute(todo'[g]) /\ AuthAlone(todo'[g]),
         locked' = locked, ui'.locked = ui.locked
  PROVE  Following'
<1>1. Threads = Users \cup Tickers
  BY DEF Users, Threads
<1>2. \A t \in Users : Working(t)' <=> Working(t)
  BY DEF Working, AtRest, Waiting, At
<1>3. OneWorks => OneWorks'
  BY <1>2 DEF OneWorks
<1> QED
  BY <1>1, <1>2, <1>3 DEF Following

LEMMA RunFollows ==
  ASSUME IInv, TypeOK', Following, MCNext, NEW t \in Threads, Run(t)
  PROVE  Following'
<1>1. GoesOn(t) /\ todo[t] # <<>> /\ Head(todo[t]) # "check"
  BY RunGoesOn DEF Following
<1>2. CASE t \in Users
  <2>1. Working(t)
    BY <1>1 DEF Working, AtRest, Waiting, At
  <2> QED
    BY <1>1, <1>2, <2>1, UserStep DEF GoesOn
<1>3. CASE t \in Tickers
  <2>1. /\ t \notin Users /\ Users \subseteq Threads /\ Tickers \subseteq Threads
    BY <1>3, ThreadsAssumption DEF Users, Threads
  <2>2. Mute(todo[t]) /\ (~disturbed' => ~disturbed)
    BY <1>3, Undisturbed DEF Following
  <2>3. \A g \in Tickers : Mute(todo'[g]) /\ AuthAlone(todo'[g])
    BY <1>1, <2>1, <2>2 DEF GoesOn, Following
  <2> QED
    BY <1>1, <2>1, <2>2, <2>3, ElseStep DEF GoesOn
<1> QED
  BY <1>2, <1>3 DEF Users, Threads

\* A check that comes back is the only operation between two steps.
LEMMA CheckFollows ==
  ASSUME IInv, TypeOK', Following, MCNext, NEW c \in Callers, Check(c)
  PROVE  Following'
<1>1. /\ c \in Users /\ c \in Threads /\ TypeOK /\ todo[c] \in Seq(Ops)
      /\ locked \in BOOLEAN /\ ui.locked \in BOOLEAN
  BY DEF Users, Threads, IInv, TypeOK, UiState
<1>2. todo[c] # <<>> /\ Head(todo[c]) = "check" /\ UNCHANGED <<locked, ui>>
  BY DEF Check, CheckSucceeds, CheckFails, At, service
<1>3. todo[c] = <<"check", "leave">> /\ ~Working(c)
  <2>1. "check" \in OpsOf(todo[c])
    BY <1>1, <1>2, TailOps
  <2> QED
    BY <1>1, <1>2, <2>1 DEF Following, AuthAlone, Working, Waiting, At
<1>4. Tail(todo[c]) = <<"leave">>
  BY <1>3
<1>5. ASSUME NEW p \in Seq(Ops), Call(c, p), AuthAlone(p \o <<"leave">>),
             p \o <<"leave">> # <<>>, Head(p \o <<"leave">>) # "check",
             Turns(p, FALSE) \/ Mute(p)
      PROVE  Following'
  <2>1. /\ todo'[c] = p \o <<"leave">>
        /\ \A u \in Threads : u # c => todo'[u] = todo[u]
    BY <1>1, <1>2, <1>4, <1>5, Called
  <2>2. Working(c)'
    BY <1>5, <2>1 DEF Working, AtRest, Waiting, At
  <2>3. <<"leave">> \in Seq(Ops) /\ Mute(<<"leave">>)
    BY ProgramsSettle
  <2>4. ui.locked = locked => Settles(p \o <<"leave">>, locked, ui.locked)
    BY <1>1, <1>5, <2>3, ConcatSettles DEF Settles
  <2> QED
    BY <1>1, <1>2, <1>3, <1>5, <2>1, <2>2, <2>4, UserStep
<1>6. CASE CheckSucceeds(c)
  <2>1. SuccessProgram \in Seq(Ops) /\ Turns(SuccessProgram, FALSE)
    BY ProgramsSettle DEF SuccessProgram
  <2>2. NoAuth(SuccessProgram \o <<"leave">>)
    BY <1>1, <1>2, <1>3, <1>4, <2>1, PastAuth, ProgramsWithoutAuth
      DEF SuccessProgram, Following
  <2>3. /\ SuccessProgram \o <<"leave">> # <<>>
        /\ Head(SuccessProgram \o <<"leave">>) # "check"
    BY DEF SuccessProgram, LockWithAutoUnlockProgram
  <2> QED
    BY <1>5, <1>6, <2>1, <2>2, <2>3 DEF CheckSucceeds, AuthAlone, NoAuth
<1>7. CASE CheckFails(c)
  <2>1. <<"addAttempt">> \in Seq(Ops) /\ Mute(<<"addAttempt">>)
    BY ProgramsSettle
  <2> DEFINE a == <<"addAttempt">>
             l == <<"leave">>
             al == <<"addAttempt", "leave">>
  <2>2. a \o l = al
    <3>1. /\ a \in Seq(Ops) /\ l \in Seq(Ops) /\ al \in Seq(Ops)
          /\ Len(a) = 1 /\ Len(l) = 1 /\ Len(al) = 2
          /\ a[1] = al[1] /\ l[1] = al[2]
      BY DEF Ops
    <3> HIDE DEF a, l, al
    <3> DEFINE both == a \o l
    <3>2. /\ both \in Seq(Ops) /\ Len(both) = Len(a) + Len(l)
          /\ \A i \in 1..(Len(a) + Len(l)) :
               both[i] = IF i <= Len(a) THEN a[i] ELSE l[i - Len(a)]
      BY <3>1, ConcatProperties
    <3> HIDE DEF both
    <3>4. Len(both) = 2 /\ both[1] = a[1] /\ both[2] = l[1]
      <4>1. Len(both) = 2 /\ \A i \in 1..2 : both[i] = IF i <= 1 THEN a[i] ELSE l[i - 1]
        BY <3>1, <3>2
      <4>2. both[1] = IF 1 <= 1 THEN a[1] ELSE l[1 - 1]
        BY <4>1
      <4>3. both[2] = IF 2 <= 1 THEN a[2] ELSE l[2 - 1]
        BY <4>1
      <4>4. 2 - 1 = 1
        OBVIOUS
      <4> QED
        BY <4>1, <4>2, <4>3, <4>4
    <3>3. \A i \in 1..2 : both[i] = al[i]
      BY <3>1, <3>4
    <3> QED
      <4>1. both = al
        BY <3>1, <3>2, <3>3, <3>4, SeqEqual
      <4> QED
        BY <4>1 DEF both
  <2>4. al # <<>> /\ Head(al) # "check"
    OBVIOUS
  <2>3. AuthAlone(a \o l) /\ a \o l # <<>> /\ Head(a \o l) # "check"
    BY <2>2, <2>4, AuthPrograms, Zenon
  <2> QED
    BY <1>5, <1>7, <2>1, <2>3 DEF CheckFails
<1> QED
  BY <1>6, <1>7 DEF Check

\* A user begins: nobody was at work, so flag and screen agreed.
LEMMA BeginFollows ==
  ASSUME IInv, TypeOK', Following, MCNext, NEW t \in Users, NEW p \in Seq(Ops), Begin(t, p),
         NoAuth(p), p # <<>>, ui.locked = locked => Settles(p, locked', ui'.locked)
  PROVE  Following'
<1>1. todo \in [Threads -> Seq(Ops)] /\ t \in Threads
  BY DEF IInv, TypeOK, Users, Threads
<1>2. todo'[t] = p /\ ~Working(t) /\ \A u \in Threads : u # t => todo'[u] = todo[u]
  BY <1>1 DEF Begin, Working
<1>3. Head(p) # "check"
  BY TailOps DEF NoAuth
<1>4. Working(t)'
  BY <1>2, <1>3 DEF Working, AtRest, Waiting, At
<1>5. AuthAlone(p)
  BY DEF AuthAlone, NoAuth
<1> QED
  BY <1>2, <1>4, <1>5, UserStep

LEMMA CommanderFollows ==
  ASSUME IInv, TypeOK', Following, MCNext, NEW k \in Commanders, Command(k) \/ Activate(k)
  PROVE  Following'
<1>1. k \in Users /\ ui \in UiState /\ ui.locked \in BOOLEAN /\ locked \in BOOLEAN
  BY DEF Users, IInv, TypeOK, UiState
<1>2. ASSUME NEW o \in {"readState", "lockIfUnlocked"}
      PROVE  <<o>> \in Seq(Ops) /\ NoAuth(<<o>>) /\ <<o>> # <<>>
  <2>1. <<o>> \in Seq(Ops) /\ <<o>> # <<>>
    BY DEF Ops
  <2> QED
    BY <2>1, ProgramsWithoutAuth
<1>3. CASE Command(k)
  <2>1. PICK command \in Commands :
          /\ \E program \in ProgramsOf(command) : Begin(k, program)
          /\ ui' = IF command = "restart QML" THEN UiFresh ELSE ui
    BY <1>3 DEF Command
  <2>2. PICK program \in ProgramsOf(command) : Begin(k, program)
    BY <2>1
  <2>3. command \in AllCommands /\ locked' = locked
    BY <1>3, LimitsAssumption DEF Command, service
  <2>4. \/ program = <<"readState">>
        \/ command # "restart QML" /\ program = <<"lockIfUnlocked">>
        \/ program \in {LockProgram, UnlockProgram, LockWithAutoUnlockProgram,
                        TryAutoUnlockProgram}
    BY <2>2, <2>3, Zenon DEF ProgramsOf, AllCommands
  <2>5. CASE program = <<"readState">>
    BY <1>1, <1>2, <2>2, <2>5, BeginFollows DEF Settles
  <2>6. CASE command # "restart QML" /\ program = <<"lockIfUnlocked">>
    <3>1. ui.locked = locked => Settles(program, locked', ui'.locked)
      BY <2>1, <2>3, <2>6 DEF Settles
    <3> QED
      BY <1>1, <1>2, <2>2, <2>6, <3>1, BeginFollows
  <2>7. CASE program \in {LockProgram, UnlockProgram, LockWithAutoUnlockProgram,
                          TryAutoUnlockProgram}
    <3>1. program \in Seq(Ops) /\ (Turns(program, TRUE) \/ Turns(program, FALSE))
      BY <2>7, ProgramsSettle
    <3>2. program # <<>>
      BY <2>7 DEF LockProgram, UnlockProgram, LockWithAutoUnlockProgram,
                  TryAutoUnlockProgram
    <3>3. NoAuth(program)
      BY <2>7, ProgramsWithoutAuth
    <3> QED
      BY <1>1, <2>2, <3>1, <3>2, <3>3, BeginFollows DEF Settles
  <2> QED
    BY <2>4, <2>5, <2>6, <2>7
<1>4. CASE Activate(k) /\ ui.locked
  <2>1. UNCHANGED <<locked, todo, ui>>
    BY <1>4 DEF Activate, service
  <2> QED
    BY <2>1, ElseStep, Undisturbed DEF Following, Threads
<1>5. CASE Activate(k) /\ ~ui.locked
  <2>1. Begin(k, <<"lockIfUnlocked">>) /\ ui' = UiSetLocked(ui, TRUE)
    BY <1>5 DEF Activate
  <2>2. ui'.locked = TRUE
    BY <1>1, <2>1 DEF UiSetLocked, UiReset, UiState
  <2> QED
    BY <1>1, <1>2, <2>1, <2>2, BeginFollows DEF Settles
<1> QED
  BY <1>3, <1>4, <1>5

LEMMA NextFollows ==
  ASSUME IInv, IInv', Following, [MCNext]_<<vars, disturbed>>
  PROVE  Following'
<1>1. /\ TypeOK /\ TypeOK' /\ ui \in UiState
      /\ Threads = Users \cup Tickers /\ Users \cap Tickers = {}
  BY ThreadsAssumption DEF IInv, TypeOK, Users, Threads
<1>2. MCNext /\ ~disturbed' => ~disturbed
  BY Undisturbed
<1>3. ASSUME MCNext, NEW t \in Threads, Run(t)
      PROVE  Following'
  BY <1>1, <1>3, RunFollows
<1>4. ASSUME MCNext, NEW c \in Callers, Check(c)
      PROVE  Following'
  BY <1>1, <1>4, CheckFollows
<1>5. ASSUME MCNext, NEW c \in Callers, TryUnlock(c)
      PROVE  Following'
  <2>1. c \in Users /\ <<"enter">> \in Seq(Ops) /\ <<"enter">> # <<>>
    BY ProgramsSettle DEF Users
  <2>2. NoAuth(<<"enter">>) /\ Mute(<<"enter">>)
    BY ProgramsSettle, ProgramsWithoutAuth
  <2>3. Begin(c, <<"enter">>) /\ locked' = locked /\ ui'.locked = ui.locked
    BY <1>1, <1>5 DEF TryUnlock, service, UiState
  <2> QED
    BY <1>1, <1>5, <2>1, <2>2, <2>3, BeginFollows DEF Settles
<1>6. ASSUME MCNext, NEW k \in Commanders, Command(k) \/ Activate(k)
      PROVE  Following'
  BY <1>1, <1>6, CommanderFollows
<1>7. CASE MCNext /\ ClearTimer
  <2>1. UNCHANGED <<locked, todo>> /\ ui'.locked = ui.locked
    BY <1>1, <1>7 DEF ClearTimer, service, UiReset, UiState
  <2> QED
    BY <1>1, <1>2, <1>7, <2>1, ElseStep DEF Following
<1>8. CASE MCNext /\ FingerprintUnlock
  <2>1. UNCHANGED <<todo>>
    BY <1>8 DEF FingerprintUnlock
  <2>2. disturbed'
    BY <1>8, Undisturbed
  <2> QED
    BY <2>1, <2>2 DEF Following
<1>9. CASE MCNext /\ Second
  <2>1. UNCHANGED <<locked, ui>>
    BY <1>9 DEF Second, service
  <2>2. ASSUME NEW t \in Threads
        PROVE  \/ todo'[t] = todo[t]
               \/ t \in Tickers /\ todo'[t] = ExpireProgram
               \/ t \in Tickers /\ todo'[t] = <<"emitTick">>
    BY <1>9 DEF Second
  <2>3. \A p \in {ExpireProgram, <<"emitTick">>} : Mute(p) /\ AuthAlone(p)
    BY ProgramsSettle, ProgramsWithoutAuth DEF AuthAlone, NoAuth
  <2>4. \A g \in Tickers : Mute(todo'[g]) /\ AuthAlone(todo'[g])
    BY <1>1, <2>2, <2>3 DEF Following
  <2>5. \A t \in Users : todo'[t] = todo[t]
    BY <1>1, <2>2
  <2> QED
    BY <1>2, <1>9, <2>1, <2>4, <2>5, ElseStep
<1>10. CASE UNCHANGED <<vars, disturbed>>
  BY <1>1, <1>10, ElseStep DEF vars, Following
<1> QED
  BY <1>3, <1>4, <1>5, <1>6, <1>7, <1>8, <1>9, <1>10 DEF MCNext, Next

LEMMA InitFollowing == MCInit => Following
<1> SUFFICES ASSUME MCInit
             PROVE  Following
  OBVIOUS
<1>1. \A t \in Threads : todo[t] = <<>>
  BY DEF MCInit, Init
<1>2. Mute(<<>>) /\ AuthAlone(<<>>)
  BY ProgramsSettle, ProgramsWithoutAuth DEF AuthAlone, NoAuth
<1>3. \A t \in Users : ~Working(t)
  BY <1>1 DEF Working, AtRest, Users, Threads
<1>4. ui.locked = locked
  BY DEF MCInit, Init, UiFresh
<1> QED
  BY <1>1, <1>2, <1>3, <1>4 DEF Following, OneWorks, Threads

\* As long as no two callers or commanders have been between two of their steps at once,
\* and no fingerprint took the lock surface away, the QML side shows the lock screen iff
\* the service is locked whenever nothing is under way: however many goroutines there
\* are, however slow their checks, and whatever the tickers of lockouts do meanwhile.
THEOREM ScreenFollowsService == MCSpec => []AgreeUnlessDisturbed
<1>1. MCInit => IInv /\ Following
  BY InitIInv, InitFollowing DEF MCInit
<1>2. IInv /\ Following /\ [MCNext]_<<vars, disturbed>> => IInv' /\ Following'
  <2>1. [MCNext]_<<vars, disturbed>> => [Next]_vars
    BY DEF MCNext
  <2> QED
    BY <2>1, NextIInv, NextFollows
<1>3. IInv /\ Following => AgreeUnlessDisturbed
  <2> SUFFICES ASSUME Following, ~disturbed, Quiet
               PROVE  ui.locked = locked
    BY DEF AgreeUnlessDisturbed, AgreeAtRest
  <2>1. \A t \in Users : ~Working(t)
    BY DEF Quiet, Settled, Working, Users, Threads
  <2> QED
    BY <2>1 DEF Following
<1> QED
  BY <1>1, <1>2, <1>3, PTL DEF MCSpec
===============================================================================
