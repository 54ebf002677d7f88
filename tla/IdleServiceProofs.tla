--------------------------- MODULE IdleServiceProofs ---------------------------
(***************************************************************************)
(* Proofs about IdleService, for every number of clients, applications and *)
(* delayed locks, every timeout and every set of requests.                 *)
(*                                                                         *)
(* Whatever the interleaving, the inhibition the timers go by follows its  *)
(* sources and implements InhibitionPolicy, the variables keep their types *)
(* and a lock that is coming is the one that can be called off.  With one  *)
(* program at a time the display, Hyprland, the lock, the timers and the   *)
(* deep idle mode agree whenever no program runs.                          *)
(***************************************************************************)
EXTENDS IdleService, TLAPS, SequenceTheorems

----------------------------------------------------------------------------
(* The shape of programs.                                                  *)

Mentions(s, op) == \E i \in 1..Len(s) : s[i] = op

\* A source that is changed is followed by the recomputation.
Paired(s) ==
  \A i \in 1..Len(s) : s[i] \in FlagOps => i < Len(s) /\ s[i + 1] = "recompute"

Program(s) == s \in Seq(Ops) /\ Paired(s)

\* fullscreenCount has no bound of its own.
FlagsOK == flags \in [screensaver : BOOLEAN, logind : BOOLEAN, fullscreen : Nat]

ProgramsOK == todo \in [Threads -> Seq(Ops)] /\ \A t \in Threads : Paired(todo[t])

IInv == FlagsOK /\ inhibited \in BOOLEAN /\ ProgramsOK /\ InhibitionFollows

\* What a returning thread has left.
LEMMA TailShape ==
  ASSUME NEW s \in Seq(Ops), s # <<>>, Paired(s)
  PROVE  /\ Program(Tail(s))
         /\ Mentions(s, "recompute") /\ Head(s) # "recompute"
              => Mentions(Tail(s), "recompute")
         /\ Head(s) \in FlagOps => Mentions(Tail(s), "recompute")
<1>1. /\ Len(s) \in Nat /\ Len(s) > 0
      /\ Head(s) = s[1]
      /\ Tail(s) \in Seq(Ops)
      /\ Len(Tail(s)) = Len(s) - 1
      /\ \A i \in 1..Len(Tail(s)) : Tail(s)[i] = s[i + 1]
  BY HeadTailProperties, EmptySeq, LenProperties
<1>2. Paired(Tail(s))
  <2> HIDE DEF FlagOps
  <2> QED
    BY <1>1 DEF Paired
<1>3. ASSUME Mentions(s, "recompute"), Head(s) # "recompute"
      PROVE  Mentions(Tail(s), "recompute")
  <2>1. PICK i \in 1..Len(s) : s[i] = "recompute"
    BY <1>3 DEF Mentions
  <2>2. i > 1 /\ i - 1 \in 1..Len(Tail(s)) /\ (i - 1) + 1 = i
    BY <1>1, <1>3, <2>1
  <2>3. Tail(s)[i - 1] = "recompute"
    BY <1>1, <2>1, <2>2
  <2> QED
    BY <2>2, <2>3 DEF Mentions
<1>4. ASSUME Head(s) \in FlagOps
      PROVE  Mentions(Tail(s), "recompute")
  <2>1. 1 < Len(s) /\ s[1 + 1] = "recompute"
    BY <1>1, <1>4 DEF Paired
  <2>2. 1 \in 1..Len(Tail(s)) /\ Tail(s)[1] = "recompute"
    BY <1>1, <2>1
  <2> QED
    BY <2>2 DEF Mentions
<1> QED
  BY <1>1, <1>2, <1>3, <1>4 DEF Program

\* Programs may be put one after the other.
LEMMA ConcatShape ==
  ASSUME NEW p, NEW q, Program(p), Program(q)
  PROVE  /\ Program(p \o q)
         /\ Mentions(q, "recompute") => Mentions(p \o q, "recompute")
<1>1. /\ p \o q \in Seq(Ops)
      /\ Len(p) \in Nat /\ Len(q) \in Nat
      /\ Len(p \o q) = Len(p) + Len(q)
      /\ \A i \in 1..(Len(p) + Len(q)) :
           (p \o q)[i] = IF i <= Len(p) THEN p[i] ELSE q[i - Len(p)]
  BY ConcatProperties, LenProperties DEF Program
<1>2. Paired(p \o q)
  <2> HIDE DEF FlagOps
  <2> SUFFICES ASSUME NEW i \in 1..(Len(p) + Len(q)), (p \o q)[i] \in FlagOps
               PROVE  i < Len(p) + Len(q) /\ (p \o q)[i + 1] = "recompute"
    BY <1>1 DEF Paired
  <2>1. CASE i <= Len(p)
    BY <1>1, <2>1 DEF Program, Paired
  <2>2. CASE i > Len(p)
    <3>1. i - Len(p) \in 1..Len(q) /\ q[i - Len(p)] \in FlagOps
      BY <1>1, <2>2
    <3>2. i - Len(p) < Len(q) /\ q[(i - Len(p)) + 1] = "recompute"
      BY <3>1 DEF Program, Paired
    <3>3. i + 1 \in 1..(Len(p) + Len(q)) /\ (i + 1) - Len(p) = (i - Len(p)) + 1
      BY <1>1, <2>2, <3>2
    <3> QED
      BY <1>1, <2>2, <3>2, <3>3
  <2> QED
    BY <1>1, <2>1, <2>2
<1>3. ASSUME Mentions(q, "recompute")
      PROVE  Mentions(p \o q, "recompute")
  <2>1. PICK i \in 1..Len(q) : q[i] = "recompute"
    BY <1>3 DEF Mentions
  <2>2. Len(p) + i \in 1..Len(p \o q) /\ (p \o q)[Len(p) + i] = "recompute"
    BY <1>1, <2>1
  <2> QED
    BY <2>2 DEF Mentions
<1> QED
  BY <1>1, <1>2, <1>3 DEF Program

\* Short programs.
PlainOps == Ops \ FlagOps

LEMMA EmptyProgram == Program(<<>>)
<1>1. <<>> \in Seq(Ops) /\ Len(<<>>) = 0
  BY EmptySeq
<1> QED
  BY <1>1 DEF Program, Paired

LEMMA PlainPrograms ==
  ASSUME NEW a \in PlainOps, NEW b \in PlainOps, NEW c \in PlainOps
  PROVE  Program(<<a>>) /\ Program(<<a, b>>) /\ Program(<<a, b, c>>)
<1>1. a \in Ops /\ b \in Ops /\ c \in Ops /\ a \notin FlagOps /\ b \notin FlagOps
      /\ c \notin FlagOps
  BY DEF PlainOps
<1>2. Program(<<a>>)
  BY <1>1 DEF Program, Paired
<1>3. Program(<<a, b>>)
  BY <1>1 DEF Program, Paired
<1>4. Program(<<a, b, c>>)
  BY <1>1 DEF Program, Paired
<1> QED
  BY <1>2, <1>3, <1>4

LEMMA FlagPrograms ==
  ASSUME NEW o \in FlagOps, NEW a \in PlainOps
  PROVE  Program(<<o, "recompute">>) /\ Program(<<a, o, "recompute">>)
<1>1. o \in Ops /\ "recompute" \in Ops /\ "recompute" \notin FlagOps
  BY DEF FlagOps, Ops
<1>2. a \in Ops /\ a \notin FlagOps
  BY DEF PlainOps
<1>3. Program(<<o, "recompute">>)
  BY <1>1 DEF Program, Paired
<1>4. Program(<<a, o, "recompute">>)
  BY <1>1, <1>2 DEF Program, Paired
<1> QED
  BY <1>3, <1>4

\* Every program of the service has the shape.
LEMMA PlainOpsAre ==
  {"onGate", "storeOn", "dpmsOn", "reportOn", "storeOff", "dpmsOff", "reportOff",
   "setLocked", "clearLocked", "notify", "noteLocked", "noteUnlocked",
   "testInhibited", "testLocked", "recreate", "recompute", "suppress",
   "idledLocked", "idledUnlocked", "armDelay",
   "storeInhibitor", "deleteInhibitor", "rangeInhibitors"} \subseteq PlainOps
  BY DEF PlainOps, Ops, FlagOps

LEMMA LiteralPrograms ==
  /\ Program(DisplayOn) /\ Program(DisplayOff)
  /\ Program(<<"storeOn", "dpmsOn", "reportOn">>)
  /\ Program(Lock) /\ Program(Unlock) /\ Program(DoLock)
  /\ Program(<<"storeInhibitor", "screensaverOn", "recompute">>)
  /\ Program(<<"deleteInhibitor", "rangeInhibitors">>)
<1>1. "screensaverOn" \in FlagOps
  BY DEF FlagOps
<1> QED
  BY <1>1, PlainOpsAre, PlainPrograms, FlagPrograms
     DEF DisplayOn, DisplayOff, Lock, Unlock, DoLock

LEMMA ComposedPrograms ==
  /\ Program(DisplayOn \o <<"recreate">>)
  /\ Program(DisplayOff \o <<"armDelay">>)
  /\ Program(Unlock \o DisplayOn)
  /\ Program(<<"suppress">> \o Lock \o DisplayOff)
<1>1. Program(<<"recreate">>) /\ Program(<<"armDelay">>) /\ Program(<<"suppress">>)
  BY PlainOpsAre, PlainPrograms
<1>2. Program(DisplayOn \o <<"recreate">>)
  BY <1>1, LiteralPrograms, ConcatShape, Zenon
<1>3. Program(DisplayOff \o <<"armDelay">>)
  BY <1>1, LiteralPrograms, ConcatShape, Zenon
<1>4. Program(Unlock \o DisplayOn)
  BY <1>1, LiteralPrograms, ConcatShape, Zenon
<1>5. Program(<<"suppress">> \o Lock)
  BY <1>1, LiteralPrograms, ConcatShape, Zenon
<1>6. Program((<<"suppress">> \o Lock) \o DisplayOff)
  BY <1>5, LiteralPrograms, ConcatShape, Zenon
<1> QED
  BY <1>2, <1>3, <1>4, <1>6

LEMMA RequestPrograms ==
  ASSUME NEW request \in Requests, NEW t \in ThreadsFor(request)
  PROVE  Program(ProgramFor(request))
<1>1. request \in AllRequests
  BY IdleLimitsAssumption
<1>3. Program(<<"testLocked">>)
  BY PlainOpsAre, PlainPrograms
<1>4. \A o \in FlagOps : Program(<<o, "recompute">>)
  BY FlagPrograms, PlainOpsAre
<1>5. DOMAIN BlockInhibited = {"block idle", "block sleep and idle", "release"}
  BY DEF BlockInhibited
<1>2. request \notin {"wayland restart", "activity", "leave"}
  <2>1. ASSUME request \in {"wayland restart", "activity", "leave"}
        PROVE  ThreadsFor(request) = {}
    <3>1. /\ request \notin {"lock", "unlock", "password", "power-button"}
          /\ request \notin {"inhibit", "uninhibit"}
          /\ request \notin {"logind lock", "logind unlock"}
          /\ request \notin DOMAIN BlockInhibited
          /\ request \notin {"fullscreen", "unfullscreen", "hyprland restart"}
      BY <1>5, <2>1
    <3> QED
      BY <2>1, <3>1, Zenon DEF ThreadsFor
  <2> QED
    BY <2>1
<1>6. {"logindOn", "logindOff", "countUp", "countDown", "countReset"} \subseteq FlagOps
  BY DEF FlagOps
<1>7. CASE request \in {"block idle", "block sleep and idle", "release"}
  <2>1. \/ ProgramFor(request) = <<"logindOn", "recompute">>
        \/ ProgramFor(request) = <<"logindOff", "recompute">>
    BY <1>5, <1>7, Zenon DEF ProgramFor
  <2> QED
    BY <1>4, <1>6, <2>1
<1>8. CASE request = "lock"
  <2>1. ProgramFor(request) = <<"testLocked">>
    BY <1>5, <1>8, Zenon DEF ProgramFor
  <2> QED
    BY <1>3, <2>1
<1>9. CASE request \in {"unlock", "password"}
  <2>1. ProgramFor(request) = Unlock
    BY <1>5, <1>9 DEF ProgramFor
  <2> QED
    BY <2>1, LiteralPrograms
<1>10. CASE request = "power-button"
  <2>1. ProgramFor(request) = <<"suppress">> \o Lock \o DisplayOff
    BY <1>5, <1>10 DEF ProgramFor
  <2> QED
    BY <2>1, ComposedPrograms
<1>11. CASE request = "logind lock"
  <2>1. ProgramFor(request) = DoLock
    BY <1>5, <1>11 DEF ProgramFor
  <2> QED
    BY <2>1, LiteralPrograms
<1>12. CASE request = "logind unlock"
  <2>1. ProgramFor(request) = Unlock \o DisplayOn
    BY <1>5, <1>12 DEF ProgramFor
  <2> QED
    BY <2>1, ComposedPrograms
<1>13. CASE request = "inhibit"
  <2>1. ProgramFor(request) = <<"storeInhibitor", "screensaverOn", "recompute">>
    BY <1>5, <1>13 DEF ProgramFor
  <2> QED
    BY <2>1, LiteralPrograms
<1>14. CASE request = "uninhibit"
  <2>1. ProgramFor(request) = <<"deleteInhibitor", "rangeInhibitors">>
    BY <1>5, <1>14 DEF ProgramFor
  <2> QED
    BY <2>1, LiteralPrograms
<1>15. CASE request \in {"fullscreen", "unfullscreen", "hyprland restart"}
  <2>1. \/ ProgramFor(request) = <<"countUp", "recompute">>
        \/ ProgramFor(request) = <<"countDown", "recompute">>
        \/ ProgramFor(request) = <<"countReset", "recompute">>
    BY <1>5, <1>15 DEF ProgramFor
  <2> QED
    BY <1>4, <1>6, <2>1
<1> QED
  BY <1>1, <1>2, <1>7, <1>8, <1>9, <1>10, <1>11, <1>12, <1>13, <1>14, <1>15
     DEF AllRequests

----------------------------------------------------------------------------
(* Steps of a program.                                                     *)

LEMMA ReturnShape ==
  ASSUME NEW t \in Threads, ProgramsOK, todo[t] # <<>>, Return(t)
  PROVE  /\ ProgramsOK'
         /\ Mentions(todo[t], "recompute") /\ Head(todo[t]) # "recompute"
              => Mentions(todo'[t], "recompute")
         /\ Head(todo[t]) \in FlagOps => Mentions(todo'[t], "recompute")
         /\ \A u \in Threads \ {t} : todo'[u] = todo[u]
<1>1. todo[t] \in Seq(Ops) /\ Paired(todo[t])
  BY DEF ProgramsOK
<1>2. /\ todo' \in [Threads -> Seq(Ops)]
      /\ todo'[t] = Tail(todo[t])
      /\ \A u \in Threads \ {t} : todo'[u] = todo[u]
  <2>1. Tail(todo[t]) \in Seq(Ops)
    BY <1>1, TailShape DEF Program
  <2> QED
    BY <2>1 DEF Return, ProgramsOK
<1>3. Paired(todo'[t])
  BY <1>1, <1>2, TailShape DEF Program
<1>4. ProgramsOK'
  <2>1. \A u \in Threads : Paired(todo'[u])
    BY <1>2, <1>3 DEF ProgramsOK
  <2> QED
    BY <1>2, <2>1 DEF ProgramsOK, Paired
<1> QED
  BY <1>1, <1>2, <1>4, TailShape

LEMMA CallShape ==
  ASSUME NEW t \in Threads, ProgramsOK, todo[t] # <<>>, NEW p, Program(p), Call(t, p)
  PROVE  /\ ProgramsOK'
         /\ Mentions(todo[t], "recompute") /\ Head(todo[t]) # "recompute"
              => Mentions(todo'[t], "recompute")
         /\ \A u \in Threads \ {t} : todo'[u] = todo[u]
<1>1. todo[t] \in Seq(Ops) /\ Paired(todo[t])
  BY DEF ProgramsOK
<1>2. Program(Tail(todo[t]))
  BY <1>1, TailShape
<1>3. Program(p \o Tail(todo[t]))
  BY <1>2, ConcatShape
<1>4. /\ todo' \in [Threads -> Seq(Ops)]
      /\ todo'[t] = p \o Tail(todo[t])
      /\ \A u \in Threads \ {t} : todo'[u] = todo[u]
  BY <1>3 DEF Call, ProgramsOK, Program
<1>5. ProgramsOK'
  <2>1. \A u \in Threads : Paired(todo'[u])
    BY <1>3, <1>4 DEF ProgramsOK, Program
  <2> QED
    BY <1>4, <2>1 DEF ProgramsOK, Paired
<1>6. ASSUME Mentions(todo[t], "recompute"), Head(todo[t]) # "recompute"
      PROVE  Mentions(todo'[t], "recompute")
  <2>1. Mentions(Tail(todo[t]), "recompute")
    BY <1>1, <1>6, TailShape
  <2>2. Mentions(p \o Tail(todo[t]), "recompute")
    BY <1>2, <2>1, ConcatShape
  <2> QED
    BY <1>4, <2>2
<1> QED
  BY <1>4, <1>5, <1>6

\* A thread that is at rest takes a program.
LEMMA BeginShape ==
  ASSUME NEW t \in Threads, ProgramsOK, NEW p, Program(p), Begin(t, p)
  PROVE  /\ ProgramsOK'
         /\ ~Mentions(todo[t], "recompute")
         /\ \A u \in Threads \ {t} : todo'[u] = todo[u]
<1>1. /\ todo' \in [Threads -> Seq(Ops)]
      /\ todo'[t] = p
      /\ \A u \in Threads \ {t} : todo'[u] = todo[u]
  BY DEF Begin, ProgramsOK, Program
<1>2. ProgramsOK'
  <2>1. \A u \in Threads : Paired(todo'[u])
    BY <1>1 DEF ProgramsOK, Program
  <2> QED
    BY <1>1, <2>1 DEF ProgramsOK, Paired
<1>3. ~Mentions(todo[t], "recompute")
  <2>1. todo[t] = <<>> /\ Len(todo[t]) = 0
    BY EmptySeq DEF Begin, AtRest
  <2> QED
    BY <2>1 DEF Mentions
<1> QED
  BY <1>1, <1>2, <1>3

\* The property only depends on which threads will recompute.
LEMMA FollowsKept ==
  ASSUME NEW t \in Threads, InhibitionFollows, UNCHANGED <<flags, inhibited>>,
         \A u \in Threads \ {t} : todo'[u] = todo[u],
         Mentions(todo[t], "recompute") => Mentions(todo'[t], "recompute")
  PROVE  InhibitionFollows'
<1>1. Raised' = Raised
  BY DEF Raised
<1> QED
  BY <1>1 DEF InhibitionFollows, WillRecompute, Mentions

\* A step of a program that neither changes a source nor recomputes.
OtherStep(t) ==
  /\ todo[t] # <<>> /\ Head(todo[t]) # "recompute"
  /\ Return(t) \/ \E p : Program(p) /\ Call(t, p)
  /\ UNCHANGED <<flags, inhibited>>

LEMMA OtherStepKeeps ==
  ASSUME NEW t \in Threads, IInv, OtherStep(t)
  PROVE  IInv'
<1>1. /\ ProgramsOK'
      /\ Mentions(todo[t], "recompute") => Mentions(todo'[t], "recompute")
      /\ \A u \in Threads \ {t} : todo'[u] = todo[u]
  <2>1. CASE Return(t)
    BY <2>1, ReturnShape DEF IInv, OtherStep
  <2>2. CASE \E p : Program(p) /\ Call(t, p)
    BY <2>2, CallShape DEF IInv, OtherStep
  <2> QED
    BY <2>1, <2>2 DEF OtherStep
<1>2. InhibitionFollows'
  BY <1>1, FollowsKept DEF IInv, OtherStep
<1> QED
  BY <1>1, <1>2 DEF IInv, OtherStep, FlagsOK

----------------------------------------------------------------------------
(* The actions that neither change a source nor recompute.                 *)

Others(t) ==
  \/ StoreInhibitor(t) \/ DeleteInhibitor(t) \/ RangeInhibitors(t)
  \/ OnGate(t) \/ StoreDisplay(t) \/ SetDPMS(t) \/ ReportDisplay(t) \/ Suppress(t)
  \/ SetLocked(t) \/ TestInhibited(t) \/ TestLocked(t) \/ Notify(t)
  \/ Note(t, TRUE) \/ Note(t, FALSE)
  \/ Recreate(t) \/ Idled(t) \/ ArmDelay(t)

\* The programs that a step calls.
LEMMA CalledPrograms ==
  /\ Program(<<"screensaverOff", "recompute">>)
  /\ Program(<<"testLocked">>)
  /\ Program(<<"noteLocked">>) /\ Program(<<"noteUnlocked">>)
  /\ Program(<<"recreate">>) /\ Program(<<"idledLocked">>) /\ Program(<<"idledUnlocked">>)
<1>1. "screensaverOff" \in FlagOps
  BY DEF FlagOps
<1> QED
  BY <1>1, PlainOpsAre, PlainPrograms, FlagPrograms

LEMMA OthersAreOther ==
  ASSUME NEW t \in Threads, Others(t)
  PROVE  OtherStep(t)
<1>1. CASE StoreInhibitor(t)
  BY <1>1 DEF StoreInhibitor, At, OtherStep
<1>2. CASE DeleteInhibitor(t)
  BY <1>2 DEF DeleteInhibitor, At, OtherStep
<1>3. CASE RangeInhibitors(t)
  <2>1. Return(t) \/ Call(t, <<"screensaverOff", "recompute">>)
    BY <1>3, Zenon DEF RangeInhibitors
  <2> QED
    BY <1>3, <2>1, CalledPrograms DEF RangeInhibitors, At, OtherStep, sources
<1>4. CASE OnGate(t)
  <2>1. Return(t) \/ Call(t, <<"storeOn", "dpmsOn", "reportOn">>)
    BY <1>4, Zenon DEF OnGate
  <2> QED
    BY <1>4, <2>1, LiteralPrograms DEF OnGate, At, OtherStep, sources
<1>5. CASE StoreDisplay(t)
  BY <1>5 DEF StoreDisplay, At, OtherStep, sources
<1>6. CASE SetDPMS(t)
  BY <1>6 DEF SetDPMS, At, OtherStep, sources
<1>7. CASE ReportDisplay(t)
  BY <1>7 DEF ReportDisplay, At, OtherStep, sources
<1>8. CASE Suppress(t)
  BY <1>8 DEF Suppress, At, OtherStep, sources
<1>9. CASE SetLocked(t)
  BY <1>9 DEF SetLocked, At, OtherStep, sources
<1>10. CASE TestInhibited(t)
  <2>1. Return(t) \/ Call(t, <<"testLocked">>)
    BY <1>10, Zenon DEF TestInhibited
  <2> QED
    BY <1>10, <2>1, CalledPrograms DEF TestInhibited, At, OtherStep, sources
<1>11. CASE TestLocked(t)
  <2>1. Return(t) \/ Call(t, Lock)
    BY <1>11, Zenon DEF TestLocked
  <2> QED
    BY <1>11, <2>1, LiteralPrograms DEF TestLocked, At, OtherStep, sources
<1>12. CASE Notify(t)
  <2>1. Call(t, <<"noteLocked">>) \/ Call(t, <<"noteUnlocked">>)
    BY <1>12, Zenon DEF Notify
  <2> QED
    BY <1>12, <2>1, CalledPrograms DEF Notify, At, OtherStep, sources
<1>13. ASSUME NEW v \in BOOLEAN, Note(t, v)
       PROVE  OtherStep(t)
  <2>1. Call(t, DisplayOn \o <<"recreate">>) \/ Call(t, DisplayOn)
    BY <1>13, Zenon DEF Note
  <2>2. Program(DisplayOn \o <<"recreate">>) /\ Program(DisplayOn)
    BY LiteralPrograms, ComposedPrograms
  <2>3. At(t, "noteLocked") \/ At(t, "noteUnlocked")
    BY <1>13, Zenon DEF Note
  <2> QED
    BY <1>13, <2>1, <2>2, <2>3 DEF Note, At, OtherStep, sources
<1>14. CASE Recreate(t)
  BY <1>14 DEF Recreate, At, OtherStep, sources
<1>15. CASE Idled(t)
  <2>1. \/ Call(t, <<>>) \/ Call(t, DisplayOff)
        \/ Call(t, DisplayOff \o <<"armDelay">>)
    BY <1>15, Zenon DEF Idled
  <2>2. /\ Program(<<>>) /\ Program(DisplayOff)
        /\ Program(DisplayOff \o <<"armDelay">>)
    BY EmptyProgram, LiteralPrograms, ComposedPrograms
  <2>3. At(t, "idledLocked") \/ At(t, "idledUnlocked")
    BY <1>15 DEF Idled
  <2> QED
    BY <1>15, <2>1, <2>2, <2>3 DEF Idled, At, OtherStep, sources
<1>16. CASE ArmDelay(t)
  BY <1>16 DEF ArmDelay, At, OtherStep, sources
<1> QED
  BY <1>1, <1>2, <1>3, <1>4, <1>5, <1>6, <1>7, <1>8, <1>9, <1>10, <1>11, <1>12, <1>13,
     <1>14, <1>15, <1>16 DEF Others

----------------------------------------------------------------------------
(* The actions that do.                                                    *)

\* What a report changes.
LEMMA FlagsAfterShape ==
  ASSUME NEW op \in FlagOps, FlagsOK
  PROVE  \/ \E b \in BOOLEAN : FlagsAfter(op) = [flags EXCEPT !.screensaver = b]
         \/ \E b \in BOOLEAN : FlagsAfter(op) = [flags EXCEPT !.logind = b]
         \/ \E n \in Nat : FlagsAfter(op) = [flags EXCEPT !.fullscreen = n]
<1>1. flags.fullscreen \in Nat
  BY DEF FlagsOK
<1>2. CASE op = "screensaverOn"
  BY <1>2 DEF FlagsAfter
<1>3. CASE op = "screensaverOff"
  BY <1>3 DEF FlagsAfter
<1>4. CASE op = "logindOn"
  BY <1>4 DEF FlagsAfter
<1>5. CASE op = "logindOff"
  BY <1>5 DEF FlagsAfter
<1>6. CASE op = "countUp"
  <2> DEFINE n == flags.fullscreen + 1
  <2>1. FlagsAfter(op) = [flags EXCEPT !.fullscreen = n]
    BY <1>6 DEF FlagsAfter
  <2>2. n \in Nat
    BY <1>1
  <2> HIDE DEF n
  <2> QED
    BY <2>1, <2>2
<1>7. CASE op = "countDown"
  <2> DEFINE n == IF flags.fullscreen > 0 THEN flags.fullscreen - 1 ELSE 0
  <2>1. FlagsAfter(op) = [flags EXCEPT !.fullscreen = n]
    BY <1>7 DEF FlagsAfter
  <2>2. n \in Nat
    BY <1>1
  <2> HIDE DEF n
  <2> QED
    BY <2>1, <2>2
<1>8. CASE op = "countReset"
  BY <1>8 DEF FlagsAfter
<1> QED
  BY <1>2, <1>3, <1>4, <1>5, <1>6, <1>7, <1>8 DEF FlagOps

LEMMA SetFlagKeeps ==
  ASSUME NEW t \in Threads, IInv, SetFlag(t)
  PROVE  IInv'
<1>1. PICK op \in FlagOps : At(t, op) /\ flags' = FlagsAfter(op)
  BY DEF SetFlag
<1>2. Return(t) /\ UNCHANGED inhibited
  BY DEF SetFlag
<1>3. FlagsOK'
  BY <1>1, FlagsAfterShape DEF FlagsOK, IInv
<1>4. todo[t] # <<>> /\ Head(todo[t]) \in FlagOps
  BY <1>1 DEF At
<1>5. ProgramsOK' /\ Mentions(todo'[t], "recompute")
  BY <1>2, <1>4, ReturnShape DEF IInv
<1>6. InhibitionFollows'
  BY <1>5 DEF InhibitionFollows, WillRecompute, Mentions
<1> QED
  BY <1>2, <1>3, <1>5, <1>6 DEF IInv

LEMMA RecomputeKeeps ==
  ASSUME NEW t \in Threads, IInv, Recompute(t)
  PROVE  IInv'
<1>1. todo[t] # <<>> /\ UNCHANGED flags /\ inhibited' = (Raised # {})
  BY DEF Recompute, At, sources
<1>2. \/ Return(t) \/ Call(t, DisplayOn \o <<"recreate">>)
      \/ Call(t, <<"recreate">>)
  BY Zenon DEF Recompute
<1>3. Program(DisplayOn \o <<"recreate">>) /\ Program(<<"recreate">>)
  BY ComposedPrograms, CalledPrograms
<1>4. ProgramsOK'
  BY <1>1, <1>2, <1>3, ReturnShape, CallShape DEF IInv
<1>5. Raised' = Raised
  BY <1>1 DEF Raised
<1>6. InhibitionFollows'
  BY <1>1, <1>5 DEF InhibitionFollows
<1> QED
  BY <1>1, <1>4, <1>6 DEF IInv, FlagsOK

\* A thread at rest that starts a program changes no source by that.
LEMMA BeginKeeps ==
  ASSUME NEW t \in Threads, NEW p, Program(p), IInv, Begin(t, p),
         UNCHANGED <<flags, inhibited>>
  PROVE  IInv'
<1>1. /\ ProgramsOK' /\ ~Mentions(todo[t], "recompute")
      /\ \A u \in Threads \ {t} : todo'[u] = todo[u]
  BY BeginShape DEF IInv
<1>2. InhibitionFollows'
  BY <1>1, FollowsKept DEF IInv
<1> QED
  BY <1>1, <1>2 DEF IInv, FlagsOK

\* Nor does a step that runs no program.
LEMMA StillKeeps ==
  ASSUME IInv, UNCHANGED <<flags, inhibited, todo>>
  PROVE  IInv'
<1>1. Raised' = Raised
  BY DEF Raised
<1> QED
  BY <1>1 DEF IInv, FlagsOK, ProgramsOK, Paired, InhibitionFollows, WillRecompute

----------------------------------------------------------------------------
(* The invariant.                                                          *)

\* At first nothing inhibits.
LEMMA NothingRaised == Init => Raised = {}
  BY DEF Init, Raised

LEMMA InitIInv == Init => IInv
<1> SUFFICES ASSUME Init
             PROVE  IInv
  OBVIOUS
<1>1. FlagsOK /\ inhibited = FALSE
  BY DEF Init, FlagsOK
<1>2. ProgramsOK
  BY EmptyProgram DEF Init, ProgramsOK, Program
<1>3. InhibitionFollows
  BY <1>1, NothingRaised DEF InhibitionFollows
<1> QED
  BY <1>1, <1>2, <1>3 DEF IInv

LEMMA NextIInv == IInv /\ [Next]_vars => IInv'
<1> SUFFICES ASSUME IInv, [Next]_vars
             PROVE  IInv'
  OBVIOUS
<1>1. ASSUME NEW t \in Threads, Run(t)
      PROVE  IInv'
  <2>1. SetFlag(t) \/ Recompute(t) \/ Others(t)
    BY <1>1 DEF Run, Others
  <2> QED
    BY <2>1, SetFlagKeeps, RecomputeKeeps, OthersAreOther, OtherStepKeeps
<1>2. ASSUME NEW t \in Threads, Request(t)
      PROVE  IInv'
  <2>1. PICK request \in Requests : t \in ThreadsFor(request) /\ Begin(t, ProgramFor(request))
    BY <1>2 DEF Request
  <2>2. Program(ProgramFor(request))
    BY <2>1, RequestPrograms
  <2>3. UNCHANGED <<flags, inhibited>>
    BY <1>2 DEF Request
  <2> QED
    BY <2>1, <2>2, <2>3, BeginKeeps
<1>3. ASSUME NEW d \in Delays, Delayed(d)
      PROVE  IInv'
  <2>1. CASE DelayExpires(d)
    <3>1. d \in Threads /\ Begin(d, DoLock) /\ UNCHANGED <<flags, inhibited>>
      BY <2>1 DEF DelayExpires, Threads, sources
    <3> QED
      BY <3>1, LiteralPrograms, BeginKeeps
  <2>2. CASE DelayCancelled(d)
    BY <2>2, StillKeeps DEF DelayCancelled, sources
  <2> QED
    BY <1>3, <2>1, <2>2 DEF Delayed
<1>4. "wayland" \in Threads
  BY DEF Threads, Monitors
<1>5. CASE NotifIdles
  <2>1. Begin("wayland", <<"idledLocked">>) \/ Begin("wayland", <<"idledUnlocked">>)
    BY <1>5, Zenon DEF NotifIdles
  <2>2. UNCHANGED <<flags, inhibited>>
    BY <1>5 DEF NotifIdles, sources
  <2> QED
    BY <1>4, <2>1, <2>2, CalledPrograms, BeginKeeps
<1>6. CASE Activity
  <2>1. Begin("wayland", Resumed) \/ UNCHANGED todo
    BY <1>6, Zenon DEF Activity
  <2>2. UNCHANGED <<flags, inhibited>>
    BY <1>6 DEF Activity, sources
  <2>3. Program(Resumed)
    BY ComposedPrograms DEF Resumed
  <2> QED
    BY <1>4, <2>1, <2>2, <2>3, BeginKeeps, StillKeeps
<1>7. CASE WaylandConnect
  <2>1. Begin("wayland", <<"recreate">>) /\ UNCHANGED <<flags, inhibited>>
    BY <1>7 DEF WaylandConnect, sources
  <2> QED
    BY <1>4, <2>1, CalledPrograms, BeginKeeps
<1>8. CASE WaylandLost \/ Leave \/ PowersaveTick \/ Tick \/ UNCHANGED vars
  BY <1>8, StillKeeps DEF WaylandLost, Leave, PowersaveTick, Tick, vars, sources
<1> QED
  BY <1>1, <1>2, <1>3, <1>5, <1>6, <1>7, <1>8 DEF Next

LEMMA SpecIInv == Spec => []IInv
<1> QED
  BY InitIInv, NextIInv, PTL DEF Spec

\* The state that gates the timers and the lock (recomputeInhibition) never stays out of
\* step with its sources: while it differs from them, some goroutine is on its way to
\* recompute it, however many goroutines report sources at once.
THEOREM InhibitionIsFollowed == Spec => []InhibitionFollows
<1>1. IInv => InhibitionFollows
  BY DEF IInv
<1> QED
  BY <1>1, SpecIInv, PTL

----------------------------------------------------------------------------
(* The service implements the policy.                                      *)

\* A source that is reported is raised or lowered in the policy.
LEMMA SetFlagRefines ==
  ASSUME NEW t \in Threads, IInv, SetFlag(t)
  PROVE  Policy!Next
<1>1. PICK op \in FlagOps : flags' = FlagsAfter(op)
  BY DEF SetFlag
<1>2. UNCHANGED inhibited
  BY DEF SetFlag
<1>3. FlagsOK
  BY DEF IInv
<1>4. CASE \E b \in BOOLEAN : flags' = [flags EXCEPT !.screensaver = b]
  <2>1. Raised' = Raised \cup {"screensaver"} \/ Raised' = Raised \ {"screensaver"}
    BY <1>3, <1>4 DEF Raised, FlagsOK
  <2> QED
    BY <1>2, <2>1 DEF Policy!Next, Policy!Raise, Policy!Lower
<1>5. CASE \E b \in BOOLEAN : flags' = [flags EXCEPT !.logind = b]
  <2>1. Raised' = Raised \cup {"logind"} \/ Raised' = Raised \ {"logind"}
    BY <1>3, <1>5 DEF Raised, FlagsOK
  <2> QED
    BY <1>2, <2>1 DEF Policy!Next, Policy!Raise, Policy!Lower
<1>6. CASE \E n \in Nat : flags' = [flags EXCEPT !.fullscreen = n]
  <2>1. Raised' = Raised \cup {"fullscreen"} \/ Raised' = Raised \ {"fullscreen"}
    BY <1>3, <1>6 DEF Raised, FlagsOK
  <2> QED
    BY <1>2, <2>1 DEF Policy!Next, Policy!Raise, Policy!Lower
<1> QED
  BY <1>1, <1>3, <1>4, <1>5, <1>6, FlagsAfterShape

\* A recomputation publishes; every other step is a stutter.
LEMMA StepRefines == IInv /\ [Next]_vars => [Policy!Next]_(Policy!vars)
<1> SUFFICES ASSUME IInv, [Next]_vars
             PROVE  Policy!Next \/ UNCHANGED Policy!vars
  OBVIOUS
<1>1. ASSUME NEW t \in Threads, Run(t)
      PROVE  Policy!Next \/ UNCHANGED <<flags, inhibited>>
  <2>1. CASE SetFlag(t)
    BY <2>1, SetFlagRefines
  <2>2. CASE Recompute(t)
    <3>1. inhibited' = (Raised # {}) /\ UNCHANGED flags
      BY <2>2 DEF Recompute, sources
    <3>2. Raised' = Raised
      BY <3>1 DEF Raised
    <3> QED
      BY <3>1, <3>2 DEF Policy!Next, Policy!Publish
  <2>3. CASE Others(t)
    BY <2>3, OthersAreOther DEF OtherStep
  <2> QED
    BY <1>1, <2>1, <2>2, <2>3 DEF Run, Others
<1>2. ASSUME NEW t \in Threads, Request(t)
      PROVE  UNCHANGED <<flags, inhibited>>
  BY <1>2 DEF Request
<1>3. ASSUME NEW d \in Delays, Delayed(d)
      PROVE  UNCHANGED <<flags, inhibited>>
  BY <1>3 DEF Delayed, DelayExpires, DelayCancelled, sources
<1>4. CASE \/ NotifIdles \/ Activity \/ WaylandLost \/ WaylandConnect \/ Leave
           \/ PowersaveTick \/ Tick \/ UNCHANGED vars
  <2>1. UNCHANGED <<flags, inhibited>>
    BY <1>4 DEF NotifIdles, Activity, WaylandLost, WaylandConnect, Leave, PowersaveTick,
                Tick, vars, sources
  <2> QED
    BY <2>1 DEF Policy!vars, Raised
<1>5. UNCHANGED <<flags, inhibited>> => UNCHANGED Policy!vars
  BY DEF Policy!vars, Raised
<1> QED
  BY <1>1, <1>2, <1>3, <1>4, <1>5 DEF Next

\* Whatever goroutines report sources at once, each published state is one the sources had
\* when it was published, and no source undoes another: the service behaves as the policy
\* (its fairness aside).
THEOREM PolicyImplemented == Spec => Policy!Init /\ [][Policy!Next]_(Policy!vars)
<1>1. Init => Policy!Init
  BY NothingRaised DEF Init, Policy!Init
<1> QED
  BY <1>1, StepRefines, SpecIInv, PTL DEF Spec

----------------------------------------------------------------------------
(* Which operation may come after which, and whose it is.                  *)

\* The next operation of a program, if there is one.
First(s) == IF s = <<>> THEN "end" ELSE Head(s)

\* b, or the end of the program, may come right after a.
Follows(a, b) ==
  /\ a = "suppress" => b = "setLocked"
  /\ a \in {"setLocked", "clearLocked"} => b = "notify"
  /\ a \in {"notify", "noteLocked", "noteUnlocked"} => b \in {"onGate", "storeOff", "end"}
  /\ a \in {"onGate", "reportOn"} => b \in {"onGate", "recreate", "storeOff", "end"}
  /\ a = "recreate" => b \in {"onGate", "storeOff", "end"}
  /\ a = "storeOn" => b = "dpmsOn"
  /\ a = "dpmsOn" => b = "reportOn"
  /\ a = "storeOff" => b = "dpmsOff"
  /\ a = "dpmsOff" => b = "reportOff"
  /\ a = "reportOff" => b \in {"armDelay", "end"}
  /\ a \in {"testInhibited", "testLocked", "idledLocked", "idledUnlocked", "armDelay",
            "recompute", "rangeInhibitors"} => b = "end"
  /\ a = "storeInhibitor" => b = "screensaverOn"
  /\ a = "deleteInhibitor" => b = "rangeInhibitors"
  /\ a \in FlagOps => b = "recompute"

Chained(s) ==
  \A i \in 1..Len(s) : Follows(s[i], IF i = Len(s) THEN "end" ELSE s[i + 1])

\* The applications, the Wayland dispatcher and the Hyprland event reader have
\* operations of their own.
InhibitorOps == {"storeInhibitor", "deleteInhibitor", "rangeInhibitors",
                 "screensaverOn", "screensaverOff"}

IdledOps == {"idledLocked", "idledUnlocked", "armDelay"}

CountOps == {"countUp", "countDown", "countReset"}

MayRun(t, op) ==
  /\ op \in InhibitorOps => t \in Apps
  /\ op \in IdledOps => t = "wayland"
  /\ op \in CountOps => t = "hyprland"

Owned(t, s) == \A i \in 1..Len(s) : MayRun(t, s[i])

WellFormed(t, s) == s \in Seq(Ops) /\ Chained(s) /\ Owned(t, s)

ProgramsWellFormed ==
  /\ todo \in [Threads -> Seq(Ops)]
  /\ \A t \in Threads : Chained(todo[t]) /\ Owned(t, todo[t])

----------------------------------------------------------------------------
(* The delayed lock.                                                       *)

BlockedOK == \E request \in DOMAIN BlockInhibited : blocked = BlockInhibited[request]

\* Everything but the programs has its type, and a fullscreen window that is about to
\* be counted has room.
StateOK ==
  /\ locked \in BOOLEAN
  /\ flags \in FlagsType
  /\ inhibitors \subseteq Apps
  /\ BlockedOK
  /\ inhibited \in BOOLEAN
  /\ displayOn \in BOOLEAN /\ dpms \in BOOLEAN
  /\ forced \in BOOLEAN /\ lastLocked \in BOOLEAN
  /\ lockCancel \in Delays \cup {"nil"}
  /\ delay \in [Delays -> DelayType]
  /\ notif \in NotifType
  /\ connected \in BOOLEAN
  /\ away \in BOOLEAN
  /\ PS!PsTypeOK

RoomToCount == First(todo["hyprland"]) = "countUp" => flags.fullscreen < MaxFullscreen

\* The dispatcher is going to start a lock delay.
Arming == Mentions(todo["wayland"], "armDelay") \/ Mentions(todo["wayland"], "idledUnlocked")

\* While it is, no delay runs and an idle timer of an unlocked session has just started:
\* a delay is shorter than any idle timer that starts while it runs.
FreshWhileArming ==
  Arming =>
    /\ \A d \in Delays : ~delay[d].running
    /\ notif.mode = "unlocked" /\ ~notif.idled => notif.left = IdleTimeout

DelayEndsFirst ==
  \A d \in Delays : delay[d].running /\ notif.mode = "unlocked" /\ ~notif.idled
                      => delay[d].left < notif.left

DelaysOK == FreshWhileArming /\ DelayEndsFirst /\ NoOrphanDelay

TInv == StateOK /\ RoomToCount /\ ProgramsWellFormed

----------------------------------------------------------------------------
(* One program at a time.                                                  *)

Mode(v) == IF v THEN "locked" ELSE "unlocked"

\* A lock is still coming.
Coming == \E d \in Delays : delay[d].running /\ ~delay[d].cancelled

NeverRestarts == "wayland restart" \notin Requests

Held == inhibitors # {}

\* An unlocked session is dark because its idle timer ran out.
IdledOut == notif.mode = "unlocked" /\ notif.idled /\ ~inhibited

\* What is known when f is the next operation, r says whether the timers will be recreated
\* and o whether the display will be turned off.
Story(f, r, o) ==
  \* the display
  /\ f \in {"dpmsOn", "reportOn"} => displayOn
  /\ f \in {"dpmsOff", "reportOff"} => ~displayOn
  /\ f = "reportOn" => dpms
  /\ f = "reportOff" => ~dpms
  /\ f \in {"dpmsOn", "dpmsOff"} => screenOff = ~dpms
  /\ f \notin {"dpmsOn", "reportOn", "dpmsOff", "reportOff"} =>
       dpms = displayOn /\ screenOff = ~displayOn
  \* the lock and its timer
  /\ f = "noteLocked" => locked
  /\ f = "noteUnlocked" => ~locked
  /\ f \notin {"notify", "noteLocked", "noteUnlocked"} => lastLocked = locked
  /\ ~r /\ notif.mode # "none" => notif.mode = Mode(lastLocked)
  /\ notif.mode # "none" => connected
  /\ f = "idledLocked" => locked
  /\ f = "idledUnlocked" => ~locked /\ notif.mode = "unlocked" /\ notif.idled
  \* the ScreenSaver source
  /\ f = "screensaverOn" => Held
  /\ f = "screensaverOff" => ~Held
  /\ f = "rangeInhibitors" => flags.screensaver
  /\ f = "deleteInhibitor" => Held
  /\ f \notin {"screensaverOn", "screensaverOff", "rangeInhibitors"} =>
       (flags.screensaver <=> Held)
  \* the display that is forced off, and the deep idle mode
  /\ forced /\ ~locked => f \in {"setLocked", "notify", "noteUnlocked"}
  /\ active => screenOff
  /\ active /\ ~locked => \/ f \in {"notify", "noteUnlocked", "storeOn", "dpmsOn", "reportOn"}
                          \/ f = "onGate" /\ ~forced
  \* the delayed lock
  /\ f = "armDelay" => ~displayOn
  /\ Coming => ~displayOn /\ f # "storeOn"
  \* the display that will go off
  /\ o => f \in {"suppress", "setLocked", "notify", "noteLocked", "onGate", "storeOn",
                 "dpmsOn", "reportOn", "recreate", "storeOff", "dpmsOff", "reportOff",
                 "armDelay"}
  /\ o /\ f \in {"notify", "onGate", "storeOn", "dpmsOn", "reportOn", "recreate"} => locked
  /\ o /\ f \notin {"suppress", "setLocked"} /\ NeverRestarts => locked \/ IdledOut
  \* and the dark one
  /\ NeverRestarts /\ ~displayOn /\ ~locked =>
       \/ f \in {"notify", "noteUnlocked", "storeOn"}
       \/ f = "onGate" /\ ~forced
       \/ f # "recreate" /\ IdledOut

Told(s) == Story(First(s), Mentions(s, "recreate"), Mentions(s, "storeOff"))

AtWork(t) == \A u \in Threads \ {t} : AtRest(u)

OneStory == \E t \in Threads : AtWork(t) /\ Told(todo[t])

----------------------------------------------------------------------------
(* Chains.                                                                 *)

\* Program p, which thread t may run, starts with b, ends with z and consists of the
\* operations in M.
IsProgram(t, p, b, z, M) ==
  /\ WellFormed(t, p) /\ p # <<>>
  /\ First(p) = b /\ p[Len(p)] = z
  /\ \A op : Mentions(p, op) <=> op \in M

LEMMA EndOfProgram ==
  ASSUME NEW s \in Seq(Ops), First(s) = "end"
  PROVE  s = <<>> /\ \A op : ~Mentions(s, op)
<1>1. s = <<>>
  <2> SUFFICES ASSUME s # <<>>
               PROVE  FALSE
    OBVIOUS
  <2>1. Head(s) \in Ops
    BY HeadTailProperties
  <2> QED
    BY <2>1 DEF First, Ops
<1>2. Len(s) = 0
  BY <1>1, EmptySeq
<1> QED
  BY <1>1, <1>2 DEF Mentions

LEMMA RestOfProgram ==
  ASSUME NEW t, NEW s, WellFormed(t, s), s # <<>>
  PROVE  /\ WellFormed(t, Tail(s))
         /\ First(s) \in Ops /\ MayRun(t, First(s))
         /\ Follows(First(s), First(Tail(s)))
         /\ \A op : Mentions(s, op) <=> op = First(s) \/ Mentions(Tail(s), op)
<1>1. /\ Len(s) \in Nat /\ Len(s) > 0
      /\ Head(s) = s[1] /\ Head(s) \in Ops
      /\ Tail(s) \in Seq(Ops)
      /\ Len(Tail(s)) = Len(s) - 1
      /\ \A i \in 1..Len(Tail(s)) : Tail(s)[i] = s[i + 1]
  BY HeadTailProperties, EmptySeq, LenProperties DEF WellFormed
<1>2. First(s) = s[1]
  BY <1>1 DEF First
<1>3. 1 \in 1..Len(s)
  BY <1>1
<1>4. Follows(First(s), First(Tail(s)))
  <2>1. Follows(s[1], IF 1 = Len(s) THEN "end" ELSE s[1 + 1])
    BY <1>3 DEF WellFormed, Chained
  <2>2. CASE Len(s) = 1
    <3>0. Len(Tail(s)) = 0
      BY <1>1, <2>2
    <3>1. Tail(s) = <<>>
      BY <1>1, <3>0, EmptySeq
    <3> QED
      BY <1>2, <2>1, <2>2, <3>1 DEF First
  <2>3. CASE Len(s) # 1
    <3>1. Tail(s) # <<>> /\ 1 \in 1..Len(Tail(s))
      BY <1>1, <2>3, EmptySeq
    <3>2. Head(Tail(s)) = Tail(s)[1] /\ Tail(s)[1] = s[1 + 1]
      BY <1>1, <3>1, HeadTailProperties
    <3> QED
      BY <1>2, <2>1, <2>3, <3>1, <3>2 DEF First
  <2> QED
    BY <2>2, <2>3
<1>5. Chained(Tail(s))
  <2> SUFFICES ASSUME NEW i \in 1..Len(Tail(s))
               PROVE  Follows(Tail(s)[i], IF i = Len(Tail(s)) THEN "end" ELSE Tail(s)[i + 1])
    BY DEF Chained
  <2>1. i + 1 \in 1..Len(s) /\ Tail(s)[i] = s[i + 1]
    BY <1>1
  <2>2. Follows(s[i + 1], IF i + 1 = Len(s) THEN "end" ELSE s[(i + 1) + 1])
    BY <2>1 DEF WellFormed, Chained
  <2>3. CASE i = Len(Tail(s))
    BY <1>1, <2>1, <2>2, <2>3
  <2>4. CASE i # Len(Tail(s))
    <3> DEFINE n == Len(Tail(s))
               m == Len(s)
    <3>0. m \in Nat /\ m > 0 /\ n = m - 1 /\ i \in 1..n
      BY <1>1
    <3>1. n \in Nat /\ m = n + 1 /\ i \in 1..n /\ i # n
      <4>1. i # n
        BY <2>4
      <4> HIDE DEF n, m
      <4> QED
        BY <3>0, <4>1
    <3>2. i + 1 \in 1..n /\ i + 1 # m
      <4> HIDE DEF n, m
      <4> QED
        BY <3>1
    <3> QED
      BY <1>1, <2>1, <2>2, <2>4, <3>2
  <2> QED
    BY <2>3, <2>4
<1>6. Owned(t, Tail(s)) /\ MayRun(t, First(s))
  <2>1. \A i \in 1..Len(Tail(s)) : i + 1 \in 1..Len(s)
    BY <1>1
  <2> QED
    BY <1>1, <1>2, <1>3, <2>1 DEF WellFormed, Owned
<1>7. ASSUME NEW op
      PROVE  Mentions(s, op) <=> op = First(s) \/ Mentions(Tail(s), op)
  <2>1. ASSUME Mentions(s, op), op # First(s)
        PROVE  Mentions(Tail(s), op)
    <3>1. PICK i \in 1..Len(s) : s[i] = op
      BY <2>1 DEF Mentions
    <3>2. i # 1
      BY <1>2, <2>1, <3>1
    <3>3. i - 1 \in 1..Len(Tail(s)) /\ (i - 1) + 1 = i
      BY <1>1, <3>2
    <3>4. Tail(s)[i - 1] = op
      BY <1>1, <3>1, <3>3
    <3> QED
      BY <3>3, <3>4 DEF Mentions
  <2>2. ASSUME Mentions(Tail(s), op)
        PROVE  Mentions(s, op)
    <3>1. PICK i \in 1..Len(Tail(s)) : Tail(s)[i] = op
      BY <2>2 DEF Mentions
    <3>2. i + 1 \in 1..Len(s) /\ s[i + 1] = op
      BY <1>1, <3>1
    <3> QED
      BY <3>2 DEF Mentions
  <2>3. op = First(s) => Mentions(s, op)
    BY <1>2, <1>3 DEF Mentions
  <2> QED
    BY <2>1, <2>2, <2>3
<1> QED
  BY <1>1, <1>2, <1>4, <1>5, <1>6, <1>7 DEF WellFormed

\* One program after another.
LEMMA ProgramThenRest ==
  ASSUME NEW t, NEW p, NEW q, NEW b, NEW z, NEW M, IsProgram(t, p, b, z, M),
         WellFormed(t, q), Follows(z, First(q))
  PROVE  /\ WellFormed(t, p \o q) /\ p \o q # <<>>
         /\ First(p \o q) = b
         /\ \A op : Mentions(p \o q, op) <=> op \in M \/ Mentions(q, op)
         /\ q # <<>> => (p \o q)[Len(p \o q)] = q[Len(q)]
<1> DEFINE s == p \o q
           m == Len(p)
           n == Len(q)
<1>1. /\ p \in Seq(Ops) /\ q \in Seq(Ops) /\ s \in Seq(Ops)
      /\ m \in Nat /\ m > 0 /\ n \in Nat
      /\ Len(s) = m + n
      /\ \A i \in 1..(m + n) : s[i] = IF i <= m THEN p[i] ELSE q[i - m]
  BY ConcatProperties, LenProperties, EmptySeq DEF IsProgram, WellFormed
<1>2. s # <<>> /\ Head(s) = s[1] /\ Head(p) = p[1] /\ s[1] = p[1]
  BY <1>1, EmptySeq, HeadTailProperties DEF IsProgram
<1>3. First(s) = b
  BY <1>2 DEF First, IsProgram
<1>4. Chained(p) /\ Chained(q) /\ Owned(t, p) /\ Owned(t, q)
  BY DEF IsProgram, WellFormed
<1>5. First(q) = IF n = 0 THEN "end" ELSE q[1]
  BY <1>1, EmptySeq, HeadTailProperties DEF First
<1>6. p[m] = z
  BY DEF IsProgram
<1> HIDE DEF s, m, n
<1>7. Chained(s)
  <2> SUFFICES ASSUME NEW i \in 1..(m + n)
               PROVE  Follows(s[i], IF i = m + n THEN "end" ELSE s[i + 1])
    BY <1>1 DEF Chained
  <2>1. CASE i < m
    <3>1. i \in 1..m /\ i + 1 \in 1..(m + n) /\ i + 1 <= m /\ i # m + n
      BY <1>1, <2>1
    <3>2. s[i] = p[i] /\ s[i + 1] = p[i + 1]
      BY <1>1, <2>1, <3>1
    <3>3. Follows(p[i], IF i = m THEN "end" ELSE p[i + 1])
      BY <1>4, <3>1 DEF Chained, m
    <3> QED
      BY <2>1, <3>1, <3>2, <3>3
  <2>2. CASE i = m
    <3>1. s[i] = z
      BY <1>1, <1>6, <2>2
    <3>2. CASE n = 0
      BY <1>1, <1>5, <2>2, <3>1, <3>2
    <3>3. CASE n # 0
      <4>1. i + 1 \in 1..(m + n) /\ ~(i + 1 <= m) /\ (i + 1) - m = 1 /\ i # m + n
        BY <1>1, <2>2, <3>3
      <4>2. s[i + 1] = q[1]
        BY <1>1, <4>1
      <4> QED
        BY <1>5, <3>1, <3>3, <4>1, <4>2
    <3> QED
      BY <3>2, <3>3
  <2>3. CASE i > m
    <3>1. i - m \in 1..n /\ s[i] = q[i - m]
      BY <1>1, <2>3
    <3>2. Follows(q[i - m], IF i - m = n THEN "end" ELSE q[(i - m) + 1])
      BY <1>4, <3>1 DEF Chained, n
    <3>3. CASE i = m + n
      BY <1>1, <3>1, <3>2, <3>3
    <3>4. CASE i # m + n
      <4>1. i + 1 \in 1..(m + n) /\ (i + 1) - m = (i - m) + 1 /\ ~(i + 1 <= m) /\ i - m # n
        BY <1>1, <2>3, <3>4
      <4>2. s[i + 1] = q[(i - m) + 1]
        BY <1>1, <4>1
      <4> QED
        BY <3>1, <3>2, <3>4, <4>1, <4>2
    <3> QED
      BY <3>3, <3>4
  <2> QED
    BY <1>1, <2>1, <2>2, <2>3
<1>8. Owned(t, s)
  <2> SUFFICES ASSUME NEW i \in 1..(m + n)
               PROVE  MayRun(t, s[i])
    BY <1>1 DEF Owned
  <2>1. CASE i <= m
    BY <1>1, <1>4, <2>1 DEF Owned, m
  <2>2. CASE i > m
    <3>1. i - m \in 1..n /\ s[i] = q[i - m]
      BY <1>1, <2>2
    <3> QED
      BY <1>4, <3>1 DEF Owned, n
  <2> QED
    BY <1>1, <2>1, <2>2
<1>9. ASSUME NEW op
      PROVE  Mentions(s, op) <=> op \in M \/ Mentions(q, op)
  <2>1. op \in M <=> Mentions(p, op)
    BY DEF IsProgram
  <2>2. ASSUME Mentions(s, op)
        PROVE  Mentions(p, op) \/ Mentions(q, op)
    <3>1. PICK i \in 1..(m + n) : s[i] = op
      BY <1>1, <2>2 DEF Mentions
    <3>2. CASE i <= m
      <4>1. i \in 1..m /\ p[i] = op
        BY <1>1, <3>1, <3>2
      <4> QED
        BY <4>1 DEF Mentions, m
    <3>3. CASE i > m
      <4>1. i - m \in 1..n /\ q[i - m] = op
        BY <1>1, <3>1, <3>3
      <4> QED
        BY <4>1 DEF Mentions, n
    <3> QED
      BY <1>1, <3>2, <3>3
  <2>3. ASSUME Mentions(p, op)
        PROVE  Mentions(s, op)
    <3>1. PICK i \in 1..m : p[i] = op
      BY <2>3 DEF Mentions, m
    <3>2. i \in 1..(m + n) /\ s[i] = op
      BY <1>1, <3>1
    <3> QED
      BY <1>1, <3>2 DEF Mentions
  <2>4. ASSUME Mentions(q, op)
        PROVE  Mentions(s, op)
    <3>1. PICK i \in 1..n : q[i] = op
      BY <2>4 DEF Mentions, n
    <3>2. m + i \in 1..(m + n) /\ ~(m + i <= m) /\ (m + i) - m = i
      BY <1>1, <3>1
    <3>3. s[m + i] = op
      BY <1>1, <3>1, <3>2
    <3> QED
      BY <1>1, <3>2, <3>3 DEF Mentions
  <2> QED
    BY <2>1, <2>2, <2>3, <2>4
<1>10. q # <<>> => s[Len(s)] = q[Len(q)]
  <2> SUFFICES ASSUME q # <<>>
               PROVE  s[m + n] = q[n]
    BY <1>1 DEF n
  <2>1. n > 0
    BY <1>1, EmptySeq DEF n
  <2>2. m + n \in 1..(m + n) /\ ~(m + n <= m) /\ (m + n) - m = n
    BY <1>1, <2>1
  <2> QED
    BY <1>1, <2>2
<1> QED
  BY <1>1, <1>2, <1>3, <1>7, <1>8, <1>9, <1>10 DEF WellFormed, s

LEMMA ProgramThenProgram ==
  ASSUME NEW t, NEW p, NEW q, NEW b, NEW z, NEW M, IsProgram(t, p, b, z, M),
         NEW c, NEW y, NEW N, IsProgram(t, q, c, y, N), Follows(z, c)
  PROVE  IsProgram(t, p \o q, b, y, M \cup N)
<1>1. WellFormed(t, q) /\ First(q) = c /\ q # <<>>
  BY DEF IsProgram
<1>2. /\ WellFormed(t, p \o q) /\ p \o q # <<>>
      /\ First(p \o q) = b
      /\ \A op : Mentions(p \o q, op) <=> op \in M \/ Mentions(q, op)
      /\ (p \o q)[Len(p \o q)] = q[Len(q)]
  BY <1>1, ProgramThenRest
<1> QED
  BY <1>2 DEF IsProgram

LEMMA NoProgram == \A t : WellFormed(t, <<>>) /\ First(<<>>) = "end"
<1>1. <<>> \in Seq(Ops) /\ Len(<<>>) = 0
  BY EmptySeq
<1> QED
  BY <1>1 DEF WellFormed, Chained, Owned, First

LEMMA ProgramOf1 ==
  ASSUME NEW t, NEW a \in Ops, MayRun(t, a), Follows(a, "end")
  PROVE  IsProgram(t, <<a>>, a, a, {a})
<1>1. <<a>> \in Seq(Ops) /\ Len(<<a>>) = 1 /\ <<a>>[1] = a /\ <<a>> # <<>> /\ Head(<<a>>) = a
  OBVIOUS
<1>2. \A i \in 1..1 : i = 1
  OBVIOUS
<1> HIDE DEF Follows, MayRun
<1> QED
  BY <1>1, <1>2 DEF IsProgram, WellFormed, Chained, Owned, First, Mentions

LEMMA ProgramOf2 ==
  ASSUME NEW t, NEW a \in Ops, MayRun(t, a), NEW b \in Ops, MayRun(t, b),
         Follows(a, b), Follows(b, "end")
  PROVE  IsProgram(t, <<a, b>>, a, b, {a, b})
<1>1. /\ <<a, b>> \in Seq(Ops) /\ Len(<<a, b>>) = 2 /\ <<a, b>> # <<>>
      /\ <<a, b>>[1] = a /\ <<a, b>>[2] = b /\ Head(<<a, b>>) = a
  OBVIOUS
<1>2. \A i \in 1..2 : i = 1 \/ i = 2
  OBVIOUS
<1> HIDE DEF Follows, MayRun
<1> QED
  BY <1>1, <1>2 DEF IsProgram, WellFormed, Chained, Owned, First, Mentions

LEMMA ProgramOf3 ==
  ASSUME NEW t, NEW a \in Ops, MayRun(t, a), NEW b \in Ops, MayRun(t, b),
         NEW c \in Ops, MayRun(t, c), Follows(a, b), Follows(b, c), Follows(c, "end")
  PROVE  IsProgram(t, <<a, b, c>>, a, c, {a, b, c})
<1>1. /\ <<a, b, c>> \in Seq(Ops) /\ Len(<<a, b, c>>) = 3 /\ <<a, b, c>> # <<>>
      /\ <<a, b, c>>[1] = a /\ <<a, b, c>>[2] = b /\ <<a, b, c>>[3] = c
      /\ Head(<<a, b, c>>) = a
  OBVIOUS
<1>2. \A i \in 1..3 : i = 1 \/ i = 2 \/ i = 3
  OBVIOUS
<1> HIDE DEF Follows, MayRun
<1> QED
  BY <1>1, <1>2 DEF IsProgram, WellFormed, Chained, Owned, First, Mentions

\* The programs that any thread may run.
LEMMA CommonPrograms ==
  ASSUME NEW t
  PROVE  /\ IsProgram(t, DisplayOn, "onGate", "onGate", {"onGate"})
         /\ IsProgram(t, DisplayOff, "storeOff", "reportOff",
                      {"storeOff", "dpmsOff", "reportOff"})
         /\ IsProgram(t, <<"storeOn", "dpmsOn", "reportOn">>, "storeOn", "reportOn",
                      {"storeOn", "dpmsOn", "reportOn"})
         /\ IsProgram(t, Lock, "setLocked", "notify", {"setLocked", "notify"})
         /\ IsProgram(t, Unlock, "clearLocked", "notify", {"clearLocked", "notify"})
         /\ IsProgram(t, DoLock, "testInhibited", "testInhibited", {"testInhibited"})
         /\ IsProgram(t, <<"testLocked">>, "testLocked", "testLocked", {"testLocked"})
         /\ IsProgram(t, <<"recreate">>, "recreate", "recreate", {"recreate"})
         /\ IsProgram(t, <<"noteLocked">>, "noteLocked", "noteLocked", {"noteLocked"})
         /\ IsProgram(t, <<"noteUnlocked">>, "noteUnlocked", "noteUnlocked", {"noteUnlocked"})
         /\ IsProgram(t, DisplayOn \o <<"recreate">>, "onGate", "recreate",
                      {"onGate"} \cup {"recreate"})
         /\ IsProgram(t, Resumed, "onGate", "recreate", {"onGate"} \cup {"recreate"})
<1>1. \A a \in {"onGate", "storeOff", "dpmsOff", "reportOff", "storeOn", "dpmsOn", "reportOn",
                "setLocked", "clearLocked", "notify", "testInhibited", "testLocked",
                "recreate", "noteLocked", "noteUnlocked"} : a \in Ops /\ MayRun(t, a)
  BY DEF Ops, MayRun, InhibitorOps, IdledOps, CountOps
<1>2. /\ Follows("onGate", "end") /\ Follows("onGate", "recreate")
      /\ Follows("storeOff", "dpmsOff") /\ Follows("dpmsOff", "reportOff")
      /\ Follows("reportOff", "end")
      /\ Follows("storeOn", "dpmsOn") /\ Follows("dpmsOn", "reportOn")
      /\ Follows("reportOn", "end")
      /\ Follows("setLocked", "notify") /\ Follows("clearLocked", "notify")
      /\ Follows("notify", "end") /\ Follows("testInhibited", "end")
      /\ Follows("testLocked", "end") /\ Follows("recreate", "end")
      /\ Follows("noteLocked", "end") /\ Follows("noteUnlocked", "end")
  BY DEF Follows, FlagOps
<1> HIDE DEF Follows, MayRun
<1>3. IsProgram(t, DisplayOn, "onGate", "onGate", {"onGate"})
  BY <1>1, <1>2, ProgramOf1 DEF DisplayOn
<1>4. IsProgram(t, DisplayOff, "storeOff", "reportOff", {"storeOff", "dpmsOff", "reportOff"})
  BY <1>1, <1>2, ProgramOf3 DEF DisplayOff
<1>5. IsProgram(t, <<"storeOn", "dpmsOn", "reportOn">>, "storeOn", "reportOn",
                {"storeOn", "dpmsOn", "reportOn"})
  BY <1>1, <1>2, ProgramOf3
<1>6. IsProgram(t, Lock, "setLocked", "notify", {"setLocked", "notify"})
  BY <1>1, <1>2, ProgramOf2 DEF Lock
<1>7. IsProgram(t, Unlock, "clearLocked", "notify", {"clearLocked", "notify"})
  BY <1>1, <1>2, ProgramOf2 DEF Unlock
<1>8. IsProgram(t, DoLock, "testInhibited", "testInhibited", {"testInhibited"})
  BY <1>1, <1>2, ProgramOf1 DEF DoLock
<1>9. /\ IsProgram(t, <<"testLocked">>, "testLocked", "testLocked", {"testLocked"})
      /\ IsProgram(t, <<"recreate">>, "recreate", "recreate", {"recreate"})
      /\ IsProgram(t, <<"noteLocked">>, "noteLocked", "noteLocked", {"noteLocked"})
      /\ IsProgram(t, <<"noteUnlocked">>, "noteUnlocked", "noteUnlocked", {"noteUnlocked"})
  BY <1>1, <1>2, ProgramOf1
<1>10. IsProgram(t, DisplayOn \o <<"recreate">>, "onGate", "recreate",
                 {"onGate"} \cup {"recreate"})
  BY <1>2, <1>3, <1>9, ProgramThenProgram
<1> QED
  BY <1>3, <1>4, <1>5, <1>6, <1>7, <1>8, <1>9, <1>10 DEF Resumed

\* The programs of the Wayland dispatcher.
LEMMA IdledPrograms ==
  /\ IsProgram("wayland", <<"idledLocked">>, "idledLocked", "idledLocked", {"idledLocked"})
  /\ IsProgram("wayland", <<"idledUnlocked">>, "idledUnlocked", "idledUnlocked",
               {"idledUnlocked"})
  /\ IsProgram("wayland", DisplayOff \o <<"armDelay">>, "storeOff", "armDelay",
               {"storeOff", "dpmsOff", "reportOff"} \cup {"armDelay"})
<1>1. \A a \in {"idledLocked", "idledUnlocked", "armDelay"} : a \in Ops /\ MayRun("wayland", a)
  BY DEF Ops, MayRun, InhibitorOps, IdledOps, CountOps
<1>2. /\ Follows("idledLocked", "end") /\ Follows("idledUnlocked", "end")
      /\ Follows("armDelay", "end") /\ Follows("reportOff", "armDelay")
  BY DEF Follows, FlagOps
<1> HIDE DEF Follows, MayRun
<1>3. /\ IsProgram("wayland", <<"idledLocked">>, "idledLocked", "idledLocked", {"idledLocked"})
      /\ IsProgram("wayland", <<"idledUnlocked">>, "idledUnlocked", "idledUnlocked",
                   {"idledUnlocked"})
      /\ IsProgram("wayland", <<"armDelay">>, "armDelay", "armDelay", {"armDelay"})
  BY <1>1, <1>2, ProgramOf1
<1> QED
  BY <1>2, <1>3, CommonPrograms, ProgramThenProgram

\* What is known of the program that serves a request, by its first operation.
Serving(request, b, M) ==
  /\ "armDelay" \notin M /\ "idledUnlocked" \notin M /\ "recreate" \notin M
  /\ "storeOff" \in M => b = "suppress"
  /\ b \in {"testLocked", "clearLocked", "suppress", "testInhibited", "storeInhibitor",
            "deleteInhibitor", "logindOn", "logindOff", "countUp", "countDown",
            "countReset"}
  /\ b = "deleteInhibitor" => request = "uninhibit"
  /\ b = "countUp" => request = "fullscreen"

LEMMA ServingPrograms ==
  ASSUME NEW request \in Requests, NEW t \in ThreadsFor(request)
  PROVE  \E b, z, M : IsProgram(t, ProgramFor(request), b, z, M) /\ Serving(request, b, M)
<1>1. request \in AllRequests
  BY IdleLimitsAssumption
<1>5. DOMAIN BlockInhibited = {"block idle", "block sleep and idle", "release"}
  BY DEF BlockInhibited
<1>2. /\ request \notin {"wayland restart", "activity", "leave"}
      /\ request \in {"inhibit", "uninhibit"} => t \in Apps
      /\ request \in {"fullscreen", "unfullscreen", "hyprland restart"} => t = "hyprland"
  <2>1. ASSUME request \in {"wayland restart", "activity", "leave"}
        PROVE  ThreadsFor(request) = {}
    <3>1. /\ request \notin {"lock", "unlock", "password", "power-button"}
          /\ request \notin {"inhibit", "uninhibit"}
          /\ request \notin {"logind lock", "logind unlock"}
          /\ request \notin DOMAIN BlockInhibited
          /\ request \notin {"fullscreen", "unfullscreen", "hyprland restart"}
      BY <1>5, <2>1
    <3> QED
      BY <2>1, <3>1, Zenon DEF ThreadsFor
  <2>2. ASSUME request \in {"inhibit", "uninhibit"}
        PROVE  ThreadsFor(request) = Apps
    <3>1. /\ request \notin {"lock", "unlock", "password", "power-button"}
          /\ request \notin {"logind lock", "logind unlock"}
          /\ request \notin DOMAIN BlockInhibited
          /\ request \notin {"fullscreen", "unfullscreen", "hyprland restart"}
          /\ request \notin {"wayland restart", "activity", "leave"}
      BY <1>5, <2>2
    <3> QED
      BY <2>2, <3>1, Zenon DEF ThreadsFor
  <2>3. ASSUME request \in {"fullscreen", "unfullscreen", "hyprland restart"}
        PROVE  ThreadsFor(request) = {"hyprland"}
    <3>1. /\ request \notin {"lock", "unlock", "password", "power-button"}
          /\ request \notin {"inhibit", "uninhibit"}
          /\ request \notin {"logind lock", "logind unlock"}
          /\ request \notin DOMAIN BlockInhibited
      BY <1>5, <2>3
    <3> QED
      BY <2>3, <3>1, Zenon DEF ThreadsFor
  <2> QED
    BY <2>1, <2>2, <2>3
<1>3. /\ \A a \in {"testLocked", "clearLocked", "suppress", "testInhibited", "setLocked",
                   "notify", "logindOn", "logindOff", "recompute", "onGate"} :
           a \in Ops /\ MayRun(t, a)
      /\ t \in Apps => \A a \in InhibitorOps : a \in Ops /\ MayRun(t, a)
      /\ t = "hyprland" => \A a \in CountOps : a \in Ops /\ MayRun(t, a)
  BY DEF Ops, MayRun, InhibitorOps, IdledOps, CountOps
<1>4. /\ Follows("suppress", "setLocked") /\ Follows("setLocked", "notify")
      /\ Follows("notify", "storeOff") /\ Follows("notify", "end")
      /\ Follows("notify", "onGate") /\ Follows("recompute", "end")
      /\ Follows("storeInhibitor", "screensaverOn") /\ Follows("screensaverOn", "recompute")
      /\ Follows("deleteInhibitor", "rangeInhibitors") /\ Follows("rangeInhibitors", "end")
      /\ \A a \in {"logindOn", "logindOff", "countUp", "countDown", "countReset"} :
           Follows(a, "recompute")
  BY DEF Follows, FlagOps
<1> HIDE DEF Follows, MayRun
<1>7. CASE request \in {"block idle", "block sleep and idle", "release"}
  <2>1. \/ ProgramFor(request) = <<"logindOn", "recompute">>
        \/ ProgramFor(request) = <<"logindOff", "recompute">>
    BY <1>5, <1>7, Zenon DEF ProgramFor
  <2>2. /\ IsProgram(t, <<"logindOn", "recompute">>, "logindOn", "recompute",
                     {"logindOn", "recompute"})
        /\ IsProgram(t, <<"logindOff", "recompute">>, "logindOff", "recompute",
                     {"logindOff", "recompute"})
    BY <1>3, <1>4, ProgramOf2
  <2>3. /\ Serving(request, "logindOn", {"logindOn", "recompute"})
        /\ Serving(request, "logindOff", {"logindOff", "recompute"})
    BY DEF Serving
  <2> QED
    BY <2>1, <2>2, <2>3
<1>8. CASE request = "lock"
  <2>1. ProgramFor(request) = <<"testLocked">>
    BY <1>5, <1>8, Zenon DEF ProgramFor
  <2>2. Serving(request, "testLocked", {"testLocked"})
    BY DEF Serving
  <2> QED
    BY <2>1, <2>2, CommonPrograms
<1>9. CASE request \in {"unlock", "password"}
  <2>1. ProgramFor(request) = Unlock
    BY <1>5, <1>9 DEF ProgramFor
  <2>2. Serving(request, "clearLocked", {"clearLocked", "notify"})
    BY DEF Serving
  <2> QED
    BY <2>1, <2>2, CommonPrograms
<1>10. CASE request = "power-button"
  <2> DEFINE M == {"suppress", "setLocked", "notify"} \cup {"storeOff", "dpmsOff", "reportOff"}
  <2>1. ProgramFor(request) = <<"suppress">> \o Lock \o DisplayOff
    BY <1>5, <1>10 DEF ProgramFor
  <2>2. <<"suppress">> \o Lock = <<"suppress", "setLocked", "notify">>
    <3> DEFINE p == <<"suppress">>
               q == <<"setLocked", "notify">>
               s == <<"suppress", "setLocked", "notify">>
    <3>1. /\ p \in Seq(Ops) /\ q \in Seq(Ops) /\ s \in Seq(Ops)
          /\ Len(p) = 1 /\ Len(q) = 2 /\ Len(s) = 3
          /\ p[1] = s[1] /\ q[1] = s[2] /\ q[2] = s[3]
      BY DEF Ops
    <3> HIDE DEF p, q, s
    <3>2. /\ p \o q \in Seq(Ops) /\ Len(p \o q) = Len(p) + Len(q)
          /\ \A i \in 1..(Len(p) + Len(q)) :
               (p \o q)[i] = IF i <= Len(p) THEN p[i] ELSE q[i - Len(p)]
      BY <3>1, ConcatProperties
    <3>3. Len(p \o q) = 3 /\ \A i \in 1..3 : (p \o q)[i] = s[i]
      BY <3>1, <3>2
    <3>4. p \o q = s
      BY <3>1, <3>2, <3>3, SeqEqual
    <3> QED
      BY <3>4 DEF Lock, p, q, s
  <2>3. IsProgram(t, <<"suppress">> \o Lock, "suppress", "notify",
                  {"suppress", "setLocked", "notify"})
    <3>1. IsProgram(t, <<"suppress", "setLocked", "notify">>, "suppress", "notify",
                    {"suppress", "setLocked", "notify"})
      BY <1>3, <1>4, ProgramOf3
    <3> QED
      BY <2>2, <3>1, Zenon
  <2>4. IsProgram(t, <<"suppress">> \o Lock \o DisplayOff, "suppress", "reportOff", M)
    BY <1>4, <2>3, CommonPrograms, ProgramThenProgram
  <2>5. Serving(request, "suppress", M)
    BY DEF Serving
  <2> HIDE DEF M
  <2> QED
    BY <2>1, <2>4, <2>5
<1>11. CASE request = "logind lock"
  <2>1. ProgramFor(request) = DoLock
    BY <1>5, <1>11 DEF ProgramFor
  <2>2. Serving(request, "testInhibited", {"testInhibited"})
    BY DEF Serving
  <2> QED
    BY <2>1, <2>2, CommonPrograms
<1>12. CASE request = "logind unlock"
  <2>1. ProgramFor(request) = Unlock \o DisplayOn
    BY <1>5, <1>12 DEF ProgramFor
  <2>2. IsProgram(t, Unlock \o DisplayOn, "clearLocked", "onGate",
                  {"clearLocked", "notify"} \cup {"onGate"})
    BY <1>4, CommonPrograms, ProgramThenProgram
  <2>3. Serving(request, "clearLocked", {"clearLocked", "notify"} \cup {"onGate"})
    BY DEF Serving
  <2> QED
    BY <2>1, <2>2, <2>3
<1>13. CASE request = "inhibit"
  <2>1. ProgramFor(request) = <<"storeInhibitor", "screensaverOn", "recompute">>
    BY <1>5, <1>13 DEF ProgramFor
  <2>2. IsProgram(t, <<"storeInhibitor", "screensaverOn", "recompute">>, "storeInhibitor",
                  "recompute", {"storeInhibitor", "screensaverOn", "recompute"})
    BY <1>2, <1>3, <1>4, <1>13, ProgramOf3 DEF InhibitorOps
  <2>3. Serving(request, "storeInhibitor", {"storeInhibitor", "screensaverOn", "recompute"})
    BY DEF Serving
  <2> QED
    BY <2>1, <2>2, <2>3
<1>14. CASE request = "uninhibit"
  <2>1. ProgramFor(request) = <<"deleteInhibitor", "rangeInhibitors">>
    BY <1>5, <1>14 DEF ProgramFor
  <2>2. IsProgram(t, <<"deleteInhibitor", "rangeInhibitors">>, "deleteInhibitor",
                  "rangeInhibitors", {"deleteInhibitor", "rangeInhibitors"})
    BY <1>2, <1>3, <1>4, <1>14, ProgramOf2 DEF InhibitorOps
  <2>3. Serving(request, "deleteInhibitor", {"deleteInhibitor", "rangeInhibitors"})
    BY <1>14 DEF Serving
  <2> QED
    BY <2>1, <2>2, <2>3
<1>15. CASE request \in {"fullscreen", "unfullscreen", "hyprland restart"}
  <2>1. \/ ProgramFor(request) = <<"countUp", "recompute">> /\ request = "fullscreen"
        \/ ProgramFor(request) = <<"countDown", "recompute">>
        \/ ProgramFor(request) = <<"countReset", "recompute">>
    BY <1>5, <1>15 DEF ProgramFor
  <2>2. \A o \in CountOps : IsProgram(t, <<o, "recompute">>, o, "recompute", {o, "recompute"})
    BY <1>2, <1>3, <1>4, <1>15, ProgramOf2 DEF CountOps
  <2>3. /\ request = "fullscreen" => Serving(request, "countUp", {"countUp", "recompute"})
        /\ Serving(request, "countDown", {"countDown", "recompute"})
        /\ Serving(request, "countReset", {"countReset", "recompute"})
    BY DEF Serving
  <2>4. {"countUp", "countDown", "countReset"} = CountOps
    BY DEF CountOps
  <2> QED
    BY <2>1, <2>2, <2>3, <2>4
<1> QED
  BY <1>1, <1>2, <1>7, <1>8, <1>9, <1>10, <1>11, <1>12, <1>13, <1>14, <1>15
     DEF AllRequests

----------------------------------------------------------------------------
(* Steps of a program.                                                     *)

\* Thread t has gone from operation f to operation g, with the operations M before the
\* rest of its program.
Moved(t, f, g, M) ==
  /\ First(todo[t]) = f /\ f \in Ops /\ MayRun(t, f) /\ Mentions(todo[t], f)
  /\ First(todo'[t]) = g
  /\ \A op : op # f => (Mentions(todo'[t], op) <=> op \in M \/ Mentions(todo[t], op))
  /\ g = "end" => \A op : ~Mentions(todo'[t], op)
  /\ \A u \in Threads \ {t} : todo'[u] = todo[u]
  /\ todo[t] # <<>>

MovedOn(t, f) == \E g : Moved(t, f, g, {}) /\ Follows(f, g)

LEMMA OneProgramChanges ==
  ASSUME NEW t \in Threads, ProgramsWellFormed, NEW p, WellFormed(t, p),
         todo' = [todo EXCEPT ![t] = p]
  PROVE  /\ ProgramsWellFormed'
         /\ todo'[t] = p
         /\ \A u \in Threads \ {t} : todo'[u] = todo[u]
<1>1. /\ todo' \in [Threads -> Seq(Ops)]
      /\ todo'[t] = p
      /\ \A u \in Threads \ {t} : todo'[u] = todo[u]
  BY DEF ProgramsWellFormed, WellFormed
<1>2. \A u \in Threads : Chained(todo'[u]) /\ Owned(u, todo'[u])
  BY <1>1 DEF ProgramsWellFormed, WellFormed
<1>3. ProgramsWellFormed'
  BY <1>1, <1>2 DEF ProgramsWellFormed, Chained, Owned
<1> QED
  BY <1>1, <1>3

LEMMA ReturnMoves ==
  ASSUME NEW t \in Threads, ProgramsWellFormed, NEW f, At(t, f), Return(t)
  PROVE  ProgramsWellFormed' /\ MovedOn(t, f)
<1>1. WellFormed(t, todo[t]) /\ todo[t] # <<>> /\ First(todo[t]) = f
  BY DEF ProgramsWellFormed, WellFormed, At, First
<1> DEFINE q == Tail(todo[t])
<1>2. /\ WellFormed(t, q) /\ f \in Ops /\ MayRun(t, f)
      /\ Follows(f, First(q))
      /\ \A op : Mentions(todo[t], op) <=> op = f \/ Mentions(q, op)
  BY <1>1, RestOfProgram
<1>3. todo' = [todo EXCEPT ![t] = q]
  BY DEF Return
<1> HIDE DEF q
<1>4. /\ ProgramsWellFormed' /\ todo'[t] = q
      /\ \A u \in Threads \ {t} : todo'[u] = todo[u]
  BY <1>2, <1>3, OneProgramChanges
<1>5. First(q) = "end" => \A op : ~Mentions(q, op)
  BY <1>2, EndOfProgram DEF WellFormed
<1>6. Moved(t, f, First(q), {})
  BY <1>1, <1>2, <1>4, <1>5, Zenon DEF Moved
<1> QED
  BY <1>2, <1>4, <1>6 DEF MovedOn

LEMMA CallMoves ==
  ASSUME NEW t \in Threads, ProgramsWellFormed, NEW f, At(t, f),
         NEW p, NEW b, NEW z, NEW M, IsProgram(t, p, b, z, M), b \in Ops,
         \A x : Follows(f, x) => Follows(z, x), Call(t, p)
  PROVE  /\ ProgramsWellFormed' /\ Moved(t, f, b, M)
         /\ (\A x : Follows(f, x) => x = "end") => \A op : Mentions(todo'[t], op) <=> op \in M
<1>1. WellFormed(t, todo[t]) /\ todo[t] # <<>> /\ First(todo[t]) = f
  BY DEF ProgramsWellFormed, WellFormed, At, First
<1> DEFINE q == Tail(todo[t])
           s == p \o q
<1>2. /\ WellFormed(t, q) /\ f \in Ops /\ MayRun(t, f)
      /\ Follows(f, First(q))
      /\ \A op : Mentions(todo[t], op) <=> op = f \/ Mentions(q, op)
  BY <1>1, RestOfProgram
<1>3. todo' = [todo EXCEPT ![t] = s]
  BY DEF Call
<1> HIDE DEF q
<1>4. /\ WellFormed(t, s) /\ s # <<>> /\ First(s) = b
      /\ \A op : Mentions(s, op) <=> op \in M \/ Mentions(q, op)
  BY <1>2, ProgramThenRest
<1> HIDE DEF s
<1>5. /\ ProgramsWellFormed' /\ todo'[t] = s
      /\ \A u \in Threads \ {t} : todo'[u] = todo[u]
  BY <1>3, <1>4, OneProgramChanges
<1>6. b # "end"
  BY DEF Ops
<1>7. Moved(t, f, b, M)
  BY <1>1, <1>2, <1>4, <1>5, <1>6, Zenon DEF Moved
<1>8. ASSUME \A x : Follows(f, x) => x = "end"
      PROVE  \A op : Mentions(todo'[t], op) <=> op \in M
  <2>1. First(q) = "end"
    BY <1>2, <1>8
  <2>2. \A op : ~Mentions(q, op)
    BY <1>2, <2>1, EndOfProgram DEF WellFormed
  <2> QED
    BY <1>4, <1>5, <2>2
<1> QED
  BY <1>5, <1>7, <1>8

\* A thread at rest has taken a program.
Begun(t, b, M) ==
  /\ todo[t] = <<>>
  /\ First(todo'[t]) = b
  /\ \A op : Mentions(todo'[t], op) <=> op \in M
  /\ \A u \in Threads \ {t} : todo'[u] = todo[u]
  /\ Serialised => Quiet

LEMMA BeginMoves ==
  ASSUME NEW t \in Threads, ProgramsWellFormed,
         NEW p, NEW b, NEW z, NEW M, IsProgram(t, p, b, z, M), Begin(t, p)
  PROVE  ProgramsWellFormed' /\ Begun(t, b, M)
<1>1. WellFormed(t, p) /\ First(p) = b /\ \A op : Mentions(p, op) <=> op \in M
  BY DEF IsProgram
<1>2. todo[t] = <<>> /\ (Serialised => Quiet) /\ todo' = [todo EXCEPT ![t] = p]
  BY DEF Begin, MayBegin, AtRest
<1>3. /\ ProgramsWellFormed' /\ todo'[t] = p
      /\ \A u \in Threads \ {t} : todo'[u] = todo[u]
  BY <1>1, <1>2, OneProgramChanges
<1> QED
  BY <1>1, <1>2, <1>3, Zenon DEF Begun

----------------------------------------------------------------------------
(* Where each action takes its thread.                                     *)

LEMMA PlainMoves ==
  ASSUME NEW t \in Threads, ProgramsWellFormed
  PROVE  /\ SetFlag(t) => ProgramsWellFormed' /\ \E op \in FlagOps :
                            MovedOn(t, op) /\ flags' = FlagsAfter(op)
         /\ StoreInhibitor(t) => ProgramsWellFormed' /\ MovedOn(t, "storeInhibitor")
         /\ DeleteInhibitor(t) => ProgramsWellFormed' /\ MovedOn(t, "deleteInhibitor")
         /\ StoreDisplay(t) => ProgramsWellFormed'
              /\ \/ MovedOn(t, "storeOn") /\ displayOn' = TRUE
                 \/ MovedOn(t, "storeOff") /\ displayOn' = FALSE
         /\ SetDPMS(t) => ProgramsWellFormed'
              /\ \/ MovedOn(t, "dpmsOn") /\ dpms' = TRUE
                 \/ MovedOn(t, "dpmsOff") /\ dpms' = FALSE
         /\ ReportDisplay(t) => ProgramsWellFormed'
              /\ \/ MovedOn(t, "reportOn") /\ PS!SetScreenOff(FALSE, locked)
                 \/ MovedOn(t, "reportOff") /\ PS!SetScreenOff(TRUE, locked)
         /\ Suppress(t) => ProgramsWellFormed' /\ MovedOn(t, "suppress")
         /\ SetLocked(t) => ProgramsWellFormed'
              /\ \/ MovedOn(t, "setLocked") /\ locked' = TRUE
                 \/ MovedOn(t, "clearLocked") /\ locked' = FALSE
         /\ Recreate(t) => ProgramsWellFormed' /\ MovedOn(t, "recreate")
         /\ ArmDelay(t) => ProgramsWellFormed' /\ MovedOn(t, "armDelay")
<1>1. SetFlag(t) => ProgramsWellFormed' /\ \E op \in FlagOps :
                      MovedOn(t, op) /\ flags' = FlagsAfter(op)
  BY ReturnMoves DEF SetFlag
<1>2. StoreInhibitor(t) => ProgramsWellFormed' /\ MovedOn(t, "storeInhibitor")
  BY ReturnMoves DEF StoreInhibitor
<1>3. DeleteInhibitor(t) => ProgramsWellFormed' /\ MovedOn(t, "deleteInhibitor")
  BY ReturnMoves DEF DeleteInhibitor
<1>4. StoreDisplay(t) => ProgramsWellFormed'
        /\ \/ MovedOn(t, "storeOn") /\ displayOn' = TRUE
           \/ MovedOn(t, "storeOff") /\ displayOn' = FALSE
  BY ReturnMoves DEF StoreDisplay
<1>5. SetDPMS(t) => ProgramsWellFormed'
        /\ \/ MovedOn(t, "dpmsOn") /\ dpms' = TRUE
           \/ MovedOn(t, "dpmsOff") /\ dpms' = FALSE
  BY ReturnMoves DEF SetDPMS
<1>6. ReportDisplay(t) => ProgramsWellFormed'
        /\ \/ MovedOn(t, "reportOn") /\ PS!SetScreenOff(FALSE, locked)
           \/ MovedOn(t, "reportOff") /\ PS!SetScreenOff(TRUE, locked)
  BY ReturnMoves DEF ReportDisplay
<1>7. Suppress(t) => ProgramsWellFormed' /\ MovedOn(t, "suppress")
  BY ReturnMoves DEF Suppress
<1>8. SetLocked(t) => ProgramsWellFormed'
        /\ \/ MovedOn(t, "setLocked") /\ locked' = TRUE
           \/ MovedOn(t, "clearLocked") /\ locked' = FALSE
  BY ReturnMoves DEF SetLocked
<1>9. Recreate(t) => ProgramsWellFormed' /\ MovedOn(t, "recreate")
  BY ReturnMoves DEF Recreate
<1>10. ArmDelay(t) => ProgramsWellFormed' /\ MovedOn(t, "armDelay")
  BY ReturnMoves DEF ArmDelay
<1> QED
  BY <1>1, <1>2, <1>3, <1>4, <1>5, <1>6, <1>7, <1>8, <1>9, <1>10

\* What may come after the operation that calls may come after the called program.
LEMMA CallersFit ==
  /\ \A x : Follows("onGate", x) => Follows("reportOn", x)
  /\ \A x : Follows("notify", x) => Follows("noteLocked", x) /\ Follows("noteUnlocked", x)
  /\ \A x : Follows("noteLocked", x) => Follows("onGate", x) /\ Follows("recreate", x)
  /\ \A x : Follows("noteUnlocked", x) => Follows("onGate", x) /\ Follows("recreate", x)
  /\ \A f \in {"recompute", "rangeInhibitors", "testInhibited", "testLocked", "idledLocked",
               "idledUnlocked"} :
       \A x : Follows(f, x) => x = "end"
  /\ \A z \in {"recompute", "recreate", "testLocked", "notify", "reportOff", "armDelay",
               "onGate"} :
       Follows(z, "end")
<1>1. \A x : Follows("onGate", x) => Follows("reportOn", x)
  BY DEF Follows, FlagOps
<1>2. \A x : Follows("notify", x) => Follows("noteLocked", x) /\ Follows("noteUnlocked", x)
  BY DEF Follows, FlagOps
<1>3. \A x : Follows("noteLocked", x) => Follows("onGate", x) /\ Follows("recreate", x)
  BY DEF Follows, FlagOps
<1>4. \A x : Follows("noteUnlocked", x) => Follows("onGate", x) /\ Follows("recreate", x)
  BY DEF Follows, FlagOps
<1>5. \A f \in {"recompute", "rangeInhibitors", "testInhibited", "testLocked", "idledLocked",
                "idledUnlocked"} :
        \A x : Follows(f, x) => x = "end"
  BY DEF Follows
<1>6. \A z \in {"recompute", "recreate", "testLocked", "notify", "reportOff", "armDelay",
                "onGate"} :
        Follows(z, "end")
  BY DEF Follows, FlagOps
<1> QED
  BY <1>1, <1>2, <1>3, <1>4, <1>5, <1>6

LEMMA RecomputeMoves ==
  ASSUME NEW t \in Threads, ProgramsWellFormed, Recompute(t)
  PROVE  /\ ProgramsWellFormed'
         /\ \/ MovedOn(t, "recompute") /\ inhibited' = inhibited
            \/ /\ Moved(t, "recompute", "onGate", {"onGate"} \cup {"recreate"})
               /\ inhibited' # inhibited /\ inhibited' /\ ~displayOn /\ ~locked
            \/ /\ Moved(t, "recompute", "recreate", {"recreate"})
               /\ inhibited' # inhibited /\ ~(inhibited' /\ ~displayOn /\ ~locked)
<1>1. At(t, "recompute")
  BY DEF Recompute
<1>2. CASE inhibited' = inhibited
  <2>1. Return(t)
    BY <1>2 DEF Recompute
  <2> QED
    BY <1>1, <1>2, <2>1, ReturnMoves
<1>3. CASE inhibited' # inhibited /\ inhibited' /\ ~displayOn /\ ~locked
  <2>1. Call(t, DisplayOn \o <<"recreate">>)
    BY <1>3 DEF Recompute
  <2>2. \A x : Follows("recompute", x) => Follows("recreate", x)
    BY CallersFit
  <2>3. "onGate" \in Ops
    BY DEF Ops
  <2>4. IsProgram(t, DisplayOn \o <<"recreate">>, "onGate", "recreate",
                  {"onGate"} \cup {"recreate"})
    BY CommonPrograms
  <2>5. ProgramsWellFormed' /\ Moved(t, "recompute", "onGate", {"onGate"} \cup {"recreate"})
    BY <1>1, <2>1, <2>2, <2>3, <2>4, CallMoves
  <2> QED
    BY <1>3, <2>5
<1>4. CASE inhibited' # inhibited /\ ~(inhibited' /\ ~displayOn /\ ~locked)
  <2>1. Call(t, <<"recreate">>)
    BY <1>4, Zenon DEF Recompute
  <2>2. \A x : Follows("recompute", x) => Follows("recreate", x)
    BY CallersFit
  <2>3. "recreate" \in Ops
    BY DEF Ops
  <2>4. IsProgram(t, <<"recreate">>, "recreate", "recreate", {"recreate"})
    BY CommonPrograms
  <2>5. ProgramsWellFormed' /\ Moved(t, "recompute", "recreate", {"recreate"})
    BY <1>1, <2>1, <2>2, <2>3, <2>4, CallMoves
  <2> QED
    BY <1>4, <2>5
<1> QED
  BY <1>2, <1>3, <1>4

LEMMA RangeInhibitorsMoves ==
  ASSUME NEW t \in Threads, ProgramsWellFormed, RangeInhibitors(t)
  PROVE  /\ ProgramsWellFormed'
         /\ \/ MovedOn(t, "rangeInhibitors") /\ inhibitors # {}
            \/ /\ Moved(t, "rangeInhibitors", "screensaverOff",
                        {"screensaverOff", "recompute"})
               /\ inhibitors = {}
<1>1. At(t, "rangeInhibitors")
  BY DEF RangeInhibitors
<1>2. CASE inhibitors # {}
  <2>1. Return(t)
    BY <1>2 DEF RangeInhibitors
  <2> QED
    BY <1>1, <1>2, <2>1, ReturnMoves
<1>3. CASE inhibitors = {}
  <2>1. Call(t, <<"screensaverOff", "recompute">>)
    BY <1>3 DEF RangeInhibitors
  <2>2. \A x : Follows("rangeInhibitors", x) => Follows("recompute", x)
    BY CallersFit
  <2>3. /\ "screensaverOff" \in Ops /\ "recompute" \in Ops
        /\ Follows("screensaverOff", "recompute") /\ Follows("recompute", "end")
    BY DEF Ops, Follows, FlagOps
  <2>4. t \in Apps
    <3>1. WellFormed(t, todo[t]) /\ todo[t] # <<>> /\ First(todo[t]) = "rangeInhibitors"
      BY <1>1 DEF ProgramsWellFormed, WellFormed, At, First
    <3> QED
      BY <3>1, RestOfProgram DEF MayRun, InhibitorOps
  <2>5. MayRun(t, "screensaverOff") /\ MayRun(t, "recompute")
    BY <2>4 DEF MayRun, InhibitorOps, IdledOps, CountOps
  <2>6. IsProgram(t, <<"screensaverOff", "recompute">>, "screensaverOff", "recompute",
                  {"screensaverOff", "recompute"})
    BY <2>3, <2>5, ProgramOf2
  <2>7. /\ ProgramsWellFormed'
        /\ Moved(t, "rangeInhibitors", "screensaverOff", {"screensaverOff", "recompute"})
    BY <1>1, <2>1, <2>2, <2>3, <2>6, CallMoves
  <2> QED
    BY <1>3, <2>7
<1> QED
  BY <1>2, <1>3

LEMMA OnGateMoves ==
  ASSUME NEW t \in Threads, ProgramsWellFormed, OnGate(t)
  PROVE  /\ ProgramsWellFormed'
         /\ \/ MovedOn(t, "onGate") /\ forced /\ UNCHANGED <<lockCancel, delay>>
            \/ /\ Moved(t, "onGate", "storeOn", {"storeOn", "dpmsOn", "reportOn"})
               /\ ~forced /\ delay' = Cancelled /\ lockCancel' = "nil"
<1>1. At(t, "onGate")
  BY DEF OnGate
<1>2. CASE forced
  <2>1. Return(t) /\ UNCHANGED <<lockCancel, delay>>
    BY <1>2, Zenon DEF OnGate
  <2> QED
    BY <1>1, <1>2, <2>1, ReturnMoves
<1>3. CASE ~forced
  <2>1. /\ Call(t, <<"storeOn", "dpmsOn", "reportOn">>)
        /\ delay' = Cancelled /\ lockCancel' = "nil"
    BY <1>3, Zenon DEF OnGate
  <2>2. "storeOn" \in Ops
    BY DEF Ops
  <2>3. IsProgram(t, <<"storeOn", "dpmsOn", "reportOn">>, "storeOn", "reportOn",
                  {"storeOn", "dpmsOn", "reportOn"})
    BY CommonPrograms
  <2>4. /\ ProgramsWellFormed'
        /\ Moved(t, "onGate", "storeOn", {"storeOn", "dpmsOn", "reportOn"})
    BY <1>1, <2>1, <2>2, <2>3, CallersFit, CallMoves
  <2> QED
    BY <1>3, <2>1, <2>4
<1> QED
  BY <1>2, <1>3

LEMMA TestMoves ==
  ASSUME NEW t \in Threads, ProgramsWellFormed
  PROVE  /\ TestInhibited(t) => ProgramsWellFormed'
              /\ \/ MovedOn(t, "testInhibited")
                 \/ Moved(t, "testInhibited", "testLocked", {"testLocked"})
         /\ TestLocked(t) => ProgramsWellFormed'
              /\ \/ MovedOn(t, "testLocked")
                 \/ Moved(t, "testLocked", "setLocked", {"setLocked", "notify"})
         /\ Notify(t) => ProgramsWellFormed'
              /\ \/ locked /\ Moved(t, "notify", "noteLocked", {"noteLocked"})
                 \/ ~locked /\ Moved(t, "notify", "noteUnlocked", {"noteUnlocked"})
<1>1. "testLocked" \in Ops /\ "setLocked" \in Ops /\ "noteLocked" \in Ops /\ "noteUnlocked" \in Ops
  BY DEF Ops
<1>2. ASSUME TestInhibited(t)
      PROVE  ProgramsWellFormed' /\ \/ MovedOn(t, "testInhibited")
                                    \/ Moved(t, "testInhibited", "testLocked", {"testLocked"})
  <2>1. At(t, "testInhibited") /\ (Return(t) \/ Call(t, <<"testLocked">>))
    BY <1>2, Zenon DEF TestInhibited
  <2>2. \A x : Follows("testInhibited", x) => Follows("testLocked", x)
    BY CallersFit
  <2>3. IsProgram(t, <<"testLocked">>, "testLocked", "testLocked", {"testLocked"})
    BY CommonPrograms
  <2>4. CASE Return(t)
    BY <2>1, <2>4, ReturnMoves
  <2>5. CASE Call(t, <<"testLocked">>)
    BY <1>1, <2>1, <2>2, <2>3, <2>5, CallMoves
  <2> QED
    BY <2>1, <2>4, <2>5
<1>3. ASSUME TestLocked(t)
      PROVE  ProgramsWellFormed' /\ \/ MovedOn(t, "testLocked")
                                    \/ Moved(t, "testLocked", "setLocked", {"setLocked", "notify"})
  <2>1. At(t, "testLocked") /\ (Return(t) \/ Call(t, Lock))
    BY <1>3, Zenon DEF TestLocked
  <2>2. \A x : Follows("testLocked", x) => Follows("notify", x)
    BY CallersFit
  <2>3. IsProgram(t, Lock, "setLocked", "notify", {"setLocked", "notify"})
    BY CommonPrograms
  <2>4. CASE Return(t)
    BY <2>1, <2>4, ReturnMoves
  <2>5. CASE Call(t, Lock)
    BY <1>1, <2>1, <2>2, <2>3, <2>5, CallMoves
  <2> QED
    BY <2>1, <2>4, <2>5
<1>4. ASSUME Notify(t)
      PROVE  ProgramsWellFormed'
               /\ \/ locked /\ Moved(t, "notify", "noteLocked", {"noteLocked"})
                  \/ ~locked /\ Moved(t, "notify", "noteUnlocked", {"noteUnlocked"})
  <2>1. /\ At(t, "notify")
        /\ \/ locked /\ Call(t, <<"noteLocked">>)
           \/ ~locked /\ Call(t, <<"noteUnlocked">>)
    BY <1>4, Zenon DEF Notify
  <2>2. \A x : Follows("notify", x) => Follows("noteLocked", x) /\ Follows("noteUnlocked", x)
    BY CallersFit
  <2>3. /\ IsProgram(t, <<"noteLocked">>, "noteLocked", "noteLocked", {"noteLocked"})
        /\ IsProgram(t, <<"noteUnlocked">>, "noteUnlocked", "noteUnlocked", {"noteUnlocked"})
    BY CommonPrograms
  <2>4. CASE locked /\ Call(t, <<"noteLocked">>)
    <3>1. ProgramsWellFormed' /\ Moved(t, "notify", "noteLocked", {"noteLocked"})
      BY <1>1, <2>1, <2>2, <2>3, <2>4, CallMoves
    <3> QED
      BY <2>4, <3>1
  <2>5. CASE ~locked /\ Call(t, <<"noteUnlocked">>)
    <3>1. ProgramsWellFormed' /\ Moved(t, "notify", "noteUnlocked", {"noteUnlocked"})
      BY <1>1, <2>1, <2>2, <2>3, <2>5, CallMoves
    <3> QED
      BY <2>5, <3>1
  <2> QED
    BY <2>1, <2>4, <2>5
<1> QED
  BY <1>2, <1>3, <1>4

NoteOf(v) == IF v THEN "noteLocked" ELSE "noteUnlocked"

LEMMA NoteMoves ==
  ASSUME NEW t \in Threads, ProgramsWellFormed, NEW v \in BOOLEAN, Note(t, v)
  PROVE  /\ ProgramsWellFormed'
         /\ \/ v # lastLocked /\ Moved(t, NoteOf(v), "onGate", {"onGate"} \cup {"recreate"})
            \/ v = lastLocked /\ Moved(t, NoteOf(v), "onGate", {"onGate"})
<1>1. At(t, NoteOf(v))
  BY DEF Note, NoteOf
<1>2. "onGate" \in Ops
  BY DEF Ops
<1>3. \A x : Follows(NoteOf(v), x) => Follows("onGate", x) /\ Follows("recreate", x)
  <2>1. NoteOf(v) = "noteLocked" \/ NoteOf(v) = "noteUnlocked"
    BY DEF NoteOf
  <2> QED
    BY <2>1, CallersFit
<1> HIDE DEF NoteOf
<1>4. CASE v # lastLocked
  <2>1. Call(t, DisplayOn \o <<"recreate">>)
    BY <1>4, Zenon DEF Note
  <2>2. IsProgram(t, DisplayOn \o <<"recreate">>, "onGate", "recreate",
                  {"onGate"} \cup {"recreate"})
    BY CommonPrograms
  <2>3. ProgramsWellFormed' /\ Moved(t, NoteOf(v), "onGate", {"onGate"} \cup {"recreate"})
    BY <1>1, <1>2, <1>3, <2>1, <2>2, CallMoves
  <2> QED
    BY <1>4, <2>3
<1>5. CASE v = lastLocked
  <2>1. Call(t, DisplayOn)
    BY <1>5, Zenon DEF Note
  <2>2. IsProgram(t, DisplayOn, "onGate", "onGate", {"onGate"})
    BY CommonPrograms
  <2>3. ProgramsWellFormed' /\ Moved(t, NoteOf(v), "onGate", {"onGate"})
    BY <1>1, <1>2, <1>3, <2>1, <2>2, CallMoves
  <2> QED
    BY <1>5, <2>3
<1> QED
  BY <1>4, <1>5

LEMMA CallOfNothing ==
  ASSUME NEW t \in Threads, ProgramsWellFormed, todo[t] # <<>>, Call(t, <<>>)
  PROVE  Return(t)
<1>1. Tail(todo[t]) \in Seq(Ops)
  BY HeadTailProperties DEF ProgramsWellFormed
<1>2. <<>> \o Tail(todo[t]) = Tail(todo[t])
  BY <1>1, ConcatEmptySeq
<1> QED
  BY <1>2, Zenon DEF Call, Return

LEMMA IdledMoves ==
  ASSUME NEW t \in Threads, ProgramsWellFormed, Idled(t)
  PROVE  /\ ProgramsWellFormed'
         /\ \/ MovedOn(t, "idledLocked") \/ MovedOn(t, "idledUnlocked")
            \/ ~inhibited /\ Moved(t, "idledLocked", "storeOff",
                                   {"storeOff", "dpmsOff", "reportOff"})
            \/ /\ ~inhibited /\ t = "wayland"
               /\ Moved(t, "idledUnlocked", "storeOff",
                        {"storeOff", "dpmsOff", "reportOff"} \cup {"armDelay"})
               /\ \A op : Mentions(todo'[t], op) <=>
                            op \in {"storeOff", "dpmsOff", "reportOff"} \cup {"armDelay"}
<1>1. "storeOff" \in Ops
  BY DEF Ops
<1>2. /\ \A x : Follows("idledLocked", x) => Follows("reportOff", x)
      /\ \A x : Follows("idledUnlocked", x) => Follows("armDelay", x)
      /\ \A x : Follows("idledUnlocked", x) => x = "end"
  BY CallersFit
<1>3. \/ At(t, "idledLocked") /\ (inhibited => Call(t, <<>>)) /\ (~inhibited => Call(t, DisplayOff))
      \/ /\ At(t, "idledUnlocked") /\ (inhibited => Call(t, <<>>))
         /\ ~inhibited => Call(t, DisplayOff \o <<"armDelay">>)
  BY Zenon DEF Idled
<1>4. todo[t] # <<>>
  BY <1>3 DEF At
<1>5. CASE inhibited
  <2>1. Return(t)
    BY <1>3, <1>4, <1>5, CallOfNothing
  <2> QED
    BY <1>3, <2>1, ReturnMoves
<1>6. CASE ~inhibited /\ At(t, "idledLocked") /\ Call(t, DisplayOff)
  <2>1. IsProgram(t, DisplayOff, "storeOff", "reportOff", {"storeOff", "dpmsOff", "reportOff"})
    BY CommonPrograms
  <2>2. /\ ProgramsWellFormed'
        /\ Moved(t, "idledLocked", "storeOff", {"storeOff", "dpmsOff", "reportOff"})
    BY <1>1, <1>2, <1>6, <2>1, CallMoves
  <2> QED
    BY <1>6, <2>2
<1>7. CASE ~inhibited /\ At(t, "idledUnlocked") /\ Call(t, DisplayOff \o <<"armDelay">>)
  <2>1. t = "wayland"
    <3>1. WellFormed(t, todo[t]) /\ todo[t] # <<>> /\ First(todo[t]) = "idledUnlocked"
      BY <1>7 DEF ProgramsWellFormed, WellFormed, At, First
    <3> QED
      BY <3>1, RestOfProgram DEF MayRun, IdledOps
  <2> DEFINE M == {"storeOff", "dpmsOff", "reportOff"} \cup {"armDelay"}
  <2>2. IsProgram(t, DisplayOff \o <<"armDelay">>, "storeOff", "armDelay", M)
    BY <2>1, IdledPrograms
  <2> HIDE DEF M
  <2>3. /\ ProgramsWellFormed' /\ Moved(t, "idledUnlocked", "storeOff", M)
        /\ \A op : Mentions(todo'[t], op) <=> op \in M
    BY <1>1, <1>2, <1>7, <2>2, CallMoves
  <2> QED
    BY <1>7, <2>1, <2>3 DEF M
<1> QED
  BY <1>3, <1>5, <1>6, <1>7

----------------------------------------------------------------------------
(* The types.                                                              *)

LEMMA LimitsAreNatural ==
  /\ MaxFullscreen \in Nat /\ IdleTimeout \in Nat /\ LockDelay \in Nat
  /\ DisplayOffTimeout \in Nat /\ Threshold \in Nat
  /\ MaxFullscreen > 0 /\ IdleTimeout > 0 /\ LockDelay > 0 /\ LockDelay < IdleTimeout
  BY IdleLimitsAssumption

LEMMA NewNotifTyped ==
  ASSUME NEW mode \in {"locked", "unlocked"}
  PROVE  NewNotif(mode) \in NotifType
  BY LimitsAreNatural DEF NewNotif, Timeout, NotifType

HasRoom(op) == op = "countUp" => flags.fullscreen < MaxFullscreen

LEMMA FlagsTyped ==
  ASSUME NEW op \in FlagOps, flags \in FlagsType, HasRoom(op)
  PROVE  FlagsAfter(op) \in FlagsType
<1>1. /\ flags = [screensaver |-> flags.screensaver, logind |-> flags.logind,
                  fullscreen |-> flags.fullscreen]
      /\ flags.screensaver \in BOOLEAN /\ flags.logind \in BOOLEAN
      /\ flags.fullscreen \in 0..MaxFullscreen
  BY DEF FlagsType
<1>2. CASE op = "countUp"
  <2> DEFINE k == flags.fullscreen
             n == k + 1
  <2>1. n \in 0..MaxFullscreen
    <3>1. k \in 0..MaxFullscreen
      BY <1>1
    <3>2. k < MaxFullscreen
      BY <1>2 DEF HasRoom
    <3> HIDE DEF k
    <3> QED
      BY <3>1, <3>2, LimitsAreNatural
  <2>2. FlagsAfter(op) = [flags EXCEPT !.fullscreen = n]
    BY <1>2 DEF FlagsAfter
  <2> HIDE DEF n
  <2> QED
    BY <2>1, <2>2 DEF FlagsType
<1>3. CASE op = "countDown"
  <2> DEFINE n == IF flags.fullscreen > 0 THEN flags.fullscreen - 1 ELSE 0
  <2>1. n \in 0..MaxFullscreen
    BY <1>1, LimitsAreNatural
  <2>2. FlagsAfter(op) = [flags EXCEPT !.fullscreen = n]
    BY <1>3 DEF FlagsAfter
  <2> HIDE DEF n
  <2> QED
    BY <2>1, <2>2 DEF FlagsType
<1>4. CASE op = "countReset"
  <2>1. 0 \in 0..MaxFullscreen
    BY LimitsAreNatural
  <2>2. FlagsAfter(op) = [flags EXCEPT !.fullscreen = 0]
    BY <1>4 DEF FlagsAfter
  <2> QED
    BY <2>1, <2>2 DEF FlagsType
<1>5. CASE op \in {"screensaverOn", "screensaverOff", "logindOn", "logindOff"}
  BY <1>5 DEF FlagsAfter, FlagsType
<1> QED
  BY <1>2, <1>3, <1>4, <1>5 DEF FlagOps

LEMMA CancelledTyped ==
  ASSUME delay \in [Delays -> DelayType], lockCancel \in Delays \cup {"nil"}
  PROVE  /\ Cancelled \in [Delays -> DelayType]
         /\ \A d \in Delays : /\ Cancelled[d].running = delay[d].running
                              /\ Cancelled[d].left = delay[d].left
                              /\ d # lockCancel => Cancelled[d] = delay[d]
         /\ lockCancel # "nil" =>
              Cancelled[lockCancel].cancelled = delay[lockCancel].running
<1>1. CASE lockCancel = "nil"
  BY <1>1 DEF Cancelled
<1>2. CASE lockCancel # "nil"
  <2>1. lockCancel \in Delays
    BY <1>2
  <2>2. Cancelled = [delay EXCEPT ![lockCancel] =
                       [delay[lockCancel] EXCEPT !.cancelled = delay[lockCancel].running]]
    BY <1>2 DEF Cancelled
  <2> QED
    BY <1>2, <2>1, <2>2 DEF DelayType
<1> QED
  BY <1>1, <1>2

\* The Hyprland event reader counts in the first operation of a program.
LEMMA NeverCountsLater ==
  ASSUME NEW f \in Ops, NEW g, Follows(f, g)
  PROVE  g # "countUp" /\ g # "deleteInhibitor" /\ g # "clearLocked" /\ g # "idledLocked"
         /\ g # "idledUnlocked" /\ g # "testInhibited" /\ g # "testLocked" /\ g # "suppress"
         /\ g # "storeInhibitor" /\ g # "noteLocked" /\ g # "noteUnlocked" /\ g # "storeOn"
         /\ g # "screensaverOff"
  BY DEF Follows, Ops, FlagOps

LEMMA OtherThreads ==
  /\ "wayland" \in Threads /\ "hyprland" \in Threads
  /\ "wayland" \notin Apps /\ "hyprland" \notin Apps
  /\ Apps \subseteq Threads /\ Delays \subseteq Threads
  BY IdleThreadsAssumption DEF Threads, Monitors

LEMMA MovedKeepsRoom ==
  ASSUME NEW t \in Threads, RoomToCount, NEW f, NEW g, NEW M, Moved(t, f, g, M),
         g # "countUp", t # "hyprland" => flags'.fullscreen = flags.fullscreen
  PROVE  RoomToCount'
<1>1. CASE t = "hyprland"
  BY <1>1 DEF RoomToCount, Moved
<1>2. CASE t # "hyprland"
  <2>1. todo'["hyprland"] = todo["hyprland"]
    BY <1>2, OtherThreads DEF Moved
  <2> QED
    BY <1>2, <2>1 DEF RoomToCount, First
<1> QED
  BY <1>1, <1>2

LEMMA RunTInv ==
  ASSUME NEW t \in Threads, TInv, Run(t)
  PROVE  TInv'
<1> USE DEF TInv
<1>0. /\ blocked' = blocked => (BlockedOK => BlockedOK')
      /\ UNCHANGED flags => flags'.fullscreen = flags.fullscreen
      /\ UNCHANGED powersave => (PS!PsTypeOK => PS!PsTypeOK')
  BY DEF BlockedOK, powersave, PS!PsTypeOK, PS!Never
<1>a. ASSUME UNCHANGED flags, NEW f, MovedOn(t, f)
      PROVE  RoomToCount'
  <2>1. PICK g : Moved(t, f, g, {}) /\ Follows(f, g)
    BY <1>a DEF MovedOn
  <2>2. f \in Ops
    BY <2>1 DEF Moved
  <2>3. g # "countUp"
    BY <2>1, <2>2, NeverCountsLater
  <2> QED
    BY <1>0, <1>a, <2>1, <2>3, MovedKeepsRoom
<1>b. ASSUME UNCHANGED flags, NEW f, NEW g, NEW M, Moved(t, f, g, M), g # "countUp"
      PROVE  RoomToCount'
  BY <1>0, <1>b, MovedKeepsRoom
<1>1. CASE SetFlag(t)
  <2>1. PICK op \in FlagOps : MovedOn(t, op) /\ flags' = FlagsAfter(op)
    BY <1>1, PlainMoves
  <2>2. PICK g : Moved(t, op, g, {}) /\ Follows(op, g)
    BY <2>1 DEF MovedOn
  <2>3. First(todo[t]) = op /\ MayRun(t, op) /\ op \in Ops
    BY <2>2 DEF Moved
  <2>4. HasRoom(op)
    BY <2>3 DEF HasRoom, RoomToCount, MayRun, CountOps
  <2>5. flags' \in FlagsType
    BY <2>1, <2>4, FlagsTyped DEF StateOK
  <2>6. t # "hyprland" => flags'.fullscreen = flags.fullscreen
    <3>1. t # "hyprland" => op \in {"screensaverOn", "screensaverOff", "logindOn", "logindOff"}
      BY <2>3 DEF MayRun, CountOps, FlagOps
    <3> QED
      BY <2>1, <3>1 DEF FlagsAfter, StateOK, FlagsType
  <2>7. RoomToCount'
    BY <2>2, <2>3, <2>6, NeverCountsLater, MovedKeepsRoom
  <2>8. StateOK'
    BY <1>0, <1>1, <2>5 DEF SetFlag, StateOK, display, timers
  <2> QED
    BY <1>1, <2>7, <2>8, PlainMoves
<1>2. CASE Recompute(t)
  <2>1. ProgramsWellFormed' /\ UNCHANGED flags
    BY <1>2, RecomputeMoves DEF Recompute, sources
  <2>2. RoomToCount'
    BY <1>2, <1>a, <1>b, <2>1, RecomputeMoves
  <2>3. inhibited' \in BOOLEAN
    BY <1>2 DEF Recompute
  <2>4. StateOK'
    BY <1>0, <1>2, <2>3 DEF Recompute, StateOK, sources, display, timers
  <2> QED
    BY <2>1, <2>2, <2>4
<1>3. CASE StoreInhibitor(t)
  <2>1. ProgramsWellFormed' /\ MovedOn(t, "storeInhibitor") /\ UNCHANGED flags
    BY <1>3, PlainMoves DEF StoreInhibitor
  <2>2. t \in Apps
    BY <2>1 DEF MovedOn, Moved, MayRun, InhibitorOps
  <2>3. StateOK'
    BY <1>0, <1>3, <2>2 DEF StoreInhibitor, StateOK, display, timers
  <2> QED
    BY <1>a, <2>1, <2>3
<1>4. CASE DeleteInhibitor(t)
  <2>1. ProgramsWellFormed' /\ MovedOn(t, "deleteInhibitor") /\ UNCHANGED flags
    BY <1>4, PlainMoves DEF DeleteInhibitor
  <2>2. StateOK'
    BY <1>0, <1>4 DEF DeleteInhibitor, StateOK, display, timers
  <2> QED
    BY <1>a, <2>1, <2>2
<1>5. CASE RangeInhibitors(t)
  <2>1. ProgramsWellFormed' /\ UNCHANGED flags
    BY <1>5, RangeInhibitorsMoves DEF RangeInhibitors, sources
  <2>2. RoomToCount'
    BY <1>5, <1>a, <1>b, <2>1, RangeInhibitorsMoves
  <2>3. StateOK'
    BY <1>0, <1>5 DEF RangeInhibitors, StateOK, sources, display, timers
  <2> QED
    BY <2>1, <2>2, <2>3
<1>6. CASE OnGate(t)
  <2>1. ProgramsWellFormed' /\ UNCHANGED flags
    BY <1>6, OnGateMoves DEF OnGate, sources
  <2>2. RoomToCount'
    BY <1>6, <1>a, <1>b, <2>1, OnGateMoves
  <2>3. delay' \in [Delays -> DelayType] /\ lockCancel' \in Delays \cup {"nil"}
    BY <1>6, OnGateMoves, CancelledTyped DEF StateOK
  <2>4. StateOK'
    BY <1>0, <1>6, <2>3 DEF OnGate, StateOK, sources, display
  <2> QED
    BY <2>1, <2>2, <2>4
<1>7. CASE StoreDisplay(t)
  <2>1. ProgramsWellFormed' /\ RoomToCount'
    BY <1>7, <1>a, PlainMoves DEF StoreDisplay, sources
  <2>2. StateOK'
    BY <1>0, <1>7 DEF StoreDisplay, StateOK, sources, display, timers
  <2> QED
    BY <2>1, <2>2
<1>8. CASE SetDPMS(t)
  <2>1. ProgramsWellFormed' /\ RoomToCount'
    BY <1>8, <1>a, PlainMoves DEF SetDPMS, sources
  <2>2. StateOK'
    BY <1>0, <1>8 DEF SetDPMS, StateOK, sources, display, timers
  <2> QED
    BY <2>1, <2>2
<1>9. CASE ReportDisplay(t)
  <2>1. ProgramsWellFormed' /\ RoomToCount'
    BY <1>9, <1>a, PlainMoves DEF ReportDisplay, sources
  <2>2. PS!PsTypeOK'
    <3>1. PS!PsTypeOK /\ \E off \in BOOLEAN : PS!SetScreenOff(off, locked)
      BY <1>9 DEF ReportDisplay, StateOK
    <3>2. 0 \in 0..PS!Never
      BY LimitsAreNatural DEF PS!Never
    <3> QED
      BY <3>1, <3>2 DEF PS!PsTypeOK, PS!SetScreenOff, PS!Never
  <2>3. StateOK'
    BY <1>0, <1>9, <2>2 DEF ReportDisplay, StateOK, sources, display, timers
  <2> QED
    BY <2>1, <2>3
<1>10. CASE Suppress(t)
  <2>1. ProgramsWellFormed' /\ RoomToCount'
    BY <1>10, <1>a, PlainMoves DEF Suppress, sources
  <2>2. StateOK'
    BY <1>0, <1>10 DEF Suppress, StateOK, sources, display, timers
  <2> QED
    BY <2>1, <2>2
<1>11. CASE SetLocked(t)
  <2>1. ProgramsWellFormed' /\ RoomToCount'
    BY <1>11, <1>a, PlainMoves DEF SetLocked, sources
  <2>2. StateOK'
    BY <1>0, <1>11 DEF SetLocked, StateOK, sources, display, timers
  <2> QED
    BY <2>1, <2>2
<1>12. CASE TestInhibited(t) \/ TestLocked(t) \/ Notify(t)
  <2>1. ProgramsWellFormed' /\ UNCHANGED flags
    BY <1>12, TestMoves DEF TestInhibited, TestLocked, Notify, sources
  <2>2. RoomToCount'
    BY <1>12, <1>a, <1>b, <2>1, TestMoves
  <2>3. StateOK'
    BY <1>0, <1>12 DEF TestInhibited, TestLocked, Notify, StateOK, sources, display, timers
  <2> QED
    BY <2>1, <2>2, <2>3
<1>13. ASSUME NEW v \in BOOLEAN, Note(t, v)
       PROVE  TInv'
  <2>1. ProgramsWellFormed' /\ UNCHANGED flags
    BY <1>13, NoteMoves DEF Note, sources
  <2>2. RoomToCount'
    BY <1>13, <1>b, <2>1, NoteMoves
  <2>3. forced' \in BOOLEAN /\ lastLocked' \in BOOLEAN
    BY <1>13 DEF Note, StateOK
  <2>4. StateOK'
    BY <1>0, <1>13, <2>3 DEF Note, StateOK, sources, timers
  <2> QED
    BY <2>1, <2>2, <2>4
<1>14. CASE Recreate(t)
  <2>1. ProgramsWellFormed' /\ RoomToCount'
    BY <1>14, <1>a, PlainMoves DEF Recreate, sources
  <2>2. notif' \in NotifType
    BY <1>14, NewNotifTyped DEF Recreate, StateOK
  <2>3. StateOK'
    BY <1>0, <1>14, <2>2 DEF Recreate, StateOK, sources, display
  <2> QED
    BY <2>1, <2>3
<1>15. CASE Idled(t)
  <2>1. ProgramsWellFormed' /\ UNCHANGED flags
    BY <1>15, IdledMoves DEF Idled, sources
  <2>2. RoomToCount'
    BY <1>15, <1>a, <1>b, <2>1, IdledMoves
  <2>3. StateOK'
    BY <1>0, <1>15 DEF Idled, StateOK, sources, display, timers
  <2> QED
    BY <2>1, <2>2, <2>3
<1>16. CASE ArmDelay(t)
  <2>1. ProgramsWellFormed' /\ RoomToCount'
    BY <1>16, <1>a, PlainMoves DEF ArmDelay, sources
  <2>2. delay' \in [Delays -> DelayType] /\ lockCancel' \in Delays
    BY <1>16, LimitsAreNatural DEF ArmDelay, StateOK, DelayType
  <2>3. StateOK'
    BY <1>0, <1>16, <2>2 DEF ArmDelay, StateOK, sources, display
  <2> QED
    BY <2>1, <2>3
<1> QED
  BY <1>1, <1>2, <1>3, <1>4, <1>5, <1>6, <1>7, <1>8, <1>9, <1>10, <1>11, <1>12, <1>13,
     <1>14, <1>15, <1>16 DEF Run

LEMMA BegunKeepsRoom ==
  ASSUME NEW t \in Threads, RoomToCount, NEW b, NEW M, Begun(t, b, M),
         b = "countUp" => t = "hyprland" /\ flags.fullscreen < MaxFullscreen,
         UNCHANGED flags
  PROVE  RoomToCount'
<1>1. CASE t = "hyprland"
  <2>1. First(todo'["hyprland"]) = b
    BY <1>1 DEF Begun
  <2> QED
    BY <2>1 DEF RoomToCount
<1>2. CASE t # "hyprland"
  <2>1. todo'["hyprland"] = todo["hyprland"]
    BY <1>2, OtherThreads DEF Begun
  <2> QED
    BY <2>1 DEF RoomToCount, First
<1> QED
  BY <1>1, <1>2

LEMMA RequestMoves ==
  ASSUME NEW t \in Threads, ProgramsWellFormed, Request(t)
  PROVE  /\ ProgramsWellFormed'
         /\ \E request \in Requests :
              /\ Sensible(t, request)
              /\ \E b, M : Begun(t, b, M) /\ Serving(request, b, M)
              /\ blocked' = IF request \in DOMAIN BlockInhibited THEN BlockInhibited[request]
                                                                ELSE blocked
<1>1. PICK request \in Requests :
        /\ t \in ThreadsFor(request) /\ Sensible(t, request)
        /\ Begin(t, ProgramFor(request))
        /\ blocked' = IF request \in DOMAIN BlockInhibited THEN BlockInhibited[request]
                                                          ELSE blocked
  BY DEF Request
<1>2. PICK b, z, M : IsProgram(t, ProgramFor(request), b, z, M) /\ Serving(request, b, M)
  BY <1>1, ServingPrograms
<1>3. ProgramsWellFormed' /\ Begun(t, b, M)
  BY <1>1, <1>2, BeginMoves
<1> QED
  BY <1>1, <1>2, <1>3

LEMMA WorldMoves ==
  ASSUME ProgramsWellFormed
  PROVE  /\ \A d \in Delays : DelayExpires(d) =>
              ProgramsWellFormed' /\ Begun(d, "testInhibited", {"testInhibited"})
         /\ NotifIdles => ProgramsWellFormed'
              /\ IF notif.mode = "locked"
                   THEN Begun("wayland", "idledLocked", {"idledLocked"})
                   ELSE Begun("wayland", "idledUnlocked", {"idledUnlocked"})
         /\ Activity => ProgramsWellFormed'
              /\ IF notif.idled THEN Begun("wayland", "onGate", {"onGate"} \cup {"recreate"})
                                ELSE UNCHANGED todo
         /\ WaylandConnect => ProgramsWellFormed' /\ Begun("wayland", "recreate", {"recreate"})
<1>1. UNCHANGED todo => ProgramsWellFormed'
  BY DEF ProgramsWellFormed, Chained, Owned
<1>2. ASSUME NEW d \in Delays, DelayExpires(d)
      PROVE  ProgramsWellFormed' /\ Begun(d, "testInhibited", {"testInhibited"})
  <2>1. Begin(d, DoLock) /\ d \in Threads
    BY <1>2, OtherThreads DEF DelayExpires
  <2>2. IsProgram(d, DoLock, "testInhibited", "testInhibited", {"testInhibited"})
    BY CommonPrograms
  <2> QED
    BY <2>1, <2>2, BeginMoves
<1>3. ASSUME NotifIdles
      PROVE  ProgramsWellFormed'
               /\ IF notif.mode = "locked"
                    THEN Begun("wayland", "idledLocked", {"idledLocked"})
                    ELSE Begun("wayland", "idledUnlocked", {"idledUnlocked"})
  <2>1. CASE notif.mode = "locked"
    <3>1. Begin("wayland", <<"idledLocked">>)
      BY <1>3, <2>1, Zenon DEF NotifIdles
    <3>2. IsProgram("wayland", <<"idledLocked">>, "idledLocked", "idledLocked", {"idledLocked"})
      BY IdledPrograms
    <3> QED
      BY <2>1, <3>1, <3>2, OtherThreads, BeginMoves
  <2>2. CASE notif.mode # "locked"
    <3>1. Begin("wayland", <<"idledUnlocked">>)
      BY <1>3, <2>2, Zenon DEF NotifIdles
    <3>2. IsProgram("wayland", <<"idledUnlocked">>, "idledUnlocked", "idledUnlocked",
                    {"idledUnlocked"})
      BY IdledPrograms
    <3> QED
      BY <2>2, <3>1, <3>2, OtherThreads, BeginMoves
  <2> QED
    BY <2>1, <2>2
<1>4. ASSUME Activity
      PROVE  ProgramsWellFormed'
               /\ IF notif.idled THEN Begun("wayland", "onGate", {"onGate"} \cup {"recreate"})
                                 ELSE UNCHANGED todo
  <2>1. CASE notif.idled
    <3>1. Begin("wayland", Resumed)
      BY <1>4, <2>1, Zenon DEF Activity
    <3>2. IsProgram("wayland", Resumed, "onGate", "recreate", {"onGate"} \cup {"recreate"})
      BY CommonPrograms
    <3> QED
      BY <2>1, <3>1, <3>2, OtherThreads, BeginMoves
  <2>2. CASE ~notif.idled
    <3>1. UNCHANGED todo
      BY <1>4, <2>2, Zenon DEF Activity
    <3> QED
      BY <1>1, <2>2, <3>1
  <2> QED
    BY <2>1, <2>2
<1>5. ASSUME WaylandConnect
      PROVE  ProgramsWellFormed' /\ Begun("wayland", "recreate", {"recreate"})
  <2>1. Begin("wayland", <<"recreate">>)
    BY <1>5 DEF WaylandConnect
  <2>2. IsProgram("wayland", <<"recreate">>, "recreate", "recreate", {"recreate"})
    BY CommonPrograms
  <2> QED
    BY <2>1, <2>2, OtherThreads, BeginMoves
<1> QED
  BY <1>2, <1>3, <1>4, <1>5

LEMMA TickTyped ==
  ASSUME StateOK, Tick
  PROVE  /\ delay' \in [Delays -> DelayType]
         /\ notif' \in NotifType
         /\ PS!PsTypeOK'
<1>1. ASSUME NEW d \in Delays
      PROVE  (IF delay[d].running THEN [delay[d] EXCEPT !.left = @ - 1] ELSE delay[d]) \in DelayType
  <2>1. CASE delay[d].running
    <3> DEFINE k == delay[d].left
               n == k - 1
    <3>1. delay[d] \in DelayType /\ k \in 0..LockDelay /\ k > 0
      BY <1>1, <2>1 DEF Tick, StateOK, DelayType
    <3>2. n \in 0..LockDelay
      <4> HIDE DEF k
      <4> QED
        BY <3>1, LimitsAreNatural
    <3>3. [delay[d] EXCEPT !.left = @ - 1] = [delay[d] EXCEPT !.left = n]
      OBVIOUS
    <3> HIDE DEF n
    <3> QED
      BY <2>1, <3>1, <3>2, <3>3 DEF DelayType
  <2>2. CASE ~delay[d].running
    BY <1>1, <2>2 DEF StateOK
  <2> QED
    BY <2>1, <2>2
<1>2. delay' \in [Delays -> DelayType]
  BY <1>1, Zenon DEF Tick
<1>3. notif' \in NotifType
  <2>1. CASE notif.mode = "none" \/ notif.idled
    BY <2>1 DEF Tick, StateOK
  <2>2. CASE ~(notif.mode = "none" \/ notif.idled)
    <3> DEFINE k == notif.left
               n == k - 1
    <3>1. notif \in NotifType /\ k \in Nat /\ k # 0
      BY <2>2 DEF Tick, NotifDue, StateOK, NotifType
    <3>2. n \in Nat
      <4> HIDE DEF k
      <4> QED
        BY <3>1
    <3>3. notif' = [notif EXCEPT !.left = n]
      BY <2>2 DEF Tick
    <3> HIDE DEF n
    <3> QED
      BY <3>1, <3>2, <3>3 DEF NotifType
  <2> QED
    BY <2>1, <2>2
<1>4. PS!PsTypeOK'
  <2>1. since \in 0..PS!Never /\ screenOff \in BOOLEAN /\ active \in BOOLEAN
    BY DEF StateOK, PS!PsTypeOK
  <2>2. since' = (IF since < Threshold THEN since + 1 ELSE since) /\ UNCHANGED <<screenOff, active>>
    BY DEF Tick, PS!Age
  <2>3. since' \in 0..PS!Never
    BY <2>1, <2>2, LimitsAreNatural DEF PS!Never
  <2> QED
    BY <2>1, <2>2, <2>3 DEF PS!PsTypeOK, PS!Never
<1> QED
  BY <1>2, <1>3, <1>4

\* What happens outside the programs.
World ==
  \/ \E t \in Threads : Request(t)
  \/ \E d \in Delays : Delayed(d)
  \/ NotifIdles \/ Activity \/ WaylandLost \/ WaylandConnect \/ Leave
  \/ PowersaveTick \/ Tick \/ UNCHANGED vars

LEMMA ProgramsOrWorld == [Next]_vars => World \/ \E t \in Threads : Run(t)
  BY DEF Next, World

LEMMA WorldTInv ==
  ASSUME TInv, World
  PROVE  TInv'
<1> USE DEF TInv
<1>0. /\ blocked' = blocked => (BlockedOK => BlockedOK')
      /\ UNCHANGED powersave => (PS!PsTypeOK => PS!PsTypeOK')
      /\ UNCHANGED todo => ProgramsWellFormed'
      /\ UNCHANGED <<todo, flags>> => RoomToCount'
  BY DEF BlockedOK, powersave, PS!PsTypeOK, PS!Never, ProgramsWellFormed, Chained, Owned,
         RoomToCount, First
<1>a. ASSUME UNCHANGED flags, NEW b, NEW M, Begun("wayland", b, M), b # "countUp"
      PROVE  RoomToCount'
  BY <1>a, OtherThreads, BegunKeepsRoom
<1>1. ASSUME NEW t \in Threads, Request(t)
      PROVE  TInv'
  <2>1. PICK request \in Requests :
          /\ Sensible(t, request)
          /\ \E b, M : Begun(t, b, M) /\ Serving(request, b, M)
          /\ blocked' = IF request \in DOMAIN BlockInhibited THEN BlockInhibited[request]
                                                            ELSE blocked
    BY <1>1, RequestMoves
  <2>2. PICK b, M : Begun(t, b, M) /\ Serving(request, b, M)
    BY <2>1
  <2>3. ProgramsWellFormed' /\ UNCHANGED flags
    BY <1>1, RequestMoves DEF Request
  <2>4. b = "countUp" => HasRoom(b) /\ t = "hyprland"
    <3>1. ASSUME b = "countUp"
          PROVE  HasRoom(b) /\ t = "hyprland"
      <4>1. request = "fullscreen"
        BY <2>2, <3>1 DEF Serving
      <4>2. HasRoom(b)
        BY <2>1, <4>1 DEF Sensible, HasRoom
      <4>3. First(todo'[t]) = "countUp" /\ todo' \in [Threads -> Seq(Ops)] /\ Owned(t, todo'[t])
        BY <2>2, <2>3, <3>1 DEF Begun, ProgramsWellFormed
      <4>4. todo'[t] # <<>>
        BY <4>3 DEF First
      <4>5. WellFormed(t, todo'[t])
        BY <2>3 DEF ProgramsWellFormed, WellFormed, Chained, Owned
      <4>6. MayRun(t, "countUp")
        BY <4>3, <4>4, <4>5, RestOfProgram
      <4> QED
        BY <4>2, <4>6 DEF MayRun, CountOps
    <3> QED
      BY <3>1
  <2>5. RoomToCount'
    BY <2>2, <2>3, <2>4, BegunKeepsRoom DEF HasRoom
  <2>6. BlockedOK'
    BY <2>1 DEF StateOK, BlockedOK
  <2>7. StateOK'
    BY <1>0, <1>1, <2>6 DEF Request, StateOK, display, timers
  <2> QED
    BY <2>3, <2>5, <2>7
<1>2. ASSUME NEW d \in Delays, Delayed(d)
      PROVE  TInv'
  <2>1. delay' \in [Delays -> DelayType]
    <3>1. NoDelay \in DelayType
      BY LimitsAreNatural DEF NoDelay, DelayType
    <3> QED
      BY <1>2, <3>1 DEF Delayed, DelayExpires, DelayCancelled, StateOK
  <2>2. StateOK'
    BY <1>0, <1>2, <2>1
       DEF Delayed, DelayExpires, DelayCancelled, StateOK, sources, display
  <2>3. CASE DelayExpires(d)
    <3>1. /\ ProgramsWellFormed' /\ Begun(d, "testInhibited", {"testInhibited"})
          /\ UNCHANGED flags /\ d \in Threads
      BY <2>3, WorldMoves, OtherThreads DEF DelayExpires, sources
    <3> QED
      BY <2>2, <3>1, BegunKeepsRoom
  <2>4. CASE DelayCancelled(d)
    BY <1>0, <2>2, <2>4 DEF DelayCancelled, sources
  <2> QED
    BY <1>2, <2>3, <2>4 DEF Delayed
<1>3. CASE NotifIdles
  <2>1. ProgramsWellFormed' /\ UNCHANGED flags
    BY <1>3, WorldMoves DEF NotifIdles, sources
  <2>2. RoomToCount'
    BY <1>3, <1>a, <2>1, WorldMoves
  <2>3. notif' \in NotifType
    BY <1>3 DEF NotifIdles, StateOK, NotifType
  <2>4. StateOK'
    BY <1>0, <1>3, <2>3 DEF NotifIdles, StateOK, sources, display
  <2> QED
    BY <2>1, <2>2, <2>4
<1>4. CASE Activity
  <2>1. ProgramsWellFormed' /\ UNCHANGED flags
    BY <1>4, WorldMoves DEF Activity, sources
  <2>2. RoomToCount'
    BY <1>0, <1>4, <1>a, <2>1, WorldMoves
  <2>3. notif' \in NotifType
    <3>1. notif.mode \in {"locked", "unlocked"} /\ notif' = NewNotif(notif.mode)
      BY <1>4 DEF Activity, StateOK, NotifType
    <3> QED
      BY <3>1, NewNotifTyped
  <2>4. StateOK'
    BY <1>0, <1>4, <2>3 DEF Activity, StateOK, sources, display
  <2> QED
    BY <2>1, <2>2, <2>4
<1>5. CASE WaylandConnect
  <2>1. ProgramsWellFormed' /\ UNCHANGED flags
    BY <1>5, WorldMoves DEF WaylandConnect, sources
  <2>2. RoomToCount'
    BY <1>5, <1>a, <2>1, WorldMoves
  <2>3. StateOK'
    BY <1>0, <1>5 DEF WaylandConnect, StateOK, sources, display
  <2> QED
    BY <2>1, <2>2, <2>3
<1>6. CASE WaylandLost
  <2>1. NoNotif \in NotifType
    BY DEF NoNotif, NotifType
  <2>2. StateOK'
    BY <1>0, <1>6, <2>1 DEF WaylandLost, StateOK, sources, display
  <2> QED
    BY <1>0, <1>6, <2>2 DEF WaylandLost, sources
<1>7. CASE Leave
  <2>1. StateOK'
    BY <1>0, <1>7 DEF Leave, StateOK, sources, display, timers
  <2> QED
    BY <1>0, <1>7, <2>1 DEF Leave, sources
<1>8. CASE PowersaveTick
  <2>1. PS!PsTypeOK'
    BY <1>8 DEF PowersaveTick, PS!EnterPowersave, StateOK, PS!PsTypeOK, PS!Never
  <2>2. StateOK'
    BY <1>0, <1>8, <2>1 DEF PowersaveTick, StateOK, sources, display, timers
  <2> QED
    BY <1>0, <1>8, <2>2 DEF PowersaveTick, sources
<1>9. CASE Tick
  <2>1. StateOK'
    BY <1>0, <1>9, TickTyped DEF Tick, StateOK, sources, display
  <2> QED
    BY <1>0, <1>9, <2>1 DEF Tick, sources
<1>10. CASE UNCHANGED vars
  <2>1. StateOK'
    BY <1>0, <1>10 DEF StateOK, vars, sources, display, timers
  <2> QED
    BY <1>0, <1>10, <2>1 DEF vars, sources
<1> QED
  BY <1>1, <1>2, <1>3, <1>4, <1>5, <1>6, <1>7, <1>8, <1>9, <1>10 DEF World

LEMMA InitTInv == Init => TInv
<1> SUFFICES ASSUME Init
             PROVE  TInv
  OBVIOUS
<1>1. StateOK
  <2>1. BlockedOK
    BY DEF Init, BlockedOK, BlockInhibited
  <2>2. flags \in FlagsType
    <3>1. 0 \in 0..MaxFullscreen
      BY LimitsAreNatural
    <3> QED
      BY <3>1 DEF Init, FlagsType
  <2>3. delay \in [Delays -> DelayType] /\ notif \in NotifType
    <3>1. 0 \in 0..LockDelay
      BY LimitsAreNatural
    <3> QED
      BY <3>1 DEF Init, NoDelay, DelayType, NoNotif, NotifType
  <2>4. PS!PsTypeOK
    <3>1. PS!Never \in 0..PS!Never
      BY LimitsAreNatural DEF PS!Never
    <3> QED
      BY <3>1 DEF Init, PS!PsInit, PS!PsTypeOK
  <2> QED
    BY <2>1, <2>2, <2>3, <2>4 DEF Init, StateOK
<1>2. ProgramsWellFormed
  <2>1. \A t \in Threads : WellFormed(t, <<>>)
    BY NoProgram
  <2> QED
    BY <2>1 DEF Init, ProgramsWellFormed, WellFormed
<1>3. RoomToCount
  <2>1. First(todo["hyprland"]) = "end"
    BY OtherThreads DEF Init, First
  <2> QED
    BY <2>1 DEF RoomToCount
<1> QED
  BY <1>1, <1>2, <1>3 DEF TInv

LEMMA NextTInv == TInv /\ [Next]_vars => TInv'
  BY ProgramsOrWorld, RunTInv, WorldTInv

LEMMA SpecTInv == Spec => []TInv
  BY InitTInv, NextTInv, PTL DEF Spec

\* Every variable keeps its type: no count of fullscreen windows below zero or above what
\* Hyprland reported, no timer below zero, no goroutine in the middle of an operation that
\* is not its own.
THEOREM TypesHold == Spec => []TypeOK
<1>1. TInv => TypeOK
  BY DEF TInv, StateOK, BlockedOK, ProgramsWellFormed, TypeOK
<1> QED
  BY <1>1, SpecTInv, PTL

----------------------------------------------------------------------------
(* No delay is orphaned.                                                   *)

\* Only the dispatcher's idled handler starts a delay, and it was on its way before.
LEMMA MovedArms ==
  ASSUME NEW t \in Threads, NEW f, NEW g, NEW M, Moved(t, f, g, M),
         ("armDelay" \in M \/ "idledUnlocked" \in M) => f = "idledUnlocked" /\ t = "wayland"
  PROVE  Arming' => Arming
<1>1. CASE t = "wayland"
  BY <1>1 DEF Moved, Arming
<1>2. CASE t # "wayland"
  <2>1. todo'["wayland"] = todo["wayland"]
    BY <1>2, OtherThreads DEF Moved
  <2> QED
    BY <2>1 DEF Arming, Mentions
<1> QED
  BY <1>1, <1>2

LEMMA BegunArms ==
  ASSUME NEW t \in Threads, NEW b, NEW M, Begun(t, b, M),
         "armDelay" \notin M, "idledUnlocked" \notin M
  PROVE  Arming' => Arming
<1>1. CASE t = "wayland"
  BY <1>1 DEF Begun, Arming
<1>2. CASE t # "wayland"
  <2>1. todo'["wayland"] = todo["wayland"]
    BY <1>2, OtherThreads DEF Begun
  <2> QED
    BY <2>1 DEF Arming, Mentions
<1> QED
  BY <1>1, <1>2

LEMMA RunArms ==
  ASSUME NEW t \in Threads, ProgramsWellFormed, Run(t)
  PROVE  Arming' => Arming
<1>a. ASSUME NEW f, MovedOn(t, f)
      PROVE  Arming' => Arming
  BY <1>a, MovedArms DEF MovedOn
<1>1. CASE \/ SetFlag(t) \/ StoreInhibitor(t) \/ DeleteInhibitor(t) \/ StoreDisplay(t)
           \/ SetDPMS(t) \/ ReportDisplay(t) \/ Suppress(t) \/ SetLocked(t) \/ Recreate(t)
           \/ ArmDelay(t)
  BY <1>1, <1>a, PlainMoves
<1>2. CASE Recompute(t)
  BY <1>2, <1>a, RecomputeMoves, MovedArms
<1>3. CASE RangeInhibitors(t)
  BY <1>3, <1>a, RangeInhibitorsMoves, MovedArms
<1>4. CASE OnGate(t)
  BY <1>4, <1>a, OnGateMoves, MovedArms
<1>5. CASE TestInhibited(t) \/ TestLocked(t) \/ Notify(t)
  BY <1>5, <1>a, TestMoves, MovedArms
<1>6. ASSUME NEW v \in BOOLEAN, Note(t, v)
      PROVE  Arming' => Arming
  BY <1>6, NoteMoves, MovedArms
<1>7. CASE Idled(t)
  <2> DEFINE M == {"storeOff", "dpmsOff", "reportOff"}
  <2>1. /\ "armDelay" \notin M /\ "idledUnlocked" \notin M
        /\ M = {"storeOff", "dpmsOff", "reportOff"}
    OBVIOUS
  <2>2. \/ MovedOn(t, "idledLocked") \/ MovedOn(t, "idledUnlocked")
        \/ Moved(t, "idledLocked", "storeOff", M)
        \/ t = "wayland" /\ Moved(t, "idledUnlocked", "storeOff", M \cup {"armDelay"})
    BY <1>7, IdledMoves
  <2> HIDE DEF M
  <2> QED
    BY <1>a, <2>1, <2>2, MovedArms
<1> QED
  BY <1>1, <1>2, <1>3, <1>4, <1>5, <1>6, <1>7 DEF Run

LEMMA DelaysUntouched ==
  ASSUME DelaysOK, UNCHANGED <<delay, lockCancel, notif>>, Arming' => Arming
  PROVE  DelaysOK'
  BY DEF DelaysOK, FreshWhileArming, DelayEndsFirst, NoOrphanDelay

\* An idle timer that has just started outlasts every delay.
LEMMA NewNotifLasts ==
  ASSUME StateOK, DelaysOK, UNCHANGED <<delay, lockCancel>>, Arming' => Arming,
         NEW mode, notif' = NewNotif(mode)
  PROVE  DelaysOK'
<1>1. notif'.mode = mode /\ mode = "unlocked" => notif'.left = IdleTimeout
  BY DEF NewNotif, Timeout
<1>2. notif'.mode = mode
  BY DEF NewNotif
<1>3. \A d \in Delays : delay[d].left \in 0..LockDelay
  BY DEF StateOK, DelayType
<1>4. \A d \in Delays : delay[d].left < IdleTimeout
  BY <1>3, LimitsAreNatural
<1> QED
  BY <1>1, <1>2, <1>4 DEF DelaysOK, FreshWhileArming, DelayEndsFirst, NoOrphanDelay

LEMMA RunDelays ==
  ASSUME NEW t \in Threads, TInv, DelaysOK, Run(t)
  PROVE  DelaysOK'
<1>1. StateOK /\ ProgramsWellFormed /\ (Arming' => Arming)
  BY RunArms DEF TInv
<1>2. CASE \/ SetFlag(t) \/ Recompute(t)
           \/ StoreInhibitor(t) \/ DeleteInhibitor(t) \/ RangeInhibitors(t)
           \/ StoreDisplay(t) \/ SetDPMS(t) \/ ReportDisplay(t) \/ Suppress(t)
           \/ SetLocked(t) \/ TestInhibited(t) \/ TestLocked(t) \/ Notify(t)
           \/ Note(t, TRUE) \/ Note(t, FALSE)
           \/ Idled(t)
  <2>1. UNCHANGED <<delay, lockCancel, notif>>
    BY <1>2 DEF SetFlag, Recompute, StoreInhibitor, DeleteInhibitor, RangeInhibitors,
                StoreDisplay, SetDPMS, ReportDisplay, Suppress, SetLocked, TestInhibited,
                TestLocked, Notify, Note, Idled, timers
  <2> QED
    BY <1>1, <2>1, DelaysUntouched
<1>3. CASE OnGate(t)
  <2>1. CASE UNCHANGED <<lockCancel, delay>>
    <3>1. UNCHANGED notif
      BY <1>3 DEF OnGate
    <3> QED
      BY <1>1, <2>1, <3>1, DelaysUntouched
  <2>2. CASE delay' = Cancelled /\ lockCancel' = "nil"
    <3>1. UNCHANGED notif
      BY <1>3 DEF OnGate
    <3>2. /\ \A d \in Delays : /\ delay'[d].running = delay[d].running
                               /\ delay'[d].left = delay[d].left
                               /\ d # lockCancel => delay'[d] = delay[d]
          /\ lockCancel # "nil" => delay'[lockCancel].cancelled = delay[lockCancel].running
      BY <1>1, <2>2, CancelledTyped DEF StateOK
    <3>3. FreshWhileArming' /\ DelayEndsFirst'
      BY <1>1, <3>1, <3>2 DEF DelaysOK, FreshWhileArming, DelayEndsFirst
    <3>4. ASSUME NEW d \in Delays, delay'[d].running, ~delay'[d].cancelled
          PROVE  FALSE
      <4>1. CASE d = lockCancel
        <5>1. lockCancel # "nil"
          BY <4>1, IdleThreadsAssumption
        <5> QED
          BY <3>2, <3>4, <4>1, <5>1
      <4>2. CASE d # lockCancel
        BY <3>2, <3>4, <4>2 DEF DelaysOK, NoOrphanDelay
      <4> QED
        BY <4>1, <4>2
    <3> QED
      BY <3>3, <3>4 DEF DelaysOK, NoOrphanDelay
  <2> QED
    BY <1>1, <1>3, <2>1, <2>2, OnGateMoves
<1>4. CASE Recreate(t)
  <2>1. UNCHANGED <<delay, lockCancel>>
    BY <1>4 DEF Recreate
  <2>2. notif' = notif \/ \E mode : notif' = NewNotif(mode)
    BY <1>4 DEF Recreate
  <2> QED
    BY <1>1, <2>1, <2>2, DelaysUntouched, NewNotifLasts
<1>5. CASE ArmDelay(t)
  <2>1. PICK d \in Delays :
          /\ delay' = [delay EXCEPT ![d] =
                         [running |-> TRUE, cancelled |-> FALSE, left |-> LockDelay]]
          /\ lockCancel' = d
    BY <1>5 DEF ArmDelay
  <2>2. UNCHANGED notif
    BY <1>5 DEF ArmDelay
  <2>3. PICK g : Moved(t, "armDelay", g, {}) /\ Follows("armDelay", g)
    BY <1>1, <1>5, PlainMoves DEF MovedOn
  <2>4. t = "wayland" /\ g = "end" /\ Arming
    BY <2>3 DEF Moved, MayRun, IdledOps, Follows, Arming
  <2>5. ~Arming'
    BY <2>3, <2>4 DEF Moved, Arming
  <2>6. /\ \A e \in Delays : ~delay[e].running
        /\ notif.mode = "unlocked" /\ ~notif.idled => notif.left = IdleTimeout
    BY <2>4 DEF DelaysOK, FreshWhileArming
  <2>7. /\ \A e \in Delays \ {d} : delay'[e] = delay[e]
        /\ delay'[d] = [running |-> TRUE, cancelled |-> FALSE, left |-> LockDelay]
    BY <1>1, <2>1 DEF StateOK
  <2>8. DelayEndsFirst'
    BY <2>2, <2>6, <2>7, LimitsAreNatural DEF DelayEndsFirst
  <2>9. NoOrphanDelay'
    BY <2>1, <2>6, <2>7 DEF NoOrphanDelay
  <2> QED
    BY <2>5, <2>8, <2>9 DEF DelaysOK, FreshWhileArming
<1> QED
  BY <1>2, <1>3, <1>4, <1>5 DEF Run

LEMMA WorldDelays ==
  ASSUME TInv, DelaysOK, World
  PROVE  DelaysOK'
<1>0. StateOK /\ ProgramsWellFormed /\ (UNCHANGED todo => (Arming' => Arming))
  BY DEF TInv, Arming, Mentions
<1>1. ASSUME NEW t \in Threads, Request(t)
      PROVE  DelaysOK'
  <2>1. PICK request, b, M : Begun(t, b, M) /\ Serving(request, b, M)
    BY <1>0, <1>1, RequestMoves
  <2>2. Arming' => Arming
    BY <2>1, BegunArms DEF Serving
  <2>3. UNCHANGED <<delay, lockCancel, notif>>
    BY <1>1 DEF Request, timers
  <2> QED
    BY <2>2, <2>3, DelaysUntouched
<1>2. ASSUME NEW d \in Delays, Delayed(d)
      PROVE  DelaysOK'
  <2>1. Arming' => Arming
    <3>1. CASE DelayExpires(d)
      <4>1. Begun(d, "testInhibited", {"testInhibited"})
        BY <1>0, <3>1, WorldMoves
      <4> QED
        BY <4>1, OtherThreads, BegunArms
    <3>2. CASE DelayCancelled(d)
      BY <1>0, <3>2 DEF DelayCancelled
    <3> QED
      BY <1>2, <3>1, <3>2 DEF Delayed
  <2>2. delay' = [delay EXCEPT ![d] = NoDelay] /\ UNCHANGED <<lockCancel, notif>>
    BY <1>2 DEF Delayed, DelayExpires, DelayCancelled
  <2>3. ~delay'[d].running /\ \A e \in Delays \ {d} : delay'[e] = delay[e]
    BY <1>0, <2>2 DEF StateOK, NoDelay
  <2> QED
    BY <2>1, <2>2, <2>3 DEF DelaysOK, FreshWhileArming, DelayEndsFirst, NoOrphanDelay
<1>3. CASE NotifIdles
  <2>1. /\ notif.mode # "none" /\ ~notif.idled /\ notif.left = 0
        /\ notif' = [notif EXCEPT !.idled = TRUE] /\ UNCHANGED <<delay, lockCancel>>
    BY <1>3 DEF NotifIdles, NotifDue
  <2>2. notif'.idled
    BY <1>0, <2>1 DEF StateOK, NotifType
  <2>3. CASE notif.mode = "locked"
    <3>1. Arming' => Arming
      BY <1>0, <1>3, <2>3, WorldMoves, BegunArms, OtherThreads
    <3> QED
      BY <2>1, <2>2, <3>1 DEF DelaysOK, FreshWhileArming, DelayEndsFirst, NoOrphanDelay
  <2>4. CASE notif.mode # "locked"
    <3>1. notif.mode = "unlocked"
      BY <1>0, <2>1, <2>4 DEF StateOK, NotifType
    <3>2. \A d \in Delays : delay[d].left \in 0..LockDelay
      BY <1>0 DEF StateOK, DelayType
    <3>3. \A d \in Delays : ~(delay[d].left < 0)
      BY <3>2, LimitsAreNatural
    <3>4. \A d \in Delays : ~delay[d].running
      BY <2>1, <3>1, <3>3 DEF DelaysOK, DelayEndsFirst
    <3> QED
      BY <2>1, <2>2, <3>4 DEF DelaysOK, FreshWhileArming, DelayEndsFirst, NoOrphanDelay
  <2> QED
    BY <2>3, <2>4
<1>4. CASE Activity
  <2>1. notif' = NewNotif(notif.mode) /\ UNCHANGED <<delay, lockCancel>>
    BY <1>4 DEF Activity
  <2>2. Arming' => Arming
    <3>1. CASE notif.idled
      <4>1. Begun("wayland", "onGate", {"onGate"} \cup {"recreate"})
        BY <1>0, <1>4, <3>1, WorldMoves
      <4> QED
        BY <4>1, BegunArms, OtherThreads
    <3>2. CASE ~notif.idled
      BY <1>0, <1>4, <3>2, WorldMoves
    <3> QED
      BY <3>1, <3>2
  <2> QED
    BY <1>0, <2>1, <2>2, NewNotifLasts
<1>5. CASE WaylandConnect
  <2>1. UNCHANGED <<delay, lockCancel, notif>>
    BY <1>5 DEF WaylandConnect
  <2>2. Arming' => Arming
    BY <1>0, <1>5, WorldMoves, BegunArms, OtherThreads
  <2> QED
    BY <2>1, <2>2, DelaysUntouched
<1>6. CASE WaylandLost
  <2>1. UNCHANGED <<delay, lockCancel, todo>> /\ notif'.mode = "none"
    BY <1>6 DEF WaylandLost, NoNotif
  <2> QED
    BY <1>0, <2>1 DEF DelaysOK, FreshWhileArming, DelayEndsFirst, NoOrphanDelay
<1>7. CASE Leave \/ PowersaveTick \/ UNCHANGED vars
  <2>1. UNCHANGED <<delay, lockCancel, notif, todo>>
    BY <1>7 DEF Leave, PowersaveTick, vars, timers
  <2> QED
    BY <1>0, <2>1, DelaysUntouched
<1>8. CASE Tick
  <2>1. ~Arming'
    <3>1. todo'["wayland"] = <<>>
      BY <1>8, OtherThreads DEF Tick, Quiet, AtRest
    <3> QED
      BY <3>1, EmptySeq DEF Arming, Mentions
  <2>2. UNCHANGED lockCancel
    BY <1>8 DEF Tick
  <2>3. \A d \in Delays : /\ delay'[d].running = delay[d].running
                          /\ delay'[d].cancelled = delay[d].cancelled
                          /\ delay[d].running => delay'[d].left = delay[d].left - 1
    <3> SUFFICES ASSUME NEW d \in Delays
                 PROVE  /\ delay'[d].running = delay[d].running
                        /\ delay'[d].cancelled = delay[d].cancelled
                        /\ delay[d].running => delay'[d].left = delay[d].left - 1
      OBVIOUS
    <3>1. delay'[d] = IF delay[d].running THEN [delay[d] EXCEPT !.left = @ - 1] ELSE delay[d]
      BY <1>8 DEF Tick
    <3>2. delay[d] \in DelayType
      BY <1>0 DEF StateOK
    <3> QED
      BY <3>1, <3>2 DEF DelayType
  <2>4. /\ notif'.mode = notif.mode /\ notif'.idled = notif.idled
        /\ notif.mode = "unlocked" /\ ~notif.idled => notif'.left = notif.left - 1
    <3>1. notif \in NotifType
      BY <1>0 DEF StateOK
    <3>2. notif' = IF notif.mode = "none" \/ notif.idled THEN notif
                   ELSE [notif EXCEPT !.left = @ - 1]
      BY <1>8 DEF Tick
    <3> QED
      BY <3>1, <3>2 DEF NotifType
  <2>5. NoOrphanDelay'
    BY <2>2, <2>3 DEF DelaysOK, NoOrphanDelay
  <2>6. DelayEndsFirst'
    <3> SUFFICES ASSUME NEW d \in Delays, delay'[d].running, notif'.mode = "unlocked",
                        ~notif'.idled
                 PROVE  delay'[d].left < notif'.left
      BY DEF DelayEndsFirst
    <3> DEFINE m == delay[d].left
               n == notif.left
    <3>1. m \in 0..LockDelay /\ n \in Nat
      BY <1>0 DEF StateOK, DelayType, NotifType
    <3>2. m < n /\ delay'[d].left = m - 1 /\ notif'.left = n - 1
      BY <2>3, <2>4 DEF DelaysOK, DelayEndsFirst
    <3>3. m - 1 < n - 1
      <4> HIDE DEF m, n
      <4> QED
        BY <3>1, <3>2, LimitsAreNatural
    <3> QED
      BY <3>2, <3>3
  <2> QED
    BY <2>1, <2>5, <2>6 DEF DelaysOK, FreshWhileArming
<1> QED
  BY <1>1, <1>2, <1>3, <1>4, <1>5, <1>6, <1>7, <1>8 DEF World

LEMMA InitDelays == Init => DelaysOK
<1> SUFFICES ASSUME Init
             PROVE  DelaysOK
  OBVIOUS
<1>1. todo["wayland"] = <<>>
  BY OtherThreads DEF Init
<1>2. ~Arming
  BY <1>1, EmptySeq DEF Arming, Mentions
<1>3. \A d \in Delays : ~delay[d].running
  BY DEF Init, NoDelay
<1> QED
  BY <1>2, <1>3 DEF DelaysOK, FreshWhileArming, DelayEndsFirst, NoOrphanDelay

LEMMA SpecDelays == Spec => [](TInv /\ DelaysOK)
<1>1. Init => TInv /\ DelaysOK
  BY InitTInv, InitDelays
<1>2. TInv /\ DelaysOK /\ [Next]_vars => (TInv /\ DelaysOK)'
  <2> SUFFICES ASSUME TInv, DelaysOK, [Next]_vars
               PROVE  (TInv /\ DelaysOK)'
    OBVIOUS
  <2>1. TInv'
    BY NextTInv
  <2>2. ASSUME NEW t \in Threads, Run(t)
        PROVE  DelaysOK'
    BY <2>2, RunDelays
  <2>3. CASE World
    BY <2>1, <2>3, WorldDelays
  <2> QED
    BY <2>1, <2>2, <2>3, ProgramsOrWorld
<1> QED
  BY <1>1, <1>2, PTL DEF Spec

\* The cancel function that setDisplay(true) calls is the one of the lock that is still
\* coming, although the idled handler overwrites it without a look: an idle timer runs
\* longer than a delayed lock waits, so that no second one is ever started beside it.
THEOREM DelaysAreNotOrphaned == Spec => []NoOrphanDelay
<1>1. DelaysOK => NoOrphanDelay
  BY DEF DelaysOK
<1> QED
  BY <1>1, SpecDelays, PTL

----------------------------------------------------------------------------
(* One story.                                                              *)

\* The story before the step from f to g, and what that step leaves of the operations to
\* come when it starts the operations M.
Retold(f, g, M, r, o, r1, o1) ==
  /\ r \in BOOLEAN /\ o \in BOOLEAN /\ r1 \in BOOLEAN /\ o1 \in BOOLEAN
  /\ f \in Ops
  /\ Story(f, r, o)
  /\ f # "recreate" => (r1 <=> "recreate" \in M \/ r)
  /\ f = "recreate" => r
  /\ f # "storeOff" => (o1 <=> "storeOff" \in M \/ o)
  /\ f = "storeOff" => o
  /\ g = "end" => ~r1 /\ ~o1

\* The step goes on with the story.
Tells(f, g, M) ==
  \A r, o, r1, o1 : Retold(f, g, M, r, o, r1, o1) => Story(g, r1, o1)'

GoesOn(t) == \E f, g, M : Moved(t, f, g, M) /\ Tells(f, g, M)

LEMMA GoingOnTells ==
  ASSUME NEW t \in Threads, GoesOn(t), Told(todo[t])
  PROVE  Told(todo[t])'
<1>1. PICK f, g, M : Moved(t, f, g, M) /\ Tells(f, g, M)
  BY DEF GoesOn
<1>2. PICK r, o \in BOOLEAN : /\ r = Mentions(todo[t], "recreate")
                              /\ o = Mentions(todo[t], "storeOff")
  BY DEF Mentions
<1>3. PICK r1, o1 \in BOOLEAN : /\ r1 = Mentions(todo'[t], "recreate")
                                /\ o1 = Mentions(todo'[t], "storeOff")
  BY DEF Mentions
<1>4. Story(f, r, o)
  BY <1>1, <1>2 DEF Told, Moved
<1>5. Retold(f, g, M, r, o, r1, o1)
  BY <1>1, <1>2, <1>3, <1>4 DEF Moved, Retold
<1>6. Story(g, r1, o1)'
  BY <1>1, <1>5 DEF Tells
<1>7. First(todo'[t]) = g
  BY <1>1 DEF Moved
<1> QED
  BY <1>3, <1>6, <1>7 DEF Told

LEMMA SameFacts ==
  /\ UNCHANGED delay => (Coming' <=> Coming)
  /\ UNCHANGED inhibitors => (Held' <=> Held)
  /\ UNCHANGED <<notif, inhibited>> => (IdledOut' <=> IdledOut)
  BY DEF Coming, Held, IdledOut

\* The operations that return without a change.
LEMMA NothingTells ==
  ASSUME StateOK, UNCHANGED <<locked, sources, inhibited, display, timers, powersave>>,
         NEW f \in {"recompute", "rangeInhibitors", "testInhibited", "testLocked",
                    "idledLocked", "idledUnlocked"},
         NEW g, Follows(f, g), f = "rangeInhibitors" => inhibitors # {}
  PROVE  Tells(f, g, {})
<1> SUFFICES ASSUME NEW r, NEW o, NEW r1, NEW o1, Retold(f, g, {}, r, o, r1, o1)
             PROVE  Story(g, r1, o1)'
  BY DEF Tells
<1>1. g = "end"
  BY CallersFit
<1>2. (Coming' <=> Coming) /\ (Held' <=> Held) /\ (IdledOut' <=> IdledOut)
  BY SameFacts DEF timers, sources
<1>3. f = "rangeInhibitors" => Held
  BY DEF Held
<1> QED
  BY <1>1, <1>2, <1>3 DEF StateOK, Retold, Story, sources, display, timers, powersave

LEMMA OnGateTells ==
  ASSUME StateOK, DelaysOK, ProgramsWellFormed, NEW t \in Threads, OnGate(t)
  PROVE  GoesOn(t)
<1>1. UNCHANGED <<locked, sources, inhibited, display, notif, connected, powersave>>
  BY DEF OnGate
<1>2. (Held' <=> Held) /\ (IdledOut' <=> IdledOut)
  BY <1>1, SameFacts DEF sources
<1>3. ASSUME forced, UNCHANGED delay, NEW g, Follows("onGate", g)
      PROVE  Tells("onGate", g, {})
  <2> SUFFICES ASSUME NEW r, NEW o, NEW r1, NEW o1,
                      Retold("onGate", g, {}, r, o, r1, o1)
               PROVE  Story(g, r1, o1)'
    BY DEF Tells
  <2>1. g \in {"onGate", "recreate", "storeOff", "end"}
    BY <1>3 DEF Follows
  <2>2. Coming' <=> Coming
    BY <1>3, SameFacts
  <2> QED
    BY <1>1, <1>2, <1>3, <2>1, <2>2 DEF StateOK, Retold, Story, sources, display, powersave
<1>4. ASSUME ~forced, delay' = Cancelled
      PROVE  Tells("onGate", "storeOn", {"storeOn", "dpmsOn", "reportOn"})
  <2> SUFFICES ASSUME NEW r, NEW o, NEW r1, NEW o1,
                      Retold("onGate", "storeOn", {"storeOn", "dpmsOn", "reportOn"},
                             r, o, r1, o1)
               PROVE  Story("storeOn", r1, o1)'
    BY DEF Tells
  <2>1. ~Coming'
    BY <1>4, CancelledTyped, IdleThreadsAssumption DEF StateOK, DelaysOK, NoOrphanDelay, Coming
  <2> QED
    BY <1>1, <1>2, <1>4, <2>1 DEF StateOK, Retold, Story, sources, display, powersave
<1>5. CASE MovedOn(t, "onGate") /\ forced /\ UNCHANGED <<lockCancel, delay>>
  BY <1>3, <1>5 DEF MovedOn, GoesOn
<1>6. CASE /\ Moved(t, "onGate", "storeOn", {"storeOn", "dpmsOn", "reportOn"})
           /\ ~forced /\ delay' = Cancelled /\ lockCancel' = "nil"
  BY <1>4, <1>6, Zenon DEF GoesOn
<1> QED
  BY <1>5, <1>6, OnGateMoves

LEMMA SetFlagTells ==
  ASSUME StateOK, ProgramsWellFormed, NEW t \in Threads, SetFlag(t)
  PROVE  GoesOn(t)
<1>1. UNCHANGED <<locked, inhibitors, inhibited, display, timers, powersave>>
  BY DEF SetFlag
<1>2. (Held' <=> Held) /\ (IdledOut' <=> IdledOut) /\ (Coming' <=> Coming)
  BY <1>1, SameFacts DEF timers
<1>3. PICK op \in FlagOps : MovedOn(t, op) /\ flags' = FlagsAfter(op)
  BY PlainMoves
<1>4. PICK g : Moved(t, op, g, {}) /\ Follows(op, g)
  BY <1>3 DEF MovedOn
<1>5. g = "recompute"
  BY <1>4 DEF Follows
<1>6. flags'.screensaver = IF op = "screensaverOn" THEN TRUE
                           ELSE IF op = "screensaverOff" THEN FALSE ELSE flags.screensaver
  BY <1>3 DEF FlagsAfter, FlagOps, StateOK, FlagsType
<1>7. Tells(op, g, {})
  <2> SUFFICES ASSUME NEW r, NEW o, NEW r1, NEW o1, Retold(op, g, {}, r, o, r1, o1)
               PROVE  Story(g, r1, o1)'
    BY DEF Tells
  <2> QED
    BY <1>1, <1>2, <1>3, <1>5, <1>6
       DEF StateOK, FlagsType, Retold, Story, FlagOps, display, timers, powersave
<1> QED
  BY <1>4, <1>7 DEF GoesOn

LEMMA RecomputeTells ==
  ASSUME StateOK, ProgramsWellFormed, NEW t \in Threads, Recompute(t)
  PROVE  GoesOn(t)
<1>1. UNCHANGED <<locked, sources, display, timers, powersave>> /\ inhibited' \in BOOLEAN
  BY DEF Recompute
<1>2. (Held' <=> Held) /\ (Coming' <=> Coming)
  BY <1>1, SameFacts DEF timers, sources
<1>3. CASE MovedOn(t, "recompute") /\ inhibited' = inhibited
  BY <1>1, <1>3, NothingTells DEF MovedOn, GoesOn
<1>4. CASE /\ Moved(t, "recompute", "onGate", {"onGate"} \cup {"recreate"})
           /\ inhibited' # inhibited /\ inhibited' /\ ~displayOn /\ ~locked
  <2>1. Tells("recompute", "onGate", {"onGate"} \cup {"recreate"})
    <3> SUFFICES ASSUME NEW r, NEW o, NEW r1, NEW o1,
                        Retold("recompute", "onGate", {"onGate"} \cup {"recreate"}, r, o, r1, o1)
                 PROVE  Story("onGate", r1, o1)'
      BY DEF Tells
    <3> QED
      BY <1>1, <1>2, <1>4 DEF StateOK, Retold, Story, sources, display, timers, powersave
  <2> QED
    BY <1>4, <2>1, Zenon DEF GoesOn
<1>5. CASE /\ Moved(t, "recompute", "recreate", {"recreate"})
           /\ inhibited' # inhibited /\ ~(inhibited' /\ ~displayOn /\ ~locked)
  <2>1. Tells("recompute", "recreate", {"recreate"})
    <3> SUFFICES ASSUME NEW r, NEW o, NEW r1, NEW o1,
                        Retold("recompute", "recreate", {"recreate"}, r, o, r1, o1)
                 PROVE  Story("recreate", r1, o1)'
      BY DEF Tells
    <3> QED
      BY <1>1, <1>2, <1>5
         DEF StateOK, Retold, Story, IdledOut, sources, display, timers, powersave
  <2> QED
    BY <1>5, <2>1, Zenon DEF GoesOn
<1> QED
  BY <1>3, <1>4, <1>5, RecomputeMoves

LEMMA InhibitorsTell ==
  ASSUME StateOK, ProgramsWellFormed, NEW t \in Threads,
         StoreInhibitor(t) \/ DeleteInhibitor(t) \/ RangeInhibitors(t)
  PROVE  GoesOn(t)
<1>1. UNCHANGED <<locked, flags, inhibited, display, timers, powersave>>
  BY DEF StoreInhibitor, DeleteInhibitor, RangeInhibitors, sources
<1>2. (Coming' <=> Coming) /\ (IdledOut' <=> IdledOut)
  BY <1>1, SameFacts DEF timers
<1>3. ASSUME NEW f \in {"storeInhibitor", "deleteInhibitor"}, MovedOn(t, f),
             f = "storeInhibitor" => Held'
      PROVE  GoesOn(t)
  <2>1. PICK g : Moved(t, f, g, {}) /\ Follows(f, g)
    BY <1>3 DEF MovedOn
  <2>2. /\ f = "storeInhibitor" => g = "screensaverOn"
        /\ f = "deleteInhibitor" => g = "rangeInhibitors"
    BY <2>1 DEF Follows
  <2>3. Tells(f, g, {})
    <3> SUFFICES ASSUME NEW r, NEW o, NEW r1, NEW o1, Retold(f, g, {}, r, o, r1, o1)
                 PROVE  Story(g, r1, o1)'
      BY DEF Tells
    <3> QED
      BY <1>1, <1>2, <1>3, <2>2 DEF StateOK, Retold, Story, display, timers, powersave
  <2> QED
    BY <2>1, <2>3 DEF GoesOn
<1>4. CASE StoreInhibitor(t)
  <2>1. Held'
    BY <1>4 DEF StoreInhibitor, Held
  <2> QED
    BY <1>3, <1>4, <2>1, PlainMoves
<1>5. CASE DeleteInhibitor(t)
  BY <1>3, <1>5, PlainMoves
<1>6. ASSUME RangeInhibitors(t), MovedOn(t, "rangeInhibitors"), inhibitors # {}
      PROVE  GoesOn(t)
  BY <1>6, NothingTells DEF RangeInhibitors, MovedOn, GoesOn
<1>7. ASSUME RangeInhibitors(t), inhibitors = {},
             Moved(t, "rangeInhibitors", "screensaverOff", {"screensaverOff", "recompute"})
      PROVE  GoesOn(t)
  <2>1. ~Held'
    BY <1>7 DEF RangeInhibitors, Held, sources
  <2>2. Tells("rangeInhibitors", "screensaverOff", {"screensaverOff", "recompute"})
    <3> SUFFICES ASSUME NEW r, NEW o, NEW r1, NEW o1,
                        Retold("rangeInhibitors", "screensaverOff",
                               {"screensaverOff", "recompute"}, r, o, r1, o1)
                 PROVE  Story("screensaverOff", r1, o1)'
      BY DEF Tells
    <3> QED
      BY <1>1, <1>2, <2>1 DEF StateOK, Retold, Story, display, timers, powersave
  <2> QED
    BY <1>7, <2>2, Zenon DEF GoesOn
<1> QED
  BY <1>4, <1>5, <1>6, <1>7, RangeInhibitorsMoves

LEMMA DisplayTells ==
  ASSUME StateOK, ProgramsWellFormed, NEW t \in Threads,
         StoreDisplay(t) \/ SetDPMS(t) \/ ReportDisplay(t)
  PROVE  GoesOn(t)
<1>1. UNCHANGED <<locked, sources, inhibited, forced, lastLocked, timers>>
  BY DEF StoreDisplay, SetDPMS, ReportDisplay, display
<1>2. (Coming' <=> Coming) /\ (Held' <=> Held) /\ (IdledOut' <=> IdledOut)
  BY <1>1, SameFacts DEF timers, sources
<1>3. ASSUME NEW f \in {"storeOn", "storeOff", "dpmsOn", "dpmsOff", "reportOn", "reportOff"},
             MovedOn(t, f),
             displayOn' = IF f = "storeOn" THEN TRUE
                          ELSE IF f = "storeOff" THEN FALSE ELSE displayOn,
             dpms' = IF f = "dpmsOn" THEN TRUE ELSE IF f = "dpmsOff" THEN FALSE ELSE dpms,
             screenOff' = IF f = "reportOn" THEN FALSE
                          ELSE IF f = "reportOff" THEN TRUE ELSE screenOff,
             active' = (active /\ f # "reportOn")
      PROVE  GoesOn(t)
  <2>1. PICK g : Moved(t, f, g, {}) /\ Follows(f, g)
    BY <1>3 DEF MovedOn
  <2>2. /\ f = "storeOn" => g = "dpmsOn"
        /\ f = "dpmsOn" => g = "reportOn"
        /\ f = "reportOn" => g \in {"onGate", "recreate", "storeOff", "end"}
        /\ f = "storeOff" => g = "dpmsOff"
        /\ f = "dpmsOff" => g = "reportOff"
        /\ f = "reportOff" => g \in {"armDelay", "end"}
    BY <2>1 DEF Follows
  <2>3. Tells(f, g, {})
    <3> SUFFICES ASSUME NEW r, NEW o, NEW r1, NEW o1, Retold(f, g, {}, r, o, r1, o1)
                 PROVE  Story(g, r1, o1)'
      BY DEF Tells
    <3>1. CASE f \in {"storeOn", "storeOff"}
      BY <1>1, <1>2, <1>3, <2>2, <3>1
         DEF StateOK, PS!PsTypeOK, Retold, Story, sources, timers
    <3>2. CASE f \in {"dpmsOn", "dpmsOff"}
      BY <1>1, <1>2, <1>3, <2>2, <3>2
         DEF StateOK, PS!PsTypeOK, Retold, Story, sources, timers
    <3>3. CASE f = "reportOn"
      BY <1>1, <1>2, <1>3, <2>2, <3>3
         DEF StateOK, PS!PsTypeOK, Retold, Story, sources, timers
    <3>4. CASE f = "reportOff"
      BY <1>1, <1>2, <1>3, <2>2, <3>4
         DEF StateOK, PS!PsTypeOK, Retold, Story, sources, timers
    <3> QED
      BY <1>3, <3>1, <3>2, <3>3, <3>4
  <2> QED
    BY <2>1, <2>3 DEF GoesOn
<1>4. CASE StoreDisplay(t)
  <2>1. UNCHANGED <<dpms, screenOff, active>>
    BY <1>4 DEF StoreDisplay, powersave
  <2> QED
    BY <1>3, <1>4, <2>1, PlainMoves DEF StateOK, PS!PsTypeOK
<1>5. CASE SetDPMS(t)
  <2>1. UNCHANGED <<displayOn, screenOff, active>>
    BY <1>5 DEF SetDPMS, powersave
  <2> QED
    BY <1>3, <1>5, <2>1, PlainMoves DEF StateOK, PS!PsTypeOK
<1>6. CASE ReportDisplay(t)
  <2>1. UNCHANGED <<displayOn, dpms>>
    BY <1>6 DEF ReportDisplay, display
  <2> QED
    BY <1>3, <1>6, <2>1, PlainMoves DEF StateOK, PS!PsTypeOK, PS!SetScreenOff
<1> QED
  BY <1>4, <1>5, <1>6

LEMMA LockTells ==
  ASSUME StateOK, ProgramsWellFormed, NEW t \in Threads, Suppress(t) \/ SetLocked(t)
  PROVE  GoesOn(t)
<1>1. UNCHANGED <<sources, inhibited, displayOn, dpms, lastLocked, timers, powersave>>
  BY DEF Suppress, SetLocked, display
<1>2. (Held' <=> Held) /\ (IdledOut' <=> IdledOut) /\ (Coming' <=> Coming)
  BY <1>1, SameFacts DEF timers, sources
<1>3. CASE Suppress(t)
  <2>1. PICK g : Moved(t, "suppress", g, {}) /\ Follows("suppress", g)
    BY <1>3, PlainMoves DEF MovedOn
  <2>2. g = "setLocked" /\ locked' = locked /\ forced' = TRUE
    BY <1>3, <2>1 DEF Suppress, Follows
  <2>3. Tells("suppress", g, {})
    <3> SUFFICES ASSUME NEW r, NEW o, NEW r1, NEW o1, Retold("suppress", g, {}, r, o, r1, o1)
                 PROVE  Story(g, r1, o1)'
      BY DEF Tells
    <3> QED
      BY <1>1, <1>2, <2>2 DEF StateOK, Retold, Story, sources, timers, powersave
  <2> QED
    BY <2>1, <2>3 DEF GoesOn
<1>4. ASSUME NEW f \in {"setLocked", "clearLocked"}, MovedOn(t, f), UNCHANGED forced,
             locked' = (f = "setLocked")
      PROVE  GoesOn(t)
  <2>1. PICK g : Moved(t, f, g, {}) /\ Follows(f, g)
    BY <1>4 DEF MovedOn
  <2>2. g = "notify"
    BY <2>1 DEF Follows
  <2>3. Tells(f, g, {})
    <3> SUFFICES ASSUME NEW r, NEW o, NEW r1, NEW o1, Retold(f, g, {}, r, o, r1, o1)
                 PROVE  Story(g, r1, o1)'
      BY DEF Tells
    <3>1. CASE f = "setLocked"
      BY <1>1, <1>2, <1>4, <2>2, <3>1 DEF StateOK, Retold, Story, sources, timers, powersave
    <3>2. CASE f = "clearLocked"
      BY <1>1, <1>2, <1>4, <2>2, <3>2 DEF StateOK, Retold, Story, sources, timers, powersave
    <3> QED
      BY <3>1, <3>2
  <2> QED
    BY <2>1, <2>3 DEF GoesOn
<1>5. CASE SetLocked(t)
  <2>1. UNCHANGED forced
    BY <1>5 DEF SetLocked, display
  <2> QED
    BY <1>4, <1>5, <2>1, PlainMoves
<1> QED
  BY <1>3, <1>5

LEMMA TestsTell ==
  ASSUME StateOK, ProgramsWellFormed, NEW t \in Threads,
         TestInhibited(t) \/ TestLocked(t) \/ Notify(t)
  PROVE  GoesOn(t)
<1>1. UNCHANGED <<locked, sources, inhibited, display, timers, powersave>>
  BY DEF TestInhibited, TestLocked, Notify
<1>2. (Held' <=> Held) /\ (IdledOut' <=> IdledOut) /\ (Coming' <=> Coming)
  BY <1>1, SameFacts DEF timers, sources
<1>3. ASSUME NEW f \in {"testInhibited", "testLocked"}, MovedOn(t, f)
      PROVE  GoesOn(t)
  BY <1>1, <1>3, NothingTells DEF MovedOn, GoesOn
<1>4. ASSUME NEW f, NEW g, NEW M, Moved(t, f, g, M), "recreate" \notin M, "storeOff" \notin M,
             \/ f = "testInhibited" /\ g = "testLocked"
             \/ f = "testLocked" /\ g = "setLocked"
             \/ f = "notify" /\ g = "noteLocked" /\ locked
             \/ f = "notify" /\ g = "noteUnlocked" /\ ~locked
      PROVE  GoesOn(t)
  <2>1. Tells(f, g, M)
    <3> SUFFICES ASSUME NEW r, NEW o, NEW r1, NEW o1, Retold(f, g, M, r, o, r1, o1)
                 PROVE  Story(g, r1, o1)'
      BY DEF Tells
    <3>1. CASE f \in {"testInhibited", "testLocked"}
      BY <1>1, <1>2, <1>4, <3>1
         DEF StateOK, Retold, Story, sources, display, timers, powersave
    <3>2. CASE f = "notify"
      BY <1>1, <1>2, <1>4, <3>2
         DEF StateOK, Retold, Story, sources, display, timers, powersave
    <3> QED
      BY <1>4, <3>1, <3>2
  <2> QED
    BY <1>4, <2>1, Zenon DEF GoesOn
<1>5. CASE TestInhibited(t)
  <2>1. CASE MovedOn(t, "testInhibited")
    BY <1>3, <2>1
  <2>2. CASE Moved(t, "testInhibited", "testLocked", {"testLocked"})
    BY <1>4, <2>2
  <2> QED
    BY <1>5, <2>1, <2>2, TestMoves
<1>6. CASE TestLocked(t)
  <2>1. CASE MovedOn(t, "testLocked")
    BY <1>3, <2>1
  <2>2. CASE Moved(t, "testLocked", "setLocked", {"setLocked", "notify"})
    BY <1>4, <2>2
  <2> QED
    BY <1>6, <2>1, <2>2, TestMoves
<1>7. CASE Notify(t)
  <2>1. CASE locked /\ Moved(t, "notify", "noteLocked", {"noteLocked"})
    BY <1>4, <2>1
  <2>2. CASE ~locked /\ Moved(t, "notify", "noteUnlocked", {"noteUnlocked"})
    BY <1>4, <2>2
  <2> QED
    BY <1>7, <2>1, <2>2, TestMoves
<1> QED
  BY <1>5, <1>6, <1>7

LEMMA NoteTells ==
  ASSUME StateOK, ProgramsWellFormed, NEW t \in Threads, NEW v \in BOOLEAN, Note(t, v)
  PROVE  GoesOn(t)
<1>1. /\ UNCHANGED <<locked, sources, inhibited, displayOn, dpms, timers, powersave>>
      /\ lastLocked' = v /\ forced' = (forced /\ v)
  BY DEF Note
<1>2. (Held' <=> Held) /\ (IdledOut' <=> IdledOut) /\ (Coming' <=> Coming)
  BY <1>1, SameFacts DEF timers, sources
<1>3. ASSUME NEW M, Moved(t, NoteOf(v), "onGate", M), "storeOff" \notin M,
             "recreate" \in M \/ v = lastLocked
      PROVE  GoesOn(t)
  <2>1. Tells(NoteOf(v), "onGate", M)
    <3> SUFFICES ASSUME NEW r, NEW o, NEW r1, NEW o1,
                        Retold(NoteOf(v), "onGate", M, r, o, r1, o1)
                 PROVE  Story("onGate", r1, o1)'
      BY DEF Tells
    <3>1. CASE v
      BY <1>1, <1>2, <1>3, <3>1 DEF NoteOf, StateOK, Retold, Story, sources, timers, powersave
    <3>2. CASE ~v
      BY <1>1, <1>2, <1>3, <3>2 DEF NoteOf, StateOK, Retold, Story, sources, timers, powersave
    <3> QED
      BY <3>1, <3>2
  <2> QED
    BY <1>3, <2>1, Zenon DEF GoesOn
<1>4. CASE Moved(t, NoteOf(v), "onGate", {"onGate"} \cup {"recreate"})
  BY <1>3, <1>4
<1>5. CASE v = lastLocked /\ Moved(t, NoteOf(v), "onGate", {"onGate"})
  BY <1>3, <1>5
<1> QED
  BY <1>4, <1>5, NoteMoves

LEMMA RecreateTells ==
  ASSUME StateOK, ProgramsWellFormed, NEW t \in Threads, Recreate(t)
  PROVE  GoesOn(t)
<1>1. UNCHANGED <<locked, sources, inhibited, display, delay, connected, powersave>>
  BY DEF Recreate
<1>2. (Held' <=> Held) /\ (Coming' <=> Coming)
  BY <1>1, SameFacts DEF sources
<1>3. PICK g : Moved(t, "recreate", g, {}) /\ Follows("recreate", g)
  BY PlainMoves DEF MovedOn
<1>4. g \in {"onGate", "storeOff", "end"}
  BY <1>3 DEF Follows
<1>5. IF connected THEN notif'.mode = Mode(locked) /\ ~notif'.idled ELSE notif' = notif
  BY DEF Recreate, NewNotif, Mode
<1>6. Tells("recreate", g, {})
  <2> SUFFICES ASSUME NEW r, NEW o, NEW r1, NEW o1, Retold("recreate", g, {}, r, o, r1, o1)
               PROVE  Story(g, r1, o1)'
    BY DEF Tells
  <2>1. lastLocked = locked /\ (displayOn \/ locked \/ ~NeverRestarts) /\ (o => locked)
    BY DEF Retold, Story
  <2>2. notif'.mode # "none" => connected /\ notif'.mode = Mode(lastLocked')
    BY <1>1, <1>5, <2>1 DEF Retold, Story, Mode, display
  <2> QED
    BY <1>1, <1>2, <1>4, <2>1, <2>2
       DEF StateOK, Retold, Story, sources, display, powersave
<1> QED
  BY <1>3, <1>6 DEF GoesOn

LEMMA IdledTells ==
  ASSUME StateOK, ProgramsWellFormed, NEW t \in Threads, Idled(t)
  PROVE  GoesOn(t)
<1>1. UNCHANGED <<locked, sources, inhibited, display, timers, powersave>>
  BY DEF Idled
<1>2. (Held' <=> Held) /\ (IdledOut' <=> IdledOut) /\ (Coming' <=> Coming)
  BY <1>1, SameFacts DEF timers, sources
<1>3. ASSUME NEW f \in {"idledLocked", "idledUnlocked"}, MovedOn(t, f)
      PROVE  GoesOn(t)
  BY <1>1, <1>3, NothingTells DEF MovedOn, GoesOn
<1>4. ASSUME NEW f \in {"idledLocked", "idledUnlocked"}, NEW M, ~inhibited,
             Moved(t, f, "storeOff", M), "recreate" \notin M
      PROVE  GoesOn(t)
  <2>1. Tells(f, "storeOff", M)
    <3> SUFFICES ASSUME NEW r, NEW o, NEW r1, NEW o1, Retold(f, "storeOff", M, r, o, r1, o1)
                 PROVE  Story("storeOff", r1, o1)'
      BY DEF Tells
    <3>1. locked \/ IdledOut
      BY <1>4 DEF Retold, Story, IdledOut
    <3> QED
      BY <1>1, <1>2, <1>4, <3>1
         DEF StateOK, Retold, Story, sources, display, timers, powersave
  <2> QED
    BY <1>4, <2>1, Zenon DEF GoesOn
<1>5. CASE /\ ~inhibited
           /\ Moved(t, "idledLocked", "storeOff", {"storeOff", "dpmsOff", "reportOff"})
  BY <1>4, <1>5
<1>6. CASE /\ ~inhibited
           /\ Moved(t, "idledUnlocked", "storeOff",
                    {"storeOff", "dpmsOff", "reportOff"} \cup {"armDelay"})
  BY <1>4, <1>6
<1> QED
  BY <1>3, <1>5, <1>6, IdledMoves

LEMMA ArmDelayTells ==
  ASSUME StateOK, ProgramsWellFormed, NEW t \in Threads, ArmDelay(t)
  PROVE  GoesOn(t)
<1>1. UNCHANGED <<locked, sources, inhibited, display, notif, connected, powersave>>
  BY DEF ArmDelay
<1>2. (Held' <=> Held) /\ (IdledOut' <=> IdledOut)
  BY <1>1, SameFacts DEF sources
<1>3. PICK g : Moved(t, "armDelay", g, {}) /\ Follows("armDelay", g)
  BY PlainMoves DEF MovedOn
<1>4. g = "end"
  BY <1>3 DEF Follows
<1>5. Tells("armDelay", g, {})
  <2> SUFFICES ASSUME NEW r, NEW o, NEW r1, NEW o1, Retold("armDelay", g, {}, r, o, r1, o1)
               PROVE  Story(g, r1, o1)'
    BY DEF Tells
  <2> QED
    BY <1>1, <1>2, <1>4 DEF StateOK, Retold, Story, sources, display, powersave
<1> QED
  BY <1>3, <1>5 DEF GoesOn

LEMMA RunGoesOn ==
  ASSUME StateOK, DelaysOK, ProgramsWellFormed, NEW t \in Threads, Run(t)
  PROVE  GoesOn(t)
  BY SetFlagTells, RecomputeTells, InhibitorsTell, OnGateTells, DisplayTells, LockTells,
     TestsTell, NoteTells, RecreateTells, IdledTells, ArmDelayTells DEF Run

LEMMA RestTells == Quiet /\ OneStory => Story("end", FALSE, FALSE)
<1> SUFFICES ASSUME Quiet, OneStory
             PROVE  Story("end", FALSE, FALSE)
  OBVIOUS
<1>1. PICK t \in Threads : Told(todo[t])
  BY DEF OneStory
<1>2. todo[t] = <<>>
  BY DEF Quiet, AtRest
<1>3. First(<<>>) = "end" /\ \A op : Mentions(<<>>, op) = FALSE
  BY EmptySeq DEF First, Mentions
<1> QED
  BY <1>1, <1>2, <1>3 DEF Told

LEMMA RestIsTold == Quiet /\ Story("end", FALSE, FALSE) => OneStory
<1> SUFFICES ASSUME Quiet, Story("end", FALSE, FALSE)
             PROVE  OneStory
  OBVIOUS
<1>1. First(<<>>) = "end" /\ \A op : Mentions(<<>>, op) = FALSE
  BY EmptySeq DEF First, Mentions
<1>2. "wayland" \in Threads /\ todo["wayland"] = <<>> /\ AtWork("wayland")
  BY OtherThreads DEF Quiet, AtRest, AtWork
<1>3. Mentions(<<>>, "recreate") = FALSE /\ Mentions(<<>>, "storeOff") = FALSE
  BY <1>1
<1>4. Told(<<>>)
  BY <1>1, <1>3, Zenon DEF Told
<1> QED
  BY <1>2, <1>4 DEF OneStory

LEMMA QuietOneStory ==
  ASSUME Quiet, UNCHANGED todo, Story("end", FALSE, FALSE)'
  PROVE  OneStory'
<1>1. Quiet'
  BY DEF Quiet, AtRest
<1> QED
  BY <1>1, RestIsTold, PTL

LEMMA RunOneStory ==
  ASSUME TInv, DelaysOK, OneStory, NEW t \in Threads, Run(t)
  PROVE  OneStory'
<1>1. GoesOn(t)
  BY RunGoesOn DEF TInv
<1>2. /\ todo[t] # <<>>
      /\ \A u \in Threads \ {t} : todo'[u] = todo[u]
  BY <1>1 DEF GoesOn, Moved
<1>3. AtWork(t) /\ Told(todo[t])
  <2>1. PICK u \in Threads : AtWork(u) /\ Told(todo[u])
    BY DEF OneStory
  <2>2. u = t
    BY <1>2, <2>1 DEF AtWork, AtRest
  <2> QED
    BY <2>1, <2>2
<1>4. AtWork(t)'
  BY <1>2, <1>3 DEF AtWork, AtRest
<1>5. Told(todo[t])'
  BY <1>1, <1>3, GoingOnTells
<1> QED
  BY <1>4, <1>5 DEF OneStory

\* A program starts from rest with the story its first operation tells.
Starts(b, M) ==
  \A r, o \in BOOLEAN :
    (r <=> "recreate" \in M) /\ (o <=> "storeOff" \in M) => Story(b, r, o)'

LEMMA BegunOneStory ==
  ASSUME NEW t \in Threads, NEW b, NEW M, Begun(t, b, M), Quiet, Starts(b, M)
  PROVE  OneStory'
<1>1. AtWork(t)'
  BY DEF AtWork, AtRest, Begun, Quiet
<1>2. PICK r, o \in BOOLEAN : /\ r = Mentions(todo'[t], "recreate")
                              /\ o = Mentions(todo'[t], "storeOff")
  BY DEF Mentions
<1>3. First(todo'[t]) = b /\ (r <=> "recreate" \in M) /\ (o <=> "storeOff" \in M)
  BY <1>2 DEF Begun
<1>4. Story(b, r, o)'
  BY <1>3 DEF Starts
<1>5. Told(todo[t])'
  BY <1>2, <1>3, <1>4 DEF Told
<1> QED
  BY <1>1, <1>5 DEF OneStory

\* The other steps leave the programs alone.
Keeps == \A f : \A r, o \in BOOLEAN : Story(f, r, o) => Story(f, r, o)'

LEMMA KeptOneStory ==
  ASSUME OneStory, UNCHANGED todo, Keeps
  PROVE  OneStory'
<1>1. PICK t \in Threads : AtWork(t) /\ Told(todo[t])
  BY DEF OneStory
<1>2. AtWork(t)'
  BY <1>1 DEF AtWork, AtRest
<1>3. PICK r, o \in BOOLEAN : /\ r = Mentions(todo[t], "recreate")
                              /\ o = Mentions(todo[t], "storeOff")
  BY DEF Mentions
<1>4. PICK f : f = First(todo[t])
  OBVIOUS
<1>5. Story(f, r, o)'
  BY <1>1, <1>3, <1>4 DEF Told, Keeps
<1>6. Told(todo[t])'
  BY <1>3, <1>4, <1>5 DEF Told
<1> QED
  BY <1>2, <1>6 DEF OneStory

LEMMA WorldOneStory ==
  ASSUME Serialised, TInv, OneStory, World
  PROVE  OneStory'
<1>0. StateOK /\ ProgramsWellFormed /\ (Quiet => Story("end", FALSE, FALSE))
  BY RestTells DEF TInv
<1>1. ASSUME NEW t \in Threads, Request(t)
      PROVE  OneStory'
  <2>1. PICK request \in Requests : /\ Sensible(t, request)
                                    /\ \E b, M : Begun(t, b, M) /\ Serving(request, b, M)
    BY <1>0, <1>1, RequestMoves
  <2>2. PICK b, M : Begun(t, b, M) /\ Serving(request, b, M)
    BY <2>1
  <2>3. Quiet
    BY <2>2 DEF Begun
  <2>4. b = "deleteInhibitor" => Held
    BY <2>1, <2>2 DEF Serving, Sensible, Held
  <2>5. UNCHANGED <<locked, flags, inhibitors, inhibited, display, timers, powersave>>
    BY <1>1 DEF Request
  <2>6. (Held' <=> Held) /\ (IdledOut' <=> IdledOut) /\ (Coming' <=> Coming)
    BY <2>5, SameFacts DEF timers
  <2>7. Starts(b, M)
    <3> SUFFICES ASSUME NEW r \in BOOLEAN, NEW o \in BOOLEAN,
                        r <=> "recreate" \in M, o <=> "storeOff" \in M
                 PROVE  Story(b, r, o)'
      BY DEF Starts
    <3>1. ~r /\ (o => b = "suppress")
          /\ b \in {"testLocked", "clearLocked", "suppress", "testInhibited", "storeInhibitor",
                    "deleteInhibitor", "logindOn", "logindOff", "countUp", "countDown",
                    "countReset"}
      BY <2>2 DEF Serving
    <3>2. Story("end", FALSE, FALSE)
      BY <1>0, <2>3
    <3> QED
      BY <1>0, <2>4, <2>5, <2>6, <3>1, <3>2 DEF StateOK, Story, display, timers, powersave
  <2> QED
    BY <2>2, <2>3, <2>7, BegunOneStory
<1>2. ASSUME NEW d \in Delays, Delayed(d)
      PROVE  OneStory'
  <2>1. UNCHANGED <<locked, sources, inhibited, display, notif, connected, powersave>>
    BY <1>2 DEF Delayed, DelayExpires, DelayCancelled
  <2>2. (Held' <=> Held) /\ (IdledOut' <=> IdledOut)
    BY <2>1, SameFacts DEF sources
  <2>3. Coming' => Coming
    <3>1. delay' = [delay EXCEPT ![d] = NoDelay]
      BY <1>2 DEF Delayed, DelayExpires, DelayCancelled
    <3> QED
      BY <1>0, <3>1 DEF Coming, NoDelay, StateOK
  <2>4. CASE DelayExpires(d)
    <3>1. Begun(d, "testInhibited", {"testInhibited"})
      BY <1>0, <2>4, WorldMoves
    <3>2. Quiet
      BY <3>1 DEF Begun
    <3>3. Starts("testInhibited", {"testInhibited"})
      <4> SUFFICES ASSUME NEW r \in BOOLEAN, NEW o \in BOOLEAN, ~r, ~o
                   PROVE  Story("testInhibited", r, o)'
        BY DEF Starts
      <4> QED
        BY <1>0, <2>1, <2>2, <2>3, <3>2 DEF StateOK, Story, sources, display, powersave
    <3> QED
      BY <3>1, <3>2, <3>3, OtherThreads, BegunOneStory
  <2>5. CASE DelayCancelled(d)
    <3>1. Keeps
      <4> SUFFICES ASSUME NEW f, NEW r \in BOOLEAN, NEW o \in BOOLEAN, Story(f, r, o)
                   PROVE  Story(f, r, o)'
        BY DEF Keeps
      <4> QED
        BY <1>0, <2>1, <2>2, <2>3 DEF StateOK, Story, sources, display, powersave
    <3> QED
      BY <2>5, <3>1, KeptOneStory DEF DelayCancelled
  <2> QED
    BY <1>2, <2>4, <2>5 DEF Delayed
<1>3. CASE NotifIdles
  <2>1. UNCHANGED <<locked, sources, inhibited, display, delay, connected, powersave>>
    BY <1>3 DEF NotifIdles
  <2>2. (Held' <=> Held) /\ (Coming' <=> Coming)
    BY <2>1, SameFacts DEF sources
  <2>3. /\ notif.mode # "none" /\ ~notif.idled
        /\ notif'.mode = notif.mode /\ notif'.idled
        /\ notif.mode \in {"locked", "unlocked"}
    BY <1>0, <1>3 DEF NotifIdles, NotifDue, StateOK, NotifType
  <2>4. Quiet
    BY <1>3 DEF NotifIdles, Begin, MayBegin
  <2>5. PICK b : /\ Begun("wayland", b, {b})
                 /\ b = IF notif.mode = "locked" THEN "idledLocked" ELSE "idledUnlocked"
    BY <1>0, <1>3, WorldMoves
  <2>6. Starts(b, {b})
    <3> SUFFICES ASSUME NEW r \in BOOLEAN, NEW o \in BOOLEAN,
                        r <=> "recreate" \in {b}, o <=> "storeOff" \in {b}
                 PROVE  Story(b, r, o)'
      BY DEF Starts
    <3>1. ~r /\ ~o
      BY <2>5
    <3>2. ~IdledOut /\ notif.mode = Mode(locked)
      BY <1>0, <2>3, <2>4 DEF Story, IdledOut, StateOK
    <3> QED
      BY <1>0, <2>1, <2>2, <2>3, <2>4, <2>5, <3>1, <3>2
         DEF StateOK, Story, Mode, sources, display, powersave
  <2> QED
    BY <2>4, <2>5, <2>6, OtherThreads, BegunOneStory
<1>4. CASE Activity
  <2>1. UNCHANGED <<locked, sources, inhibited, display, delay, connected, powersave>>
    BY <1>4 DEF Activity
  <2>2. (Held' <=> Held) /\ (Coming' <=> Coming)
    BY <2>1, SameFacts DEF sources
  <2>3. notif'.mode = notif.mode /\ ~notif'.idled
    BY <1>4 DEF Activity, NewNotif
  <2>4. CASE notif.idled
    <3>1. Begun("wayland", "onGate", {"onGate"} \cup {"recreate"})
      BY <1>0, <1>4, <2>4, WorldMoves
    <3>2. Quiet
      BY <3>1 DEF Begun
    <3>3. Starts("onGate", {"onGate"} \cup {"recreate"})
      <4> SUFFICES ASSUME NEW r \in BOOLEAN, NEW o \in BOOLEAN, r, ~o
                   PROVE  Story("onGate", r, o)'
        BY DEF Starts
      <4>1. ~IdledOut'
        BY <2>3 DEF IdledOut
      <4> QED
        BY <1>0, <2>1, <2>2, <2>3, <3>2, <4>1 DEF StateOK, Story, sources, display, powersave
    <3> QED
      BY <3>1, <3>2, <3>3, OtherThreads, BegunOneStory
  <2>5. CASE ~notif.idled
    <3>1. UNCHANGED todo
      BY <1>4, <2>5 DEF Activity
    <3>2. ~IdledOut /\ ~IdledOut'
      BY <2>3, <2>5 DEF IdledOut
    <3>3. Keeps
      <4> SUFFICES ASSUME NEW f, NEW r \in BOOLEAN, NEW o \in BOOLEAN, Story(f, r, o)
                   PROVE  Story(f, r, o)'
        BY DEF Keeps
      <4>1. f # "idledUnlocked"
        BY <2>5 DEF Story
      <4> QED
        BY <1>0, <2>1, <2>2, <2>3, <3>2, <4>1 DEF StateOK, Story, sources, display, powersave
    <3> QED
      BY <3>1, <3>3, KeptOneStory
  <2> QED
    BY <2>4, <2>5
<1>5. CASE WaylandLost
  <2>1. /\ UNCHANGED <<locked, sources, inhibited, display, delay, powersave, todo>>
        /\ Quiet /\ ~NeverRestarts /\ notif'.mode = "none"
    BY <1>5 DEF WaylandLost, MayBegin, NeverRestarts, NoNotif
  <2>2. (Held' <=> Held) /\ (Coming' <=> Coming)
    BY <2>1, SameFacts DEF sources
  <2>3. Story("end", FALSE, FALSE)'
    BY <1>0, <2>1, <2>2 DEF StateOK, Story, sources, display, powersave
  <2> QED
    BY <2>1, <2>3, QuietOneStory
<1>6. CASE WaylandConnect
  <2>1. /\ UNCHANGED <<locked, sources, inhibited, display, delay, notif, powersave>>
        /\ ~connected /\ connected' = TRUE
    BY <1>6 DEF WaylandConnect
  <2>2. (Held' <=> Held) /\ (IdledOut' <=> IdledOut) /\ (Coming' <=> Coming)
    BY <2>1, SameFacts DEF sources
  <2>3. Begun("wayland", "recreate", {"recreate"})
    BY <1>0, <1>6, WorldMoves
  <2>4. Quiet
    BY <2>3 DEF Begun
  <2>5. Starts("recreate", {"recreate"})
    <3> SUFFICES ASSUME NEW r \in BOOLEAN, NEW o \in BOOLEAN, r, ~o
                 PROVE  Story("recreate", r, o)'
      BY DEF Starts
    <3>1. ~IdledOut
      BY <1>0, <2>1, <2>4 DEF Story, IdledOut
    <3> QED
      BY <1>0, <2>1, <2>2, <2>4, <3>1 DEF StateOK, Story, sources, display, powersave
  <2> QED
    BY <2>3, <2>4, <2>5, OtherThreads, BegunOneStory
<1>7. CASE Leave \/ UNCHANGED vars
  <2>1. UNCHANGED <<locked, sources, inhibited, display, timers, powersave, todo>>
    BY <1>7 DEF Leave, vars
  <2>2. (Held' <=> Held) /\ (IdledOut' <=> IdledOut) /\ (Coming' <=> Coming)
    BY <2>1, SameFacts DEF sources, timers
  <2>3. Keeps
    <3> SUFFICES ASSUME NEW f, NEW r \in BOOLEAN, NEW o \in BOOLEAN, Story(f, r, o)
                 PROVE  Story(f, r, o)'
      BY DEF Keeps
    <3> QED
      BY <1>0, <2>1, <2>2 DEF StateOK, Story, sources, display, timers, powersave
  <2> QED
    BY <2>1, <2>3, KeptOneStory
<1>8. CASE PowersaveTick
  <2>1. /\ UNCHANGED <<locked, sources, inhibited, display, timers, todo, screenOff>>
        /\ Quiet /\ locked /\ screenOff
    BY <1>8 DEF PowersaveTick, MayBegin, PS!EnterPowersave
  <2>2. (Held' <=> Held) /\ (IdledOut' <=> IdledOut) /\ (Coming' <=> Coming)
    BY <2>1, SameFacts DEF sources, timers
  <2>3. Story("end", FALSE, FALSE)'
    BY <1>0, <2>1, <2>2 DEF StateOK, Story, sources, display, timers
  <2> QED
    BY <2>1, <2>3, QuietOneStory
<1>9. CASE Tick
  <2>1. /\ UNCHANGED <<locked, sources, inhibited, display, connected, todo, screenOff, active>>
        /\ Quiet
    BY <1>9 DEF Tick
  <2>2. notif'.mode = notif.mode /\ notif'.idled = notif.idled
    BY <1>0, <1>9 DEF Tick, StateOK, NotifType
  <2>3. Coming' => Coming
    <3> SUFFICES ASSUME NEW d \in Delays, delay'[d].running, ~delay'[d].cancelled
                 PROVE  delay[d].running /\ ~delay[d].cancelled
      BY DEF Coming
    <3>1. delay'[d] = IF delay[d].running THEN [delay[d] EXCEPT !.left = @ - 1] ELSE delay[d]
      BY <1>9 DEF Tick
    <3>2. delay[d] \in DelayType
      BY <1>0 DEF StateOK
    <3> QED
      BY <3>1, <3>2 DEF DelayType
  <2>4. Story("end", FALSE, FALSE)'
    BY <1>0, <2>1, <2>2, <2>3 DEF StateOK, Story, Held, IdledOut, sources, display
  <2> QED
    BY <2>1, <2>4, QuietOneStory
<1> QED
  BY <1>1, <1>2, <1>3, <1>4, <1>5, <1>6, <1>7, <1>8, <1>9 DEF World

LEMMA InitOneStory == Init => OneStory
<1> SUFFICES ASSUME Init
             PROVE  OneStory
  OBVIOUS
<1>1. Story("end", FALSE, FALSE)
  BY DEF Init, NoNotif, NoDelay, PS!PsInit, Story, Held, Coming, IdledOut
<1>2. Quiet
  BY DEF Init, Quiet, AtRest
<1> QED
  BY <1>1, <1>2, RestIsTold

LEMMA SpecOneStory ==
  ASSUME Serialised
  PROVE  Spec => [](TInv /\ DelaysOK /\ OneStory)
<1>1. Init => TInv /\ DelaysOK /\ OneStory
  BY InitTInv, InitDelays, InitOneStory
<1>2. TInv /\ DelaysOK /\ OneStory /\ [Next]_vars => (TInv /\ DelaysOK /\ OneStory)'
  <2> SUFFICES ASSUME TInv, DelaysOK, OneStory, [Next]_vars
               PROVE  (TInv /\ DelaysOK /\ OneStory)'
    OBVIOUS
  <2>1. TInv'
    BY NextTInv
  <2>2. ASSUME NEW t \in Threads, Run(t)
        PROVE  DelaysOK' /\ OneStory'
    BY <2>2, RunDelays, RunOneStory
  <2>3. ASSUME World
        PROVE  DelaysOK' /\ OneStory'
    BY <2>3, WorldDelays, WorldOneStory
  <2> QED
    BY <2>1, <2>2, <2>3, ProgramsOrWorld
<1> QED
  BY <1>1, <1>2, PTL DEF Spec

\* With one program at a time nothing of what a step leaves half done is left behind: at
\* rest the display, Hyprland and the deep idle mode agree, the timer is the one of the
\* lock state and the ScreenSaver source is the set of inhibitors.
THEOREM AgreementAtRest ==
  ASSUME Serialised
  PROVE  Spec => []AgreeAtRest
<1>1. TInv /\ OneStory => AgreeAtRest
  <2> SUFFICES ASSUME TInv, OneStory, Quiet
               PROVE  AgreeAtRest
    BY DEF AgreeAtRest, DisplayAgrees, TimersMatchLock, ScreenSaverExact, DeepIdleEndsWithLock
  <2>1. Story("end", FALSE, FALSE)
    BY RestTells
  <2>2. flags.screensaver \in BOOLEAN /\ locked \in BOOLEAN
    BY DEF TInv, StateOK, FlagsType
  <2> QED
    BY <2>1, <2>2 DEF Story, Held, Mode, AgreeAtRest, DisplayAgrees, TimersMatchLock,
                      ScreenSaverExact, DeepIdleEndsWithLock
<1> QED
  BY <1>1, SpecOneStory, PTL

\* With one program at a time a lit display has called off the lock that was coming: the
\* cancellation in the head of setDisplay(true) never misses it.
THEOREM NobodyLockedOutWhileLit ==
  ASSUME Serialised
  PROVE  Spec => []NoLockWhileLit
<1>1. OneStory => NoLockWhileLit
  BY RestTells DEF Story, Coming, NoLockWhileLit
<1> QED
  BY <1>1, SpecOneStory, PTL

\* With one program at a time, and a Wayland connection that is not lost, a dark unlocked
\* session has a notification that will report the first activity, and no inhibitor.
THEOREM DarkForAReason ==
  ASSUME Serialised, "wayland restart" \notin Requests
  PROVE  Spec => []DarkOnPurpose
<1>1. OneStory => DarkOnPurpose
  BY RestTells DEF Story, IdledOut, NeverRestarts, DarkOnPurpose, DarkUntilActivity,
                   LitWhileInhibited
<1> QED
  BY <1>1, SpecOneStory, PTL

=============================================================================
