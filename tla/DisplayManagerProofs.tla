------------------------ MODULE DisplayManagerProofs ------------------------
(***************************************************************************)
(* Proofs about DisplayManager, for any number of connections, any limits  *)
(* and any number of failures.                                             *)
(***************************************************************************)
EXTENDS DisplayManager, TLAPS

\* What the cycle holds at each of its points.
ProcsHeld ==
    /\ pc \in {"top", "retry", "exit", "greeter", "open", "session", "ended"}
         => procs = {}
    /\ pc = "compositor" => procs \subseteq {"greeter"}
    /\ pc \in {"giveup", "wait", "pam", "answer", "stop", "remove", "failed"}
         => procs \subseteq Greeting
    /\ pc = "daemon" => procs \subseteq {"user"}
    /\ pc \in {"run", "close"} => procs \subseteq Session

VTHeld == pc \in {"top", "retry", "exit"} => vt = "text"

PAMHeld ==
    /\ pc \in {"top", "retry", "exit", "greeter", "compositor", "giveup", "wait", "failed",
              "ended"} => pam = "none"
    /\ pc = "answer" => pam \in {"authenticated", "none"}
    /\ pc \in {"stop", "remove", "open"} => pam = "authenticated"
    /\ pc \in {"session", "daemon", "run", "close"} => pam = "open"

Held == ProcsHeld /\ VTHeld /\ PAMHeld

\* What the cycle has done about its listener at each of its points.
ListenerHeld ==
    /\ ~late
    /\ Accepting => ~cancelled
    /\ pc = "remove" => cancelled
    /\ ~cancelled /\ lis = "open" /\ ~down => path = "ours"

----------------------------------------------------------------------------
(* The types.                                                              *)

LEMMA InitTypes == Init => TypeOK
<1> SUFFICES ASSUME Init
             PROVE  TypeOK
  OBVIOUS
<1>1. conn \in [Conn -> {"free"}]
  BY DEF Init
<1>2. queue \in Seq(Conn) /\ Len(queue) <= Cap
  BY BoundsAssumption DEF Init
<1>3. recent \in 0..MaxAuth /\ faults \in 0..Faults
  BY BoundsAssumption DEF Init
<1> QED
  BY <1>1, <1>2, <1>3 DEF Init, TypeOK

LEMMA CycleTypes == TypeOK /\ Cycle => TypeOK'
<1> SUFFICES ASSUME TypeOK, Cycle
             PROVE  TypeOK'
  OBVIOUS
<1> USE BoundsAssumption DEF TypeOK, ipc, clients, os, Goto
<1>f. Fault \/ NoFault => faults' \in 0..Faults
  BY DEF Fault, NoFault
<1>1. CASE Top
  BY <1>1, <1>f DEF Top, OpenVT
<1>2. CASE StartGreeter
  BY <1>2, <1>f DEF StartGreeter, Greeting, Session
<1>3. CASE GreeterReady
  <2>1. conn' \in [Conn -> {"free", "stuck"}]
    BY <1>3 DEF GreeterReady
  <2>2. /\ queue' \in Seq(Conn) /\ Len(queue') <= Cap
        /\ recent' \in 0..MaxAuth
    BY <1>3 DEF GreeterReady
  <2>3. procs' \subseteq Greeting \cup Session
    BY <1>3 DEF GreeterReady, Greeting
  <2> QED
    BY <1>3, <2>1, <2>2, <2>3 DEF GreeterReady
<1>4. CASE GreeterFails
  BY <1>4, <1>f DEF GreeterFails
<1>5. CASE TakeCredentials
  <2>1. Head(queue) \in Conn /\ Tail(queue) \in Seq(Conn) /\ Len(Tail(queue)) <= Cap
    BY <1>5 DEF TakeCredentials
  <2> QED
    BY <1>5, <2>1 DEF TakeCredentials
<1>6. CASE PAMAnswers
  BY <1>6 DEF PAMAnswers
<1>7. CASE Notice
  BY <1>7 DEF Notice
<1>8. CASE StopGreeter
  BY <1>8 DEF StopGreeter
<1>9. CASE RemovePath
  BY <1>9 DEF RemovePath
<1>10. CASE OpenSession
  BY <1>10, <1>f DEF OpenSession
<1>11. CASE StartCompositor
  BY <1>11, <1>f DEF StartCompositor, Greeting, Session
<1>12. CASE SessionUp
  BY <1>12, <1>f DEF SessionUp, Greeting, Session
<1>13. CASE SessionEnds
  BY <1>13 DEF SessionEnds
<1>14. CASE CloseSession
  BY <1>14 DEF CloseSession
<1>15. CASE Return
  BY <1>15 DEF Return, RestoreVT
<1>16. CASE Retry
  BY <1>16 DEF Retry
<1>17. CASE GreeterGivenUp
  BY <1>17 DEF GreeterGivenUp
<1>18. CASE Answered
  BY <1>18 DEF Answered
<1>19. CASE Kill
  BY <1>19 DEF Kill, Killing, Dies, cycle
<1> QED
  BY <1>1, <1>2, <1>3, <1>4, <1>5, <1>6, <1>7, <1>8, <1>9, <1>10, <1>11, <1>12, <1>13,
     <1>14, <1>15, <1>16, <1>17, <1>18, <1>19 DEF Cycle

LEMMA NextTypes == TypeOK /\ [Next]_vars => TypeOK'
<1> SUFFICES ASSUME TypeOK, [Next]_vars
             PROVE  TypeOK'
  OBVIOUS
<1> USE BoundsAssumption DEF TypeOK, cycle, ipc, clients, os
<1>f. Fault \/ NoFault => faults' \in 0..Faults
  BY DEF Fault, NoFault
<1>1. CASE DmExited \/ UNCHANGED vars
  BY <1>1 DEF DmExited, vars
<1>2. CASE Cycle
  BY <1>2, CycleTypes
<1>3. CASE Listen
  BY <1>3, <1>f DEF Listen
<1>4. CASE CloseListener
  BY <1>4 DEF CloseListener
<1>5. CASE Second
  BY <1>5 DEF Second
<1>6. CASE Shutdown
  BY <1>6 DEF Shutdown
<1>7. ASSUME NEW k \in Conn, Connect(k) \/ Disconnect(k) \/ ReadsAgain(k)
      PROVE  TypeOK'
  BY <1>7 DEF Connect, Disconnect, ReadsAgain
<1>8. ASSUME NEW k \in Conn, Submit(k)
      PROVE  TypeOK'
  BY <1>8 DEF Submit
<1>9. ASSUME NEW k \in Conn, Enqueue(k)
      PROVE  TypeOK'
  <2>1. queue' \in Seq(Conn) /\ Len(queue') <= Cap
    BY <1>9 DEF Enqueue
  <2> QED
    BY <1>9, <2>1 DEF Enqueue
<1>10. ASSUME NEW p \in Compositor, CompositorListens(p)
       PROVE  TypeOK'
  BY <1>10 DEF CompositorListens
<1>11. ASSUME NEW p \in Greeting \cup Session, Exits(p)
       PROVE  TypeOK'
  BY <1>11, <1>f DEF Exits, Dies
<1>12. ASSUME NEW k \in Conn, StopsReading(k)
       PROVE  TypeOK'
  BY <1>12, <1>f DEF StopsReading
<1> QED
  BY <1>1, <1>2, <1>3, <1>4, <1>5, <1>6, <1>7, <1>8, <1>9, <1>10, <1>11, <1>12 DEF Next

\* Every variable of the display manager keeps its type: authCh stays within its capacity
\* and the attempts of a second within checkRateLimit's, however the handlers interleave.
THEOREM TypeCorrect == Spec => []TypeOK
  BY InitTypes, NextTypes, PTL DEF Spec

----------------------------------------------------------------------------
(* What a cycle holds.                                                     *)

\* Outside the cycle's own steps processes only end.
LEMMA OthersKeep ==
  ASSUME Held, UNCHANGED <<pc, vt, pam>>, procs' \subseteq procs
  PROVE  Held'
  BY DEF Held, ProcsHeld, VTHeld, PAMHeld

LEMMA CycleHeld == TypeOK /\ Held /\ Cycle => Held'
<1> SUFFICES ASSUME TypeOK, Held, Cycle
             PROVE  Held'
  OBVIOUS
<1> USE DEF Held, ProcsHeld, VTHeld, PAMHeld, ipc, clients, os, Goto
<1> USE DEF Gone
<1>1. CASE Top
  BY <1>1 DEF Top, OpenVT
<1>2. CASE StartGreeter
  BY <1>2 DEF StartGreeter
<1>3. CASE GreeterReady
  BY <1>3 DEF GreeterReady, Greeting
<1>4. CASE GreeterFails
  BY <1>4 DEF GreeterFails, Greeting
<1>5. CASE TakeCredentials
  BY <1>5 DEF TakeCredentials
<1>6. CASE PAMAnswers
  BY <1>6 DEF PAMAnswers
<1>7. CASE Notice
  BY <1>7 DEF Notice
<1>8. CASE StopGreeter
  BY <1>8 DEF StopGreeter
<1>9. CASE RemovePath
  BY <1>9 DEF RemovePath
<1>10. CASE OpenSession
  BY <1>10 DEF OpenSession
<1>11. CASE StartCompositor
  BY <1>11 DEF StartCompositor, Session
<1>12. CASE SessionUp
  BY <1>12 DEF SessionUp, Session
<1>13. CASE SessionEnds
  BY <1>13 DEF SessionEnds
<1>14. CASE CloseSession
  BY <1>14 DEF CloseSession
<1>15. CASE Return
  BY <1>15 DEF Return, RestoreVT
<1>16. CASE Retry
  BY <1>16 DEF Retry
<1>17. CASE GreeterGivenUp
  BY <1>17 DEF GreeterGivenUp
<1>18. CASE Answered
  BY <1>18 DEF Answered, Emitting
<1>19. CASE Kill
  BY <1>19, OthersKeep DEF Kill, Killing, Dies, cycle
<1> QED
  BY <1>1, <1>2, <1>3, <1>4, <1>5, <1>6, <1>7, <1>8, <1>9, <1>10, <1>11, <1>12, <1>13,
     <1>14, <1>15, <1>16, <1>17, <1>18, <1>19 DEF Cycle

LEMMA NextHeld == TypeOK /\ Held /\ [Next]_vars => Held'
<1> SUFFICES ASSUME TypeOK, Held, [Next]_vars
             PROVE  Held'
  OBVIOUS
<1>1. CASE Cycle
  BY <1>1, CycleHeld
<1>2. CASE DmExited \/ Listen \/ CloseListener \/ Second \/ Shutdown \/ UNCHANGED vars
  <2>1. UNCHANGED <<pc, vt, pam>> /\ procs' \subseteq procs
    BY <1>2 DEF DmExited, Listen, CloseListener, Second, Shutdown, vars, cycle, os
  <2> QED
    BY <2>1, OthersKeep
<1>3. ASSUME NEW k \in Conn, \/ Connect(k) \/ Submit(k) \/ Enqueue(k) \/ Disconnect(k)
                              \/ StopsReading(k) \/ ReadsAgain(k)
      PROVE  Held'
  <2>1. UNCHANGED <<pc, vt, pam, procs>>
    BY <1>3 DEF Connect, Submit, Enqueue, Disconnect, StopsReading, ReadsAgain, cycle, os
  <2> QED
    BY <2>1, OthersKeep
<1>4. ASSUME NEW p \in Compositor, CompositorListens(p)
      PROVE  Held'
  BY <1>4, OthersKeep DEF CompositorListens, cycle
<1>5. ASSUME NEW p \in Greeting \cup Session, Exits(p)
      PROVE  Held'
  BY <1>5, OthersKeep DEF Exits, Dies, cycle
<1> QED
  BY <1>1, <1>2, <1>3, <1>4, <1>5 DEF Next

\* Whatever failed in a cycle and whoever died, the next one starts with no process of it
\* alive, the VT in text mode and no PAM transaction open (the deferred calls of
\* runGreeterCycle and UserSession.Close).
THEOREM NothingOutlivesItsCycle == Spec => []CleanBetweenCycles
<1>1. Init => Held
  BY DEF Init, Held, ProcsHeld, VTHeld, PAMHeld
<1>2. Held => CleanBetweenCycles
  BY DEF Held, ProcsHeld, VTHeld, PAMHeld, CleanBetweenCycles
<1> QED
  BY <1>1, <1>2, InitTypes, NextTypes, NextHeld, PTL DEF Spec

\* The greeter's compositor is gone before the user's is started, so the two never hold
\* the VT together (Greeter.Kill before NewUserSession).
THEOREM CompositorsApart == Spec => []OneCompositor
<1>1. Init => Held
  BY DEF Init, Held, ProcsHeld, VTHeld, PAMHeld
<1>2. TypeOK /\ Held => OneCompositor
  BY DEF TypeOK, Held, ProcsHeld, OneCompositor, Alive, Greeting, Session
<1> QED
  BY <1>1, <1>2, InitTypes, NextTypes, NextHeld, PTL DEF Spec

\* Nothing of a user's session lives unless PAM has granted it and its session is open,
\* from the start of the compositor until both are killed (NewUserSession, Close).
THEOREM SessionsAreGranted == Spec => []SessionGranted
<1>1. Init => Held
  BY DEF Init, Held, ProcsHeld, VTHeld, PAMHeld
<1>2. TypeOK /\ Held => SessionGranted
  BY DEF TypeOK, Held, ProcsHeld, PAMHeld, SessionGranted, Greeting, Session
<1> QED
  BY <1>1, <1>2, InitTypes, NextTypes, NextHeld, PTL DEF Spec

----------------------------------------------------------------------------
(* The listener of a cycle.                                                *)

LEMMA NextListener == ListenerHeld /\ [Next]_vars => ListenerHeld'
<1> SUFFICES ASSUME ListenerHeld, [Next]_vars
             PROVE  ListenerHeld'
  OBVIOUS
<1> USE DEF ListenerHeld, Accepting, cycle, ipc, clients, os, Goto
<1>1. CASE GreeterReady
  BY <1>1 DEF GreeterReady, Ticked
<1>2. CASE StopGreeter \/ RemovePath \/ Return
  BY <1>2 DEF StopGreeter, RemovePath, Return
<1>3. CASE TakeCredentials \/ PAMAnswers \/ Answered \/ Notice
  BY <1>3 DEF TakeCredentials, PAMAnswers, Answered, Emitting, Notice
<1>4. CASE Top \/ StartGreeter \/ GreeterFails \/ GreeterGivenUp \/ Retry
  BY <1>4 DEF Top, OpenVT, StartGreeter, GreeterFails, GreeterGivenUp, Retry
<1>5. CASE OpenSession \/ StartCompositor \/ SessionUp \/ SessionEnds \/ CloseSession
  BY <1>5 DEF OpenSession, StartCompositor, SessionUp, SessionEnds, CloseSession
<1>6. CASE Listen
  BY <1>6 DEF Listen
<1>7. CASE CloseListener
  BY <1>7 DEF CloseListener
<1>8. CASE DmExited \/ Second \/ Shutdown \/ UNCHANGED vars
  BY <1>8 DEF DmExited, Second, Shutdown, vars
<1>9. ASSUME NEW k \in Conn, \/ Connect(k) \/ Submit(k) \/ Enqueue(k) \/ Disconnect(k)
                              \/ StopsReading(k) \/ ReadsAgain(k)
      PROVE  ListenerHeld'
  BY <1>9 DEF Connect, Submit, Enqueue, Disconnect, StopsReading, ReadsAgain
<1>10. ASSUME NEW p \in Greeting \cup Session \cup Compositor, CompositorListens(p) \/ Exits(p)
       PROVE  ListenerHeld'
  BY <1>10 DEF CompositorListens, Exits
<1>11. CASE Kill
  BY <1>11 DEF Kill, Killing
<1> QED
  BY <1>1, <1>2, <1>3, <1>4, <1>5, <1>6, <1>7, <1>8, <1>9, <1>10, <1>11
  DEF Next, Cycle

\* As long as a cycle takes credentials the path names its own socket: no listener of an
\* earlier cycle is left to unlink it (Socket.Run, waitForHyprland's first tick).
THEOREM SocketStaysReachable == Spec => []SocketReachable
<1>1. Init => ListenerHeld
  BY DEF Init, ListenerHeld, Accepting
<1>2. ListenerHeld => SocketReachable
  BY DEF ListenerHeld, SocketReachable
<1> QED
  BY <1>1, <1>2, NextListener, PTL DEF Spec
=============================================================================
