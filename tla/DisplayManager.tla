--------------------------- MODULE DisplayManager ---------------------------
(***************************************************************************)
(* snry-dm (internal/dm): one greeter cycle after another on one VT.  A    *)
(* cycle starts a compositor and Quickshell for the greeter, listens on    *)
(* the IPC socket, takes credentials from its channel until PAM grants     *)
(* them, stops the greeter and runs the user's session until it exits.     *)
(* The goroutine that accepts connections, the one that closes the         *)
(* listener when the cycle cancels it, and a handler per connection run    *)
(* beside the cycle.  Every process may exit by itself.                    *)
(***************************************************************************)
EXTENDS Naturals, Sequences, FiniteSets, Functions

CONSTANTS
    Conn,       \* connections a greeter may open
    MaxConns,   \* maxConns
    MaxAuth,    \* maxAuthPerSec
    Cap,        \* the capacity of authCh
    Faults      \* bound on the operating system's refusals

ASSUME BoundsAssumption == {MaxConns, MaxAuth, Cap} \subseteq Nat \ {0} /\ Faults \in Nat

Greeting == {"quickshell", "greeter"}
Session == {"daemon", "user"}
Compositor == {"greeter", "user"}

VARIABLES
    pc,         \* where the cycle is
    vt,         \* the mode of the VT
    creds,      \* the connection whose credentials waitForAuth holds, as a set
    pam,        \* the transaction held: none, its answer to come, authenticated or open
    procs,      \* the processes that live
    sockets,    \* the compositors whose .socket.sock exists
    path,       \* what SocketPath names: nothing, this cycle's socket, an older one
    lis,        \* this cycle's listener
    cancelled,  \* sockCancel was called
    late,       \* an older listener has yet to be closed
    conn,       \* [connection -> free | idle | sending credentials | stuck]
    queue,      \* authCh, as the connections the credentials came from
    deaf,       \* connections whose client does not read and whose buffer is full
    recent,     \* the attempts of the last second in authTimes
    down,       \* the context was cancelled
    faults

cycle == <<pc, vt, creds, pam>>
ipc == <<path, lis, cancelled, late>>
clients == <<conn, queue, deaf, recent>>
os == <<procs, sockets>>
vars == <<cycle, ipc, clients, os, down, faults>>

TypeOK ==
    /\ pc \in {"top", "greeter", "compositor", "giveup", "wait", "pam", "answer", "stop",
               "remove", "open", "session", "daemon", "run", "close", "failed", "ended",
               "retry", "exit"}
    /\ vt \in {"text", "graphics"} /\ pam \in {"none", "asked", "authenticated", "open"}
    /\ creds \subseteq Conn
    /\ procs \subseteq Greeting \cup Session /\ sockets \subseteq Compositor
    /\ path \in {"none", "ours", "old"} /\ lis \in {"new", "open", "closed", "failed"}
    /\ conn \in [Conn -> {"free", "idle", "sending", "stuck"}]
    /\ queue \in Seq(Conn) /\ Len(queue) <= Cap
    /\ deaf \subseteq Conn
    /\ recent \in 0..MaxAuth
    /\ {cancelled, late, down} \subseteq BOOLEAN /\ faults \in 0..Faults

Init ==
    /\ pc = "top" /\ vt = "text" /\ creds = {} /\ pam = "none"
    /\ procs = {} /\ sockets = {}
    /\ path = "none" /\ lis = "closed" /\ cancelled = TRUE /\ late = FALSE
    /\ conn = [k \in Conn |-> "free"] /\ queue = <<>> /\ deaf = {} /\ recent = 0
    /\ down = FALSE /\ faults = Faults

Fault == faults > 0 /\ faults' = faults - 1
NoFault == UNCHANGED faults
Goto(l) == pc' = l
Alive(p) == p \in procs

Gone(ps) == procs \cap ps = {}

\* The process ends; a compositor that is killed hard leaves its socket behind.
Dies(p) ==
    /\ Alive(p) /\ procs' = procs \ {p}
    /\ sockets' \in {sockets, sockets \ {p}}

----------------------------------------------------------------------------
(* Run and runGreeterCycle.                                                *)

OpenVT ==
    \/ Goto("greeter") /\ vt' = "graphics" /\ NoFault
    \/ Goto("retry") /\ Fault /\ UNCHANGED vt

Top ==
    /\ pc = "top"
    /\ IF down THEN Goto("exit") /\ NoFault /\ UNCHANGED vt ELSE OpenVT
    /\ UNCHANGED <<creds, pam, ipc, clients, os, down>>

\* NewGreeter as far as startHyprland; what fails up to there starts nothing.
StartGreeter ==
    /\ pc = "greeter"
    /\ \/ Goto("compositor") /\ procs' = procs \cup {"greeter"} /\ NoFault
       \/ Goto("failed") /\ Fault /\ UNCHANGED procs
    /\ UNCHANGED <<vt, creds, pam, ipc, clients, sockets, down>>

CompositorListens(p) ==
    /\ Alive(p) /\ sockets' = sockets \cup {p}
    /\ UNCHANGED <<cycle, ipc, clients, procs, down, faults>>

\* Bug: the socket file is looked for before the first tick.
TickedAtOnce == TRUE

\* By the first tick of waitForHyprland, 500 ms after the start, a listener that was
\* cancelled before has been closed.
Ticked == cancelled /\ lis # "open" /\ ~late

\* waitForHyprland, startQuickshell, NewSocket.  A handler of the previous cycle whose
\* channel is full stays blocked on it for ever.
GreeterReady ==
    /\ pc = "compositor" /\ Ticked
    /\ "greeter" \in sockets
    /\ Goto("wait") /\ procs' = procs \cup {"quickshell"}
    /\ lis' = "new" /\ cancelled' = FALSE
    /\ late' = (late \/ lis = "open")
    /\ path' = IF path = "ours" THEN "old" ELSE path
    /\ conn' = [k \in Conn |->
                  IF conn[k] = "stuck" \/ (conn[k] = "sending" /\ Len(queue) = Cap)
                  THEN "stuck" ELSE "free"]
    /\ queue' = <<>> /\ deaf' = {} /\ recent' = 0
    /\ UNCHANGED <<vt, creds, pam, sockets, down, faults>>

\* The compositor's socket never appears, or Quickshell does not start: Kill.
GreeterFails ==
    /\ pc = "compositor"
    /\ Fault \/ (~Alive("greeter") /\ NoFault)
    /\ Goto("giveup")
    /\ UNCHANGED <<vt, creds, pam, ipc, clients, os, down>>

GreeterGivenUp ==
    /\ pc = "giveup" /\ Gone(Greeting)
    /\ Goto("failed")
    /\ UNCHANGED <<vt, creds, pam, ipc, clients, os, down, faults>>

TakeCredentials ==
    /\ pc = "wait" /\ queue # <<>>
    /\ creds' = {Head(queue)} /\ queue' = Tail(queue)
    /\ pam' = "asked" /\ Goto("pam")
    /\ UNCHANGED <<vt, ipc, conn, deaf, recent, os, down, faults>>

\* Authenticate and AcctMgmt.  AcctMgmt's refusal closes the transaction, and a failed
\* Authenticate has ended it.  emitAll takes the mutex of the socket.
PAMAnswers ==
    /\ pc = "pam"
    /\ pam' \in {"authenticated", "none"} /\ Goto("answer")
    /\ UNCHANGED <<vt, creds, ipc, clients, os, down, faults>>

\* emitAll writes to every connection and holds the mutex until the last one took it.
Emitting == pc = "answer"
Blocked == Alive("quickshell") /\ deaf # {}

Answered ==
    /\ Emitting /\ ~Blocked
    /\ creds' = {} /\ Goto(IF pam = "authenticated" THEN "stop" ELSE "wait")
    /\ UNCHANGED <<vt, pam, ipc, clients, os, down, faults>>

\* ctx.Done in waitForAuth and in Run's delay; startCompositor's is in SessionUp.
Notice ==
    /\ down
    /\ \/ pc = "wait" /\ cancelled' = TRUE /\ Goto("failed")
       \/ pc = "retry" /\ Goto("exit") /\ UNCHANGED cancelled
    /\ UNCHANGED <<vt, creds, pam, path, lis, late, clients, os, down, faults>>

StopGreeter ==
    /\ pc = "stop"
    /\ cancelled' = TRUE /\ Goto("remove")
    /\ UNCHANGED <<vt, creds, pam, path, lis, late, clients, os, down, faults>>

\* killProcWithTimeout of Greeter.Kill and UserSession.Close, one process after the
\* other: SIGTERM changes nothing yet; within five seconds the process ends, or SIGKILL
\* ends it.
Killing(first, second) ==
    /\ Dies(first) \/ (~Alive(first) /\ Dies(second))
    /\ UNCHANGED <<cycle, ipc, clients, down, faults>>

Kill ==
    \/ pc \in {"giveup", "remove", "failed", "ended"} /\ Killing("quickshell", "greeter")
    \/ pc = "close" /\ Killing("daemon", "user")

RemovePath ==
    /\ pc = "remove" /\ Gone(Greeting)
    /\ path' = "none" /\ Goto("open")
    /\ UNCHANGED <<vt, creds, pam, lis, cancelled, late, clients, os, down, faults>>

\* NewUserSession: OpenSession and ensureRuntimeDir, each closing the transaction.
OpenSession ==
    /\ pc = "open"
    /\ \/ pam' = "open" /\ Goto("session") /\ NoFault
       \/ pam' = "none" /\ Goto("failed") /\ Fault
    /\ UNCHANGED <<vt, creds, ipc, clients, os, down>>

StartCompositor ==
    /\ pc = "session"
    /\ \/ Goto("daemon") /\ procs' = procs \cup {"user"} /\ NoFault
       \/ Goto("close") /\ Fault /\ UNCHANGED procs
    /\ UNCHANGED <<vt, creds, pam, ipc, clients, sockets, down>>

\* The wait for the compositor's socket, then startDaemon.
SessionUp ==
    /\ pc = "daemon"
    /\ \/ /\ "user" \in sockets /\ Goto("run")
          /\ procs' = procs \cup {"daemon"} /\ NoFault
       \/ Goto("close") /\ Fault /\ UNCHANGED procs
       \/ (down \/ ~Alive("user")) /\ Goto("close") /\ NoFault /\ UNCHANGED procs
    /\ UNCHANGED <<vt, creds, pam, ipc, clients, sockets, down>>

\* Bug: the session waits for its compositor as well, which nobody stops.
SessionEndsWithCompositor ==
    /\ pc = "run" /\ ~Alive("daemon") /\ ~Alive("user")
    /\ Goto("close")
    /\ UNCHANGED <<vt, creds, pam, ipc, clients, os, down, faults>>

SessionEnds ==
    /\ pc = "run" /\ ~Alive("daemon")
    /\ Goto("close")
    /\ UNCHANGED <<vt, creds, pam, ipc, clients, os, down, faults>>

\* Bug: only the daemon is killed.
CloseSessionDaemonOnly ==
    /\ pc = "close" /\ ~Alive("daemon")
    /\ pam' = "none" /\ Goto("ended")
    /\ UNCHANGED <<vt, creds, ipc, clients, os, down, faults>>

CloseSession ==
    /\ pc = "close" /\ Gone(Session)
    /\ pam' = "none" /\ Goto("ended")
    /\ UNCHANGED <<vt, creds, ipc, clients, os, down, faults>>

\* SetTextMode and Close
RestoreVT == vt' = "text"

\* The deferred calls of runGreeterCycle; a failed NewGreeter has deferred only the VT's.
\* sockCancel is in Notice and StopGreeter, which every other way here has passed.
Return ==
    /\ pc \in {"failed", "ended"} /\ Gone(Greeting)
    /\ RestoreVT
    /\ Goto(IF pc = "ended" THEN "top" ELSE IF down THEN "exit" ELSE "retry")
    /\ UNCHANGED <<creds, pam, ipc, clients, os, down, faults>>

Retry ==
    /\ pc = "retry"
    /\ Goto("top")
    /\ UNCHANGED <<vt, creds, pam, ipc, clients, os, down, faults>>

Cycle == \/ Top \/ StartGreeter \/ GreeterReady \/ GreeterFails \/ GreeterGivenUp
         \/ TakeCredentials \/ PAMAnswers \/ Answered \/ Notice \/ StopGreeter \/ Kill
         \/ RemovePath \/ OpenSession \/ StartCompositor \/ SessionUp \/ SessionEnds
         \/ CloseSession \/ Return \/ Retry

----------------------------------------------------------------------------
(* Socket.                                                                 *)

\* Run up to the accept loop: a stale socket is removed; a listener whose mode or
\* owner cannot be set is closed, which ends Run and leaves the cycle waiting.
Listen ==
    /\ lis = "new"
    /\ \/ lis' = "open" /\ path' = "ours" /\ NoFault
       \/ lis' = "failed" /\ path' = "none" /\ Fault
    /\ UNCHANGED <<cycle, cancelled, late, clients, os, down>>

\* Closing a Unix listener unlinks its path, whatever the path names by then.
CloseListener ==
    /\ \/ (cancelled \/ down) /\ lis = "open" /\ lis' = "closed" /\ UNCHANGED late
       \/ late /\ late' = FALSE /\ UNCHANGED lis
    /\ path' = "none"
    /\ UNCHANGED <<cycle, cancelled, clients, os, down, faults>>

\* The accept loop, the rate limit and the end of a handler need the mutex of emitAll.
Connect(k) ==
    /\ Alive("quickshell") /\ lis = "open" /\ path = "ours" /\ ~Emitting
    /\ conn[k] = "free"
    /\ Cardinality({j \in Conn : conn[j] \in {"idle", "sending"}}) < MaxConns
    /\ conn' = [conn EXCEPT ![k] = "idle"]
    /\ UNCHANGED <<cycle, ipc, queue, deaf, recent, os, down, faults>>

\* dispatch of an auth line that checkRateLimit lets pass; the others change nothing.
Submit(k) ==
    /\ Alive("quickshell") /\ conn[k] = "idle" /\ ~Emitting
    /\ recent < MaxAuth /\ recent' = recent + 1
    /\ conn' = [conn EXCEPT ![k] = "sending"]
    /\ UNCHANGED <<cycle, ipc, queue, deaf, os, down, faults>>

\* Bug: a handler that finds the channel full gives up.
EnqueueOrDrop(k) ==
    /\ conn[k] = "sending"
    /\ queue' = IF Len(queue) < Cap THEN Append(queue, k) ELSE queue
    /\ conn' = [conn EXCEPT ![k] = "idle"]
    /\ UNCHANGED <<cycle, ipc, deaf, recent, os, down, faults>>

\* authCh <- creds
Enqueue(k) ==
    /\ conn[k] = "sending" /\ Len(queue) < Cap
    /\ queue' = Append(queue, k)
    /\ conn' = [conn EXCEPT ![k] = "idle"]
    /\ UNCHANGED <<cycle, ipc, deaf, recent, os, down, faults>>

Disconnect(k) ==
    /\ conn[k] = "idle" /\ ~Emitting
    /\ conn' = [conn EXCEPT ![k] = "free"] /\ deaf' = deaf \ {k}
    /\ UNCHANGED <<cycle, ipc, queue, recent, os, down, faults>>

\* The client stops reading until the buffer of its connection is full, and it reads
\* again, or closes the connection, which fails the write.
StopsReading(k) ==
    /\ conn[k] \in {"idle", "sending"} /\ k \notin deaf
    /\ deaf' = deaf \cup {k} /\ Fault
    /\ UNCHANGED <<cycle, ipc, conn, queue, recent, os, down>>

ReadsAgain(k) ==
    /\ k \in deaf /\ deaf' = deaf \ {k}
    /\ UNCHANGED <<cycle, ipc, conn, queue, recent, os, down, faults>>

\* Attempts leave the window of checkRateLimit.
Second ==
    /\ recent > 0 /\ recent' \in 0..recent - 1
    /\ ~Emitting
    /\ UNCHANGED <<cycle, ipc, conn, queue, deaf, os, down, faults>>

----------------------------------------------------------------------------
(* The operating system.                                                   *)

\* The user's daemon and compositor end when they like, the greeter's by a crash,
\* which leaves a compositor's socket behind.
Exits(p) ==
    /\ Dies(p)
    /\ IF p \in Session THEN NoFault ELSE Fault
    /\ UNCHANGED <<cycle, ipc, clients, down>>

\* SIGTERM: the daemon's CommandContext is killed with the context.
Shutdown ==
    /\ ~down /\ down' = TRUE
    /\ procs' = procs \ {"daemon"}
    /\ UNCHANGED <<cycle, ipc, clients, sockets, faults>>

DmExited == pc = "exit" /\ UNCHANGED vars

Next ==
    \/ DmExited \/ Cycle \/ Listen \/ CloseListener \/ Second \/ Shutdown
    \/ \E k \in Conn : \/ Connect(k) \/ Submit(k) \/ Enqueue(k) \/ Disconnect(k)
                       \/ StopsReading(k) \/ ReadsAgain(k)
    \/ \E p \in Compositor : CompositorListens(p)
    \/ \E p \in Greeting \cup Session : Exits(p)

\* The program's own steps run when they can; a compositor that lives listens in the
\* end and a session that was started ends.  The senders blocked on a Go channel are
\* served first come, first served.
Fairness ==
    /\ WF_vars(Cycle) /\ WF_vars(Listen) /\ WF_vars(CloseListener)
    /\ \A k \in Conn : SF_vars(Enqueue(k))
    /\ \A p \in Compositor : WF_vars(CompositorListens(p))
    /\ WF_vars(Exits("daemon"))

Spec == Init /\ [][Next]_vars /\ Fairness

----------------------------------------------------------------------------
(* What the display manager promises.                                      *)

Accepting == pc \in {"wait", "pam", "answer"}

(***************************************************************************)
(* Whatever failed in a cycle, at whichever point: before the next one     *)
(* starts, no process of it is left alive, the VT is back in text mode and *)
(* no PAM transaction stays open.                                          *)
(***************************************************************************)
CleanBetweenCycles ==
    pc \in {"top", "retry", "exit"} =>
        /\ procs = {}
        /\ vt = "text" /\ pam = "none"

(***************************************************************************)
(* The greeter's compositor and the user's never hold the VT together.     *)
(***************************************************************************)
OneCompositor == ~(Alive("greeter") /\ Alive("user"))

(***************************************************************************)
(* A process of a user's session only lives under an open PAM session.     *)
(***************************************************************************)
SessionGranted == procs \cap Session # {} => pam = "open"

(***************************************************************************)
(* While a cycle accepts credentials its socket is the one SocketPath      *)
(* names: the listener of an earlier cycle, closed by a goroutine of its   *)
(* own, never unlinks it.                                                  *)
(***************************************************************************)
SocketReachable ==
    Accepting /\ lis = "open" /\ ~down => path = "ours"

Outstanding(k) == conn[k] = "sending" \/ k \in Range(queue)

(***************************************************************************)
(* Credentials a handler holds, or has put into authCh, are judged and     *)
(* answered in the end, or the cycle is over: others were granted, or the  *)
(* manager is shut down.  One thing stands in between: a client that does  *)
(* not read what it is sent keeps emitAll, and with it the cycle.          *)
(***************************************************************************)
AttemptAnswered ==
    \A k \in Conn :
        Outstanding(k) /\ Accepting
        ~> (Emitting /\ (creds = {k} \/ Blocked)) \/ ~Accepting

(***************************************************************************)
(* A login that was granted ends in a new greeter, through the session or  *)
(* through the failure of one of its steps, or the manager has exited.     *)
(***************************************************************************)
GreeterReturns == pc = "stop" ~> pc \in {"wait", "exit"}
=============================================================================
