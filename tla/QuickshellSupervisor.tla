------------------------ MODULE QuickshellSupervisor ------------------------
(***************************************************************************)
(* The Quickshell supervisor (internal/daemon/quickshell): Run starts qs,  *)
(* waits for it, and starts it again until it has ended MaxRestarts times  *)
(* in a row within ten seconds.  Restart and Stop signal the process that  *)
(* runOnce started, under the mutex runOnce takes to replace it.           *)
(***************************************************************************)
EXTENDS Naturals, Sequences

CONSTANTS MaxRestarts, Kills   \* Kills bounds the calls of Restart

\* A MaxRestarts of 0 switches the limit off in the code.
ASSUME LimitAssumption == MaxRestarts \in Nat \ {0}

VARIABLES
    at,         \* delay | check | prepare | running | gone | done
    qs,         \* the process: none | up | deaf (SIGTERM was ignored)
    started,    \* s.cmd.Process is not nil
    killer,     \* none | waiting (holds the mutex) | sigkilled
    restarts,
    runs,       \* history: of every run since the last long one, "short"; a long one clears it
    long,       \* the process has run for more than 10 s
    stopped,    \* the context was cancelled
    kills

qsVars == <<at, qs, started, killer, restarts, runs, long, stopped, kills>>

QsInit ==
    /\ at = "delay" /\ qs = "none" /\ started = FALSE /\ killer = "none"
    /\ restarts = 0 /\ runs = 0 /\ long = FALSE /\ stopped = FALSE /\ kills = Kills

\* StartDelay and RestartDelay
Delayed ==
    /\ at = "delay"
    /\ at' = "check"
    /\ UNCHANGED <<qs, started, killer, restarts, runs, long, stopped, kills>>

\* The check at the top of the loop, then runOnce takes the mutex for a new Cmd.
NewCmd ==
    /\ at = "check"
    /\ \/ stopped /\ at' = "done" /\ UNCHANGED started
       \/ ~stopped /\ killer = "none" /\ at' = "prepare" /\ started' = FALSE
    /\ UNCHANGED <<qs, killer, restarts, runs, long, stopped, kills>>

\* pkill of older instances, then cmd.Run, which may fail to start.
StartQs ==
    /\ at = "prepare"
    /\ long' = FALSE
    /\ \/ at' = "running" /\ qs' = "up" /\ started' = TRUE
       \/ at' = "gone" /\ UNCHANGED <<qs, started>>
    /\ UNCHANGED <<killer, restarts, runs, stopped, kills>>

TenSeconds ==
    /\ at = "running" /\ ~long
    /\ long' = TRUE
    /\ UNCHANGED <<at, qs, started, killer, restarts, runs, stopped, kills>>

\* qs ends by itself, by a signal, or is killed with its context.
QsEnds ==
    /\ at = "running"
    /\ qs' = "none" /\ at' = "gone"
    /\ UNCHANGED <<started, killer, restarts, runs, long, stopped, kills>>

\* Bug: a long run does not start the count again.
CountEverything ==
    /\ at = "gone"
    /\ IF stopped THEN at' = "done" /\ UNCHANGED <<restarts, runs>>
       ELSE /\ restarts' = restarts + 1
            /\ runs' = IF long THEN 0 ELSE runs + 1
            /\ at' = IF restarts' > MaxRestarts THEN "done" ELSE "delay"
    /\ UNCHANGED <<qs, started, killer, long, stopped, kills>>

Count ==
    /\ at = "gone"
    /\ IF stopped THEN at' = "done" /\ UNCHANGED <<restarts, runs>>
       ELSE /\ restarts' = (IF long THEN 0 ELSE restarts) + 1
            /\ runs' = IF long THEN 0 ELSE runs + 1
            /\ at' = IF restarts' > MaxRestarts THEN "done" ELSE "delay"
    /\ UNCHANGED <<qs, started, killer, long, stopped, kills>>

\* killQS: SIGTERM, which qs may ignore; between two runs s.cmd is still the last one.
KillQs ==
    /\ kills > 0 /\ kills' = kills - 1
    /\ started /\ killer = "none" /\ killer' = "waiting"
    /\ qs' = IF qs = "up" THEN "deaf" ELSE qs
    /\ UNCHANGED <<at, started, restarts, runs, long, stopped>>

\* Bug: the second Wait on a command that has ended does not return.
KilledRunning ==
    /\ killer = "waiting" /\ qs # "none"
    /\ killer' = "sigkilled" /\ at' = "gone" /\ qs' = "none"
    /\ UNCHANGED <<started, restarts, runs, long, stopped, kills>>

Killed ==
    /\ killer # "none"
    /\ \/ qs = "none" /\ killer' = "none" /\ UNCHANGED <<at, qs>>
       \/ /\ qs # "none" /\ killer = "waiting" /\ killer' = "sigkilled"
          /\ at' = "gone" /\ qs' = "none"
    /\ UNCHANGED <<started, restarts, runs, long, stopped, kills>>

StopQs ==
    /\ ~stopped /\ stopped' = TRUE
    /\ UNCHANGED <<at, qs, started, killer, restarts, runs, long, kills>>

QsDone == at = "done" /\ UNCHANGED qsVars

QsNext ==
    \/ Delayed \/ NewCmd \/ StartQs \/ TenSeconds \/ QsEnds \/ Count
    \/ KillQs \/ Killed \/ StopQs \/ QsDone

QsFairness ==
    WF_qsVars(Delayed) /\ WF_qsVars(NewCmd) /\ WF_qsVars(StartQs) /\ WF_qsVars(Count)
    /\ WF_qsVars(Killed) /\ WF_qsVars(stopped /\ QsEnds)

(***************************************************************************)
(* The supervisor gives up only after MaxRestarts runs in a row were each  *)
(* shorter than ten seconds.                                               *)
(***************************************************************************)
GivesUpForCause ==
    at = "done" /\ ~stopped => runs >= MaxRestarts

(***************************************************************************)
(* However qs ends and whoever kills it, Run is always running it again in *)
(* the end, unless it has given up or was stopped: the kill, which holds   *)
(* the mutex while it waits, never keeps Run from the next start.          *)
(***************************************************************************)
QsComesBack ==
    QsFairness => []<>(at \in {"running", "done"})
=============================================================================
