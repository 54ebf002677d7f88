----------------------------- MODULE LockScreenMC -----------------------------
(***************************************************************************)
(* Instances of LockScreen for TLC, with a history variable that tells     *)
(* whether two operations have ever been under way at once, or a           *)
(* fingerprint has taken the lock surface away.                            *)
(***************************************************************************)
EXTENDS LockScreen

VARIABLE
  disturbed

\* Two callers or commanders are between two of their steps.
Overlap ==
  \E t, u \in Callers \cup Commanders :
    t # u /\ \A w \in {t, u} : ~AtRest(w) /\ ~Waiting(w)

MCInit == Init /\ disturbed = FALSE

MCNext == Next /\ disturbed' = (disturbed \/ Overlap' \/ FingerprintUnlock)

MCSpec == MCInit /\ [][MCNext]_<<vars, disturbed>>

MCFairSpec == MCSpec /\ Fairness

\* Everything a socket client, logind or a restart can ask for.
EveryCommand == AllCommands

\* Someone in front of a locked screen: the screen can be locked again and again, but
\* nothing except a password or the end of the lockout helps.
KeyboardOnly == {"lock", "power-button", "connect"}

\* The commands a user runs to switch between locked and unlocked.
LockAndUnlock == {"lock", "unlock"}

LockOnly == {"lock"}

\* As long as no two operations have overlapped, however slow the password checks and
\* whatever the tickers of lockouts do meanwhile, QML shows the lock screen iff the
\* service is locked whenever nothing is under way (onLockscreenEvent, activate).
AgreeUnlessDisturbed == ~disturbed => AgreeAtRest
=============================================================================
