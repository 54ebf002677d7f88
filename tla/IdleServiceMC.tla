----------------------------- MODULE IdleServiceMC -----------------------------
(***************************************************************************)
(* Instances of IdleService for TLC.                                       *)
(***************************************************************************)
EXTENDS IdleService, FiniteSets, TLC

\* The bound on goroutines that are at work at once, where operations overlap.
AtMostTwo == Cardinality({t \in Threads : todo[t] # <<>>}) <= 2

\* The delayed locks are interchangeable.
DelaySymmetry == Permutations(Delays)

\* What turns the display on from several sides while a lock is on its way, and two
\* inhibition sources.
RacingRequests == {"unlock", "activity", "wayland restart", "fullscreen", "unfullscreen",
                   "block sleep and idle", "release"}

\* Everything but the loss of the compositor, and the user stays.
EverythingButRestart == AllRequests \ {"wayland restart", "leave"}

\* A session that is only unlocked by a password, and only while locked;
\* the power button, which turns the display off by itself, is left out.
OrdinaryUse == {"lock", "password", "logind lock", "inhibit", "uninhibit", "fullscreen",
                "unfullscreen", "block sleep and idle", "release", "activity", "leave"}

\* systemd-inhibit --what=idle, and its end.
IdleBlock == {"block idle", "release"}
=============================================================================
