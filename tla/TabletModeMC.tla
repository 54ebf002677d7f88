----------------------------- MODULE TabletModeMC -----------------------------
(***************************************************************************)
(* An instance of TabletMode for TLC, with a history variable that tells   *)
(* whether two publications have ever been under way at once or a query    *)
(* of logind has failed.                                                   *)
(***************************************************************************)
EXTENDS TabletMode, FiniteSets

VARIABLE
  disturbed

Overlap == \E t, u \in Threads : t # u /\ Engaged(t) /\ Engaged(u)

WatchedInit == TmInit /\ disturbed = FALSE

\* The steps of the monitor, and whether one of them disturbed it.
WatchedNext == TmNext /\ disturbed' = (disturbed \/ Overlap' \/ LogindFails)

WatchedSpec == WatchedInit /\ [][WatchedNext]_<<tmVars, disturbed>>

\* The bound of this instance on goroutines that are at work at once.
AtMostTwo == Cardinality({t \in Threads : Engaged(t)}) <= 2

MCNext == WatchedNext /\ AtMostTwo'

\* As long as publications have come one after the other and no timer has fired into the
\* handling of a key, the state loop was told what the sources say by their priorities
\* (publish), and a machine that is typed on is no tablet for lack of typing.
FollowsUnlessDisturbed == ~disturbed => ToldCurrent /\ TypingKeepsActive
=============================================================================
