---------------------------- MODULE InhibitionPolicy ----------------------------
(***************************************************************************)
(* What internal/daemon/idle promises about idle inhibition: independent   *)
(* sources come and go, and the published state is at any time one that    *)
(* the sources had when it was published, and follows them in the end.     *)
(***************************************************************************)
CONSTANTS Source

VARIABLES
  raised,    \* the sources that inhibit
  published  \* what the timers and the lock go by

vars == <<raised, published>>

Init == raised = {} /\ published = FALSE

Raise(s) == raised' = raised \cup {s} /\ UNCHANGED published

Lower(s) == raised' = raised \ {s} /\ UNCHANGED published

Publish == published' = (raised # {}) /\ UNCHANGED raised

Next == Publish \/ \E s \in Source : Raise(s) \/ Lower(s)

Spec == Init /\ [][Next]_vars /\ WF_vars(Publish)
=============================================================================
