--------------------------- MODULE AttemptThrottle ---------------------------
(***************************************************************************)
(* What the lock screen promises about guessing: at most MaxAttempts wrong *)
(* passwords, then the gate is shut for LockoutTicks, and only then does   *)
(* the count start again.  The gate may shut early, never late.            *)
(***************************************************************************)
EXTENDS Naturals

CONSTANTS MaxAttempts, LockoutTicks

VARIABLES
  failures,  \* wrong passwords since the gate was opened or a password was right
  shut,      \* no password is looked at
  remaining  \* ticks until the gate opens

vars == <<failures, shut, remaining>>

Init == failures = 0 /\ shut = FALSE /\ remaining = 0

Succeed ==
  /\ ~shut
  /\ failures' = 0
  /\ UNCHANGED <<shut, remaining>>

Fail ==
  /\ ~shut
  /\ failures + 1 < MaxAttempts
  /\ failures' = failures + 1
  /\ UNCHANGED <<shut, remaining>>

FailAndShut ==
  /\ ~shut
  /\ failures' = MaxAttempts
  /\ shut' = TRUE
  /\ remaining' = LockoutTicks

Second ==
  /\ shut
  /\ remaining > 0
  /\ remaining' = remaining - 1
  /\ UNCHANGED <<failures, shut>>

Open ==
  /\ shut
  /\ remaining = 0
  /\ failures' = 0
  /\ shut' = FALSE
  /\ UNCHANGED remaining

Next == Succeed \/ Fail \/ FailAndShut \/ Second \/ Open

Spec == Init /\ [][Next]_vars
=============================================================================
