------------------------------- MODULE PowerSave -------------------------------
(***************************************************************************)
(* The deep idle mode of internal/daemon/powersave: a screen that went off *)
(* while the session was locked and stays off for a threshold puts the     *)
(* machine into the power-saver profile.  Every operation runs under the   *)
(* service's mutex from start to end and is one step here.                 *)
(*                                                                         *)
(* Time is kept as an age: since is the number of seconds since the stored *)
(* time stamp, and Never while the stamp is zero.                          *)
(***************************************************************************)
EXTENDS Naturals

CONSTANTS
  Threshold  \* Service.threshold, in ticks of the clock

VARIABLES
  screenOff,  \* Service.screenOff
  since,      \* the age of Service.since, Threshold standing for all older ones
  active      \* Service.active

psVars == <<screenOff, since, active>>

Never == Threshold + 1

PsTypeOK ==
  /\ screenOff \in BOOLEAN
  /\ since \in 0..Never
  /\ active \in BOOLEAN

PsInit == screenOff = FALSE /\ since = Never /\ active = FALSE

\* SetScreenOff: the stamp is only renewed when the screen of a locked session goes
\* off, and never erased.
SetScreenOff(off, locked) ==
  /\ screenOff' = off
  /\ since' = IF off /\ ~screenOff /\ locked THEN 0 ELSE since
  /\ active' = (active /\ off)

\* Tick enters the deep idle mode.
EnterPowersave(locked) ==
  /\ ~active
  /\ screenOff
  /\ locked
  /\ since = Threshold
  /\ active' = TRUE
  /\ UNCHANGED <<screenOff, since>>

\* The clock.
Age == IF since < Threshold THEN since + 1 ELSE since
=============================================================================
