------------------------------ MODULE ShellStateMC ------------------------------
(***************************************************************************)
(* Instances of ShellState for TLC.                                        *)
(***************************************************************************)
EXTENDS ShellState

\* A tablet whose text fields gain and lose the focus while the keyboard is dismissed
\* and the session is locked once.
KeyboardInputs == {"tablet", "focus", "unfocus", "osk-dismiss", "locked"}

\* The mode commands, the hardware, the pinned keyboard, the lock and a client.
ModeInputs == ModeCommands \cup {"tablet", "no tablet", "osk-toggle", "osk-pin",
                                 "osk-unpin", "locked", "unlocked", "connect"}

\* The input method alone.
FocusOnly == {"focus", "unfocus"}
=============================================================================
