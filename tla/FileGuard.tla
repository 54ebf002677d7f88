----------------------------- MODULE FileGuard -----------------------------
(***************************************************************************)
(* The file guard (internal/daemon/guard): Run collects the files that     *)
(* fsnotify reports in a map and arms a timer; the timer's function, on a  *)
(* goroutine of its own, restores each of them and then replaces the map.  *)
(* The two share the map and the timer without a lock.  A restore writes   *)
(* the file, which fsnotify reports again; one that fails is only logged.  *)
(***************************************************************************)
EXTENDS Naturals, FiniteSets

CONSTANTS
    Shipped,    \* files SourceDir (or the embedded tree) has
    Generated,  \* Excludes, rebuilt by Regenerate
    Foreign,    \* names neither has
    Runner,     \* the timer functions that may run at once
    Changes, Refusals   \* bounds: files changed by others, restores that fail

GuardFile == Shipped \cup Generated \cup Foreign

VARIABLES
    disk,       \* [GuardFile -> right | wrong | absent]
    events,     \* the names fsnotify has yet to deliver
    affected,
    armed,      \* the timers running: the named one, and one the variable lost
    visiting,   \* [Runner -> the names left in its range, or Asleep]
    missed,     \* history: names whose last event was dropped with the map, the daemon or
                \* a restore that gave up
    changes, refusals

guardVars == <<disk, events, affected, armed, visiting, missed, changes, refusals>>

Asleep == {"asleep"}

\* EnsureGenerated has run before the guard starts.
GuardInit ==
    /\ disk = [f \in GuardFile |-> IF f \in Foreign THEN "absent" ELSE "right"]
    /\ events = {} /\ affected = {} /\ armed = {}
    /\ visiting = [r \in Runner |-> Asleep]
    /\ missed = {} /\ changes = Changes /\ refusals = Refusals

\* Somebody writes or removes a file.
Tamper(f, to) ==
    /\ changes > 0 /\ changes' = changes - 1
    /\ disk[f] # to /\ disk' = [disk EXCEPT ![f] = to]
    /\ events' = events \cup {f} /\ missed' = missed \ {f}
    /\ UNCHANGED <<affected, armed, visiting, refusals>>

\* timer.Reset and time.AfterFunc both arm the timer the variable names.
ReceiveEvent(f) ==
    /\ f \in events /\ events' = events \ {f}
    /\ affected' = affected \cup {f}
    /\ armed' = armed \cup {"named"}
    /\ UNCHANGED <<disk, visiting, missed, changes, refusals>>

TimerFires(r) ==
    /\ visiting[r] = Asleep
    /\ \E t \in armed : armed' = armed \ {t}
    /\ visiting' = [visiting EXCEPT ![r] = affected]
    /\ UNCHANGED <<disk, events, affected, missed, changes, refusals>>

\* restoreFile.  Regenerate writes only what differs; the others always write, and a
\* file without a source is removed.
Restored(f) == IF f \in Foreign THEN "absent" ELSE "right"

Touches(f) == CASE f \in Shipped -> TRUE
                [] f \in Generated -> disk[f] # "right"
                [] f \in Foreign -> disk[f] # "absent"

\* Bug: a generated file is left as it is, as with no Regenerate.
RestoreFileShipped(r, f) ==
    /\ visiting[r] # Asleep /\ f \in visiting[r]
    /\ visiting' = [visiting EXCEPT ![r] = @ \ {f}]
    /\ disk' = IF f \in Generated THEN disk ELSE [disk EXCEPT ![f] = Restored(f)]
    /\ events' = IF f \notin Generated /\ Touches(f) THEN events \cup {f} ELSE events
    /\ UNCHANGED <<affected, armed, missed, changes, refusals>>

RestoreFile(r, f) ==
    /\ visiting[r] # Asleep /\ f \in visiting[r]
    /\ visiting' = [visiting EXCEPT ![r] = @ \ {f}]
    /\ disk' = [disk EXCEPT ![f] = Restored(f)]
    /\ events' = IF Touches(f) THEN events \cup {f} ELSE events
    /\ UNCHANGED <<affected, armed, missed, changes, refusals>>

\* The log line "failed to ...", or a Regenerate that returns nil as Hyprland does not run:
\* the file stays as it is, and no event comes of it.
GivesUp(f) ==
    /\ UNCHANGED <<disk, events>>
    /\ missed' = missed \cup ({f} \ ({g \in GuardFile : disk[g] = Restored(g)} \cup events))

\* os.WriteFile has truncated what it cannot write, or the source could not be read and the
\* file is taken for an unauthorized one; fsnotify reports either.
Spoils(f) ==
    /\ \E to \in IF f \in Shipped THEN {"wrong", "absent"} ELSE {"wrong"} :
          (to = "absent" => disk[f] # to) /\ disk' = [disk EXCEPT ![f] = to]
    /\ events' = events \cup {f} /\ missed' = missed \ {f}

RestoreFails(r, f) ==
    /\ refusals > 0 /\ refusals' = refusals - 1
    /\ visiting[r] # Asleep /\ f \in visiting[r]
    /\ visiting' = [visiting EXCEPT ![r] = @ \ {f}]
    /\ GivesUp(f) \/ (f \notin Foreign /\ Spoils(f))
    /\ UNCHANGED <<affected, armed, changes>>

\* A range may or may not see a name that is added to the map meanwhile.
SeeAddition(r, f) ==
    /\ visiting[r] # Asleep
    /\ f \in affected \ visiting[r] /\ disk[f] # Restored(f)
    /\ visiting' = [visiting EXCEPT ![r] = @ \cup {f}]
    /\ UNCHANGED <<disk, events, affected, armed, missed, changes, refusals>>

\* affected = make(...), timer = nil
ForgetAffected(r) ==
    /\ visiting[r] = {}
    /\ visiting' = [visiting EXCEPT ![r] = Asleep]
    /\ affected' = {} /\ armed' = IF armed = {} THEN {} ELSE {"stray"}
    /\ missed' = missed \cup {f \in affected : disk[f] # Restored(f)}
    /\ UNCHANGED <<disk, events, changes, refusals>>

\* The runtime may notice the write to the map beside the range, and ends the daemon.
RuntimeStops ==
    /\ events # {} /\ \E r \in Runner : visiting[r] \notin {Asleep, {}}
    /\ events' = {} /\ affected' = {} /\ armed' = {}
    /\ visiting' = [r \in Runner |-> Asleep]
    /\ missed' = GuardFile /\ changes' = 0
    /\ UNCHANGED <<disk, refusals>>

GuardNext ==
    \/ RuntimeStops
    \/ \E f \in GuardFile : \/ \E to \in {"wrong", "absent"} : Tamper(f, to)
                            \/ ReceiveEvent(f)
    \/ \E r \in Runner : \/ TimerFires(r) \/ ForgetAffected(r)
                         \/ \E f \in GuardFile : \/ RestoreFile(r, f) \/ RestoreFails(r, f)
                                                 \/ SeeAddition(r, f)

Guard(r) == ForgetAffected(r) \/ \E f \in GuardFile : RestoreFile(r, f)

GuardFairness ==
    /\ \A f \in GuardFile : WF_guardVars(ReceiveEvent(f))
    /\ WF_guardVars(\E r \in Runner : TimerFires(r))
    /\ \A r \in Runner : WF_guardVars(Guard(r))

(***************************************************************************)
(* A file that was changed is put right in the end, unless the report of   *)
(* the change was lost with the map a restore threw away, the runtime      *)
(* stopped the daemon over that map, or the restore itself gave up and     *)
(* left no event behind: a write that fails half-way is tried again.       *)
(***************************************************************************)
ChangesUndone ==
    GuardFairness =>
      \A f \in GuardFile : disk[f] # Restored(f) ~> disk[f] = Restored(f) \/ f \in missed
=============================================================================
