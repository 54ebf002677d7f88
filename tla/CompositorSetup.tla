-------------------------- MODULE CompositorSetup --------------------------
(***************************************************************************)
(* What the daemon does to Hyprland: runCompositorWatcher sets it up when  *)
(* it is first seen, softReload and autoscale when asked to, each a        *)
(* goroutine of its own that talks to the socket of the instance named in  *)
(* the daemon's environment (internal/daemon/hyprland, compositor,         *)
(* internal/manager/autoscale.go).  The user plugs monitors and restarts   *)
(* Hyprland.                                                               *)
(***************************************************************************)
EXTENDS Naturals, Sequences, FiniteSets, Functions

CONSTANTS
    Monitor,     \* the monitors there are
    Scale,       \* [monitor -> computeIdealScale of its best mode, a whole number here]
    Place,       \* [monitor -> where Hyprland puts it by itself]
    Reloads, Upheavals   \* bounds

ASSUME MonitorsAssumption == IsFiniteSet(Monitor)

VARIABLES
    instance,   \* of Hyprland: 0 while none runs
    signature,  \* HYPRLAND_INSTANCE_SIGNATURE of the daemon, 0 when it is not set
    speaks,     \* the dialect of Hyprland's version
    assumed,    \* the one that detectVersion settled on when the daemon started
    connected, position, scale, binds,   \* the monitors and the binds in Hyprland
    monitorsLua, workspacesLua,  \* the generated files
    wasReady,
    todo,       \* [goroutine -> what it has still to do]
    reloads, upheavals

csVars == <<instance, signature, speaks, assumed, connected, position, scale, binds, monitorsLua,
            workspacesLua, wasReady, todo, reloads, upheavals>>
compositor == <<instance, speaks, connected, position, scale, binds>>

Dialect == {"legacy", "lua"}
Keys == {"XF86PowerOff", "switch:on:Lid Switch"}
Unwritten == [m \in {} |-> 0]

\* querySocket is answered; isHyprlandAvailable looks at the environment alone.
Reached == signature # 0 /\ instance = signature
IsRunning == signature # 0

\* bestCmd sends the newest variant that the assumed version allows.
Understood == Reached /\ assumed = speaks

CsInit ==
    /\ instance = 1 /\ signature \in {0, 1} /\ speaks \in Dialect
    /\ assumed = IF signature = 0 THEN "lua" ELSE speaks
    /\ connected \in (SUBSET Monitor) \ {{}} /\ position = Place
    /\ scale = [m \in Monitor |-> 1] /\ binds = {}
    /\ monitorsLua = Unwritten /\ workspacesLua = {}
    /\ wasReady = FALSE /\ todo = [g \in {"watcher", "reload"} |-> <<>>]
    /\ reloads = Reloads /\ upheavals = Upheavals

\* math.Round(float64(m.X) / idealScale)
Logical(x, s) == (2 * x + s) \div (2 * s)

TotalWorkspaces == 10

\* Bug: the last monitor is like the others.
RunsWithoutRemainder(ms) ==
    LET each == TotalWorkspaces \div Len(ms)
        First(i) == (i - 1) * each + 1
    IN UNION {{<<w, ms[i], w = First(i)>> : w \in First(i)..(i * each)} : i \in DOMAIN ms}

\* Workspaces 1 to 10 in equal runs, the last monitor takes the remainder.
Runs(ms) ==
    LET each == TotalWorkspaces \div Len(ms)
        First(i) == (i - 1) * each + 1
        Last(i) == IF i = Len(ms) THEN TotalWorkspaces ELSE i * each
    IN UNION {{<<w, ms[i], w = First(i)>> : w \in First(i)..Last(i)} : i \in DOMAIN ms}

\* The orders in which Hyprland may list the monitors.
Listings == Injection(1..Cardinality(connected), connected)

----------------------------------------------------------------------------
(* What the goroutines do.                                                 *)

Give(g, steps) == todo' = [todo EXCEPT ![g] = steps]
Take(g, step) == todo[g] # <<>> /\ Head(todo[g]) = step /\ Give(g, Tail(todo[g]))

\* The watcher's tick.  The environment of a process does not change by itself, so the
\* branch for a lost Hyprland is never taken.
DetectHyprland ==
    /\ IsRunning /\ ~wasReady /\ wasReady' = TRUE
    /\ Give("watcher", <<"monitors", "workspaces", "bind">>)
    /\ UNCHANGED <<compositor, signature, assumed, monitorsLua, workspacesLua, reloads, upheavals>>

SoftReload ==
    /\ reloads > 0 /\ reloads' = reloads - 1
    /\ todo["reload"] = <<>>
    /\ Give("reload", <<"monitors", "workspaces", "reload">>)
    /\ UNCHANGED <<compositor, signature, assumed, monitorsLua, workspacesLua, wasReady, upheavals>>

\* A file that would not change is not written.
GenerateMonitorsLua(g) ==
    /\ Take(g, "monitors")
    /\ monitorsLua' = IF Reached /\ connected # {}
                      THEN [m \in connected |-> Logical(position[m], Scale[m])] ELSE monitorsLua
    /\ UNCHANGED <<compositor, signature, assumed, workspacesLua, wasReady, reloads, upheavals>>

GenerateWorkspacesLua(g) ==
    /\ Take(g, "workspaces")
    /\ workspacesLua' \in IF Reached /\ connected # {} THEN {Runs(ms) : ms \in Listings}
                                                     ELSE {workspacesLua}
    /\ UNCHANGED <<compositor, signature, assumed, monitorsLua, wasReady, reloads, upheavals>>

\* Hyprland refuses a bind in the other dialect, in an answer that send does not read.
BindKeys ==
    /\ Take("watcher", "bind")
    /\ binds' = IF Understood THEN Keys ELSE binds
    /\ UNCHANGED <<instance, speaks, connected, position, scale, signature, assumed, monitorsLua,
                   workspacesLua, wasReady, reloads, upheavals>>

\* Hyprland reads its files; binds made at run time are gone.
Configured ==
    /\ position' = [m \in Monitor |->
                       IF m \in DOMAIN monitorsLua THEN monitorsLua[m] ELSE position[m]]
    /\ scale' = [m \in Monitor |-> IF m \in DOMAIN monitorsLua THEN Scale[m] ELSE scale[m]]
    /\ binds' = {}

Reload ==
    /\ Take("reload", "reload")
    /\ IF Reached THEN Configured ELSE UNCHANGED <<position, scale, binds>>
    /\ UNCHANGED <<instance, speaks, connected, signature, assumed, monitorsLua, workspacesLua,
                   wasReady, reloads, upheavals>>

Autoscale ==
    /\ Understood /\ reloads > 0 /\ reloads' = reloads - 1
    /\ LET off == {m \in connected : scale[m] # Scale[m]} IN
         /\ scale' = [m \in Monitor |-> IF m \in off THEN Scale[m] ELSE scale[m]]
         /\ position' = [m \in Monitor |->
                            IF m \in off THEN Logical(position[m], Scale[m]) ELSE position[m]]
    /\ UNCHANGED <<instance, speaks, connected, binds, signature, assumed, monitorsLua,
                   workspacesLua, wasReady, todo, upheavals>>

----------------------------------------------------------------------------
(* Hyprland and the user.                                                  *)

Hotplug ==
    /\ upheavals > 0 /\ upheavals' = upheavals - 1
    /\ connected' \in SUBSET Monitor \ {connected}
    /\ UNCHANGED <<instance, speaks, position, scale, binds, signature, assumed, monitorsLua,
                   workspacesLua, wasReady, todo, reloads>>

\* Another instance, with a signature of its own.
Restart ==
    /\ upheavals > 0 /\ upheavals' = upheavals - 1
    /\ instance' = instance + 1 /\ Configured
    /\ UNCHANGED <<speaks, connected, signature, assumed, monitorsLua, workspacesLua, wasReady,
                   todo, reloads>>

CsNext ==
    \/ DetectHyprland \/ SoftReload \/ BindKeys \/ Reload \/ Autoscale
    \/ Hotplug \/ Restart
    \/ \E g \in {"watcher", "reload"} : GenerateMonitorsLua(g) \/ GenerateWorkspacesLua(g)

(***************************************************************************)
(* workspaces.lua gives every workspace to one monitor, and every monitor  *)
(* one workspace to start with.                                            *)
(***************************************************************************)
WorkspacesSplit ==
    workspacesLua # {} =>
        /\ \A w \in 1..TotalWorkspaces : Cardinality({r \in workspacesLua : r[1] = w}) = 1
        /\ \A r \in workspacesLua : Cardinality({q \in workspacesLua : q[2] = r[2] /\ q[3]}) = 1
=============================================================================
