--------------------------- MODULE StatusService ---------------------------
(***************************************************************************)
(* The daemon's status services (internal/daemon/gamemode, hyprsunset,     *)
(* easyeffects, network, session, weather, updates, resources, darkmode).  *)
(* Each keeps a copy of something it does not own: a ticker's goroutine    *)
(* reads the source and stores what it read, a monitor does so when it is  *)
(* told of a change, a request acts on the source and stores what it       *)
(* wanted, and every store is followed by a callback with a copy of what   *)
(* is then stored.  A behaviour is about one of the services.              *)
(***************************************************************************)
EXTENDS Integers, Sequences, SequencesExt

CONSTANTS
    Service,                \* the services explored
    Sources, Toggles, Errors   \* bounds: changes of the source, requests, failed reads or tools

VARIABLES
    svc,
    source,     \* what the service reads
    stored,     \* what it holds
    view,       \* what the frontend shows
    read,       \* [Worker -> what it has read and not yet stored, or Unread]
    calls,      \* <<worker, copy>> on the way to the frontend, oldest first
    told,       \* a line waits in the monitor's pipe
    monitored,  \* the monitor's process is up
    suspended,  \* IsSuspended, as powersave sets it
    astray,     \* history: a copy was delivered before an older one, or was never stored
    unseen,     \* history: the source changed while the monitor was down
    sources, toggles, errors

stVars == <<svc, source, stored, view, read, calls, told, monitored, suspended,
            astray, unseen, sources, toggles, errors>>

Worker == {"ticker", "monitor", "request"}
Unread == -1

Suspendable == {"weather", "updates"}
Watching == {"network", "darkmode"}

\* Memory is counted in units of half the threshold; network is the radio.
Values == IF svc = "resources" THEN 0..5 ELSE {0, 1}
Distance(a, b) == IF a < b THEN b - a ELSE a - b

Errs == errors > 0 /\ errors' = errors - 1
Busy(w) == read[w] # Unread \/ \E i \in DOMAIN calls : calls[i][1] = w
Ready(w) == ~Busy(w)

\* Run as far as its loop: the first read is stored and shown.
StInit ==
    /\ svc \in Service
    /\ source = 1 /\ stored = 1 /\ view = 1
    /\ read = [w \in Worker |-> Unread] /\ calls = <<>>
    /\ told = FALSE /\ monitored = TRUE /\ suspended = FALSE
    /\ astray = FALSE /\ unseen = FALSE
    /\ sources = Sources /\ toggles = Toggles /\ errors = Errors

\* hasChanged of one of the quantities it compares: resources are stored, and shown, only
\* beyond the threshold of what was stored last, or when that was nothing.  Any of them
\* takes the others along, cpuUsage too, which has a threshold of its own; memoryAvailable
\* is never compared and no part of this model.
HasChanged(v) == stored = 0 \/ Distance(v, stored) > 2

\* s.x = v and the copy that emit takes for its callback.
StoreAndCall(w, v) == stored' = v /\ calls' = Append(calls, <<w, v>>)

----------------------------------------------------------------------------
(* The world.                                                              *)

SourceChanges ==
    /\ sources > 0 /\ sources' = sources - 1
    /\ source' \in Values \ {source} /\ Distance(source', source) <= 2
    /\ told' = (told \/ monitored) /\ unseen' = (unseen \/ ~monitored)
    /\ UNCHANGED <<svc, stored, view, read, calls, monitored, suspended, astray,
                   toggles, errors>>

\* The monitor's process ends, and the loop starts another; what was in its pipe is read.
MonitorRestarts ==
    /\ svc \in Watching
    /\ monitored' = ~monitored
    /\ IF monitored THEN Errs ELSE UNCHANGED errors
    /\ UNCHANGED <<svc, source, stored, view, read, calls, told, suspended, astray,
                   unseen, sources, toggles>>

Suspend ==
    /\ svc \in Suspendable /\ suspended' = ~suspended
    /\ IF suspended THEN UNCHANGED toggles ELSE toggles > 0 /\ toggles' = toggles - 1
    /\ UNCHANGED <<svc, source, stored, view, read, calls, told, monitored, astray,
                   unseen, sources, errors>>

Deliver(i) ==
    /\ i \in DOMAIN calls
    /\ view' = calls[i][2] /\ calls' = RemoveAt(calls, i)
    /\ astray' = (astray \/ i # 1)
    /\ UNCHANGED <<svc, source, stored, read, told, monitored, suspended, unseen,
                   sources, toggles, errors>>

----------------------------------------------------------------------------
(* The services.                                                           *)

Holds(w, v) == read' = [read EXCEPT ![w] = v]

\* A read that fails ends the round with nothing stored.
Finds == (Holds("ticker", source) /\ UNCHANGED errors) \/ (Errs /\ UNCHANGED read)

DetectState == svc = "gamemode" /\ Finds
FetchState == svc = "hyprsunset" /\ Finds
CheckEffects == svc = "easyeffects" /\ Holds("ticker", source) /\ UNCHANGED errors
CheckSession == svc = "session" /\ Holds("ticker", source) /\ UNCHANGED errors
ReadResources == svc = "resources" /\ Holds("ticker", source) /\ UNCHANGED errors

\* Only the last command of a pipe can fail: jq has nothing to say of no input, wc counts
\* no lines of no output.
Piped(w) == (Holds(w, source) /\ UNCHANGED errors) \/ (Errs /\ Holds(w, 0))
FetchAndEmit(w) == svc = "weather" /\ ~suspended /\ Piped(w)
CheckAndEmit == svc = "updates" /\ ~suspended /\ Piped("ticker")

\* pollAll emits whatever its reads came to; one that fails leaves its field as it is.
NoReading == -2
PollAll(w) ==
    /\ svc = "network"
    /\ (Holds(w, source) /\ UNCHANGED errors) \/ (Errs /\ Holds(w, NoReading))

Reading(w) ==
    /\ Ready(w)
    /\ UNCHANGED <<svc, source, stored, view, calls, monitored, suspended, astray, unseen,
                   sources, toggles>>

Tick ==
    /\ Reading("ticker") /\ UNCHANGED told
    /\ \/ DetectState \/ FetchState \/ CheckEffects \/ CheckSession \/ ReadResources
       \/ FetchAndEmit("ticker") \/ CheckAndEmit \/ PollAll("ticker")

\* A line of nmcli monitor polls everything; one of gsettings monitor is the value itself.
NetworkLine == PollAll("monitor")
ColourSchemeLine == svc = "darkmode" /\ Holds("monitor", source) /\ UNCHANGED errors

MonitorLine ==
    /\ told /\ told' = FALSE
    /\ Reading("monitor")
    /\ NetworkLine \/ ColourSchemeLine

\* Bug: every read is stored, and only what differs enough from the last one is shown.
StoreReadDrifting(w) ==
    /\ read[w] # Unread
    /\ Holds(w, Unread) /\ stored' = read[w]
    /\ IF svc = "resources" /\ ~HasChanged(read[w]) THEN UNCHANGED calls
       ELSE calls' = Append(calls, <<w, read[w]>>)
    /\ UNCHANGED <<svc, source, view, told, monitored, suspended, astray, unseen,
                   sources, toggles, errors>>

StoreRead(w) ==
    /\ read[w] # Unread
    /\ Holds(w, Unread)
    /\ IF svc = "resources" /\ ~HasChanged(read[w]) THEN UNCHANGED <<stored, calls>>
       ELSE StoreAndCall(w, IF read[w] = NoReading THEN stored ELSE read[w])
    /\ UNCHANGED <<svc, source, view, told, monitored, suspended, astray, unseen,
                   sources, toggles, errors>>

\* Resources are read anew and not stored; there is no weather yet in an empty string.
EmitSnapshot ==
    /\ Ready("request") /\ toggles > 0 /\ toggles' = toggles - 1
    /\ ~(svc = "weather" /\ stored = 0)
    /\ calls' = Append(calls, <<"request", IF svc = "resources" THEN source ELSE stored>>)
    /\ astray' = (astray \/ (svc = "resources" /\ source # stored))
    /\ UNCHANGED <<svc, source, stored, view, read, told, monitored, suspended, unseen,
                   sources, errors>>

\* The options that cannot be set are only logged.
EnableGameMode ==
    /\ (source' = 1 /\ UNCHANGED errors) \/ (Errs /\ UNCHANGED source)
    /\ StoreAndCall("request", 1)

\* Hyprland is reloaded, or Disable ends.
DisableGameMode ==
    \/ source' = 0 /\ StoreAndCall("request", 0) /\ UNCHANGED errors
    \/ Errs /\ UNCHANGED <<source, stored, calls>>

ToggleGameMode ==
    /\ svc = "gamemode"
    /\ IF stored = 1 THEN DisableGameMode ELSE EnableGameMode
    /\ UNCHANGED read

\* EnableTemperature and DisableTemperature do not look at what the socket answers.
ToggleTemperature(active) ==
    /\ svc = "hyprsunset"
    /\ \/ source' = active /\ UNCHANGED errors
       \/ Errs /\ UNCHANGED source
    /\ StoreAndCall("request", active) /\ UNCHANGED read

\* Enable starts the process; Disable signals it, and it ends when it likes.
EnableEffects ==
    /\ svc = "easyeffects"
    /\ \/ source' = 1 /\ StoreAndCall("request", 1) /\ UNCHANGED errors
       \/ Errs /\ UNCHANGED <<source, stored, calls>>
    /\ UNCHANGED read

DisableEffects ==
    /\ svc = "easyeffects"
    /\ source' \in {source, 0}
    /\ StoreAndCall("request", 0) /\ UNCHANGED <<read, errors>>

\* EnableWifi acts and reads back.
ToggleWifi ==
    /\ svc = "network"
    /\ (source' = 1 - stored /\ UNCHANGED errors) \/ (Errs /\ UNCHANGED source)
    /\ Holds("request", source')
    /\ UNCHANGED <<stored, calls>>

RescanWifi ==
    /\ svc = "network"
    /\ StoreAndCall("request", stored) /\ UNCHANGED <<source, read, errors>>

RefreshNow == FetchAndEmit("request") /\ UNCHANGED <<source, stored, calls>>

Request ==
    /\ Ready("request") /\ toggles > 0 /\ toggles' = toggles - 1
    /\ \/ ToggleGameMode \/ EnableEffects \/ DisableEffects \/ ToggleWifi \/ RescanWifi
       \/ RefreshNow \/ \E active \in {0, 1} : ToggleTemperature(active)
    /\ told' = (told \/ (monitored /\ source' # source))
    /\ unseen' = (unseen \/ (~monitored /\ source' # source))
    /\ UNCHANGED <<svc, view, monitored, suspended, astray, sources>>

StNext ==
    \/ SourceChanges \/ MonitorRestarts \/ Suspend
    \/ Tick \/ MonitorLine \/ EmitSnapshot \/ Request
    \/ \E w \in Worker : StoreRead(w)
    \/ \E i \in 1..Len(calls) : Deliver(i)

StFairness ==
    /\ WF_stVars(Tick) /\ WF_stVars(MonitorLine) /\ WF_stVars(Deliver(1))
    /\ WF_stVars(~monitored /\ MonitorRestarts)
    /\ \A w \in Worker : WF_stVars(StoreRead(w))

(***************************************************************************)
(* Whatever reads, requests and snapshots overtake each other, what is     *)
(* shown ends up with the source: a service that emits every round repairs *)
(* any race with its next one.  Darkmode, which only repeats what its      *)
(* monitor says, misses what happens while that is down; it and resources  *)
(* stay with an older copy that was delivered last, and resources with a   *)
(* snapshot, which is not what they compare with.                          *)
(***************************************************************************)
ViewCatchesUp ==
    StFairness =>
      <>[](\/ suspended
           \/ svc \notin {"resources", "darkmode"} /\ view = source
           \/ svc = "darkmode" /\ (view = source \/ unseen \/ astray)
           \/ svc = "resources" /\ (Distance(view, source) <= 2 \/ astray))
=============================================================================
