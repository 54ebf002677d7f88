----------------------------- MODULE ServicesMC -----------------------------
(***************************************************************************)
(* The daemon's smaller services, the tablet mode monitor and the          *)
(* installer, which share nothing a step of theirs could disturb: a        *)
(* behaviour is about one of them, and the others stand still in a state   *)
(* in which nothing is due.                                                *)
(***************************************************************************)
EXTENDS FileGuard, QuickshellSupervisor, Brightness, AntiFlashbang, StatusService,
        Installer, CompositorSetup, TabletModeMC

CONSTANTS m1, m2, m3
MCMonitor == {m1, m2, m3}
ScaleOf == [m \in {m1, m2, m3} |-> IF m = m1 THEN 1 ELSE 2]
PlaceOf == [m \in {m1, m2, m3} |-> IF m = m1 THEN 0 ELSE IF m = m2 THEN 4 ELSE 8]

VARIABLE
    subject

smaller == <<subject, guardVars, qsVars, brVars, fbVars, stVars, inVars, csVars, tmVars,
             disturbed>>

GuardOff ==
    /\ disk = [f \in GuardFile |-> Restored(f)] /\ events = {} /\ affected = {} /\ armed = {}
    /\ visiting = [r \in Runner |-> Asleep] /\ missed = {} /\ changes = 0 /\ refusals = 0

QsOff ==
    /\ at = "done" /\ qs = "none" /\ started = FALSE /\ killer = "none"
    /\ restarts = 0 /\ runs = 0 /\ long = FALSE /\ stopped = TRUE /\ kills = 0

BrOff ==
    /\ ddc = {} /\ known = <<>> /\ panel = <<>> /\ setting = <<>>
    /\ poll = [was |-> <<>>, now |-> <<>>, todo |-> {"off"}]
    /\ emitting = <<>> /\ shown = <<>> /\ crossed = FALSE /\ upsets = 0

FbOff ==
    /\ plugged = {} /\ names = {} /\ scene = <<>> /\ multipliers = <<>> /\ subscribed = TRUE
    /\ queue = <<>> /\ pending = FALSE /\ flushing = [f \in Flusher |-> NoFlush]
    /\ excused = {} /\ unlisted = FALSE /\ scenes = 0 /\ losses = 0

StOff ==
    /\ svc = "off" /\ source = 1 /\ stored = 1 /\ view = 1
    /\ read = [w \in Worker |-> Unread] /\ calls = <<>> /\ told = FALSE
    /\ monitored = TRUE /\ suspended = TRUE /\ astray = FALSE /\ unseen = FALSE
    /\ sources = 0 /\ toggles = 0 /\ errors = 0

InOff ==
    /\ step = 0 /\ task = 0 /\ outcome = "done" /\ interrupted = TRUE
    /\ installed = <<>> /\ forgone = {} /\ mishaps = 0

CsOff ==
    /\ instance = 0 /\ signature = 0 /\ speaks = "lua" /\ assumed = "lua"
    /\ connected = {} /\ position = <<>> /\ scale = <<>> /\ binds = {}
    /\ monitorsLua = Unwritten /\ workspacesLua = {} /\ wasReady = FALSE
    /\ todo = [g \in {"watcher", "reload"} |-> <<>>] /\ reloads = 0 /\ upheavals = 0

TmOff ==
    /\ evdev = "none" /\ logindMode = "indeterminate" /\ kbActive = FALSE /\ kbTimer = "nil"
    /\ timer = [i \in Timers |-> NoTimer] /\ tablet = FALSE /\ reported = FALSE
    /\ pc = [t \in Threads |-> "rest"] /\ want = [t \in Threads |-> FALSE]
    /\ signalled = FALSE /\ sinceKey = Timeout /\ disturbed = TRUE

Subjects == {"guard", "quickshell", "brightness", "flashbang", "status", "installer",
             "compositor", "tablet"}

SmInit ==
    /\ subject \in Subjects
    /\ IF subject = "guard" THEN GuardInit ELSE GuardOff
    /\ IF subject = "quickshell" THEN QsInit ELSE QsOff
    /\ IF subject = "brightness" THEN BrInit ELSE BrOff
    /\ IF subject = "flashbang" THEN FbInit ELSE FbOff
    /\ IF subject = "status" THEN StInit ELSE StOff
    /\ IF subject = "installer" THEN InInit ELSE InOff
    /\ IF subject = "compositor" THEN CsInit ELSE CsOff
    /\ IF subject = "tablet" THEN WatchedInit ELSE TmOff

Only(s) == subject = s /\ UNCHANGED subject

SmNext ==
    \/ Only("guard") /\ GuardNext
       /\ UNCHANGED <<qsVars, brVars, fbVars, stVars, inVars, csVars, tmVars, disturbed>>
    \/ Only("quickshell") /\ QsNext
       /\ UNCHANGED <<guardVars, brVars, fbVars, stVars, inVars, csVars, tmVars, disturbed>>
    \/ Only("brightness") /\ BrNext
       /\ UNCHANGED <<guardVars, qsVars, fbVars, stVars, inVars, csVars, tmVars, disturbed>>
    \/ Only("flashbang") /\ FbNext
       /\ UNCHANGED <<guardVars, qsVars, brVars, stVars, inVars, csVars, tmVars, disturbed>>
    \/ Only("status") /\ StNext
       /\ UNCHANGED <<guardVars, qsVars, brVars, fbVars, inVars, csVars, tmVars, disturbed>>
    \/ Only("installer") /\ InNext
       /\ UNCHANGED <<guardVars, qsVars, brVars, fbVars, stVars, csVars, tmVars, disturbed>>
    \/ Only("compositor") /\ CsNext
       /\ UNCHANGED <<guardVars, qsVars, brVars, fbVars, stVars, inVars, tmVars, disturbed>>
    \/ Only("tablet") /\ MCNext
       /\ UNCHANGED <<guardVars, qsVars, brVars, fbVars, stVars, inVars, csVars>>

\* Each liveness property states the fairness of its subject.
SmSpec == SmInit /\ [][SmNext]_smaller
=============================================================================
