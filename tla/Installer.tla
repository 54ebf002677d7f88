----------------------------- MODULE Installer -----------------------------
(***************************************************************************)
(* snry-daemon setup (internal/manager): the packages, the system's setup, *)
(* the runtime dependencies and the configuration files, one step after    *)
(* another, each a few tasks that leave something on the disk.  A command  *)
(* may fail, the machine may stop in the middle of any task, a signal may  *)
(* cancel the run, and the user runs it again.  A few tasks report success *)
(* with nothing done.  This is an installation on Arch from a source tree, *)
(* where what steps look for in the tree is there.                         *)
(***************************************************************************)
EXTENDS Naturals, Sequences

CONSTANT Mishaps    \* bound on failed commands, steps passed over, crashes, signals and
                    \* uninstallations

VARIABLES
    step, task, \* the one under way
    outcome,    \* of the latest run: none, running, failed, done
    interrupted, \* a signal has cancelled its context
    installed,  \* [artefact -> absent | partial | whole]
    forgone,    \* history: what the latest run has passed over in silence
    mishaps

inVars == <<step, task, outcome, interrupted, installed, forgone, mishaps>>

\* How a task writes: beside its target and then over it, as a package manager and
\* CopyFile do; in place; in place after RemoveAll; only if nothing is there; so, and with
\* its error ignored.
Task(how, makes, needs) == [how |-> how, makes |-> makes, needs |-> needs]

\* A step is skipped when the artefact it is for exists.  An optional one, or one whose
\* error is only printed, lets Setup go on.
Step(phase, fatal, unless, tasks) ==
    [phase |-> phase, fatal |-> fatal, unless |-> unless, tasks |-> tasks]
Always == "nothing"

(* Packages (arch).  UpdateSystem leaves nothing that another step looks for. *)

BuildMicroTeX ==
    Step("deps", FALSE, "microtex", <<Task("fresh", "microtexBuild", {}),
                                      Task("replace", "microtex", {"microtexBuild"})>>)
InstallBuildDeps == Task("replace", "base-devel", {})
EnsureParu ==
    Step("deps", TRUE, "paru", <<InstallBuildDeps, Task("fresh", "paruBuild", {"base-devel"}),
                                 Task("replace", "paru", {"paruBuild"})>>)
InstallPackages == Step("deps", TRUE, Always, <<Task("replace", "packages", {"paru"})>>)

DepsSteps == <<BuildMicroTeX, EnsureParu, InstallPackages>>

(* The system's setup.  Groups and PAM only warn, and the keyring's lines  *)
(* are added whether PAM's file was there or not; what enables services,   *)
(* disables display managers and sets preferences cannot fail.             *)

SetupGroups == Step("setup", FALSE, Always, <<Task("inPlace", "modules", {})>>)
SetupTTYAutologin == Step("setup", TRUE, Always, <<Task("inPlace", "getty", {})>>)
SetupPAM ==
    Step("setup", FALSE, Always, <<Task("ignored", "pam", {}), Task("inPlace", "keyring", {})>>)
SetupLogind == Step("setup", TRUE, Always, <<Task("inPlace", "logind", {})>>)
SetZshDefault == Step("setup", TRUE, Always, <<Task("replace", "shell", {"packages"})>>)

SetupSteps == <<SetupGroups, SetupTTYAutologin, SetupPAM, SetupLogind, SetZshDefault>>

(* The runtime dependencies.  ninja needs what meson has configured; uv    *)
(* writes the script that InstallPythonVenv looks for before it is done.   *)

InstallDaemonBinary == Step("install", TRUE, Always, <<Task("inPlace", "binary", {"packages"})>>)
InstallHyprgrass ==
    Step("install", FALSE, "hyprgrass",
         <<Task("ifAbsent", "hyprgrassSource", {}),
           Task("ifAbsent", "hyprgrassBuild", {"hyprgrassSource"}),
           Task("replace", "hyprgrass", {"hyprgrassBuild"})>>)
InstallGoogleSansFlex ==
    Step("install", FALSE, "font", <<Task("ifAbsent", "fontSource", {}),
                                     Task("mirror", "font", {"fontSource"})>>)
InstallIcon == Step("install", TRUE, Always, <<Task("replace", "icon", {})>>)
EnsureSnrySymlink == Step("install", TRUE, "symlink", <<Task("replace", "symlink", {})>>)
InstallPythonVenv ==
    Step("install", TRUE, Always, <<Task("ifAbsent", "venv", {"packages"}),
                                    Task("inPlace", "pythonPackages", {"venv"})>>)
MarkFirstrun == Step("install", TRUE, Always, <<Task("inPlace", "firstrun", {})>>)
DeploySystemdUnit == Step("install", TRUE, Always, <<Task("replace", "unit", {})>>)

InstallSteps == <<InstallDaemonBinary, InstallHyprgrass, InstallGoogleSansFlex, InstallIcon,
                  EnsureSnrySymlink, InstallPythonVenv, MarkFirstrun, DeploySystemdUnit>>

(* The configuration.  What RunSmartSync writes goes through SyncEngine.   *)

EnsureManifest == Step("files", TRUE, "manifest", <<Task("replace", "manifest", {})>>)
BackupConfigs == Step("files", FALSE, Always, <<Task("inPlace", "backup", {})>>)
RunSmartSync(files) == Task("replace", files, {"manifest"})

\* Bug: what an earlier run has extracted is taken as it is.
SyncQuickshellCached ==
    Step("files", TRUE, Always, <<Task("ifAbsent", "extractedFrontend", {}),
                                  Task("replace", "frontend", {"extractedFrontend", "manifest"})>>)

SyncQuickshell ==
    Step("files", TRUE, Always, <<Task("fresh", "extractedFrontend", {}),
                                  Task("replace", "frontend", {"extractedFrontend", "manifest"})>>)
SyncHyprland ==
    Step("files", TRUE, Always, <<Task("ignored", "override", {}),
                                  Task("inPlace", "generatedFiles", {})>>)
SyncBash == Step("files", TRUE, Always, <<RunSmartSync("bash")>>)
SyncFontconfig == Step("files", TRUE, Always, <<RunSmartSync("fontconfig")>>)
SyncMiscConfigs == Step("files", TRUE, Always, <<RunSmartSync("misc")>>)

FilesSteps == <<EnsureManifest, BackupConfigs, SyncQuickshell, SyncHyprland, SyncBash,
                SyncFontconfig, SyncMiscConfigs>>

Steps == DepsSteps \o SetupSteps \o InstallSteps \o FilesSteps

Makes(s) == {s.tasks[j].makes : j \in DOMAIN s.tasks}
Artefact == UNION {Makes(Steps[i]) : i \in DOMAIN Steps}

\* What a step's error is about, and Setup's.
Heeded(s) == {s.tasks[j].makes : j \in {k \in DOMAIN s.tasks : s.tasks[k].how # "ignored"}}
FatalArtefact == UNION {Heeded(Steps[i]) : i \in {k \in DOMAIN Steps : Steps[k].fatal}}

\* /tmp/build-microtex, /tmp/buildparu: deferred RemoveAll.
Scratch == {"microtexBuild", "paruBuild"}

InInit ==
    /\ step = 0 /\ task = 0 /\ outcome = "none" /\ interrupted = FALSE
    /\ \E paru \in {"absent", "whole"} :
         installed = [a \in Artefact |-> IF a = "paru" THEN paru ELSE "absent"]
    /\ forgone = {}
    /\ mishaps = Mishaps

Mishap == mishaps > 0 /\ mishaps' = mishaps - 1
Swept(d) == [a \in Artefact |-> IF a \in Scratch THEN "absent" ELSE d[a]]

----------------------------------------------------------------------------

\* Setup, from the command line.
Begin ==
    /\ outcome # "running"
    /\ outcome' = "running" /\ interrupted' = FALSE
    /\ step' = 1 /\ task' = 1 /\ forgone' = {}
    /\ UNCHANGED <<installed, mishaps>>

\* A step is over, and the run, each with its scratch directory.
Advance(d) == step' = step + 1 /\ task' = 1 /\ installed' = Swept(d)
Stop(how) == outcome' = how /\ step' = 0 /\ task' = 0

Current == Steps[step]
AllTried == step > Len(Steps)

\* RunSteps looks at the context before each step: it returns what it has, without an
\* error, and so do the phases that follow.
GivenUp == task = 1 /\ interrupted /\ Current.phase # "deps"

ReturnsNil ==
    /\ outcome = "running" /\ (IF AllTried THEN TRUE ELSE GivenUp)
    /\ Stop("done")
    /\ UNCHANGED <<interrupted, installed, forgone, mishaps>>

\* A step has nothing to do, or no more.
Over == \/ task > Len(Current.tasks)
        \/ task = 1 /\ Current.unless # Always /\ installed[Current.unless] # "absent"

Working == outcome = "running" /\ ~AllTried /\ ~GivenUp

EndStep ==
    /\ Working /\ Over
    /\ Advance(installed)
    /\ UNCHANGED <<outcome, interrupted, forgone, mishaps>>

Trying == Working /\ ~Over
Doing == Current.tasks[task]

\* What a task makes: rsync copies what there is of its source.
Made(t) == IF t.how = "mirror" THEN installed["fontSource"] ELSE "whole"
Met(t) == t.how = "mirror" \/ \A a \in t.needs : installed[a] = "whole"
Kept(t) == t.how \in {"ifAbsent", "ignored"} /\ installed[t.makes] # "absent"

\* Success with the rest of the step left undone: MkdirAll may not make the directory of
\* the frontend, which is taken for deployed; Hyprland does not run or shows no monitors;
\* uv, one of the packages, is not found.
MayPassOver(a) == \/ a = "frontend" /\ installed[a] = "absent"
                  \/ a \in {"generatedFiles", "venv"}

PassOver ==
    /\ Trying /\ MayPassOver(Doing.makes) /\ Mishap
    /\ forgone' = forgone \cup {Current.tasks[j].makes : j \in task..Len(Current.tasks)}
    /\ Advance(installed)
    /\ UNCHANGED <<outcome, interrupted>>

TaskDone ==
    /\ Trying
    /\ Kept(Doing) \/ Met(Doing)
    /\ installed' = IF Kept(Doing) THEN installed
                    ELSE [installed EXCEPT ![Doing.makes] = Made(Doing)]
    /\ task' = task + 1
    /\ UNCHANGED <<step, outcome, interrupted, forgone, mishaps>>

\* What a task that does not end well leaves.
Left(t) ==
    {installed} \cup (IF t.how = "replace" \/ Kept(t) THEN {}
                 ELSE {[installed EXCEPT ![t.makes] = "partial"]})

\* Bug: a step that fails is passed over, an optional one or not.
TaskFailsPressingOn ==
    /\ Trying /\ ~Kept(Doing)
    /\ IF Met(Doing) /\ ~interrupted THEN Mishap ELSE UNCHANGED mishaps
    /\ \E d \in Left(Doing) : Advance(d)
    /\ UNCHANGED <<outcome, interrupted, forgone>>

\* A command that cannot run, is refused, or is killed with the context.
TaskFails ==
    /\ Trying /\ ~Kept(Doing)
    /\ IF Met(Doing) /\ ~interrupted THEN Mishap ELSE UNCHANGED mishaps
    /\ \E d \in Left(Doing) :
         IF Doing.how = "ignored"
         THEN task' = task + 1 /\ installed' = d /\ UNCHANGED <<step, outcome>>
         ELSE IF Current.fatal THEN Stop("failed") /\ installed' = Swept(d)
         ELSE Advance(d) /\ UNCHANGED outcome
    /\ UNCHANGED <<interrupted, forgone>>

\* The machine stops: nothing is swept.
Crash ==
    /\ Trying /\ Mishap
    /\ installed' \in Left(Doing)
    /\ Stop("failed")
    /\ UNCHANGED <<interrupted, forgone>>

Interrupt ==
    /\ outcome = "running" /\ ~interrupted /\ Mishap /\ interrupted' = TRUE
    /\ UNCHANGED <<step, task, outcome, installed, forgone>>

\* installed_listfile names the marker of the first run alone; the module file goes with
\* the groups.
Uninstall ==
    /\ outcome \in {"failed", "done"} /\ Mishap
    /\ installed' = [installed EXCEPT !["firstrun"] = "absent", !["modules"] = "absent"]
    /\ outcome' = "none"
    /\ UNCHANGED <<step, task, interrupted, forgone>>

InNext == \/ Begin \/ ReturnsNil \/ EndStep \/ TaskDone \/ PassOver \/ TaskFails \/ Crash
          \/ Interrupt \/ Uninstall

\* A user whose setup failed runs it again.
InFairness == WF_inVars(ReturnsNil \/ EndStep \/ TaskDone \/ PassOver \/ TaskFails)
              /\ WF_inVars(outcome # "done" /\ Begin)

(***************************************************************************)
(* A run that reports success, and was not interrupted, leaves whole what  *)
(* Setup insists on, whatever earlier runs left half done: all that its    *)
(* steps report an error about, but for what this very run has passed over *)
(* in silence, which are no other than the frontend whose directory may    *)
(* not be made, the files generated for a running Hyprland and the Python  *)
(* environment of a missing uv.                                            *)
(***************************************************************************)
CompleteIsWhole ==
    outcome = "done" /\ ~interrupted =>
        /\ \A a \in FatalArtefact \ (Scratch \cup {"base-devel"} \cup forgone) :
              installed[a] = "whole"
        /\ forgone \subseteq {"frontend", "generatedFiles", "venv", "pythonPackages"}

(***************************************************************************)
(* No step that was cut short at any point stands in the way of the next   *)
(* run, except a Python environment that looks finished and is not.        *)
(***************************************************************************)
SetupConverges ==
    InFairness =>
      outcome = "failed" ~> outcome \in {"none", "done"} \/ installed["venv"] = "partial"
=============================================================================
