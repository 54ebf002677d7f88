--------------------------- MODULE ServicesProofs ---------------------------
(***************************************************************************)
(* What the smaller services and the installer keep, for every value of    *)
(* their constants: the restart limit of QuickshellSupervisor; what a      *)
(* successful run of Installer leaves; how CompositorSetup splits the      *)
(* workspaces; the safety halves of what FileGuard, AntiFlashbang,         *)
(* Brightness and StatusService reach in the end.                          *)
(***************************************************************************)
EXTENDS FileGuard, QuickshellSupervisor, Brightness, AntiFlashbang, StatusService,
        Installer, CompositorSetup, FiniteSetTheorems, SequenceTheorems, TLAPS

QsSpec == QsInit /\ [][QsNext]_qsVars

\* The count never runs ahead of the short runs it counts by more than the one that is
\* counted with the reset, and Run leaves its loop for two reasons only.
Counted ==
    /\ restarts \in Nat /\ runs \in Nat
    /\ restarts <= runs + 1
    /\ at = "done" => stopped \/ restarts > MaxRestarts

LEMMA InitCounted == QsInit => Counted
BY DEF QsInit, Counted

\* The steps that touch neither counter.
LEMMA OthersKeep ==
  ASSUME Counted, UNCHANGED <<restarts, runs>>, stopped => stopped',
         at' = "done" => at = "done" \/ stopped
  PROVE  Counted'
BY DEF Counted

LEMMA CountKeeps == Counted /\ Count => Counted'
<1> SUFFICES ASSUME Counted, Count
             PROVE  Counted'
  OBVIOUS
<1> USE LimitAssumption DEF Counted, Count
<1>1. CASE stopped
  BY <1>1
<1>2. CASE ~stopped /\ long
  BY <1>2
<1>3. CASE ~stopped /\ ~long
  BY <1>3
<1> QED
  BY <1>1, <1>2, <1>3

LEMMA NextCounted == Counted /\ [QsNext]_qsVars => Counted'
<1> SUFFICES ASSUME Counted, [QsNext]_qsVars
             PROVE  Counted'
  OBVIOUS
<1>1. CASE Count
  BY <1>1, CountKeeps
<1>2. CASE NewCmd
  BY <1>2, OthersKeep DEF NewCmd
<1>3. CASE Delayed \/ StartQs \/ TenSeconds \/ QsEnds
  BY <1>3, OthersKeep DEF Delayed, StartQs, TenSeconds, QsEnds
<1>4. CASE KillQs \/ Killed \/ StopQs
  BY <1>4, OthersKeep DEF KillQs, Killed, StopQs
<1>5. CASE QsDone \/ UNCHANGED qsVars
  BY <1>5, OthersKeep DEF QsDone, qsVars
<1> QED
  BY <1>1, <1>2, <1>3, <1>4, <1>5 DEF QsNext

\* Whatever kills, stops and long runs come between its ends, the supervisor gives up only
\* after MaxRestarts short runs in a row.
THEOREM GivenUpForCause == QsSpec => []GivesUpForCause
<1>1. Counted => GivesUpForCause
  BY LimitAssumption DEF Counted, GivesUpForCause
<1> QED
  BY <1>1, InitCounted, NextCounted, PTL DEF QsSpec

----------------------------------------------------------------------------
(* The steps of Setup.                                                     *)

InSpec == InInit /\ [][InNext]_inVars

\* What a step is skipped for, if Setup insists on the step.
Skipping == {"paru", "symlink", "manifest"}

Excused == Scratch \cup {"base-devel"}

\* What fatal steps report an error about, and what the others make, or in silence.
Insisted == {"base-devel", "paruBuild", "paru", "packages", "getty", "logind", "shell",
             "binary", "icon", "symlink", "venv", "pythonPackages", "firstrun", "unit",
             "manifest", "extractedFrontend", "frontend", "generatedFiles", "bash",
             "fontconfig", "misc"}
Optional == {"microtexBuild", "microtex", "modules", "pam", "keyring", "hyprgrassSource",
             "hyprgrassBuild", "hyprgrass", "fontSource", "font", "backup", "override"}

\* Where a step may be passed over, and what a run then does without.
Passable == {"frontend", "generatedFiles", "venv"}
Dispensable == Passable \cup {"pythonPackages"}

LEMMA Disjoint == \A a \in Optional : a \notin Insisted /\ a \notin Skipping
  BY DEF Optional, Insisted, Skipping

\* A task that keeps what is there is followed by one that needs it whole; what a step is
\* skipped for is never written in place, and nothing else of the step is needed later.
SoundTask(f, h, m) ==
  /\ m \in Skipping => h = "replace"
  /\ IF f /\ h # "ignored" THEN m \in Insisted /\ h # "mirror" ELSE m \in Optional

Skips(f, u, m) == f /\ u # Always => u \in Skipping /\ m \in Excused \cup {u}

SoundStep(s) ==
  /\ s.fatal \in BOOLEAN /\ Len(s.tasks) \in Nat /\ DOMAIN s.tasks = 1..Len(s.tasks)
  /\ \A j \in 1..Len(s.tasks) :
       /\ SoundTask(s.fatal, s.tasks[j].how, s.tasks[j].makes)
       /\ Skips(s.fatal, s.unless, s.tasks[j].makes)
  /\ s.fatal => \A j \in 1..Len(s.tasks) : s.tasks[j].how = "ifAbsent" =>
       /\ j < Len(s.tasks) /\ s.tasks[j + 1].how \notin {"ifAbsent", "ignored"}
       /\ s.tasks[j].makes \in s.tasks[j + 1].needs
       /\ s.tasks[j + 1].makes \notin Passable
  /\ \A j \in 1..Len(s.tasks) : s.tasks[j].makes \in Passable =>
       \A k \in 1..Len(s.tasks) : j <= k => s.tasks[k].makes \in Dispensable

LEMMA OneTask ==
  ASSUME NEW p, NEW f \in BOOLEAN, NEW u, NEW h, NEW m, NEW n,
         SoundTask(f, h, m), f => h # "ifAbsent", Skips(f, u, m)
  PROVE  SoundStep(Step(p, f, u, <<Task(h, m, n)>>))
<1> DEFINE s == Step(p, f, u, <<Task(h, m, n)>>)
<1>1. /\ Len(s.tasks) = 1 /\ DOMAIN s.tasks = 1..1 /\ s.fatal = f /\ s.unless = u
      /\ \A j \in 1..1 : s.tasks[j].how = h /\ s.tasks[j].makes = m
  BY DEF Step, Task
<1> HIDE DEF s
<1>2. \A j \in 1..Len(s.tasks) : /\ SoundTask(s.fatal, s.tasks[j].how, s.tasks[j].makes)
                                 /\ Skips(s.fatal, s.unless, s.tasks[j].makes)
  BY <1>1, Zenon
<1>3. s.fatal => \A j \in 1..Len(s.tasks) : s.tasks[j].how # "ifAbsent"
  BY <1>1, Zenon
<1>4. s.fatal \in BOOLEAN /\ Len(s.tasks) \in Nat /\ DOMAIN s.tasks = 1..Len(s.tasks)
  <2>1. 1 \in Nat
    OBVIOUS
  <2> QED
    BY <1>1, <2>1, Zenon
<1>5. \A j \in 1..Len(s.tasks) : s.tasks[j].makes \in Passable =>
        \A k \in 1..Len(s.tasks) : j <= k => s.tasks[k].makes \in Dispensable
  BY <1>1, Zenon DEF Dispensable
<1>6. SoundStep(s)
  BY <1>2, <1>3, <1>4, <1>5, Zenon DEF SoundStep
<1> QED
  BY <1>6 DEF s

LEMMA TwoTasks ==
  ASSUME NEW p, NEW f \in BOOLEAN, NEW u, NEW h, NEW m, NEW n, NEW i, NEW l, NEW o,
         SoundTask(f, h, m), f /\ h = "ifAbsent" => m \in o, Skips(f, u, m),
         SoundTask(f, i, l), f => i # "ifAbsent", Skips(f, u, l),
         f /\ h = "ifAbsent" => i # "ignored" /\ l \notin Passable,
         m \in Passable => l \in Dispensable
  PROVE  SoundStep(Step(p, f, u, <<Task(h, m, n), Task(i, l, o)>>))
<1> DEFINE s == Step(p, f, u, <<Task(h, m, n), Task(i, l, o)>>)
<1>1. /\ Len(s.tasks) = 2 /\ DOMAIN s.tasks = 1..2 /\ s.fatal = f /\ s.unless = u
      /\ s.tasks[1].how = h /\ s.tasks[1].makes = m
      /\ s.tasks[2].how = i /\ s.tasks[2].makes = l /\ s.tasks[2].needs = o
  BY DEF Step, Task
<1>2. /\ 2 \in Nat /\ 1 < 2 /\ 1 + 1 = 2
      /\ \A j \in 1..2 : j = 1 \/ j = 2
  OBVIOUS
<1> HIDE DEF s
<1>3. \A j \in 1..Len(s.tasks) : /\ SoundTask(s.fatal, s.tasks[j].how, s.tasks[j].makes)
                                 /\ Skips(s.fatal, s.unless, s.tasks[j].makes)
  BY <1>1, <1>2, Zenon
<1>4. ASSUME s.fatal, NEW j \in 1..Len(s.tasks), s.tasks[j].how = "ifAbsent"
      PROVE  /\ j < Len(s.tasks) /\ s.tasks[j + 1].how \notin {"ifAbsent", "ignored"}
             /\ s.tasks[j].makes \in s.tasks[j + 1].needs
             /\ s.tasks[j + 1].makes \notin Passable
  <2>1. j = 1
    BY <1>1, <1>2, <1>4, Zenon
  <2> QED
    BY <1>1, <1>2, <1>4, <2>1, Zenon
<1>5. s.fatal \in BOOLEAN /\ Len(s.tasks) \in Nat /\ DOMAIN s.tasks = 1..Len(s.tasks)
  BY <1>1, <1>2, Zenon
<1>6. ASSUME NEW j \in 1..Len(s.tasks), s.tasks[j].makes \in Passable,
             NEW k \in 1..Len(s.tasks), j <= k
      PROVE  s.tasks[k].makes \in Dispensable
  <2>1. CASE j = k
    BY <1>6, <2>1, Zenon DEF Dispensable
  <2>2. CASE j # k
    <3>1. j = 1 /\ k = 2
      BY <1>1, <1>6, <2>2
    <3> QED
      BY <1>1, <1>6, <3>1, Zenon
  <2> QED
    BY <2>1, <2>2
<1>7. SoundStep(s)
  BY <1>3, <1>4, <1>5, <1>6, Zenon DEF SoundStep
<1> QED
  BY <1>7 DEF s

LEMMA ThreeTasks ==
  ASSUME NEW p, NEW f \in BOOLEAN, NEW u, NEW h, NEW m, NEW n, NEW i, NEW l, NEW o,
         NEW g, NEW k, NEW q,
         SoundTask(f, h, m), f => h # "ifAbsent", Skips(f, u, m),
         SoundTask(f, i, l), f => i # "ifAbsent", Skips(f, u, l),
         SoundTask(f, g, k), f => g # "ifAbsent", Skips(f, u, k),
         {m, l, k} \cap Passable = {}
  PROVE  SoundStep(Step(p, f, u, <<Task(h, m, n), Task(i, l, o), Task(g, k, q)>>))
<1> DEFINE s == Step(p, f, u, <<Task(h, m, n), Task(i, l, o), Task(g, k, q)>>)
<1>1. /\ Len(s.tasks) = 3 /\ DOMAIN s.tasks = 1..3 /\ s.fatal = f /\ s.unless = u
      /\ s.tasks[1].how = h /\ s.tasks[1].makes = m
      /\ s.tasks[2].how = i /\ s.tasks[2].makes = l
      /\ s.tasks[3].how = g /\ s.tasks[3].makes = k
  BY DEF Step, Task
<1>2. 3 \in Nat /\ \A j \in 1..3 : j = 1 \/ j = 2 \/ j = 3
  OBVIOUS
<1> HIDE DEF s
<1>3. \A j \in 1..Len(s.tasks) : /\ SoundTask(s.fatal, s.tasks[j].how, s.tasks[j].makes)
                                 /\ Skips(s.fatal, s.unless, s.tasks[j].makes)
  BY <1>1, <1>2, Zenon
<1>4. s.fatal => \A j \in 1..Len(s.tasks) : s.tasks[j].how # "ifAbsent"
  BY <1>1, <1>2, Zenon
<1>5. s.fatal \in BOOLEAN /\ Len(s.tasks) \in Nat /\ DOMAIN s.tasks = 1..Len(s.tasks)
  BY <1>1, <1>2, Zenon
<1>7. \A j \in 1..Len(s.tasks) : s.tasks[j].makes \notin Passable
  <2>1. m \notin Passable /\ l \notin Passable /\ k \notin Passable
    BY Zenon
  <2> QED
    BY <1>1, <1>2, <2>1, Zenon
<1>6. SoundStep(s)
  BY <1>3, <1>4, <1>5, <1>7, Zenon DEF SoundStep
<1> QED
  BY <1>6 DEF s

LEMMA DepsSound == \A s \in {BuildMicroTeX, EnsureParu, InstallPackages} : SoundStep(s)
<1> USE DEF SoundTask, Skips, Skipping, Excused, Scratch, Insisted, Optional, Always,
        Passable, Dispensable
<1>1. SoundStep(BuildMicroTeX)
  BY TwoTasks DEF BuildMicroTeX
<1>2. SoundStep(EnsureParu)
  BY ThreeTasks DEF EnsureParu, InstallBuildDeps
<1>3. SoundStep(InstallPackages)
  BY OneTask DEF InstallPackages
<1> QED
  BY <1>1, <1>2, <1>3, Zenon

LEMMA SetupSound ==
  \A s \in {SetupGroups, SetupTTYAutologin, SetupPAM, SetupLogind, SetZshDefault} : SoundStep(s)
<1> USE DEF SoundTask, Skips, Skipping, Excused, Scratch, Insisted, Optional, Always,
        Passable, Dispensable
<1>1. SoundStep(SetupGroups)
  BY OneTask DEF SetupGroups
<1>2. SoundStep(SetupTTYAutologin)
  BY OneTask DEF SetupTTYAutologin
<1>3. SoundStep(SetupPAM)
  BY TwoTasks DEF SetupPAM
<1>4. SoundStep(SetupLogind)
  BY OneTask DEF SetupLogind
<1>5. SoundStep(SetZshDefault)
  BY OneTask DEF SetZshDefault
<1> QED
  BY <1>1, <1>2, <1>3, <1>4, <1>5, Zenon

LEMMA InstallSound ==
  \A s \in {InstallDaemonBinary, InstallHyprgrass, InstallGoogleSansFlex, InstallIcon,
            EnsureSnrySymlink, InstallPythonVenv, MarkFirstrun, DeploySystemdUnit} :
    SoundStep(s)
<1> USE DEF SoundTask, Skips, Skipping, Excused, Scratch, Insisted, Optional, Always,
        Passable, Dispensable
<1>1. SoundStep(InstallDaemonBinary)
  BY OneTask DEF InstallDaemonBinary
<1>2. SoundStep(InstallHyprgrass)
  BY ThreeTasks DEF InstallHyprgrass
<1>3. SoundStep(InstallGoogleSansFlex)
  BY TwoTasks DEF InstallGoogleSansFlex
<1>4. SoundStep(InstallIcon)
  BY OneTask DEF InstallIcon
<1>5. SoundStep(EnsureSnrySymlink)
  BY OneTask DEF EnsureSnrySymlink
<1>6. SoundStep(InstallPythonVenv)
  BY TwoTasks DEF InstallPythonVenv
<1>7. SoundStep(MarkFirstrun)
  BY OneTask DEF MarkFirstrun
<1>8. SoundStep(DeploySystemdUnit)
  BY OneTask DEF DeploySystemdUnit
<1> QED
  BY <1>1, <1>2, <1>3, <1>4, <1>5, <1>6, <1>7, <1>8, Zenon

LEMMA FilesSound ==
  \A s \in {EnsureManifest, BackupConfigs, SyncQuickshell, SyncHyprland, SyncBash,
            SyncFontconfig, SyncMiscConfigs} : SoundStep(s)
<1> USE DEF SoundTask, Skips, Skipping, Excused, Scratch, Insisted, Optional, Always,
        Passable, Dispensable, RunSmartSync
<1>1. SoundStep(EnsureManifest)
  BY OneTask DEF EnsureManifest
<1>2. SoundStep(BackupConfigs)
  BY OneTask DEF BackupConfigs
<1>3. SoundStep(SyncQuickshell)
  BY TwoTasks DEF SyncQuickshell
<1>4. SoundStep(SyncHyprland)
  BY TwoTasks DEF SyncHyprland
<1>5. SoundStep(SyncBash)
  BY OneTask DEF SyncBash
<1>6. SoundStep(SyncFontconfig)
  BY OneTask DEF SyncFontconfig
<1>7. SoundStep(SyncMiscConfigs)
  BY OneTask DEF SyncMiscConfigs
<1> QED
  BY <1>1, <1>2, <1>3, <1>4, <1>5, <1>6, <1>7, Zenon

\* All the steps are sound.
LEMMA StepsSound ==
  /\ Len(Steps) \in Nat /\ DOMAIN Steps = 1..Len(Steps)
  /\ \A n \in DOMAIN Steps : SoundStep(Steps[n])
<1> DEFINE Phase(q) == Len(q) \in Nat /\ DOMAIN q = 1..Len(q)
                       /\ \A n \in 1..Len(q) : SoundStep(q[n])
<1>1. Phase(DepsSteps)
  <2>1. Len(DepsSteps) = 3 /\ DOMAIN DepsSteps = 1..3
        /\ \A n \in 1..3 : DepsSteps[n] \in {BuildMicroTeX, EnsureParu, InstallPackages}
    BY DEF DepsSteps
  <2> QED
    BY <2>1, DepsSound
<1>2. Phase(SetupSteps)
  <2>1. Len(SetupSteps) = 5 /\ DOMAIN SetupSteps = 1..5
        /\ \A n \in 1..5 : SetupSteps[n] \in {SetupGroups, SetupTTYAutologin, SetupPAM,
                                             SetupLogind, SetZshDefault}
    BY DEF SetupSteps
  <2> QED
    BY <2>1, SetupSound
<1>3. Phase(InstallSteps)
  <2>1. Len(InstallSteps) = 8 /\ DOMAIN InstallSteps = 1..8
        /\ \A n \in 1..8 : InstallSteps[n] \in
             {InstallDaemonBinary, InstallHyprgrass, InstallGoogleSansFlex, InstallIcon,
              EnsureSnrySymlink, InstallPythonVenv, MarkFirstrun, DeploySystemdUnit}
    BY DEF InstallSteps
  <2> QED
    BY <2>1, InstallSound
<1>4. Phase(FilesSteps)
  <2>1. Len(FilesSteps) = 7 /\ DOMAIN FilesSteps = 1..7
        /\ \A n \in 1..7 : FilesSteps[n] \in
             {EnsureManifest, BackupConfigs, SyncQuickshell, SyncHyprland, SyncBash,
              SyncFontconfig, SyncMiscConfigs}
    BY DEF FilesSteps
  <2> QED
    BY <2>1, FilesSound
<1>5. ASSUME NEW q, NEW r, Phase(q), Phase(r) PROVE Phase(q \o r)
  <2>1. /\ Len(q \o r) = Len(q) + Len(r) /\ DOMAIN (q \o r) = 1..Len(q \o r)
        /\ \A n \in 1..Len(q \o r) : (q \o r)[n] = IF n <= Len(q) THEN q[n] ELSE r[n - Len(q)]
    BY <1>5 DEF \o
  <2>2. \A n \in 1..Len(q \o r) : n \in 1..Len(q) \/ n - Len(q) \in 1..Len(r)
    BY <1>5, <2>1
  <2> QED
    BY <1>5, <2>1, <2>2
<1> HIDE DEF Phase
<1>6. Phase(Steps)
  BY <1>1, <1>2, <1>3, <1>4, <1>5 DEF Steps
<1> QED
  BY <1>6 DEF Phase

----------------------------------------------------------------------------
(* A run.                                                                  *)

\* Everything that the fatal ones of the first n steps insist on is whole, or this run has
\* passed it over.
WholeUpTo(n) ==
  \A i \in 1..n : i \in DOMAIN Steps /\ Steps[i].fatal =>
    \A a \in Heeded(Steps[i]) \ (Excused \cup forgone) : installed[a] = "whole"

\* So is what the tasks of the step under way have made, but for one that has just kept
\* what was there and for those whose error is ignored.
WholeInStep ==
  step \in DOMAIN Steps /\ Current.fatal =>
    \A j \in 1..(task - 1) : j \in DOMAIN Current.tasks =>
      \/ installed[Current.tasks[j].makes] = "whole"
      \/ j = task - 1 /\ Current.tasks[j].how = "ifAbsent"
      \/ Current.tasks[j].how = "ignored"

SkippedIsWhole == \A a \in Skipping \cap Artefact : installed[a] \in {"absent", "whole"}

RunOK ==
  /\ step \in Nat /\ task \in Nat
  /\ DOMAIN installed = Artefact
  /\ forgone \subseteq Dispensable
  /\ outcome = "running" => step >= 1 /\ task >= 1

InstallInv ==
  /\ RunOK
  /\ SkippedIsWhole
  /\ outcome = "running" => WholeUpTo(step - 1) /\ WholeInStep
  /\ CompleteIsWhole

LEMMA InitInstallInv == InInit => InstallInv
<1> SUFFICES ASSUME InInit
             PROVE  InstallInv
  OBVIOUS
<1>1. PICK paru \in {"absent", "whole"} :
        installed = [a \in Artefact |-> IF a = "paru" THEN paru ELSE "absent"]
  BY DEF InInit
<1>2. step = 0 /\ task = 0 /\ outcome = "none" /\ forgone = {}
  BY DEF InInit
<1>3. DOMAIN installed = Artefact /\ \A a \in Artefact : installed[a] \in {"absent", "whole"}
  BY <1>1
<1> QED
  BY <1>2, <1>3 DEF InstallInv, RunOK, SkippedIsWhole, CompleteIsWhole

\* A task of the step under way.
LEMMA TaskUnderWay ==
  ASSUME InstallInv, Trying
  PROVE  /\ step \in DOMAIN Steps /\ SoundStep(Current) /\ Current = Steps[step]
         /\ task \in 1..Len(Current.tasks) /\ Doing = Current.tasks[task]
         /\ Doing.makes \in Makes(Current) /\ Doing.makes \in Artefact
<1>1. /\ outcome = "running" /\ step \in Nat /\ task \in Nat /\ step >= 1 /\ task >= 1
      /\ ~(step > Len(Steps)) /\ ~(task > Len(Current.tasks))
  BY DEF InstallInv, RunOK, Trying, Working, Over, AllTried
<1>2. step \in DOMAIN Steps /\ SoundStep(Current)
  BY <1>1, StepsSound DEF Current
<1>3. task \in DOMAIN Current.tasks /\ task \in 1..Len(Current.tasks)
  BY <1>1, <1>2 DEF SoundStep
<1>4. Doing.makes \in Makes(Current)
  BY <1>3 DEF Doing, Makes
<1>5. Doing.makes \in Artefact
  BY <1>2, <1>4 DEF Artefact, Current
<1> QED
  BY <1>2, <1>3, <1>4, <1>5 DEF Doing, Current

\* The artefact of a task, and those a fatal step reports an error about.
LEMMA TaskMakes ==
  ASSUME NEW i \in DOMAIN Steps, NEW j \in DOMAIN Steps[i].tasks
  PROVE  Steps[i].tasks[j].makes \in Artefact
BY DEF Makes, Artefact

LEMMA FatalMakes ==
  ASSUME NEW i \in DOMAIN Steps, Steps[i].fatal, NEW a \in Heeded(Steps[i])
  PROVE  /\ a \in Artefact /\ a \in Insisted
         /\ \E j \in 1..Len(Steps[i].tasks) :
               a = Steps[i].tasks[j].makes /\ Steps[i].tasks[j].how # "ignored"
<1>1. PICK j \in DOMAIN Steps[i].tasks :
        a = Steps[i].tasks[j].makes /\ Steps[i].tasks[j].how # "ignored"
  BY DEF Heeded
<1>2. j \in 1..Len(Steps[i].tasks)
  BY <1>1, StepsSound DEF SoundStep
<1>3. a \in Insisted
  BY <1>1, <1>2, StepsSound DEF SoundStep, SoundTask
<1> QED
  BY <1>1, <1>2, <1>3, TaskMakes

\* A step of the daemon that leaves alone what fatal steps insist on, and what they are
\* skipped for.
Harmless(d) ==
  /\ DOMAIN d = Artefact
  /\ \A a \in Artefact : a \in Insisted \ Excused => d[a] = installed[a]
  /\ \A a \in Artefact : a \in Skipping => d[a] = installed[a]

\* What is whole stays so, and nothing that was passed over is taken back.
LEMMA HarmlessKeeps ==
  ASSUME InstallInv, NEW d, Harmless(d), NEW F, forgone \subseteq F, NEW n, WholeUpTo(n)
  PROVE  /\ \A a \in Skipping \cap Artefact : d[a] \in {"absent", "whole"}
         /\ \A i \in 1..n : i \in DOMAIN Steps /\ Steps[i].fatal =>
              \A a \in Heeded(Steps[i]) \ (Excused \cup F) : d[a] = "whole"
<1>1. \A a \in Skipping \cap Artefact : d[a] \in {"absent", "whole"}
  BY DEF InstallInv, SkippedIsWhole, Harmless
<1>2. ASSUME NEW i \in 1..n, i \in DOMAIN Steps, Steps[i].fatal,
             NEW a \in Heeded(Steps[i]) \ (Excused \cup F)
      PROVE  d[a] = "whole"
  <2>1. a \in Artefact /\ a \in Insisted \ Excused
    BY <1>2, FatalMakes
  <2>2. installed[a] = "whole"
    BY <1>2 DEF WholeUpTo
  <2> QED
    BY <2>1, <2>2 DEF Harmless
<1> QED
  BY <1>1, <1>2

LEMMA SweptHarmless ==
  ASSUME NEW d, Harmless(d)
  PROVE  Harmless(Swept(d))
<1>1. \A a \in Scratch : a \in Excused /\ a \notin Skipping
  BY DEF Excused, Scratch, Skipping
<1> QED
  BY <1>1 DEF Harmless, Swept

\* A step is over: what it insists on is whole or passed over.
LEMMA StepOver ==
  ASSUME InstallInv, outcome = "running", step \in DOMAIN Steps, outcome' = "running",
         step' = step + 1, task' = 1, installed' = Swept(installed),
         forgone \subseteq forgone', forgone' \subseteq Dispensable,
         Current.fatal =>
           \A a \in Heeded(Current) \ (Excused \cup forgone') : installed[a] = "whole"
  PROVE  InstallInv'
<1>1. step \in Nat /\ step >= 1 /\ DOMAIN installed = Artefact /\ WholeUpTo(step - 1)
  BY DEF InstallInv, RunOK
<1>2. Harmless(installed) /\ Harmless(installed')
  BY <1>1, SweptHarmless DEF Harmless
<1>3. /\ \A a \in Skipping \cap Artefact : installed'[a] \in {"absent", "whole"}
      /\ \A i \in 1..(step - 1) : i \in DOMAIN Steps /\ Steps[i].fatal =>
            \A a \in Heeded(Steps[i]) \ (Excused \cup forgone') : installed'[a] = "whole"
  BY <1>1, <1>2, HarmlessKeeps
<1>4. ASSUME Steps[step].fatal, NEW a \in Heeded(Steps[step]) \ (Excused \cup forgone')
      PROVE  installed'[a] = "whole"
  <2>1. a \in Artefact /\ a \in Insisted \ Excused
    BY <1>4, FatalMakes
  <2>2. installed[a] = "whole"
    BY <1>4 DEF Current
  <2> QED
    BY <1>2, <2>1, <2>2 DEF Harmless
<1>5. WholeUpTo(step - 1)'
  <2>1. \A i \in 1..step : i = step \/ i \in 1..(step - 1)
    BY <1>1
  <2>2. \A i \in 1..step : i \in DOMAIN Steps /\ Steps[i].fatal =>
          \A a \in Heeded(Steps[i]) \ (Excused \cup forgone') : installed'[a] = "whole"
    BY <1>3, <1>4, <2>1
  <2>3. step' - 1 = step
    BY <1>1
  <2> QED
    BY <2>2, <2>3, Zenon DEF WholeUpTo
<1>6. WholeInStep'
  BY DEF WholeInStep
<1>7. RunOK' /\ SkippedIsWhole' /\ CompleteIsWhole'
  BY <1>1, <1>2, <1>3 DEF RunOK, Harmless, SkippedIsWhole, CompleteIsWhole
<1> QED
  BY <1>5, <1>6, <1>7 DEF InstallInv

LEMMA EndStepInstallInv ==
  ASSUME InstallInv, EndStep
  PROVE  InstallInv'
<1>1. /\ outcome = "running" /\ outcome' = "running" /\ step \in Nat /\ step >= 1
      /\ ~(step > Len(Steps)) /\ step' = step + 1 /\ task' = 1 /\ task \in Nat
      /\ DOMAIN installed = Artefact /\ forgone' = forgone /\ forgone \subseteq Dispensable
      /\ installed' = Swept(installed)
  BY DEF InstallInv, RunOK, EndStep, Working, AllTried, Advance
<1>2. step \in DOMAIN Steps /\ SoundStep(Steps[step]) /\ Current = Steps[step]
  BY <1>1, StepsSound DEF Current
<1>3. ASSUME Current.fatal, NEW a \in Heeded(Current) \ (Excused \cup forgone)
      PROVE  installed[a] = "whole"
  <2>1. PICK j \in 1..Len(Current.tasks) :
          a = Current.tasks[j].makes /\ Current.tasks[j].how # "ignored"
    BY <1>2, <1>3, FatalMakes
  <2>2. a \in Artefact
    BY <1>2, <1>3, FatalMakes
  <2>3. CASE task > Len(Current.tasks)
    <3>1. j \in 1..(task - 1) /\ j \in DOMAIN Current.tasks
      BY <1>1, <1>2, <2>3 DEF SoundStep
    <3>2. installed[a] = "whole" \/ (j = task - 1 /\ Current.tasks[j].how = "ifAbsent")
      BY <1>1, <1>2, <1>3, <2>1, <3>1 DEF InstallInv, WholeInStep
    <3>3. ASSUME j = task - 1, Current.tasks[j].how = "ifAbsent" PROVE FALSE
      <4>1. j < Len(Current.tasks) /\ Len(Current.tasks) \in Nat
        BY <1>2, <1>3, <3>3 DEF SoundStep
      <4> QED
        BY <1>1, <2>3, <3>3, <4>1
    <3> QED
      BY <3>2, <3>3
  <2>4. CASE ~(task > Len(Current.tasks))
    <3>1. Current.unless # Always /\ installed[Current.unless] # "absent"
      BY <2>4 DEF EndStep, Over
    <3>2. Current.unless \in Skipping /\ a \in Excused \cup {Current.unless}
      BY <1>2, <1>3, <2>1, <3>1 DEF SoundStep, Skips
    <3>3. a = Current.unless
      BY <1>3, <3>2
    <3> QED
      BY <2>2, <3>1, <3>2, <3>3 DEF InstallInv, SkippedIsWhole
  <2> QED
    BY <2>3, <2>4
<1> QED
  BY <1>1, <1>2, <1>3, StepOver

\* A step is passed over at a task whose predecessors are whole.
LEMMA PassOverInstallInv ==
  ASSUME InstallInv, PassOver
  PROVE  InstallInv'
<1> DEFINE left == {Current.tasks[j].makes : j \in task..Len(Current.tasks)}
<1>1. /\ Trying /\ outcome = "running" /\ outcome' = "running" /\ step' = step + 1
      /\ task' = 1 /\ installed' = Swept(installed) /\ forgone' = forgone \cup left
      /\ task \in Nat /\ task >= 1 /\ forgone \subseteq Dispensable
      /\ Doing.makes \in Passable
  BY DEF PassOver, MayPassOver, Passable, Trying, Working, Advance, InstallInv, RunOK
<1>2. /\ step \in DOMAIN Steps /\ SoundStep(Current) /\ Current = Steps[step]
      /\ task \in 1..Len(Current.tasks) /\ Doing = Current.tasks[task]
      /\ Len(Current.tasks) \in Nat
  BY <1>1, TaskUnderWay DEF SoundStep
<1>3. left \subseteq Dispensable
  <2>1. \A j \in task..Len(Current.tasks) : j \in 1..Len(Current.tasks) /\ task <= j
    BY <1>1, <1>2
  <2> QED
    BY <1>1, <1>2, <2>1 DEF SoundStep
<1>4. ASSUME Current.fatal, NEW a \in Heeded(Current) \ (Excused \cup forgone')
      PROVE  installed[a] = "whole"
  <2>1. PICK j \in 1..Len(Current.tasks) :
          a = Current.tasks[j].makes /\ Current.tasks[j].how # "ignored"
    BY <1>2, <1>4, FatalMakes
  <2>2. j \notin task..Len(Current.tasks)
    BY <1>1, <1>4, <2>1
  <2>3. j \in 1..(task - 1) /\ j \in DOMAIN Current.tasks
    BY <1>1, <1>2, <2>2 DEF SoundStep
  <2>4. installed[a] = "whole" \/ (j = task - 1 /\ Current.tasks[j].how = "ifAbsent")
    BY <1>1, <1>2, <1>4, <2>1, <2>3 DEF InstallInv, WholeInStep
  <2>5. ASSUME j = task - 1, Current.tasks[j].how = "ifAbsent" PROVE FALSE
    <3>1. j + 1 = task
      BY <1>1, <2>3, <2>5
    <3>2. Current.tasks[j + 1].makes \notin Passable
      BY <1>2, <1>4, <2>1, <2>5 DEF SoundStep
    <3> QED
      BY <1>1, <1>2, <3>1, <3>2
  <2> QED
    BY <2>4, <2>5
<1> HIDE DEF left
<1> QED
  BY <1>1, <1>2, <1>3, <1>4, StepOver

\* A task of an optional step, or one whose error is ignored, however it ends.
LEMMA OptionalHarmless ==
  ASSUME InstallInv, Trying, ~Current.fatal \/ Doing.how = "ignored", NEW v
  PROVE  /\ Harmless(installed) /\ Harmless([installed EXCEPT ![Doing.makes] = v])
         /\ Doing.makes \notin Insisted
<1>1. Doing.makes \in Optional
  BY TaskUnderWay DEF SoundStep, SoundTask
<1>2. Doing.makes \notin Insisted /\ Doing.makes \notin Skipping
  BY <1>1, Disjoint
<1>3. DOMAIN installed = Artefact
  BY DEF InstallInv, RunOK
<1> QED
  BY <1>2, <1>3 DEF Harmless

\* A task of any step that is cut short.
LEMMA LeftOK ==
  ASSUME InstallInv, Trying, NEW d \in Left(Doing)
  PROVE  /\ DOMAIN d = Artefact
         /\ \A a \in Skipping \cap Artefact : d[a] \in {"absent", "whole"}
<1>1. d = installed \/ (Doing.how # "replace" /\ d = [installed EXCEPT ![Doing.makes] = "partial"])
  BY DEF Left
<1>2. Doing.how # "replace" => Doing.makes \notin Skipping
  BY TaskUnderWay DEF SoundStep, SoundTask
<1> QED
  BY <1>1, <1>2 DEF InstallInv, RunOK, SkippedIsWhole

\* The step goes on after such a task.
LEMMA OptionalGoesOn ==
  ASSUME InstallInv, Trying, ~Current.fatal \/ Doing.how = "ignored",
         DOMAIN installed' = Artefact,
         \A a \in Artefact : a # Doing.makes => installed'[a] = installed[a],
         task' = task + 1, UNCHANGED <<step, outcome, interrupted, forgone>>
  PROVE  InstallInv'
<1>1. /\ outcome = "running" /\ step \in Nat /\ task \in Nat /\ step >= 1 /\ task >= 1
      /\ forgone \subseteq Dispensable /\ WholeUpTo(step - 1) /\ WholeInStep
  BY DEF InstallInv, RunOK, Trying, Working
<1>2. /\ step \in DOMAIN Steps /\ SoundStep(Current) /\ Current = Steps[step]
      /\ task \in 1..Len(Current.tasks) /\ Doing = Current.tasks[task]
  BY TaskUnderWay
<1>3. Harmless(installed') /\ Doing.makes \notin Insisted
  <2>1. Doing.makes \in Optional
    BY TaskUnderWay DEF SoundStep, SoundTask
  <2>2. Doing.makes \notin Insisted /\ Doing.makes \notin Skipping
    BY <2>1, Disjoint
  <2> QED
    BY <2>2 DEF Harmless
<1>4. /\ \A a \in Skipping \cap Artefact : installed'[a] \in {"absent", "whole"}
      /\ \A i \in 1..(step - 1) : i \in DOMAIN Steps /\ Steps[i].fatal =>
            \A a \in Heeded(Steps[i]) \ (Excused \cup forgone) : installed'[a] = "whole"
  BY <1>1, <1>3, HarmlessKeeps
<1>5. WholeUpTo(step - 1)'
  BY <1>4 DEF WholeUpTo
<1>6. ASSUME Current.fatal, NEW j \in 1..task, j \in DOMAIN Current.tasks
      PROVE  \/ installed'[Current.tasks[j].makes] = "whole"
             \/ j = task /\ Current.tasks[j].how = "ifAbsent"
             \/ Current.tasks[j].how = "ignored"
  <2>1. CASE j = task \/ Current.tasks[j].how = "ignored"
    BY <1>2, <1>6, <2>1
  <2>2. CASE j # task /\ Current.tasks[j].how # "ignored"
    <3>1. j \in 1..(task - 1) /\ j \in 1..Len(Current.tasks)
      BY <1>1, <1>2, <1>6, <2>2 DEF SoundStep
    <3>2. ~(j = task - 1 /\ Current.tasks[j].how = "ifAbsent")
      <4>1. ASSUME j = task - 1, Current.tasks[j].how = "ifAbsent" PROVE FALSE
        <5>1. j + 1 = task
          BY <1>1, <4>1
        <5>2. Current.tasks[j + 1].how # "ignored"
          BY <1>2, <1>6, <3>1, <4>1 DEF SoundStep
        <5> QED
          BY <1>2, <1>6, <5>1, <5>2
      <4> QED
        BY <4>1
    <3>3. installed[Current.tasks[j].makes] = "whole"
      BY <1>1, <1>2, <1>6, <2>2, <3>1, <3>2 DEF WholeInStep
    <3>4. Current.tasks[j].makes \in Insisted
      BY <1>2, <1>6, <2>2, <3>1 DEF SoundStep, SoundTask
    <3>5. Current.tasks[j].makes \in Artefact
      BY <1>2, <1>6, TaskMakes
    <3> QED
      BY <1>3, <3>3, <3>4, <3>5
  <2> QED
    BY <2>1, <2>2
<1>7. WholeInStep'
  <2>1. task' - 1 = task /\ Current' = Current
    BY <1>1 DEF Current
  <2> QED
    BY <1>6, <2>1, Zenon DEF WholeInStep
<1>8. RunOK' /\ SkippedIsWhole' /\ CompleteIsWhole'
  BY <1>1, <1>3, <1>4 DEF RunOK, Harmless, SkippedIsWhole, CompleteIsWhole
<1> QED
  BY <1>5, <1>7, <1>8 DEF InstallInv

LEMMA TaskDoneInstallInv ==
  ASSUME InstallInv, TaskDone
  PROVE  InstallInv'
<1> DEFINE t == Doing
<1>1. /\ Trying /\ outcome = "running" /\ task' = task + 1
      /\ UNCHANGED <<step, outcome, interrupted, forgone>>
      /\ Kept(t) \/ Met(t)
      /\ installed' = IF Kept(t) THEN installed ELSE [installed EXCEPT ![t.makes] = Made(t)]
      /\ step \in Nat /\ task \in Nat /\ step >= 1 /\ task >= 1
      /\ DOMAIN installed = Artefact /\ forgone \subseteq Dispensable
  BY DEF TaskDone, Trying, Working, InstallInv, RunOK
<1>2. /\ step \in DOMAIN Steps /\ SoundStep(Current) /\ Current = Steps[step]
      /\ task \in 1..Len(Current.tasks) /\ t = Current.tasks[task]
      /\ t.makes \in Artefact
  BY <1>1, TaskUnderWay
<1>3. RunOK' /\ CompleteIsWhole'
  BY <1>1 DEF RunOK, CompleteIsWhole
<1>4. WholeUpTo(step - 1) /\ WholeInStep
  BY <1>1 DEF InstallInv
<1>5. Current' = Current
  BY <1>1 DEF Current
<1>6. CASE Current.fatal /\ t.how # "ignored"
  <2>1. t.how # "mirror" /\ Made(t) = "whole"
    BY <1>2, <1>6 DEF SoundStep, SoundTask, Made
  <2>2. \A a \in Artefact : installed[a] = "whole" => installed'[a] = "whole"
    BY <1>1, <2>1
  <2>3. SkippedIsWhole'
    BY <1>1, <2>1 DEF InstallInv, SkippedIsWhole
  <2>4. WholeUpTo(step - 1)'
    <3>1. \A i \in 1..(step - 1) : i \in DOMAIN Steps /\ Steps[i].fatal =>
            \A a \in Heeded(Steps[i]) \ (Excused \cup forgone) : installed'[a] = "whole"
      BY <1>4, <2>2, FatalMakes DEF WholeUpTo
    <3> QED
      BY <1>1, <3>1 DEF WholeUpTo
  <2>5. ASSUME NEW j \in 1..task, j \in DOMAIN Current.tasks
        PROVE  \/ installed'[Current.tasks[j].makes] = "whole"
               \/ j = task /\ Current.tasks[j].how = "ifAbsent"
               \/ Current.tasks[j].how = "ignored"
    <3>0. Current.tasks[j].makes \in Artefact
      BY <1>2, <2>5, TaskMakes
    <3>1. CASE j = task
      <4>1. CASE Kept(t)
        BY <1>2, <3>1, <4>1 DEF Kept
      <4>2. CASE ~Kept(t)
        BY <1>1, <1>2, <2>1, <3>1, <4>2
      <4> QED
        BY <4>1, <4>2
    <3>2. CASE j # task
      <4>1. j \in 1..(task - 1)
        BY <1>1, <3>2
      <4>2. CASE installed[Current.tasks[j].makes] = "whole"
        BY <2>2, <3>0, <4>2
      <4>3. CASE j = task - 1 /\ Current.tasks[j].how = "ifAbsent"
        <5>1. t.how \notin {"ifAbsent", "ignored"} /\ Current.tasks[j].makes \in t.needs
          <6>1. j + 1 = task /\ j \in 1..Len(Current.tasks)
            BY <1>1, <1>2, <4>1, <4>3
          <6> QED
            BY <1>2, <1>6, <4>3, <6>1 DEF SoundStep
        <5>2. ~Kept(t) /\ Met(t)
          BY <1>1, <5>1 DEF Kept
        <5>3. installed[Current.tasks[j].makes] = "whole"
          BY <2>1, <5>1, <5>2 DEF Met
        <5> QED
          BY <2>2, <3>0, <5>3
      <4> QED
        BY <1>2, <1>4, <1>6, <2>5, <4>1, <4>2, <4>3 DEF WholeInStep
    <3> QED
      BY <3>1, <3>2
  <2>6. WholeInStep'
    <3>1. task' - 1 = task
      BY <1>1
    <3> QED
      BY <1>5, <2>5, <3>1, Zenon DEF WholeInStep
  <2> QED
    BY <1>1, <1>3, <2>3, <2>4, <2>6 DEF InstallInv
<1>7. CASE ~(Current.fatal /\ t.how # "ignored")
  <2>1. DOMAIN installed' = Artefact
        /\ \A a \in Artefact : a # Doing.makes => installed'[a] = installed[a]
    BY <1>1
  <2>2. ~Current.fatal \/ Doing.how = "ignored"
    BY <1>7
  <2> QED
    BY <1>1, <2>1, <2>2, OptionalGoesOn
<1> QED
  BY <1>6, <1>7

LEMMA TaskFailsInstallInv ==
  ASSUME InstallInv, TaskFails
  PROVE  InstallInv'
<1>1. PICK d \in Left(Doing) :
        IF Doing.how = "ignored"
        THEN task' = task + 1 /\ installed' = d /\ UNCHANGED <<step, outcome>>
        ELSE IF Current.fatal THEN Stop("failed") /\ installed' = Swept(d)
        ELSE Advance(d) /\ UNCHANGED outcome
  BY DEF TaskFails
<1>2. /\ Trying /\ outcome = "running" /\ UNCHANGED <<interrupted, forgone>>
      /\ step \in Nat /\ task \in Nat /\ step >= 1 /\ DOMAIN installed = Artefact
      /\ forgone \subseteq Dispensable
  BY DEF TaskFails, Trying, Working, InstallInv, RunOK
<1>3. d \in {installed, [installed EXCEPT ![Doing.makes] = "partial"]}
  BY DEF Left
<1>4. DOMAIN Swept(d) = Artefact
      /\ \A a \in Skipping \cap Artefact : Swept(d)[a] \in {"absent", "whole"}
  BY <1>2, LeftOK DEF Swept
<1>5. CASE Doing.how = "ignored"
  <2>1. installed' = d /\ task' = task + 1 /\ UNCHANGED <<step, outcome>>
    BY <1>1, <1>5
  <2>2. DOMAIN installed' = Artefact
        /\ \A a \in Artefact : a # Doing.makes => installed'[a] = installed[a]
    BY <1>2, <1>3, <2>1
  <2> QED
    BY <1>2, <1>5, <2>1, <2>2, OptionalGoesOn
<1>6. CASE Doing.how # "ignored" /\ Current.fatal
  <2>1. outcome' = "failed" /\ step' = 0 /\ task' = 0 /\ installed' = Swept(d)
    BY <1>1, <1>6 DEF Stop
  <2> QED
    BY <1>2, <1>4, <2>1 DEF InstallInv, RunOK, SkippedIsWhole, CompleteIsWhole
<1>7. CASE Doing.how # "ignored" /\ ~Current.fatal
  <2>1. step' = step + 1 /\ task' = 1 /\ outcome' = "running" /\ installed' = Swept(d)
    BY <1>1, <1>2, <1>7 DEF Advance
  <2>2. Harmless(d)
    BY <1>2, <1>3, <1>7, OptionalHarmless
  <2>3. Harmless(installed')
    BY <2>1, <2>2, SweptHarmless
  <2>4. WholeUpTo(step - 1)'
    <3>1. step \in DOMAIN Steps /\ ~Steps[step].fatal
      BY <1>2, <1>7, TaskUnderWay
    <3>2. WholeUpTo(step - 1)
      BY <1>2 DEF InstallInv
    <3>3. \A i \in 1..(step - 1) : i \in DOMAIN Steps /\ Steps[i].fatal =>
            \A a \in Heeded(Steps[i]) \ (Excused \cup forgone) : installed'[a] = "whole"
      BY <2>3, <3>2, HarmlessKeeps
    <3>4. \A i \in 1..step : i = step \/ i \in 1..(step - 1)
      BY <1>2
    <3>5. \A i \in 1..step : i \in DOMAIN Steps /\ Steps[i].fatal =>
            \A a \in Heeded(Steps[i]) \ (Excused \cup forgone') : installed'[a] = "whole"
      BY <1>2, <3>1, <3>3, <3>4
    <3>6. step' - 1 = step
      BY <1>2, <2>1
    <3> QED
      BY <3>5, <3>6, Zenon DEF WholeUpTo
  <2>5. WholeInStep'
    BY <2>1 DEF WholeInStep
  <2> QED
    BY <1>2, <1>4, <2>1, <2>4, <2>5 DEF InstallInv, RunOK, SkippedIsWhole, CompleteIsWhole
<1> QED
  BY <1>5, <1>6, <1>7

\* A run that insisted on everything has everything it has not passed over.
LEMMA ReturnsInstallInv ==
  ASSUME InstallInv, ReturnsNil
  PROVE  InstallInv'
<1>1. /\ outcome = "running" /\ outcome' = "done" /\ step' = 0 /\ task' = 0
      /\ UNCHANGED <<interrupted, installed, forgone>>
      /\ interrupted \/ AllTried
  BY DEF ReturnsNil, Stop, GivenUp
<1>2. CompleteIsWhole'
  <2>1. ASSUME AllTried, NEW a \in FatalArtefact \ (Excused \cup forgone)
        PROVE  installed[a] = "whole"
    <3>1. PICK i \in DOMAIN Steps : Steps[i].fatal /\ a \in Heeded(Steps[i])
      BY <2>1 DEF FatalArtefact
    <3>2. i \in 1..(step - 1)
      BY <1>1, <2>1, StepsSound DEF AllTried, InstallInv, RunOK
    <3> QED
      BY <1>1, <2>1, <3>1, <3>2 DEF InstallInv, WholeUpTo
  <2>2. forgone \subseteq Dispensable
    BY DEF InstallInv, RunOK
  <2>3. forgone \subseteq {"frontend", "generatedFiles", "venv", "pythonPackages"}
    BY <2>2 DEF Dispensable, Passable
  <2> QED
    BY <1>1, <2>1, <2>3 DEF CompleteIsWhole, Excused
<1> QED
  BY <1>1, <1>2 DEF InstallInv, RunOK, SkippedIsWhole

LEMMA NextInstallInv ==
  ASSUME InstallInv, [InNext]_inVars
  PROVE  InstallInv'
<1>1. CASE Begin
  BY <1>1 DEF Begin, InstallInv, RunOK, SkippedIsWhole, CompleteIsWhole, WholeUpTo,
              WholeInStep
<1>2. CASE Crash
  <2>1. /\ Trying /\ installed' \in Left(Doing) /\ outcome' = "failed"
        /\ step' = 0 /\ task' = 0 /\ forgone' = forgone
    BY <1>2 DEF Crash, Stop
  <2>2. DOMAIN installed' = Artefact /\ SkippedIsWhole'
    BY <2>1, LeftOK DEF SkippedIsWhole
  <2> QED
    BY <2>1, <2>2 DEF InstallInv, RunOK, CompleteIsWhole
<1>3. CASE Interrupt
  <2>1. outcome = "running" /\ UNCHANGED <<step, task, outcome, installed, forgone>>
    BY <1>3 DEF Interrupt
  <2>2. RunOK' /\ SkippedIsWhole' /\ CompleteIsWhole'
    BY <2>1 DEF InstallInv, RunOK, SkippedIsWhole, CompleteIsWhole
  <2>3. WholeUpTo(step - 1)' /\ WholeInStep'
    BY <2>1 DEF InstallInv, WholeUpTo, WholeInStep, Current
  <2> QED
    BY <2>2, <2>3 DEF InstallInv
<1>4. CASE Uninstall
  <2>1. /\ outcome' = "none" /\ UNCHANGED <<step, task, forgone>>
        /\ installed' = [installed EXCEPT !["firstrun"] = "absent", !["modules"] = "absent"]
    BY <1>4 DEF Uninstall
  <2>2. DOMAIN installed' = Artefact /\ SkippedIsWhole'
    BY <2>1 DEF InstallInv, RunOK, SkippedIsWhole
  <2> QED
    BY <2>1, <2>2 DEF InstallInv, RunOK, CompleteIsWhole
<1>5. CASE UNCHANGED inVars
  <2>1. UNCHANGED <<step, task, outcome, interrupted, installed, forgone>>
    BY <1>5 DEF inVars
  <2>2. RunOK' /\ SkippedIsWhole' /\ CompleteIsWhole'
    BY <2>1 DEF InstallInv, RunOK, SkippedIsWhole, CompleteIsWhole
  <2>3. outcome = "running" => WholeUpTo(step - 1)' /\ WholeInStep'
    BY <2>1 DEF InstallInv, WholeUpTo, WholeInStep, Current
  <2> QED
    BY <2>1, <2>2, <2>3 DEF InstallInv
<1> QED
  BY <1>1, <1>2, <1>3, <1>4, <1>5, EndStepInstallInv, TaskDoneInstallInv,
     PassOverInstallInv, TaskFailsInstallInv, ReturnsInstallInv
  DEF InNext

\* Wherever earlier runs failed, crashed, were interrupted or uninstalled, a run of Setup
\* that reports success and was not interrupted has left whole what it insists on, but for
\* what it has itself passed over in silence, which are four artefacts at most: no step is
\* skipped for something half done, nothing half done is kept unnoticed.
THEOREM SuccessIsWhole == InSpec => []CompleteIsWhole
<1>1. InstallInv => CompleteIsWhole
  BY DEF InstallInv
<1> QED
  BY <1>1, InitInstallInv, NextInstallInv, PTL DEF InSpec

----------------------------------------------------------------------------
(* Splitting the workspaces.                                               *)

CsSpec == CsInit /\ [][CsNext]_csVars

\* The runs of n monitors: the first workspace of each, and the last.
Each(n) == TotalWorkspaces \div n
From(n, i) == (i - 1) * Each(n) + 1
Upto(n, i) == IF i = n THEN TotalWorkspaces ELSE i * Each(n)

LEMMA Multiples ==
  ASSUME NEW e \in Nat, NEW i \in Nat, NEW k \in Nat, i <= k
  PROVE  i * e <= k * e
<1> DEFINE d == k - i
<1>1. d \in Nat /\ k = i + d
  OBVIOUS
<1>2. (i + d) * e = i * e + d * e /\ d * e \in Nat /\ i * e \in Nat
  BY <1>1
<1> HIDE DEF d
<1> QED
  BY <1>1, <1>2

LEMMA EachType ==
  ASSUME NEW n \in Nat \ {0}
  PROVE  /\ Each(n) \in Nat
         /\ \A i \in 1..n : From(n, i) \in Nat /\ From(n, i) >= 1 /\ Upto(n, i) \in Nat
         /\ From(n, n) <= TotalWorkspaces
<1>1. Each(n) \in Nat /\ n * Each(n) <= 10
  BY DEF Each, TotalWorkspaces
<1>2. ASSUME NEW i \in 1..n
      PROVE  From(n, i) \in Nat /\ From(n, i) >= 1 /\ Upto(n, i) \in Nat
  <2>1. (i - 1) * Each(n) \in Nat /\ i * Each(n) \in Nat
    BY <1>1
  <2> QED
    BY <2>1 DEF From, Upto, TotalWorkspaces
<1>3. (n - 1) * Each(n) + 1 <= 10
  <2>1. CASE Each(n) = 0
    BY <2>1
  <2>2. CASE Each(n) # 0
    <3>1. (n - 1) * Each(n) = n * Each(n) - Each(n)
      BY <1>1
    <3> QED
      BY <1>1, <2>2, <3>1
  <2> QED
    BY <2>1, <2>2
<1> QED
  BY <1>1, <1>2, <1>3 DEF From, TotalWorkspaces

\* Every workspace is in one run.
LEMMA OneRun ==
  ASSUME NEW n \in Nat \ {0}, NEW w \in 1..TotalWorkspaces
  PROVE  /\ \E i \in 1..n : w \in From(n, i)..Upto(n, i)
         /\ \A i, k \in 1..n : /\ w \in From(n, i)..Upto(n, i)
                               /\ w \in From(n, k)..Upto(n, k)
                               => i = k
<1> DEFINE e == Each(n)
<1>0. e \in Nat /\ w \in Nat /\ w >= 1 /\ w <= 10 /\ n \in Nat /\ n >= 1
  BY EachType DEF TotalWorkspaces
<1>1. \E i \in 1..n : w \in From(n, i)..Upto(n, i)
  <2>1. CASE e = 0
    <3>1. From(n, n) = 1 /\ Upto(n, n) = 10
      BY <1>0, <2>1 DEF From, Upto, TotalWorkspaces
    <3>2. w \in From(n, n)..Upto(n, n) /\ n \in 1..n
      BY <1>0, <3>1
    <3> QED
      BY <3>2
  <2>2. CASE e # 0
    <3> DEFINE q == (w - 1) \div e
    <3>1. q \in Nat /\ q * e + 1 <= w /\ w <= (q + 1) * e
      <4>1. e \in 1..10
        BY <1>0, <2>2 DEF Each, TotalWorkspaces
      <4> QED
        BY <1>0, <4>1
    <3> HIDE DEF q, e
    <3>2. CASE q + 1 < n
      <4>1. q + 1 \in 1..n /\ (q + 1) - 1 = q /\ q + 1 # n
        BY <1>0, <3>1, <3>2
      <4>2. From(n, q + 1) = q * e + 1 /\ Upto(n, q + 1) = (q + 1) * e
        BY <4>1 DEF From, Upto, e
      <4>3. w \in From(n, q + 1)..Upto(n, q + 1)
        BY <1>0, <3>1, <4>1, <4>2, EachType
      <4> QED
        BY <4>1, <4>3
    <3>3. CASE ~(q + 1 < n)
      <4>1. (n - 1) * e <= q * e
        BY <1>0, <3>1, <3>3, Multiples
      <4>2. From(n, n) = (n - 1) * e + 1 /\ Upto(n, n) = 10 /\ n \in 1..n
        BY <1>0 DEF From, Upto, TotalWorkspaces, e
      <4>3. From(n, n) \in Nat /\ q * e \in Nat /\ (n - 1) * e \in Nat
        BY <1>0, <3>1, <4>2, EachType
      <4>4. w \in From(n, n)..Upto(n, n)
        BY <1>0, <3>1, <4>1, <4>2, <4>3
      <4> QED
        BY <4>2, <4>4
    <3> QED
      BY <3>2, <3>3
  <2> QED
    BY <2>1, <2>2
<1>2. ASSUME NEW i \in 1..n, NEW k \in 1..n, i < k,
             w \in From(n, i)..Upto(n, i), w \in From(n, k)..Upto(n, k)
      PROVE  FALSE
  <2>1. w <= i * e /\ (k - 1) * e + 1 <= w
    BY <1>2 DEF From, Upto
  <2>2. i * e <= (k - 1) * e
    BY <1>0, <1>2, Multiples
  <2>3. i * e \in Nat /\ (k - 1) * e \in Nat
    BY <1>0
  <2> HIDE DEF e
  <2> QED
    BY <1>0, <2>1, <2>2, <2>3
<1> QED
  BY <1>1, <1>2

\* One monitor for every workspace, and one workspace to start with for every monitor.
Split(rules) ==
  /\ \A w \in 1..TotalWorkspaces : Cardinality({r \in rules : r[1] = w}) = 1
  /\ \A r \in rules : Cardinality({q \in rules : q[2] = r[2] /\ q[3]}) = 1

LEMMA RunsSplit ==
  ASSUME NEW n \in Nat \ {0}, NEW ms \in Injection(1..n, Monitor)
  PROVE  Split(Runs(ms))
<1> DEFINE Rule(i, w) == <<w, ms[i], w = From(n, i)>>
           R == Runs(ms)
<1>1. /\ ms \in [1..n -> Monitor] /\ Len(ms) = n /\ DOMAIN ms = 1..n
      /\ \A i, k \in 1..n : ms[i] = ms[k] => i = k
  BY DEF Injection, IsInjective
<1>2. \A r : r \in R <=> \E i \in 1..n : \E w \in From(n, i)..Upto(n, i) : r = Rule(i, w)
  BY <1>1 DEF Runs, From, Upto, Each
<1>3. \A i \in 1..n : \A w \in From(n, i)..Upto(n, i) : w \in 1..TotalWorkspaces
  <2> SUFFICES ASSUME NEW i \in 1..n, NEW w \in From(n, i)..Upto(n, i)
               PROVE  w \in 1..TotalWorkspaces
    OBVIOUS
  <2>1. CASE i = n
    <3>1. From(n, i) \in Nat /\ From(n, i) >= 1 /\ Upto(n, i) = 10
      BY <2>1, EachType DEF Upto, TotalWorkspaces
    <3> QED
      BY <3>1 DEF TotalWorkspaces
  <2>2. CASE i # n
    <3>1. i * Each(n) <= n * Each(n)
      <4>1. i \in Nat /\ n \in Nat /\ i <= n /\ Each(n) \in Nat
        BY EachType
      <4> QED
        BY <4>1, Multiples
    <3>2. n * Each(n) <= 10 /\ i * Each(n) \in Nat /\ n * Each(n) \in Nat
      BY EachType DEF Each, TotalWorkspaces
    <3>3. Upto(n, i) <= 10
      BY <2>2, <3>1, <3>2 DEF Upto
    <3>4. From(n, i) \in Nat /\ From(n, i) >= 1 /\ Upto(n, i) \in Nat
      BY EachType
    <3>5. w \in Int /\ From(n, i) <= w /\ w <= Upto(n, i)
      BY <3>4
    <3> QED
      BY <3>3, <3>4, <3>5 DEF TotalWorkspaces
  <2> QED
    BY <2>1, <2>2
<1> HIDE DEF R
<1>4. ASSUME NEW w \in 1..TotalWorkspaces
      PROVE  Cardinality({r \in R : r[1] = w}) = 1
  <2>1. PICK i \in 1..n : w \in From(n, i)..Upto(n, i)
    BY OneRun
  <2>2. {r \in R : r[1] = w} = {Rule(i, w)}
    <3>1. Rule(i, w) \in R /\ Rule(i, w)[1] = w
      BY <1>2, <2>1
    <3>2. ASSUME NEW r \in R, r[1] = w PROVE r = Rule(i, w)
      <4>1a. PICK k \in 1..n : \E v \in From(n, k)..Upto(n, k) : r = Rule(k, v)
        BY <1>2
      <4>1. PICK v \in From(n, k)..Upto(n, k) : r = Rule(k, v)
        BY <4>1a
      <4>2. v = w
        BY <3>2, <4>1
      <4>3. k = i
        BY <2>1, <4>1, <4>2, OneRun
      <4> QED
        BY <4>1, <4>2, <4>3
    <3> HIDE DEF Rule
    <3> QED
      BY <3>1, <3>2
  <2> QED
    BY <2>2, FS_Singleton
<1>5. ASSUME NEW r \in R
      PROVE  Cardinality({q \in R : q[2] = r[2] /\ q[3]}) = 1
  <2>1a. PICK i \in 1..n : \E w \in From(n, i)..Upto(n, i) : r = Rule(i, w)
    BY <1>2
  <2>1. PICK w \in From(n, i)..Upto(n, i) : r = Rule(i, w)
    BY <2>1a
  <2> DEFINE f == From(n, i)
  <2>2. f \in From(n, i)..Upto(n, i)
    <3>1. f \in Nat /\ Upto(n, i) \in Nat /\ w \in Nat /\ f <= w /\ w <= Upto(n, i)
      BY EachType
    <3> HIDE DEF f
    <3>2. f \in f..Upto(n, i)
      BY <3>1
    <3> QED
      BY <3>2 DEF f
  <2>3. {q \in R : q[2] = r[2] /\ q[3]} = {Rule(i, f)}
    <3>1. Rule(i, f) \in R /\ Rule(i, f)[2] = r[2] /\ Rule(i, f)[3]
      BY <1>2, <2>1, <2>2
    <3>2. ASSUME NEW q \in R, q[2] = r[2], q[3] PROVE q = Rule(i, f)
      <4>1a. PICK k \in 1..n : \E v \in From(n, k)..Upto(n, k) : q = Rule(k, v)
        BY <1>2
      <4>1. PICK v \in From(n, k)..Upto(n, k) : q = Rule(k, v)
        BY <4>1a
      <4>2. ms[k] = ms[i] /\ v = From(n, k)
        BY <2>1, <3>2, <4>1
      <4>3. k = i
        BY <1>1, <4>2
      <4> QED
        BY <4>1, <4>2, <4>3
    <3> HIDE DEF Rule
    <3> QED
      BY <3>1, <3>2
  <2> QED
    BY <2>3, FS_Singleton
<1> QED
  BY <1>4, <1>5 DEF R, Split

\* The file has never been written, or holds the runs of monitors that were connected.
FromRuns ==
  /\ connected \subseteq Monitor
  /\ \/ workspacesLua = {}
     \/ \E n \in Nat \ {0} : \E ms \in Injection(1..n, Monitor) : workspacesLua = Runs(ms)

LEMMA GeneratedFromRuns ==
  ASSUME FromRuns, NEW g, GenerateWorkspacesLua(g)
  PROVE  FromRuns'
<1>1. connected' = connected
  BY DEF GenerateWorkspacesLua, compositor
<1>2. CASE UNCHANGED workspacesLua
  BY <1>1, <1>2 DEF FromRuns
<1>3. CASE ~UNCHANGED workspacesLua
  <2>1. connected # {} /\ \E ms \in Listings : workspacesLua' = Runs(ms)
    BY <1>3 DEF GenerateWorkspacesLua
  <2>2. PICK ms \in Listings : workspacesLua' = Runs(ms)
    BY <2>1
  <2> DEFINE n == Cardinality(connected)
  <2>3. n \in Nat \ {0}
    <3>1. IsFiniteSet(connected)
      BY MonitorsAssumption, FS_Subset DEF FromRuns
    <3> QED
      BY <2>1, <3>1, FS_CardinalityType, FS_EmptySet
  <2>4. ms \in Injection(1..n, Monitor)
    BY DEF Listings, Injection, FromRuns
  <2> HIDE DEF n
  <2> QED
    BY <1>1, <2>2, <2>3, <2>4 DEF FromRuns
<1> QED
  BY <1>2, <1>3

LEMMA NextFromRuns ==
  ASSUME FromRuns, [CsNext]_csVars
  PROVE  FromRuns'
<1>1. CASE UNCHANGED csVars
  BY <1>1 DEF csVars, FromRuns
<1>2. CASE DetectHyprland \/ SoftReload \/ BindKeys \/ Reload \/ Autoscale \/ Restart
  BY <1>2 DEF DetectHyprland, SoftReload, BindKeys, Reload, Autoscale, Restart, FromRuns,
              compositor
<1>3. CASE Hotplug
  BY <1>3 DEF Hotplug, FromRuns
<1>4. ASSUME NEW g, GenerateMonitorsLua(g)
      PROVE  FromRuns'
  BY <1>4 DEF GenerateMonitorsLua, FromRuns, compositor
<1> QED
  BY <1>1, <1>2, <1>3, <1>4, GeneratedFromRuns DEF CsNext

\* For any number of monitors in any order, and whatever is plugged in, restarted or
\* reloaded while the file is written, workspaces.lua gives every workspace to one monitor
\* and every monitor that has any one to start with.
THEOREM EveryWorkspaceOnce == CsSpec => []WorkspacesSplit
<1>1. CsInit => FromRuns
  BY DEF CsInit, FromRuns
<1>2. FromRuns => WorkspacesSplit
  BY RunsSplit DEF FromRuns, WorkspacesSplit, Split
<1> QED
  BY <1>1, <1>2, NextFromRuns, PTL DEF CsSpec

----------------------------------------------------------------------------
(* What the file guard forgets.                                            *)

GuardSpec == GuardInit /\ [][GuardNext]_guardVars

Awake(r) == visiting[r] # Asleep

\* Where a wrong file is remembered.
Owed(f) ==
  \/ disk[f] = Restored(f) \/ f \in missed \/ f \in events \/ f \in affected
  \/ \E r \in Runner : Awake(r) /\ f \in visiting[r]

\* A name in the map is never without somebody who will visit it.
GuardOK ==
  /\ DOMAIN disk = GuardFile
  /\ events \subseteq GuardFile /\ affected \subseteq GuardFile
  /\ visiting \in [Runner -> (SUBSET GuardFile) \cup {Asleep}]
  /\ affected # {} => armed # {} \/ \E r \in Runner : Awake(r)
  /\ \A f \in GuardFile : Owed(f)

\* The guard has nothing left to do.
GuardAtRest == events = {} /\ armed = {} /\ \A r \in Runner : ~Awake(r)

\* Once the events, the timer and its functions are through, every file is right, except for
\* those whose report went with a map that was thrown away, or whose restore gave up.
NothingLeftWrong ==
  GuardAtRest => \A f \in GuardFile : disk[f] = Restored(f) \/ f \in missed

LEMMA VisitsAwake ==
  ASSUME "asleep" \notin GuardFile, NEW S \in SUBSET GuardFile
  PROVE  S # Asleep
  BY DEF Asleep

LEMMA InitGuardOK == GuardInit => GuardOK
<1> SUFFICES ASSUME GuardInit
             PROVE  GuardOK
  OBVIOUS
<1>1. \A f \in GuardFile : Owed(f)
  BY DEF GuardInit, Owed, Restored
<1> QED
  BY <1>1 DEF GuardInit, GuardOK

LEMMA TamperOK ==
  ASSUME GuardOK, NEW f \in GuardFile, NEW to, Tamper(f, to)
  PROVE  GuardOK'
<1>1. \A g \in GuardFile : Owed(g)'
  BY DEF GuardOK, Tamper, Owed, Awake, Restored
<1> QED
  BY <1>1 DEF GuardOK, Tamper, Awake

LEMMA ReceiveEventOK ==
  ASSUME GuardOK, NEW f \in GuardFile, ReceiveEvent(f)
  PROVE  GuardOK'
<1>1. \A g \in GuardFile : Owed(g)'
  BY DEF GuardOK, ReceiveEvent, Owed, Awake, Restored
<1> QED
  BY <1>1 DEF GuardOK, ReceiveEvent, Awake

LEMMA TimerFiresOK ==
  ASSUME "asleep" \notin GuardFile, GuardOK, NEW r \in Runner, TimerFires(r)
  PROVE  GuardOK'
<1>1. /\ visiting[r] = Asleep /\ visiting' = [visiting EXCEPT ![r] = affected]
      /\ UNCHANGED <<disk, events, affected, missed>>
  BY DEF TimerFires
<1>2. visiting \in [Runner -> (SUBSET GuardFile) \cup {Asleep}] /\ affected \subseteq GuardFile
  BY DEF GuardOK
<1>3. /\ visiting'[r] = affected /\ Awake(r)'
      /\ \A q \in Runner \ {r} : visiting'[q] = visiting[q]
  BY <1>1, <1>2, VisitsAwake DEF Awake
<1>4. visiting' \in [Runner -> (SUBSET GuardFile) \cup {Asleep}]
  BY <1>1, <1>2
<1>5. ASSUME NEW f \in GuardFile
      PROVE  Owed(f)'
  <2>1. Owed(f)
    BY DEF GuardOK
  <2>2. ASSUME NEW q \in Runner, Awake(q), f \in visiting[q]
        PROVE  Awake(q)' /\ f \in visiting'[q]
    BY <1>1, <1>3, <2>2 DEF Awake
  <2> QED
    BY <1>1, <2>1, <2>2 DEF Owed, Restored
<1> QED
  BY <1>1, <1>3, <1>4, <1>5 DEF GuardOK

LEMMA RestoreFileOK ==
  ASSUME "asleep" \notin GuardFile, GuardOK, NEW r \in Runner, NEW f \in GuardFile,
         RestoreFile(r, f)
  PROVE  GuardOK'
<1>1. /\ visiting[r] # Asleep /\ f \in visiting[r]
      /\ visiting' = [visiting EXCEPT ![r] = @ \ {f}]
      /\ disk' = [disk EXCEPT ![f] = Restored(f)]
      /\ events' = IF Touches(f) THEN events \cup {f} ELSE events
      /\ UNCHANGED <<affected, armed, missed>>
  BY DEF RestoreFile
<1>2. /\ visiting \in [Runner -> (SUBSET GuardFile) \cup {Asleep}] /\ DOMAIN disk = GuardFile
      /\ visiting[r] \in SUBSET GuardFile
  BY <1>1 DEF GuardOK
<1>3. /\ visiting'[r] = visiting[r] \ {f} /\ visiting'[r] \in SUBSET GuardFile
      /\ \A q \in Runner \ {r} : visiting'[q] = visiting[q]
  BY <1>1, <1>2
<1>4. \A q \in Runner : Awake(q) => Awake(q)'
  BY <1>3, VisitsAwake DEF Awake
<1>5. visiting' \in [Runner -> (SUBSET GuardFile) \cup {Asleep}] /\ DOMAIN disk' = GuardFile
  BY <1>1, <1>2, <1>3
<1>6. ASSUME NEW g \in GuardFile
      PROVE  Owed(g)'
  <2>1. CASE g = f
    BY <1>1, <1>2, <2>1 DEF Owed, Restored
  <2>2. CASE g # f
    <3>1. disk'[g] = disk[g] /\ Owed(g)
      BY <1>1, <1>2, <2>2 DEF GuardOK
    <3>2. ASSUME NEW q \in Runner, Awake(q), g \in visiting[q]
          PROVE  Awake(q)' /\ g \in visiting'[q]
      BY <1>3, <1>4, <2>2, <3>2
    <3> QED
      BY <1>1, <3>1, <3>2 DEF Owed, Restored
  <2> QED
    BY <2>1, <2>2
<1>7. events' \subseteq GuardFile /\ affected' \subseteq GuardFile
  BY <1>1 DEF GuardOK
<1> QED
  BY <1>1, <1>4, <1>5, <1>6, <1>7 DEF GuardOK

\* A restore that fails leaves an event behind, or is written down.
LEMMA RestoreFailsOK ==
  ASSUME "asleep" \notin GuardFile, GuardOK, NEW r \in Runner, NEW f \in GuardFile,
         RestoreFails(r, f)
  PROVE  GuardOK'
<1>1. /\ visiting[r] # Asleep /\ f \in visiting[r]
      /\ visiting' = [visiting EXCEPT ![r] = @ \ {f}]
      /\ GivesUp(f) \/ Spoils(f)
      /\ UNCHANGED <<affected, armed>>
  BY DEF RestoreFails
<1>2. /\ visiting \in [Runner -> (SUBSET GuardFile) \cup {Asleep}] /\ DOMAIN disk = GuardFile
      /\ visiting[r] \in SUBSET GuardFile
  BY <1>1 DEF GuardOK
<1>3. /\ visiting'[r] = visiting[r] \ {f} /\ visiting'[r] \in SUBSET GuardFile
      /\ \A q \in Runner \ {r} : visiting'[q] = visiting[q]
  BY <1>1, <1>2
<1>4. \A q \in Runner : Awake(q) => Awake(q)'
  BY <1>3, VisitsAwake DEF Awake
<1>5. visiting' \in [Runner -> (SUBSET GuardFile) \cup {Asleep}]
  BY <1>1, <1>2, <1>3
<1>6. /\ DOMAIN disk' = GuardFile /\ events \subseteq events' /\ events' \subseteq GuardFile
      /\ \A g \in GuardFile \ {f} : disk'[g] = disk[g] /\ (g \in missed => g \in missed')
      /\ disk'[f] = Restored(f) \/ f \in events' \/ f \in missed'
  <2>1. CASE GivesUp(f)
    BY <1>2, <2>1 DEF GivesUp, GuardOK
  <2>2. CASE Spoils(f)
    BY <1>2, <2>2 DEF Spoils, GuardOK
  <2> QED
    BY <1>1, <2>1, <2>2
<1>7. ASSUME NEW g \in GuardFile
      PROVE  Owed(g)'
  <2>1. CASE g = f
    BY <1>6, <2>1 DEF Owed, Restored
  <2>2. CASE g # f
    <3>1. Owed(g)
      BY DEF GuardOK
    <3>2. ASSUME NEW q \in Runner, Awake(q), g \in visiting[q]
          PROVE  Awake(q)' /\ g \in visiting'[q]
      BY <1>3, <1>4, <2>2, <3>2
    <3> QED
      BY <1>1, <1>6, <2>2, <3>1, <3>2 DEF Owed, Restored
  <2> QED
    BY <2>1, <2>2
<1> QED
  BY <1>1, <1>4, <1>5, <1>6, <1>7 DEF GuardOK

LEMMA SeeAdditionOK ==
  ASSUME "asleep" \notin GuardFile, GuardOK, NEW r \in Runner, NEW f \in GuardFile,
         SeeAddition(r, f)
  PROVE  GuardOK'
<1>1. /\ visiting[r] # Asleep
      /\ visiting' = [visiting EXCEPT ![r] = @ \cup {f}]
      /\ UNCHANGED <<disk, events, affected, armed, missed>>
  BY DEF SeeAddition
<1>2. /\ visiting \in [Runner -> (SUBSET GuardFile) \cup {Asleep}]
      /\ visiting[r] \in SUBSET GuardFile
  BY <1>1 DEF GuardOK
<1>3. /\ visiting'[r] = visiting[r] \cup {f} /\ visiting'[r] \in SUBSET GuardFile
      /\ \A q \in Runner \ {r} : visiting'[q] = visiting[q]
  BY <1>1, <1>2
<1>4. \A q \in Runner : Awake(q) => Awake(q)'
  BY <1>3, VisitsAwake DEF Awake
<1>5. visiting' \in [Runner -> (SUBSET GuardFile) \cup {Asleep}]
  BY <1>1, <1>2, <1>3
<1>6. ASSUME NEW g \in GuardFile
      PROVE  Owed(g)'
  <2>1. Owed(g)
    BY DEF GuardOK
  <2>2. ASSUME NEW q \in Runner, Awake(q), g \in visiting[q]
        PROVE  Awake(q)' /\ g \in visiting'[q]
    BY <1>3, <1>4, <2>2
  <2> QED
    BY <1>1, <2>1, <2>2 DEF Owed, Restored
<1> QED
  BY <1>1, <1>4, <1>5, <1>6 DEF GuardOK

LEMMA ForgetAffectedOK ==
  ASSUME GuardOK, NEW r \in Runner, ForgetAffected(r)
  PROVE  GuardOK'
<1>1. /\ visiting[r] = {} /\ affected' = {}
      /\ visiting' = [visiting EXCEPT ![r] = Asleep]
      /\ missed' = missed \cup {f \in affected : disk[f] # Restored(f)}
      /\ UNCHANGED <<disk, events>>
  BY DEF ForgetAffected
<1>2. visiting \in [Runner -> (SUBSET GuardFile) \cup {Asleep}]
  BY DEF GuardOK
<1>3. \A q \in Runner \ {r} : visiting'[q] = visiting[q]
  BY <1>1, <1>2
<1>4. visiting' \in [Runner -> (SUBSET GuardFile) \cup {Asleep}]
  BY <1>1, <1>2
<1>5. ASSUME NEW f \in GuardFile
      PROVE  Owed(f)'
  <2>1. Owed(f)
    BY DEF GuardOK
  <2>2. ASSUME NEW q \in Runner, Awake(q), f \in visiting[q]
        PROVE  Awake(q)' /\ f \in visiting'[q]
    BY <1>1, <1>3, <2>2 DEF Awake
  <2> QED
    BY <1>1, <2>1, <2>2 DEF Owed, Restored
<1> QED
  BY <1>1, <1>4, <1>5 DEF GuardOK

LEMMA NextGuardOK ==
  ASSUME "asleep" \notin GuardFile, GuardOK, [GuardNext]_guardVars
  PROVE  GuardOK'
<1>1. CASE RuntimeStops
  BY <1>1 DEF RuntimeStops, GuardOK, Owed
<1>2. CASE UNCHANGED guardVars
  BY <1>2 DEF guardVars, GuardOK, Owed, Awake, Restored
<1> QED
  BY <1>1, <1>2, TamperOK, ReceiveEventOK, TimerFiresOK, RestoreFileOK, RestoreFailsOK,
     SeeAdditionOK, ForgetAffectedOK DEF GuardNext

\* The guard never comes to rest over a file that is not right, unless its report was lost
\* with the map a timer's function threw away or its restore gave up without an event: an
\* event, a timer that runs or a function that is under way remembers every other, however
\* many of them share the map and whichever restores fail half-way.
THEOREM GuardRestsOnRightFiles ==
  ASSUME "asleep" \notin GuardFile
  PROVE  GuardSpec => []NothingLeftWrong
<1>1. GuardOK => NothingLeftWrong
  BY DEF GuardOK, NothingLeftWrong, GuardAtRest, Owed
<1> QED
  BY <1>1, InitGuardOK, NextGuardOK, PTL DEF GuardSpec

----------------------------------------------------------------------------
(* What the multipliers follow.                                            *)

FbSpec == FbInit /\ [][FbNext]_fbVars

Lines == {"scene", "monitors", "other"}
Flushes == [asleep : BOOLEAN, todo : SUBSET Display,
            seen : {<<>>} \cup (Display \X Glare \X BOOLEAN)]

\* Every screen is going to be measured.
Coming == pending \/ Relevant \/ \E f \in Flusher : flushing[f].asleep

\* A screen is going to be measured, or its newest measurement, stored or about to be, is one
\* of what it shows.
Followed(s) ==
  \/ Coming
  \/ \E f \in Flusher : s \in flushing[f].todo
  \/ \E f \in Flusher : Latest(f, s) /\ flushing[f].seen[2] = scene[s]
  \/ multipliers[s] = scene[s] /\ \A f \in Flusher : ~Latest(f, s)

FbTypes ==
  /\ names \subseteq Display /\ plugged \subseteq Display
  /\ DOMAIN scene = Display /\ DOMAIN multipliers = Display
  /\ \A s \in Display : scene[s] \in Glare
  /\ flushing \in [Flusher -> Flushes]
  /\ queue \in Seq(Lines) /\ pending \in BOOLEAN /\ unlisted \in BOOLEAN

OneLatest ==
  \A f, g \in Flusher, s \in Display : Latest(f, s) /\ Latest(g, s) => f = g

AllFollowed == \A s \in names \cap plugged : s \in excused \/ Followed(s)

ListFollows == unlisted \/ names = plugged \/ Contains(queue, "monitors")

FbOK == FbTypes /\ OneLatest /\ AllFollowed /\ ListFollows

\* The channel is empty, the debounce has run out, and no goroutine measures.
FbAtRest == queue = <<>> /\ ~pending /\ \A f \in Flusher : flushing[f] = NoFlush

\* When nothing is due, a screen in the list is dimmed for what it shows, and the list is that
\* of the monitors, but for the changes that nobody heard of and the measurements that failed
\* or were overtaken.
MultipliersExact ==
  FbAtRest => /\ \A s \in names \cap plugged : s \in excused \/ multipliers[s] = scene[s]
              /\ unlisted \/ names = plugged

LEMMA LineAdded ==
  ASSUME NEW S, NEW q \in Seq(S), NEW e \in S
  PROVE  /\ Append(q, e) \in Seq(S) /\ Contains(Append(q, e), e)
         /\ \A x : Contains(q, x) => Contains(Append(q, e), x)
<1>1. /\ Append(q, e) \in Seq(S) /\ Len(Append(q, e)) = Len(q) + 1 /\ Len(q) \in Nat
      /\ \A i \in 1..Len(q) : Append(q, e)[i] = q[i]
      /\ Append(q, e)[Len(q) + 1] = e
  BY AppendProperties, LenProperties
<1> QED
  BY <1>1 DEF Contains

LEMMA LineTaken ==
  ASSUME NEW S, NEW q \in Seq(S), q # <<>>
  PROVE  /\ Tail(q) \in Seq(S) /\ Head(q) \in S
         /\ \A x : Contains(q, x) => x = Head(q) \/ Contains(Tail(q), x)
<1>1. /\ Tail(q) \in Seq(S) /\ Head(q) \in S /\ Head(q) = q[1] /\ Len(q) \in Nat
      /\ Len(Tail(q)) = Len(q) - 1
      /\ \A i \in 1..Len(q) - 1 : Tail(q)[i] = q[i + 1]
  BY HeadTailProperties, LenProperties
<1>2. ASSUME NEW x, NEW i \in 1..Len(q), q[i] = x, x # Head(q)
      PROVE  Contains(Tail(q), x)
  <2>1. i - 1 \in 1..Len(q) - 1 /\ i - 1 + 1 = i
    BY <1>1, <1>2
  <2>2. Tail(q)[i - 1] = x
    BY <1>1, <1>2, <2>1
  <2> QED
    BY <1>1, <2>1, <2>2 DEF Contains
<1> QED
  BY <1>1, <1>2 DEF Contains

LEMMA InitFbOK == FbInit => FbOK
<1> SUFFICES ASSUME FbInit
             PROVE  FbOK
  OBVIOUS
<1>1. NoFlush \in Flushes
  BY DEF NoFlush, Flushes
<1>2. \A f \in Flusher : flushing[f] = NoFlush /\ flushing[f].seen = <<>>
  BY DEF FbInit, NoFlush
<1>3. FbTypes
  BY <1>1, EmptySeq DEF FbInit, FbTypes
<1> QED
  BY <1>2, <1>3 DEF FbOK, OneLatest, AllFollowed, ListFollows, Followed, Latest, FbInit

\* What a line that is sent leaves in the channel.
LEMMA SentInto ==
  ASSUME FbTypes, NEW line \in Lines, Sent(line)
  PROVE  /\ queue' \in Seq(Lines)
         /\ \A x : Contains(queue, x) => Contains(queue', x)
         /\ queue' = queue \/ Contains(queue', line)
         /\ subscribed /\ HasRoom => Contains(queue', line)
         /\ UNCHANGED <<multipliers, pending, flushing>>
<1>1. CASE subscribed /\ HasRoom
  <2>1. queue' = Append(queue, line) /\ queue \in Seq(Lines)
    BY <1>1 DEF Sent, FbTypes
  <2> QED
    BY <1>1, <2>1, LineAdded DEF Sent
<1>2. CASE ~(subscribed /\ HasRoom)
  <2>1. queue' = queue
    BY <1>2 DEF Sent
  <2> QED
    BY <1>2, <2>1 DEF Sent, FbTypes
<1> QED
  BY <1>1, <1>2

\* A change is heard, or excused.
LEMMA ChangeOK ==
  ASSUME FbOK, NEW s \in Display, NewScene(s) \/ Plug(s)
  PROVE  FbOK'
<1>1. PICK line \in {"scene", "monitors"} :
        /\ Sent(line)
        /\ excused' = IF Unheard THEN excused \cup {s} ELSE excused
        /\ line = "monitors" \/ (UNCHANGED <<names, plugged, unlisted>>)
        /\ line = "monitors" => /\ UNCHANGED <<names, scene>>
                                /\ unlisted' = (\/ unlisted \/ ~subscribed
                                                \/ ~HasRoom /\ ~Contains(queue, "monitors"))
        /\ plugged' \subseteq Display /\ DOMAIN scene' = Display
        /\ \A t \in Display : scene'[t] \in Glare
        /\ \A t \in Display \ {s} : scene'[t] = scene[t] /\ (t \in plugged' <=> t \in plugged)
  <2>1. CASE NewScene(s)
    <3>1. PICK b \in Glare : scene' = [scene EXCEPT ![s] = b]
      BY <2>1 DEF NewScene
    <3>2. /\ DOMAIN scene' = Display /\ \A t \in Display : scene'[t] \in Glare
          /\ \A t \in Display \ {s} : scene'[t] = scene[t]
      BY <3>1 DEF FbOK, FbTypes
    <3> QED
      BY <2>1, <3>2 DEF NewScene, FbOK, FbTypes
  <2>2. CASE Plug(s)
    BY <2>2 DEF Plug, FbOK, FbTypes
  <2> QED
    BY <2>1, <2>2
<1>2. /\ queue' \in Seq(Lines)
      /\ \A x : Contains(queue, x) => Contains(queue', x)
      /\ queue' = queue \/ Contains(queue', line)
      /\ subscribed /\ HasRoom => Contains(queue', line)
      /\ UNCHANGED <<multipliers, pending, flushing>>
  BY <1>1, SentInto DEF FbOK, Lines
<1>3. FbTypes' /\ OneLatest'
  BY <1>1, <1>2 DEF FbOK, FbTypes, OneLatest, Latest
<1>4. AllFollowed'
  <2>1. CASE Relevant'
    BY <2>1 DEF AllFollowed, Followed, Coming
  <2>2. CASE ~Relevant'
    <3>1. queue' = queue /\ Unheard
      BY <1>1, <1>2, <2>2 DEF Relevant, Unheard
    <3>2. excused' = excused \cup {s}
      BY <1>1, <3>1
    <3>3. ASSUME NEW t \in Display \ {s}, Followed(t)
          PROVE  Followed(t)'
      BY <1>1, <1>2, <3>1, <3>3 DEF Followed, Coming, Relevant, Latest
    <3>4. \A t \in Display \ {s} : t \in names' \cap plugged' => t \in names \cap plugged
      BY <1>1
    <3>5. names' \subseteq Display
      BY <1>3 DEF FbTypes
    <3> QED
      BY <3>2, <3>3, <3>4, <3>5 DEF AllFollowed, FbOK
  <2> QED
    BY <2>1, <2>2
<1>5. ListFollows'
  <2>1. CASE line # "monitors"
    <3>1. UNCHANGED <<names, plugged, unlisted>>
      BY <1>1, <2>1
    <3> QED
      BY <1>2, <3>1 DEF ListFollows, FbOK
  <2>2. CASE line = "monitors" /\ subscribed /\ HasRoom
    BY <1>2, <2>2 DEF ListFollows
  <2>3. CASE line = "monitors" /\ ~(subscribed /\ HasRoom)
    <3>1. unlisted' \/ Contains(queue, "monitors")
      BY <1>1, <2>3
    <3> QED
      BY <1>2, <3>1 DEF ListFollows
  <2> QED
    BY <2>1, <2>2, <2>3
<1> QED
  BY <1>3, <1>4, <1>5 DEF FbOK

LEMMA OtherLineOK == FbOK /\ OtherLine => FbOK'
<1> SUFFICES ASSUME FbOK, OtherLine
             PROVE  FbOK'
  OBVIOUS
<1>1. /\ queue' \in Seq(Lines)
      /\ \A x : Contains(queue, x) => Contains(queue', x)
      /\ UNCHANGED <<multipliers, pending, flushing, names, plugged, scene, excused, unlisted>>
  BY SentInto DEF OtherLine, FbOK, Lines
<1>2. Relevant => Relevant'
  BY <1>1 DEF Relevant
<1> QED
  BY <1>1, <1>2 DEF FbOK, FbTypes, OneLatest, AllFollowed, ListFollows, Followed, Coming, Latest

LEMMA ReceiveOK == FbOK /\ Receive => FbOK'
<1> SUFFICES ASSUME FbOK, Receive
             PROVE  FbOK'
  OBVIOUS
<1>1. /\ queue # <<>> /\ queue' = Tail(queue)
      /\ pending' = (pending \/ Head(queue) # "other")
      /\ UNCHANGED <<plugged, multipliers, scene, flushing, excused>>
  BY DEF Receive
<1>2. /\ queue' \in Seq(Lines)
      /\ \A x : Contains(queue, x) => x = Head(queue) \/ Contains(queue', x)
  BY <1>1, LineTaken DEF FbOK, FbTypes
<1>3. \/ Head(queue) = "monitors" /\ (names' = plugged \/ unlisted')
      \/ Head(queue) # "monitors" /\ UNCHANGED <<names, unlisted>>
  BY DEF Receive, RefreshMonitors
<1>4. names' \subseteq Display /\ unlisted' \in BOOLEAN
  BY DEF Receive, RefreshMonitors, FbOK, FbTypes
<1>5. FbTypes' /\ OneLatest'
  BY <1>1, <1>2, <1>4 DEF FbOK, FbTypes, OneLatest, Latest
<1>6. AllFollowed'
  <2>1. CASE pending'
    BY <2>1 DEF AllFollowed, Followed, Coming
  <2>2. CASE ~pending'
    <3>1. Head(queue) = "other" /\ ~pending /\ UNCHANGED names
      BY <1>1, <1>3, <2>2
    <3>2. Relevant => Relevant'
      BY <1>2, <3>1 DEF Relevant
    <3>3. ASSUME NEW s, Followed(s)
          PROVE  Followed(s)'
      <4>1. Coming => Coming'
        BY <1>1, <3>1, <3>2 DEF Coming
      <4> QED
        BY <1>1, <3>3, <4>1 DEF Followed, Latest
    <3> QED
      BY <1>1, <3>1, <3>3 DEF AllFollowed, FbOK
  <2> QED
    BY <2>1, <2>2
<1>7. ListFollows'
  BY <1>1, <1>2, <1>3 DEF ListFollows, FbOK
<1> QED
  BY <1>5, <1>6, <1>7 DEF FbOK

\* A goroutine that starts is going to measure every screen.
LEMMA FlushStartsOK ==
  ASSUME FbTypes, OneLatest, NEW f \in Flusher, FlushStarts(f)
  PROVE  flushing' \in [Flusher -> Flushes] /\ OneLatest' /\ Coming'
<1>1. flushing[f] = NoFlush /\ flushing' = [flushing EXCEPT ![f].asleep = TRUE]
  BY DEF FlushStarts
<1>2. flushing \in [Flusher -> Flushes]
  BY DEF FbTypes
<1> DEFINE new == [flushing[f] EXCEPT !.asleep = TRUE]
<1>3. new \in Flushes /\ new.asleep /\ new.seen = <<>>
  <2>1. NoFlush \in Flushes /\ NoFlush.seen = <<>>
    BY DEF NoFlush, Flushes
  <2> QED
    BY <1>1, <2>1 DEF Flushes
<1>4. flushing' = [flushing EXCEPT ![f] = new]
  BY <1>1
<1> HIDE DEF new
<1>5. flushing' \in [Flusher -> Flushes]
  BY <1>2, <1>3, <1>4
<1>6. /\ flushing'[f].asleep /\ flushing'[f].seen = <<>>
      /\ \A g \in Flusher \ {f} : flushing'[g] = flushing[g]
  BY <1>2, <1>3, <1>4
<1>7. \A g \in Flusher, s \in Display : Latest(g, s)' => g # f /\ Latest(g, s)
  BY <1>6 DEF Latest
<1> QED
  BY <1>5, <1>6, <1>7 DEF Coming, OneLatest

LEMMA DebouncedOK ==
  ASSUME FbOK, NEW f \in Flusher, Debounced(f)
  PROVE  FbOK'
<1>1. FlushStarts(f) /\ UNCHANGED <<names, plugged, multipliers, scene, queue, unlisted>>
      /\ pending' = FALSE
  BY DEF Debounced
<1> QED
  BY <1>1, FlushStartsOK DEF FbOK, FbTypes, AllFollowed, Followed, ListFollows

LEMMA DisconnectedOK ==
  ASSUME FbOK, NEW f \in Flusher, Disconnected(f)
  PROVE  FbOK'
<1>1. /\ IF pending THEN FlushStarts(f) ELSE UNCHANGED flushing
      /\ pending' = FALSE /\ queue' = <<>>
      /\ excused' = IF Relevant /\ ~pending THEN Display ELSE excused
      /\ unlisted' = (unlisted \/ Contains(queue, "monitors"))
      /\ UNCHANGED <<names, plugged, multipliers, scene>>
  BY DEF Disconnected
<1>2. flushing' \in [Flusher -> Flushes] /\ OneLatest' /\ (pending => Coming')
  BY <1>1, FlushStartsOK DEF FbOK, FbTypes, OneLatest, Latest
<1>3. FbTypes'
  BY <1>1, <1>2, EmptySeq DEF FbOK, FbTypes
<1>4. AllFollowed'
  <2>1. CASE pending
    BY <1>2, <2>1 DEF AllFollowed, Followed
  <2>2. CASE ~pending /\ Relevant
    BY <1>1, <2>2 DEF AllFollowed, FbOK, FbTypes
  <2>3. CASE ~pending /\ ~Relevant
    BY <1>1, <2>3 DEF AllFollowed, FbOK, Followed, Coming, Latest
  <2> QED
    BY <2>1, <2>2, <2>3
<1> QED
  BY <1>1, <1>2, <1>3, <1>4 DEF FbOK, ListFollows

LEMMA CalculateOK ==
  ASSUME FbOK, NEW f \in Flusher, CalculateAllMonitors(f)
  PROVE  FbOK'
<1>1. /\ flushing' = [flushing EXCEPT ![f] = [NoFlush EXCEPT !.todo = names]]
      /\ UNCHANGED <<names, plugged, multipliers, scene, queue, pending, excused, unlisted>>
  BY DEF CalculateAllMonitors
<1> DEFINE new == [NoFlush EXCEPT !.todo = names]
<1>2. NoFlush \in Flushes /\ NoFlush.seen = <<>>
  BY DEF NoFlush, Flushes
<1>3. new \in Flushes /\ new.todo = names /\ new.seen = <<>>
  BY <1>2 DEF FbOK, FbTypes, Flushes
<1>4. flushing \in [Flusher -> Flushes]
  BY DEF FbOK, FbTypes
<1> HIDE DEF new
<1>5. /\ flushing'[f].todo = names /\ flushing'[f].seen = <<>>
      /\ flushing' \in [Flusher -> Flushes]
      /\ \A g \in Flusher \ {f} : flushing'[g] = flushing[g]
  BY <1>1, <1>3, <1>4 DEF new
<1>6. \A g \in Flusher, s \in Display : Latest(g, s)' => g # f /\ Latest(g, s)
  BY <1>5 DEF Latest
<1>7. AllFollowed'
  BY <1>1, <1>5 DEF AllFollowed, Followed
<1> QED
  BY <1>1, <1>5, <1>6, <1>7 DEF FbOK, FbTypes, OneLatest, ListFollows

LEMMA MeasureSucceedsOK ==
  ASSUME FbOK, NEW f \in Flusher, NEW s \in Display, s \in flushing[f].todo,
         flushing[f].seen = <<>>, MeasureSucceeds(f, s),
         UNCHANGED <<names, plugged, multipliers, scene, queue, pending, unlisted>>
  PROVE  FbOK'
<1> DEFINE done == [flushing[f] EXCEPT !.todo = @ \ {s}, !.seen = <<s, scene[s], TRUE>>]
           stale(g) == [flushing[g] EXCEPT !.seen = <<s, flushing[g].seen[2], FALSE>>]
<1>1. /\ flushing' = [g \in Flusher |-> IF g = f THEN done ELSE
                        IF Latest(g, s) THEN stale(g) ELSE flushing[g]]
      /\ excused' = excused \ {s}
  BY DEF MeasureSucceeds
<1>2. \A g \in Flusher : flushing[g] \in Flushes
  BY DEF FbOK, FbTypes
<1>3. done \in Flushes
  BY <1>2 DEF Flushes, FbOK, FbTypes
<1>4. ASSUME NEW g \in Flusher, Latest(g, s)
      PROVE  /\ stale(g) \in Flushes /\ stale(g).todo = flushing[g].todo
             /\ stale(g).asleep = flushing[g].asleep /\ ~stale(g).seen[3]
             /\ stale(g).seen[1] = s
  <2>1. flushing[g].seen[2] \in Glare
    BY <1>2, <1>4 DEF Latest, Flushes
  <2>2. <<s, flushing[g].seen[2], FALSE>> \in Display \X Glare \X BOOLEAN
    BY <2>1
  <2> QED
    BY <1>2, <2>2 DEF Flushes
<1>5. /\ done.todo = flushing[f].todo \ {s} /\ done.asleep = flushing[f].asleep
      /\ done.seen # <<>> /\ done.seen[1] = s /\ done.seen[2] = scene[s] /\ done.seen[3] = TRUE
  BY <1>2 DEF Flushes
<1> HIDE DEF done, stale
<1>6. flushing' \in [Flusher -> Flushes]
  BY <1>1, <1>2, <1>3, <1>4
<1>7. flushing'[f] = done
  BY <1>1
<1>8. \A g \in Flusher \ {f} : /\ flushing'[g].todo = flushing[g].todo
                               /\ flushing'[g].asleep = flushing[g].asleep
                               /\ ~Latest(g, s)'
                               /\ ~Latest(g, s) => flushing'[g] = flushing[g]
  BY <1>1, <1>4 DEF Latest
<1>9. ASSUME NEW g \in Flusher \ {f}, NEW t \in Display \ {s}
      PROVE  /\ Latest(g, t)' <=> Latest(g, t)
             /\ Latest(g, t) => flushing'[g].seen[2] = flushing[g].seen[2]
  BY <1>1, <1>4, <1>8 DEF Latest
<1>10. Latest(f, s)' /\ flushing'[f].seen[2] = scene[s]
       /\ \A t \in Display \ {s} : ~Latest(f, t)' /\ ~Latest(f, t)
  BY <1>5, <1>7 DEF Latest
<1>11. OneLatest'
  BY <1>8, <1>9, <1>10 DEF OneLatest, FbOK
<1>12. AllFollowed'
  <2>1. Followed(s)'
    BY <1>10 DEF Followed
  <2>2. ASSUME NEW t \in names \cap plugged, t # s
        PROVE  t \in excused' \/ Followed(t)'
    <3>0. t \in Display
      BY DEF FbOK, FbTypes
    <3>1. CASE t \in excused
      BY <1>1, <2>2, <3>1
    <3>2. CASE Coming
      <4>1. \A g \in Flusher : flushing'[g].asleep = flushing[g].asleep
        BY <1>5, <1>7, <1>8
      <4> QED
        BY <3>2, <4>1 DEF Followed, Coming, Relevant
    <3>3. CASE \E g \in Flusher : t \in flushing[g].todo
      BY <1>5, <1>7, <1>8, <2>2, <3>3 DEF Followed
    <3>4. CASE \E g \in Flusher : Latest(g, t) /\ flushing[g].seen[2] = scene[t]
      BY <1>9, <1>10, <2>2, <3>0, <3>4 DEF Followed
    <3>5. CASE multipliers[t] = scene[t] /\ \A g \in Flusher : ~Latest(g, t)
      BY <1>9, <1>10, <2>2, <3>0, <3>5 DEF Followed
    <3> QED
      BY <2>2, <3>1, <3>2, <3>3, <3>4, <3>5 DEF FbOK, AllFollowed, Followed
  <2> QED
    BY <2>1, <2>2 DEF AllFollowed
<1> QED
  BY <1>6, <1>11, <1>12 DEF FbOK, FbTypes, ListFollows

LEMMA MeasureFailsOK ==
  ASSUME FbOK, NEW f \in Flusher, NEW s \in Display, s \in flushing[f].todo,
         flushing[f].seen = <<>>, MeasureFails(f, s),
         UNCHANGED <<names, plugged, multipliers, scene, queue, pending, unlisted>>
  PROVE  FbOK'
<1> DEFINE done == [flushing[f] EXCEPT !.todo = @ \ {s}]
<1>1. /\ flushing' = [flushing EXCEPT ![f] = done]
      /\ s \in plugged => s \in excused'
      /\ \A t \in excused : t \in excused'
  BY DEF MeasureFails
<1>2. flushing[f] \in Flushes /\ flushing \in [Flusher -> Flushes]
  BY DEF FbOK, FbTypes
<1>3. /\ done \in Flushes /\ done.todo = flushing[f].todo \ {s}
      /\ done.asleep = flushing[f].asleep /\ done.seen = flushing[f].seen
  BY <1>2 DEF Flushes
<1> HIDE DEF done
<1>4. /\ flushing' \in [Flusher -> Flushes] /\ flushing'[f] = done
      /\ \A g \in Flusher \ {f} : flushing'[g] = flushing[g]
  BY <1>1, <1>2, <1>3
<1>5. \A g \in Flusher : /\ flushing'[g].asleep = flushing[g].asleep
                         /\ flushing'[g].seen = flushing[g].seen
                         /\ \A t \in flushing[g].todo : t # s => t \in flushing'[g].todo
  BY <1>3, <1>4
<1>6. \A g \in Flusher, t \in Display : Latest(g, t)' <=> Latest(g, t)
  BY <1>5 DEF Latest
<1>7. ASSUME NEW t \in names \cap plugged
      PROVE  t \in excused' \/ Followed(t)'
  <2>1. t \in Display
    BY DEF FbOK, FbTypes
  <2>2. CASE t = s \/ t \in excused
    BY <1>1, <1>7, <2>2
  <2>3. CASE t # s /\ Followed(t)
    BY <1>5, <1>6, <2>1, <2>3 DEF Followed, Coming, Relevant
  <2> QED
    BY <1>7, <2>2, <2>3 DEF FbOK, AllFollowed
<1> QED
  BY <1>4, <1>6, <1>7 DEF FbOK, FbTypes, OneLatest, AllFollowed, ListFollows

LEMMA StoreMultiplierOK ==
  ASSUME FbOK, NEW f \in Flusher, StoreMultiplier(f)
  PROVE  FbOK'
<1> DEFINE s == flushing[f].seen[1]
           done == [flushing[f] EXCEPT !.seen = <<>>]
<1>1. /\ flushing[f].seen # <<>>
      /\ multipliers' = [multipliers EXCEPT ![s] = flushing[f].seen[2]]
      /\ excused' = IF \E g \in Flusher : Latest(g, s) THEN excused ELSE excused \cup {s}
      /\ flushing' = [flushing EXCEPT ![f] = done]
      /\ UNCHANGED <<names, plugged, scene, queue, pending, unlisted>>
  BY DEF StoreMultiplier
<1>2. flushing[f] \in Flushes /\ flushing \in [Flusher -> Flushes]
  BY DEF FbOK, FbTypes
<1>3. /\ done \in Flushes /\ done.todo = flushing[f].todo
      /\ done.asleep = flushing[f].asleep /\ done.seen = <<>> /\ s \in Display
  BY <1>1, <1>2 DEF Flushes
<1> HIDE DEF s, done
<1>4. /\ flushing' \in [Flusher -> Flushes] /\ flushing'[f] = done
      /\ \A g \in Flusher \ {f} : flushing'[g] = flushing[g]
  BY <1>1, <1>2, <1>3
<1>5. /\ \A g \in Flusher : /\ flushing'[g].asleep = flushing[g].asleep
                            /\ flushing'[g].todo = flushing[g].todo
      /\ \A t \in Display : ~Latest(f, t)'
      /\ \A g \in Flusher \ {f}, t \in Display :
            /\ Latest(g, t)' <=> Latest(g, t)
            /\ flushing'[g].seen = flushing[g].seen
  BY <1>3, <1>4 DEF Latest
<1>6. /\ DOMAIN multipliers' = Display /\ multipliers'[s] = flushing[f].seen[2]
      /\ \A t \in Display \ {s} : multipliers'[t] = multipliers[t] /\ ~Latest(f, t)
  <2>1. DOMAIN multipliers = Display
    BY DEF FbOK, FbTypes
  <2> QED
    BY <1>1, <1>3, <2>1 DEF Latest, s
<1>7. FbTypes' /\ OneLatest'
  BY <1>1, <1>4, <1>5, <1>6 DEF FbOK, FbTypes, OneLatest
<1>8. ASSUME NEW t \in names \cap plugged
      PROVE  t \in excused' \/ Followed(t)'
  <2>1. t \in Display
    BY DEF FbOK, FbTypes
  <2>2. CASE t \in excused
    BY <1>1, <2>2
  <2>3. CASE Coming \/ \E g \in Flusher : t \in flushing[g].todo
    BY <1>1, <1>5, <2>3 DEF Followed, Coming, Relevant
  <2>4. CASE t # s /\ Followed(t)
    BY <1>1, <1>5, <1>6, <2>1, <2>4 DEF Followed, Coming, Relevant
  <2>5. CASE t = s /\ ~\E g \in Flusher : Latest(g, s)
    BY <1>1, <2>5
  <2>6. CASE t = s /\ Latest(f, s) /\ Followed(t)
    <3>1. \A g \in Flusher \ {f} : ~Latest(g, s)
      BY <1>3, <2>6 DEF FbOK, OneLatest
    <3>2. flushing[f].seen[2] = scene[s] \/ Coming \/ \E g \in Flusher : t \in flushing[g].todo
      BY <2>6, <3>1 DEF Followed
    <3>3. CASE flushing[f].seen[2] = scene[s]
      BY <1>1, <1>3, <1>5, <1>6, <2>6, <3>1, <3>3 DEF Followed
    <3> QED
      BY <2>3, <3>2, <3>3
  <2>7. ASSUME t = s, NEW g \in Flusher \ {f}, Latest(g, s), Followed(t)
        PROVE  Followed(t)'
    <3>1. \A h \in Flusher : Latest(h, s) => h = g
      BY <1>3, <2>7 DEF FbOK, OneLatest
    <3>2. flushing[g].seen[2] = scene[s] \/ Coming \/ \E h \in Flusher : t \in flushing[h].todo
      BY <2>7, <3>1 DEF Followed
    <3>3. CASE flushing[g].seen[2] = scene[s]
      <4>1. Latest(g, t)' /\ flushing'[g].seen[2] = scene'[t]
        BY <1>1, <1>5, <2>1, <2>7, <3>3
      <4> QED
        BY <2>7, <4>1 DEF Followed
    <3>4. CASE Coming \/ \E h \in Flusher : t \in flushing[h].todo
      BY <1>1, <1>5, <3>4 DEF Followed, Coming, Relevant
    <3> QED
      BY <3>2, <3>3, <3>4
  <2> QED
    BY <1>8, <2>2, <2>4, <2>5, <2>6, <2>7 DEF FbOK, AllFollowed
<1>9. AllFollowed' /\ ListFollows'
  BY <1>1, <1>8 DEF AllFollowed, ListFollows, FbOK
<1> QED
  BY <1>7, <1>9 DEF FbOK

LEMMA NextFbOK == FbOK /\ [FbNext]_fbVars => FbOK'
<1> SUFFICES ASSUME FbOK, [FbNext]_fbVars
             PROVE  FbOK'
  OBVIOUS
<1>1. CASE Subscribe \/ UNCHANGED fbVars
  BY <1>1 DEF Subscribe, fbVars, FbOK, FbTypes, OneLatest, AllFollowed, ListFollows, Followed,
              Coming, Relevant, Latest
<1>2. ASSUME NEW f \in Flusher, NEW s \in Display, Measure(f, s)
      PROVE  FbOK'
  BY <1>2, MeasureSucceedsOK, MeasureFailsOK DEF Measure
<1> QED
  BY <1>1, <1>2, OtherLineOK, ChangeOK, ReceiveOK, DebouncedOK, DisconnectedOK, CalculateOK,
     StoreMultiplierOK DEF FbNext, Flush

\* For any number of screens, of goroutines and of places in the channel: when the channel is
\* empty, nothing is pending and no goroutine measures, every screen in the list has the
\* multiplier of what it shows and the list is that of the monitors, however the flushes
\* overlapped, unless the change was heard by nobody or the last measurement or refresh
\* failed or was overtaken.
THEOREM MultipliersFollow == FbSpec => []MultipliersExact
<1>1. ASSUME FbOK, FbAtRest
      PROVE  /\ \A s \in names \cap plugged : s \in excused \/ multipliers[s] = scene[s]
             /\ unlisted \/ names = plugged
  <2>1. \A x : ~Contains(queue, x)
    BY <1>1, EmptySeq DEF FbAtRest, Contains
  <2>2. \A f \in Flusher : /\ ~flushing[f].asleep /\ flushing[f].todo = {}
                           /\ flushing[f].seen = <<>>
    BY <1>1 DEF FbAtRest, NoFlush
  <2>3. ~Coming
    BY <1>1, <2>1, <2>2 DEF Coming, Relevant, FbAtRest
  <2>4. \A s \in names \cap plugged : Followed(s) => multipliers[s] = scene[s]
    BY <2>2, <2>3 DEF Followed, Latest
  <2> QED
    BY <1>1, <2>1, <2>4 DEF FbOK, AllFollowed, ListFollows
<1>2. FbOK => MultipliersExact
  BY <1>1 DEF MultipliersExact
<1> QED
  BY <1>2, InitFbOK, NextFbOK, PTL DEF FbSpec

----------------------------------------------------------------------------
(* What is on its way to the frontend.                                     *)

\* What a frontend that shows v shows in the end: the last copy in line.
Newest(line, v) == IF line = <<>> THEN v ELSE line[Len(line)][2]

LEMMA AnotherInLine ==
  ASSUME NEW S, NEW line \in Seq(S), NEW e \in S, NEW v
  PROVE  Append(line, e) \in Seq(S) /\ Newest(Append(line, e), v) = e[2]
<1>1. /\ Append(line, e) \in Seq(S) /\ Append(line, e) # <<>>
      /\ Len(Append(line, e)) = Len(line) + 1 /\ Append(line, e)[Len(line) + 1] = e
  BY AppendProperties
<1> QED
  BY <1>1 DEF Newest

LEMMA RemovedFromLine ==
  ASSUME NEW S, NEW line \in Seq(S), NEW i \in DOMAIN line
  PROVE  /\ RemoveAt(line, i) \in Seq(S)
         /\ \A v : i = 1 => Newest(RemoveAt(line, i), line[i][2]) = Newest(line, v)
<1> DEFINE n == Len(line)
           a == SubSeq(line, 1, i - 1)
           b == SubSeq(line, i + 1, n)
<1>1. n \in Nat /\ DOMAIN line = 1..n /\ i \in 1..n /\ \A j \in 1..n : line[j] \in S
  BY LenProperties, ElementOfSeq
<1>2. /\ a \in Seq(S) /\ Len(a) = i - 1
  <2>1. \A j \in 1..i - 1 : line[j] \in S
    BY <1>1
  <2>2. i - 1 \in Int /\ 1 \in Int
    BY <1>1
  <2> HIDE DEF n
  <2>3. /\ a \in Seq(S) /\ Len(a) = IF 1 <= i - 1 THEN i - 1 - 1 + 1 ELSE 0
    BY <2>1, <2>2, SubSeqProperties
  <2> HIDE DEF a
  <2> QED
    BY <1>1, <2>3
<1>3. /\ b \in Seq(S) /\ Len(b) = n - i
      /\ \A j \in 1..n - i : b[j] = line[i + j]
  <2>1. \A j \in i + 1..n : line[j] \in S
    BY <1>1
  <2>2. i + 1 \in Int /\ n \in Int
    BY <1>1
  <2> HIDE DEF n
  <2>3. /\ b \in Seq(S) /\ Len(b) = IF i + 1 <= n THEN n - (i + 1) + 1 ELSE 0
        /\ \A j \in 1..n - (i + 1) + 1 : b[j] = line[i + 1 + j - 1]
    BY <2>1, <2>2, SubSeqProperties
  <2> HIDE DEF b
  <2>4. i \in Int /\ i <= n /\ n \in Int /\ n - (i + 1) + 1 = n - i
    BY <1>1, <2>2
  <2>5. Len(b) = n - i
    BY <2>3, <2>4
  <2>6. ASSUME NEW j \in 1..n - i
        PROVE  b[j] = line[i + j]
    <3>1. i + 1 + j - 1 = i + j /\ j \in 1..n - (i + 1) + 1
      BY <2>4
    <3>2. b[j] = line[i + 1 + j - 1]
      BY <2>3, <3>1
    <3> QED
      BY <3>1, <3>2
  <2> QED
    BY <2>3, <2>5, <2>6
<1>4. RemoveAt(line, i) = a \o b
  BY DEF RemoveAt
<1> HIDE DEF n, a, b
<1>5. /\ a \o b \in Seq(S) /\ Len(a \o b) = n - 1
      /\ i = 1 => \A j \in 1..n - 1 : (a \o b)[j] = line[j + 1]
  <2>1. /\ a \o b \in Seq(S) /\ Len(a \o b) = Len(a) + Len(b)
        /\ \A j \in 1..Len(a) + Len(b) : (a \o b)[j] = IF j <= Len(a) THEN a[j] ELSE b[j - Len(a)]
    BY <1>2, <1>3, ConcatProperties
  <2>2. i \in Int /\ n \in Int
    BY <1>1
  <2>3. Len(a \o b) = n - 1
    BY <1>2, <1>3, <2>1, <2>2
  <2>4. ASSUME i = 1, NEW j \in 1..n - 1
        PROVE  (a \o b)[j] = line[j + 1]
    <3>1. Len(a) = 0 /\ Len(b) = n - 1
      BY <1>2, <1>3, <2>4
    <3>2. (a \o b)[j] = b[j]
      BY <2>1, <2>2, <3>1
    <3>3. b[j] = line[1 + j]
      BY <1>3, <2>4
    <3> QED
      BY <3>2, <3>3
  <2> QED
    BY <2>1, <2>3, <2>4
<1>6. ASSUME i = 1, NEW v
      PROVE  Newest(a \o b, line[i][2]) = Newest(line, v)
  <2>1. line # <<>> /\ Newest(line, v) = line[n][2]
    BY <1>1, EmptySeq DEF Newest, n
  <2>2. CASE n = 1
    <3>1. a \o b = <<>>
      BY <1>5, <2>2, EmptySeq
    <3> QED
      BY <1>6, <2>1, <2>2, <3>1 DEF Newest
  <2>3. CASE n # 1
    <3>1. n - 1 \in 1..n - 1 /\ a \o b # <<>> /\ n - 1 + 1 = n
      BY <1>1, <1>5, <2>3, EmptySeq
    <3>2. (a \o b)[n - 1] = line[n]
      BY <1>5, <1>6, <3>1
    <3> QED
      BY <1>5, <2>1, <3>1, <3>2 DEF Newest
  <2> QED
    BY <2>2, <2>3
<1> QED
  BY <1>4, <1>5, <1>6

----------------------------------------------------------------------------
(* The brightness.                                                         *)

BrSpec == BrInit /\ [][BrNext]_brVars

Lists == [Screen -> Int]

\* The copy emitted last is the list.
EmittedInOrder ==
  /\ known \in Lists /\ poll.now \in Lists \cup {<<>>}
  /\ poll = [was |-> poll.was, now |-> poll.now, todo |-> poll.todo]
  /\ poll # NoPoll => poll.now \in Lists
  /\ emitting \in Seq({"request", "poll"} \X Lists)
  /\ ~crossed => Newest(emitting, shown) = known

\* A client that has all the copies shows the list the service holds, unless two of them
\* crossed.
ShownIsKnown == emitting = <<>> => shown = known \/ crossed

LEMMA StoreOK ==
  ASSUME EmittedInOrder, NEW by \in {"request", "poll"}, NEW list \in Lists, Store(by, list),
         UNCHANGED <<shown, crossed>>,
         poll' = [was |-> poll'.was, now |-> poll'.now, todo |-> poll'.todo],
         poll'.now \in Lists \cup {<<>>}, poll' # NoPoll => poll'.now \in Lists
  PROVE  EmittedInOrder'
<1>1. <<by, list>> \in {"request", "poll"} \X Lists /\ <<by, list>>[2] = list
  OBVIOUS
<1>2. known' = list /\ emitting' = Append(emitting, <<by, list>>)
  BY DEF Store
<1>3. emitting' \in Seq({"request", "poll"} \X Lists) /\ Newest(emitting', shown) = list
  <2> DEFINE e == <<by, list>>
             S == {"request", "poll"} \X Lists
  <2>1. e \in S /\ e[2] = list /\ emitting \in Seq(S) /\ emitting' = Append(emitting, e)
    BY <1>1, <1>2 DEF EmittedInOrder
  <2> HIDE DEF e, S
  <2>2. Append(emitting, e) \in Seq(S) /\ Newest(Append(emitting, e), shown) = e[2]
    BY <2>1, AnotherInLine
  <2>3. emitting' \in Seq(S) /\ Newest(emitting', shown) = list
    BY <2>1, <2>2
  <2> QED
    BY <2>3 DEF S
<1> QED
  BY <1>2, <1>3 DEF EmittedInOrder

LEMMA EmittedOK ==
  ASSUME EmittedInOrder, NEW i \in DOMAIN emitting, Emitted(i)
  PROVE  EmittedInOrder'
<1>1. /\ shown' = emitting[i][2] /\ emitting' = RemoveAt(emitting, i)
      /\ crossed' = (crossed \/ i # 1) /\ UNCHANGED <<known, poll>>
  BY DEF Emitted
<1>2. /\ emitting' \in Seq({"request", "poll"} \X Lists)
      /\ i = 1 => Newest(emitting', shown') = Newest(emitting, shown)
  BY <1>1, RemovedFromLine DEF EmittedInOrder
<1> QED
  BY <1>1, <1>2 DEF EmittedInOrder

LEMMA PollOK == EmittedInOrder /\ Poll => EmittedInOrder'
<1> SUFFICES ASSUME EmittedInOrder, Poll
             PROVE  EmittedInOrder'
  OBVIOUS
<1>1. CASE StartPoll
  BY <1>1 DEF StartPoll, EmittedInOrder
<1>2. ASSUME NEW s \in Screen, ReadPanel(s)
      PROVE  EmittedInOrder'
  <2>1. PICK level \in 0..Levels :
          poll' = [poll EXCEPT !.now[s] = level, !.todo = @ \ {s}]
    BY <1>2, Zenon DEF ReadPanel
  <2>2. s \in poll.todo /\ UNCHANGED <<known, emitting, shown, crossed>>
    BY <1>2 DEF ReadPanel
  <2>3. poll # NoPoll
    BY <2>2 DEF NoPoll
  <2> DEFINE now == [poll.now EXCEPT ![s] = level]
  <2>4. now \in Lists
    BY <2>3 DEF EmittedInOrder, Lists
  <2>5. /\ poll'.now = now
        /\ poll' = [was |-> poll'.was, now |-> poll'.now, todo |-> poll'.todo]
    BY <2>1 DEF EmittedInOrder
  <2> HIDE DEF now
  <2> QED
    BY <2>2, <2>4, <2>5 DEF EmittedInOrder
<1>3. CASE EndPoll
  <2>1. /\ poll # NoPoll /\ poll' = NoPoll /\ UNCHANGED <<shown, crossed>>
        /\ Store("poll", poll.now) \/ UNCHANGED <<known, emitting>>
    BY <1>3 DEF EndPoll
  <2>2. /\ poll.now \in Lists /\ poll'.now = <<>>
        /\ poll' = [was |-> poll'.was, now |-> poll'.now, todo |-> poll'.todo]
    BY <2>1 DEF EmittedInOrder, NoPoll
  <2> QED
    BY <2>1, <2>2, StoreOK DEF EmittedInOrder
<1> QED
  BY <1>1, <1>2, <1>3 DEF Poll

LEMMA RequestsOK ==
  ASSUME Levels \in Nat, EmittedInOrder, NEW s \in Screen,
         EmitBrightness \/ SetBrightness(s) \/ IncrementBrightness(s)
  PROVE  EmittedInOrder'
<1>1. UNCHANGED <<poll, shown, crossed>>
  BY DEF EmitBrightness, SetBrightness, IncrementBrightness, SetTo
<1>2. \E list \in Lists : Store("request", list)
  <2>1. CASE EmitBrightness
    BY <2>1 DEF EmitBrightness, EmittedInOrder
  <2>2. ASSUME NEW value \in Int, SetTo(s, value)
        PROVE  \E list \in Lists : Store("request", list)
    <3>1. [known EXCEPT ![s] = value] \in Lists
      BY DEF EmittedInOrder, Lists
    <3> QED
      BY <2>2, <3>1 DEF SetTo
  <2>3. CASE SetBrightness(s)
    BY <2>2, <2>3 DEF SetBrightness
  <2>4. CASE IncrementBrightness(s)
    <3>1. PICK delta \in {-1, 1} : SetTo(s, Clamped(known[s] + delta))
      BY <2>4 DEF IncrementBrightness
    <3>2. known[s] \in Int
      BY DEF EmittedInOrder, Lists
    <3>3. Clamped(known[s] + delta) \in Int
      BY <3>2 DEF Clamped
    <3> QED
      BY <2>2, <3>1, <3>3
  <2> QED
    BY <2>1, <2>3, <2>4
<1> QED
  BY <1>1, <1>2, StoreOK DEF EmittedInOrder

LEMMA NextEmitted ==
  ASSUME Levels \in Nat, EmittedInOrder, [BrNext]_brVars
  PROVE  EmittedInOrder'
<1>1. CASE UNCHANGED brVars
  BY <1>1 DEF brVars, EmittedInOrder
<1>2. ASSUME NEW i \in DOMAIN setting, ToolSets(i)
      PROVE  EmittedInOrder'
  BY <1>2 DEF ToolSets, EmittedInOrder
<1>3. CASE EmitBrightness
  <2>1. known \in Lists /\ Store("request", known) /\ UNCHANGED <<poll, shown, crossed>>
    BY <1>3 DEF EmitBrightness, EmittedInOrder
  <2> QED
    BY <2>1, StoreOK DEF EmittedInOrder
<1> QED
  BY <1>1, <1>2, <1>3, PollOK, RequestsOK, EmittedOK DEF BrNext

\* Whatever requests, polls and stale copies interleave, a client that has been sent every
\* copy shows the list the service holds, unless a copy overtook another.
THEOREM BrightnessIsShown ==
  ASSUME Levels \in Nat
  PROVE  BrSpec => []ShownIsKnown
<1>1. BrInit => EmittedInOrder
  <2> SUFFICES ASSUME BrInit PROVE EmittedInOrder
    OBVIOUS
  <2>1. known \in Lists /\ emitting = <<>> /\ shown = known /\ poll = NoPoll
    BY DEF BrInit, Lists
  <2> QED
    BY <2>1, EmptySeq DEF EmittedInOrder, NoPoll, Newest
<1>2. EmittedInOrder => ShownIsKnown
  BY DEF EmittedInOrder, ShownIsKnown, Newest
<1> QED
  BY <1>1, <1>2, NextEmitted, PTL DEF BrSpec

----------------------------------------------------------------------------
(* The status services.                                                    *)

StSpec == StInit /\ [][StNext]_stVars

\* The copy taken last is what is stored.
CalledInOrder ==
  /\ source \in Int /\ stored \in Int /\ read \in [Worker -> Int]
  /\ calls \in Seq(Worker \X Int)
  /\ ~astray => Newest(calls, view) = stored

\* A frontend that has been called with every copy shows what is stored.
ViewIsStored == calls = <<>> => view = stored \/ astray

\* A read, or a change of something else.
LEMMA NotStored ==
  ASSUME CalledInOrder, UNCHANGED <<stored, view, calls>>, astray => astray',
         source' \in Int,
         read' = read \/ \E w \in Worker, v \in Int : read' = [read EXCEPT ![w] = v]
  PROVE  CalledInOrder'
<1>1. read' \in [Worker -> Int]
  BY DEF CalledInOrder
<1> QED
  BY <1>1 DEF CalledInOrder

LEMMA StoredAndCalled ==
  ASSUME CalledInOrder, NEW w \in Worker, NEW v \in Int, calls' = Append(calls, <<w, v>>),
         ~astray' => stored' = v, stored' \in Int, UNCHANGED view,
         source' \in Int,
         read' = read \/ \E x \in Worker, y \in Int : read' = [read EXCEPT ![x] = y]
  PROVE  CalledInOrder'
<1> DEFINE e == <<w, v>>
           S == Worker \X Int
<1>1. e \in S /\ e[2] = v /\ calls \in Seq(S)
  BY DEF CalledInOrder
<1>2. calls' \in Seq(S) /\ Newest(calls', view) = v
  <2>1. calls' = Append(calls, e)
    OBVIOUS
  <2> HIDE DEF e, S
  <2>2. Append(calls, e) \in Seq(S) /\ Newest(Append(calls, e), view) = e[2]
    BY <1>1, AnotherInLine
  <2> QED
    BY <1>1, <2>1, <2>2
<1>3. read' \in [Worker -> Int]
  BY DEF CalledInOrder
<1> QED
  BY <1>2, <1>3 DEF CalledInOrder

LEMMA DeliverOK ==
  ASSUME CalledInOrder, NEW i \in 1..Len(calls), Deliver(i)
  PROVE  CalledInOrder'
<1>1. /\ view' = calls[i][2] /\ calls' = RemoveAt(calls, i)
      /\ astray' = (astray \/ i # 1) /\ UNCHANGED <<source, stored, read>>
  BY DEF Deliver
<1>2. i \in DOMAIN calls
  BY DEF Deliver
<1>3. /\ calls' \in Seq(Worker \X Int)
      /\ i = 1 => Newest(calls', view') = Newest(calls, view)
  BY <1>1, <1>2, RemovedFromLine DEF CalledInOrder
<1> QED
  BY <1>1, <1>3 DEF CalledInOrder

LEMMA ReadsOK ==
  ASSUME CalledInOrder, Tick \/ MonitorLine
  PROVE  CalledInOrder'
<1>1. UNCHANGED <<source, stored, view, calls, astray>>
  BY DEF Tick, MonitorLine, Reading
<1>2. source \in Int /\ 0 \in Int /\ NoReading \in Int /\ {"ticker", "monitor"} \subseteq Worker
  BY DEF CalledInOrder, NoReading, Worker
<1>3. read' = read \/ \E w \in Worker, v \in Int : read' = [read EXCEPT ![w] = v]
  BY <1>2 DEF Tick, MonitorLine, DetectState, FetchState, CheckEffects, CheckSession,
              ReadResources, FetchAndEmit, CheckAndEmit, PollAll, Finds, Piped, Holds,
              NetworkLine, ColourSchemeLine
<1> QED
  BY <1>1, <1>3, NotStored DEF CalledInOrder

LEMMA StoreReadOK ==
  ASSUME CalledInOrder, NEW w \in Worker, StoreRead(w)
  PROVE  CalledInOrder'
<1>1. UNCHANGED <<source, view, astray>> /\ read' = [read EXCEPT ![w] = Unread]
  BY DEF StoreRead, Holds
<1>2. Unread \in Int /\ read[w] \in Int
  BY DEF Unread, CalledInOrder
<1>3. CASE UNCHANGED <<stored, calls>>
  BY <1>1, <1>2, <1>3, NotStored DEF CalledInOrder
<1>4. CASE ~UNCHANGED <<stored, calls>>
  <2> DEFINE v == IF read[w] = NoReading THEN stored ELSE read[w]
  <2>1. StoreAndCall(w, v)
    BY <1>4 DEF StoreRead
  <2>2. v \in Int
    BY <1>2 DEF CalledInOrder
  <2> HIDE DEF v
  <2> QED
    BY <1>1, <1>2, <2>1, <2>2, StoredAndCalled DEF CalledInOrder, StoreAndCall
<1> QED
  BY <1>3, <1>4

LEMMA SnapshotOK ==
  ASSUME CalledInOrder, EmitSnapshot
  PROVE  CalledInOrder'
<1> DEFINE v == IF svc = "resources" THEN source ELSE stored
<1>1. /\ calls' = Append(calls, <<"request", v>>) /\ UNCHANGED <<source, stored, view, read>>
      /\ astray' = (astray \/ (svc = "resources" /\ source # stored))
  BY DEF EmitSnapshot
<1>2. v \in Int /\ "request" \in Worker /\ (~astray' => stored' = v)
  BY <1>1 DEF CalledInOrder, Worker
<1> HIDE DEF v
<1> QED
  BY <1>1, <1>2, StoredAndCalled DEF CalledInOrder

LEMMA RequestOK ==
  ASSUME CalledInOrder, Request
  PROVE  CalledInOrder'
<1>0. UNCHANGED <<view, astray>> /\ "request" \in Worker
  BY DEF Request, Worker
<1>1. \/ ToggleGameMode \/ EnableEffects \/ DisableEffects \/ ToggleWifi \/ RescanWifi
      \/ RefreshNow \/ \E active \in {0, 1} : ToggleTemperature(active)
  BY DEF Request
<1>2. source \in Int /\ stored \in Int /\ 0 \in Int /\ 1 \in Int /\ 1 - stored \in Int
  BY DEF CalledInOrder
<1>3. ASSUME NEW v \in Int, StoreAndCall("request", v), source' \in Int, read' = read
      PROVE  CalledInOrder'
  BY <1>0, <1>3, StoredAndCalled DEF StoreAndCall
<1>4. ASSUME UNCHANGED <<stored, calls>>, source' \in Int,
             read' = read \/ \E v \in Int : Holds("request", v)
      PROVE  CalledInOrder'
  BY <1>0, <1>4, NotStored DEF Holds
<1>5. CASE ToggleGameMode
  BY <1>2, <1>3, <1>4, <1>5 DEF ToggleGameMode, EnableGameMode, DisableGameMode
<1>6. CASE EnableEffects \/ DisableEffects
  BY <1>2, <1>3, <1>4, <1>6 DEF EnableEffects, DisableEffects
<1>7. CASE ToggleWifi
  BY <1>2, <1>4, <1>7 DEF ToggleWifi
<1>8. CASE RescanWifi
  BY <1>2, <1>3, <1>8 DEF RescanWifi
<1>9. CASE RefreshNow
  BY <1>2, <1>4, <1>9 DEF RefreshNow, FetchAndEmit, Piped, Holds
<1>10. CASE \E active \in {0, 1} : ToggleTemperature(active)
  BY <1>2, <1>3, <1>10 DEF ToggleTemperature
<1> QED
  BY <1>1, <1>5, <1>6, <1>7, <1>8, <1>9, <1>10

LEMMA NextCalled == CalledInOrder /\ [StNext]_stVars => CalledInOrder'
<1> SUFFICES ASSUME CalledInOrder, [StNext]_stVars
             PROVE  CalledInOrder'
  OBVIOUS
<1>1. CASE UNCHANGED stVars
  BY <1>1, NotStored DEF stVars, CalledInOrder
<1>2. CASE SourceChanges
  <2>1. source' \in Int
    BY <1>2 DEF SourceChanges, Values
  <2> QED
    BY <1>2, <2>1, NotStored DEF SourceChanges
<1>3. CASE MonitorRestarts \/ Suspend
  BY <1>3, NotStored DEF MonitorRestarts, Suspend, CalledInOrder
<1> QED
  BY <1>1, <1>2, <1>3, ReadsOK, SnapshotOK, RequestOK, StoreReadOK, DeliverOK DEF StNext

\* Whatever reads, requests and snapshots overtake each other, a frontend that has been
\* called with every copy shows what the service holds, unless a copy was delivered before
\* an older one or was a snapshot that is not stored.
THEOREM ViewIsWhatIsStored == StSpec => []ViewIsStored
<1>1. StInit => CalledInOrder
  <2> SUFFICES ASSUME StInit PROVE CalledInOrder
    OBVIOUS
  <2>1. /\ source \in Int /\ stored \in Int /\ read \in [Worker -> Int]
        /\ calls = <<>> /\ view = stored
    BY DEF StInit, Unread
  <2> QED
    BY <2>1, EmptySeq DEF CalledInOrder, Newest
<1>2. CalledInOrder => ViewIsStored
  BY DEF CalledInOrder, ViewIsStored, Newest
<1> QED
  BY <1>1, <1>2, NextCalled, PTL DEF StSpec
=============================================================================
