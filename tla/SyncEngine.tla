----------------------------- MODULE SyncEngine -----------------------------
(***************************************************************************)
(* The configuration sync engine (internal/syncengine): one run of Run     *)
(* takes the steps of a plan in order; every step compares the deployed    *)
(* file with the baseline of the manifest and with upstream, decides,      *)
(* merges, writes the file, then its .orig copy, then the manifest.        *)
(* Between any two writes the program may stop (Crash).  A hash is         *)
(* modelled by the content it stands for.                                  *)
(***************************************************************************)
EXTENDS KVMerge, Sequences, Functions

CONSTANTS
    File,               \* deployed paths
    Rel(_),             \* the RelPath of a file: its key in the manifest
    Strategy(_),        \* the strategy Categorize gives a RelPath
    Releases(_),        \* the contents upstream ships under a RelPath, oldest first
    Edits(_, _),        \* what a user may make of a file and its content
    UserValues,         \* values no release carries
    Plans,              \* the step lists the installer's sync steps pass to Run
    Missing, Empty,     \* no such file, a file of 0 bytes
    Budget              \* [releases, edits, faults |-> bound]

ASSUME StrategiesKnown ==
    \A f \in File : Strategy(Rel(f)) \in
        {"overwrite", "skip-if-exists", "merge-kv", "merge-section", "template"}

VARIABLES
    upstream,   \* the file shipped under each RelPath
    deploy,     \* the file at each deployed path
    backup,     \* its .orig copy
    manifest,   \* the manifest on disk: RelPath -> entry
    loaded,     \* the manifest the running engine holds
    plan,       \* the step list being synced again and again
    todo,       \* the steps left in this run
    job,        \* the step under way
    left,       \* what is left of the budget
    calm        \* history: the undisturbed steps on a file since the last release,
                \* and -1 once a user or a fault has touched it

vars == <<upstream, deploy, backup, manifest, loaded, plan, todo, job, left, calm>>

NoEntry == [orig |-> Missing, up |-> Missing, cur |-> Missing, conflict |-> FALSE]
NoJob == [stage |-> "none"]

Rels == {Rel(f) : f \in File}
Entries == [r \in Rels |-> NoEntry]

Running == todo # <<>>
Step == Head(todo)
Spend(what) == left[what] > 0 /\ left' = [left EXCEPT ![what] = @ - 1]
Undisturbed == UNCHANGED <<left, calm>>
Fault == Spend("faults") /\ calm' = [f \in File |-> -1]

Init ==
    /\ upstream = [r \in Rels |-> Releases(r)[1]]
    /\ deploy = [f \in File |-> Missing]
    /\ backup = [f \in File |-> Missing]
    /\ manifest = Entries
    /\ loaded = Entries
    /\ plan \in Plans
    /\ todo = <<>>
    /\ job = NoJob
    /\ left = Budget
    /\ calm = [f \in File |-> 0]

----------------------------------------------------------------------------
(* decide, and the strategies' handlers.                                   *)

Decide(o, c, u) ==
    CASE c = Missing -> "new"
      [] c = Empty -> "update"
      [] c \notin {Missing, Empty} /\ o = Missing -> IF c = u THEN "noop" ELSE "update"
      [] OTHER -> IF c = o THEN IF u = o THEN "noop" ELSE "update"
                           ELSE IF u = o THEN "keep" ELSE "conflict"

AsDoc(d) == IF d \in {Missing, Empty} THEN Plain(NoKeys) ELSE d

Outcome(doc, conflict) == [result |-> doc, conflict |-> conflict]

HandleOverwrite(d, c, u) == Outcome(IF d \in {"noop", "keep"} THEN c ELSE u, FALSE)

HandleSkipIfExists(d, c, u) == Outcome(IF d = "new" THEN u ELSE c, FALSE)

\* Bug: a conflict puts the baseline back, which then becomes the file of the user.
HandleMergeKVRevert(d, o, c, u) ==
    LET m == MergeKV(o.kv, c.kv, u.kv)
    IN  CASE d \in {"noop", "keep"} -> Outcome(c, FALSE)
          [] \/ d \in {"update", "new"}
             \/ d = "conflict" /\ o \in {Missing, Empty} -> Outcome(u, FALSE)
          [] OTHER -> IF m.conflicts = {} THEN Outcome(Plain(m.kv), FALSE)
                                          ELSE Outcome(o, TRUE)

\* A conflict without a .orig copy is settled for upstream.
HandleMergeKV(d, o, c, u) ==
    LET m == MergeKV(o.kv, c.kv, u.kv)
    IN  CASE d \in {"noop", "keep"} -> Outcome(c, FALSE)
          [] \/ d \in {"update", "new"}
             \/ d = "conflict" /\ o \in {Missing, Empty} -> Outcome(u, FALSE)
          [] OTHER -> IF m.conflicts = {} THEN Outcome(Plain(m.kv), FALSE)
                                          ELSE Outcome(c, TRUE)

HandleMergeSection(d, o, c, u) ==
    LET m == MergeSection(o, c, u)
    IN  CASE d \in {"noop", "keep"} -> Outcome(c, FALSE)
          [] d = "new" -> Outcome(WrapInMarkers(u.kv), FALSE)
          [] d = "update" -> Outcome(IF c # Empty /\ c.marked
                                     THEN ReplaceBlock(c, ExtractBlock(u)) ELSE u, FALSE)
          [] d = "conflict" /\ o \in {Missing, Empty} -> Outcome(u, FALSE)
          [] OTHER -> IF m.conflicts = {} THEN Outcome(m.doc, FALSE)
                                          ELSE Outcome(c, TRUE)

\* RenderTemplate substitutes the variables of a shipped template; a release carries
\* its rendered form here, so rendering is the choice of that form.
Handle(f, d, c, u) ==
    CASE Strategy(Rel(f)) = "skip-if-exists" -> HandleSkipIfExists(d, c, u)
      [] Strategy(Rel(f)) = "merge-kv" -> HandleMergeKV(d, backup[f], c, u)
      [] Strategy(Rel(f)) = "merge-section" -> HandleMergeSection(d, backup[f], c, u)
      [] OTHER -> HandleOverwrite(d, c, u)

----------------------------------------------------------------------------
(* The run.                                                                *)

\* LoadManifest: an unreadable or unparsable manifest is an empty one.
StartRun ==
    /\ ~Running
    /\ todo' = plan
    /\ \/ loaded' = manifest /\ Undisturbed
       \/ loaded' = Entries /\ Fault
    /\ UNCHANGED <<upstream, deploy, backup, manifest, job, plan>>

ReadFiles ==
    /\ Running /\ job = NoJob
    /\ LET f == Step
           d == Decide(loaded[Rel(f)].orig, deploy[f], upstream[Rel(f)])
           h == Handle(f, d, deploy[f], upstream[Rel(f)])
       IN  job' = [stage |-> IF h.conflict THEN "backups"
                             ELSE IF d \in {"noop", "keep"} THEN "record" ELSE "write",
                   decision |-> d, current |-> deploy[f], upstream |-> upstream[Rel(f)],
                   result |-> h.result, conflict |-> h.conflict]
    /\ UNCHANGED <<upstream, deploy, backup, manifest, loaded, todo, left, calm, plan>>

\* Bug: the .orig copy of the first deployment is kept.
WriteConflictBackupsOnce ==
    /\ Running /\ job.stage = "backups"
    /\ \/ /\ backup' = IF backup[Step] = Missing
                       THEN [backup EXCEPT ![Step] = job.current] ELSE backup
          /\ Undisturbed
       \/ Fault /\ UNCHANGED backup
    /\ job' = [job EXCEPT !.stage = "write"]
    /\ UNCHANGED <<upstream, deploy, manifest, loaded, todo, plan>>

\* WriteConflictBackups makes the user's file the new .orig copy.
WriteConflictBackups ==
    /\ Running /\ job.stage = "backups"
    /\ \/ backup' = [backup EXCEPT ![Step] = job.current] /\ Undisturbed
       \/ Fault /\ UNCHANGED backup
    /\ job' = [job EXCEPT !.stage = "write"]
    /\ UNCHANGED <<upstream, deploy, manifest, loaded, todo, plan>>

WriteDeployed ==
    /\ Running /\ job.stage = "write"
    /\ deploy' = [deploy EXCEPT ![Step] = job.result]
    /\ job' = [job EXCEPT !.stage = "orig"]
    /\ UNCHANGED <<upstream, backup, manifest, loaded, todo, left, calm, plan>>

WriteOrigCopy ==
    /\ Running /\ job.stage = "orig"
    /\ \/ /\ backup' = IF backup[Step] = Missing
                       THEN [backup EXCEPT ![Step] = job.result] ELSE backup
          /\ Undisturbed
       \/ Fault /\ UNCHANGED backup
    /\ job' = [job EXCEPT !.stage = "record"]
    /\ UNCHANGED <<upstream, deploy, manifest, loaded, todo, plan>>

NewEntry(e) ==
    [orig |-> IF e.orig = Missing THEN job.upstream ELSE e.orig,
     up |-> job.upstream,
     cur |-> IF job.decision = "keep" THEN job.current ELSE job.upstream,
     conflict |-> job.conflict]

\* SetEntry, then SaveManifest, whose failure is a warning.
Record ==
    /\ Running /\ job.stage = "record"
    /\ loaded' = [loaded EXCEPT ![Rel(Step)] = NewEntry(@)]
    /\ \/ /\ manifest' = loaded'
          /\ calm' = [calm EXCEPT ![Step] = IF @ \in 0..1 THEN @ + 1 ELSE @]
          /\ UNCHANGED left
       \/ Fault /\ UNCHANGED manifest
    /\ todo' = Tail(todo)
    /\ job' = NoJob
    /\ UNCHANGED <<upstream, deploy, backup, plan>>

\* A file that cannot be read or written ends its step without an entry.
StepFails ==
    /\ Running
    /\ job = NoJob \/ job.stage = "write"
    /\ Fault
    /\ manifest' = loaded
    /\ todo' = Tail(todo)
    /\ job' = NoJob
    /\ UNCHANGED <<upstream, deploy, backup, loaded, plan>>

Crash ==
    /\ Running
    /\ Fault
    /\ todo' = <<>>
    /\ job' = NoJob
    /\ UNCHANGED <<upstream, deploy, backup, manifest, loaded, plan>>

Engine == \/ StartRun \/ ReadFiles \/ WriteConflictBackups \/ WriteDeployed
          \/ WriteOrigCopy \/ Record \/ StepFails \/ Crash

----------------------------------------------------------------------------
(* The user and the package, between two steps.                            *)

Release ==
    /\ job = NoJob
    /\ Spend("releases")
    /\ \E r \in {Rel(f) : f \in Range(plan)} : \E i, j \in DOMAIN Releases(r) :
           /\ i < j /\ upstream[r] = Releases(r)[i]
           /\ upstream' = [upstream EXCEPT ![r] = Releases(r)[j]]
           /\ calm' = [f \in File |-> IF Rel(f) = r /\ calm[f] > 0 THEN 0 ELSE calm[f]]
    /\ UNCHANGED <<deploy, backup, manifest, loaded, todo, job, plan>>

Edit ==
    /\ job = NoJob
    /\ Spend("edits")
    /\ \E f \in Range(plan) : \E d \in Edits(f, deploy[f]) \ {deploy[f]} :
           /\ deploy' = [deploy EXCEPT ![f] = d]
           /\ calm' = [calm EXCEPT ![f] = -1]
    /\ UNCHANGED <<upstream, backup, manifest, loaded, todo, job, plan>>

Next == Engine \/ Release \/ Edit

Spec == Init /\ [][Next]_vars

----------------------------------------------------------------------------
(* What upstream ships.                                                    *)

Settings(d) == AllKeyValueMap(d.kv)

Shipments(f) == DOMAIN Releases(Rel(f))

Shipped(f, i) == Releases(Rel(f))[i]

\* A later release has the keys of an earlier one, and what a release changed never comes
\* back: no content, and no value of a key.
ReleasesGrow ==
  \A f \in File :
    /\ Shipments(f) \subseteq Nat
    /\ \A i, j, n \in Shipments(f) : i <= j /\ j <= n =>
         /\ DOMAIN Settings(Shipped(f, i)) \subseteq DOMAIN Settings(Shipped(f, j))
         /\ Shipped(f, i) = Shipped(f, n) => Shipped(f, j) = Shipped(f, n)
         /\ \A k \in DOMAIN Settings(Shipped(f, i)) :
              Settings(Shipped(f, i))[k] = Settings(Shipped(f, n))[k]
                => Settings(Shipped(f, j))[k] = Settings(Shipped(f, n))[k]

----------------------------------------------------------------------------
(* What the engine promises.                                               *)

\* The keys to which a user has given values of his own, with these.
ValuesOf(d) ==
    LET kv == AsDoc(d).kv
    IN  {<<p[2], kv[p]>> : p \in {q \in DOMAIN kv : kv[q] \in UserValues}}

\* The step under way is about f, which exists, and f has a baseline: an entry and a
\* .orig copy.
Working(f) == Running /\ Step = f /\ job # NoJob /\ deploy[f] # Missing

HasBaseline(f) == loaded[Rel(f)].orig # Missing /\ backup[f] # Missing

SeedKept(f) ==
    Working(f) /\ (Strategy(Rel(f)) = "skip-if-exists" \/ job.conflict)
      => deploy'[f] = deploy[f]

ReportsConflict == job.stage = "backups"

ValuesKept(f) ==
    Working(f) /\ HasBaseline(f) /\ Strategy(Rel(f)) = "merge-kv"
      => ValuesOf(deploy[f]) \cup (IF ReportsConflict THEN {} ELSE ValuesOf(backup[f]))
           \subseteq ValuesOf(deploy'[f]) \cup ValuesOf(backup'[f])

OwnLinesKept(f) ==
    Working(f) /\ HasBaseline(f) /\ Strategy(Rel(f)) = "merge-section"
      /\ AsDoc(deploy[f]).marked
      => AsDoc(deploy[f]).own \subseteq AsDoc(deploy'[f]).own

(***************************************************************************)
(* No write of the engine loses a value that a user has in a merge-kv file *)
(* with a baseline, whatever was released and wherever the program was     *)
(* stopped: it is still in the file or in the .orig copy afterwards.  A    *)
(* value that only the .orig copy holds is lost in one place only, where   *)
(* the next conflict of the file is reported and the copy overwritten.     *)
(* The lines outside the markers of a merge-section file stay in the file; *)
(* a skip-if-exists file and one in conflict stay as they are.             *)
(***************************************************************************)
LostOnlyInConflict ==
    [][\A f \in File : SeedKept(f) /\ ValuesKept(f) /\ OwnLinesKept(f)]_vars

(***************************************************************************)
(* A merge-kv, overwrite or template file nobody touched has upstream's    *)
(* settings after at most two steps, as long as no release takes a key or  *)
(* a value back: the recorded baseline is the first release for ever, so a *)
(* later one meets the file as a conflict with itself, and the first step  *)
(* only turns it into the new .orig copy.  Start-up files are not among    *)
(* them: see StartUpCatchesUp.                                             *)
(***************************************************************************)
UntouchedCatchesUp ==
    \A f \in File :
        /\ calm[f] = 2
        /\ Strategy(Rel(f)) \in {"merge-kv", "overwrite", "template"}
        /\ ~Running
        => Settings(deploy[f]) = Settings(upstream[Rel(f)])

(***************************************************************************)
(* What README.md says of merge-section: what upstream ships is merged     *)
(* between the markers, so a start-up file nobody touched has it there     *)
(* after two steps.  It does not hold: the shipped files have no markers,  *)
(* and the next release empties the block.                                 *)
(***************************************************************************)
StartUpCatchesUp ==
    \A f \in File :
        calm[f] = 2 /\ Strategy(Rel(f)) = "merge-section" /\ ~Running
        => Settings(deploy[f]) = Settings(upstream[Rel(f)])

(***************************************************************************)
(* Once nobody edits and nothing is released, syncing again stops changing *)
(* files: no conflict is passed back and forth between a file and its      *)
(* .orig copy.                                                             *)
(***************************************************************************)
Settles == <>[][UNCHANGED deploy]_vars
=============================================================================
