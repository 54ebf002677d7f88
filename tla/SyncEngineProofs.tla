-------------------------- MODULE SyncEngineProofs --------------------------
(***************************************************************************)
(* Proofs about SyncEngine, for all files, strategies, releases and edits. *)
(* That files in conflict and seeded ones stay needs no assumption; that   *)
(* edits are lost in reported conflicts only needs PlainContents, which    *)
(* the files of configs/ meet; that untouched files catch up also needs    *)
(* ReleasesGrow.                                                           *)
(***************************************************************************)
EXTENDS SyncEngine, KVMergeProofs, SequenceTheorems, TLAPS

\* A step under way writes to a file what it read there, if it has found a conflict or if
\* the file is one that is only put where there is none.
JobOK ==
    /\ ~Running => job = NoJob
    /\ job.stage \in {"backups", "write"} =>
         /\ job = [stage |-> job.stage, decision |-> job.decision, current |-> job.current,
                   upstream |-> job.upstream, result |-> job.result,
                   conflict |-> job.conflict]
         /\ job.current = deploy[Step]
         /\ job.current # Missing
              /\ (Strategy(Rel(Step)) = "skip-if-exists" \/ job.conflict)
              => job.result = job.current

IInv == DOMAIN deploy = File /\ JobOK

LEMMA SeedOutcome ==
  ASSUME NEW o, NEW c, NEW u, c # Missing
  PROVE  HandleSkipIfExists(Decide(o, c, u), c, u).result = c
<1>1. Decide(o, c, u) # "new"
  <2>1. CASE c = Empty
    BY <2>1 DEF Decide
  <2>2. CASE c # Empty /\ o = Missing
    BY <2>2 DEF Decide
  <2>3. CASE c # Empty /\ o # Missing
    BY <2>3 DEF Decide
  <2> QED
    BY <2>1, <2>2, <2>3
<1> QED
  BY <1>1 DEF HandleSkipIfExists, Outcome

Decisions == {"new", "update", "noop", "keep", "conflict"}

LEMMA DecideKnown ==
  ASSUME NEW o, NEW c, NEW u
  PROVE  Decide(o, c, u) \in Decisions
<1>1. CASE c = Missing
  BY <1>1 DEF Decide, Decisions
<1>2. CASE c # Missing /\ c = Empty
  BY <1>2 DEF Decide, Decisions
<1>3. CASE c \notin {Missing, Empty} /\ o = Missing
  BY <1>3 DEF Decide, Decisions
<1>4. CASE c \notin {Missing, Empty} /\ o # Missing
  BY <1>4 DEF Decide, Decisions
<1> QED
  BY <1>1, <1>2, <1>3, <1>4

LEMMA MergeKVOutcome ==
  ASSUME NEW d \in Decisions, NEW o, NEW c, NEW u, HandleMergeKV(d, o, c, u).conflict
  PROVE  HandleMergeKV(d, o, c, u).result = c
<1> USE DEF HandleMergeKV, Outcome, Decisions
<1>1. CASE d \in {"noop", "keep"}
  BY <1>1
<1>2. CASE d \in {"update", "new"}
  BY <1>2
<1>3. CASE d = "conflict" /\ o \in {Missing, Empty}
  BY <1>3
<1>4. CASE d = "conflict" /\ o \notin {Missing, Empty}
  BY <1>4
<1> QED
  BY <1>1, <1>2, <1>3, <1>4

LEMMA MergeSectionOutcome ==
  ASSUME NEW d \in Decisions, NEW o, NEW c, NEW u, HandleMergeSection(d, o, c, u).conflict
  PROVE  HandleMergeSection(d, o, c, u).result = c
<1> USE DEF HandleMergeSection, Outcome, Decisions
<1>1. CASE d \in {"noop", "keep"}
  BY <1>1
<1>2. CASE d = "new"
  BY <1>2
<1>3. CASE d = "update"
  BY <1>3
<1>4. CASE d = "conflict" /\ o \in {Missing, Empty}
  BY <1>4
<1>5. CASE d = "conflict" /\ o \notin {Missing, Empty}
  BY <1>5
<1> QED
  BY <1>1, <1>2, <1>3, <1>4, <1>5

\* A handler that reports a conflict returns the file of the user.
LEMMA ConflictOutcome ==
  ASSUME NEW f, NEW d \in Decisions, NEW c, NEW u, Handle(f, d, c, u).conflict
  PROVE  Handle(f, d, c, u).result = c
<1>1. CASE Strategy(Rel(f)) = "skip-if-exists"
  BY <1>1 DEF Handle, HandleSkipIfExists, Outcome
<1>2. CASE Strategy(Rel(f)) = "merge-kv"
  BY <1>2, MergeKVOutcome DEF Handle
<1>3. CASE Strategy(Rel(f)) = "merge-section"
  BY <1>3, MergeSectionOutcome DEF Handle
<1>4. CASE Strategy(Rel(f)) \notin {"skip-if-exists", "merge-kv", "merge-section"}
  BY <1>4 DEF Handle, HandleOverwrite, Outcome
<1> QED
  BY <1>1, <1>2, <1>3, <1>4

LEMMA JobGoesOn ==
  ASSUME IInv, UNCHANGED <<deploy, todo, job>>
  PROVE  IInv'
  BY DEF IInv, JobOK, Running, Step

\* Between two steps nothing is promised.
LEMMA JobOver ==
  ASSUME job' = NoJob, DOMAIN deploy' = File
  PROVE  IInv'
<1>1. job'.stage \notin {"backups", "write"}
  BY DEF NoJob
<1> QED
  BY <1>1 DEF IInv, JobOK

LEMMA ReadFilesOK == IInv /\ ReadFiles => IInv'
<1> SUFFICES ASSUME IInv, ReadFiles
             PROVE  IInv'
  OBVIOUS
<1> DEFINE f == Step
           c == deploy[f]
           u == upstream[Rel(f)]
           o == loaded[Rel(f)].orig
           d == Decide(o, c, u)
           h == Handle(f, d, c, u)
<1>1. /\ Running /\ UNCHANGED <<deploy, todo>>
      /\ job' = [stage |-> IF h.conflict THEN "backups"
                           ELSE IF d \in {"noop", "keep"} THEN "record" ELSE "write",
                 decision |-> d, current |-> c, upstream |-> u,
                 result |-> h.result, conflict |-> h.conflict]
  BY DEF ReadFiles
<1>2. h.conflict => h.result = c
  BY DecideKnown, ConflictOutcome
<1>3. c # Missing /\ Strategy(Rel(f)) = "skip-if-exists" => h.result = c
  BY SeedOutcome DEF Handle
<1> QED
  BY <1>1, <1>2, <1>3 DEF IInv, JobOK, Running, Step

LEMMA NextOK == IInv /\ [Next]_vars => IInv'
<1> SUFFICES ASSUME IInv, [Next]_vars
             PROVE  IInv'
  OBVIOUS
<1>1. CASE StartRun
  <2>1. job' = NoJob /\ DOMAIN deploy' = File
    BY <1>1 DEF StartRun, IInv, JobOK
  <2> QED
    BY <2>1, JobOver
<1>2. CASE ReadFiles
  BY <1>2, ReadFilesOK
<1>3. CASE WriteConflictBackups
  <2>1. /\ job.stage = "backups" /\ UNCHANGED <<deploy, todo>>
        /\ job' = [job EXCEPT !.stage = "write"]
    BY <1>3 DEF WriteConflictBackups
  <2> QED
    BY <1>3, <2>1 DEF WriteConflictBackups, IInv, JobOK, Running, Step
<1>4. CASE WriteDeployed
  <2>1. job'.stage = "orig" /\ DOMAIN deploy' = File /\ Running'
    BY <1>4 DEF WriteDeployed, IInv, JobOK, Running
  <2> QED
    BY <2>1 DEF IInv, JobOK
<1>5. CASE WriteOrigCopy
  <2>1. job'.stage = "record" /\ DOMAIN deploy' = File /\ Running'
    BY <1>5 DEF WriteOrigCopy, IInv, JobOK, Running
  <2> QED
    BY <2>1 DEF IInv, JobOK
<1>6. CASE Record \/ StepFails \/ Crash
  BY <1>6, JobOver DEF Record, StepFails, Crash, IInv
<1>7. CASE Release
  <2>1. UNCHANGED <<deploy, todo, job>>
    BY <1>7 DEF Release
  <2> QED
    BY <2>1, JobGoesOn
<1>8. CASE Edit
  <2>1. job' = NoJob /\ DOMAIN deploy' = File
    BY <1>8 DEF Edit, IInv
  <2> QED
    BY <2>1, JobOver
<1>9. CASE UNCHANGED vars
  BY <1>9, JobGoesOn DEF vars
<1> QED
  BY <1>1, <1>2, <1>3, <1>4, <1>5, <1>6, <1>7, <1>8, <1>9 DEF Next, Engine

\* The write of a step leaves a file alone that is only put where there is none, and one
\* whose merge met a conflict.
LEMMA StepKeeps ==
  ASSUME IInv, [Next]_vars, NEW f \in File
  PROVE  SeedKept(f)
<1> SUFFICES ASSUME Working(f), Strategy(Rel(f)) = "skip-if-exists" \/ job.conflict
             PROVE  deploy'[f] = deploy[f]
  BY DEF SeedKept
<1>1. CASE WriteDeployed
  <2>1. /\ job.stage = "write" /\ Step = f
        /\ deploy' = [deploy EXCEPT ![f] = job.result]
    BY <1>1 DEF WriteDeployed, Working
  <2>2. job.result = deploy[f]
    BY <2>1 DEF IInv, JobOK, Working
  <2> QED
    BY <2>1, <2>2 DEF IInv
<1>2. CASE ~WriteDeployed
  <2>1. UNCHANGED deploy
    BY <1>2 DEF Next, Engine, StartRun, ReadFiles, WriteConflictBackups, WriteOrigCopy,
                Record, StepFails, Crash, Release, Edit, Working, vars
  <2> QED
    BY <2>1
<1> QED
  BY <1>1, <1>2

\* Whatever is released, edited or stopped half-way, a step of the engine never changes an
\* existing skip-if-exists file (handleSkipIfExists), nor a file it reports a conflict for
\* (handleMergeKV, handleMergeSection): the part of
\* LostOnlyInConflict that needs no baseline.
THEOREM SeedsAndConflictsKept == Spec => [][\A f \in File : SeedKept(f)]_vars
<1>1. Init => IInv
  <2> SUFFICES ASSUME Init
               PROVE  IInv
    OBVIOUS
  <2>1. job.stage = "none" /\ DOMAIN deploy = File /\ job = NoJob
    BY DEF Init, NoJob
  <2> QED
    BY <2>1 DEF IInv, JobOK
<1>2. IInv /\ [Next]_vars => (\A f \in File : SeedKept(f))
  BY StepKeeps
<1> QED
  BY <1>1, <1>2, NextOK, PTL DEF Spec
----------------------------------------------------------------------------
(* Documents.                                                              *)

IsDocument(d) ==
  /\ d = [marked |-> d.marked, own |-> d.own, kv |-> d.kv]
  /\ d.marked \in BOOLEAN
  /\ DistinctKeys(d.kv)

IsContent(d) == d = Missing \/ d = Empty \/ IsDocument(d)

IsRelease(r, d) == \E i \in DOMAIN Releases(r) : d = Releases(r)[i]

\* What is released and what users write are files in which no key stands in two sections,
\* and no release has a value of the users.
PlainContents ==
  /\ ~IsDocument(Missing) /\ ~IsDocument(Empty) /\ Missing # Empty
  /\ Plans \subseteq Seq(File)
  /\ \A f \in File :
       /\ 1 \in DOMAIN Releases(Rel(f))
       /\ \A d : IsRelease(Rel(f), d) =>
            IsDocument(d) /\ \A p \in DOMAIN d.kv : d.kv[p] \notin UserValues
       /\ \A d, e : IsContent(d) /\ e \in Edits(f, d) => IsContent(e)

Merges(f) == Strategy(Rel(f)) \in {"merge-kv", "merge-section"}

Holds(d, k, v) ==
  d \notin {Missing, Empty} /\ \E p \in DOMAIN d.kv : p[2] = k /\ d.kv[p] = v

\* The values of the users in c are in r or in b.
ValuesSafe(c, r, b) ==
  \A p \in DOMAIN AsDoc(c).kv :
    c.kv[p] \in UserValues => Holds(r, p[2], c.kv[p]) \/ Holds(b, p[2], c.kv[p])

\* The lines outside the markers of c are in r.
LinesSafe(c, r) == AsDoc(c).marked => AsDoc(c).own \subseteq AsDoc(r).own

\* What a merged file holds.
LEMMA MergedDocument ==
  ASSUME PlainContents, NEW b, NEW c, NEW u, IsDocument(b), IsDocument(c), IsDocument(u)
  PROVE  LET m == MergeKV(b.kv, c.kv, u.kv)
         IN  /\ IsDocument(Plain(m.kv))
             /\ ValuesSafe(c, Plain(m.kv), b)
<1> DEFINE om == AllKeyValueMap(b.kv)
           cm == AllKeyValueMap(c.kv)
           um == AllKeyValueMap(u.kv)
           t == ThreeWayMergeKV(om, cm, um)
           m == MergeKV(b.kv, c.kv, u.kv)
           d == Plain(m.kv)
<1>1. m.kv = Serialized(t)
  BY DEF MergeKV
<1>2. d.kv = Serialized(t) /\ IsDocument(d)
  BY <1>1, ReadBack DEF Plain, IsDocument
<1>3. ASSUME NEW p \in DOMAIN c.kv
      PROVE  Holds(d, p[2], c.kv[p]) \/ Holds(b, p[2], c.kv[p])
  <2>0. DistinctKeys(c.kv) /\ DistinctKeys(b.kv)
    BY DEF IsDocument
  <2>1. CASE p[2] \in DOMAIN t /\ t[p[2]] = c.kv[p]
    <3> DEFINE q == <<0, p[2]>>
    <3>1. q \in DOMAIN Serialized(t) /\ q[2] = p[2] /\ Serialized(t)[q] = t[p[2]]
      BY <2>1 DEF Serialized
    <3>2. d \notin {Missing, Empty}
      BY <1>2 DEF PlainContents
    <3> QED
      BY <1>2, <2>1, <3>1, <3>2 DEF Holds
  <2>2. CASE p[2] \in DOMAIN om /\ om[p[2]] = c.kv[p]
    <3>0. p[2] \in KeyNames(b.kv)
      BY <2>2, MapOfKeys
    <3>1. PICK q \in DOMAIN b.kv : q[2] = p[2]
      BY <3>0 DEF KeyNames
    <3>2. b.kv[q] = om[p[2]]
      BY <2>0, <3>1, OneSection
    <3>3. b \notin {Missing, Empty}
      BY DEF PlainContents
    <3> QED
      BY <2>2, <3>1, <3>2, <3>3 DEF Holds
  <2> QED
    BY <2>0, <2>1, <2>2, ValueInMergeOrBaseline
<1>4. AsDoc(c) = c
  BY DEF AsDoc, PlainContents
<1> QED
  BY <1>2, <1>3, <1>4 DEF ValuesSafe

\* A file that stays, or has no settings, loses none.
LEMMA SameSafe ==
  ASSUME PlainContents, NEW c, IsContent(c), NEW b
  PROVE  ValuesSafe(c, c, b) /\ LinesSafe(c, c)
<1>1. CASE IsDocument(c)
  <2>1. c \notin {Missing, Empty} /\ AsDoc(c) = c
    BY <1>1 DEF PlainContents, AsDoc
  <2> QED
    BY <2>1 DEF ValuesSafe, LinesSafe, Holds
<1>2. CASE c \in {Missing, Empty}
  <2>1. DOMAIN AsDoc(c).kv = {}
    BY <1>2 DEF AsDoc, Plain, NoKeys
  <2> QED
    BY <2>1 DEF ValuesSafe, LinesSafe
<1> QED
  BY <1>1, <1>2 DEF IsContent

LEMMA EmptySafe ==
  ASSUME NEW r, NEW b
  PROVE  ValuesSafe(Empty, r, b) /\ LinesSafe(Empty, r)
<1>1. DOMAIN AsDoc(Empty).kv = {} /\ AsDoc(Empty).marked = FALSE
  BY DEF AsDoc, Plain, NoKeys
<1> QED
  BY <1>1 DEF ValuesSafe, LinesSafe

LEMMA BareSafe ==
  ASSUME NEW c, IsDocument(c), c \notin {Missing, Empty}, NEW r, NEW b,
         \A p \in DOMAIN c.kv : c.kv[p] \notin UserValues
  PROVE  ValuesSafe(c, r, b)
  BY DEF ValuesSafe, AsDoc

\* The cases of decide that a file which exists can meet with a baseline.
LEMMA DecideCases ==
  ASSUME NEW o, NEW c, NEW u, c # Missing, o # Missing
  PROVE  /\ Decide(o, c, u) # "new"
         /\ Decide(o, c, u) = "update" => c = Empty \/ c = o
         /\ Decide(o, c, u) \in {"noop", "keep", "conflict"} => c # Empty
<1>1. CASE c = Empty
  BY <1>1 DEF Decide
<1>2. CASE c # Empty
  BY <1>2 DEF Decide
<1> QED
  BY <1>1, <1>2

LEMMA DecideKeeps ==
  ASSUME NEW o, NEW c, NEW u, Decide(o, c, u) \in {"noop", "keep", "conflict"}
  PROVE  c \notin {Missing, Empty}
  BY DEF Decide

\* What handleMergeKV returns.
LEMMA KVSafe ==
  ASSUME PlainContents, NEW f \in File, NEW o, NEW c, NEW u, NEW b,
         IsContent(c), IsContent(b), b # Empty, IsRelease(Rel(f), u),
         o = Missing \/ IsRelease(Rel(f), o)
  PROVE  LET r == HandleMergeKV(Decide(o, c, u), b, c, u).result
         IN  /\ IsDocument(r)
             /\ c # Missing /\ o # Missing /\ b # Missing => ValuesSafe(c, r, b)
<1> DEFINE d == Decide(o, c, u)
           m == MergeKV(b.kv, c.kv, u.kv)
           r == HandleMergeKV(d, b, c, u).result
<1>0. IsDocument(u)
  BY DEF PlainContents
<1>d. d \in Decisions
  BY DecideKnown
<1>c. d \in {"noop", "keep", "conflict"} => IsDocument(c)
  BY DecideKeeps DEF IsContent
<1>1. CASE d \in {"noop", "keep"}
  <2>1. r = c
    BY <1>1 DEF HandleMergeKV, Outcome
  <2> QED
    BY <1>1, <1>c, <2>1, SameSafe
<1>2. CASE d \in {"update", "new"}
  <2>1. r = u
    BY <1>2 DEF HandleMergeKV, Outcome
  <2>2. ASSUME c # Missing, o # Missing PROVE ValuesSafe(c, r, b)
    <3>1. c = Empty \/ c = o
      BY <1>2, <2>2, DecideCases
    <3>2. CASE c = Empty
      BY <3>2, EmptySafe
    <3>3. CASE c = o
      <4>1. IsDocument(c) /\ \A p \in DOMAIN c.kv : c.kv[p] \notin UserValues
        BY <2>2, <3>3 DEF PlainContents
      <4> QED
        BY <4>1, BareSafe DEF PlainContents
    <3> QED
      BY <3>1, <3>2, <3>3
  <2> QED
    BY <1>0, <2>1, <2>2
<1>3. CASE d = "conflict" /\ b \in {Missing, Empty}
  <2>1. r = u
    BY <1>3 DEF HandleMergeKV, Outcome
  <2> QED
    BY <1>0, <1>3, <2>1
<1>4. CASE d = "conflict" /\ b \notin {Missing, Empty}
  <2>1. IsDocument(b)
    BY <1>4 DEF IsContent
  <2>2. IsDocument(Plain(m.kv)) /\ ValuesSafe(c, Plain(m.kv), b)
    BY <1>0, <1>4, <1>c, <2>1, MergedDocument
  <2>3. CASE m.conflicts = {}
    <3>1. r = Plain(m.kv)
      BY <1>4, <2>3 DEF HandleMergeKV, Outcome
    <3> QED
      BY <2>2, <3>1
  <2>4. CASE m.conflicts # {}
    <3>1. r = c
      BY <1>4, <2>4 DEF HandleMergeKV, Outcome
    <3> QED
      BY <1>4, <1>c, <3>1, SameSafe
  <2> QED
    BY <2>3, <2>4
<1> QED
  BY <1>d, <1>1, <1>2, <1>3, <1>4 DEF Decisions

LEMMA KeepsLines ==
  ASSUME PlainContents, NEW c, IsDocument(c), NEW kv, DistinctKeys(kv)
  PROVE  IsDocument(ReplaceBlock(c, kv)) /\ LinesSafe(c, ReplaceBlock(c, kv))
<1> DEFINE r == ReplaceBlock(c, kv)
<1>1. CASE c.marked
  <2>1. r = [marked |-> c.marked, own |-> c.own, kv |-> kv]
    BY <1>1 DEF ReplaceBlock, IsDocument
  <2>2. IsDocument(r)
    BY <2>1 DEF IsDocument
  <2>3. r \notin {Missing, Empty} /\ c \notin {Missing, Empty}
    BY <2>2 DEF PlainContents
  <2> QED
    BY <2>1, <2>2, <2>3 DEF LinesSafe, AsDoc
<1>2. CASE ~c.marked
  <2>1. r = [marked |-> TRUE, own |-> {}, kv |-> kv]
    BY <1>2 DEF ReplaceBlock, WrapInMarkers
  <2>2. c \notin {Missing, Empty}
    BY DEF PlainContents
  <2> QED
    BY <1>2, <2>1, <2>2 DEF IsDocument, LinesSafe, AsDoc
<1> QED
  BY <1>1, <1>2

\* What handleMergeSection returns.
LEMMA SectionSafe ==
  ASSUME PlainContents, NEW f \in File, NEW o, NEW c, NEW u, NEW b,
         IsContent(c), IsContent(b), b # Empty, IsRelease(Rel(f), u)
  PROVE  LET r == HandleMergeSection(Decide(o, c, u), b, c, u).result
         IN  /\ IsDocument(r)
             /\ c # Missing /\ o # Missing /\ b # Missing => LinesSafe(c, r)
<1> DEFINE d == Decide(o, c, u)
           m == MergeSection(b, c, u)
           r == HandleMergeSection(d, b, c, u).result
<1>0. IsDocument(u) /\ DistinctKeys(u.kv) /\ DistinctKeys(ExtractBlock(u))
  <2>1. IsDocument(u)
    BY DEF PlainContents
  <2>2. DistinctKeys(NoKeys)
    BY DEF DistinctKeys, NoKeys
  <2> QED
    BY <2>1, <2>2 DEF IsDocument, ExtractBlock
<1>w. IsDocument(WrapInMarkers(u.kv))
  BY <1>0 DEF WrapInMarkers, IsDocument
<1>d. d \in Decisions
  BY DecideKnown
<1>c. d \in {"noop", "keep", "conflict"} => IsDocument(c)
  BY DecideKeeps DEF IsContent
<1>1. CASE d \in {"noop", "keep"}
  <2>1. r = c
    BY <1>1 DEF HandleMergeSection, Outcome
  <2> QED
    BY <1>1, <1>c, <2>1, SameSafe
<1>2. CASE d = "new"
  <2>1. r = WrapInMarkers(u.kv)
    BY <1>2 DEF HandleMergeSection, Outcome
  <2>2. c # Missing /\ o # Missing => FALSE
    BY <1>2, DecideCases
  <2> QED
    BY <1>w, <2>1, <2>2
<1>3. CASE d = "update"
  <2>1. r = IF c # Empty /\ c.marked THEN ReplaceBlock(c, ExtractBlock(u)) ELSE u
    BY <1>3 DEF HandleMergeSection, Outcome
  <2>2. c # Missing
    <3>1. c = Missing => d = "new"
      BY DEF Decide, PlainContents
    <3> QED
      BY <1>3, <3>1
  <2>3. CASE c = Empty
    BY <1>0, <2>1, <2>3, EmptySafe
  <2>4. CASE c # Empty /\ c.marked
    <3>1. IsDocument(c)
      BY <2>2, <2>4 DEF IsContent
    <3> QED
      BY <1>0, <2>1, <2>4, <3>1, KeepsLines
  <2>5. CASE c # Empty /\ ~c.marked
    <3>1. LinesSafe(c, u)
      BY <2>2, <2>5 DEF LinesSafe, AsDoc
    <3> QED
      BY <1>0, <2>1, <2>5, <3>1
  <2> QED
    BY <2>3, <2>4, <2>5
<1>4. CASE d = "conflict" /\ b \in {Missing, Empty}
  <2>1. r = u
    BY <1>4 DEF HandleMergeSection, Outcome
  <2> QED
    BY <1>0, <1>4, <2>1
<1>5. CASE d = "conflict" /\ b \notin {Missing, Empty}
  <2>1. IsDocument(c)
    BY <1>5, <1>c
  <2>2. CASE m.conflicts # {}
    <3>1. r = c
      BY <1>5, <2>2 DEF HandleMergeSection, Outcome
    <3> QED
      BY <2>1, <3>1, SameSafe DEF IsContent
  <2>3. CASE m.conflicts = {}
    <3>1. r = m.doc
      BY <1>5, <2>3 DEF HandleMergeSection, Outcome
    <3>2. CASE ~b.marked /\ ~c.marked
      <4>1. r = WrapInMarkers(u.kv)
        BY <3>1, <3>2 DEF MergeSection
      <4>2. LinesSafe(c, r)
        <5>1. AsDoc(c) = c
          BY <2>1 DEF AsDoc, PlainContents
        <5> QED
          BY <3>2, <5>1 DEF LinesSafe
      <4> QED
        BY <1>w, <4>1, <4>2
    <3>3. CASE b.marked \/ c.marked
      <4> DEFINE merged == MergeKV(ExtractBlock(b), ExtractBlock(c), ExtractBlock(u)).kv
                 kv == IF \A e \in {b, c, u} : IsKVContent(ExtractBlock(e))
                       THEN merged ELSE ExtractBlock(u)
      <4>1. r = ReplaceBlock(c, kv)
        BY <3>1, <3>3 DEF MergeSection
      <4>2. DistinctKeys(kv)
        <5>1. DistinctKeys(merged)
          BY ReadBack DEF MergeKV
        <5> HIDE DEF merged
        <5> QED
          BY <1>0, <5>1
      <4> HIDE DEF kv
      <4> QED
        BY <2>1, <4>1, <4>2, KeepsLines
    <3> QED
      BY <3>2, <3>3
  <2> QED
    BY <2>2, <2>3
<1> QED
  BY <1>d, <1>1, <1>2, <1>3, <1>4, <1>5 DEF Decisions

----------------------------------------------------------------------------
(* The contents of the files, copies and entries.                          *)

Baselines(m) ==
  /\ DOMAIN m = Rels
  /\ \A r \in Rels : m[r].orig = Missing \/ IsRelease(r, m[r].orig)

FilesOK ==
  /\ DOMAIN upstream = Rels /\ DOMAIN deploy = File /\ DOMAIN backup = File
  /\ plan \in Seq(File) /\ todo \in Seq(File)
  /\ \A r \in Rels : IsRelease(r, upstream[r])
  /\ \A f \in File : IsContent(deploy[f]) /\ IsContent(backup[f])
                     /\ (Merges(f) => backup[f] # Empty)
  /\ Baselines(loaded) /\ Baselines(manifest)

\* The step under way writes only what loses nothing.
StepOK ==
  Running /\ job # NoJob =>
    /\ job.stage \in {"backups", "write", "orig", "record"}
    /\ job = [stage |-> job.stage, decision |-> job.decision, current |-> job.current,
              upstream |-> job.upstream, result |-> job.result, conflict |-> job.conflict]
    /\ IsContent(job.result) /\ (Merges(Step) => IsDocument(job.result))
    /\ IsRelease(Rel(Step), job.upstream)
    /\ job.stage = "backups" => job.result = job.current
    /\ job.stage \in {"backups", "write"} =>
         /\ job.current = deploy[Step]
         /\ job.current # Missing /\ HasBaseline(Step) =>
              /\ Strategy(Rel(Step)) = "merge-kv"
                   => ValuesSafe(job.current, job.result, backup[Step])
              /\ Strategy(Rel(Step)) = "merge-section"
                   => LinesSafe(job.current, job.result)

KInv == IInv /\ FilesOK /\ StepOK

LEMMA InitKInv ==
  ASSUME PlainContents, Init
  PROVE  KInv
<1>0. PlainContents /\ Init
  OBVIOUS
<1>1. IInv
  <2>1. job.stage = "none" /\ DOMAIN deploy = File /\ job = NoJob
    BY DEF Init, NoJob
  <2> QED
    BY <2>1 DEF IInv, JobOK
<1>2. ~Running
  BY DEF Init, Running
<1>3. Baselines(Entries)
  BY DEF Baselines, Entries, NoEntry
<1>4. \A r \in Rels : IsRelease(r, upstream[r])
  <2> SUFFICES ASSUME NEW r \in Rels PROVE IsRelease(r, upstream[r])
    OBVIOUS
  <2>1. PICK f \in File : r = Rel(f)
    BY DEF Rels
  <2>2. upstream[r] = Releases(r)[1] /\ 1 \in DOMAIN Releases(r)
    BY <2>1 DEF Init, PlainContents
  <2> QED
    BY <2>2 DEF IsRelease
<1>5. /\ DOMAIN upstream = Rels /\ DOMAIN deploy = File /\ DOMAIN backup = File
      /\ loaded = Entries /\ manifest = Entries /\ todo = <<>> /\ plan \in Seq(File)
      /\ \A f \in File : deploy[f] = Missing /\ backup[f] = Missing
  BY DEF Init, PlainContents
<1>6. FilesOK
  BY <1>3, <1>4, <1>5, EmptySeq DEF FilesOK, IsContent, PlainContents
<1> QED
  BY <1>1, <1>2, <1>6 DEF KInv, StepOK

\* The handler of a step.
LEMMA HandlerSafe ==
  ASSUME PlainContents, NEW f \in File, NEW o, NEW c, NEW u,
         IsContent(c), IsContent(backup[f]), Merges(f) => backup[f] # Empty,
         IsRelease(Rel(f), u), o = Missing \/ IsRelease(Rel(f), o)
  PROVE  LET r == Handle(f, Decide(o, c, u), c, u).result
         IN  /\ IsContent(r) /\ (Merges(f) => IsDocument(r))
             /\ c # Missing /\ o # Missing /\ backup[f] # Missing =>
                  /\ Strategy(Rel(f)) = "merge-kv" => ValuesSafe(c, r, backup[f])
                  /\ Strategy(Rel(f)) = "merge-section" => LinesSafe(c, r)
<1>1. CASE Strategy(Rel(f)) = "merge-kv"
  BY <1>1, KVSafe DEF Handle, IsContent, Merges
<1>2. CASE Strategy(Rel(f)) = "merge-section"
  BY <1>2, SectionSafe DEF Handle, IsContent, Merges
<1>3. CASE Strategy(Rel(f)) \notin {"merge-kv", "merge-section"}
  <2>1. IsContent(u)
    BY DEF PlainContents, IsContent
  <2> QED
    BY <1>3, <2>1 DEF Handle, HandleSkipIfExists, HandleOverwrite, Outcome, Merges
<1> QED
  BY <1>1, <1>2, <1>3

LEMMA StepInPlan ==
  ASSUME FilesOK, Running
  PROVE  Step \in File /\ Rel(Step) \in Rels /\ Tail(todo) \in Seq(File)
<1>1. todo \in Seq(File) /\ todo # <<>>
  BY DEF FilesOK, Running
<1>2. Head(todo) \in File /\ Tail(todo) \in Seq(File)
  BY <1>1, HeadTailProperties, EmptySeq, LenProperties
<1> QED
  BY <1>2 DEF Step, Rels

\* Nothing but the job, or a fault, when no step is under way.
LEMMA FilesSame ==
  ASSUME FilesOK, UNCHANGED <<upstream, deploy, backup, plan>>, todo' \in Seq(File),
         Baselines(loaded'), Baselines(manifest')
  PROVE  FilesOK'
  BY DEF FilesOK, Baselines

LEMMA NoStep ==
  ASSUME job' = NoJob
  PROVE  StepOK'
  BY DEF StepOK

LEMMA ReadFilesK ==
  ASSUME PlainContents, KInv, ReadFiles
  PROVE  FilesOK' /\ StepOK'
<1> DEFINE f == Step
           c == deploy[f]
           u == upstream[Rel(f)]
           o == loaded[Rel(f)].orig
           d == Decide(o, c, u)
           h == Handle(f, d, c, u)
<1>1. /\ Running /\ UNCHANGED <<upstream, deploy, backup, manifest, loaded, todo, plan>>
      /\ job' = [stage |-> IF h.conflict THEN "backups"
                           ELSE IF d \in {"noop", "keep"} THEN "record" ELSE "write",
                 decision |-> d, current |-> c, upstream |-> u,
                 result |-> h.result, conflict |-> h.conflict]
  BY DEF ReadFiles
<1>2. FilesOK'
  BY <1>1 DEF KInv, FilesOK, Baselines
<1>3. h.conflict => h.result = c
  BY DecideKnown, ConflictOutcome
<1>4. f \in File /\ Rel(f) \in Rels
  BY <1>1, StepInPlan DEF KInv
<1>5. /\ IsContent(c) /\ IsContent(backup[f]) /\ (Merges(f) => backup[f] # Empty)
      /\ IsRelease(Rel(f), u) /\ (o = Missing \/ IsRelease(Rel(f), o))
  BY <1>4 DEF KInv, FilesOK, Baselines
<1>6. /\ IsContent(h.result) /\ (Merges(f) => IsDocument(h.result))
      /\ c # Missing /\ o # Missing /\ backup[f] # Missing =>
           /\ Strategy(Rel(f)) = "merge-kv" => ValuesSafe(c, h.result, backup[f])
           /\ Strategy(Rel(f)) = "merge-section" => LinesSafe(c, h.result)
  BY <1>4, <1>5, HandlerSafe
<1>7. Step' = f /\ loaded'[Rel(f)].orig = o
  BY <1>1 DEF Step
<1> HIDE DEF f, c, u, o, d, h
<1>8. /\ job'.stage \in {"backups", "write", "record"}
      /\ job' = [stage |-> job'.stage, decision |-> job'.decision, current |-> job'.current,
                 upstream |-> job'.upstream, result |-> job'.result,
                 conflict |-> job'.conflict]
      /\ job'.current = c /\ job'.result = h.result /\ job'.upstream = u
      /\ (job'.stage = "backups" => h.conflict)
  BY <1>1
<1>9. deploy'[f] = c /\ backup'[f] = backup[f]
  BY <1>1 DEF c
<1>10. StepOK'
  <2>1. /\ job'.stage \in {"backups", "write", "orig", "record"}
        /\ job' = [stage |-> job'.stage, decision |-> job'.decision, current |-> job'.current,
              upstream |-> job'.upstream, result |-> job'.result, conflict |-> job'.conflict]
        /\ IsContent(job'.result) /\ (Merges(Step') => IsDocument(job'.result))
        /\ IsRelease(Rel(Step'), job'.upstream)
        /\ job'.stage = "backups" => job'.result = job'.current
    BY <1>3, <1>5, <1>6, <1>7, <1>8
  <2>2. /\ job'.current = deploy'[Step']
        /\ job'.current # Missing
             /\ loaded'[Rel(Step')].orig # Missing /\ backup'[Step'] # Missing =>
              /\ Strategy(Rel(Step')) = "merge-kv"
                   => ValuesSafe(job'.current, job'.result, backup'[Step'])
              /\ Strategy(Rel(Step')) = "merge-section"
                   => LinesSafe(job'.current, job'.result)
    BY <1>6, <1>7, <1>8, <1>9
  <2> QED
    BY <2>1, <2>2 DEF StepOK, HasBaseline
<1> QED
  BY <1>2, <1>10

LEMMA StartRunK ==
  ASSUME KInv, StartRun
  PROVE  FilesOK' /\ StepOK'
<1>1. job' = NoJob /\ todo' = plan /\ UNCHANGED <<upstream, deploy, backup, plan, manifest>>
  BY DEF KInv, IInv, JobOK, StartRun
<1>2. Baselines(Entries)
  BY DEF Baselines, Entries, NoEntry
<1>3. loaded' = manifest \/ loaded' = Entries
  BY DEF StartRun
<1>4. Baselines(loaded') /\ Baselines(manifest') /\ todo' \in Seq(File)
  BY <1>1, <1>2, <1>3 DEF KInv, FilesOK
<1> QED
  BY <1>1, <1>4, FilesSame, NoStep DEF KInv

LEMMA ConflictBackupsK ==
  ASSUME PlainContents, KInv, WriteConflictBackups
  PROVE  FilesOK' /\ StepOK'
<1>1. /\ Running /\ job.stage = "backups" /\ job # NoJob
      /\ UNCHANGED <<upstream, deploy, manifest, loaded, todo, plan>>
      /\ job' = [job EXCEPT !.stage = "write"]
      /\ backup' = [backup EXCEPT ![Step] = job.current] \/ backup' = backup
  BY DEF WriteConflictBackups, NoJob
<1>2. Step \in File
  BY <1>1, StepInPlan DEF KInv
<1>3. /\ job = [stage |-> job.stage, decision |-> job.decision, current |-> job.current,
                upstream |-> job.upstream, result |-> job.result, conflict |-> job.conflict]
      /\ job.result = job.current /\ job.current = deploy[Step]
      /\ IsContent(job.result) /\ (Merges(Step) => IsDocument(job.result))
      /\ IsRelease(Rel(Step), job.upstream)
  BY <1>1 DEF KInv, StepOK
<1>4. Merges(Step) => job.current # Empty
  BY <1>3 DEF PlainContents
<1>5. FilesOK'
  <2>1. \A f \in File : IsContent(backup'[f]) /\ (Merges(f) => backup'[f] # Empty)
    BY <1>1, <1>2, <1>3, <1>4 DEF KInv, FilesOK
  <2>2. DOMAIN backup' = File
    BY <1>1 DEF KInv, FilesOK
  <2> QED
    BY <1>1, <2>1, <2>2 DEF KInv, FilesOK, Baselines
<1>6. /\ job'.stage = "write" /\ job'.result = job.result /\ job'.current = job.current
      /\ job'.upstream = job.upstream
      /\ job' = [stage |-> job'.stage, decision |-> job'.decision, current |-> job'.current,
                 upstream |-> job'.upstream, result |-> job'.result,
                 conflict |-> job'.conflict]
  BY <1>1, <1>3
<1>7. Step' = Step /\ deploy' = deploy
  BY <1>1 DEF Step
<1>8. \A b : ValuesSafe(job.current, job.result, b) /\ LinesSafe(job.current, job.result)
  BY <1>3, SameSafe
<1> QED
  BY <1>3, <1>5, <1>6, <1>7, <1>8 DEF StepOK

LEMMA WriteDeployedK ==
  ASSUME KInv, WriteDeployed
  PROVE  FilesOK' /\ StepOK'
<1>1. /\ Running /\ job.stage = "write" /\ job # NoJob
      /\ UNCHANGED <<upstream, backup, manifest, loaded, todo, plan>>
      /\ deploy' = [deploy EXCEPT ![Step] = job.result]
      /\ job' = [job EXCEPT !.stage = "orig"]
  BY DEF WriteDeployed, NoJob
<1>2. Step \in File /\ Step' = Step
  BY <1>1, StepInPlan DEF KInv, Step
<1>3. /\ job = [stage |-> job.stage, decision |-> job.decision, current |-> job.current,
                upstream |-> job.upstream, result |-> job.result, conflict |-> job.conflict]
      /\ IsContent(job.result) /\ (Merges(Step) => IsDocument(job.result))
      /\ IsRelease(Rel(Step), job.upstream)
  BY <1>1 DEF KInv, StepOK
<1>4. FilesOK'
  <2>1. \A f \in File : IsContent(deploy'[f])
    BY <1>1, <1>2, <1>3 DEF KInv, FilesOK
  <2>2. DOMAIN deploy' = File
    BY <1>1 DEF KInv, FilesOK
  <2> QED
    BY <1>1, <2>1, <2>2 DEF KInv, FilesOK, Baselines
<1>5. /\ job'.stage = "orig" /\ job'.result = job.result /\ job'.upstream = job.upstream
      /\ job' = [stage |-> job'.stage, decision |-> job'.decision, current |-> job'.current,
                 upstream |-> job'.upstream, result |-> job'.result,
                 conflict |-> job'.conflict]
  BY <1>1, <1>3
<1> QED
  BY <1>2, <1>3, <1>4, <1>5 DEF StepOK

LEMMA WriteOrigCopyK ==
  ASSUME PlainContents, KInv, WriteOrigCopy
  PROVE  FilesOK' /\ StepOK'
<1>1. /\ Running /\ job.stage = "orig" /\ job # NoJob
      /\ UNCHANGED <<upstream, deploy, manifest, loaded, todo, plan>>
      /\ job' = [job EXCEPT !.stage = "record"]
      /\ backup' = [backup EXCEPT ![Step] = job.result] \/ backup' = backup
  BY DEF WriteOrigCopy, NoJob
<1>2. Step \in File /\ Step' = Step
  BY <1>1, StepInPlan DEF KInv, Step
<1>3. /\ job = [stage |-> job.stage, decision |-> job.decision, current |-> job.current,
                upstream |-> job.upstream, result |-> job.result, conflict |-> job.conflict]
      /\ IsContent(job.result) /\ (Merges(Step) => IsDocument(job.result))
      /\ IsRelease(Rel(Step), job.upstream)
  BY <1>1 DEF KInv, StepOK
<1>4. FilesOK'
  <2>0. Merges(Step) => job.result # Empty
    BY <1>3 DEF PlainContents
  <2>1. \A f \in File : IsContent(backup'[f]) /\ (Merges(f) => backup'[f] # Empty)
    BY <1>1, <1>2, <1>3, <2>0 DEF KInv, FilesOK
  <2>2. DOMAIN backup' = File
    BY <1>1 DEF KInv, FilesOK
  <2> QED
    BY <1>1, <2>1, <2>2 DEF KInv, FilesOK, Baselines
<1>5. /\ job'.stage = "record" /\ job'.result = job.result /\ job'.upstream = job.upstream
      /\ job' = [stage |-> job'.stage, decision |-> job'.decision, current |-> job'.current,
                 upstream |-> job'.upstream, result |-> job'.result,
                 conflict |-> job'.conflict]
  BY <1>1, <1>3
<1> QED
  BY <1>2, <1>3, <1>4, <1>5 DEF StepOK

LEMMA RecordK ==
  ASSUME KInv, Record
  PROVE  FilesOK' /\ StepOK'
<1>1. /\ Running /\ job.stage = "record" /\ job # NoJob
      /\ UNCHANGED <<upstream, deploy, backup, plan>>
      /\ loaded' = [loaded EXCEPT ![Rel(Step)] = NewEntry(@)]
      /\ manifest' = loaded' \/ manifest' = manifest
      /\ todo' = Tail(todo) /\ job' = NoJob
  BY DEF Record, NoJob
<1>2. Step \in File /\ Rel(Step) \in Rels /\ Tail(todo) \in Seq(File)
  BY <1>1, StepInPlan DEF KInv
<1>3. IsRelease(Rel(Step), job.upstream)
  BY <1>1 DEF KInv, StepOK
<1>4. Baselines(loaded')
  <2>1. DOMAIN loaded' = Rels
    BY <1>1 DEF KInv, FilesOK, Baselines
  <2>2. loaded'[Rel(Step)].orig = Missing \/ IsRelease(Rel(Step), loaded'[Rel(Step)].orig)
    <3>1. loaded'[Rel(Step)] = NewEntry(loaded[Rel(Step)])
      BY <1>1, <1>2 DEF KInv, FilesOK, Baselines
    <3>2. NewEntry(loaded[Rel(Step)]).orig =
            IF loaded[Rel(Step)].orig = Missing THEN job.upstream ELSE loaded[Rel(Step)].orig
      BY DEF NewEntry
    <3> QED
      BY <1>2, <1>3, <3>1, <3>2 DEF KInv, FilesOK, Baselines
  <2>3. \A r \in Rels : r # Rel(Step) => loaded'[r] = loaded[r]
    BY <1>1 DEF KInv, FilesOK, Baselines
  <2> QED
    BY <2>1, <2>2, <2>3 DEF KInv, FilesOK, Baselines
<1>5. Baselines(manifest')
  BY <1>1, <1>4 DEF KInv, FilesOK
<1> QED
  BY <1>1, <1>2, <1>4, <1>5, FilesSame, NoStep DEF KInv

LEMMA FaultsK ==
  ASSUME KInv, StepFails \/ Crash
  PROVE  FilesOK' /\ StepOK'
<1>1. /\ Running /\ job' = NoJob
      /\ UNCHANGED <<upstream, deploy, backup, loaded, plan>>
      /\ todo' = Tail(todo) \/ todo' = <<>>
      /\ manifest' = loaded \/ manifest' = manifest
  BY DEF StepFails, Crash
<1>2. todo' \in Seq(File) /\ Baselines(loaded') /\ Baselines(manifest')
  <2>1. Tail(todo) \in Seq(File) /\ <<>> \in Seq(File)
    BY <1>1, StepInPlan, EmptySeq DEF KInv
  <2> QED
    BY <1>1, <2>1 DEF KInv, FilesOK
<1> QED
  BY <1>1, <1>2, FilesSame, NoStep DEF KInv

LEMMA ReleaseK ==
  ASSUME KInv, Release
  PROVE  FilesOK' /\ StepOK'
<1>0. PICK r \in {Rel(f) : f \in Range(plan)} :
        \E j \in DOMAIN Releases(r) : upstream' = [upstream EXCEPT ![r] = Releases(r)[j]]
  BY DEF Release
<1>1. PICK j \in DOMAIN Releases(r) : upstream' = [upstream EXCEPT ![r] = Releases(r)[j]]
  BY <1>0
<1>2. job' = NoJob /\ UNCHANGED <<deploy, backup, manifest, loaded, todo, plan>>
  BY DEF Release
<1>3. FilesOK'
  <2>1. \A q \in Rels : IsRelease(q, upstream'[q])
    BY <1>1 DEF KInv, FilesOK, IsRelease
  <2>2. DOMAIN upstream' = Rels
    BY <1>1 DEF KInv, FilesOK
  <2> QED
    BY <1>2, <2>1, <2>2 DEF KInv, FilesOK, Baselines
<1> QED
  BY <1>2, <1>3, NoStep

LEMMA EditK ==
  ASSUME PlainContents, KInv, Edit
  PROVE  FilesOK' /\ StepOK'
<1>0. PICK f \in Range(plan) :
        \E d \in Edits(f, deploy[f]) : deploy' = [deploy EXCEPT ![f] = d]
  BY DEF Edit
<1>1. PICK d \in Edits(f, deploy[f]) : deploy' = [deploy EXCEPT ![f] = d]
  BY <1>0
<1>2. job' = NoJob /\ UNCHANGED <<upstream, backup, manifest, loaded, todo, plan>>
  BY DEF Edit
<1>3. FilesOK'
  <2>1. f \in File
    BY DEF KInv, FilesOK, Range
  <2>2. IsContent(d)
    BY <1>1, <2>1 DEF KInv, FilesOK, PlainContents
  <2>3. \A g \in File : IsContent(deploy'[g])
    BY <1>1, <2>1, <2>2 DEF KInv, FilesOK
  <2>4. DOMAIN deploy' = File
    BY <1>1 DEF KInv, FilesOK
  <2> QED
    BY <1>2, <2>3, <2>4 DEF KInv, FilesOK, Baselines
<1> QED
  BY <1>2, <1>3, NoStep

LEMMA NextKInv ==
  ASSUME PlainContents, KInv, [Next]_vars
  PROVE  KInv'
<1>1. IInv'
  BY NextOK DEF KInv
<1>2. FilesOK' /\ StepOK'
  <2>1. CASE UNCHANGED vars
    BY <2>1 DEF vars, KInv, FilesOK, StepOK, Baselines, Running, Step, HasBaseline
  <2>2. CASE Next
    BY <2>2, StartRunK, ReadFilesK, ConflictBackupsK, WriteDeployedK, WriteOrigCopyK, RecordK,
       FaultsK, ReleaseK, EditK
       DEF Next, Engine
  <2> QED
    BY <2>1, <2>2
<1> QED
  BY <1>1, <1>2 DEF KInv

----------------------------------------------------------------------------
(* What a step may never lose.                                             *)

\* The copy of a file with a baseline changes only where a conflict is reported.
LEMMA CopyKept ==
  ASSUME KInv, [Next]_vars, NEW f \in File, Working(f), HasBaseline(f), ~ReportsConflict
  PROVE  backup'[f] = backup[f]
<1>1. Step = f /\ job # NoJob /\ backup[f] # Missing /\ job.stage # "backups"
  BY DEF Working, HasBaseline, ReportsConflict
<1>2. CASE WriteOrigCopy
  BY <1>1, <1>2 DEF WriteOrigCopy, Undisturbed
<1>3. CASE ~WriteOrigCopy
  BY <1>1, <1>3 DEF Next, Engine, StartRun, ReadFiles, WriteConflictBackups, WriteDeployed,
                    Record, StepFails, Crash, Release, Edit, vars
<1> QED
  BY <1>2, <1>3

LEMMA ValuesHeld ==
  ASSUME NEW d, NEW e
  PROVE  e \in ValuesOf(d) <=>
           \E k, v : e = <<k, v>> /\ v \in UserValues /\ Holds(d, k, v)
<1> DEFINE kv == AsDoc(d).kv
<1>1. CASE d \in {Missing, Empty}
  <2>1. DOMAIN kv = {}
    BY <1>1 DEF AsDoc, Plain, NoKeys
  <2> QED
    BY <1>1, <2>1 DEF ValuesOf, Holds
<1>2. CASE d \notin {Missing, Empty}
  <2>1. kv = d.kv
    BY <1>2 DEF AsDoc
  <2> QED
    BY <1>2, <2>1 DEF ValuesOf, Holds
<1> QED
  BY <1>1, <1>2

LEMMA ValuesSafeHolds ==
  ASSUME PlainContents, NEW c, IsContent(c), NEW r, NEW b, ValuesSafe(c, r, b)
  PROVE  ValuesOf(c) \subseteq ValuesOf(r) \cup ValuesOf(b)
<1> SUFFICES ASSUME NEW e \in ValuesOf(c)
             PROVE  e \in ValuesOf(r) \/ e \in ValuesOf(b)
  OBVIOUS
<1>1. PICK k, v : e = <<k, v>> /\ v \in UserValues /\ Holds(c, k, v)
  BY ValuesHeld
<1>2. PICK p \in DOMAIN c.kv : p[2] = k /\ c.kv[p] = v
  BY <1>1 DEF Holds
<1>3. AsDoc(c) = c
  BY <1>1 DEF Holds, AsDoc
<1>4. Holds(r, k, v) \/ Holds(b, k, v)
  BY <1>1, <1>2, <1>3 DEF ValuesSafe
<1> QED
  BY <1>1, <1>4, ValuesHeld

LEMMA StepLosesNothing ==
  ASSUME PlainContents, KInv, [Next]_vars, NEW f \in File
  PROVE  ValuesKept(f) /\ OwnLinesKept(f)
<1>1. ASSUME Working(f), HasBaseline(f)
      PROVE  /\ IsContent(deploy[f])
             /\ Strategy(Rel(f)) = "merge-kv" => ValuesSafe(deploy[f], deploy'[f], backup'[f])
             /\ Strategy(Rel(f)) = "merge-section" => LinesSafe(deploy[f], deploy'[f])
  <2>0. Running /\ Step = f /\ job # NoJob /\ deploy[f] # Missing /\ IsContent(deploy[f])
    BY <1>1 DEF Working, KInv, FilesOK
  <2>1. CASE WriteDeployed
    <3>1. job.stage = "write" /\ deploy'[f] = job.result /\ backup' = backup
      BY <2>0, <2>1 DEF WriteDeployed, KInv, FilesOK
    <3>2. job.current = deploy[f]
      BY <2>0, <3>1 DEF KInv, StepOK
    <3> QED
      BY <1>1, <2>0, <3>1, <3>2 DEF KInv, StepOK, Merges, HasBaseline
  <2>2. CASE ~WriteDeployed
    <3>1. UNCHANGED deploy
      BY <2>0, <2>2 DEF Next, Engine, StartRun, ReadFiles, WriteConflictBackups, WriteOrigCopy,
                  Record, StepFails, Crash, Release, Edit, vars
    <3> QED
      BY <2>0, <3>1, SameSafe
  <2> QED
    BY <2>1, <2>2
<1>2. ValuesKept(f)
  <2>1. ASSUME Working(f), HasBaseline(f), Strategy(Rel(f)) = "merge-kv"
        PROVE  ValuesOf(deploy[f]) \subseteq ValuesOf(deploy'[f]) \cup ValuesOf(backup'[f])
    BY <1>1, <2>1, ValuesSafeHolds
  <2>2. ASSUME Working(f), HasBaseline(f), ~ReportsConflict
        PROVE  ValuesOf(backup[f]) \subseteq ValuesOf(backup'[f])
    BY <2>2, CopyKept
  <2> QED
    BY <2>1, <2>2 DEF ValuesKept
<1>3. OwnLinesKept(f)
  BY <1>1 DEF OwnLinesKept, LinesSafe
<1> QED
  BY <1>2, <1>3

\* Whatever is released, edited or stopped half-way, and wherever it was stopped, a step of
\* the engine never loses a value of a user that a merge-kv file with a baseline holds, nor
\* one that only its .orig copy holds unless the step reports a conflict and overwrites the
\* copy; lines outside the markers of a merge-section file stay in the file, and seeded
\* files and files in conflict stay as they are.
THEOREM EditsLostOnlyInConflict ==
  ASSUME PlainContents
  PROVE  Spec => LostOnlyInConflict
<1>1. PlainContents /\ Init => KInv
  BY InitKInv
<1>2. PlainContents /\ KInv /\ [Next]_vars => KInv'
  BY NextKInv
<1>3. PlainContents /\ KInv /\ [Next]_vars
        => \A f \in File : SeedKept(f) /\ ValuesKept(f) /\ OwnLinesKept(f)
  BY StepKeeps, StepLosesNothing DEF KInv
<1> QED
  BY <1>1, <1>2, <1>3, PTL DEF Spec, LostOnlyInConflict

----------------------------------------------------------------------------
(* Files nobody touches.                                                   *)

Tracking(f) == Strategy(Rel(f)) \in {"merge-kv", "overwrite", "template"}

\* After so many steps the content c with the copy b is on its way from the baseline o of
\* the entry to the release u: neither the copy nor the entry is ahead of the file.
Merged(f, c, b, steps, u, j) ==
  /\ IsDocument(c) /\ IsDocument(b)
  /\ Settings(c) = Settings(Shipped(f, j))
  /\ \E i \in Shipments(f) : i <= j /\ Settings(b) = Settings(Shipped(f, i))
  /\ steps = 1 => Settings(b) = Settings(c) \/ Settings(c) = Settings(u)
  /\ steps = 2 => Settings(c) = Settings(u)

Replaced(f, c, steps, u, j) == c = Shipped(f, j) /\ (steps > 0 => c = u)

OnItsWay(f, c, b, steps, o, u) ==
  \E h, j, n \in Shipments(f) :
    /\ h <= j /\ j <= n
    /\ o = Shipped(f, h) /\ u = Shipped(f, n)
    /\ IF Strategy(Rel(f)) = "merge-kv" THEN Merged(f, c, b, steps, u, j)
                                        ELSE Replaced(f, c, steps, u, j)

InOrder(f, o, u) ==
  \E h, n \in Shipments(f) : h <= n /\ o = Shipped(f, h) /\ u = Shipped(f, n)

\* The baseline of the entry that f has or will have.
Baseline(f) ==
  IF loaded[Rel(f)].orig = Missing THEN upstream[Rel(f)] ELSE loaded[Rel(f)].orig

AtRest(f) ==
  IF deploy[f] = Missing
  THEN backup[f] = Missing /\ calm[f] = 0 /\ InOrder(f, Baseline(f), upstream[Rel(f)])
  ELSE /\ loaded[Rel(f)].orig # Missing
       /\ OnItsWay(f, deploy[f], backup[f], calm[f], Baseline(f), upstream[Rel(f)])

InWork(f) == Running /\ Step = f /\ job # NoJob

After(steps) == IF steps \in 0..1 THEN steps + 1 ELSE steps

\* What the step under way leaves in the file and in its copy.
FileLeft(f) == IF job.stage \in {"backups", "write"} THEN job.result ELSE deploy[f]

CopyLeft(f) ==
  IF job.stage = "backups" THEN job.current
  ELSE IF job.stage \in {"write", "orig"} /\ backup[f] = Missing THEN job.result
  ELSE backup[f]

Tracked(f) ==
  calm[f] >= 0 =>
    /\ manifest = loaded
    /\ InWork(f) => OnItsWay(f, FileLeft(f), CopyLeft(f), After(calm[f]),
                             Baseline(f), upstream[Rel(f)])
    /\ ~InWork(f) => AtRest(f)

JobUpstream == Running /\ job # NoJob => job.upstream = upstream[Rel(Step)]

\* The invariant.
Catching ==
  /\ JobUpstream
  /\ calm \in [File -> -1..2]
  /\ \A f \in File : Tracking(f) => Tracked(f)

----------------------------------------------------------------------------
(* The merges.                                                             *)

\* A merge without a conflict takes a file that is between its copy and upstream all the
\* way to upstream.
LEMMA MergeReachesUpstream ==
  ASSUME NEW o, NEW c, NEW u, IsMap(u),
         DOMAIN o \subseteq DOMAIN c, DOMAIN c \subseteq DOMAIN u,
         \A k \in DOMAIN o : o[k] = u[k] => c[k] = u[k],
         ConflictKeys(o, c, u) = {}
  PROVE  ThreeWayMergeKV(o, c, u) = u
<1> DEFINE t == ThreeWayMergeKV(o, c, u)
<1>1. DOMAIN t = DOMAIN u
  <2>1. \A k \in DOMAIN o \cup DOMAIN c \cup DOMAIN u : Survives(o, c, u, k) /\ k \in DOMAIN u
    BY DEF Survives
  <2>2. DOMAIN t = {k \in DOMAIN o \cup DOMAIN c \cup DOMAIN u : Survives(o, c, u, k)}
    BY DEF ThreeWayMergeKV
  <2> QED
    BY <2>1, <2>2
<1>2. ASSUME NEW k \in DOMAIN u
      PROVE  t[k] = u[k]
  <2>1. t[k] = IF UserValueWins(o, c, u, k) THEN c[k] ELSE u[k]
    <3>1. k \in DOMAIN o \cup DOMAIN c \cup DOMAIN u /\ Survives(o, c, u, k)
      BY DEF Survives
    <3> QED
      BY <3>1, MergeValue
  <2>2. ASSUME UserValueWins(o, c, u, k)
        PROVE  c[k] = u[k]
    <3>1. k \in DOMAIN c /\ ~(k \in DOMAIN o /\ c[k] = o[k])
      BY <2>2 DEF UserValueWins
    <3>2. ~(IF k \in DOMAIN o THEN c[k] # o[k] /\ u[k] # o[k] ELSE c[k] # u[k])
      BY <3>1 DEF ConflictKeys
    <3> QED
      BY <3>1, <3>2
  <2> QED
    BY <2>1, <2>2
<1>3. t = [k \in DOMAIN t |-> t[k]]
  BY DEF ThreeWayMergeKV
<1> HIDE DEF t
<1>4. t = u
  BY <1>1, <1>2, <1>3 DEF IsMap
<1> QED
  BY <1>4 DEF t

LEMMA ShippedDocument ==
  ASSUME PlainContents, NEW f \in File, NEW i \in Shipments(f)
  PROVE  IsDocument(Shipped(f, i)) /\ Shipped(f, i) \notin {Missing, Empty}
<1>1. IsRelease(Rel(f), Shipped(f, i))
  BY DEF IsRelease, Shipped, Shipments
<1> QED
  BY <1>1 DEF PlainContents

LEMMA DecideKnownFile ==
  ASSUME NEW o, NEW c, NEW u, c \notin {Missing, Empty}, o # Missing
  PROVE  Decide(o, c, u) = IF c = o THEN IF u = o THEN "noop" ELSE "update"
                                    ELSE IF u = o THEN "keep" ELSE "conflict"
<1>1. ~(c = Missing) /\ ~(c = Empty) /\ ~(c \notin {Missing, Empty} /\ o = Missing)
  OBVIOUS
<1> QED
  BY <1>1 DEF Decide

\* The settings become upstream's, or the file is left to become its own copy.
SettingsFollow(o, b, c, u) ==
  LET d == Decide(o, c, u)
      x == HandleMergeKV(d, b, c, u)
  IN  /\ d \in {"noop", "keep"} => x.result = c
      /\ \/ /\ x.conflict = FALSE
            /\ IsDocument(x.result)
            /\ Settings(x.result) = Settings(u)
         \/ /\ x.conflict = TRUE
            /\ x.result = c /\ d = "conflict" /\ Settings(b) # Settings(c)

\* handleMergeKV brings an untouched file to upstream, or reports a conflict in which the
\* file and its copy differ.
LEMMA KVCatchesUp ==
  ASSUME PlainContents, ReleasesGrow, NEW f \in File,
         NEW h \in Shipments(f), NEW i \in Shipments(f), NEW j \in Shipments(f),
         NEW n \in Shipments(f), h <= j, i <= j, j <= n,
         NEW c, IsDocument(c), Settings(c) = Settings(Shipped(f, j)),
         NEW b, IsDocument(b), Settings(b) = Settings(Shipped(f, i))
  PROVE  SettingsFollow(Shipped(f, h), b, c, Shipped(f, n))
<1> DEFINE o == Shipped(f, h)
           u == Shipped(f, n)
           d == Decide(o, c, u)
           x == HandleMergeKV(d, b, c, u)
           m == MergeKV(b.kv, c.kv, u.kv)
           sb == Settings(b)
           sc == Settings(c)
           su == Settings(u)
           Follows == /\ d \in {"noop", "keep"} => x.result = c
                      /\ \/ /\ x.conflict = FALSE
                            /\ IsDocument(x.result)
                            /\ Settings(x.result) = Settings(u)
                         \/ /\ x.conflict = TRUE
                            /\ x.result = c /\ d = "conflict" /\ Settings(b) # Settings(c)
<1>0. /\ IsDocument(u) /\ o # Missing
      /\ c \notin {Missing, Empty} /\ b \notin {Missing, Empty}
  BY ShippedDocument DEF PlainContents
<1>1. d = IF c = o THEN IF u = o THEN "noop" ELSE "update"
                   ELSE IF u = o THEN "keep" ELSE "conflict"
  BY <1>0, DecideKnownFile
<1>2. /\ DOMAIN sb \subseteq DOMAIN sc /\ DOMAIN sc \subseteq DOMAIN su
      /\ \A k \in DOMAIN sb : sb[k] = su[k] => sc[k] = su[k]
      /\ o = u => Shipped(f, j) = u
  <2>1. \A p, q, r \in Shipments(f) : p <= q /\ q <= r =>
          /\ DOMAIN Settings(Shipped(f, p)) \subseteq DOMAIN Settings(Shipped(f, q))
          /\ Shipped(f, p) = Shipped(f, r) => Shipped(f, q) = Shipped(f, r)
          /\ \A k \in DOMAIN Settings(Shipped(f, p)) :
               Settings(Shipped(f, p))[k] = Settings(Shipped(f, r))[k]
                 => Settings(Shipped(f, q))[k] = Settings(Shipped(f, r))[k]
    BY DEF ReleasesGrow
  <2>2. n <= n
    BY DEF ReleasesGrow
  <2> HIDE DEF Settings, Shipped, Shipments
  <2> QED
    BY <2>1, <2>2
<1>3. ASSUME c = o /\ u = o PROVE Follows
  <2>1. d = "noop"
    BY <1>1, <1>3
  <2>2. x.result = c /\ x.conflict = FALSE
    BY <2>1 DEF HandleMergeKV, Outcome
  <2> QED
    BY <1>3, <2>2
<1>4. ASSUME c = o /\ u # o PROVE Follows
  <2>1. d = "update"
    BY <1>1, <1>4
  <2>2. x.result = u /\ x.conflict = FALSE
    BY <2>1 DEF HandleMergeKV, Outcome
  <2> QED
    BY <1>0, <2>1, <2>2
<1>5. ASSUME c # o /\ u = o PROVE Follows
  <2>1. d = "keep"
    BY <1>1, <1>5
  <2>2. x.result = c /\ x.conflict = FALSE
    BY <2>1 DEF HandleMergeKV, Outcome
  <2>3. Settings(c) = Settings(u)
    BY <1>2, <1>5
  <2> QED
    BY <2>2, <2>3
<1>6. ASSUME c # o /\ u # o PROVE Follows
  <2>1. d = "conflict"
    BY <1>1, <1>6
  <2>2. m.kv = Serialized(ThreeWayMergeKV(sb, sc, su)) /\ m.conflicts = ConflictKeys(sb, sc, su)
    BY DEF MergeKV, Settings
  <2>3. CASE m.conflicts = {}
    <3>1. x.result = Plain(m.kv) /\ x.conflict = FALSE
      BY <1>0, <2>1, <2>3 DEF HandleMergeKV, Outcome
    <3>2. IsMap(su)
      BY MapOfKeys DEF Settings
    <3>3. ThreeWayMergeKV(sb, sc, su) = su
      <4>1. ConflictKeys(sb, sc, su) = {}
        BY <2>2, <2>3
      <4>2. /\ DOMAIN sb \subseteq DOMAIN sc /\ DOMAIN sc \subseteq DOMAIN su
            /\ \A k \in DOMAIN sb : sb[k] = su[k] => sc[k] = su[k]
        BY <1>2
      <4> HIDE DEF sb, sc, su
      <4> QED
        BY <4>1, <4>2, <3>2, MergeReachesUpstream
    <3>4. IsDocument(Plain(m.kv)) /\ Settings(Plain(m.kv)) = su
      BY <2>2, <3>2, <3>3, ReadBack DEF IsDocument, Plain, Settings
    <3> QED
      BY <2>1, <3>1, <3>4
  <2>4. CASE m.conflicts # {}
    <3>1. x.result = c /\ x.conflict = TRUE
      BY <1>0, <2>1, <2>4 DEF HandleMergeKV, Outcome
    <3>2. sb # sc
      <4> SUFFICES ASSUME sb = sc
                   PROVE  ConflictKeys(sb, sc, su) = {}
        BY <2>2, <2>4
      <4> HIDE DEF sb, sc, su
      <4> QED
        BY DEF ConflictKeys
    <3> QED
      BY <2>1, <3>1, <3>2
  <2> QED
    BY <2>3, <2>4
<1>7. Follows
  BY <1>3, <1>4, <1>5, <1>6
<1> QED
  BY <1>7 DEF SettingsFollow

\* handleOverwrite does so at once.
LEMMA OverwriteCatchesUp ==
  ASSUME PlainContents, ReleasesGrow, NEW f \in File,
         NEW h \in Shipments(f), NEW j \in Shipments(f), NEW n \in Shipments(f), h <= j, j <= n
  PROVE  LET c == Shipped(f, j)
             d == Decide(Shipped(f, h), c, Shipped(f, n))
             x == HandleOverwrite(d, c, Shipped(f, n))
         IN  /\ x.conflict = FALSE /\ x.result = Shipped(f, n)
             /\ d \in {"noop", "keep"} => x.result = c
<1> DEFINE o == Shipped(f, h)
           c == Shipped(f, j)
           u == Shipped(f, n)
           d == Decide(o, c, u)
           x == HandleOverwrite(d, c, u)
<1>1. c \notin {Missing, Empty} /\ o # Missing
  BY ShippedDocument
<1>2. d = IF c = o THEN IF u = o THEN "noop" ELSE "update"
                   ELSE IF u = o THEN "keep" ELSE "conflict"
  BY <1>1, DecideKnownFile
<1>3. o = u => c = u
  BY DEF ReleasesGrow
<1>4. d \in {"noop", "keep"} => c = u
  BY <1>2, <1>3
<1> QED
  BY <1>4 DEF HandleOverwrite, Outcome

\* A handler takes a file one step further, or finds a conflict and leaves it.
LEMMA StepTracks ==
  ASSUME PlainContents, ReleasesGrow, NEW f \in File, Tracking(f),
         NEW c, NEW b, NEW s \in 0..2, NEW o, NEW u, OnItsWay(f, c, b, s, o, u)
  PROVE  LET d == Decide(o, c, u)
             x == IF Strategy(Rel(f)) = "merge-kv" THEN HandleMergeKV(d, b, c, u)
                                                   ELSE HandleOverwrite(d, c, u)
         IN  /\ x.conflict \in BOOLEAN
             /\ x.conflict \/ d \in {"noop", "keep"} => x.result = c
             /\ OnItsWay(f, x.result, IF x.conflict THEN c ELSE b, After(s), o, u)
<1> DEFINE d == Decide(o, c, u)
           kv == HandleMergeKV(d, b, c, u)
           ow == HandleOverwrite(d, c, u)
<1>1. PICK h \in Shipments(f) : \E j \in Shipments(f), n \in Shipments(f) :
        /\ h <= j /\ j <= n
        /\ o = Shipped(f, h) /\ u = Shipped(f, n)
        /\ IF Strategy(Rel(f)) = "merge-kv" THEN Merged(f, c, b, s, u, j)
                                            ELSE Replaced(f, c, s, u, j)
  BY DEF OnItsWay
<1>2. PICK j \in Shipments(f), n \in Shipments(f) :
        /\ h <= j /\ j <= n
        /\ o = Shipped(f, h) /\ u = Shipped(f, n)
        /\ IF Strategy(Rel(f)) = "merge-kv" THEN Merged(f, c, b, s, u, j)
                                            ELSE Replaced(f, c, s, u, j)
  BY <1>1
<1>3. h \in Nat /\ j \in Nat /\ n \in Nat /\ h <= n /\ n <= n
  <2>1. h \in Nat /\ j \in Nat /\ n \in Nat
    BY DEF ReleasesGrow
  <2> QED
    BY <1>2, <2>1
<1>4. CASE Strategy(Rel(f)) = "merge-kv"
  <2>1. Merged(f, c, b, s, u, j)
    BY <1>2, <1>4
  <2>2. PICK i \in Shipments(f) : i <= j /\ Settings(b) = Settings(Shipped(f, i))
    BY <2>1 DEF Merged
  <2>3. /\ IsDocument(c) /\ IsDocument(b) /\ Settings(c) = Settings(Shipped(f, j))
        /\ s = 1 => Settings(b) = Settings(c) \/ Settings(c) = Settings(u)
        /\ s = 2 => Settings(c) = Settings(u)
    BY <2>1 DEF Merged
  <2>4. /\ d \in {"noop", "keep"} => kv.result = c
        /\ \/ /\ kv.conflict = FALSE
              /\ IsDocument(kv.result) /\ Settings(kv.result) = Settings(u)
           \/ /\ kv.conflict = TRUE
              /\ kv.result = c /\ d = "conflict" /\ Settings(b) # Settings(c)
    <3>1. i <= j /\ h <= j /\ j <= n
      BY <1>2, <2>2
    <3>2. /\ IsDocument(c) /\ Settings(c) = Settings(Shipped(f, j))
          /\ IsDocument(b) /\ Settings(b) = Settings(Shipped(f, i))
      BY <2>2, <2>3
    <3>3. SettingsFollow(Shipped(f, h), b, c, Shipped(f, n))
      BY <3>1, <3>2, KVCatchesUp
    <3>4. SettingsFollow(o, b, c, u)
      BY <1>2, <3>3
    <3> QED
      BY <3>4 DEF SettingsFollow
  <2> HIDE DEF d, kv
  <2>5. CASE kv.conflict = FALSE
    <3>1. IsDocument(kv.result) /\ Settings(kv.result) = Settings(Shipped(f, n))
      BY <1>2, <2>4, <2>5
    <3>2. i \in Nat /\ i <= n
      <4>1. i \in Nat
        BY DEF ReleasesGrow
      <4> QED
        BY <1>2, <1>3, <2>2, <4>1
    <3>3. Merged(f, kv.result, b, After(s), u, n)
      BY <1>2, <2>2, <2>3, <3>1, <3>2 DEF Merged
    <3>4. OnItsWay(f, kv.result, b, After(s), o, u)
      BY <1>2, <1>3, <1>4, <3>3 DEF OnItsWay
    <3> QED
      BY <1>4, <2>4, <2>5, <3>4 DEF d, kv
  <2>6. CASE kv.conflict = TRUE
    <3>1. After(s) = 2 => Settings(c) = Settings(u)
      <4>1. After(s) = 2 => s = 1 \/ s = 2
        BY DEF After
      <4> QED
        BY <2>3, <2>4, <2>6, <4>1
    <3>2. Merged(f, c, c, After(s), u, j)
      BY <1>3, <2>3, <3>1 DEF Merged
    <3>3. OnItsWay(f, c, c, After(s), o, u)
      BY <1>2, <1>4, <3>2 DEF OnItsWay
    <3> QED
      BY <1>4, <2>4, <2>6, <3>3 DEF d, kv
  <2> QED
    BY <2>4, <2>5, <2>6
<1>5. CASE Strategy(Rel(f)) # "merge-kv"
  <2>1. c = Shipped(f, j)
    BY <1>2, <1>5 DEF Replaced
  <2>2. ow.conflict = FALSE /\ ow.result = u /\ (d \in {"noop", "keep"} => ow.result = c)
    BY <1>2, <2>1, OverwriteCatchesUp
  <2> HIDE DEF d, ow
  <2>3. Replaced(f, u, After(s), u, n)
    BY <1>2 DEF Replaced
  <2>4. OnItsWay(f, u, b, After(s), o, u)
    BY <1>2, <1>3, <1>5, <2>3 DEF OnItsWay
  <2> QED
    BY <1>5, <2>2, <2>4 DEF d, ow
<1> QED
  BY <1>4, <1>5

\* A file that is not there is put there as it is shipped.
LEMMA NewTracks ==
  ASSUME PlainContents, ReleasesGrow, NEW f \in File, Tracking(f),
         NEW o, NEW u, InOrder(f, o, u)
  PROVE  OnItsWay(f, u, u, 1, o, u)
<1>1. PICK h \in Shipments(f), n \in Shipments(f) :
        h <= n /\ o = Shipped(f, h) /\ u = Shipped(f, n)
  BY DEF InOrder
<1>2. n \in Nat /\ n <= n
  BY DEF ReleasesGrow
<1>3. IsDocument(u)
  BY <1>1, ShippedDocument
<1>4. Merged(f, u, u, 1, u, n) /\ Replaced(f, u, 1, u, n)
  BY <1>1, <1>2, <1>3 DEF Merged, Replaced
<1> QED
  BY <1>1, <1>2, <1>4 DEF OnItsWay

\* A release leaves a file behind, but no further than before.
LEMMA ReleaseTracks ==
  ASSUME ReleasesGrow, NEW f \in File,
         NEW p \in Shipments(f), NEW q \in Shipments(f), p < q, NEW o
  PROVE  /\ InOrder(f, o, Shipped(f, p)) => InOrder(f, o, Shipped(f, q))
         /\ \A c, b, s : OnItsWay(f, c, b, s, o, Shipped(f, p))
                           => OnItsWay(f, c, b, 0, o, Shipped(f, q))
<1>0. p \in Nat /\ q \in Nat
  BY DEF ReleasesGrow
<1>1. ASSUME NEW j \in Shipments(f), NEW n \in Shipments(f), j <= n,
             Shipped(f, n) = Shipped(f, p)
      PROVE  \E m \in Shipments(f) : j <= m /\ Shipped(f, m) = Shipped(f, q)
  <2>1. j \in Nat /\ n \in Nat
    BY DEF ReleasesGrow
  <2>2. CASE n <= q
    BY <1>0, <1>1, <2>1, <2>2
  <2>3. CASE q < n
    <3>1. p <= q /\ q <= n
      BY <1>0, <2>1, <2>3
    <3>2. Shipped(f, q) = Shipped(f, n)
      BY <1>1, <3>1 DEF ReleasesGrow
    <3> QED
      BY <1>1, <3>2
  <2> QED
    BY <1>0, <2>1, <2>2, <2>3
<1>2. InOrder(f, o, Shipped(f, p)) => InOrder(f, o, Shipped(f, q))
  BY <1>1 DEF InOrder
<1>3. ASSUME NEW c, NEW b, NEW s, OnItsWay(f, c, b, s, o, Shipped(f, p))
      PROVE  OnItsWay(f, c, b, 0, o, Shipped(f, q))
  <2>1. PICK h \in Shipments(f) : \E j \in Shipments(f), n \in Shipments(f) :
          /\ h <= j /\ j <= n
          /\ o = Shipped(f, h) /\ Shipped(f, p) = Shipped(f, n)
          /\ IF Strategy(Rel(f)) = "merge-kv" THEN Merged(f, c, b, s, Shipped(f, p), j)
                                              ELSE Replaced(f, c, s, Shipped(f, p), j)
    BY <1>3 DEF OnItsWay
  <2>2. PICK j \in Shipments(f), n \in Shipments(f) :
          /\ h <= j /\ j <= n
          /\ o = Shipped(f, h) /\ Shipped(f, p) = Shipped(f, n)
          /\ IF Strategy(Rel(f)) = "merge-kv" THEN Merged(f, c, b, s, Shipped(f, p), j)
                                              ELSE Replaced(f, c, s, Shipped(f, p), j)
    BY <2>1
  <2>3. PICK m \in Shipments(f) : j <= m /\ Shipped(f, m) = Shipped(f, q)
    BY <1>1, <2>2
  <2>4. Merged(f, c, b, s, Shipped(f, p), j) => Merged(f, c, b, 0, Shipped(f, q), j)
    BY DEF Merged
  <2>5. Replaced(f, c, s, Shipped(f, p), j) => Replaced(f, c, 0, Shipped(f, q), j)
    BY DEF Replaced
  <2> QED
    BY <2>2, <2>3, <2>4, <2>5 DEF OnItsWay
<1> QED
  BY <1>2, <1>3

----------------------------------------------------------------------------
(* The steps of a run.                                                     *)

\* A file whose copy, baseline and upstream stay is as far as it was.
LEMMA RestKept ==
  ASSUME NEW f \in File, AtRest(f),
         deploy'[f] = deploy[f], backup'[f] = backup[f], calm'[f] = calm[f],
         upstream'[Rel(f)] = upstream[Rel(f)], Baseline(f)' = Baseline(f),
         loaded[Rel(f)].orig # Missing => loaded'[Rel(f)].orig # Missing
  PROVE  AtRest(f)'
  BY DEF AtRest

\* A file that is out of work before and after a step stays where it is.
LEMMA OutOfWork ==
  ASSUME NEW f \in File, Tracked(f), ~InWork(f), ~InWork(f)',
         UNCHANGED <<upstream, deploy, backup>>, calm'[f] = calm[f],
         manifest = loaded => manifest' = loaded' /\ loaded' = loaded
  PROVE  Tracked(f)'
<1> SUFFICES ASSUME calm[f] >= 0
             PROVE  manifest' = loaded' /\ AtRest(f)'
  BY DEF Tracked
<1>1. AtRest(f) /\ loaded' = loaded /\ manifest' = loaded'
  BY DEF Tracked
<1>2. Baseline(f)' = Baseline(f)
  BY <1>1 DEF Baseline
<1> QED
  BY <1>1, <1>2, RestKept

\* Nothing is promised of a file after a fault.
LEMMA FaultTracks ==
  ASSUME NEW f \in File, Fault
  PROVE  Tracked(f)'
<1>1. calm'[f] = -1
  BY DEF Fault
<1> QED
  BY <1>1 DEF Tracked

LEMMA StartRunC ==
  ASSUME KInv, Catching, StartRun, NEW f \in File, Tracking(f)
  PROVE  Tracked(f)'
<1>1. CASE Fault
  BY <1>1, FaultTracks
<1>2. CASE ~Fault
  <2>1. job = NoJob /\ job' = NoJob
    BY DEF StartRun, KInv, IInv, JobOK
  <2>2. loaded' = manifest /\ UNCHANGED <<upstream, deploy, backup, manifest, calm>>
    BY <1>2 DEF StartRun, Undisturbed
  <2>3. ~InWork(f) /\ ~InWork(f)'
    BY <2>1 DEF InWork
  <2>4. Tracked(f)
    BY DEF Catching
  <2> QED
    BY <2>2, <2>3, <2>4, OutOfWork
<1> QED
  BY <1>1, <1>2

\* The handler the run takes for a file that is tracked.
LEMMA HandlerOf ==
  ASSUME NEW f \in File, Tracking(f), NEW d, NEW c, NEW u
  PROVE  Handle(f, d, c, u) = IF Strategy(Rel(f)) = "merge-kv"
                              THEN HandleMergeKV(d, backup[f], c, u)
                              ELSE HandleOverwrite(d, c, u)
<1>1. CASE Strategy(Rel(f)) = "merge-kv"
  BY <1>1 DEF Handle
<1>2. CASE Strategy(Rel(f)) # "merge-kv"
  <2>1. /\ ~(Strategy(Rel(f)) = "skip-if-exists") /\ ~(Strategy(Rel(f)) = "merge-kv")
        /\ ~(Strategy(Rel(f)) = "merge-section")
    BY <1>2 DEF Tracking
  <2> QED
    BY <2>1 DEF Handle
<1> QED
  BY <1>1, <1>2

\* The outcome of a handler for a file at rest.
LEMMA HandlerTracks ==
  ASSUME PlainContents, ReleasesGrow, NEW f \in File, Tracking(f), AtRest(f),
         calm[f] \in 0..2
  PROVE  LET c == deploy[f]
             u == upstream[Rel(f)]
             d == Decide(loaded[Rel(f)].orig, c, u)
             h == Handle(f, d, c, u)
         IN  /\ h.conflict \in BOOLEAN
             /\ h.conflict \/ d \in {"noop", "keep"} => h.result = c
             /\ OnItsWay(f, h.result,
                         IF h.conflict THEN c
                         ELSE IF d \notin {"noop", "keep"} /\ backup[f] = Missing
                              THEN h.result ELSE backup[f],
                         After(calm[f]), Baseline(f), u)
<1> DEFINE c == deploy[f]
           b == backup[f]
           u == upstream[Rel(f)]
           d == Decide(loaded[Rel(f)].orig, c, u)
           h == Handle(f, d, c, u)
           x == IF Strategy(Rel(f)) = "merge-kv" THEN HandleMergeKV(d, b, c, u)
                                                 ELSE HandleOverwrite(d, c, u)
<1>0. h = x
  BY HandlerOf
<1>1. CASE c = Missing
  <2>1. b = Missing /\ calm[f] = 0 /\ InOrder(f, Baseline(f), u)
    BY <1>1 DEF AtRest
  <2>2. d = "new"
    <3>1. Missing # Empty
      BY DEF PlainContents
    <3> QED
      BY <1>1, <3>1 DEF Decide
  <2>3. x.result = u /\ x.conflict = FALSE
    BY <2>2 DEF HandleMergeKV, HandleOverwrite, Outcome
  <2>4. OnItsWay(f, u, u, 1, Baseline(f), u) /\ After(calm[f]) = 1
    BY <2>1, NewTracks DEF After
  <2> HIDE DEF b, u, x, h, d
  <2>5. h.result = u /\ h.conflict = FALSE
    BY <1>0, <2>3
  <2> QED
    BY <2>1, <2>2, <2>4, <2>5 DEF b, u, h, d
<1>2. CASE c # Missing
  <2>1. loaded[Rel(f)].orig # Missing /\ OnItsWay(f, c, b, calm[f], Baseline(f), u)
    BY <1>2 DEF AtRest
  <2>2. Baseline(f) = loaded[Rel(f)].orig
    BY <2>1 DEF Baseline
  <2>3. /\ x.conflict \in BOOLEAN
        /\ x.conflict \/ d \in {"noop", "keep"} => x.result = c
        /\ OnItsWay(f, x.result, IF x.conflict THEN c ELSE b, After(calm[f]), Baseline(f), u)
    BY <2>1, <2>2, StepTracks
  <2>4. CASE Strategy(Rel(f)) = "merge-kv"
    <3>1. b # Missing
      <4>1. IsDocument(b)
        BY <2>1, <2>4 DEF OnItsWay, Merged
      <4> QED
        BY <4>1 DEF PlainContents
    <3> HIDE DEF b, c, u, x, h, d
    <3> QED
      BY <1>0, <2>3, <3>1 DEF b, c, u, h, d
  <2>5. CASE Strategy(Rel(f)) # "merge-kv"
    <3>1. \A p, q : OnItsWay(f, x.result, p, After(calm[f]), Baseline(f), u)
                      => OnItsWay(f, x.result, q, After(calm[f]), Baseline(f), u)
      <4> HIDE DEF x, u
      <4> QED
        BY <2>5 DEF OnItsWay
    <3> HIDE DEF b, c, u, x, h, d
    <3> QED
      BY <1>0, <2>3, <3>1 DEF b, c, u, h, d
  <2> QED
    BY <2>4, <2>5
<1> QED
  BY <1>1, <1>2

LEMMA ReadFilesC ==
  ASSUME PlainContents, ReleasesGrow, KInv, Catching, ReadFiles,
         NEW f \in File, Tracking(f)
  PROVE  Tracked(f)'
<1> DEFINE c == deploy[f]
           u == upstream[Rel(f)]
           d == Decide(loaded[Rel(f)].orig, c, u)
           h == Handle(f, d, c, u)
<1>1. /\ Running /\ job = NoJob
      /\ UNCHANGED <<upstream, deploy, backup, manifest, loaded, todo, calm>>
  BY DEF ReadFiles
<1>2. Tracked(f) /\ ~InWork(f) /\ calm[f] \in -1..2
  BY <1>1 DEF Catching, InWork
<1>3. CASE Step # f
  <2>1. ~InWork(f)'
    BY <1>1, <1>3 DEF InWork, Step
  <2> QED
    BY <1>1, <1>2, <2>1, OutOfWork
<1>4. CASE Step = f
  <2> SUFFICES ASSUME calm[f] >= 0
               PROVE  Tracked(f)'
    BY <1>1 DEF Tracked
  <2>1. AtRest(f) /\ manifest = loaded /\ calm[f] \in 0..2
    BY <1>2 DEF Tracked
  <2>2. job' = [stage |-> IF h.conflict THEN "backups"
                          ELSE IF d \in {"noop", "keep"} THEN "record" ELSE "write",
                decision |-> d, current |-> c, upstream |-> u,
                result |-> h.result, conflict |-> h.conflict]
    BY <1>4 DEF ReadFiles
  <2>3. /\ h.conflict \in BOOLEAN
        /\ h.conflict \/ d \in {"noop", "keep"} => h.result = c
        /\ OnItsWay(f, h.result,
                    IF h.conflict THEN c
                    ELSE IF d \notin {"noop", "keep"} /\ backup[f] = Missing
                         THEN h.result ELSE backup[f],
                    After(calm[f]), Baseline(f), u)
    BY <2>1, HandlerTracks
  <2> HIDE DEF c, d, u, h
  <2>4. /\ job'.stage = IF h.conflict THEN "backups"
                        ELSE IF d \in {"noop", "keep"} THEN "record" ELSE "write"
        /\ job'.current = c /\ job'.result = h.result
    BY <2>2
  <2>5. Baseline(f)' = Baseline(f)
    BY <1>1 DEF Baseline
  <2>6. FileLeft(f)' = h.result
    BY <1>1, <2>3, <2>4 DEF FileLeft, c
  <2>7. CopyLeft(f)' = IF h.conflict THEN c
                       ELSE IF d \notin {"noop", "keep"} /\ backup[f] = Missing
                            THEN h.result ELSE backup[f]
    <3>1. CASE h.conflict
      BY <1>1, <2>4, <3>1 DEF CopyLeft
    <3>2. CASE ~h.conflict /\ d \in {"noop", "keep"}
      BY <1>1, <2>4, <3>2 DEF CopyLeft
    <3>3. CASE ~h.conflict /\ d \notin {"noop", "keep"}
      BY <1>1, <2>4, <3>3 DEF CopyLeft
    <3> QED
      BY <3>1, <3>2, <3>3
  <2>8. InWork(f)'
    BY <1>1, <1>4, <2>4 DEF InWork, Running, Step, NoJob
  <2>9. upstream'[Rel(f)] = u /\ calm'[f] = calm[f] /\ manifest' = loaded'
    BY <1>1, <2>1 DEF u
  <2> QED
    BY <2>3, <2>5, <2>6, <2>7, <2>8, <2>9 DEF Tracked
<1> QED
  BY <1>3, <1>4

\* The shape of the step under way.
LEMMA JobShape ==
  ASSUME KInv, Running, job # NoJob
  PROVE  /\ Step \in File
         /\ job.stage \in {"backups", "write", "orig", "record"}
         /\ job = [stage |-> job.stage, decision |-> job.decision, current |-> job.current,
                   upstream |-> job.upstream, result |-> job.result, conflict |-> job.conflict]
         /\ job.stage = "backups" => job.result = job.current
  BY StepInPlan DEF KInv, StepOK

\* A step under way that leaves the same in the file it works on and in the copy, whatever
\* it does to them, keeps every file on its way.
LEMMA InWorkOn ==
  ASSUME Catching, NEW f \in File, Tracking(f), Running, job # NoJob, Step \in File,
         UNCHANGED <<upstream, manifest, loaded, todo, calm>>, job' # NoJob,
         \A g \in File \ {Step} : deploy'[g] = deploy[g] /\ backup'[g] = backup[g],
         FileLeft(Step)' = FileLeft(Step), CopyLeft(Step)' = CopyLeft(Step)
  PROVE  Tracked(f)'
<1> SUFFICES ASSUME calm[f] >= 0
             PROVE  Tracked(f)'
  BY DEF Tracked
<1>1. Tracked(f)
  BY DEF Catching
<1>2. Step' = Step /\ Running' /\ Baseline(f)' = Baseline(f)
  BY DEF Step, Running, Baseline
<1>3. CASE Step = f
  <2>1. InWork(f) /\ InWork(f)'
    BY <1>2, <1>3 DEF InWork
  <2>2. OnItsWay(f, FileLeft(f), CopyLeft(f), After(calm[f]), Baseline(f), upstream[Rel(f)])
    BY <1>1, <2>1 DEF Tracked
  <2>3. FileLeft(f)' = FileLeft(f) /\ CopyLeft(f)' = CopyLeft(f)
    BY <1>2, <1>3 DEF FileLeft, CopyLeft
  <2> QED
    BY <1>1, <1>2, <2>1, <2>2, <2>3 DEF Tracked
<1>4. CASE Step # f
  <2>1. ~InWork(f) /\ ~InWork(f)'
    BY <1>2, <1>4 DEF InWork
  <2>2. AtRest(f)'
    BY <1>1, <1>2, <1>4, <2>1, RestKept DEF Tracked
  <2> QED
    BY <1>1, <2>1, <2>2 DEF Tracked
<1> QED
  BY <1>3, <1>4

LEMMA ConflictBackupsC ==
  ASSUME KInv, Catching, WriteConflictBackups, NEW f \in File, Tracking(f)
  PROVE  Tracked(f)'
<1>1. CASE Fault
  BY <1>1, FaultTracks
<1>2. CASE ~Fault
  <2>1. /\ Running /\ job.stage = "backups" /\ job # NoJob
        /\ UNCHANGED <<upstream, deploy, manifest, loaded, todo, calm>>
        /\ job' = [job EXCEPT !.stage = "write"]
        /\ backup' = [backup EXCEPT ![Step] = job.current]
    BY <1>2 DEF WriteConflictBackups, Undisturbed, NoJob
  <2>2. /\ Step \in File /\ job.result = job.current
        /\ job = [stage |-> job.stage, decision |-> job.decision, current |-> job.current,
                  upstream |-> job.upstream, result |-> job.result, conflict |-> job.conflict]
    BY <2>1, JobShape
  <2>3. job'.stage = "write" /\ job'.result = job.result /\ job' # NoJob
    BY <2>1, <2>2 DEF NoJob
  <2>4. Step' = Step /\ DOMAIN backup = File
    BY <2>1 DEF Step, KInv, FilesOK
  <2>5. backup'[Step] = job.current /\ \A g \in File \ {Step} : backup'[g] = backup[g]
    BY <2>1, <2>2, <2>4
  <2>6. FileLeft(Step)' = FileLeft(Step)
    BY <2>1, <2>3, <2>4 DEF FileLeft
  <2>7. CopyLeft(Step)' = CopyLeft(Step)
    BY <2>1, <2>2, <2>3, <2>4, <2>5 DEF CopyLeft
  <2> QED
    BY <2>1, <2>2, <2>3, <2>5, <2>6, <2>7, InWorkOn
<1> QED
  BY <1>1, <1>2

LEMMA WriteDeployedC ==
  ASSUME KInv, Catching, WriteDeployed, NEW f \in File, Tracking(f)
  PROVE  Tracked(f)'
<1>1. /\ Running /\ job.stage = "write" /\ job # NoJob
      /\ UNCHANGED <<upstream, backup, manifest, loaded, todo, calm>>
      /\ job' = [job EXCEPT !.stage = "orig"]
      /\ deploy' = [deploy EXCEPT ![Step] = job.result]
  BY DEF WriteDeployed, NoJob
<1>2. /\ Step \in File
      /\ job = [stage |-> job.stage, decision |-> job.decision, current |-> job.current,
                upstream |-> job.upstream, result |-> job.result, conflict |-> job.conflict]
  BY <1>1, JobShape
<1>3. job'.stage = "orig" /\ job'.result = job.result /\ job' # NoJob
  BY <1>1, <1>2 DEF NoJob
<1>4. Step' = Step /\ DOMAIN deploy = File
  BY <1>1 DEF Step, KInv, FilesOK
<1>5. deploy'[Step] = job.result /\ \A g \in File \ {Step} : deploy'[g] = deploy[g]
  BY <1>1, <1>2, <1>4
<1>6. FileLeft(Step)' = FileLeft(Step)
  BY <1>1, <1>3, <1>4, <1>5 DEF FileLeft
<1>7. CopyLeft(Step)' = CopyLeft(Step)
  BY <1>1, <1>3, <1>4 DEF CopyLeft
<1> QED
  BY <1>1, <1>2, <1>3, <1>5, <1>6, <1>7, InWorkOn

LEMMA WriteOrigCopyC ==
  ASSUME KInv, Catching, WriteOrigCopy, NEW f \in File, Tracking(f)
  PROVE  Tracked(f)'
<1>1. CASE Fault
  BY <1>1, FaultTracks
<1>2. CASE ~Fault
  <2>1. /\ Running /\ job.stage = "orig" /\ job # NoJob
        /\ UNCHANGED <<upstream, deploy, manifest, loaded, todo, calm>>
        /\ job' = [job EXCEPT !.stage = "record"]
        /\ backup' = IF backup[Step] = Missing
                     THEN [backup EXCEPT ![Step] = job.result] ELSE backup
    BY <1>2 DEF WriteOrigCopy, Undisturbed, NoJob
  <2>2. /\ Step \in File
        /\ job = [stage |-> job.stage, decision |-> job.decision, current |-> job.current,
                  upstream |-> job.upstream, result |-> job.result, conflict |-> job.conflict]
    BY <2>1, JobShape
  <2>3. job'.stage = "record" /\ job'.result = job.result /\ job' # NoJob
    BY <2>1, <2>2 DEF NoJob
  <2>4. Step' = Step /\ DOMAIN backup = File
    BY <2>1 DEF Step, KInv, FilesOK
  <2>5. /\ backup'[Step] = IF backup[Step] = Missing THEN job.result ELSE backup[Step]
        /\ \A g \in File \ {Step} : backup'[g] = backup[g]
    BY <2>1, <2>2, <2>4
  <2>6. FileLeft(Step)' = FileLeft(Step)
    BY <2>1, <2>3, <2>4 DEF FileLeft
  <2>7. CopyLeft(Step)' = CopyLeft(Step)
    BY <2>1, <2>3, <2>4, <2>5 DEF CopyLeft
  <2> QED
    BY <2>1, <2>2, <2>3, <2>5, <2>6, <2>7, InWorkOn
<1> QED
  BY <1>1, <1>2

\* Recording a step never moves a baseline.
LEMMA RecordBaseline ==
  ASSUME KInv, Catching, Record, NEW f \in File
  PROVE  /\ Baseline(f)' = Baseline(f)
         /\ loaded[Rel(f)].orig # Missing => loaded'[Rel(f)].orig # Missing
         /\ PlainContents /\ Step = f => loaded'[Rel(f)].orig # Missing
<1>1. /\ Running /\ job.stage = "record" /\ job # NoJob /\ UNCHANGED upstream
      /\ loaded' = [loaded EXCEPT ![Rel(Step)] = NewEntry(@)]
  BY DEF Record, NoJob
<1>2. /\ Step \in File /\ Rel(Step) \in Rels /\ Rel(f) \in Rels /\ DOMAIN loaded = Rels
  BY <1>1, StepInPlan DEF KInv, FilesOK, Baselines, Rels
<1>3. job.upstream = upstream[Rel(Step)] /\ IsRelease(Rel(Step), job.upstream)
  BY <1>1 DEF Catching, JobUpstream, KInv, StepOK
<1>4. CASE Rel(f) = Rel(Step)
  <2>1. loaded'[Rel(f)].orig = IF loaded[Rel(f)].orig = Missing THEN upstream[Rel(f)]
                                                                ELSE loaded[Rel(f)].orig
    <3>1. loaded'[Rel(f)] = NewEntry(loaded[Rel(f)])
      BY <1>1, <1>2, <1>4
    <3> QED
      BY <1>3, <1>4, <3>1 DEF NewEntry
  <2>2. PlainContents => upstream[Rel(f)] # Missing
    BY <1>2, <1>3, <1>4 DEF PlainContents
  <2> QED
    BY <1>1, <2>1, <2>2 DEF Baseline
<1>5. CASE Rel(f) # Rel(Step)
  <2>1. loaded'[Rel(f)] = loaded[Rel(f)]
    BY <1>1, <1>2, <1>5
  <2> QED
    BY <1>1, <1>5, <2>1 DEF Baseline
<1> QED
  BY <1>4, <1>5

LEMMA RecordC ==
  ASSUME PlainContents, KInv, Catching, Record, NEW f \in File, Tracking(f)
  PROVE  Tracked(f)'
<1>1. CASE Fault
  BY <1>1, FaultTracks
<1>2. CASE ~Fault
  <2> SUFFICES ASSUME calm[f] >= 0
               PROVE  Tracked(f)'
    <3>1. calm[f] < 0 => calm'[f] = calm[f]
      BY <1>2 DEF Record, Catching
    <3> QED
      BY <3>1 DEF Tracked, Catching
  <2>1. /\ Running /\ job.stage = "record" /\ job # NoJob /\ job' = NoJob
        /\ UNCHANGED <<upstream, deploy, backup>>
        /\ manifest' = loaded'
        /\ calm' = [calm EXCEPT ![Step] = IF @ \in 0..1 THEN @ + 1 ELSE @]
    BY <1>2 DEF Record, NoJob
  <2>2. Tracked(f) /\ ~InWork(f)' /\ calm \in [File -> -1..2]
    BY <2>1 DEF Catching, InWork
  <2>3. /\ Baseline(f)' = Baseline(f)
        /\ loaded[Rel(f)].orig # Missing => loaded'[Rel(f)].orig # Missing
        /\ Step = f => loaded'[Rel(f)].orig # Missing
    BY RecordBaseline
  <2>4. AtRest(f)'
    <3>1. CASE Step # f
      <4>1. ~InWork(f) /\ calm'[f] = calm[f]
        BY <2>1, <2>2, <3>1 DEF InWork
      <4> QED
        BY <2>1, <2>2, <2>3, <4>1, RestKept DEF Tracked
    <3>2. CASE Step = f
      <4>1. InWork(f) /\ FileLeft(f) = deploy[f] /\ CopyLeft(f) = backup[f]
        BY <2>1, <3>2 DEF InWork, FileLeft, CopyLeft
      <4>2. OnItsWay(f, deploy[f], backup[f], After(calm[f]), Baseline(f), upstream[Rel(f)])
        BY <2>2, <4>1 DEF Tracked
      <4>3. calm'[f] = After(calm[f])
        BY <2>1, <2>2, <3>2 DEF After
      <4>4. deploy[f] # Missing
        BY <4>2, ShippedDocument DEF OnItsWay, Merged, Replaced, PlainContents
      <4> QED
        BY <2>1, <2>3, <3>2, <4>2, <4>3, <4>4 DEF AtRest
    <3> QED
      BY <3>1, <3>2
  <2> QED
    BY <2>1, <2>2, <2>4 DEF Tracked
<1> QED
  BY <1>1, <1>2

LEMMA ReleaseC ==
  ASSUME ReleasesGrow, KInv, Catching, Release, NEW f \in File, Tracking(f)
  PROVE  Tracked(f)'
<1>1. PICK r \in {Rel(g) : g \in Range(plan)} : \E i, j \in DOMAIN Releases(r) :
        /\ i < j /\ upstream[r] = Releases(r)[i]
        /\ upstream' = [upstream EXCEPT ![r] = Releases(r)[j]]
        /\ calm' = [g \in File |-> IF Rel(g) = r /\ calm[g] > 0 THEN 0 ELSE calm[g]]
  BY DEF Release
<1>2. PICK i \in DOMAIN Releases(r), j \in DOMAIN Releases(r) :
        /\ i < j /\ upstream[r] = Releases(r)[i]
        /\ upstream' = [upstream EXCEPT ![r] = Releases(r)[j]]
        /\ calm' = [g \in File |-> IF Rel(g) = r /\ calm[g] > 0 THEN 0 ELSE calm[g]]
  BY <1>1
<1>3. /\ job = NoJob /\ job' = NoJob
      /\ UNCHANGED <<deploy, backup, manifest, loaded, todo>>
  BY DEF Release
<1>4. /\ Tracked(f) /\ ~InWork(f) /\ ~InWork(f)' /\ calm[f] \in -1..2
      /\ Rel(f) \in Rels /\ DOMAIN upstream = Rels
  BY <1>3 DEF Catching, InWork, KInv, FilesOK, Rels
<1>5. CASE Rel(f) # r
  <2>1. upstream'[Rel(f)] = upstream[Rel(f)] /\ calm'[f] = calm[f]
    BY <1>2, <1>4, <1>5
  <2>2. Baseline(f)' = Baseline(f)
    BY <1>3, <2>1 DEF Baseline
  <2> QED
    BY <1>3, <1>4, <2>1, <2>2, RestKept DEF Tracked
<1>6. CASE Rel(f) = r
  <2> SUFFICES ASSUME calm[f] >= 0
               PROVE  Tracked(f)'
    BY <1>2, <1>4 DEF Tracked
  <2>1. /\ i \in Shipments(f) /\ j \in Shipments(f) /\ i < j
        /\ upstream[Rel(f)] = Shipped(f, i) /\ upstream'[Rel(f)] = Shipped(f, j)
        /\ calm'[f] = 0
    BY <1>2, <1>4, <1>6 DEF Shipments, Shipped
  <2>2. AtRest(f) /\ manifest' = loaded'
    BY <1>3, <1>4 DEF Tracked
  <2>3. CASE loaded[Rel(f)].orig = Missing
    <3>1. deploy[f] = Missing /\ backup[f] = Missing
      BY <2>2, <2>3 DEF AtRest
    <3>2. Baseline(f)' = Shipped(f, j)
      BY <1>3, <2>1, <2>3 DEF Baseline
    <3>3. InOrder(f, Shipped(f, j), Shipped(f, j))
      <4>1. j \in Nat /\ j <= j
        BY <2>1 DEF ReleasesGrow
      <4> QED
        BY <2>1, <4>1 DEF InOrder
    <3>4. AtRest(f)'
      BY <1>3, <2>1, <3>1, <3>2, <3>3 DEF AtRest
    <3> QED
      BY <1>4, <2>2, <3>4 DEF Tracked
  <2>4. CASE loaded[Rel(f)].orig # Missing
    <3>1. Baseline(f)' = Baseline(f)
      BY <1>3, <2>4 DEF Baseline
    <3>2. /\ InOrder(f, Baseline(f), Shipped(f, i)) => InOrder(f, Baseline(f), Shipped(f, j))
          /\ \A c, b, s : OnItsWay(f, c, b, s, Baseline(f), Shipped(f, i))
                            => OnItsWay(f, c, b, 0, Baseline(f), Shipped(f, j))
      BY <2>1, ReleaseTracks
    <3>3. AtRest(f)'
      BY <1>3, <2>1, <2>2, <2>4, <3>1, <3>2 DEF AtRest
    <3> QED
      BY <1>4, <2>2, <3>3 DEF Tracked
  <2> QED
    BY <2>3, <2>4
<1> QED
  BY <1>5, <1>6

LEMMA EditC ==
  ASSUME KInv, Catching, Edit, NEW f \in File, Tracking(f)
  PROVE  Tracked(f)'
<1>1. PICK e \in Range(plan) : \E d \in Edits(e, deploy[e]) \ {deploy[e]} :
        deploy' = [deploy EXCEPT ![e] = d] /\ calm' = [calm EXCEPT ![e] = -1]
  BY DEF Edit
<1>2. /\ job = NoJob /\ job' = NoJob
      /\ UNCHANGED <<upstream, backup, manifest, loaded, todo>>
  BY DEF Edit
<1>3. Tracked(f) /\ ~InWork(f) /\ ~InWork(f)' /\ calm \in [File -> -1..2] /\ DOMAIN deploy = File
  BY <1>2 DEF Catching, InWork, KInv, FilesOK
<1>4. CASE e = f
  <2>1. calm'[f] = -1
    BY <1>1, <1>3, <1>4
  <2> QED
    BY <2>1 DEF Tracked
<1>5. CASE e # f
  <2>1. deploy'[f] = deploy[f] /\ calm'[f] = calm[f]
    BY <1>1, <1>3, <1>5
  <2>2. Baseline(f)' = Baseline(f)
    BY <1>2 DEF Baseline
  <2> QED
    BY <1>2, <1>3, <2>1, <2>2, RestKept DEF Tracked
<1> QED
  BY <1>4, <1>5

\* What a step has read of upstream stays true until it is over.
LEMMA JobUpstreamC ==
  ASSUME KInv, Catching, [Next]_vars
  PROVE  JobUpstream'
<1>1. CASE job' = NoJob
  BY <1>1 DEF JobUpstream
<1>2. CASE ReadFiles
  BY <1>2 DEF ReadFiles, JobUpstream, Step
<1>3. CASE WriteConflictBackups \/ WriteDeployed \/ WriteOrigCopy
  <2>1. Running /\ job # NoJob /\ UNCHANGED <<upstream, todo>>
    BY <1>3 DEF WriteConflictBackups, WriteDeployed, WriteOrigCopy, NoJob
  <2>2. job = [stage |-> job.stage, decision |-> job.decision, current |-> job.current,
               upstream |-> job.upstream, result |-> job.result, conflict |-> job.conflict]
    BY <2>1, JobShape
  <2>3. job'.upstream = job.upstream
    BY <1>3, <2>2 DEF WriteConflictBackups, WriteDeployed, WriteOrigCopy
  <2> QED
    BY <2>1, <2>3 DEF Catching, JobUpstream, Step
<1>4. CASE UNCHANGED vars
  BY <1>4 DEF Catching, JobUpstream, Step, Running, vars
<1>5. CASE StartRun \/ Record \/ StepFails \/ Crash \/ Release \/ Edit
  <2>1. job' = NoJob
    BY <1>5 DEF StartRun, Record, StepFails, Crash, Release, Edit, KInv, IInv, JobOK
  <2> QED
    BY <1>1, <2>1
<1> QED
  BY <1>2, <1>3, <1>4, <1>5 DEF Next, Engine

LEMMA CalmC ==
  ASSUME Catching, [Next]_vars
  PROVE  calm' \in [File -> -1..2]
<1>0. calm \in [File -> -1..2]
  BY DEF Catching
<1>1. CASE Fault
  BY <1>1 DEF Fault
<1>2. CASE calm' = calm
  BY <1>0, <1>2
<1>3. CASE Record /\ ~Fault
  <2>1. calm' = [calm EXCEPT ![Step] = IF @ \in 0..1 THEN @ + 1 ELSE @]
    BY <1>3 DEF Record
  <2>2. \A f \in File : calm'[f] \in -1..2
    BY <1>0, <2>1
  <2> QED
    BY <1>0, <2>1, <2>2
<1>4. CASE Release
  <2>1. PICK r : calm' = [g \in File |-> IF Rel(g) = r /\ calm[g] > 0 THEN 0 ELSE calm[g]]
    BY <1>4 DEF Release
  <2> QED
    BY <1>0, <2>1
<1>5. CASE Edit
  <2>1. PICK e : calm' = [calm EXCEPT ![e] = -1]
    BY <1>5 DEF Edit
  <2>2. \A f \in File : calm'[f] = -1 \/ calm'[f] = calm[f]
    BY <1>0, <2>1
  <2>3. -1 \in -1..2
    OBVIOUS
  <2>4. \A f \in File : calm'[f] \in -1..2
    BY <1>0, <2>2, <2>3
  <2> QED
    BY <1>0, <2>1, <2>4
<1>6. CASE ~Fault /\ (StartRun \/ ReadFiles \/ WriteConflictBackups \/ WriteDeployed
                      \/ WriteOrigCopy \/ StepFails \/ Crash \/ UNCHANGED vars)
  <2>1. calm' = calm
    BY <1>6 DEF StartRun, ReadFiles, WriteConflictBackups, WriteDeployed, WriteOrigCopy,
                StepFails, Crash, Undisturbed, vars
  <2> QED
    BY <1>2, <2>1
<1> QED
  BY <1>1, <1>3, <1>4, <1>5, <1>6 DEF Next, Engine

LEMMA NextCatching ==
  ASSUME PlainContents, ReleasesGrow, KInv, Catching, [Next]_vars
  PROVE  Catching'
<1>1. ASSUME NEW f \in File, Tracking(f)
      PROVE  Tracked(f)'
  <2>1. CASE UNCHANGED vars
    BY <1>1, <2>1 DEF vars, Catching, Tracked, InWork, AtRest, Baseline, FileLeft, CopyLeft,
                      Running, Step
  <2>2. CASE StepFails \/ Crash
    BY <2>2, FaultTracks DEF StepFails, Crash
  <2> QED
    BY <1>1, <2>1, <2>2, StartRunC, ReadFilesC, ConflictBackupsC, WriteDeployedC,
       WriteOrigCopyC, RecordC, ReleaseC, EditC DEF Next, Engine
<1>2. \A f \in File : (Tracking(f) => Tracked(f))'
  BY <1>1 DEF Tracking
<1> QED
  BY <1>2, JobUpstreamC, CalmC DEF Catching, Tracking

LEMMA InitCatching ==
  ASSUME PlainContents, ReleasesGrow, Init
  PROVE  Catching
<1>1. /\ \A r \in Rels : upstream[r] = Releases(r)[1] /\ loaded[r].orig = Missing
      /\ \A f \in File : deploy[f] = Missing /\ backup[f] = Missing /\ calm[f] = 0
      /\ manifest = loaded /\ ~Running /\ calm \in [File -> -1..2]
  BY DEF Init, Entries, NoEntry, Running
<1>2. ASSUME NEW f \in File
      PROVE  AtRest(f)
  <2>1. Rel(f) \in Rels /\ 1 \in Shipments(f)
    BY DEF Rels, Shipments, PlainContents
  <2>2. Baseline(f) = Shipped(f, 1) /\ upstream[Rel(f)] = Shipped(f, 1)
    BY <1>1, <2>1 DEF Baseline, Shipped
  <2>3. InOrder(f, Shipped(f, 1), Shipped(f, 1))
    <3>1. 1 <= 1
      OBVIOUS
    <3> QED
      BY <2>1, <3>1 DEF InOrder
  <2> QED
    BY <1>1, <2>2, <2>3 DEF AtRest
<1>3. \A f \in File : Tracked(f)
  BY <1>1, <1>2 DEF Tracked, InWork
<1> QED
  BY <1>1, <1>3 DEF Catching, JobUpstream

\* A merge-kv, overwrite or template file the user leaves alone has upstream's settings
\* after at most two steps, whatever else is edited, stopped or released meanwhile: without
\* a conflict a handler takes the file to upstream, with one the file becomes its own .orig
\* copy and the next step finds none.  Releases must not drop a key nor take a value back
\* (ReleasesGrow), which the code does not demand of them and without which it is false.
THEOREM TrackingFilesCatchUp ==
  ASSUME PlainContents, ReleasesGrow
  PROVE  Spec => []UntouchedCatchesUp
<1>1. PlainContents /\ ReleasesGrow /\ Init => KInv /\ Catching
  BY InitKInv, InitCatching
<1>2. PlainContents /\ ReleasesGrow /\ KInv /\ Catching /\ [Next]_vars => KInv' /\ Catching'
  BY NextKInv, NextCatching
<1>3. KInv /\ Catching => UntouchedCatchesUp
  <2> SUFFICES ASSUME Catching, NEW f \in File, calm[f] = 2, Tracking(f), ~Running
               PROVE  Settings(deploy[f]) = Settings(upstream[Rel(f)])
    BY DEF UntouchedCatchesUp, Tracking, Settings
  <2>1. AtRest(f)
    BY DEF Catching, Tracked, InWork
  <2>2. OnItsWay(f, deploy[f], backup[f], 2, Baseline(f), upstream[Rel(f)])
    BY <2>1 DEF AtRest
  <2> QED
    BY <2>2 DEF OnItsWay, Merged, Replaced
<1> QED
  BY <1>1, <1>2, <1>3, PTL DEF Spec
=============================================================================
