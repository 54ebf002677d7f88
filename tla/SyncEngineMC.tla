---------------------------- MODULE SyncEngineMC ----------------------------
(***************************************************************************)
(* Instances of SyncEngine: a merge-kv file with a section; a start-up     *)
(* file deployed twice under one RelPath, as syncBash does; one that has   *)
(* no settings; an overwrite file with a skip-if-exists one.  The start-up *)
(* files are shipped without markers.  A plan syncs one of these groups.   *)
(***************************************************************************)
EXTENDS SyncEngine, TLC

CONSTANT MCFile

conf == "fuzzel/fuzzel.ini"
rc == "bash/bashrc"
home == "~/.bashrc"
profile == "bash/bash_profile"
art == "Kvantum/theme"
seed == "hypr/monitors.lua"

MCRel(f) == IF f = home THEN rc ELSE f
MCStrategy(r) ==
    CASE r = conf -> "merge-kv" [] r \in {rc, profile} -> "merge-section"
      [] r = seed -> "skip-if-exists" [] OTHER -> "overwrite"

Ship(a, b) == <<0, "a">> :> a @@ <<1, "b">> :> b

MCReleases(r) ==
    CASE r = conf -> <<Plain(Ship(1, 1)), Plain(Ship(2, 1)),
                       Plain(Ship(3, 2) @@ <<1, "c">> :> 1)>>
      [] r = profile -> <<Plain(<<0, Code>> :> 1), Plain(<<0, Code>> :> 2)>>
      [] OTHER -> <<Plain(<<0, "a">> :> 1), Plain(<<0, "a">> :> 2)>>

User == 9
MCUserValues == {User}

Without(kv, p) == [q \in DOMAIN kv \ {p} |-> kv[q]]

MCEdits(f, d) ==
    LET doc == AsDoc(d)
    IN  {Missing, Empty}
        \cup {[doc EXCEPT !.kv = (p :> User) @@ @] : p \in DOMAIN doc.kv \cup
                {q \in {<<0, "a">>} : "a" \notin KeyNames(doc.kv)}}
        \cup {[doc EXCEPT !.kv = Without(@, p)] : p \in DOMAIN doc.kv}
        \cup IF f \in {rc, home, profile} THEN {[doc EXCEPT !.own = {"alias"}]} ELSE {}

MCPlans == {<<conf>>, <<rc, home>>, <<profile>>, <<art, seed>>} \cap Seq(MCFile)

CONSTANTS Releasing, Editing, Faulting
MCBudget == [releases |-> Releasing, edits |-> Editing, faults |-> Faulting]

\* No release takes a key or a value back.
ASSUME MCReleasesGrow == ReleasesGrow
=============================================================================
