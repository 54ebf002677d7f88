------------------------------ MODULE KVMerge ------------------------------
(***************************************************************************)
(* The three-way merge of key/value files (internal/syncengine/kvparse)    *)
(* and of the marked block of a shell start-up file (sectionparse).        *)
(*                                                                         *)
(* A document is [marked, own, kv]: whether it holds the snry-shell        *)
(* markers, the lines outside them, and its settings, a function whose     *)
(* domain is a set of pairs <<section, key>>.  Sections are numbered in    *)
(* file order and 0 is the part before the first header.  Comments, blank  *)
(* lines and the order of keys inside a section are left out.              *)
(***************************************************************************)
EXTENDS Integers, FiniteSets

NoKeys == [p \in {} |-> 0]

Plain(kv) == [marked |-> FALSE, own |-> {}, kv |-> kv]

(***************************************************************************)
(* ThreeWayMergeKV: a key of the baseline survives while the user has it,  *)
(* unless upstream dropped it and the user left it alone; the user's value *)
(* wins over the baseline, upstream's over an unchanged one.               *)
(***************************************************************************)
Survives(o, c, u, k) ==
    k \in DOMAIN o => /\ k \in DOMAIN c
                      /\ k \in DOMAIN u \/ c[k] # o[k]

\* Bug: upstream's value wins whenever it has one.
UserValueWinsAlone(o, c, u, k) == k \in DOMAIN c /\ k \notin DOMAIN u

UserValueWins(o, c, u, k) ==
    /\ k \in DOMAIN c
    /\ ~(k \in DOMAIN o /\ k \in DOMAIN u /\ c[k] = o[k])

ThreeWayMergeKV(o, c, u) ==
    [k \in {j \in DOMAIN o \cup DOMAIN c \cup DOMAIN u : Survives(o, c, u, j)}
        |-> IF UserValueWins(o, c, u, k) THEN c[k] ELSE u[k]]

\* The keys ThreeWayMergeKV reports: both sides moved away from the baseline, be it
\* to the same value, or both introduced the key with different values.
ConflictKeys(o, c, u) ==
    {k \in DOMAIN c \cap DOMAIN u :
        IF k \in DOMAIN o THEN c[k] # o[k] /\ u[k] # o[k] ELSE c[k] # u[k]}

\* AllKeyValueMap: one map for all sections, the last section that has a key decides.
KeyNames(kv) == {p[2] : p \in DOMAIN kv}

LastSection(kv, k) ==
    CHOOSE s \in {p[1] : p \in DOMAIN kv} :
        /\ <<s, k>> \in DOMAIN kv
        /\ \A p \in DOMAIN kv : p[2] = k => p[1] <= s

AllKeyValueMap(kv) == [k \in KeyNames(kv) |-> kv[<<LastSection(kv, k), k>>]]

(***************************************************************************)
(* MergeKV: the sections it rebuilds carry entries only, and a header is   *)
(* an entry with a RawLine, so Serialize writes no header: read back,      *)
(* every merged key stands before the first section.                       *)
(***************************************************************************)
Serialized(map) == [p \in {0} \X DOMAIN map |-> map[p[2]]]

MergeKV(o, c, u) ==
    LET om == AllKeyValueMap(o)
        cm == AllKeyValueMap(c)
        um == AllKeyValueMap(u)
    IN  [kv |-> Serialized(ThreeWayMergeKV(om, cm, um)),
         conflicts |-> ConflictKeys(om, cm, um)]

(***************************************************************************)
(* sectionparse.  Lines of a start-up file that are no settings are one    *)
(* key, Code, whose value stands for their wording; a block is KV content  *)
(* if it is empty or has a setting.                                        *)
(***************************************************************************)
Code == "code"

IsKVContent(kv) == DOMAIN kv = {} \/ \E p \in DOMAIN kv : p[2] # Code

ExtractBlock(d) == IF d.marked THEN d.kv ELSE NoKeys

WrapInMarkers(kv) == [marked |-> TRUE, own |-> {}, kv |-> kv]

ReplaceBlock(d, kv) ==
    IF d.marked THEN [d EXCEPT !.kv = kv] ELSE WrapInMarkers(kv)

MergeSection(o, c, u) ==
    LET m == MergeKV(ExtractBlock(o), ExtractBlock(c), ExtractBlock(u))
    IN  IF ~o.marked /\ ~c.marked
        THEN [doc |-> WrapInMarkers(u.kv), conflicts |-> {}]
        ELSE IF \A d \in {o, c, u} : IsKVContent(ExtractBlock(d))
        THEN [doc |-> ReplaceBlock(c, m.kv), conflicts |-> m.conflicts]
        ELSE [doc |-> ReplaceBlock(c, ExtractBlock(u)), conflicts |-> {}]
============================================================================
