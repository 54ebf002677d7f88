--------------------------- MODULE KVMergeProofs ---------------------------
(***************************************************************************)
(* What ThreeWayMergeKV does to the changes of the user and of upstream,   *)
(* for every baseline, file and release, and what MergeKV writes.          *)
(***************************************************************************)
EXTENDS KVMerge, TLAPS

\* The keys of the merged file.
LEMMA MergeDomain ==
  ASSUME NEW o, NEW c, NEW u
  PROVE  DOMAIN ThreeWayMergeKV(o, c, u) =
           {k \in DOMAIN o \cup DOMAIN c \cup DOMAIN u : Survives(o, c, u, k)}
  BY DEF ThreeWayMergeKV

\* The value of each of them.
LEMMA MergeValue ==
  ASSUME NEW o, NEW c, NEW u,
         NEW k \in DOMAIN o \cup DOMAIN c \cup DOMAIN u, Survives(o, c, u, k)
  PROVE  /\ k \in DOMAIN ThreeWayMergeKV(o, c, u)
         /\ ThreeWayMergeKV(o, c, u)[k] = IF UserValueWins(o, c, u, k) THEN c[k] ELSE u[k]
  BY DEF ThreeWayMergeKV

\* A value the user changed or added is in the merged file, whatever upstream did with
\* its key (ThreeWayMergeKV).
THEOREM UserChangeSurvives ==
  ASSUME NEW o, NEW c, NEW u,
         NEW k \in DOMAIN c, k \in DOMAIN o => c[k] # o[k]
  PROVE  /\ k \in DOMAIN ThreeWayMergeKV(o, c, u)
         /\ ThreeWayMergeKV(o, c, u)[k] = c[k]
<1>1. Survives(o, c, u, k)
  BY DEF Survives
<1>2. UserValueWins(o, c, u, k)
  BY DEF UserValueWins
<1> QED
  BY <1>1, <1>2, MergeValue

\* A setting the user left as it was shipped follows upstream: it takes the new value and
\* goes when upstream drops it.
THEOREM UntouchedFollowsUpstream ==
  ASSUME NEW o, NEW c, NEW u,
         NEW k \in DOMAIN o \cap DOMAIN c, c[k] = o[k]
  PROVE  /\ k \in DOMAIN ThreeWayMergeKV(o, c, u) <=> k \in DOMAIN u
         /\ k \in DOMAIN u => ThreeWayMergeKV(o, c, u)[k] = u[k]
<1>1. Survives(o, c, u, k) <=> k \in DOMAIN u
  BY DEF Survives
<1>2. k \in DOMAIN u => ~UserValueWins(o, c, u, k)
  BY DEF UserValueWins
<1>3. k \in DOMAIN ThreeWayMergeKV(o, c, u) <=> k \in DOMAIN u
  <2>1. DOMAIN ThreeWayMergeKV(o, c, u) =
          {j \in DOMAIN o \cup DOMAIN c \cup DOMAIN u : Survives(o, c, u, j)}
    BY MergeDomain
  <2> QED
    BY <1>1, <2>1
<1>4. ASSUME k \in DOMAIN u
      PROVE  ThreeWayMergeKV(o, c, u)[k] = u[k]
  BY <1>1, <1>2, <1>4, MergeValue
<1> QED
  BY <1>3, <1>4

\* What the user took out stays out, and what upstream adds comes in.
THEOREM DeletionsAndAdditions ==
  ASSUME NEW o, NEW c, NEW u, NEW k
  PROVE  /\ k \in DOMAIN o \ DOMAIN c => k \notin DOMAIN ThreeWayMergeKV(o, c, u)
         /\ k \in DOMAIN u \ (DOMAIN o \cup DOMAIN c) =>
              /\ k \in DOMAIN ThreeWayMergeKV(o, c, u)
              /\ ThreeWayMergeKV(o, c, u)[k] = u[k]
<1>1. ASSUME k \in DOMAIN o \ DOMAIN c
      PROVE  k \notin DOMAIN ThreeWayMergeKV(o, c, u)
  <2>1. ~Survives(o, c, u, k)
    BY <1>1 DEF Survives
  <2> QED
    BY <2>1, MergeDomain
<1>2. ASSUME k \in DOMAIN u \ (DOMAIN o \cup DOMAIN c)
      PROVE  /\ k \in DOMAIN ThreeWayMergeKV(o, c, u)
             /\ ThreeWayMergeKV(o, c, u)[k] = u[k]
  <2>1. Survives(o, c, u, k) /\ ~UserValueWins(o, c, u, k)
    BY <1>2 DEF Survives, UserValueWins
  <2> QED
    BY <1>2, <2>1, MergeValue
<1> QED
  BY <1>1, <1>2

\* A merge that reports no conflict loses no change of either side: a key both still
\* have gets the value of the side that changed it.
THEOREM NothingLostInSilence ==
  ASSUME NEW o, NEW c, NEW u, ConflictKeys(o, c, u) = {},
         NEW k \in DOMAIN o \cap DOMAIN c \cap DOMAIN u
  PROVE  /\ c[k] # o[k] => ThreeWayMergeKV(o, c, u)[k] = c[k]
         /\ u[k] # o[k] => ThreeWayMergeKV(o, c, u)[k] = u[k]
<1>1. c[k] = o[k] \/ u[k] = o[k]
  BY DEF ConflictKeys
<1>2. CASE c[k] = o[k]
  BY <1>2, UntouchedFollowsUpstream
<1>3. CASE c[k] # o[k]
  BY <1>1, <1>3, UserChangeSurvives
<1> QED
  BY <1>2, <1>3

\* A file that has upstream's settings already is not changed by a merge.
THEOREM MergeWithItself ==
  ASSUME NEW o, NEW d, d = [k \in DOMAIN d |-> d[k]]
  PROVE  ThreeWayMergeKV(o, d, d) = d
<1> DEFINE m == ThreeWayMergeKV(o, d, d)
<1>1. DOMAIN m = DOMAIN d
  <2>1. DOMAIN m = {k \in DOMAIN o \cup DOMAIN d \cup DOMAIN d : Survives(o, d, d, k)}
    BY MergeDomain
  <2>2. \A k \in DOMAIN o \cup DOMAIN d : Survives(o, d, d, k) <=> k \in DOMAIN d
    BY DEF Survives
  <2> QED
    BY <2>1, <2>2
<1>2. \A k \in DOMAIN d : m[k] = d[k]
  BY DEF ThreeWayMergeKV, Survives
<1>3. m = [k \in DOMAIN m |-> m[k]]
  BY DEF ThreeWayMergeKV
<1> QED
  BY <1>1, <1>2, <1>3
----------------------------------------------------------------------------
(* Sections.                                                               *)

\* Settings in which no key stands in two sections, as in every file of configs/.
DistinctKeys(kv) ==
  /\ kv = [p \in DOMAIN kv |-> kv[p]]
  /\ \A p \in DOMAIN kv : p = <<p[1], p[2]>> /\ p[1] \in Nat
  /\ \A p, q \in DOMAIN kv : p[2] = q[2] => p = q

IsMap(m) == m = [k \in DOMAIN m |-> m[k]]

LEMMA MapOfKeys ==
  ASSUME NEW kv
  PROVE  DOMAIN AllKeyValueMap(kv) = KeyNames(kv) /\ IsMap(AllKeyValueMap(kv))
  BY DEF AllKeyValueMap, IsMap

\* The only section that has a key is the last one.
LEMMA OneSection ==
  ASSUME NEW kv, DistinctKeys(kv), NEW p \in DOMAIN kv
  PROVE  /\ p[2] \in DOMAIN AllKeyValueMap(kv)
         /\ AllKeyValueMap(kv)[p[2]] = kv[p]
<1> DEFINE Sections == {q[1] : q \in DOMAIN kv}
           L(s) == /\ <<s, p[2]>> \in DOMAIN kv
                   /\ \A q \in DOMAIN kv : q[2] = p[2] => q[1] <= s
<1>1. p = <<p[1], p[2]>> /\ p[1] \in Nat /\ p[1] \in Sections
  BY DEF DistinctKeys
<1>2. L(p[1])
  <2>1. \A q \in DOMAIN kv : q[2] = p[2] => q = p
    BY DEF DistinctKeys
  <2> QED
    BY <1>1, <2>1
<1>3. ASSUME NEW s \in Sections, L(s) PROVE s = p[1]
  <2>1. <<s, p[2]>> \in DOMAIN kv /\ <<s, p[2]>>[2] = p[2]
    BY <1>3
  <2>2. <<s, p[2]>> = p
    BY <2>1 DEF DistinctKeys
  <2> QED
    BY <1>1, <2>2
<1>4. LastSection(kv, p[2]) = CHOOSE s \in Sections : L(s)
  BY DEF LastSection
<1> HIDE DEF Sections, L
<1>5. LastSection(kv, p[2]) = p[1]
  BY <1>1, <1>2, <1>3, <1>4
<1>6. p[2] \in KeyNames(kv)
  BY DEF KeyNames
<1> QED
  BY <1>1, <1>5, <1>6 DEF AllKeyValueMap

\* A file without headers is the map of its keys.
LEMMA ReadBack ==
  ASSUME NEW m
  PROVE  /\ DistinctKeys(Serialized(m))
         /\ IsMap(m) => AllKeyValueMap(Serialized(m)) = m
<1> DEFINE kv == Serialized(m)
<1>1. DOMAIN kv = {0} \X DOMAIN m /\ \A p \in DOMAIN kv : kv[p] = m[p[2]]
  BY DEF Serialized
<1>2. DistinctKeys(kv)
  <2>1. kv = [p \in DOMAIN kv |-> kv[p]]
    BY DEF Serialized
  <2>2. \A p \in {0} \X DOMAIN m : p = <<p[1], p[2]>> /\ p[1] = 0
    OBVIOUS
  <2> QED
    BY <1>1, <2>1, <2>2 DEF DistinctKeys
<1>3. ASSUME IsMap(m) PROVE AllKeyValueMap(kv) = m
  <2>1. KeyNames(kv) = DOMAIN m
    <3>1. \A k \in DOMAIN m : <<0, k>> \in DOMAIN kv /\ <<0, k>>[2] = k
      BY <1>1
    <3>2. \A p \in DOMAIN kv : p[2] \in DOMAIN m
      BY <1>1
    <3> QED
      BY <3>1, <3>2 DEF KeyNames
  <2>2. ASSUME NEW k \in DOMAIN m PROVE AllKeyValueMap(kv)[k] = m[k]
    <3> DEFINE p == <<0, k>>
    <3>1. p \in DOMAIN kv /\ p[2] = k
      BY <1>1
    <3>2. AllKeyValueMap(kv)[p[2]] = kv[p]
      BY <1>2, <3>1, OneSection
    <3> QED
      BY <1>1, <3>1, <3>2
  <2>3. DOMAIN AllKeyValueMap(kv) = DOMAIN m /\ IsMap(AllKeyValueMap(kv))
    BY <2>1, MapOfKeys
  <2> HIDE DEF kv
  <2> QED
    BY <1>3, <2>2, <2>3 DEF IsMap
<1> QED
  BY <1>2, <1>3

\* A value that is lost by a merge which reports no conflict was the baseline's.
LEMMA ValueInMergeOrBaseline ==
  ASSUME NEW o, NEW c, NEW u, NEW p \in DOMAIN c, DistinctKeys(c)
  PROVE  \/ /\ p[2] \in DOMAIN ThreeWayMergeKV(AllKeyValueMap(o), AllKeyValueMap(c), u)
            /\ ThreeWayMergeKV(AllKeyValueMap(o), AllKeyValueMap(c), u)[p[2]] = c[p]
         \/ p[2] \in DOMAIN AllKeyValueMap(o) /\ AllKeyValueMap(o)[p[2]] = c[p]
<1>1. p[2] \in DOMAIN AllKeyValueMap(c) /\ AllKeyValueMap(c)[p[2]] = c[p]
  BY OneSection
<1>2. CASE p[2] \in DOMAIN AllKeyValueMap(o) /\ AllKeyValueMap(o)[p[2]] = c[p]
  BY <1>2
<1>3. CASE ~(p[2] \in DOMAIN AllKeyValueMap(o) /\ AllKeyValueMap(o)[p[2]] = c[p])
  BY <1>1, <1>3, UserChangeSurvives
<1> QED
  BY <1>2, <1>3
=============================================================================
