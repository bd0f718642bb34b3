---------------------------- MODULE DriverProofs ----------------------------
(***************************************************************************)
(* What a run of hidl-gen leaves behind, for every source tree and command *)
(* line.  The files that parsing reads are a closure, and what is cached   *)
(* is closed and good; so what is written is right, because each output    *)
(* follows from the parse that came before it.                             *)
(***************************************************************************)
EXTENDS DriverProperties, FiniteSetTheorems, SequenceTheorems, TLAPS

-----------------------------------------------------------------------------
(* Induction over a set of numbers, and what is computed by recursion.     *)

\* A set that has 0 and, with each number, the next one, has every number: else those up to
\* some m that it has not would be as many without m, each for the next one.
LEMMA SetInduction ==
    ASSUME NEW S, 0 \in S, \A n \in Nat : n \in S => n + 1 \in S
    PROVE  \A n \in Nat : n \in S
<1> SUFFICES ASSUME NEW m \in Nat, m \notin S PROVE FALSE
  OBVIOUS
<1> DEFINE out == {n \in 0 .. m : n \notin S}
           rest == out \ {m}
           before == [n \in out |-> n - 1]
<1>1. IsFiniteSet(out)
  <2>1. IsFiniteSet(0 .. m)
    BY FS_Interval
  <2>2. out \in SUBSET (0 .. m)
    OBVIOUS
  <2> HIDE DEF out
  <2> QED BY <2>1, <2>2, FS_Subset
<1>2. m \in out
  OBVIOUS
<1>3. ASSUME NEW n \in out PROVE n - 1 \in rest
  <2>1. n \in Nat /\ n # 0 /\ n <= m /\ n \notin S
    OBVIOUS
  <2>2. n - 1 \in Nat /\ n - 1 < m /\ (n - 1) + 1 = n
    BY <2>1
  <2>3. n - 1 \notin S
    BY <2>1, <2>2
  <2> QED BY <2>2, <2>3
<1>4. before \in [out -> rest]
  BY <1>3
<1>5. /\ IsFiniteSet(rest)
      /\ Cardinality(rest) = Cardinality(out) - 1
      /\ Cardinality(out) \in Nat
  <2> HIDE DEF out
  <2> QED BY <1>1, <1>2, FS_RemoveElement, FS_CardinalityType
<1>6. Cardinality(rest) < Cardinality(out)
  BY <1>5
<1>7. \A n \in out : before[n] = n - 1 /\ n \in Int
  OBVIOUS
<1> HIDE DEF out, rest, before
<1>8. PICK x, y \in out : x # y /\ before[x] = before[y]
  BY <1>1, <1>4, <1>5, <1>6, FS_PigeonHole
<1> QED BY <1>7, <1>8

\* One step after the other, from b, up to the m-th.
LEMMA SomeIteration ==
    ASSUME NEW D, NEW b \in D, NEW m \in Nat, NEW step \in [1 .. m -> [D -> D]]
    PROVE  \E f \in [0 .. m -> D] : f[0] = b /\ \A n \in 1 .. m : f[n] = step[n][f[n - 1]]
<1> DEFINE Upto(f, k) == /\ f \in [0 .. k -> D] /\ f[0] = b
                         /\ \A n \in 1 .. k : f[n] = step[n][f[n - 1]]
           S == {k \in Nat : k <= m => \E f : Upto(f, k)}
<1>1. 0 \in S
  <2> DEFINE g == [n \in 0 .. 0 |-> b]
  <2>1. g \in [0 .. 0 -> D] /\ g[0] = b /\ \A n \in 1 .. 0 : FALSE
    OBVIOUS
  <2>2. Upto(g, 0)
    BY <2>1
  <2> QED BY <2>2
<1>2. ASSUME NEW k \in Nat, k \in S PROVE k + 1 \in S
  <2> SUFFICES ASSUME k + 1 <= m PROVE \E f : Upto(f, k + 1)
    OBVIOUS
  <2>1. PICK f : Upto(f, k)
    BY <1>2
  <2> DEFINE g == [n \in 0 .. (k + 1) |-> IF n <= k THEN f[n] ELSE step[k + 1][f[k]]]
  <2>2. k + 1 \in 1 .. m /\ k \in 0 .. k /\ f[k] \in D
    BY <2>1
  <2>3. step[k + 1][f[k]] \in D
    BY <2>2
  <2>4. g \in [0 .. (k + 1) -> D]
    BY <2>1, <2>3
  <2>5. g[0] = b
    BY <2>1
  <2>6. ASSUME NEW n \in 1 .. (k + 1) PROVE g[n] = step[n][g[n - 1]]
    <3>1. n \in 0 .. (k + 1) /\ n - 1 \in 0 .. (k + 1) /\ n - 1 \in 0 .. k /\ n - 1 <= k
      OBVIOUS
    <3>2. g[n - 1] = f[n - 1]
      BY <3>1
    <3>3. CASE n <= k
      <4>1. n \in 1 .. k /\ g[n] = f[n]
        BY <3>1, <3>3
      <4> QED BY <2>1, <3>2, <4>1
    <3>4. CASE n = k + 1
      <4>1. g[n] = step[k + 1][f[k]] /\ n - 1 = k
        BY <3>1, <3>4
      <4> QED BY <3>2, <3>4, <4>1
    <3> QED BY <3>3, <3>4
  <2> HIDE DEF g
  <2> QED BY <2>4, <2>5, <2>6
<1> HIDE DEF S
<1>3. \A k \in Nat : k \in S
  BY <1>1, <1>2, SetInduction
<1>4. m \in S /\ m <= m
  BY <1>3
<1> QED BY <1>4 DEF S

\* What starts in D and is led from D to D stays in D.
LEMMA StaysIn ==
    ASSUME NEW D, NEW m \in Nat, NEW up, up[0] \in D,
           \A n \in 1 .. m : up[n - 1] \in D => up[n] \in D
    PROVE  \A n \in 0 .. m : up[n] \in D
<1> DEFINE S == {n \in Nat : n <= m => up[n] \in D}
<1>1. 0 \in S
  OBVIOUS
<1>2. ASSUME NEW n \in Nat, n \in S PROVE n + 1 \in S
  <2> SUFFICES ASSUME n + 1 <= m PROVE up[n + 1] \in D
    OBVIOUS
  <2>1. n + 1 \in 1 .. m /\ (n + 1) - 1 = n /\ n <= m
    OBVIOUS
  <2>2. up[n] \in D
    BY <1>2, <2>1
  <2> QED BY <2>1, <2>2
<1> HIDE DEF S
<1>3. \A n \in Nat : n \in S
  BY <1>1, <1>2, SetInduction
<1> QED BY <1>3 DEF S

-----------------------------------------------------------------------------
(* Closures.                                                               *)

\* The steps that Closure takes.
LEMMA ClosureSteps ==
    ASSUME NEW all, IsFiniteSet(all), NEW edges \in [all -> SUBSET all], NEW fs \in SUBSET all
    PROVE  \E up \in [0 .. Cardinality(all) -> SUBSET all] :
             /\ up[0] = fs
             /\ \A k \in 1 .. Cardinality(all) : up[k] = up[k - 1] \cup UNION {edges[f] : f \in up[k - 1]}
             /\ Closure(fs, edges) = up[Cardinality(all)]
<1>1. PICK m : m = Cardinality(all)
  OBVIOUS
<1>2. m \in Nat /\ Cardinality(DOMAIN edges) = m
  <2>1. DOMAIN edges = all
    OBVIOUS
  <2> QED BY <1>1, <2>1, FS_CardinalityType
<1> DEFINE step == [k \in 1 .. m |-> [s \in SUBSET all |-> s \cup UNION {edges[f] : f \in s}]]
<1>3. step \in [1 .. m -> [SUBSET all -> SUBSET all]]
  <2>1. ASSUME NEW s \in SUBSET all PROVE s \cup UNION {edges[f] : f \in s} \in SUBSET all
    OBVIOUS
  <2> QED BY <2>1
<1>4. \A k \in 1 .. m : \A s \in SUBSET all : step[k][s] = s \cup UNION {edges[f] : f \in s}
  OBVIOUS
<1> HIDE DEF step
<1>5. PICK up \in [0 .. m -> SUBSET all] :
          up[0] = fs /\ \A k \in 1 .. m : up[k] = step[k][up[k - 1]]
  <2>1. PICK D : D = SUBSET all
    OBVIOUS
  <2>2. \E up \in [0 .. m -> D] : up[0] = fs /\ \A k \in 1 .. m : up[k] = step[k][up[k - 1]]
    <3>1. fs \in D /\ step \in [1 .. m -> [D -> D]]
      BY <1>3, <2>1
    <3> QED BY <1>2, <3>1, SomeIteration
  <2> QED BY <2>1, <2>2
<1>6. ASSUME NEW k \in 1 .. m
      PROVE  k - 1 \in 0 .. m /\ up[k] = up[k - 1] \cup UNION {edges[f] : f \in up[k - 1]}
  <2>1. k - 1 \in 0 .. m
    BY <1>2
  <2>2. up[k - 1] \in SUBSET all
    BY <1>5, <2>1
  <2> QED BY <1>4, <1>5, <2>1, <2>2
<1> DEFINE upTo[k \in 0 .. m] ==
             IF k = 0 THEN fs
             ELSE upTo[k - 1] \cup UNION {edges[f] : f \in upTo[k - 1]}
<1>7. Closure(fs, edges) = upTo[m]
  BY <1>2 DEF Closure
<1>8. up = [k \in 0 .. m |-> IF k = 0 THEN fs
                             ELSE up[k - 1] \cup UNION {edges[f] : f \in up[k - 1]}]
  <2>1. \A k \in 0 .. m : up[k] = IF k = 0 THEN fs
                                  ELSE up[k - 1] \cup UNION {edges[f] : f \in up[k - 1]}
    <3>1. \A k \in 0 .. m : k = 0 \/ k \in 1 .. m
      BY <1>2
    <3> QED BY <1>5, <1>6, <3>1
  <2>2. up = [k \in 0 .. m |-> up[k]]
    BY <1>5
  <2> QED BY <2>1, <2>2
<1>9. upTo = [k \in 0 .. m |-> IF k = 0 THEN fs
                               ELSE upTo[k - 1] \cup UNION {edges[f] : f \in upTo[k - 1]}]
  BY <1>8 DEF upTo
<1> HIDE DEF upTo
<1>10. ASSUME NEW k \in 0 .. m
       PROVE  upTo[k] = IF k = 0 THEN fs
                        ELSE upTo[k - 1] \cup UNION {edges[f] : f \in upTo[k - 1]}
  BY <1>9
<1> DEFINE S == {k \in Nat : k <= m => upTo[k] = up[k]}
<1>11. 0 \in S
  <2>1. 0 \in 0 .. m
    BY <1>2
  <2> QED BY <1>5, <1>10, <2>1
<1>12. ASSUME NEW k \in Nat, k \in S PROVE k + 1 \in S
  <2> SUFFICES ASSUME k + 1 <= m PROVE upTo[k + 1] = up[k + 1]
    OBVIOUS
  <2>1. PICK n : n = k + 1
    OBVIOUS
  <2>2. n \in 0 .. m /\ n \in 1 .. m /\ n # 0 /\ n - 1 = k /\ k <= m
    BY <1>2, <2>1
  <2>3. upTo[k] = up[k]
    BY <1>12, <2>2
  <2>4. upTo[n] = upTo[k] \cup UNION {edges[f] : f \in upTo[k]}
    BY <1>10, <2>2
  <2>5. up[n] = up[k] \cup UNION {edges[f] : f \in up[k]}
    BY <1>6, <2>2
  <2> QED BY <2>1, <2>3, <2>4, <2>5
<1> HIDE DEF S
<1>13. \A k \in Nat : k \in S
  BY <1>11, <1>12, SetInduction
<1>14. upTo[m] = up[m]
  BY <1>2, <1>13 DEF S
<1> QED BY <1>1, <1>5, <1>6, <1>7, <1>14

\* A step that leads nowhere else is the last one, and as long as none is, each
\* adds a file: Closure is the smallest set with fs that edges do not leave.
LEMMA ClosureFacts ==
    ASSUME NEW all, IsFiniteSet(all), NEW edges \in [all -> SUBSET all], NEW fs \in SUBSET all
    PROVE  /\ fs \subseteq Closure(fs, edges) /\ Closure(fs, edges) \subseteq all
           /\ \A f \in Closure(fs, edges) : edges[f] \subseteq Closure(fs, edges)
           /\ \A S : fs \subseteq S /\ (\A f \in S \cap all : edges[f] \subseteq S) =>
                Closure(fs, edges) \subseteq S
<1>1. PICK m : m = Cardinality(all)
  OBVIOUS
<1>2. m \in Nat
  BY <1>1, FS_CardinalityType
<1>3. PICK up \in [0 .. m -> SUBSET all] :
          /\ up[0] = fs
          /\ \A k \in 1 .. m : up[k] = up[k - 1] \cup UNION {edges[f] : f \in up[k - 1]}
          /\ Closure(fs, edges) = up[m]
  <2>1. \E up \in [0 .. Cardinality(all) -> SUBSET all] :
          /\ up[0] = fs
          /\ \A k \in 1 .. Cardinality(all) :
               up[k] = up[k - 1] \cup UNION {edges[f] : f \in up[k - 1]}
          /\ Closure(fs, edges) = up[Cardinality(all)]
    BY ClosureSteps, SMTT(60)
  <2> QED BY <1>1, <2>1, Zenon
<1> DEFINE Closed(s) == \A f \in s : edges[f] \subseteq s
<1>4. m \in 0 .. m /\ 0 \in 0 .. m /\ m <= m
  BY <1>2
<1>5. ASSUME NEW k \in Nat, k + 1 <= m
      PROVE  /\ k \in 0 .. m /\ k + 1 \in 0 .. m
             /\ up[k] \in SUBSET all /\ up[k + 1] \in SUBSET all
             /\ up[k + 1] = up[k] \cup UNION {edges[f] : f \in up[k]}
  <2>1. PICK n : n = k + 1
    OBVIOUS
  <2>2. k \in 0 .. m /\ n \in 0 .. m /\ n \in 1 .. m /\ n - 1 = k
    BY <1>2, <1>5, <2>1
  <2>3. up[n] = up[k] \cup UNION {edges[f] : f \in up[k]}
    BY <1>3, <2>2
  <2>4. up[k] \in SUBSET all /\ up[n] \in SUBSET all
    BY <1>3, <2>2
  <2> QED BY <2>1, <2>2, <2>3, <2>4
<1>6. fs \subseteq up[m]
  <2> DEFINE S == {k \in Nat : k <= m => fs \subseteq up[k]}
  <2>1. 0 \in S
    BY <1>3
  <2>2. ASSUME NEW k \in Nat, k \in S PROVE k + 1 \in S
    <3> SUFFICES ASSUME k + 1 <= m PROVE fs \subseteq up[k + 1]
      OBVIOUS
    <3>1. k <= m
      BY <1>2
    <3>2. fs \subseteq up[k]
      BY <2>2, <3>1
    <3> QED BY <1>5, <3>2
  <2> HIDE DEF S
  <2>3. \A k \in Nat : k \in S
    BY <2>1, <2>2, SetInduction
  <2> QED BY <1>2, <1>4, <2>3 DEF S
<1>7. Closed(up[m])
  <2> DEFINE S == {k \in Nat : k <= m => Closed(up[k]) \/ Cardinality(up[k]) > k}
  <2>1. 0 \in S
    <3>1. CASE fs = {}
      BY <1>3, <3>1
    <3>2. CASE fs # {}
      <4>1. IsFiniteSet(fs)
        BY FS_Subset
      <4>2. Cardinality(fs) \in Nat /\ Cardinality(fs) # 0
        BY <3>2, <4>1, FS_CardinalityType, FS_EmptySet
      <4> QED BY <1>3, <4>2
    <3> QED BY <3>1, <3>2
  <2>2. ASSUME NEW k \in Nat, k \in S PROVE k + 1 \in S
    <3> SUFFICES ASSUME k + 1 <= m PROVE Closed(up[k + 1]) \/ Cardinality(up[k + 1]) > k + 1
      OBVIOUS
    <3>1. k <= m
      BY <1>2
    <3>2. PICK s, t : s = up[k] /\ t = up[k + 1]
      OBVIOUS
    <3>3. s \in SUBSET all /\ t \in SUBSET all /\ t = s \cup UNION {edges[f] : f \in s}
      BY <1>5, <3>2
    <3>4. Closed(s) \/ Cardinality(s) > k
      BY <2>2, <3>1, <3>2
    <3>5. CASE Closed(s)
      <4>1. t = s
        BY <3>3, <3>5
      <4> QED BY <3>2, <3>5, <4>1
    <3>6. CASE ~ Closed(s)
      <4>1. s \subseteq t /\ s # t
        BY <3>3, <3>6
      <4>2. IsFiniteSet(s) /\ IsFiniteSet(t)
        BY <3>3, FS_Subset
      <4>3. Cardinality(s) <= Cardinality(t) /\ Cardinality(s) # Cardinality(t)
        BY <4>1, <4>2, FS_Subset
      <4>4. Cardinality(s) \in Nat /\ Cardinality(t) \in Nat
        BY <4>2, FS_CardinalityType
      <4>5. Cardinality(s) > k
        BY <3>4, <3>6
      <4>6. Cardinality(t) > k + 1
        BY <4>3, <4>4, <4>5
      <4> QED BY <3>2, <4>6
    <3> QED BY <3>5, <3>6
  <2> HIDE DEF S
  <2>3. \A k \in Nat : k \in S
    BY <2>1, <2>2, SetInduction
  <2>4. Closed(up[m]) \/ Cardinality(up[m]) > m
    BY <1>2, <1>4, <2>3 DEF S
  <2>5. up[m] \in SUBSET all
    BY <1>3, <1>4
  <2>6. Cardinality(up[m]) <= m /\ Cardinality(up[m]) \in Nat
    BY <1>1, <2>5, FS_Subset, FS_CardinalityType
  <2>7. ~ (Cardinality(up[m]) > m)
    BY <1>2, <2>6
  <2> QED BY <2>4, <2>7
<1>8. ASSUME NEW T, fs \subseteq T, \A f \in T \cap all : edges[f] \subseteq T
      PROVE  up[m] \subseteq T
  <2> DEFINE S == {k \in Nat : k <= m => up[k] \subseteq T}
  <2>1. 0 \in S
    BY <1>3, <1>8
  <2>2. ASSUME NEW k \in Nat, k \in S PROVE k + 1 \in S
    <3> SUFFICES ASSUME k + 1 <= m PROVE up[k + 1] \subseteq T
      OBVIOUS
    <3>1. k <= m
      BY <1>2
    <3>2. up[k] \subseteq T
      BY <2>2, <3>1
    <3>3. /\ up[k] \in SUBSET all
          /\ up[k + 1] = up[k] \cup UNION {edges[f] : f \in up[k]}
      BY <1>5
    <3>4. \A f \in up[k] : edges[f] \subseteq T
      BY <1>8, <3>2, <3>3
    <3> QED BY <3>2, <3>3, <3>4
  <2> HIDE DEF S
  <2>3. \A k \in Nat : k \in S
    BY <2>1, <2>2, SetInduction
  <2> QED BY <1>2, <1>4, <2>3 DEF S
<1>9. up[m] \subseteq all
  BY <1>3, <1>4
<1> QED BY <1>3, <1>6, <1>7, <1>8, <1>9

-----------------------------------------------------------------------------
(* Source trees and what parsing reads.                                    *)

LEMMA TreeFacts ==
    ASSUME tree \in Trees
    PROVE  /\ IsFiniteSet(DOMAIN tree)
           /\ \A f \in DOMAIN tree :
                /\ f \in FullName /\ Len(f.names) = 1
                /\ tree[f].imports \in SUBSET FullName /\ IsFiniteSet(tree[f].imports)
                /\ tree[f].types \in SUBSET DOMAIN Spelling /\ IsFiniteSet(tree[f].types)
                /\ tree[f].good \in BOOLEAN /\ tree[f].java \in BOOLEAN
<1>1. /\ IsFiniteSet(DOMAIN tree)
      /\ tree \in [DOMAIN tree -> [imports : SUBSET FullName, good : BOOLEAN, java : BOOLEAN,
                                   types : SUBSET DOMAIN Spelling]]
      /\ \A f \in DOMAIN tree : /\ f \in FullName /\ Len(f.names) = 1
                                /\ IsFiniteSet(tree[f].imports) /\ IsFiniteSet(tree[f].types)
  BY InputAssumption DEF TreeAssumption
<1>2. ASSUME NEW f \in DOMAIN tree
      PROVE  /\ tree[f].imports \in SUBSET FullName /\ tree[f].types \in SUBSET DOMAIN Spelling
             /\ tree[f].good \in BOOLEAN /\ tree[f].java \in BOOLEAN
  <2>1. tree[f] \in [imports : SUBSET FullName, good : BOOLEAN, java : BOOLEAN,
                     types : SUBSET DOMAIN Spelling]
    BY <1>1
  <2> QED BY <2>1
<1> QED BY <1>1, <1>2

LEMMA InterfaceFilesFacts ==
    ASSUME tree \in Trees, NEW p
    PROVE  InterfaceFiles(p) \in SUBSET DOMAIN tree /\ IsFiniteSet(InterfaceFiles(p))
<1>1. InterfaceFiles(p) \in SUBSET DOMAIN tree
  BY DEF InterfaceFiles
<1> QED BY <1>1, TreeFacts, FS_Subset

LEMMA FiniteImage ==
    ASSUME NEW S, IsFiniteSet(S), NEW g
    PROVE  IsFiniteSet({g[x] : x \in S})
<1>1. PICK T, h : T = {g[x] : x \in S} /\ h = [x \in S |-> g[x]]
  OBVIOUS
<1>2. h \in [S -> T] /\ \A y \in T : \E x \in S : h[x] = y
  BY <1>1
<1>3. h \in Surjection(S, T)
  BY <1>2 DEF Surjection
<1> QED BY <1>1, <1>3, FS_Surjection

LEMMA MentionedFacts ==
    ASSUME tree \in Trees, NEW fs, IsFiniteSet(fs)
    PROVE  /\ IsFiniteSet(Mentioned(fs))
           /\ [f \in Mentioned(fs) |-> Direct(f)] \in [Mentioned(fs) -> SUBSET Mentioned(fs)]
           /\ fs \in SUBSET Mentioned(fs)
<1> DEFINE I == {tree[f].imports : f \in DOMAIN tree}
<1>1. IsFiniteSet(DOMAIN tree) /\ \A f \in DOMAIN tree : IsFiniteSet(tree[f].imports)
  BY TreeFacts
<1>2. IsFiniteSet(I)
  <2>1. PICK g : g = [f \in DOMAIN tree |-> tree[f].imports]
    OBVIOUS
  <2>2. I = {g[f] : f \in DOMAIN tree}
    BY <2>1
  <2>3. PICK D : D = DOMAIN tree
    OBVIOUS
  <2>4. IsFiniteSet({g[f] : f \in D})
    BY <1>1, <2>3, FiniteImage
  <2> QED BY <2>2, <2>3, <2>4
<1>3. \A x \in I : IsFiniteSet(x)
  BY <1>1
<1>4. Mentioned(fs) = (fs \cup DOMAIN tree) \cup UNION I
  BY DEF Mentioned
<1> HIDE DEF I
<1>5. IsFiniteSet(UNION I)
  BY <1>2, <1>3, FS_UNION
<1>6. IsFiniteSet(fs \cup DOMAIN tree)
  BY <1>1, FS_Union
<1>7. IsFiniteSet(Mentioned(fs))
  BY <1>4, <1>5, <1>6, FS_Union
<1>8. ASSUME NEW f \in Mentioned(fs) PROVE Direct(f) \in SUBSET Mentioned(fs)
  <2>1. Exists(f) => tree[f].imports \subseteq UNION I
    BY DEF Exists, I
  <2> QED BY <1>4, <2>1 DEF Direct
<1> QED BY <1>4, <1>7, <1>8

\* ReachFrom(fs) is the smallest set with fs that has what its files read first.
LEMMA ReachFacts ==
    ASSUME tree \in Trees, NEW fs, IsFiniteSet(fs)
    PROVE  /\ fs \subseteq ReachFrom(fs)
           /\ \A f \in ReachFrom(fs) : Direct(f) \subseteq ReachFrom(fs)
           /\ \A S : fs \subseteq S /\ (\A f \in S : Direct(f) \subseteq S) => ReachFrom(fs) \subseteq S
<1>1. PICK all, edges : all = Mentioned(fs) /\ edges = [f \in Mentioned(fs) |-> Direct(f)]
  OBVIOUS
<1>2. /\ IsFiniteSet(all) /\ edges \in [all -> SUBSET all] /\ fs \in SUBSET all
      /\ \A f \in all : edges[f] = Direct(f)
      /\ ReachFrom(fs) = Closure(fs, edges)
  BY <1>1, MentionedFacts DEF ReachFrom
<1>3. /\ fs \subseteq Closure(fs, edges) /\ Closure(fs, edges) \subseteq all
      /\ \A f \in Closure(fs, edges) : edges[f] \subseteq Closure(fs, edges)
      /\ \A S : fs \subseteq S /\ (\A f \in S \cap all : edges[f] \subseteq S) =>
           Closure(fs, edges) \subseteq S
  BY <1>2, ClosureFacts
<1> QED BY <1>2, <1>3

\* Files that are good and have all that they read among them: what is cached.
Sound(fs) ==
  /\ fs \in SUBSET DOMAIN tree
  /\ \A f \in fs : tree[f].good /\ Direct(f) \subseteq fs

LEMMA ReachInSound ==
    ASSUME tree \in Trees, NEW S, Sound(S), NEW fs, IsFiniteSet(fs), fs \subseteq S
    PROVE  ReachFrom(fs) \subseteq S
BY ReachFacts DEF Sound

LEMMA NeedsFacts ==
    ASSUME tree \in Trees, NEW f, NEW done, NEW e
    PROVE  /\ f \notin done => f \in Needs(f, done, e)
           /\ \A g \in Needs(f, done, e) : Direct(g) \subseteq Needs(f, done, e)
           /\ e = "FULL" /\ f \notin done => InterfaceFiles(f) \subseteq Needs(f, done, e)
<1>1. PICK fs : fs = {f} \cup (IF e = "FULL" THEN InterfaceFiles(f) ELSE {})
  OBVIOUS
<1>2. IsFiniteSet(fs)
  <2>1. IsFiniteSet(InterfaceFiles(f)) /\ IsFiniteSet({f}) /\ IsFiniteSet({})
    BY InterfaceFilesFacts, FS_Singleton, FS_EmptySet
  <2> QED BY <1>1, <2>1, FS_Union
<1>3. f \notin done => Needs(f, done, e) = ReachFrom(fs)
  BY <1>1 DEF Needs
<1>4. f \in done => Needs(f, done, e) = {}
  BY DEF Needs
<1>5. fs \subseteq ReachFrom(fs) /\ \A g \in ReachFrom(fs) : Direct(g) \subseteq ReachFrom(fs)
  BY <1>2, ReachFacts
<1> QED BY <1>1, <1>3, <1>4, <1>5

\* A parse that succeeds adds its file and what it needs, and no bad file.
LEMMA ParsingKeepsSound ==
    ASSUME tree \in Trees, NEW done, Sound(done), NEW fs, NEW e, ParsesAll(fs, done, e)
    PROVE  /\ Sound(AfterParsing(fs, done, e))
           /\ done \subseteq AfterParsing(fs, done, e)
           /\ fs \subseteq AfterParsing(fs, done, e)
<1> DEFINE A == AfterParsing(fs, done, e)
<1>1. \A g : g \in A <=> g \in done \/ \E f \in fs : g \in Needs(f, done, e)
  BY DEF AfterParsing
<1> HIDE DEF A
<1>2. \A f \in fs : f \in A
  BY <1>1, NeedsFacts
<1>3. ASSUME NEW g \in A PROVE g \in DOMAIN tree /\ tree[g].good /\ Direct(g) \subseteq A
  <2>1. CASE g \in done
    BY <1>1, <2>1 DEF Sound
  <2>2. CASE g \notin done
    <3>1. PICK f \in fs : g \in Needs(f, done, e)
      BY <1>1, <2>2
    <3>2. Direct(g) \subseteq Needs(f, done, e)
      BY <3>1, NeedsFacts
    <3>3. Exists(g) /\ tree[g].good
      BY <3>1 DEF ParsesAll
    <3> QED BY <1>1, <3>1, <3>2, <3>3 DEF Exists
  <2> QED BY <2>1, <2>2
<1>4. done \subseteq A
  BY <1>1
<1>5. Sound(A)
  BY <1>3 DEF Sound
<1> QED BY <1>2, <1>4, <1>5 DEF A

-----------------------------------------------------------------------------
(* Sequences.                                                              *)

LEMMA InOrderFacts ==
    ASSUME NEW S, IsFiniteSet(S)
    PROVE  /\ InOrder(S) \in Seq(S)
           /\ Len(InOrder(S)) = Cardinality(S)
           /\ ToSet(InOrder(S)) = S
<1>1. PICK n : n = Cardinality(S)
  OBVIOUS
<1>2. n \in Nat /\ ExistsBijection(1 .. n, S)
  BY <1>1, FS_CardinalityType
<1>3. PICK b \in Bijection(1 .. n, S) : TRUE
  BY <1>2 DEF ExistsBijection
<1>4. b \in [1 .. n -> S] /\ \A i, j \in 1 .. n : b[i] = b[j] => i = j
  BY DEF Bijection, Injection, IsInjective
<1>5. b \in [1 .. n -> S] /\ IsInjective(b)
  BY <1>4 DEF IsInjective
<1>6. PICK s : s = InOrder(S)
  OBVIOUS
<1>7. s \in [1 .. n -> S] /\ IsInjective(s)
  BY <1>1, <1>5, <1>6 DEF InOrder, SetToSeq
<1>8. s \in Seq(S) /\ Len(s) = n
  BY <1>2, <1>7
<1>9. s \in Injection(1 .. n, S)
  BY <1>7 DEF IsInjective, Injection
<1>10. Cardinality(1 .. n) = n
  BY <1>2, FS_Interval
<1>11. s \in Surjection(1 .. n, S)
  BY <1>1, <1>9, <1>10, FS_Injection
<1>12. ToSet(s) = S
  BY <1>7, <1>11 DEF Surjection, ToSet
<1> QED BY <1>1, <1>6, <1>8, <1>12

\* The elements of a concatenation.
LEMMA ConcatElements ==
    ASSUME NEW T, NEW p \in Seq(T), NEW q \in Seq(T)
    PROVE  p \o q \in Seq(T) /\ ToSet(p \o q) = ToSet(p) \cup ToSet(q)
<1>1. /\ p \o q \in Seq(T)
      /\ DOMAIN (p \o q) = 1 .. (Len(p) + Len(q)) /\ Len(p) \in Nat /\ Len(q) \in Nat
      /\ DOMAIN p = 1 .. Len(p) /\ DOMAIN q = 1 .. Len(q)
      /\ \A i \in 1 .. Len(p) : (p \o q)[i] = p[i]
      /\ \A i \in 1 .. Len(q) : (p \o q)[Len(p) + i] = q[i]
  OBVIOUS
<1>2. ASSUME NEW i \in 1 .. (Len(p) + Len(q)) PROVE (p \o q)[i] \in ToSet(p) \cup ToSet(q)
  <2>1. CASE i <= Len(p)
    BY <1>1, <2>1 DEF ToSet
  <2>2. CASE i > Len(p)
    <3>1. i - Len(p) \in 1 .. Len(q) /\ Len(p) + (i - Len(p)) = i
      BY <1>1, <2>2
    <3>2. (p \o q)[i] = q[i - Len(p)]
      BY <1>1, <3>1
    <3> QED BY <1>1, <3>1, <3>2 DEF ToSet
  <2> QED BY <1>1, <2>1, <2>2
<1>3. ASSUME NEW x \in ToSet(p) PROVE x \in ToSet(p \o q)
  <2>1. PICK i \in 1 .. Len(p) : x = p[i]
    BY <1>1 DEF ToSet
  <2>2. i \in 1 .. (Len(p) + Len(q)) /\ (p \o q)[i] = x
    BY <1>1, <2>1
  <2> QED BY <1>1, <2>2 DEF ToSet
<1>4. ASSUME NEW x \in ToSet(q) PROVE x \in ToSet(p \o q)
  <2>1. PICK i \in 1 .. Len(q) : x = q[i]
    BY <1>1 DEF ToSet
  <2>2. Len(p) + i \in 1 .. (Len(p) + Len(q)) /\ (p \o q)[Len(p) + i] = x
    BY <1>1, <2>1
  <2> QED BY <1>1, <2>2 DEF ToSet
<1>5. ToSet(p \o q) \subseteq ToSet(p) \cup ToSet(q)
  BY <1>1, <1>2 DEF ToSet
<1> QED BY <1>1, <1>3, <1>4, <1>5

LEMMA FrontFacts ==
    ASSUME NEW T, NEW s \in Seq(T), s # <<>>
    PROVE  /\ Last(s) \in T
           /\ Front(s) \in Seq(T) /\ Len(Front(s)) = Len(s) - 1
           /\ ToSet(s) = ToSet(Front(s)) \cup {Last(s)}
<1>1. PICK n, p : n = Len(s) /\ p = Front(s)
  OBVIOUS
<1>2. n \in Nat \ {0} /\ DOMAIN s = 1 .. n
  BY <1>1
<1>3. n \in 1 .. n /\ n - 1 \in 0 .. n /\ \A i \in 1 .. (n - 1) : i \in 1 .. n
  BY <1>2
<1>4. p \in Seq(T) /\ Len(p) = n - 1 /\ \A i \in 1 .. (n - 1) : p[i] = s[i]
  BY <1>1, <1>2, <1>3 DEF Front
<1>5. DOMAIN p = 1 .. (n - 1)
  BY <1>4
<1>6. \A i \in 1 .. n : i = n \/ i \in 1 .. (n - 1)
  BY <1>2
<1>7. Last(s) = s[n]
  BY <1>1 DEF Last
<1>8. ToSet(s) = ToSet(p) \cup {s[n]}
  BY <1>2, <1>3, <1>4, <1>5, <1>6 DEF ToSet
<1>9. s[n] \in T
  BY <1>2, <1>3
<1> QED BY <1>1, <1>4, <1>7, <1>8, <1>9

\* Sequences of one or two elements.
LEMMA SameShort ==
    ASSUME NEW S, NEW s \in Seq(S), NEW t \in Seq(S), Len(s) \in {1, 2}, Len(s) = Len(t),
           s[1] = t[1], Len(s) = 2 => s[2] = t[2]
    PROVE  s = t
<1>1. \A i \in 1 .. Len(s) : s[i] = t[i]
  OBVIOUS
<1> QED BY <1>1, SeqEqual

LEMMA FirstOfSome ==
    ASSUME NEW S, NEW s \in Seq(S), s # <<>>
    PROVE  SubSeq(s, 1, 1) = <<s[1]>> /\ s[1] \in S /\ (Len(s) = 1 => s = <<s[1]>>)
<1>1. PICK t, u : t = SubSeq(s, 1, 1) /\ u = <<s[1]>>
  OBVIOUS
<1>2. Len(s) \in Nat /\ Len(s) # 0
  OBVIOUS
<1>3. s[1] \in S
  BY <1>2
<1>4. u \in Seq(S) /\ Len(u) = 1 /\ u[1] = s[1]
  BY <1>1, <1>3
<1>5. t \in Seq(S) /\ Len(t) = 1 /\ t[1] = s[1]
  BY <1>1, <1>2
<1>6. t = u
  BY <1>4, <1>5, SameShort
<1>7. Len(s) = 1 => s = u
  BY <1>4, SameShort
<1> QED BY <1>1, <1>3, <1>6, <1>7

LEMMA TwoElements ==
    ASSUME NEW S, NEW a \in S, NEW b \in S
    PROVE  \E u : /\ u = <<a, b>>
                 /\ u \in Seq(S) /\ Len(u) = 2 /\ u[1] = a /\ u[2] = b /\ u # <<>>
                 /\ u # <<a>> /\ Append(<<a>>, b) = u
<1>1. PICK s, u : s = <<a>> /\ u = <<a, b>>
  OBVIOUS
<1>2. s \in Seq(S) /\ Len(s) = 1 /\ s[1] = a
  BY <1>1
<1>3. PICK t : t = Append(s, b)
  OBVIOUS
<1>4. t \in Seq(S) /\ Len(t) = 2 /\ t[1] = a /\ t[2] = b
  <2>1. t \in Seq(S) /\ Len(t) = Len(s) + 1
    BY <1>2, <1>3
  <2>2. \A i \in 1 .. Len(s) : t[i] = s[i]
    BY <1>2, <1>3, AppendProperties
  <2>3. t[Len(s) + 1] = b
    BY <1>2, <1>3, AppendProperties
  <2>4. 1 \in 1 .. Len(s) /\ Len(s) + 1 = 2
    BY <1>2
  <2> QED BY <1>2, <2>1, <2>2, <2>3, <2>4
<1>5. u \in Seq(S) /\ Len(u) = 2 /\ u[1] = a /\ u[2] = b /\ u # <<>>
  BY <1>1
<1>6. t = u
  BY <1>4, <1>5, SameShort
<1>7. Len(u) # Len(s)
  BY <1>2, <1>5
<1>8. u # s
  BY <1>7
<1> QED BY <1>1, <1>3, <1>5, <1>6, <1>8

LEMMA OneElement ==
    ASSUME NEW S, NEW a \in S
    PROVE  <<a>> \in Seq(S) /\ Len(<<a>>) = 1 /\ <<a>>[1] = a /\ <<a>> # <<>> /\ <<>> \in Seq(S)
OBVIOUS

LEMMA LengthOne ==
    ASSUME NEW S, NEW s \in Seq(S), s # <<>>, ~ (Len(s) > 1)
    PROVE  Len(s) = 1
<1>1. Len(s) \in Nat
  OBVIOUS
<1>2. Len(s) # 0
  OBVIOUS
<1>3. PICK n : n = Len(s)
  OBVIOUS
<1>4. n \in Nat /\ n # 0 /\ ~ (n > 1)
  BY <1>1, <1>2, <1>3
<1>5. n = 1
  BY <1>4
<1> QED BY <1>3, <1>5

-----------------------------------------------------------------------------
(* isPackageJavaCompatible.                                                *)

ImportedFiles(f) == UNION {InterfaceFiles(p) : p \in ImportedPackages(f)}

\* What is known in each turn: what is seen is still to be judged, or is fit for
\* Java and all that it imports is seen; and what is cached remains sound.
Judging(p, done) ==
  {j \in [todo : Seq(DOMAIN tree), seen : SUBSET DOMAIN tree, done : SUBSET DOMAIN tree,
          verdict : {"compatible", "incompatible", "error"}] :
     /\ InterfaceFiles(p) \subseteq j.seen
     /\ done \subseteq j.done /\ Sound(j.done)
     /\ \A f \in j.seen : f \in ToSet(j.todo) \/ (tree[f].java /\ ImportedFiles(f) \subseteq j.seen)}

Turn(j) == IF j.todo = <<>> \/ j.verdict # "compatible" THEN j ELSE JudgeNext(j)

FirstTurn(p, done) ==
  [todo |-> InOrder(InterfaceFiles(p)), seen |-> InterfaceFiles(p),
   done |-> done, verdict |-> "compatible"]

LEMMA MoreFacts ==
    ASSUME tree \in Trees, NEW f, NEW seen \in SUBSET DOMAIN tree
    PROVE  /\ NewImports(f, seen) \in SUBSET DOMAIN tree
           /\ IsFiniteSet(NewImports(f, seen)) /\ IsFiniteSet(seen)
           /\ NewImports(f, seen) \cap seen = {}
           /\ ImportedFiles(f) \subseteq seen \cup NewImports(f, seen)
<1>1. NewImports(f, seen) = ImportedFiles(f) \ seen
  BY DEF NewImports, ImportedFiles
<1>2. ImportedFiles(f) \subseteq DOMAIN tree
  BY DEF ImportedFiles, InterfaceFiles
<1>3. NewImports(f, seen) \in SUBSET DOMAIN tree
  BY <1>1, <1>2
<1>4. IsFiniteSet(NewImports(f, seen)) /\ IsFiniteSet(seen)
  BY <1>3, TreeFacts, FS_Subset
<1> QED BY <1>1, <1>3, <1>4

\* A turn of a record of the loop that goes on.
LEMMA TurnFacts ==
    ASSUME tree \in Trees, NEW j, j.todo \in Seq(DOMAIN tree), j.todo # <<>>,
           j.seen \in SUBSET DOMAIN tree,
           NEW t, t = Front(j.todo) \o InOrder(NewImports(Last(j.todo), j.seen))
    PROVE  /\ Last(j.todo) \in DOMAIN tree
           /\ t \in Seq(DOMAIN tree)
           /\ ToSet(t) = ToSet(Front(j.todo)) \cup NewImports(Last(j.todo), j.seen)
           /\ ToSet(j.todo) = ToSet(Front(j.todo)) \cup {Last(j.todo)}
           /\ Len(t) = (Len(j.todo) - 1) + Cardinality(NewImports(Last(j.todo), j.seen))
           /\ Len(j.todo) \in Nat
<1>1. PICK T, s, f, m : /\ T = DOMAIN tree /\ s = j.todo /\ f = Last(s)
                        /\ m = NewImports(f, j.seen)
  OBVIOUS
<1>2. s \in Seq(T) /\ s # <<>> /\ Len(s) \in Nat
  BY <1>1
<1>3. /\ f \in T /\ Front(s) \in Seq(T) /\ Len(Front(s)) = Len(s) - 1
      /\ ToSet(s) = ToSet(Front(s)) \cup {f}
  BY <1>1, <1>2, FrontFacts
<1>4. m \in SUBSET T /\ IsFiniteSet(m)
  BY <1>1, MoreFacts
<1>5. /\ InOrder(m) \in Seq(m) /\ Len(InOrder(m)) = Cardinality(m) /\ ToSet(InOrder(m)) = m
  BY <1>4, InOrderFacts
<1>6. InOrder(m) \in Seq(T)
  BY <1>4, <1>5
<1>7. t = Front(s) \o InOrder(m)
  BY <1>1
<1>8. t \in Seq(T) /\ ToSet(t) = ToSet(Front(s)) \cup ToSet(InOrder(m))
  BY <1>3, <1>6, <1>7, ConcatElements
<1>9. Len(t) = Len(Front(s)) + Len(InOrder(m))
  <2>1. ASSUME NEW U, NEW a \in Seq(U), NEW b \in Seq(U) PROVE Len(a \o b) = Len(a) + Len(b)
    OBVIOUS
  <2> QED BY <1>3, <1>6, <1>7, <2>1
<1> QED BY <1>1, <1>2, <1>3, <1>5, <1>8, <1>9

LEMMA TurnKeeps ==
    ASSUME tree \in Trees, NEW p, NEW done, NEW j \in Judging(p, done)
    PROVE  Turn(j) \in Judging(p, done)
<1>1. /\ j \in [todo : Seq(DOMAIN tree), seen : SUBSET DOMAIN tree, done : SUBSET DOMAIN tree,
                verdict : {"compatible", "incompatible", "error"}]
      /\ InterfaceFiles(p) \subseteq j.seen
      /\ done \subseteq j.done /\ Sound(j.done)
      /\ \A f \in j.seen : f \in ToSet(j.todo) \/ (tree[f].java /\ ImportedFiles(f) \subseteq j.seen)
  BY DEF Judging
<1> SUFFICES ASSUME j.todo # <<>> PROVE JudgeNext(j) \in Judging(p, done)
  BY DEF Turn
<1>2. PICK f, more, with, t :
         /\ f = Last(j.todo) /\ more = NewImports(f, j.seen)
         /\ with = AfterParsing({f}, j.done, "FULL") /\ t = Front(j.todo) \o InOrder(more)
  OBVIOUS
<1>3. CASE ~ ParsesAll({f}, j.done, "FULL")
  <2>1. JudgeNext(j) = [j EXCEPT !.verdict = "error"]
    BY <1>2, <1>3 DEF JudgeNext
  <2>2. PICK n : n = JudgeNext(j)
    OBVIOUS
  <2>3. /\ n.todo = j.todo /\ n.seen = j.seen /\ n.done = j.done
        /\ n \in [todo : Seq(DOMAIN tree), seen : SUBSET DOMAIN tree, done : SUBSET DOMAIN tree,
                  verdict : {"compatible", "incompatible", "error"}]
    BY <1>1, <2>1, <2>2
  <2> QED BY <1>1, <2>2, <2>3 DEF Judging
<1>4. CASE ParsesAll({f}, j.done, "FULL")
  <2>1. Sound(with) /\ j.done \subseteq with
    BY <1>1, <1>2, <1>4, ParsingKeepsSound
  <2>2. with \in SUBSET DOMAIN tree
    BY <2>1 DEF Sound
  <2>3. CASE ~ tree[f].java
    <3>1. JudgeNext(j) = [j EXCEPT !.verdict = "incompatible", !.done = with]
      BY <1>2, <1>4, <2>3 DEF JudgeNext
    <3>2. PICK n : n = JudgeNext(j)
      OBVIOUS
    <3>3. /\ n.todo = j.todo /\ n.seen = j.seen /\ n.done = with
          /\ n \in [todo : Seq(DOMAIN tree), seen : SUBSET DOMAIN tree, done : SUBSET DOMAIN tree,
                    verdict : {"compatible", "incompatible", "error"}]
      BY <1>1, <2>2, <3>1, <3>2
    <3> QED BY <1>1, <2>1, <3>2, <3>3 DEF Judging
  <2>4. CASE tree[f].java
    <3>1. JudgeNext(j) = [j EXCEPT !.todo = t, !.seen = @ \cup more, !.done = with]
      BY <1>2, <1>4, <2>4 DEF JudgeNext
    <3>2. j.todo \in Seq(DOMAIN tree) /\ j.seen \in SUBSET DOMAIN tree
      BY <1>1
    <3>3. /\ t \in Seq(DOMAIN tree) /\ ToSet(t) = ToSet(Front(j.todo)) \cup more
          /\ ToSet(j.todo) = ToSet(Front(j.todo)) \cup {f}
      BY <1>2, <3>2, TurnFacts
    <3>4. more \in SUBSET DOMAIN tree /\ ImportedFiles(f) \subseteq j.seen \cup more
      BY <1>2, <3>2, MoreFacts
    <3>5. PICK n : n = JudgeNext(j)
      OBVIOUS
    <3>6. /\ n.todo = t /\ n.seen = j.seen \cup more /\ n.done = with
          /\ n \in [todo : Seq(DOMAIN tree), seen : SUBSET DOMAIN tree, done : SUBSET DOMAIN tree,
                    verdict : {"compatible", "incompatible", "error"}]
      BY <1>1, <2>2, <3>1, <3>3, <3>4, <3>5
    <3>7. ASSUME NEW g \in j.seen \cup more
          PROVE  g \in ToSet(t) \/ (tree[g].java /\ ImportedFiles(g) \subseteq j.seen \cup more)
      <4>1. CASE g \in more \/ g \in ToSet(Front(j.todo))
        BY <3>3, <4>1
      <4>2. CASE g = f
        BY <2>4, <3>4, <4>2
      <4>3. CASE g \in j.seen /\ g \notin ToSet(j.todo)
        BY <1>1, <4>3
      <4> QED BY <3>3, <4>1, <4>2, <4>3
    <3> QED BY <1>1, <2>1, <3>5, <3>6, <3>7 DEF Judging
  <2> QED BY <2>3, <2>4
<1> QED BY <1>3, <1>4

\* The turns, one after the other, to the last.
LEMMA JudgeTurns ==
    ASSUME tree \in Trees, NEW p, NEW done, Sound(done)
    PROVE  \E t \in [0 .. Cardinality(DOMAIN tree) -> Judging(p, done)] :
             /\ t[0] = FirstTurn(p, done)
             /\ \A k \in 1 .. Cardinality(DOMAIN tree) : t[k] = Turn(t[k - 1])
             /\ isPackageJavaCompatible(p, done) = t[Cardinality(DOMAIN tree)]
<1>1. PICK m, D, b : m = Cardinality(DOMAIN tree) /\ D = Judging(p, done) /\ b = FirstTurn(p, done)
  OBVIOUS
<1>2. m \in Nat
  BY <1>1, TreeFacts, FS_CardinalityType
<1>3. b \in D
  <2>1. InterfaceFiles(p) \in SUBSET DOMAIN tree /\ IsFiniteSet(InterfaceFiles(p))
    BY InterfaceFilesFacts
  <2>2. /\ InOrder(InterfaceFiles(p)) \in Seq(InterfaceFiles(p))
        /\ ToSet(InOrder(InterfaceFiles(p))) = InterfaceFiles(p)
    BY <2>1, InOrderFacts
  <2>3. InOrder(InterfaceFiles(p)) \in Seq(DOMAIN tree)
    BY <2>1, <2>2
  <2>4. /\ b.todo = InOrder(InterfaceFiles(p)) /\ b.seen = InterfaceFiles(p) /\ b.done = done
        /\ b \in [todo : Seq(DOMAIN tree), seen : SUBSET DOMAIN tree, done : SUBSET DOMAIN tree,
                  verdict : {"compatible", "incompatible", "error"}]
    BY <1>1, <2>1, <2>3 DEF FirstTurn, Sound
  <2> QED BY <1>1, <2>2, <2>4 DEF Judging
<1> DEFINE step == [k \in 1 .. m |-> [j \in D |-> Turn(j)]]
<1>4. step \in [1 .. m -> [D -> D]]
  <2>1. \A j \in D : Turn(j) \in D
    BY <1>1, TurnKeeps
  <2> QED BY <2>1
<1>5. \A k \in 1 .. m : \A j \in D : step[k][j] = Turn(j)
  OBVIOUS
<1> HIDE DEF step
<1>6. PICK t \in [0 .. m -> D] : t[0] = b /\ \A k \in 1 .. m : t[k] = step[k][t[k - 1]]
  BY <1>2, <1>3, <1>4, SomeIteration
<1>7. ASSUME NEW k \in 1 .. m PROVE k - 1 \in 0 .. m /\ t[k] = Turn(t[k - 1])
  <2>1. k - 1 \in 0 .. m
    BY <1>2
  <2>2. t[k - 1] \in D
    BY <1>6, <2>1
  <2> QED BY <1>5, <1>6, <2>1, <2>2
<1> DEFINE turns[k \in 0 .. m] == IF k = 0 THEN b ELSE Turn(turns[k - 1])
<1>8. isPackageJavaCompatible(p, done) = turns[m]
  BY <1>1 DEF isPackageJavaCompatible, FirstTurn, Turn
<1>9. t = [k \in 0 .. m |-> IF k = 0 THEN b ELSE Turn(t[k - 1])]
  <2>1. \A k \in 0 .. m : t[k] = IF k = 0 THEN b ELSE Turn(t[k - 1])
    <3>1. \A k \in 0 .. m : k = 0 \/ k \in 1 .. m
      BY <1>2
    <3> QED BY <1>6, <1>7, <3>1
  <2>2. t = [k \in 0 .. m |-> t[k]]
    BY <1>6
  <2> QED BY <2>1, <2>2
<1>10. turns = [k \in 0 .. m |-> IF k = 0 THEN b ELSE Turn(turns[k - 1])]
  BY <1>9 DEF turns
<1> HIDE DEF turns
<1>11. ASSUME NEW k \in 0 .. m PROVE turns[k] = IF k = 0 THEN b ELSE Turn(turns[k - 1])
  BY <1>10
<1> DEFINE S == {k \in Nat : k <= m => turns[k] = t[k]}
<1>12. 0 \in S
  <2>1. 0 \in 0 .. m
    BY <1>2
  <2> QED BY <1>6, <1>11, <2>1
<1>13. ASSUME NEW k \in Nat, k \in S PROVE k + 1 \in S
  <2> SUFFICES ASSUME k + 1 <= m PROVE turns[k + 1] = t[k + 1]
    OBVIOUS
  <2>1. PICK n : n = k + 1
    OBVIOUS
  <2>2. n \in 0 .. m /\ n \in 1 .. m /\ n # 0 /\ n - 1 = k /\ k <= m
    BY <1>2, <2>1
  <2>3. turns[k] = t[k]
    BY <1>13, <2>2
  <2>4. turns[n] = Turn(turns[k]) /\ t[n] = Turn(t[k])
    BY <1>7, <1>11, <2>2
  <2> QED BY <2>1, <2>3, <2>4
<1> HIDE DEF S
<1>14. \A k \in Nat : k \in S
  BY <1>12, <1>13, SetInduction
<1>15. turns[m] = t[m]
  BY <1>2, <1>14 DEF S
<1> QED BY <1>1, <1>6, <1>7, <1>8, <1>15

LEMMA PackageOfPackage ==
    ASSUME NEW g
    PROVE  InterfaceFiles(PackageOf(g)) = InterfaceFiles(g)
<1>1. PackageOf(PackageOf(g)) = PackageOf(g)
  BY DEF PackageOf, PackageAndVersion
<1> QED BY <1>1 DEF InterfaceFiles

LEMMA ImportedFilesFacts ==
    ASSUME NEW f
    PROVE  ImportedFiles(f) = UNION {InterfaceFiles(g) : g \in tree[f].imports}
<1>1. \A x : x \in ImportedFiles(f) <=> \E g \in tree[f].imports : x \in InterfaceFiles(PackageOf(g))
  BY DEF ImportedFiles, ImportedPackages
<1>2. \A x : x \in ImportedFiles(f) <=> \E g \in tree[f].imports : x \in InterfaceFiles(g)
  BY <1>1, PackageOfPackage
<1> QED BY <1>2

\* There are turns enough: each judges a file that was not judged before.
LEMMA JudgeEnds ==
    ASSUME tree \in Trees, NEW p, NEW done, Sound(done),
           isPackageJavaCompatible(p, done).verdict = "compatible"
    PROVE  isPackageJavaCompatible(p, done).todo = <<>>
<1>1. PICK m : m = Cardinality(DOMAIN tree)
  OBVIOUS
<1>2. m \in Nat /\ m \in 0 .. m /\ m <= m
  BY <1>1, TreeFacts, FS_CardinalityType
<1>3. PICK t \in [0 .. m -> Judging(p, done)] :
         /\ t[0] = FirstTurn(p, done)
         /\ \A k \in 1 .. m : t[k] = Turn(t[k - 1])
         /\ isPackageJavaCompatible(p, done) = t[m]
  <2>1. \E t \in [0 .. Cardinality(DOMAIN tree) -> Judging(p, done)] :
             /\ t[0] = FirstTurn(p, done)
             /\ \A k \in 1 .. Cardinality(DOMAIN tree) : t[k] = Turn(t[k - 1])
             /\ isPackageJavaCompatible(p, done) = t[Cardinality(DOMAIN tree)]
    BY JudgeTurns
  <2> QED BY <1>1, <2>1
<1> DEFINE Counts(j, k) == Len(j.todo) + k = Cardinality(j.seen)
           S == {k \in Nat : k <= m => t[k].todo = <<>> \/ t[k].verdict # "compatible" \/ Counts(t[k], k)}
<1>4. 0 \in S
  <2>1. InterfaceFiles(p) \in SUBSET DOMAIN tree /\ IsFiniteSet(InterfaceFiles(p))
    BY InterfaceFilesFacts
  <2>2. Len(InOrder(InterfaceFiles(p))) = Cardinality(InterfaceFiles(p))
    BY <2>1, InOrderFacts
  <2>3. Cardinality(InterfaceFiles(p)) \in Nat
    BY <2>1, FS_CardinalityType
  <2>4. /\ t[0].todo = InOrder(InterfaceFiles(p)) /\ t[0].seen = InterfaceFiles(p)
    BY <1>3 DEF FirstTurn
  <2>5. Counts(t[0], 0)
    BY <2>2, <2>3, <2>4
  <2> QED BY <2>5
<1>5. ASSUME NEW k \in Nat, k \in S PROVE k + 1 \in S
  <2> SUFFICES ASSUME k + 1 <= m
               PROVE  \/ t[k + 1].todo = <<>> \/ t[k + 1].verdict # "compatible"
                      \/ Counts(t[k + 1], k + 1)
    OBVIOUS
  <2>1. PICK n, j, i : n = k + 1 /\ j = t[k] /\ i = t[n]
    OBVIOUS
  <2>2. n \in 1 .. m /\ n - 1 = k /\ k \in 0 .. m /\ k <= m
    BY <1>2, <2>1
  <2>3. i = Turn(j) /\ j \in Judging(p, done)
    BY <1>3, <2>1, <2>2
  <2>4. j.todo = <<>> \/ j.verdict # "compatible" \/ Counts(j, k)
    BY <1>5, <2>1, <2>2
  <2>5. CASE j.todo = <<>> \/ j.verdict # "compatible"
    BY <2>1, <2>3, <2>5 DEF Turn
  <2>6. CASE j.todo # <<>> /\ j.verdict = "compatible"
    <3>1. i = JudgeNext(j) /\ Counts(j, k)
      BY <2>3, <2>4, <2>6 DEF Turn
    <3>2. j.todo \in Seq(DOMAIN tree) /\ j.seen \in SUBSET DOMAIN tree /\ j.todo # <<>>
      BY <2>3, <2>6 DEF Judging
    <3>3. /\ j \in [todo : Seq(DOMAIN tree), seen : SUBSET DOMAIN tree, done : SUBSET DOMAIN tree,
                    verdict : {"compatible", "incompatible", "error"}]
      BY <2>3 DEF Judging
    <3>4. PICK f, more, with, s :
             /\ f = Last(j.todo) /\ more = NewImports(f, j.seen)
             /\ with = AfterParsing({f}, j.done, "FULL") /\ s = Front(j.todo) \o InOrder(more)
      OBVIOUS
    <3>5. CASE ~ ParsesAll({f}, j.done, "FULL")
      <4>1. i = [j EXCEPT !.verdict = "error"]
        BY <3>1, <3>4, <3>5 DEF JudgeNext
      <4>2. i.verdict # "compatible"
        BY <3>3, <4>1
      <4> QED BY <2>1, <4>2
    <3>6. CASE ParsesAll({f}, j.done, "FULL") /\ ~ tree[f].java
      <4>1. i = [j EXCEPT !.verdict = "incompatible", !.done = with]
        BY <3>1, <3>4, <3>6 DEF JudgeNext
      <4>2. i.verdict # "compatible"
        BY <3>3, <4>1
      <4> QED BY <2>1, <4>2
    <3>7. CASE ParsesAll({f}, j.done, "FULL") /\ tree[f].java
      <4>1. i = [j EXCEPT !.todo = s, !.seen = @ \cup more, !.done = with]
        BY <3>1, <3>4, <3>7 DEF JudgeNext
      <4>2. i.todo = s /\ i.seen = j.seen \cup more
        BY <3>3, <4>1
      <4>3. Len(s) = (Len(j.todo) - 1) + Cardinality(more) /\ Len(j.todo) \in Nat
        BY <3>2, <3>4, TurnFacts
      <4>4. IsFiniteSet(more) /\ IsFiniteSet(j.seen) /\ more \cap j.seen = {}
        BY <3>2, <3>4, MoreFacts
      <4>5. Cardinality(more) \in Nat /\ Cardinality(j.seen) \in Nat
        BY <4>4, FS_CardinalityType
      <4>6. PICK x, y, z : x = Len(j.todo) /\ y = Cardinality(j.seen) /\ z = Cardinality(more)
        OBVIOUS
      <4>7. x \in Nat /\ y \in Nat /\ z \in Nat /\ x + k = y /\ Len(s) = (x - 1) + z
        BY <3>1, <4>3, <4>5, <4>6
      <4>8. Cardinality(j.seen \cup more) = y + z
        <5>1. j.seen \cap more = {} /\ Cardinality({}) = 0
          BY <4>4, FS_EmptySet
        <5>2. \A A, B : IsFiniteSet(A) /\ IsFiniteSet(B) =>
                Cardinality(A \cup B) = Cardinality(A) + Cardinality(B) - Cardinality(A \cap B)
          BY FS_Union
        <5>3. Cardinality(j.seen \cup more) = y + z - 0
          BY <4>4, <4>6, <5>1, <5>2
        <5> QED BY <4>7, <5>3
      <4>9. Len(s) + n = Cardinality(j.seen \cup more)
        BY <2>1, <4>7, <4>8
      <4> QED BY <2>1, <4>2, <4>9
    <3> QED BY <3>5, <3>6, <3>7
  <2> QED BY <2>5, <2>6
<1> HIDE DEF S
<1>6. \A k \in Nat : k \in S
  BY <1>4, <1>5, SetInduction
<1>7. t[m].todo = <<>> \/ t[m].verdict # "compatible" \/ Counts(t[m], m)
  BY <1>2, <1>6 DEF S
<1>8. t[m].todo \in Seq(DOMAIN tree) /\ t[m].seen \in SUBSET DOMAIN tree
  BY <1>2, <1>3 DEF Judging
<1>9. Cardinality(t[m].seen) <= m /\ Cardinality(t[m].seen) \in Nat
  BY <1>1, <1>8, TreeFacts, FS_Subset, FS_CardinalityType
<1>10. CASE Counts(t[m], m)
  <2>1. PICK s : s = t[m].todo
    OBVIOUS
  <2>2. Len(s) \in Nat /\ s \in Seq(DOMAIN tree)
    BY <1>8, <2>1
  <2>3. Len(s) = 0
    BY <1>2, <1>9, <1>10, <2>1, <2>2
  <2> QED BY <1>3, <2>1, <2>2, <2>3
<1> QED BY <1>3, <1>7, <1>10

\* A package that is found compatible is, with all that it imports.
LEMMA JudgeFacts ==
    ASSUME tree \in Trees, NEW p, NEW done, Sound(done)
    PROVE  /\ Sound(isPackageJavaCompatible(p, done).done)
           /\ done \subseteq isPackageJavaCompatible(p, done).done
           /\ isPackageJavaCompatible(p, done).verdict = "compatible" =>
                \A f \in WithImports(InterfaceFiles(p)) : tree[f].java
<1>1. PICK m, j : m = Cardinality(DOMAIN tree) /\ j = isPackageJavaCompatible(p, done)
  OBVIOUS
<1>2. m \in Nat /\ m \in 0 .. m
  BY <1>1, TreeFacts, FS_CardinalityType
<1>3. j \in Judging(p, done)
  <2>1. \E t \in [0 .. Cardinality(DOMAIN tree) -> Judging(p, done)] :
             isPackageJavaCompatible(p, done) = t[Cardinality(DOMAIN tree)]
    BY JudgeTurns
  <2> QED BY <1>1, <1>2, <2>1
<1>4. /\ j.seen \in SUBSET DOMAIN tree
      /\ InterfaceFiles(p) \subseteq j.seen
      /\ done \subseteq j.done /\ Sound(j.done)
      /\ \A f \in j.seen : f \in ToSet(j.todo) \/ (tree[f].java /\ ImportedFiles(f) \subseteq j.seen)
  BY <1>3 DEF Judging
<1>5. ASSUME j.verdict = "compatible" PROVE \A f \in WithImports(InterfaceFiles(p)) : tree[f].java
  <2>1. j.todo = <<>>
    BY <1>1, <1>5, JudgeEnds
  <2>2. ToSet(j.todo) = {}
    BY <2>1 DEF ToSet
  <2>3. \A f \in j.seen : tree[f].java /\ ImportedFiles(f) \subseteq j.seen
    BY <1>4, <2>2
  <2>4. PICK all, edges, fs :
           /\ all = DOMAIN tree /\ fs = InterfaceFiles(p)
           /\ edges = [f \in DOMAIN tree |-> UNION {InterfaceFiles(g) : g \in tree[f].imports}]
    OBVIOUS
  <2>5. \A f \in all : edges[f] = ImportedFiles(f)
    BY <2>4, ImportedFilesFacts
  <2>6. IsFiniteSet(all) /\ edges \in [all -> SUBSET all] /\ fs \in SUBSET all
    BY <2>4, TreeFacts DEF InterfaceFiles
  <2>7. WithImports(InterfaceFiles(p)) = Closure(fs, edges)
    BY <2>4 DEF WithImports
  <2>8. \A T : fs \subseteq T /\ (\A f \in T \cap all : edges[f] \subseteq T) => Closure(fs, edges) \subseteq T
    BY <2>6, ClosureFacts
  <2>9. PICK T : T = j.seen
    OBVIOUS
  <2>10. fs \subseteq T /\ \A f \in T \cap all : edges[f] \subseteq T
    BY <1>4, <2>3, <2>4, <2>5, <2>9
  <2>11. Closure(fs, edges) \subseteq T
    BY <2>8, <2>10
  <2> QED BY <2>3, <2>7, <2>9, <2>11
<1> QED BY <1>1, <1>4, <1>5

-----------------------------------------------------------------------------
(* The options of -L.                                                      *)

OfFiles ==
  {"parse", "header", "hwHeader", "stubHeader", "proxyHeader", "passthroughHeader", "source",
   "implHeader", "implSource", "adapterHeader", "adapterSource", "vts", "hash", "functionCount",
   "dependencies"}
OfPackages == {"exportHeader", "adapterMain", "javaConstants", "androidbp", "androidbpImpl"}

\* What a generator is for goes with the granularity of its option.
FileFormat(o) ==
  /\ o.granularity = "PER_FILE" /\ o.validate = "source"
  /\ o.generators \in Seq(OfFiles) /\ o.generators # <<>>
PackageFormat(o) ==
  /\ o.granularity = "PER_PACKAGE" /\ o.validate = "package"
  /\ o.generators \in Seq(OfPackages) /\ o.generators # <<>>
TypeFormat(o) ==
  o.granularity = "PER_TYPE" /\ o.validate = "source" /\ o.generators = <<"java">>

LEMMA PerFileFacts ==
    ASSUME NEW mode, NEW location, NEW gs \in Seq(OfFiles), gs # <<>>
    PROVE  FileFormat(PerFile(mode, location, gs))
BY DEF PerFile, Format, FileFormat

LEMMA PerPackageFacts ==
    ASSUME NEW mode, NEW location, NEW g \in OfPackages
    PROVE  PackageFormat(PerPackage(mode, location, <<g>>))
<1>1. <<g>> \in Seq(OfPackages) /\ <<g>> # <<>>
  OBVIOUS
<1> QED BY <1>1 DEF PerPackage, Format, PackageFormat

LEMMA GeneratorLists ==
    /\ CppHeaders \in Seq(OfFiles) /\ CppHeaders # <<>>
    /\ CppHeaders \o CppSources \in Seq(OfFiles) /\ CppHeaders \o CppSources # <<>>
    /\ ImplHeaders \o ImplSources \in Seq(OfFiles) /\ ImplHeaders \o ImplSources # <<>>
    /\ AdapterHeaders \o AdapterSources \in Seq(OfFiles) /\ AdapterHeaders \o AdapterSources # <<>>
<1>1. ASSUME NEW T, NEW a \in Seq(T), NEW b \in Seq(T), a # <<>>
      PROVE  a \o b \in Seq(T) /\ a \o b # <<>>
  <2>1. Len(a) \in Nat /\ Len(b) \in Nat /\ Len(a) # 0 /\ Len(a \o b) = Len(a) + Len(b)
    <3>1. Len(a \o b) = Len(a) + Len(b)
      OBVIOUS
    <3>2. Len(a) # 0
      BY <1>1
    <3> QED BY <3>1, <3>2
  <2>2. Len(a \o b) # 0
    BY <2>1
  <2>3. Len(<<>>) = 0
    OBVIOUS
  <2>4. a \o b # <<>>
    BY <2>2, <2>3
  <2> QED BY <2>4
<1>2. ASSUME NEW x \in OfFiles PROVE <<x>> \in Seq(OfFiles) /\ <<x>> # <<>>
  OBVIOUS
<1>3. CppHeaders \in Seq(OfFiles) /\ CppHeaders # <<>>
  BY DEF CppHeaders, OfFiles
<1>4. /\ CppSources \in Seq(OfFiles) /\ ImplHeaders \in Seq(OfFiles) /\ ImplHeaders # <<>>
      /\ ImplSources \in Seq(OfFiles) /\ AdapterHeaders \in Seq(OfFiles) /\ AdapterHeaders # <<>>
      /\ AdapterSources \in Seq(OfFiles)
  BY <1>2 DEF CppSources, ImplHeaders, ImplSources, AdapterHeaders, AdapterSources, OfFiles
<1> QED BY <1>1, <1>3, <1>4

LEMMA CppFormatsFacts ==
    ASSUME NEW l \in DOMAIN CppFormats
    PROVE  FileFormat(CppFormats[l]) \/ PackageFormat(CppFormats[l])
<1>1. ASSUME NEW x \in OfFiles PROVE <<x>> \in Seq(OfFiles) /\ <<x>> # <<>>
  OBVIOUS
<1>2. "parse" \in OfFiles /\ "exportHeader" \in OfPackages /\ "adapterMain" \in OfPackages
  BY DEF OfFiles, OfPackages
<1>3. /\ CppSources \in Seq(OfFiles) /\ CppSources # <<>>
      /\ ImplHeaders \in Seq(OfFiles) /\ ImplHeaders # <<>>
      /\ ImplSources \in Seq(OfFiles) /\ ImplSources # <<>>
      /\ AdapterHeaders \in Seq(OfFiles) /\ AdapterHeaders # <<>>
      /\ AdapterSources \in Seq(OfFiles) /\ AdapterSources # <<>>
  BY <1>1 DEF CppSources, ImplHeaders, ImplSources, AdapterHeaders, AdapterSources, OfFiles
<1>4. l \in {"check", "cpp", "cppHeaders", "cppSources", "exportHeader", "impl", "implHeaders", "implSources", "adapter", "adapterHeaders", "adapterSources", "adapterMain"}
  BY DEF CppFormats
<1>5. CASE l = "check"
  <2>1. CppFormats[l] = PerFile("NOT_NEEDED", "STANDARD_OUT", <<"parse">>)
    BY <1>5 DEF CppFormats
  <2> QED BY <1>1, <1>2, <1>3, <2>1, PerFileFacts, GeneratorLists
<1>6. CASE l = "cpp"
  <2>1. CppFormats[l] = PerFile("NEEDS_DIR", "GEN_OUTPUT", CppHeaders \o CppSources)
    BY <1>6 DEF CppFormats
  <2> QED BY <1>1, <1>2, <1>3, <2>1, PerFileFacts, GeneratorLists
<1>7. CASE l = "cppHeaders"
  <2>1. CppFormats[l] = PerFile("NEEDS_DIR", "GEN_OUTPUT", CppHeaders)
    BY <1>7 DEF CppFormats
  <2> QED BY <1>1, <1>2, <1>3, <2>1, PerFileFacts, GeneratorLists
<1>8. CASE l = "cppSources"
  <2>1. CppFormats[l] = PerFile("NEEDS_DIR", "GEN_OUTPUT", CppSources)
    BY <1>8 DEF CppFormats
  <2> QED BY <1>1, <1>2, <1>3, <2>1, PerFileFacts, GeneratorLists
<1>9. CASE l = "exportHeader"
  <2>1. CppFormats[l] = PerPackage("NEEDS_FILE", "DIRECT", <<"exportHeader">>)
    BY <1>9 DEF CppFormats
  <2> QED BY <1>1, <1>2, <1>3, <2>1, PerPackageFacts
<1>10. CASE l = "impl"
  <2>1. CppFormats[l] = PerFile("NEEDS_DIR", "DIRECT", ImplHeaders \o ImplSources)
    BY <1>10 DEF CppFormats
  <2> QED BY <1>1, <1>2, <1>3, <2>1, PerFileFacts, GeneratorLists
<1>11. CASE l = "implHeaders"
  <2>1. CppFormats[l] = PerFile("NEEDS_DIR", "DIRECT", ImplHeaders)
    BY <1>11 DEF CppFormats
  <2> QED BY <1>1, <1>2, <1>3, <2>1, PerFileFacts, GeneratorLists
<1>12. CASE l = "implSources"
  <2>1. CppFormats[l] = PerFile("NEEDS_DIR", "DIRECT", ImplSources)
    BY <1>12 DEF CppFormats
  <2> QED BY <1>1, <1>2, <1>3, <2>1, PerFileFacts, GeneratorLists
<1>13. CASE l = "adapter"
  <2>1. CppFormats[l] = PerFile("NEEDS_DIR", "GEN_OUTPUT", AdapterHeaders \o AdapterSources)
    BY <1>13 DEF CppFormats
  <2> QED BY <1>1, <1>2, <1>3, <2>1, PerFileFacts, GeneratorLists
<1>14. CASE l = "adapterHeaders"
  <2>1. CppFormats[l] = PerFile("NEEDS_DIR", "GEN_OUTPUT", AdapterHeaders)
    BY <1>14 DEF CppFormats
  <2> QED BY <1>1, <1>2, <1>3, <2>1, PerFileFacts, GeneratorLists
<1>15. CASE l = "adapterSources"
  <2>1. CppFormats[l] = PerFile("NEEDS_DIR", "GEN_OUTPUT", AdapterSources)
    BY <1>15 DEF CppFormats
  <2> QED BY <1>1, <1>2, <1>3, <2>1, PerFileFacts, GeneratorLists
<1>16. CASE l = "adapterMain"
  <2>1. CppFormats[l] = PerPackage("NEEDS_DIR", "DIRECT", <<"adapterMain">>)
    BY <1>16 DEF CppFormats
  <2> QED BY <1>1, <1>2, <1>3, <2>1, PerPackageFacts
<1> QED BY <1>4, <1>5, <1>6, <1>7, <1>8, <1>9, <1>10,
          <1>11, <1>12, <1>13, <1>14, <1>15, <1>16

LEMMA OtherFormatsFacts ==
    ASSUME NEW l \in DOMAIN OtherFormats, OtherFormats[l].validate # "never"
    PROVE  \/ l # "java" /\ FileFormat(OtherFormats[l])
           \/ l # "java" /\ PackageFormat(OtherFormats[l])
           \/ l = "java" /\ TypeFormat(OtherFormats[l])
<1>1. ASSUME NEW x \in OfFiles PROVE <<x>> \in Seq(OfFiles) /\ <<x>> # <<>>
  OBVIOUS
<1>2. /\ "vts" \in OfFiles /\ "hash" \in OfFiles /\ "functionCount" \in OfFiles
      /\ "dependencies" \in OfFiles
      /\ "javaConstants" \in OfPackages /\ "androidbp" \in OfPackages
      /\ "androidbpImpl" \in OfPackages
  BY DEF OfFiles, OfPackages
<1>3. l \in {"java", "javaConstants", "vts", "makefile", "androidbp", "androidbpImpl", "hash", "functionCount", "dependencies"}
  BY DEF OtherFormats
<1>4. CASE l = "java"
  <2>1. OtherFormats[l] = Format("NEEDS_DIR", "GEN_SANITIZED", "PER_TYPE", "source", <<"java">>)
    BY <1>4 DEF OtherFormats
  <2> QED BY <1>4, <2>1 DEF Format, TypeFormat
<1>5. CASE l = "javaConstants"
  <2>1. OtherFormats[l] = PerPackage("NEEDS_DIR", "GEN_SANITIZED", <<"javaConstants">>)
    BY <1>5 DEF OtherFormats
  <2> QED BY <1>1, <1>2, <1>5, <2>1, PerPackageFacts
<1>6. CASE l = "vts"
  <2>1. OtherFormats[l] = PerFile("NEEDS_DIR", "GEN_OUTPUT", <<"vts">>)
    BY <1>6 DEF OtherFormats
  <2> QED BY <1>1, <1>2, <1>6, <2>1, PerFileFacts
<1>7. CASE l = "makefile"
  <2>1. OtherFormats[l] = Format("NEEDS_SRC", "PACKAGE_ROOT", "PER_PACKAGE", "never", <<>>)
    BY <1>7 DEF OtherFormats
  <2> QED BY <2>1 DEF Format
<1>8. CASE l = "androidbp"
  <2>1. OtherFormats[l] = PerPackage("NEEDS_SRC", "PACKAGE_ROOT", <<"androidbp">>)
    BY <1>8 DEF OtherFormats
  <2> QED BY <1>1, <1>2, <1>8, <2>1, PerPackageFacts
<1>9. CASE l = "androidbpImpl"
  <2>1. OtherFormats[l] = PerPackage("NEEDS_DIR", "DIRECT", <<"androidbpImpl">>)
    BY <1>9 DEF OtherFormats
  <2> QED BY <1>1, <1>2, <1>9, <2>1, PerPackageFacts
<1>10. CASE l = "hash"
  <2>1. OtherFormats[l] = PerFile("NOT_NEEDED", "STANDARD_OUT", <<"hash">>)
    BY <1>10 DEF OtherFormats
  <2> QED BY <1>1, <1>2, <1>10, <2>1, PerFileFacts
<1>11. CASE l = "functionCount"
  <2>1. OtherFormats[l] = PerFile("NOT_NEEDED", "STANDARD_OUT", <<"functionCount">>)
    BY <1>11 DEF OtherFormats
  <2> QED BY <1>1, <1>2, <1>11, <2>1, PerFileFacts
<1>12. CASE l = "dependencies"
  <2>1. OtherFormats[l] = PerFile("NOT_NEEDED", "STANDARD_OUT", <<"dependencies">>)
    BY <1>12 DEF OtherFormats
  <2> QED BY <1>1, <1>2, <1>12, <2>1, PerFileFacts
<1> QED BY <1>3, <1>4, <1>5, <1>6, <1>7, <1>8, <1>9, <1>10, <1>11, <1>12

LEMMA FormatFacts ==
    ASSUME NEW l \in DOMAIN Formats, Formats[l].validate # "never"
    PROVE  \/ l # "java" /\ FileFormat(Formats[l])
           \/ l # "java" /\ PackageFormat(Formats[l])
           \/ l = "java" /\ TypeFormat(Formats[l])
<1>1. /\ DOMAIN Formats = DOMAIN CppFormats \cup DOMAIN OtherFormats
      /\ Formats[l] = IF l \in DOMAIN CppFormats THEN CppFormats[l] ELSE OtherFormats[l]
  BY DEF Formats
<1>2. "java" \notin DOMAIN CppFormats
  BY DEF CppFormats
<1>3. CASE l \in DOMAIN CppFormats
  BY <1>1, <1>2, <1>3, CppFormatsFacts
<1>4. CASE l \notin DOMAIN CppFormats
  BY <1>1, <1>4, OtherFormatsFacts
<1> QED BY <1>3, <1>4

-----------------------------------------------------------------------------
(* The targets of an argument.                                             *)

\* What an argument that is accepted is.
Fits(n) ==
  /\ n \in FullName
  /\ opts.L \in DOMAIN Formats /\ The.validate # "never"
  /\ The.validate = "package" => n.names = <<>>
  /\ The.validate = "source" /\ Dotted(n) => opts.L = "java" /\ IsTypesName(n)

\* Its targets, and what is parsed for a file that g generates for one of them.
AllTargets(n) ==
  IF The.granularity = "PER_PACKAGE" THEN {PackageAndVersion(n)}
  ELSE IF The.granularity = "PER_FILE" THEN Listed(n)
  ELSE (IF n.names # <<>> THEN PerType(n) ELSE {}) \cup UNION {PerType(f) : f \in InterfaceFiles(n)}
Sources(g, u) == IF g = "adapterMain" THEN {} ELSE SourcesOf(u)

LEMMA TheFormat ==
    ASSUME NEW n, Fits(n)
    PROVE  \/ opts.L # "java" /\ FileFormat(The)
           \/ opts.L # "java" /\ PackageFormat(The)
           \/ opts.L = "java" /\ TypeFormat(The)
BY FormatFacts DEF Fits, The

LEMMA NameFacts ==
    ASSUME NEW f \in FullName
    PROVE  /\ f.names \in Seq(DOMAIN Spelling) /\ f = [f EXCEPT !.names = f.names]
           /\ PackageAndVersion(f) \in FullName /\ PackageAndVersion(f).names = <<>>
           /\ TypesForPackage(f) \in FullName /\ TypesForPackage(f).names = <<"types">>
           /\ PackageOf(TypesForPackage(f)) = PackageOf(f)
           /\ \A s \in Seq(DOMAIN Spelling) :
                /\ [f EXCEPT !.names = s] \in FullName
                /\ [f EXCEPT !.names = s].names = s
                /\ TypesForPackage([f EXCEPT !.names = s]) = TypesForPackage(f)
                /\ PackageOf([f EXCEPT !.names = s]) = PackageOf(f)
<1>1. "types" \in DOMAIN Spelling
  BY InputAssumption
<1>2. PICK N, P, V : N = Seq(DOMAIN Spelling) /\ P = Seq(STRING) /\ V = STRING
  OBVIOUS
<1>3. <<>> \in N /\ <<"types">> \in N
  BY <1>1, <1>2, OneElement
<1>4. FullName = [package : P, version : V, names : N]
  BY <1>2 DEF FullName
<1>5. f \in [package : P, version : V, names : N]
  BY <1>4
<1>6. ASSUME NEW s \in N
      PROVE  /\ [f EXCEPT !.names = s] \in [package : P, version : V, names : N]
             /\ [f EXCEPT !.names = s].names = s
             /\ \A r : [[f EXCEPT !.names = s] EXCEPT !.names = r] = [f EXCEPT !.names = r]
  BY <1>5
<1>7. f.names \in N /\ f = [f EXCEPT !.names = f.names]
  BY <1>5
<1> QED BY <1>2, <1>3, <1>4, <1>6, <1>7 DEF PackageAndVersion, TypesForPackage, PackageOf

\* A name of one component is the name of its file.
LEMMA OneComponent ==
    ASSUME NEW f \in FullName, Len(f.names) = 1
    PROVE  /\ TopLevelType(f) = f /\ ~ Dotted(f) /\ f.names # <<>>
           /\ f.names = <<f.names[1]>>
<1>1. PICK s : s = f.names
  OBVIOUS
<1>2. s \in Seq(DOMAIN Spelling) /\ Len(s) = 1
  BY <1>1, NameFacts
<1>3. PICK D : D = DOMAIN Spelling
  OBVIOUS
<1>4. /\ s # <<>> /\ ~ (Len(s) > 1)
      /\ s = <<s[1]>> /\ SubSeq(s, 1, 1) = s
  <2>1. s \in Seq(D) /\ Len(s) = 1
    BY <1>2, <1>3
  <2>2. s # <<>> /\ ~ (Len(s) > 1)
    BY <2>1
  <2> QED BY <2>1, <2>2, FirstOfSome
<1>5. f = [f EXCEPT !.names = s]
  BY <1>1, NameFacts
<1>6. TopLevelType(f) = f
  BY <1>1, <1>4, <1>5 DEF TopLevelType
<1> QED BY <1>1, <1>4, <1>6 DEF Dotted

\* The file of a name in types.hal is types.hal.
LEMMA TypesComponent ==
    ASSUME NEW f \in FullName, f.names # <<>>, f.names[1] = "types"
    PROVE  TopLevelType(f) = TypesForPackage(f)
<1>1. PICK s : s = f.names
  OBVIOUS
<1>2. s \in Seq(DOMAIN Spelling) /\ s # <<>> /\ s[1] = "types"
  BY <1>1, NameFacts
<1>3. SubSeq(s, 1, 1) = <<"types">>
  BY <1>2, FirstOfSome
<1> QED BY <1>1, <1>3 DEF TopLevelType, TypesForPackage

\* The types of types.hal.
WithNames(f, s) == [f EXCEPT !.names = s]
TypeIn(f, x) == [f EXCEPT !.names = Append(@, x)]

LEMMA TypesTargets ==
    ASSUME NEW f \in FullName, f.names = <<"types">>, NEW x \in DOMAIN Spelling,
           NEW t, t = TypeIn(f, x)
    PROVE  /\ t \in FullName /\ t = WithNames(f, <<"types", x>>)
           /\ TypesForPackage(t) = f /\ TopLevelType(t) = f
           /\ Dotted(t) /\ IsTypesName(t) /\ t.names # <<>>
           /\ Last(t.names) = x
           /\ PackageOf(t) = PackageOf(f)
<1>1. PICK s : s = <<"types", x>>
  OBVIOUS
<1>2. "types" \in DOMAIN Spelling
  BY InputAssumption
<1>3. /\ s \in Seq(DOMAIN Spelling) /\ Len(s) = 2 /\ s[1] = "types" /\ s[2] = x /\ s # <<>>
      /\ Append(<<"types">>, x) = s
  <2>1. PICK D : D = DOMAIN Spelling
    OBVIOUS
  <2>2. s \in Seq(D) /\ Len(s) = 2 /\ s[1] = "types" /\ s[2] = x /\ s # <<>>
        /\ Append(<<"types">>, x) = s
    <3>1. "types" \in D /\ x \in D
      BY <1>2, <2>1
    <3>2. PICK w : w = "types"
      OBVIOUS
    <3>3. w \in D
      BY <3>1, <3>2
    <3>4. PICK u : /\ u = <<w, x>>
                   /\ u \in Seq(D) /\ Len(u) = 2 /\ u[1] = w /\ u[2] = x /\ u # <<>>
                   /\ u # <<w>> /\ Append(<<w>>, x) = u
      BY <3>1, <3>3, TwoElements
    <3> QED BY <1>1, <3>2, <3>4
  <2> QED BY <2>1, <2>2
<1>4. t = WithNames(f, s)
  BY <1>3 DEF TypeIn, WithNames
<1>5. /\ t \in FullName /\ t.names = s /\ PackageOf(t) = PackageOf(f)
      /\ TypesForPackage(t) = TypesForPackage(f)
  BY <1>3, <1>4, NameFacts DEF WithNames
<1>6. TypesForPackage(f) = f
  BY NameFacts DEF TypesForPackage
<1>7. TopLevelType(t) = TypesForPackage(t)
  BY <1>3, <1>5, TypesComponent
<1>8. Dotted(t) /\ IsTypesName(t) /\ Last(t.names) = x
  <2>1. Dotted(t)
    <3>1. PICK n : n = Len(t.names)
      OBVIOUS
    <3>2. n = 2
      BY <1>3, <1>5, <3>1
    <3> QED BY <3>1, <3>2 DEF Dotted
  <2>2. IsTypesName(t)
    BY <1>3, <1>5 DEF IsTypesName
  <2>3. Last(t.names) = x
    BY <1>3, <1>5 DEF Last
  <2> QED BY <2>1, <2>2, <2>3
<1>9. t = WithNames(f, <<"types", x>>)
  BY <1>1, <1>4
<1>10. TypesForPackage(t) = f /\ TopLevelType(t) = f /\ t.names # <<>>
  BY <1>3, <1>5, <1>6, <1>7
<1> QED BY <1>5, <1>8, <1>9, <1>10

LEMMA PerTypeFacts ==
    ASSUME tree \in Trees, NEW f \in DOMAIN tree
    PROVE  /\ PerType(f) \in SUBSET FullName /\ IsFiniteSet(PerType(f))
           /\ PerType(f) = TypesOf(f)
           /\ \A t \in PerType(f) :
                \/ t = f /\ ~ IsTypesName(t) /\ ~ Dotted(t)
                \/ Dotted(t) /\ IsTypesName(t) /\ TypesForPackage(t) = f /\ Last(t.names) \in tree[f].types
           /\ \A t \in PerType(f) : TopLevelType(t) = f /\ t.names # <<>> /\ PackageOf(t) = PackageOf(f)
<1>1. /\ f \in FullName /\ Len(f.names) = 1 /\ tree[f].types \in SUBSET DOMAIN Spelling
      /\ IsFiniteSet(tree[f].types)
  BY TreeFacts
<1>2. TopLevelType(f) = f /\ ~ Dotted(f) /\ f.names # <<>>
  BY <1>1, OneComponent
<1>3. CASE f.names = <<"types">>
  <2>1. PICK g : g = [x \in tree[f].types |-> TypeIn(f, x)]
    OBVIOUS
  <2>2. PerType(f) = {g[x] : x \in tree[f].types}
    BY <1>3, <2>1 DEF PerType, TypeIn
  <2>3. IsFiniteSet(PerType(f))
    BY <1>1, <2>2, FiniteImage
  <2>4. ASSUME NEW t \in PerType(f)
        PROVE  \E x \in tree[f].types :
                 /\ t \in FullName /\ t = WithNames(f, <<"types", x>>)
                 /\ TypesForPackage(t) = f /\ TopLevelType(t) = f
                 /\ Dotted(t) /\ IsTypesName(t) /\ t.names # <<>>
                 /\ Last(t.names) = x
                 /\ PackageOf(t) = PackageOf(f)
    <3>1. PICK x \in tree[f].types : t = TypeIn(f, x)
      BY <1>3 DEF PerType, TypeIn
    <3>2. x \in DOMAIN Spelling
      BY <1>1
    <3>3. /\ t \in FullName /\ t = WithNames(f, <<"types", x>>)
          /\ TypesForPackage(t) = f /\ TopLevelType(t) = f
          /\ Dotted(t) /\ IsTypesName(t) /\ t.names # <<>>
          /\ Last(t.names) = x
          /\ PackageOf(t) = PackageOf(f)
      BY <1>1, <1>3, <3>1, <3>2, TypesTargets
    <3> QED BY <3>3
  <2>5. PICK h : h = [x \in tree[f].types |-> WithNames(f, <<"types", x>>)]
    OBVIOUS
  <2>6. TypesOf(f) = {h[x] : x \in tree[f].types}
    BY <1>3, <2>5 DEF TypesOf, WithNames
  <2>7. \A x \in tree[f].types : g[x] = h[x]
    <3>1. SUFFICES ASSUME NEW x \in tree[f].types PROVE g[x] = h[x]
      OBVIOUS
    <3>2. x \in DOMAIN Spelling /\ g[x] = TypeIn(f, x)
      BY <1>1, <2>1
    <3>3. g[x] = WithNames(f, <<"types", x>>)
      <4>1. PICK t : t = TypeIn(f, x)
        OBVIOUS
      <4>2. t = WithNames(f, <<"types", x>>)
        BY <1>1, <1>3, <3>2, <4>1, TypesTargets
      <4> QED BY <3>2, <4>1, <4>2
    <3> QED BY <2>5, <3>3
  <2>8. PerType(f) = TypesOf(f)
    BY <2>2, <2>6, <2>7
  <2>9. PerType(f) \in SUBSET FullName
    BY <2>4
  <2> QED BY <2>3, <2>4, <2>8, <2>9
<1>4. CASE f.names # <<"types">>
  <2>1. PerType(f) = {f} /\ TypesOf(f) = {f}
    BY <1>4 DEF PerType, TypesOf
  <2>2. IsFiniteSet({f})
    BY FS_Singleton
  <2>3. ~ IsTypesName(f)
    <3>1. f.names = <<f.names[1]>>
      BY <1>1, OneComponent
    <3> QED BY <1>4, <3>1 DEF IsTypesName
  <2> QED BY <1>1, <1>2, <2>1, <2>2, <2>3
<1> QED BY <1>3, <1>4

LEMMA TypesTargetsAreFinite ==
    ASSUME tree \in Trees, NEW fs, fs \subseteq DOMAIN tree
    PROVE  /\ UNION {PerType(f) : f \in fs} \in SUBSET FullName
           /\ IsFiniteSet(UNION {PerType(f) : f \in fs})
<1>1. PICK g, T : g = [f \in DOMAIN tree |-> PerType(f)] /\ T = {PerType(f) : f \in fs}
  OBVIOUS
<1>2. T = {g[f] : f \in fs}
  BY <1>1
<1>3. IsFiniteSet(fs)
  BY TreeFacts, FS_Subset
<1>4. IsFiniteSet(T)
  BY <1>2, <1>3, FiniteImage
<1>5. \A x \in T : IsFiniteSet(x) /\ x \in SUBSET FullName
  BY <1>1, PerTypeFacts
<1>6. IsFiniteSet(UNION T)
  BY <1>4, <1>5, FS_UNION
<1>7. UNION T \in SUBSET FullName
  BY <1>5
<1> QED BY <1>1, <1>6, <1>7

\* The sources of an argument for types are known to be in the tree.
TypesAreThere(n) == The.granularity = "PER_TYPE" => ListedTypes(n) \subseteq DOMAIN tree

\* An argument on its own under PER_TYPE.
LEMMA NamedTarget ==
    ASSUME tree \in Trees, NEW n, Fits(n), TypeFormat(The), TypesAreThere(n), n.names # <<>>
    PROVE  /\ PerType(n) \in SUBSET FullName /\ IsFiniteSet(PerType(n))
           /\ \/ n \in DOMAIN tree /\ n.names = <<"types">>
              \/ PerType(n) = {n} /\ n.names # <<"types">>
<1>1. CASE n.names = <<"types">>
  <2>1. n \in ListedTypes(n)
    BY <1>1 DEF ListedTypes
  <2>2. n \in DOMAIN tree
    BY <2>1 DEF TypesAreThere, TypeFormat
  <2> QED BY <1>1, <2>2, PerTypeFacts
<1>2. CASE n.names # <<"types">>
  <2>1. PerType(n) = {n}
    BY <1>2 DEF PerType
  <2>2. n \in FullName /\ IsFiniteSet({n})
    BY FS_Singleton DEF Fits
  <2> QED BY <1>2, <2>1, <2>2
<1> QED BY <1>1, <1>2

LEMMA TargetsFacts ==
    ASSUME tree \in Trees, NEW n, Fits(n), TypesAreThere(n)
    PROVE  TargetsOf(n) \in Seq(FullName) /\ ToSet(TargetsOf(n)) = AllTargets(n)
<1>1. n \in FullName
  BY DEF Fits
<1>2. ASSUME NEW S, S \in SUBSET FullName, IsFiniteSet(S)
      PROVE  InOrder(S) \in Seq(FullName) /\ ToSet(InOrder(S)) = S
  <2>1. InOrder(S) \in Seq(S) /\ ToSet(InOrder(S)) = S
    BY <1>2, InOrderFacts
  <2>2. PICK F, s : F = FullName /\ s = InOrder(S)
    OBVIOUS
  <2>3. s \in Seq(F)
    <3>1. s \in Seq(S) /\ S \subseteq F
      BY <1>2, <2>1, <2>2
    <3> QED BY <3>1
  <2> QED BY <2>1, <2>2, <2>3
<1>3. ASSUME NEW x \in FullName PROVE <<x>> \in Seq(FullName) /\ ToSet(<<x>>) = {x}
  <2>1. PICK F : F = FullName
    OBVIOUS
  <2>2. x \in F
    BY <2>1
  <2>3. <<x>> \in Seq(F) /\ ToSet(<<x>>) = {x}
    BY <2>2 DEF ToSet
  <2> QED BY <2>1, <2>3
<1>4. InterfaceFiles(n) \in SUBSET DOMAIN tree /\ IsFiniteSet(InterfaceFiles(n))
  BY InterfaceFilesFacts
<1>5. CASE FileFormat(The)
  <2>1. The.granularity = "PER_FILE" /\ The.granularity # "PER_PACKAGE"
    BY <1>5 DEF FileFormat
  <2>2. AllTargets(n) = Listed(n)
    BY <2>1 DEF AllTargets
  <2>3. TargetsOf(n) = IF n.names # <<>> THEN <<n>> ELSE InOrder(InterfaceFiles(n))
    BY <2>1 DEF TargetsOf
  <2>4. InterfaceFiles(n) \in SUBSET FullName
    BY <1>4, TreeFacts
  <2>5. CASE n.names # <<>>
    BY <1>1, <1>3, <2>2, <2>3, <2>5 DEF Listed
  <2>6. CASE n.names = <<>>
    <3>1. TargetsOf(n) = InOrder(InterfaceFiles(n)) /\ AllTargets(n) = InterfaceFiles(n)
      BY <2>2, <2>3, <2>6 DEF Listed
    <3> QED BY <1>2, <1>4, <2>4, <3>1
  <2> QED BY <2>5, <2>6
<1>6. CASE PackageFormat(The)
  <2>1. The.granularity = "PER_PACKAGE"
    BY <1>6 DEF PackageFormat
  <2>2. AllTargets(n) = {PackageAndVersion(n)} /\ TargetsOf(n) = <<PackageAndVersion(n)>>
    BY <2>1 DEF AllTargets, TargetsOf
  <2> QED BY <1>1, <1>3, <2>2, NameFacts
<1>7. CASE TypeFormat(The)
  <2>1. The.granularity # "PER_PACKAGE" /\ The.granularity # "PER_FILE"
    BY <1>7 DEF TypeFormat
  <2>2. PICK a, b, A, B :
          /\ A = (IF n.names # <<>> THEN PerType(n) ELSE {})
          /\ B = UNION {PerType(f) : f \in InterfaceFiles(n)}
          /\ a = (IF n.names # <<>> THEN InOrder(PerType(n)) ELSE <<>>)
          /\ b = InOrder(UNION {PerType(f) : f \in InterfaceFiles(n)})
    OBVIOUS
  <2>3. AllTargets(n) = A \cup B /\ TargetsOf(n) = a \o b
    BY <2>1, <2>2 DEF AllTargets, TargetsOf
  <2>4. b \in Seq(FullName) /\ ToSet(b) = B
    <3>1. InterfaceFiles(n) \subseteq DOMAIN tree
      BY <1>4
    <3>2. B \in SUBSET FullName /\ IsFiniteSet(B)
      BY <2>2, <3>1, TypesTargetsAreFinite
    <3> QED BY <1>2, <2>2, <3>2
  <2>5. a \in Seq(FullName) /\ ToSet(a) = A
    <3>1. CASE n.names # <<>>
      <4>1. a = InOrder(A) /\ A = PerType(n)
        BY <2>2, <3>1
      <4>2. A \in SUBSET FullName /\ IsFiniteSet(A)
        BY <1>7, <3>1, <4>1, NamedTarget
      <4> QED BY <1>2, <4>1, <4>2
    <3>2. CASE n.names = <<>>
      <4>1. a = <<>> /\ A = {}
        BY <2>2, <3>2
      <4>2. <<>> \in Seq(FullName) /\ ToSet(<<>>) = {}
        BY DEF ToSet
      <4> QED BY <4>1, <4>2
    <3> QED BY <3>1, <3>2
  <2>6. a \o b \in Seq(FullName) /\ ToSet(a \o b) = ToSet(a) \cup ToSet(b)
    BY <2>4, <2>5, ConcatElements
  <2> QED BY <2>3, <2>4, <2>5, <2>6
<1> QED BY <1>5, <1>6, <1>7, TheFormat

\* What is parsed for a target is where it comes from.
LEMMA TargetFacts ==
    ASSUME tree \in Trees, NEW n, Fits(n), TypesAreThere(n), NEW t \in AllTargets(n)
    PROVE  /\ t \in FullName
           /\ \A g \in ToSet(The.generators) : Parsed(g, t) = Sources(g, t)
           /\ PackageFormat(The) => t.names = <<>>
           /\ ~ PackageFormat(The) => t.names # <<>>
<1>1. n \in FullName
  BY DEF Fits
<1>2. InterfaceFiles(n) \in SUBSET DOMAIN tree
  BY InterfaceFilesFacts
<1>3. CASE opts.L # "java" /\ FileFormat(The)
  <2>1. /\ The.granularity = "PER_FILE" /\ The.granularity # "PER_PACKAGE"
        /\ The.generators \in Seq(OfFiles) /\ The.validate = "source"
    BY <1>3 DEF FileFormat
  <2>2. t \in Listed(n)
    BY <2>1 DEF AllTargets
  <2>3. t \in FullName /\ Len(t.names) = 1
    <3>1. CASE n.names = <<>>
      BY <1>2, <2>2, <3>1, TreeFacts DEF Listed
    <3>2. CASE n.names # <<>>
      <4>1. t = n
        BY <2>2, <3>2 DEF Listed
      <4>2. ~ Dotted(n)
        BY <1>3, <2>1 DEF Fits
      <4>3. n.names \in Seq(DOMAIN Spelling)
        BY <1>1, NameFacts
      <4>4. PICK s : s = n.names
        OBVIOUS
      <4>5. PICK D : D = DOMAIN Spelling
        OBVIOUS
      <4>6. Len(s) = 1
        <5>1. s \in Seq(D) /\ s # <<>> /\ ~ (Len(s) > 1)
          BY <3>2, <4>2, <4>3, <4>4, <4>5 DEF Dotted
        <5> QED BY <5>1, LengthOne
      <4> QED BY <1>1, <4>1, <4>4, <4>6
    <3> QED BY <3>1, <3>2
  <2>4. TopLevelType(t) = t /\ t.names # <<>>
    BY <2>3, OneComponent
  <2>5. ASSUME NEW g \in ToSet(The.generators) PROVE Parsed(g, t) = Sources(g, t)
    <3>1. g \in OfFiles
      BY <2>1 DEF ToSet
    <3>2. Parsed(g, t) = {t} /\ g # "adapterMain"
      BY <3>1 DEF OfFiles, Parsed
    <3>3. Sources(g, t) = {TopLevelType(t)}
      BY <2>4, <3>2 DEF Sources, SourcesOf
    <3> QED BY <2>4, <3>2, <3>3
  <2>6. ~ PackageFormat(The)
    BY <2>1 DEF PackageFormat
  <2> QED BY <2>3, <2>4, <2>5, <2>6
<1>4. CASE opts.L # "java" /\ PackageFormat(The)
  <2>1. The.granularity = "PER_PACKAGE" /\ The.generators \in Seq(OfPackages)
    BY <1>4 DEF PackageFormat
  <2>2. t = PackageAndVersion(n)
    BY <2>1 DEF AllTargets
  <2>3. t \in FullName /\ t.names = <<>>
    BY <1>1, <2>2, NameFacts
  <2>4. ASSUME NEW g \in ToSet(The.generators) PROVE Parsed(g, t) = Sources(g, t)
    <3>1. g \in OfPackages
      BY <2>1 DEF ToSet
    <3>2. Parsed(g, t) = IF g = "adapterMain" THEN {} ELSE InterfaceFiles(t)
      BY <3>1 DEF OfPackages, Parsed
    <3> QED BY <2>3, <3>2 DEF Sources, SourcesOf
  <2> QED BY <1>4, <2>3, <2>4
<1>5. CASE opts.L = "java" /\ TypeFormat(The)
  <2>1. /\ The.granularity = "PER_TYPE" /\ The.generators = <<"java">> /\ The.validate = "source"
        /\ The.granularity # "PER_PACKAGE" /\ The.granularity # "PER_FILE"
    BY <1>5 DEF TypeFormat
  <2>2. /\ t \in FullName /\ t.names # <<>>
        /\ TopLevelType(t) = IF Dotted(t) THEN TypesForPackage(t) ELSE t
    <3>1. ASSUME NEW f \in DOMAIN tree, t \in PerType(f)
          PROVE  /\ t \in FullName /\ t.names # <<>>
                 /\ TopLevelType(t) = IF Dotted(t) THEN TypesForPackage(t) ELSE t
      BY <3>1, PerTypeFacts
    <3>2. CASE t \in UNION {PerType(f) : f \in InterfaceFiles(n)}
      BY <1>2, <3>1, <3>2
    <3>3. CASE n.names # <<>> /\ t \in PerType(n)
      <4>1. CASE n \in DOMAIN tree
        BY <3>1, <3>3, <4>1
      <4>2. CASE t = n
        <5>1. CASE Dotted(n)
          <6>1. n.names[1] = "types"
            BY <2>1, <5>1 DEF Fits, IsTypesName
          <6>2. TopLevelType(n) = TypesForPackage(n)
            BY <1>1, <3>3, <6>1, TypesComponent
          <6> QED BY <1>1, <3>3, <4>2, <5>1, <6>2
        <5>2. CASE ~ Dotted(n)
          <6>1. PICK s, D : s = n.names /\ D = DOMAIN Spelling
            OBVIOUS
          <6>2. s \in Seq(D) /\ s # <<>> /\ ~ (Len(s) > 1)
            BY <1>1, <3>3, <5>2, <6>1, NameFacts DEF Dotted
          <6>3. Len(s) = 1
            BY <6>2, LengthOne
          <6>4. TopLevelType(n) = n
            BY <1>1, <6>1, <6>3, OneComponent
          <6> QED BY <1>1, <3>3, <4>2, <5>2, <6>4
        <5> QED BY <5>1, <5>2
      <4> QED BY <1>5, <3>3, <4>1, <4>2, NamedTarget
    <3>4. t \in (IF n.names # <<>> THEN PerType(n) ELSE {}) \cup UNION {PerType(f) : f \in InterfaceFiles(n)}
      BY <2>1 DEF AllTargets
    <3> QED BY <3>2, <3>3, <3>4
  <2>3. ASSUME NEW g \in ToSet(The.generators) PROVE Parsed(g, t) = Sources(g, t)
    <3>1. g = "java"
      BY <2>1 DEF ToSet
    <3>2. Parsed(g, t) = {IF Dotted(t) THEN TypesForPackage(t) ELSE t}
      BY <3>1 DEF Parsed
    <3>3. Sources(g, t) = {TopLevelType(t)}
      BY <2>2, <3>1 DEF Sources, SourcesOf
    <3> QED BY <2>2, <3>2, <3>3
  <2>4. ~ PackageFormat(The)
    BY <2>1 DEF PackageFormat
  <2> QED BY <2>2, <2>3, <2>4
<1> QED BY <1>3, <1>4, <1>5, TheFormat

\* What is asked for is what is generated, where the sources are there.
Jobs(n) == {job \in ToSet(The.generators) \X AllTargets(n) : shouldGenerate(job[1], job[2])}

LEMMA JobsAreAsked ==
    ASSUME tree \in Trees, NEW n, Fits(n), TypesAreThere(n),
           \A job \in Jobs(n) : Sources(job[1], job[2]) \subseteq DOMAIN tree
    PROVE  Jobs(n) = Asked(n)
<1>1. SUFFICES AllTargets(n) = Units(n)
  BY <1>1 DEF Jobs, Asked, shouldGenerate
<1>2. n \in FullName
  BY DEF Fits
<1>3. InterfaceFiles(n) \in SUBSET DOMAIN tree
  BY InterfaceFilesFacts
<1>4. CASE FileFormat(The) \/ PackageFormat(The)
  BY <1>4 DEF FileFormat, PackageFormat, AllTargets, Units
<1>5. CASE TypeFormat(The)
  <2>1. /\ The.granularity = "PER_TYPE" /\ The.generators = <<"java">>
        /\ The.granularity # "PER_PACKAGE" /\ The.granularity # "PER_FILE"
    BY <1>5 DEF TypeFormat
  <2>2. PICK A, B, C :
          /\ A = (IF n.names # <<>> THEN PerType(n) ELSE {})
          /\ B = UNION {PerType(f) : f \in InterfaceFiles(n)}
          /\ C = (IF Dotted(n) THEN {n} ELSE {})
    OBVIOUS
  <2>3. AllTargets(n) = A \cup B
    BY <2>1, <2>2 DEF AllTargets
  <2>4. Units(n) = B \cup C
    <3>1. Units(n) = (UNION {TypesOf(f) : f \in InterfaceFiles(n)}) \cup C
      BY <2>1, <2>2 DEF Units
    <3>2. \A f \in InterfaceFiles(n) : PerType(f) = TypesOf(f)
      BY <1>3, PerTypeFacts
    <3>3. UNION {TypesOf(f) : f \in InterfaceFiles(n)} = B
      BY <2>2, <3>2
    <3> QED BY <3>1, <3>3
  <2>5. ASSUME n \in DOMAIN tree PROVE A \subseteq B /\ C = {}
    <3>1. n \in InterfaceFiles(n)
      BY <2>5 DEF InterfaceFiles
    <3>2. PerType(n) \subseteq B
      BY <2>2, <3>1
    <3>3. ~ Dotted(n)
      BY <2>5, TreeFacts, OneComponent
    <3> QED BY <2>2, <3>2, <3>3
  <2>6. CASE n.names = <<>>
    <3>1. A = {} /\ C = {}
      BY <2>2, <2>6 DEF Dotted
    <3> QED BY <2>3, <2>4, <3>1
  <2>7. CASE n \in DOMAIN tree
    BY <2>3, <2>4, <2>5, <2>7
  <2>8. CASE n.names # <<>> /\ n \notin DOMAIN tree
    <3>1. A = {n}
      BY <1>5, <2>2, <2>8, NamedTarget
    <3>2. <<"java", n>> \in Jobs(n)
      <4>1. "java" \in ToSet(The.generators)
        BY <2>1 DEF ToSet
      <4>2. shouldGenerate("java", n)
        BY DEF shouldGenerate, ForInterfaces
      <4> QED BY <2>3, <3>1, <4>1, <4>2 DEF Jobs
    <3>3. TopLevelType(n) \in DOMAIN tree
      <4>1. Sources("java", n) \subseteq DOMAIN tree
        BY <3>2
      <4> QED BY <2>8, <4>1 DEF Sources, SourcesOf
    <3>4. Dotted(n)
      <4>1. SUFFICES ASSUME ~ Dotted(n) PROVE FALSE
        OBVIOUS
      <4>2. PICK s, D : s = n.names /\ D = DOMAIN Spelling
        OBVIOUS
      <4>3. s \in Seq(D) /\ s # <<>> /\ ~ (Len(s) > 1)
        BY <1>2, <2>8, <4>1, <4>2, NameFacts DEF Dotted
      <4>4. Len(s) = 1
        BY <4>3, LengthOne
      <4>5. TopLevelType(n) = n
        BY <1>2, <4>2, <4>4, OneComponent
      <4> QED BY <2>8, <3>3, <4>5
    <3>5. C = {n}
      BY <2>2, <3>4
    <3> QED BY <2>3, <2>4, <3>1, <3>5
  <2> QED BY <2>6, <2>7, <2>8
<1> QED BY <1>4, <1>5, TheFormat

-----------------------------------------------------------------------------
(* The invariant, first of the inputs, the caches and the targets.         *)

Generators == OfFiles \cup OfPackages \cup {"java"}

Started == pc \notin {"options", "exit1"}
InArgument == pc \in {"open", "write", "aborted"}

\* The inputs, and the options once they are read.
InputsInv ==
  /\ tree \in Trees /\ cmd \in CommandLines
  /\ next \in Nat \ {0}
  /\ "L" \in DOMAIN opts /\ opts.L \in DOMAIN Formats \cup {NoValue}
  /\ Started => opts.L \in DOMAIN Formats /\ next - 1 \in 0 .. Len(cmd.args)
  /\ pc = "exit0" => next = Len(cmd.args) + 1

\* What an argument that is accepted is, and for Java sources of a package
\* what has been found of all that it imports.
Judged(n) ==
  opts.L = "java" /\ n.names = <<>> => \A f \in WithImports(InterfaceFiles(n)) : tree[f].java
ArgumentInv ==
  /\ pc = "targets" \/ InArgument =>
       next \in DOMAIN cmd.args /\ Fits(Argument) /\ Judged(Argument)
  /\ Started => \A i \in 1 .. (next - 1) : Judged(cmd.args[i])

CacheInv == Sound(cached) /\ cached \subseteq readFiles

\* Where OutputHandler::generate is.
TargetsInv ==
  InArgument =>
    /\ targets \in Seq(FullName) /\ ToSet(targets) = AllTargets(Argument)
    /\ The.granularity = "PER_TYPE" => ListedTypes(Argument) \subseteq cached
    /\ at \in [target : 1 .. (Len(targets) + 1), file : 1 .. Len(The.generators)]
    /\ pc # "open" => at.target # Len(targets) + 1 /\ shouldGenerate(Generator, Target)

RunInv == InputsInv /\ ArgumentInv /\ CacheInv /\ TargetsInv

LEMMA SameTree ==
    ASSUME UNCHANGED tree
    PROVE  /\ \A p : InterfaceFiles(p)' = InterfaceFiles(p)
           /\ \A fs : Sound(fs)' <=> Sound(fs)
           /\ \A g, u : Sources(g, u)' = Sources(g, u)
           /\ \A f : PerType(f)' = PerType(f)
           /\ \A f : TypesOf(f)' = TypesOf(f)
           /\ \A fs : WithImports(fs)' = WithImports(fs)
           /\ \A fs : ReachFrom(fs)' = ReachFrom(fs)
<1>1. \A p : InterfaceFiles(p)' = InterfaceFiles(p)
  BY DEF InterfaceFiles
<1>2. \A f : Direct(f)' = Direct(f)
  BY DEF Direct, Exists
<1>3. \A fs : Sound(fs)' <=> Sound(fs)
  BY <1>2 DEF Sound
<1>4. \A g, u : Sources(g, u)' = Sources(g, u)
  BY <1>1 DEF Sources, SourcesOf
<1>5. \A f : PerType(f)' = PerType(f) /\ TypesOf(f)' = TypesOf(f)
  BY DEF PerType, TypesOf
<1>6. \A fs : WithImports(fs)' = WithImports(fs)
  <2>1. ASSUME NEW fs PROVE WithImports(fs)' = WithImports(fs)
    <3>1. \A f \in DOMAIN tree : UNION {InterfaceFiles(g)' : g \in tree[f].imports}
                                   = UNION {InterfaceFiles(g) : g \in tree[f].imports}
      BY <1>1
    <3>2. [f \in DOMAIN tree |-> UNION {InterfaceFiles(g)' : g \in tree[f].imports}]
            = [f \in DOMAIN tree |-> UNION {InterfaceFiles(g) : g \in tree[f].imports}]
      BY <3>1
    <3> QED BY <3>2 DEF WithImports
  <2> QED BY <2>1
<1>7. \A fs : ReachFrom(fs)' = ReachFrom(fs)
  <2>1. ASSUME NEW fs PROVE ReachFrom(fs)' = ReachFrom(fs)
    <3>1. Mentioned(fs)' = Mentioned(fs)
      BY DEF Mentioned
    <3>2. [f \in Mentioned(fs) |-> Direct(f)'] = [f \in Mentioned(fs) |-> Direct(f)]
      BY <1>2
    <3> QED BY <3>1, <3>2 DEF ReachFrom
  <2> QED BY <2>1
<1> QED BY <1>1, <1>3, <1>4, <1>5, <1>6, <1>7

LEMMA SameOptions ==
    ASSUME UNCHANGED tree, opts.L' = opts.L
    PROVE  /\ The' = The /\ Writes' = Writes
           /\ \A n : Fits(n)' <=> Fits(n)
           /\ \A n : Judged(n)' <=> Judged(n)
           /\ \A n : AllTargets(n)' = AllTargets(n)
           /\ \A n : Units(n)' = Units(n)
           /\ \A n : Asked(n)' = Asked(n)
           /\ \A g, n : Path(g, n)' = Path(g, n)
           /\ \A n : ListedTypes(n)' = ListedTypes(n)
<1>1. The' = The /\ Writes' = Writes
  BY DEF The, Writes
<1>2. \A n : Fits(n)' <=> Fits(n)
  BY <1>1 DEF Fits
<1>3. \A n : Judged(n)' <=> Judged(n)
  BY SameTree DEF Judged
<1>4. \A n : Listed(n)' = Listed(n) /\ ListedTypes(n)' = ListedTypes(n)
  BY SameTree DEF Listed, ListedTypes
<1>5. ASSUME NEW n PROVE AllTargets(n)' = AllTargets(n)
  <2>1. UNION {PerType(f)' : f \in InterfaceFiles(n)} = UNION {PerType(f) : f \in InterfaceFiles(n)}
    BY SameTree
  <2>2. InterfaceFiles(n)' = InterfaceFiles(n) /\ PerType(n)' = PerType(n)
    BY SameTree
  <2> QED BY <1>1, <1>4, <2>1, <2>2 DEF AllTargets
<1>6. ASSUME NEW n PROVE Units(n)' = Units(n)
  <2>1. UNION {TypesOf(f)' : f \in InterfaceFiles(n)} = UNION {TypesOf(f) : f \in InterfaceFiles(n)}
    BY SameTree
  <2>2. InterfaceFiles(n)' = InterfaceFiles(n)
    BY SameTree
  <2> QED BY <1>1, <1>4, <2>1, <2>2 DEF Units
<1>7. \A n : Asked(n)' = Asked(n)
  BY <1>1, <1>6 DEF Asked
<1>8. \A g, n : Path(g, n)' = Path(g, n)
  BY <1>1 DEF Path
<1> QED BY <1>1, <1>2, <1>3, <1>4, <1>5, <1>6, <1>7, <1>8

LEMMA GeneratorFacts ==
    ASSUME NEW n, Fits(n)
    PROVE  /\ The.generators \in Seq(Generators) /\ Len(The.generators) \in Nat \ {0}
           /\ "java" \in ToSet(The.generators) => TypeFormat(The) /\ opts.L = "java"
<1>1. ASSUME NEW S, NEW s \in Seq(S), NEW T, S \subseteq T, s # <<>>
      PROVE  s \in Seq(T) /\ Len(s) \in Nat \ {0} /\ \A x \in ToSet(s) : x \in S
  <2>1. s \in Seq(T)
    BY <1>1
  <2>2. Len(s) \in Nat \ {0}
    BY <1>1
  <2>3. \A x \in ToSet(s) : x \in S
    BY DEF ToSet
  <2> QED BY <2>1, <2>2, <2>3
<1>2. OfFiles \subseteq Generators /\ OfPackages \subseteq Generators /\ {"java"} \subseteq Generators
  BY DEF Generators
<1>3. "java" \notin OfFiles /\ "java" \notin OfPackages
  BY DEF OfFiles, OfPackages
<1>4. CASE FileFormat(The)
  BY <1>1, <1>2, <1>3, <1>4 DEF FileFormat
<1>5. CASE PackageFormat(The)
  BY <1>1, <1>2, <1>3, <1>5 DEF PackageFormat
<1>6. CASE opts.L = "java" /\ TypeFormat(The)
  <2>1. <<"java">> \in Seq({"java"}) /\ <<"java">> # <<>>
    OBVIOUS
  <2> QED BY <1>1, <1>2, <1>6, <2>1 DEF TypeFormat
<1> QED BY <1>4, <1>5, <1>6, TheFormat

LEMMA RunInit == Init => RunInv
<1> SUFFICES ASSUME Init PROVE RunInv
  OBVIOUS
<1>1. InputsInv
  BY DEF Init, InputsInv, Started
<1>2. ArgumentInv /\ TargetsInv
  BY DEF Init, ArgumentInv, TargetsInv, InArgument, Started
<1>3. CacheInv
  BY DEF Init, CacheInv, Sound
<1> QED BY <1>1, <1>2, <1>3 DEF RunInv

\* Where a run ends early, of the invariant only the caches are left.
LEMMA RunFails ==
    ASSUME RunInv, UNCHANGED <<tree, cmd, next, opts, cached, readFiles>>, pc' = "exit1"
    PROVE  RunInv'
<1>1. InputsInv'
  BY DEF RunInv, InputsInv, Started
<1>2. ArgumentInv' /\ TargetsInv'
  BY DEF ArgumentInv, TargetsInv, InArgument, Started
<1>3. CacheInv'
  BY SameTree DEF RunInv, CacheInv
<1> QED BY <1>1, <1>2, <1>3 DEF RunInv

LEMMA RunReadOption == ASSUME RunInv, ReadOption PROVE RunInv'
<1>1. pc = "options" /\ UNCHANGED <<tree, cmd, cached, readFiles>>
  BY DEF ReadOption, inputs, work
<1>2. pc' \in {"options", "exit1"}
  BY <1>1 DEF ReadOption
<1>3. next' \in Nat \ {0}
  BY DEF ReadOption, RunInv, InputsInv
<1>4. "L" \in DOMAIN opts' /\ opts'.L \in DOMAIN Formats \cup {NoValue}
  <2>1. "L" \in DOMAIN opts /\ opts.L \in DOMAIN Formats \cup {NoValue}
    BY DEF RunInv, InputsInv
  <2>2. PICK o : o = cmd.options[next]
    OBVIOUS
  <2>3. CASE BadOption(o)
    BY <2>1, <2>2, <2>3 DEF ReadOption
  <2>4. CASE ~ BadOption(o) /\ o.key = "r"
    <3>1. opts' = [opts EXCEPT !.roots = opts.roots \cup {o.value}]
      BY <2>2, <2>4 DEF ReadOption
    <3> QED BY <2>1, <3>1
  <2>5. CASE ~ BadOption(o) /\ o.key # "r"
    <3>1. opts' = [opts EXCEPT ![o.key] = o.value]
      BY <2>2, <2>5 DEF ReadOption
    <3>2. o.key = "L" => o.value \in DOMAIN Formats
      BY <2>5 DEF BadOption
    <3>3. PICK k, v : k = o.key /\ v = o.value
      OBVIOUS
    <3>4. opts' = [opts EXCEPT ![k] = v] /\ (k = "L" => v \in DOMAIN Formats)
      BY <3>1, <3>2, <3>3
    <3> QED BY <2>1, <3>4
  <2> QED BY <2>3, <2>4, <2>5
<1>5. InputsInv'
  BY <1>1, <1>2, <1>3, <1>4 DEF InputsInv, Started, RunInv
<1>6. ArgumentInv' /\ TargetsInv'
  BY <1>2 DEF ArgumentInv, TargetsInv, InArgument, Started
<1>7. CacheInv'
  BY <1>1, SameTree DEF RunInv, CacheInv
<1> QED BY <1>5, <1>6, <1>7 DEF RunInv

LEMMA ArgumentsFacts ==
    ASSUME cmd \in CommandLines
    PROVE  cmd.args \in Seq(FullName) /\ Len(cmd.args) \in Nat /\ DOMAIN cmd.args = 1 .. Len(cmd.args)
<1>1. cmd.args \in Seq(FullName)
  BY InputAssumption DEF ArgumentAssumption
<1>2. PICK F, s : F = FullName /\ s = cmd.args
  OBVIOUS
<1>3. s \in Seq(F)
  BY <1>1, <1>2
<1>4. Len(s) \in Nat /\ DOMAIN s = 1 .. Len(s)
  BY <1>3
<1> QED BY <1>1, <1>2, <1>4

LEMMA RunConfigure == ASSUME RunInv, Configure PROVE RunInv'
<1>1. pc = "options" /\ UNCHANGED <<tree, cmd, cached, readFiles>>
  BY DEF Configure, inputs, work
<1>2. CASE pc' = "exit1" /\ UNCHANGED <<next, opts>>
  BY <1>1, <1>2, RunFails
<1>3. CASE /\ ~ Once("L") /\ next' = 1 /\ pc' = "argument"
           /\ "L" \in DOMAIN opts' /\ opts'.L = opts.L
  <2>1. opts.L \in DOMAIN Formats
    BY <1>3 DEF RunInv, InputsInv, Once
  <2>2. cmd \in CommandLines /\ Len(cmd.args) \in Nat
    BY ArgumentsFacts DEF RunInv, InputsInv
  <2>3. next' \in Nat \ {0} /\ next' - 1 = 0 /\ 0 \in 0 .. Len(cmd.args) /\ 1 .. 0 = {}
    BY <1>3, <2>2
  <2>4. InputsInv'
    BY <1>1, <1>3, <2>1, <2>3 DEF RunInv, InputsInv, Started
  <2>5. ArgumentInv' /\ TargetsInv'
    BY <1>3, <2>3 DEF ArgumentInv, TargetsInv, InArgument, Started
  <2>6. CacheInv'
    BY <1>1, SameTree DEF RunInv, CacheInv
  <2> QED BY <2>4, <2>5, <2>6 DEF RunInv
<1>4. CASE ~ (pc' = "exit1" /\ UNCHANGED <<next, opts>>)
  <2>1. PICK r, p, o : opts' = [opts EXCEPT !.roots = r, !.p = p, !.o = o]
    <3>1. PICK r, p, o :
             /\ r = AddDefaults(opts.roots) /\ p = Root
             /\ o = LET mode == IF Once("L") THEN NoValue ELSE Formats[opts.L].mode
                    IN IF mode = "NOT_NEEDED" THEN NoValue ELSE IF Once("o") THEN Root ELSE opts.o
      OBVIOUS
    <3>2. opts' = [opts EXCEPT !.roots = r, !.p = p, !.o = o]
      BY <1>4, <3>1 DEF Configure
    <3> QED BY <3>2
  <2>2. "L" \in DOMAIN opts
    BY DEF RunInv, InputsInv
  <2>3. "L" \in DOMAIN opts' /\ opts'.L = opts.L
    BY <2>1, <2>2
  <2>4. ~ Once("L") /\ next' = 1 /\ pc' = "argument"
    BY <1>4 DEF Configure
  <2> QED BY <1>3, <2>3, <2>4
<1> QED BY <1>2, <1>4

LEMMA ReadsFacts ==
    ASSUME CacheInv, tree' = tree, NEW files, Reads(files), Sound(files)
    PROVE  CacheInv'
<1>1. cached' = files /\ readFiles' = readFiles \cup (files \ cached)
  BY DEF Reads
<1>2. cached' \subseteq readFiles'
  BY <1>1 DEF CacheInv
<1>3. Sound(files)'
  BY SameTree
<1> QED BY <1>1, <1>2, <1>3 DEF CacheInv

LEMMA AcceptedFacts ==
    ASSUME tree \in Trees, Sound(cached), opts.L \in DOMAIN Formats, NEW n \in FullName, Accepted(n)
    PROVE  /\ Fits(n) /\ Judged(n)
           /\ Sound(CheckedFiles(n)) /\ cached \subseteq CheckedFiles(n)
<1>1. PICK done : done = AfterParsing(VerboseFiles(n), cached, "FULL")
  OBVIOUS
<1>2. Sound(done) /\ cached \subseteq done
  BY <1>1, ParsingKeepsSound DEF Accepted
<1>3. Valid(n, done)
  BY <1>1 DEF Accepted
<1>4. /\ The.validate # "never"
      /\ The.validate = "package" => n.names = <<>>
      /\ The.validate = "source" =>
           /\ Dotted(n) => opts.L = "java" /\ IsTypesName(n)
           /\ AsksJava(n) => isPackageJavaCompatible(n, done).verdict = "compatible"
  BY <1>3 DEF Valid
<1>5. Fits(n)
  BY <1>4 DEF Fits
<1>6. Judged(n)
  <2>1. SUFFICES ASSUME opts.L = "java", n.names = <<>>
                 PROVE  \A f \in WithImports(InterfaceFiles(n)) : tree[f].java
    BY DEF Judged
  <2>2. The.validate = "source"
    BY <1>5, <2>1, TheFormat DEF TypeFormat
  <2>3. isPackageJavaCompatible(n, done).verdict = "compatible"
    BY <1>4, <2>1, <2>2 DEF AsksJava
  <2> QED BY <1>2, <2>3, JudgeFacts
<1>7. Sound(CheckedFiles(n)) /\ cached \subseteq CheckedFiles(n)
  <2>1. /\ Sound(isPackageJavaCompatible(n, done).done)
        /\ done \subseteq isPackageJavaCompatible(n, done).done
    BY <1>2, JudgeFacts
  <2>2. CheckedFiles(n) = IF AsksJava(n) THEN isPackageJavaCompatible(n, done).done ELSE done
    BY <1>1 DEF CheckedFiles
  <2> QED BY <1>2, <2>1, <2>2
<1> QED BY <1>5, <1>6, <1>7

\* The argument that is at hand.
LEMMA AtArgument ==
    ASSUME RunInv, next \in DOMAIN cmd.args
    PROVE  Argument \in FullName
<1>1. cmd.args \in Seq(FullName) /\ DOMAIN cmd.args = 1 .. Len(cmd.args)
  BY ArgumentsFacts DEF RunInv, InputsInv
<1>2. PICK F, s : F = FullName /\ s = cmd.args
  OBVIOUS
<1>3. s \in Seq(F) /\ next \in DOMAIN s
  BY <1>1, <1>2
<1>4. s[next] \in F
  BY <1>3
<1> QED BY <1>2, <1>4 DEF Argument

LEMMA RunCheckArgument == ASSUME RunInv, CheckArgument PROVE RunInv'
<1>1. /\ pc = "argument" /\ next \in DOMAIN cmd.args
      /\ UNCHANGED <<tree, cmd, next, opts>>
  BY DEF CheckArgument, inputs
<1>2. CASE ~ Accepted(Argument)
  BY <1>1, <1>2, RunFails DEF CheckArgument
<1>3. CASE Accepted(Argument)
  <2>1. pc' = "targets" /\ Reads(CheckedFiles(Argument))
    BY <1>3 DEF CheckArgument
  <2>2. /\ Fits(Argument) /\ Judged(Argument)
        /\ Sound(CheckedFiles(Argument)) /\ cached \subseteq CheckedFiles(Argument)
    <3>1. tree \in Trees /\ Sound(cached) /\ opts.L \in DOMAIN Formats
      BY <1>1 DEF RunInv, InputsInv, CacheInv, Started
    <3> QED BY <1>1, <1>3, <3>1, AtArgument, AcceptedFacts
  <2>3. InputsInv'
    BY <1>1, <2>1 DEF RunInv, InputsInv, Started
  <2>4. CacheInv'
    BY <1>1, <2>1, <2>2, ReadsFacts DEF RunInv
  <2>5. Argument' = Argument /\ opts.L' = opts.L
    BY <1>1 DEF Argument
  <2>6. \A n : (Fits(n)' <=> Fits(n)) /\ (Judged(n)' <=> Judged(n))
    BY <1>1, <2>5, SameOptions
  <2>7. ArgumentInv'
    <3>1. \A i \in 1 .. (next - 1) : Judged(cmd.args[i])
      BY <1>1 DEF RunInv, ArgumentInv, Started
    <3>2. \A i \in 1 .. (next - 1)' : Judged(cmd.args[i])'
      BY <1>1, <2>6, <3>1
    <3> QED BY <1>1, <2>2, <2>5, <2>6, <3>2 DEF ArgumentInv
  <2>8. TargetsInv'
    BY <2>1 DEF TargetsInv, InArgument
  <2> QED BY <2>3, <2>4, <2>7, <2>8 DEF RunInv
<1> QED BY <1>2, <1>3

\* Where the argument stays the same.
LEMMA SameArgument ==
    ASSUME RunInv, UNCHANGED <<tree, cmd, next, opts>>, pc = "targets" \/ InArgument, InArgument'
    PROVE  InputsInv' /\ ArgumentInv' /\ Argument' = Argument /\ The' = The
<1>1. Argument' = Argument /\ opts.L' = opts.L
  BY DEF Argument
<1>2. \A n : (Fits(n)' <=> Fits(n)) /\ (Judged(n)' <=> Judged(n))
  BY <1>1, SameOptions
<1>3. Started /\ Started' /\ pc' # "exit0"
  BY DEF Started, InArgument
<1>4. ArgumentInv'
  <2>1. \A i \in 1 .. (next - 1)' : Judged(cmd.args[i])'
    BY <1>2, <1>3 DEF RunInv, ArgumentInv
  <2>2. next' \in DOMAIN cmd.args' /\ Fits(Argument)' /\ Judged(Argument)'
    BY <1>1, <1>2 DEF RunInv, ArgumentInv
  <2> QED BY <2>1, <2>2 DEF ArgumentInv
<1>5. InputsInv'
  BY <1>3 DEF RunInv, InputsInv
<1> QED BY <1>1, <1>4, <1>5, SameOptions

LEMMA RunAppendTargets == ASSUME RunInv, AppendTargets PROVE RunInv'
<1>1. pc = "targets" /\ UNCHANGED <<tree, cmd, next, opts>>
  BY DEF AppendTargets, inputs
<1> DEFINE Bad == The.granularity = "PER_TYPE" /\ ~ ParsesAll(ListedTypes(Argument), cached, "FULL")
<1>2. CASE Bad
  BY <1>1, <1>2, RunFails DEF AppendTargets
<1>3. CASE ~ Bad
  <2>1. /\ targets' = TargetsOf(Argument) /\ at' = [target |-> 1, file |-> 1] /\ pc' = "open"
        /\ IF The.granularity = "PER_TYPE"
           THEN Reads(AfterParsing(ListedTypes(Argument), cached, "FULL"))
           ELSE UNCHANGED <<cached, readFiles>>
    BY <1>3 DEF AppendTargets
  <2>2. InArgument'
    BY <2>1 DEF InArgument
  <2>3. InputsInv' /\ ArgumentInv' /\ Argument' = Argument /\ The' = The
    BY <1>1, <2>2, SameArgument
  <2>4. tree \in Trees /\ Sound(cached) /\ CacheInv /\ Fits(Argument)
    BY <1>1 DEF RunInv, InputsInv, CacheInv, ArgumentInv
  <2>5. CacheInv' /\ (The.granularity = "PER_TYPE" => ListedTypes(Argument) \subseteq cached')
    <3>1. CASE The.granularity = "PER_TYPE"
      <4>1. PICK fs, files : fs = ListedTypes(Argument) /\ files = AfterParsing(fs, cached, "FULL")
        OBVIOUS
      <4>2. ParsesAll(fs, cached, "FULL") /\ Reads(files)
        BY <1>3, <2>1, <3>1, <4>1
      <4>3. Sound(files) /\ fs \subseteq files
        BY <2>4, <4>1, <4>2, ParsingKeepsSound
      <4>4. CacheInv'
        BY <1>1, <2>4, <4>2, <4>3, ReadsFacts
      <4> QED BY <4>1, <4>2, <4>3, <4>4 DEF Reads
    <3>2. CASE The.granularity # "PER_TYPE"
      BY <1>1, <2>1, <2>4, <3>2, SameTree DEF CacheInv
    <3> QED BY <3>1, <3>2
  <2>6. TypesAreThere(Argument)
    <3>1. Sound(cached')
      BY <1>1, <2>5, SameTree DEF CacheInv
    <3> QED BY <2>5, <3>1 DEF TypesAreThere, Sound
  <2>7. targets' \in Seq(FullName) /\ ToSet(targets') = AllTargets(Argument)
    BY <2>1, <2>4, <2>6, TargetsFacts
  <2>8. opts.L' = opts.L
    BY <1>1
  <2>9. AllTargets(Argument)' = AllTargets(Argument) /\ ListedTypes(Argument)' = ListedTypes(Argument)
    BY <1>1, <2>3, <2>8, SameOptions
  <2>10. at' \in [target : 1 .. (Len(targets') + 1), file : 1 .. Len(The'.generators)]
    <3>1. Len(The.generators) \in Nat \ {0}
      BY <2>4, GeneratorFacts
    <3>2. Len(targets') \in Nat
      <4>1. PICK F, s : F = FullName /\ s = targets'
        OBVIOUS
      <4>2. s \in Seq(F)
        BY <2>7, <4>1
      <4>3. Len(s) \in Nat
        BY <4>2
      <4> QED BY <4>1, <4>3
    <3>3. 1 \in 1 .. (Len(targets') + 1) /\ 1 \in 1 .. Len(The.generators)
      BY <3>1, <3>2
    <3> QED BY <2>1, <2>3, <3>3
  <2>11. TargetsInv'
    BY <2>1, <2>3, <2>5, <2>7, <2>9, <2>10 DEF TargetsInv
  <2> QED BY <2>3, <2>5, <2>11 DEF RunInv
<1> QED BY <1>2, <1>3

\* What is known of a target that is being generated.
LEMMA AtTarget ==
    ASSUME RunInv, InArgument, ~ AllGenerated
    PROVE  /\ at.target \in DOMAIN targets /\ at.file \in DOMAIN The.generators
           /\ Target \in AllTargets(Argument) /\ Target \in FullName
           /\ Generator \in ToSet(The.generators) /\ Generator \in Generators
           /\ tree \in Trees /\ Fits(Argument) /\ TypesAreThere(Argument)
           /\ Parsed(Generator, Target) = Sources(Generator, Target)
<1>1. /\ tree \in Trees /\ Fits(Argument) /\ Sound(cached)
      /\ targets \in Seq(FullName) /\ ToSet(targets) = AllTargets(Argument)
      /\ The.granularity = "PER_TYPE" => ListedTypes(Argument) \subseteq cached
      /\ at \in [target : 1 .. (Len(targets) + 1), file : 1 .. Len(The.generators)]
  BY DEF RunInv, InputsInv, ArgumentInv, CacheInv, TargetsInv
<1>2. The.generators \in Seq(Generators)
  BY <1>1, GeneratorFacts
<1>3. PICK F, ts, G, gs, i, j :
        /\ F = FullName /\ ts = targets /\ G = Generators /\ gs = The.generators
        /\ i = at.target /\ j = at.file
  OBVIOUS
<1>4. ts \in Seq(F) /\ gs \in Seq(G) /\ i \in 1 .. (Len(ts) + 1) /\ j \in 1 .. Len(gs) /\ ~ (i > Len(ts))
  BY <1>1, <1>2, <1>3 DEF AllGenerated
<1>5. Len(ts) \in Nat /\ DOMAIN ts = 1 .. Len(ts) /\ DOMAIN gs = 1 .. Len(gs)
  BY <1>4
<1>6. i \in DOMAIN ts /\ j \in DOMAIN gs
  BY <1>4, <1>5
<1>7. ts[i] \in F /\ gs[j] \in G /\ ts[i] \in ToSet(ts) /\ gs[j] \in ToSet(gs)
  BY <1>4, <1>6 DEF ToSet
<1>8. TypesAreThere(Argument)
  BY <1>1 DEF TypesAreThere, Sound
<1>9. /\ Target \in AllTargets(Argument) /\ Target \in FullName
      /\ Generator \in ToSet(The.generators) /\ Generator \in Generators
  BY <1>1, <1>3, <1>7 DEF Target, Generator
<1>10. Parsed(Generator, Target) = Sources(Generator, Target)
  BY <1>1, <1>8, <1>9, TargetFacts
<1> QED BY <1>1, <1>3, <1>6, <1>8, <1>9, <1>10

LEMMA AdvanceFacts ==
    ASSUME RunInv, InArgument, ~ AllGenerated, Advance
    PROVE  at' \in [target : 1 .. (Len(targets) + 1), file : 1 .. Len(The.generators)]
<1>1. /\ targets \in Seq(FullName) /\ Fits(Argument)
      /\ at \in [target : 1 .. (Len(targets) + 1), file : 1 .. Len(The.generators)]
  BY DEF RunInv, ArgumentInv, TargetsInv
<1>2. PICK F, s, n, m : F = FullName /\ s = targets /\ n = Len(targets) /\ m = Len(The.generators)
  OBVIOUS
<1>3. n \in Nat
  <2>1. s \in Seq(F) /\ n = Len(s)
    BY <1>1, <1>2
  <2> QED BY <2>1
<1>4. m \in Nat \ {0}
  BY <1>1, <1>2, GeneratorFacts
<1>5. at \in [target : 1 .. (n + 1), file : 1 .. m] /\ ~ (at.target > n)
  BY <1>1, <1>2 DEF AllGenerated
<1>6. at.target \in 1 .. (n + 1) /\ at.file \in 1 .. m
  BY <1>5
<1>7. at' = IF at.file < m THEN [at EXCEPT !.file = at.file + 1]
            ELSE [target |-> at.target + 1, file |-> 1]
  BY <1>2 DEF Advance
<1>8. CASE at.file < m
  <2>1. at.file + 1 \in 1 .. m
    BY <1>4, <1>6, <1>8
  <2>2. at' = [at EXCEPT !.file = at.file + 1]
    BY <1>7, <1>8
  <2>3. at' \in [target : 1 .. (n + 1), file : 1 .. m]
    BY <1>5, <2>1, <2>2
  <2> QED BY <1>2, <2>3
<1>9. CASE ~ (at.file < m)
  <2>1. at.target + 1 \in 1 .. (n + 1) /\ 1 \in 1 .. m
    BY <1>3, <1>4, <1>5, <1>6
  <2>2. at' = [target |-> at.target + 1, file |-> 1]
    BY <1>7, <1>9
  <2>3. at' \in [target : 1 .. (n + 1), file : 1 .. m]
    BY <2>1, <2>2
  <2> QED BY <1>2, <2>3
<1> QED BY <1>8, <1>9

\* A step to the next file, from a cache that may have grown.
LEMMA RunAdvances ==
    ASSUME RunInv, InArgument, ~ AllGenerated, Advance, pc' = "open", CacheInv',
           cached \subseteq cached', UNCHANGED <<tree, cmd, next, opts, targets>>
    PROVE  RunInv'
<1>1. InArgument'
  BY DEF InArgument
<1>2. InputsInv' /\ ArgumentInv' /\ Argument' = Argument /\ The' = The
  BY <1>1, SameArgument
<1>3. at' \in [target : 1 .. (Len(targets) + 1), file : 1 .. Len(The.generators)]
  BY AdvanceFacts
<1>4. opts.L' = opts.L
  OBVIOUS
<1>5. AllTargets(Argument)' = AllTargets(Argument) /\ ListedTypes(Argument)' = ListedTypes(Argument)
  BY <1>2, <1>4, SameOptions
<1>6. /\ targets \in Seq(FullName) /\ ToSet(targets) = AllTargets(Argument)
      /\ The.granularity = "PER_TYPE" => ListedTypes(Argument) \subseteq cached
  BY DEF RunInv, TargetsInv
<1>7. TargetsInv'
  BY <1>2, <1>3, <1>5, <1>6 DEF TargetsInv
<1> QED BY <1>2, <1>7 DEF RunInv

LEMMA RunSkipGenerator == ASSUME RunInv, SkipGenerator PROVE RunInv'
<1>1. /\ pc = "open" /\ ~ AllGenerated /\ Advance
      /\ UNCHANGED <<tree, cmd, pc, next, opts, targets, cached, readFiles>>
  BY DEF SkipGenerator, inputs
<1>2. CacheInv'
  BY <1>1, SameTree DEF RunInv, CacheInv
<1> QED BY <1>1, <1>2, RunAdvances DEF InArgument

LEMMA WriteFacts ==
    ASSUME RunInv, pc \in {"write", "aborted"}
    PROVE  ~ AllGenerated /\ shouldGenerate(Generator, Target)
<1>1. /\ targets \in Seq(FullName)
      /\ at \in [target : 1 .. (Len(targets) + 1), file : 1 .. Len(The.generators)]
      /\ at.target # Len(targets) + 1 /\ shouldGenerate(Generator, Target)
  BY DEF RunInv, TargetsInv, InArgument
<1>2. PICK F, s : F = FullName /\ s = targets
  OBVIOUS
<1>3. s \in Seq(F)
  BY <1>1, <1>2
<1>4. Len(s) \in Nat
  BY <1>3
<1>5. at.target \in 1 .. (Len(s) + 1) /\ at.target # Len(s) + 1
  BY <1>1, <1>2
<1>6. ~ (at.target > Len(s))
  BY <1>4, <1>5
<1> QED BY <1>1, <1>2, <1>6 DEF AllGenerated

LEMMA RunStays ==
    ASSUME RunInv, InArgument, pc' \in {"write", "aborted"}, ~ AllGenerated,
           shouldGenerate(Generator, Target),
           UNCHANGED <<tree, cmd, next, opts, targets, at, cached, readFiles>>
    PROVE  RunInv'
<1>1. InArgument'
  BY DEF InArgument
<1>2. InputsInv' /\ ArgumentInv' /\ Argument' = Argument /\ The' = The
  BY <1>1, SameArgument
<1>3. CacheInv'
  BY SameTree DEF RunInv, CacheInv
<1>4. opts.L' = opts.L
  OBVIOUS
<1>5. AllTargets(Argument)' = AllTargets(Argument) /\ ListedTypes(Argument)' = ListedTypes(Argument)
  BY <1>2, <1>4, SameOptions
<1>6. /\ targets \in Seq(FullName) /\ ToSet(targets) = AllTargets(Argument)
      /\ The.granularity = "PER_TYPE" => ListedTypes(Argument) \subseteq cached
      /\ at \in [target : 1 .. (Len(targets) + 1), file : 1 .. Len(The.generators)]
  BY DEF RunInv, TargetsInv
<1>7. Generator' = Generator /\ Target' = Target
  BY <1>2 DEF Generator, Target
<1>8. at.target # Len(targets) + 1
  <2>1. at.target \in DOMAIN targets
    BY AtTarget
  <2>2. PICK F, s : F = FullName /\ s = targets
    OBVIOUS
  <2>3. s \in Seq(F) /\ at.target \in DOMAIN s
    BY <1>6, <2>1, <2>2
  <2>4. Len(s) \in Nat /\ DOMAIN s = 1 .. Len(s)
    BY <2>3
  <2>5. at.target # Len(s) + 1
    BY <2>3, <2>4
  <2> QED BY <2>2, <2>5
<1>9. TargetsInv'
  BY <1>2, <1>5, <1>6, <1>7, <1>8 DEF TargetsInv
<1> QED BY <1>2, <1>3, <1>9 DEF RunInv

LEMMA RunOpenOutput == ASSUME RunInv, OpenOutput PROVE RunInv'
<1>1. /\ pc = "open" /\ ~ AllGenerated /\ shouldGenerate(Generator, Target) /\ pc' = "write"
      /\ UNCHANGED <<tree, cmd, next, opts, targets, at, cached, readFiles>>
  BY DEF OpenOutput, inputs
<1> QED BY <1>1, RunStays DEF InArgument

\* What is parsed for a file.
LEMMA ParsedFacts ==
    ASSUME RunInv, pc = "write", ~ Fails
    PROVE  /\ Sound(AllParsed) /\ cached \subseteq AllParsed
           /\ Sources(Generator, Target) \subseteq AllParsed
<1>1. PICK fs, e, first : /\ fs = Parsed(Generator, Target) /\ e = Enforcement(Generator)
                          /\ first = AfterParsing(fs, cached, e)
  OBVIOUS
<1>2. tree \in Trees /\ Sound(cached)
  BY DEF RunInv, InputsInv, CacheInv
<1>3. ParsesAll(fs, cached, e)
  BY <1>1 DEF Fails
<1>4. Sound(first) /\ cached \subseteq first /\ fs \subseteq first
  BY <1>1, <1>2, <1>3, ParsingKeepsSound
<1>5. /\ Sound(isPackageJavaCompatible(Target, first).done)
      /\ first \subseteq isPackageJavaCompatible(Target, first).done
  BY <1>2, <1>4, JudgeFacts
<1>6. AllParsed = IF Generator = "androidbp" THEN isPackageJavaCompatible(Target, first).done ELSE first
  BY <1>1 DEF AllParsed, FirstParsed
<1>7. fs = Sources(Generator, Target)
  BY <1>1, WriteFacts, AtTarget DEF InArgument
<1> QED BY <1>4, <1>5, <1>6, <1>7

LEMMA RunWriteOutput == ASSUME RunInv, WriteOutput PROVE RunInv'
<1>1. pc = "write" /\ UNCHANGED <<tree, cmd, next, opts, targets>>
  BY DEF WriteOutput, inputs
<1>2. InArgument /\ ~ AllGenerated /\ shouldGenerate(Generator, Target)
  BY <1>1, WriteFacts DEF InArgument
<1>3. CASE Fails
  BY <1>1, <1>3, RunFails DEF WriteOutput
<1>4. CASE ~ Fails /\ ~ JavaCheck(Generator, Target)
  <2>1. pc' = "aborted" /\ UNCHANGED <<at, cached, readFiles>>
    BY <1>4 DEF WriteOutput
  <2> QED BY <1>1, <1>2, <2>1, RunStays
<1>5. CASE ~ Fails /\ JavaCheck(Generator, Target)
  <2>1. Reads(AllParsed) /\ Advance /\ pc' = "open"
    BY <1>5 DEF WriteOutput
  <2>2. Sound(AllParsed) /\ cached \subseteq AllParsed
    BY <1>1, <1>5, ParsedFacts
  <2>3. CacheInv'
    BY <1>1, <2>1, <2>2, ReadsFacts DEF RunInv
  <2>4. cached \subseteq cached'
    BY <2>1, <2>2 DEF Reads
  <2> QED BY <1>1, <1>2, <2>1, <2>3, <2>4, RunAdvances
<1> QED BY <1>3, <1>4, <1>5

LEMMA RunWriteDepFile == ASSUME RunInv, WriteDepFile PROVE RunInv'
<1>1. /\ pc = "open" /\ next' = next + 1 /\ pc' = "argument"
      /\ UNCHANGED <<tree, cmd, opts, cached, readFiles>>
  BY DEF WriteDepFile, inputs
<1>2. /\ next \in DOMAIN cmd.args /\ Judged(Argument)
      /\ \A i \in 1 .. (next - 1) : Judged(cmd.args[i])
  BY <1>1 DEF RunInv, ArgumentInv, InArgument, Started
<1>3. next \in Nat \ {0} /\ next' \in Nat \ {0} /\ next' - 1 = next
  BY <1>1 DEF RunInv, InputsInv
<1>4. next \in 0 .. Len(cmd.args)
  <2>1. Len(cmd.args) \in Nat /\ DOMAIN cmd.args = 1 .. Len(cmd.args)
    BY ArgumentsFacts DEF RunInv, InputsInv
  <2> QED BY <1>2, <2>1
<1>5. InputsInv'
  BY <1>1, <1>3, <1>4 DEF RunInv, InputsInv, Started
<1>6. \A n : Judged(n)' <=> Judged(n)
  <2>1. opts.L' = opts.L
    BY <1>1
  <2> QED BY <1>1, <2>1, SameOptions
<1>7. \A i \in 1 .. next : Judged(cmd.args[i])
  <2>1. \A i \in 1 .. next : i = next \/ i \in 1 .. (next - 1)
    BY <1>3
  <2> QED BY <1>2, <2>1 DEF Argument
<1>8. ArgumentInv' /\ TargetsInv'
  BY <1>1, <1>3, <1>6, <1>7 DEF ArgumentInv, TargetsInv, InArgument
<1>9. CacheInv'
  BY <1>1, SameTree DEF RunInv, CacheInv
<1> QED BY <1>5, <1>8, <1>9 DEF RunInv

LEMMA RunExit == ASSUME RunInv, Exit PROVE RunInv'
<1>1. /\ pc = "argument" /\ next \notin DOMAIN cmd.args /\ pc' = "exit0"
      /\ UNCHANGED <<tree, cmd, next, opts, cached, readFiles>>
  BY DEF Exit, inputs, work
<1>2. next = Len(cmd.args) + 1
  <2>1. Len(cmd.args) \in Nat /\ DOMAIN cmd.args = 1 .. Len(cmd.args)
    BY ArgumentsFacts DEF RunInv, InputsInv
  <2>2. next \in Nat \ {0} /\ next - 1 \in 0 .. Len(cmd.args)
    BY <1>1 DEF RunInv, InputsInv, Started
  <2> QED BY <1>1, <2>1, <2>2
<1>3. InputsInv'
  BY <1>1, <1>2 DEF RunInv, InputsInv, Started
<1>4. \A n : Judged(n)' <=> Judged(n)
  <2>1. opts.L' = opts.L
    BY <1>1
  <2> QED BY <1>1, <2>1, SameOptions
<1>5. ArgumentInv' /\ TargetsInv'
  BY <1>1, <1>4 DEF RunInv, ArgumentInv, TargetsInv, InArgument, Started
<1>6. CacheInv'
  BY <1>1, SameTree DEF RunInv, CacheInv
<1> QED BY <1>3, <1>5, <1>6 DEF RunInv

LEMMA RunNext == RunInv /\ [Next]_vars => RunInv'
<1> SUFFICES ASSUME RunInv, [Next]_vars PROVE RunInv'
  OBVIOUS
<1>1. CASE CannotOpen
  BY <1>1, RunFails DEF CannotOpen, inputs, work
<1>2. CASE DepFileFails
  BY <1>2, RunFails DEF DepFileFails, inputs, work
<1>3. CASE UNCHANGED vars
  <2>1. UNCHANGED <<tree, cmd, pc, next, opts, targets, at, cached, readFiles>> /\ opts.L' = opts.L
    BY <1>3 DEF vars
  <2>2. InputsInv'
    BY <2>1 DEF RunInv, InputsInv, Started
  <2>3. CacheInv'
    BY <2>1, SameTree DEF RunInv, CacheInv
  <2>4. Argument' = Argument /\ The' = The
    BY <2>1 DEF Argument, The
  <2>5. Generator' = Generator /\ Target' = Target
    BY <2>1, <2>4 DEF Generator, Target
  <2>6. \A n : /\ (Fits(n)' <=> Fits(n)) /\ (Judged(n)' <=> Judged(n))
               /\ AllTargets(n)' = AllTargets(n) /\ ListedTypes(n)' = ListedTypes(n)
    BY <2>1, SameOptions
  <2>7. ArgumentInv'
    BY <2>1, <2>4, <2>6 DEF RunInv, ArgumentInv, InArgument, Started
  <2>8. TargetsInv'
    BY <2>1, <2>4, <2>5, <2>6 DEF RunInv, TargetsInv, InArgument
  <2> QED BY <2>2, <2>3, <2>7, <2>8 DEF RunInv
<1> QED BY <1>1, <1>2, <1>3, RunReadOption, RunConfigure, RunCheckArgument, RunAppendTargets,
           RunSkipGenerator, RunOpenOutput, RunWriteOutput, RunWriteDepFile, RunExit DEF Next

\* The invariant of the inputs, the caches and the targets holds in every run.
THEOREM RunInvHolds == Spec => []RunInv
BY RunInit, RunNext, PTL DEF Spec

-----------------------------------------------------------------------------
(* Java: the CHECKs of the generator fail for no package.                  *)

AbortInv == pc = "aborted" => opts.L = "java" /\ Argument.names # <<>>

LEMMA WithImportsHas ==
    ASSUME tree \in Trees, NEW fs, fs \subseteq DOMAIN tree
    PROVE  fs \subseteq WithImports(fs)
<1>1. PICK all, edges :
         /\ all = DOMAIN tree
         /\ edges = [f \in DOMAIN tree |-> UNION {InterfaceFiles(g) : g \in tree[f].imports}]
  OBVIOUS
<1>2. \A f \in all : edges[f] \in SUBSET all
  <2>1. \A g : InterfaceFiles(g) \in SUBSET DOMAIN tree
    BY DEF InterfaceFiles
  <2> QED BY <1>1, <2>1
<1>3. IsFiniteSet(all) /\ edges \in [all -> SUBSET all] /\ fs \in SUBSET all
  BY <1>1, <1>2, TreeFacts
<1>4. fs \subseteq Closure(fs, edges)
  BY <1>3, ClosureFacts
<1> QED BY <1>1, <1>4 DEF WithImports

\* A package that is judged passes the CHECKs, target by target.
LEMMA JudgedIsChecked ==
    ASSUME RunInv, pc = "write", Argument.names = <<>>
    PROVE  JavaCheck(Generator, Target)
<1> SUFFICES ASSUME Generator = "java"
             PROVE  /\ \A f \in Parsed(Generator, Target) : tree[f].java
                    /\ Dotted(Target) => Last(Target.names) \in tree[TypesForPackage(Target)].types
  BY DEF JavaCheck
<1>1. /\ tree \in Trees /\ Fits(Argument) /\ Target \in AllTargets(Argument)
      /\ Generator \in ToSet(The.generators) /\ TypesAreThere(Argument)
      /\ Parsed(Generator, Target) = Sources(Generator, Target)
  BY WriteFacts, AtTarget DEF InArgument
<1>2. TypeFormat(The) /\ opts.L = "java"
  BY <1>1, GeneratorFacts
<1>3. Judged(Argument)
  BY DEF RunInv, ArgumentInv, InArgument
<1>4. PICK f \in InterfaceFiles(Argument) : Target \in PerType(f)
  <2>1. AllTargets(Argument) = UNION {PerType(f) : f \in InterfaceFiles(Argument)}
    BY <1>2 DEF TypeFormat, AllTargets
  <2> QED BY <1>1, <2>1
<1>5. f \in DOMAIN tree
  BY DEF InterfaceFiles
<1>6. tree[f].java
  <2>1. InterfaceFiles(Argument) \subseteq DOMAIN tree
    BY DEF InterfaceFiles
  <2>2. InterfaceFiles(Argument) \subseteq WithImports(InterfaceFiles(Argument))
    BY <1>1, <2>1, WithImportsHas
  <2> QED BY <1>2, <1>3, <2>2 DEF Judged
<1>7. /\ TopLevelType(Target) = f /\ Target.names # <<>>
      /\ Dotted(Target) => TypesForPackage(Target) = f /\ Last(Target.names) \in tree[f].types
  BY <1>1, <1>4, <1>5, PerTypeFacts
<1>8. Parsed(Generator, Target) = {f}
  BY <1>1, <1>7 DEF Sources, SourcesOf
<1> QED BY <1>6, <1>7, <1>8

LEMMA AbortNext == RunInv /\ AbortInv /\ [Next]_vars => AbortInv'
<1> SUFFICES ASSUME RunInv, AbortInv, [Next]_vars, pc' = "aborted"
             PROVE  opts'.L = "java" /\ Argument'.names # <<>>
  BY DEF AbortInv
<1>1. CASE WriteOutput
  <2>1. pc = "write" /\ UNCHANGED <<cmd, next, opts>>
    BY <1>1 DEF WriteOutput, inputs
  <2>2. ~ JavaCheck(Generator, Target)
    BY <1>1 DEF WriteOutput
  <2>3. Generator = "java"
    BY <2>2 DEF JavaCheck
  <2>4. opts.L = "java"
    <3>1. Generator \in ToSet(The.generators) /\ Fits(Argument)
      BY <2>1, WriteFacts, AtTarget DEF InArgument
    <3> QED BY <2>3, <3>1, GeneratorFacts
  <2>5. Argument.names # <<>>
    BY <2>1, <2>2, JudgedIsChecked
  <2> QED BY <2>1, <2>4, <2>5 DEF Argument
<1>2. CASE UNCHANGED vars
  BY <1>2 DEF AbortInv, vars, Argument
<1>3. CASE ~ WriteOutput /\ ~ UNCHANGED vars
  <2>1. Next /\ ~ WriteOutput
    BY <1>3
  <2>2. ReadOption => pc' \in {"options", "exit1"}
    BY DEF ReadOption
  <2>3. Configure => pc' \in {"argument", "exit1"}
    BY DEF Configure
  <2>4. CheckArgument => pc' \in {"targets", "exit1"}
    BY DEF CheckArgument
  <2>5. AppendTargets => pc' \in {"open", "exit1"}
    BY DEF AppendTargets
  <2>6. SkipGenerator => pc' = "open"
    BY DEF SkipGenerator
  <2>7. OpenOutput => pc' = "write"
    BY DEF OpenOutput
  <2>8. CannotOpen \/ DepFileFails => pc' = "exit1"
    BY DEF CannotOpen, DepFileFails
  <2>9. WriteDepFile => pc' = "argument"
    BY DEF WriteDepFile
  <2>10. Exit => pc' = "exit0"
    BY DEF Exit
  <2> QED BY <2>1, <2>2, <2>3, <2>4, <2>5, <2>6, <2>7, <2>8, <2>9, <2>10 DEF Next
<1> QED BY <1>1, <1>2, <1>3

LEMMA JudgedAtEnd == RunInv /\ AbortInv => JavaIsJudged
<1> SUFFICES ASSUME RunInv, AbortInv, pc = "exit0", opts.L = "java",
                    NEW n \in Args, n.names = <<>>
             PROVE  \A f \in WithImports(InterfaceFiles(n)) : tree[f].java
  BY DEF JavaIsJudged, AbortInv
<1>1. next = Len(cmd.args) + 1 /\ cmd \in CommandLines
  BY DEF RunInv, InputsInv
<1>2. Len(cmd.args) \in Nat /\ DOMAIN cmd.args = 1 .. Len(cmd.args)
  BY <1>1, ArgumentsFacts
<1>3. PICK i \in 1 .. Len(cmd.args) : n = cmd.args[i]
  BY <1>2 DEF Args, ToSet
<1>4. i \in 1 .. (next - 1)
  BY <1>1, <1>2
<1>5. Judged(cmd.args[i])
  BY <1>4 DEF RunInv, ArgumentInv, Started
<1> QED BY <1>3, <1>5 DEF Judged

\* JavaIsJudged: Java sources are generated for a package only when all that it
\* imports, over any number of packages, is compatible with Java, and the
\* CHECKs of the Java generator fail for no package
\* (validateForSource, isPackageJavaCompatible, AST::generateJava).
THEOREM JavaIsJudgedHolds == Spec => []JavaIsJudged
<1>1. Init => AbortInv
  BY DEF Init, AbortInv
<1> QED BY <1>1, RunInit, RunNext, AbortNext, JudgedAtEnd, PTL DEF Spec

-----------------------------------------------------------------------------
(* What is on disk.                                                        *)

\* What is complete has its sources cached, and one file at most is not.
DiskInv ==
  /\ disk \in [DOMAIN disk -> [by : Generators \X FullName, complete : BOOLEAN]]
  /\ \A p \in DOMAIN disk :
       disk[p].complete => Sources(disk[p].by[1], disk[p].by[2]) \subseteq cached
  /\ \A p \in DOMAIN disk : ~ disk[p].complete => pc \in {"write", "exit1", "aborted"}
  /\ \A p, q \in DOMAIN disk : ~ disk[p].complete /\ ~ disk[q].complete => p = q
  /\ pc = "write" => \A p \in DOMAIN disk : ~ disk[p].complete => Writes /\ p = Path(Generator, Target)
  /\ pc = "write" /\ Writes => /\ Path(Generator, Target) \in DOMAIN disk
                              /\ disk[Path(Generator, Target)].by = <<Generator, Target>>

LEMMA CacheGrows ==
    ASSUME RunInv, [Next]_vars
    PROVE  cached \subseteq cached' /\ tree' = tree
<1>1. CASE CheckArgument
  <2>1. Accepted(Argument) => Reads(CheckedFiles(Argument))
    BY <1>1 DEF CheckArgument
  <2>2. ~ Accepted(Argument) => cached' = cached
    BY <1>1 DEF CheckArgument
  <2>3. Accepted(Argument) => cached \subseteq CheckedFiles(Argument)
    <3>1. pc = "argument" /\ next \in DOMAIN cmd.args
      BY <1>1 DEF CheckArgument
    <3>2. tree \in Trees /\ Sound(cached) /\ opts.L \in DOMAIN Formats
      BY <3>1 DEF RunInv, InputsInv, CacheInv, Started
    <3> QED BY <3>1, <3>2, AtArgument, AcceptedFacts
  <2>4. tree' = tree
    BY <1>1 DEF CheckArgument, inputs
  <2> QED BY <2>1, <2>2, <2>3, <2>4 DEF Reads
<1>2. CASE AppendTargets
  <2>1. \/ cached' = cached
        \/ cached' = AfterParsing(ListedTypes(Argument), cached, "FULL")
    BY <1>2 DEF AppendTargets, Reads
  <2>2. tree' = tree
    BY <1>2 DEF AppendTargets, inputs
  <2> QED BY <2>1, <2>2 DEF AfterParsing
<1>3. CASE WriteOutput
  <2>1. pc = "write" /\ tree' = tree
    BY <1>3 DEF WriteOutput, inputs
  <2>2. cached' = cached \/ (~ Fails /\ cached' = AllParsed)
    BY <1>3 DEF WriteOutput, Reads
  <2> QED BY <2>1, <2>2, ParsedFacts
<1>4. CASE UNCHANGED <<tree, cached>>
  BY <1>4
<1>5. CASE UNCHANGED vars
  BY <1>4, <1>5 DEF vars
<1>6. /\ ReadOption \/ Configure \/ CannotOpen \/ DepFileFails \/ Exit => UNCHANGED <<tree, cached>>
  BY DEF ReadOption, Configure, CannotOpen, DepFileFails, Exit, inputs, work
<1>7. SkipGenerator \/ OpenOutput \/ WriteDepFile => UNCHANGED <<tree, cached>>
  BY DEF SkipGenerator, OpenOutput, WriteDepFile, inputs
<1> QED BY <1>1, <1>2, <1>3, <1>4, <1>5, <1>6, <1>7 DEF Next

\* A step that leaves the disk alone.
LEMMA DiskStays ==
    ASSUME RunInv, DiskInv, [Next]_vars, disk' = disk, ~ (pc' = "write" /\ Writes'),
           \A p \in DOMAIN disk : ~ disk[p].complete => pc' \in {"exit1", "aborted"}
    PROVE  DiskInv'
<1>1. cached \subseteq cached' /\ tree' = tree
  BY CacheGrows
<1>2. \A g, u : Sources(g, u)' = Sources(g, u)
  BY <1>1, SameTree
<1>3. \A p \in DOMAIN disk : disk[p].complete => Sources(disk[p].by[1], disk[p].by[2]) \subseteq cached'
  BY <1>1 DEF DiskInv
<1>4. \A p \in DOMAIN disk : disk[p].complete => (Sources(disk[p].by[1], disk[p].by[2]))' \subseteq cached'
  BY <1>2, <1>3
<1>5. /\ disk \in [DOMAIN disk -> [by : Generators \X FullName, complete : BOOLEAN]]
      /\ \A p, q \in DOMAIN disk : ~ disk[p].complete /\ ~ disk[q].complete => p = q
  BY DEF DiskInv
<1>6. pc' = "write" => \A p \in DOMAIN disk : disk[p].complete
  OBVIOUS
<1> QED BY <1>4, <1>5, <1>6 DEF DiskInv

LEMMA DiskOpenOutput == ASSUME RunInv, DiskInv, OpenOutput PROVE DiskInv'
<1>1. /\ pc = "open" /\ ~ AllGenerated /\ pc' = "write"
      /\ UNCHANGED <<tree, cmd, next, opts, targets, at, cached>>
      /\ disk' = IF Writes THEN Emptied(Path(Generator, Target), <<Generator, Target>>) ELSE disk
  BY DEF OpenOutput, inputs
<1>2. \A p \in DOMAIN disk : disk[p].complete
  BY <1>1 DEF DiskInv
<1>3. CASE ~ Writes
  <2>1. disk' = disk
    BY <1>1, <1>3
  <2>2. [Next]_vars
    BY DEF Next
  <2>3. ~ Writes'
    BY <1>1, <1>3 DEF Writes, The
  <2> QED BY <1>2, <2>1, <2>2, <2>3, DiskStays
<1>4. CASE Writes
  <2>1. PICK path, by, new : /\ path = Path(Generator, Target) /\ by = <<Generator, Target>>
                             /\ new = [by |-> by, complete |-> FALSE]
    OBVIOUS
  <2>2. disk' = [p \in DOMAIN disk \cup {path} |-> IF p = path THEN new ELSE disk[p]]
    BY <1>1, <1>4, <2>1 DEF Emptied
  <2>3. PICK R : R = [by : Generators \X FullName, complete : BOOLEAN]
    OBVIOUS
  <2>4. new \in R /\ ~ new.complete
    <3>1. Generator \in Generators /\ Target \in FullName
      BY <1>1, AtTarget DEF InArgument
    <3> QED BY <2>1, <2>3, <3>1
  <2>5. disk \in [DOMAIN disk -> R]
    BY <2>3 DEF DiskInv
  <2>6. disk' \in [DOMAIN disk' -> R]
    BY <2>2, <2>4, <2>5
  <2>7. \A p \in DOMAIN disk' : (p = path /\ disk'[p] = new) \/ (p \in DOMAIN disk /\ disk'[p] = disk[p])
    BY <2>2
  <2>8. \A p \in DOMAIN disk' : ~ disk'[p].complete => p = path
    BY <1>2, <2>7
  <2>9. \A g, u : Sources(g, u)' = Sources(g, u)
    BY <1>1, SameTree
  <2>10. \A p \in DOMAIN disk' : disk'[p].complete => Sources(disk'[p].by[1], disk'[p].by[2]) \subseteq cached'
    BY <1>1, <2>4, <2>7 DEF DiskInv
  <2>11. \A p \in DOMAIN disk' : disk'[p].complete => (Sources(disk[p].by[1], disk[p].by[2]))' \subseteq cached'
    BY <2>9, <2>10
  <2>12. Writes' /\ Path(Generator, Target)' = path
    BY <1>1, <1>4, <2>1 DEF Writes, Path, Generator, Target, The
  <2>13. path \in DOMAIN disk' /\ disk'[path].by = <<Generator, Target>>'
    <3>1. Generator' = Generator /\ Target' = Target
      BY <1>1 DEF Generator, Target, The
    <3>2. path \in DOMAIN disk' /\ disk'[path] = new /\ new.by = by
      BY <2>1, <2>2
    <3> QED BY <2>1, <3>1, <3>2
  <2> QED BY <1>1, <2>3, <2>6, <2>8, <2>11, <2>12, <2>13 DEF DiskInv
<1> QED BY <1>3, <1>4

LEMMA DiskWriteOutput == ASSUME RunInv, DiskInv, WriteOutput PROVE DiskInv'
<1>1. pc = "write" /\ UNCHANGED <<tree, cmd, next, opts, targets>>
  BY DEF WriteOutput, inputs
<1>2. [Next]_vars
  BY DEF Next
<1>3. CASE Fails \/ ~ JavaCheck(Generator, Target)
  <2>1. pc' \in {"exit1", "aborted"} /\ disk' = disk
    BY <1>3 DEF WriteOutput
  <2> QED BY <1>2, <2>1, DiskStays
<1>4. CASE ~ Fails /\ JavaCheck(Generator, Target)
  <2>1. /\ disk' = IF Writes THEN Complete(Path(Generator, Target)) ELSE disk
        /\ cached' = AllParsed /\ pc' = "open"
    BY <1>4 DEF WriteOutput, Reads
  <2>2. CASE ~ Writes
    <3>1. \A p \in DOMAIN disk : disk[p].complete
      BY <1>1, <2>2 DEF DiskInv
    <3> QED BY <1>2, <2>1, <2>2, <3>1, DiskStays
  <2>3. CASE Writes
    <3>1. PICK path : path = Path(Generator, Target)
      OBVIOUS
    <3>2. disk' = [disk EXCEPT ![path].complete = TRUE]
      BY <2>1, <2>3, <3>1 DEF Complete
    <3>3. PICK R : R = [by : Generators \X FullName, complete : BOOLEAN]
      OBVIOUS
    <3>4. /\ disk \in [DOMAIN disk -> R]
          /\ path \in DOMAIN disk /\ disk[path].by = <<Generator, Target>>
      BY <1>1, <2>3, <3>1, <3>3 DEF DiskInv
    <3>5. PICK new : new = [disk[path] EXCEPT !.complete = TRUE]
      OBVIOUS
    <3>6. new \in R /\ new.complete /\ new.by = <<Generator, Target>>
      <4>1. disk[path] \in [by : Generators \X FullName, complete : BOOLEAN]
        BY <3>3, <3>4
      <4>2. new \in [by : Generators \X FullName, complete : BOOLEAN]
        BY <3>5, <4>1
      <4>3. new.complete /\ new.by = disk[path].by
        BY <3>5, <4>1
      <4> QED BY <3>3, <3>4, <4>2, <4>3
    <3>7. /\ DOMAIN disk' = DOMAIN disk
          /\ \A p \in DOMAIN disk' : disk'[p] = IF p = path THEN new ELSE disk[p]
      BY <3>2, <3>4, <3>5
    <3>8. disk' \in [DOMAIN disk' -> R]
      <4>1. disk' = [p \in DOMAIN disk |-> IF p = path THEN new ELSE disk[p]]
        BY <3>2, <3>4, <3>5
      <4> QED BY <3>4, <3>6, <4>1
    <3>9. \A p \in DOMAIN disk' : disk'[p].complete
      BY <1>1, <3>1, <3>6, <3>7 DEF DiskInv
    <3>10. \A p \in DOMAIN disk' : Sources(disk'[p].by[1], disk'[p].by[2]) \subseteq cached'
      <4>1. Sources(Generator, Target) \subseteq cached' /\ cached \subseteq cached'
        BY <1>1, <1>4, <2>1, ParsedFacts
      <4>2. Sources(new.by[1], new.by[2]) = Sources(Generator, Target)
        BY <3>6
      <4>3. ASSUME NEW p \in DOMAIN disk', p # path
            PROVE  Sources(disk'[p].by[1], disk'[p].by[2]) \subseteq cached'
        <5>1. p \in DOMAIN disk /\ disk'[p] = disk[p] /\ disk[p].complete
          BY <1>1, <3>1, <3>7, <4>3 DEF DiskInv
        <5>2. Sources(disk[p].by[1], disk[p].by[2]) \subseteq cached
          BY <5>1 DEF DiskInv
        <5> QED BY <4>1, <5>1, <5>2
      <4> QED BY <3>7, <4>1, <4>2, <4>3
    <3>11. \A g, u : Sources(g, u)' = Sources(g, u)
      BY <1>1, SameTree
    <3>12. \A p \in DOMAIN disk' : (Sources(disk[p].by[1], disk[p].by[2]))' \subseteq cached'
      BY <3>10, <3>11
    <3> QED BY <2>1, <3>3, <3>8, <3>9, <3>12 DEF DiskInv
  <2> QED BY <2>2, <2>3
<1> QED BY <1>3, <1>4

LEMMA DiskNext == RunInv /\ DiskInv /\ [Next]_vars => DiskInv'
<1> SUFFICES ASSUME RunInv, DiskInv, [Next]_vars PROVE DiskInv'
  OBVIOUS
<1>1. CASE UNCHANGED vars
  <2>1. /\ UNCHANGED <<tree, cmd, pc, next, opts, targets, at, disk, cached>>
        /\ UNCHANGED <<tree, disk, cached>> /\ opts.L' = opts.L
    BY <1>1 DEF vars
  <2>2. Generator' = Generator /\ Target' = Target /\ Writes' = Writes /\ The' = The
    BY <2>1 DEF Generator, Target, Writes, The
  <2>3. Path(Generator, Target)' = Path(Generator, Target)
    BY <2>2 DEF Path
  <2>4. \A g, u : Sources(g, u)' = Sources(g, u)
    BY <2>1, SameTree
  <2> QED BY <2>1, <2>2, <2>3, <2>4 DEF DiskInv
<1>2. CASE OpenOutput
  BY <1>2, DiskOpenOutput
<1>3. CASE WriteOutput
  BY <1>3, DiskWriteOutput
<1>4. CASE disk' = disk /\ pc \notin {"write", "exit1", "aborted"} /\ pc' # "write"
  <2>1. \A p \in DOMAIN disk : disk[p].complete
    BY <1>4 DEF DiskInv
  <2> QED BY <1>4, <2>1, DiskStays
<1>5. /\ ReadOption => disk' = disk /\ pc = "options" /\ pc' \in {"options", "exit1"}
      /\ Configure => disk' = disk /\ pc = "options" /\ pc' \in {"argument", "exit1"}
      /\ CannotOpen => disk' = disk /\ pc = "open" /\ pc' = "exit1"
      /\ DepFileFails => disk' = disk /\ pc = "open" /\ pc' = "exit1"
      /\ Exit => disk' = disk /\ pc = "argument" /\ pc' = "exit0"
  BY DEF ReadOption, Configure, CannotOpen, DepFileFails, Exit, work
<1>6. CheckArgument => disk' = disk /\ pc = "argument" /\ pc' \in {"targets", "exit1"}
  BY DEF CheckArgument
<1>7. AppendTargets => disk' = disk /\ pc = "targets" /\ pc' \in {"open", "exit1"}
  BY DEF AppendTargets
<1>8. /\ SkipGenerator => disk' = disk /\ pc = "open" /\ pc' = "open"
      /\ WriteDepFile => disk' = disk /\ pc = "open" /\ pc' = "argument"
  BY DEF SkipGenerator, WriteDepFile
<1>9. CASE Next /\ ~ OpenOutput /\ ~ WriteOutput
  BY <1>4, <1>5, <1>6, <1>7, <1>8, <1>9 DEF Next
<1> QED BY <1>1, <1>2, <1>3, <1>9

LEMMA OnePartial == RunInv /\ DiskInv => FailureLeavesOnePartial
<1> SUFFICES ASSUME RunInv, DiskInv PROVE FailureLeavesOnePartial
  OBVIOUS
<1>1. PICK partial : partial = {p \in DOMAIN disk : ~ disk[p].complete}
  OBVIOUS
<1>2. Cardinality(partial) <= 1
  <2>1. CASE partial = {}
    BY <2>1, FS_EmptySet
  <2>2. CASE partial # {}
    <3>1. PICK p : p \in partial
      BY <2>2
    <3>2. partial = {p}
      BY <1>1, <3>1 DEF DiskInv
    <3>3. Cardinality({p}) = 1
      BY FS_Singleton
    <3> QED BY <3>2, <3>3
  <2> QED BY <2>1, <2>2
<1>3. partial # {} => pc \in {"write", "exit1", "aborted"}
  BY <1>1 DEF DiskInv
<1>4. ASSUME NEW p \in DOMAIN disk \ partial, disk[p].by[1] # "adapterMain"
      PROVE  \A f \in ReachFrom(SourcesOf(disk[p].by[2])) : Exists(f) /\ tree[f].good
  <2>1. PICK fs : fs = SourcesOf(disk[p].by[2])
    OBVIOUS
  <2>2. disk[p].complete
    BY <1>1, <1>4
  <2>3. Sources(disk[p].by[1], disk[p].by[2]) = fs
    BY <1>4, <2>1 DEF Sources
  <2>4. fs \subseteq cached /\ Sound(cached) /\ tree \in Trees
    BY <2>2, <2>3 DEF DiskInv, RunInv, CacheInv, InputsInv
  <2>5. IsFiniteSet(fs)
    BY <2>1, <2>4, InterfaceFilesFacts, FS_Singleton DEF SourcesOf
  <2>6. ReachFrom(fs) \subseteq cached
    BY <2>4, <2>5, ReachInSound
  <2> QED BY <2>1, <2>4, <2>6 DEF Sound, Exists
<1> QED BY <1>1, <1>2, <1>3, <1>4 DEF FailureLeavesOnePartial

LEMMA DiskInit == Init => DiskInv
BY DEF Init, DiskInv

\* FailureLeavesOnePartial: whatever fails, at most one file is not complete,
\* the one that was being written, and all that is complete, for a file or for
\* a package, comes from sources that are good, but for the main of an adapter,
\* which reads none (FileGenerator::generate opens the output, then parses).
THEOREM FailureLeavesOnePartialHolds == Spec => []FailureLeavesOnePartial
BY RunInit, RunNext, DiskInit, DiskNext, OnePartial, PTL DEF Spec

-----------------------------------------------------------------------------
(* All that was asked for so far is there.                                 *)

Behind(i, j) == i < at.target \/ (i = at.target /\ j < at.file)

\* What is generated so far: of this argument, and with those before.
Generated ==
  {job \in Jobs(Argument) :
     \E i \in DOMAIN targets, j \in DOMAIN The.generators :
        Behind(i, j) /\ job = <<The.generators[j], targets[i]>>}
Finished ==
  (UNION {Asked(cmd.args[i]) : i \in 1 .. (next - 1)}) \cup (IF InArgument THEN Generated ELSE {})
Current == IF pc \in {"write", "aborted"} THEN {<<Generator, Target>>} ELSE {}

FinishedInv ==
  /\ pc = "options" => DOMAIN disk = {}
  /\ Started =>
       /\ \A job \in Finished : Sources(job[1], job[2]) \subseteq cached
       /\ Writes =>
            /\ DOMAIN disk = {PathOf(job) : job \in Finished \cup Current}
            /\ \A p \in DOMAIN disk : disk[p].by \in Finished \cup Current

LEMMA SameJobs ==
    ASSUME UNCHANGED tree, opts.L' = opts.L
    PROVE  \A n : Jobs(n)' = Jobs(n)
BY SameOptions DEF Jobs

\* The next file is behind too when it is done with.
LEMMA BehindAdvances ==
    ASSUME RunInv, InArgument, ~ AllGenerated, Advance,
           NEW i \in DOMAIN targets, NEW j \in DOMAIN The.generators
    PROVE  Behind(i, j)' <=> Behind(i, j) \/ (i = at.target /\ j = at.file)
<1>1. /\ targets \in Seq(FullName) /\ Fits(Argument)
      /\ at \in [target : 1 .. (Len(targets) + 1), file : 1 .. Len(The.generators)]
  BY DEF RunInv, ArgumentInv, TargetsInv
<1>2. PICK F, s, G, gs : F = FullName /\ s = targets /\ G = Generators /\ gs = The.generators
  OBVIOUS
<1>3. s \in Seq(F) /\ gs \in Seq(G)
  BY <1>1, <1>2, GeneratorFacts
<1>4. PICK n, m : n = Len(s) /\ m = Len(gs)
  OBVIOUS
<1>5. n \in Nat /\ m \in Nat /\ DOMAIN s = 1 .. n /\ DOMAIN gs = 1 .. m
  BY <1>3, <1>4
<1>6. PICK t, f : t = at.target /\ f = at.file
  OBVIOUS
<1>7. t \in 1 .. (n + 1) /\ f \in 1 .. m /\ i \in 1 .. n /\ j \in 1 .. m
  BY <1>1, <1>2, <1>4, <1>5, <1>6
<1>8. at' = IF f < m THEN [at EXCEPT !.file = f + 1] ELSE [target |-> t + 1, file |-> 1]
  BY <1>2, <1>4, <1>6 DEF Advance
<1>9. CASE f < m
  <2>1. at'.target = t /\ at'.file = f + 1
    <3>1. at' = [at EXCEPT !.file = f + 1]
      BY <1>8, <1>9
    <3> QED BY <1>1, <1>6, <3>1
  <2>2. (i < t \/ (i = t /\ j < f + 1)) <=> (i < t \/ (i = t /\ j < f) \/ (i = t /\ j = f))
    BY <1>5, <1>7
  <2> QED BY <1>6, <2>1, <2>2 DEF Behind
<1>10. CASE ~ (f < m)
  <2>1. at'.target = t + 1 /\ at'.file = 1
    BY <1>8, <1>10
  <2>2. (i < t + 1 \/ (i = t + 1 /\ j < 1)) <=> (i < t \/ (i = t /\ j < f) \/ (i = t /\ j = f))
    BY <1>5, <1>7, <1>10
  <2> QED BY <1>6, <2>1, <2>2 DEF Behind
<1> QED BY <1>9, <1>10

LEMMA GeneratedAdvances ==
    ASSUME RunInv, InArgument, ~ AllGenerated, Advance, UNCHANGED <<tree, cmd, next, opts, targets>>
    PROVE  \A job : job \in Generated' <=>
             job \in Generated \/ (job = <<Generator, Target>> /\ shouldGenerate(Generator, Target))
<1>1. Argument' = Argument /\ opts.L' = opts.L /\ The' = The
  BY DEF Argument, The
<1>2. Jobs(Argument)' = Jobs(Argument)
  BY <1>1, SameJobs
<1>3. /\ at.target \in DOMAIN targets /\ at.file \in DOMAIN The.generators
      /\ Target \in AllTargets(Argument) /\ Generator \in ToSet(The.generators)
  BY AtTarget
<1>4. <<Generator, Target>> \in Jobs(Argument) <=> shouldGenerate(Generator, Target)
  BY <1>3 DEF Jobs
<1>5. \A i \in DOMAIN targets, j \in DOMAIN The.generators :
        Behind(i, j)' <=> Behind(i, j) \/ (i = at.target /\ j = at.file)
  BY BehindAdvances
<1>6. ASSUME NEW job
      PROVE  job \in Generated' <=> job \in Jobs(Argument) /\ (job \in Generated \/ job = <<Generator, Target>>)
  <2>1. job \in Generated' <=>
          /\ job \in Jobs(Argument)
          /\ \E i \in DOMAIN targets, j \in DOMAIN The.generators :
                Behind(i, j)' /\ job = <<The.generators[j], targets[i]>>
    BY <1>1, <1>2 DEF Generated
  <2>2. job \in Generated <=>
          /\ job \in Jobs(Argument)
          /\ \E i \in DOMAIN targets, j \in DOMAIN The.generators :
                Behind(i, j) /\ job = <<The.generators[j], targets[i]>>
    BY DEF Generated
  <2>3. <<Generator, Target>> = <<The.generators[at.file], targets[at.target]>>
    BY DEF Generator, Target
  <2> QED BY <1>3, <1>5, <2>1, <2>2, <2>3
<1>7. Generated \subseteq Jobs(Argument)
  BY DEF Generated
<1> QED BY <1>4, <1>6, <1>7

\* When all is generated, nothing is left to be done, and that is what was asked for.
LEMMA GeneratedIsJobs ==
    ASSUME RunInv, InArgument, AllGenerated
    PROVE  Generated = Jobs(Argument)
<1>1. /\ targets \in Seq(FullName) /\ ToSet(targets) = AllTargets(Argument)
      /\ at \in [target : 1 .. (Len(targets) + 1), file : 1 .. Len(The.generators)]
  BY DEF RunInv, TargetsInv
<1>2. \A i \in DOMAIN targets : i < at.target
  <2>1. PICK F, s, t : F = FullName /\ s = targets /\ t = at.target
    OBVIOUS
  <2>2. s \in Seq(F) /\ t \in 1 .. (Len(s) + 1) /\ t > Len(s)
    BY <1>1, <2>1 DEF AllGenerated
  <2>3. Len(s) \in Nat /\ DOMAIN s = 1 .. Len(s)
    BY <2>2
  <2>4. \A i \in DOMAIN s : i < t
    BY <2>2, <2>3
  <2> QED BY <2>1, <2>4
<1>3. ASSUME NEW job \in Jobs(Argument) PROVE job \in Generated
  <2>1. job \in ToSet(The.generators) \X AllTargets(Argument)
    BY DEF Jobs
  <2>2. PICK j \in DOMAIN The.generators : job[1] = The.generators[j]
    BY <2>1 DEF ToSet
  <2>3. PICK i \in DOMAIN targets : job[2] = targets[i]
    BY <1>1, <2>1 DEF ToSet
  <2>4. job = <<The.generators[j], targets[i]>>
    BY <2>1, <2>2, <2>3
  <2> QED BY <1>2, <2>4 DEF Generated, Behind
<1> QED BY <1>3 DEF Generated

LEMMA GeneratedIsAsked ==
    ASSUME RunInv, FinishedInv, InArgument, AllGenerated
    PROVE  Generated = Asked(Argument)
<1>1. /\ Fits(Argument) /\ tree \in Trees /\ Sound(cached)
      /\ The.granularity = "PER_TYPE" => ListedTypes(Argument) \subseteq cached
  BY DEF RunInv, ArgumentInv, TargetsInv, InputsInv, CacheInv
<1>2. Generated = Jobs(Argument)
  BY GeneratedIsJobs
<1>3. \A job \in Jobs(Argument) : Sources(job[1], job[2]) \subseteq DOMAIN tree
  <2>1. Generated \subseteq Finished
    BY DEF Finished
  <2>2. \A job \in Finished : Sources(job[1], job[2]) \subseteq cached
    BY DEF FinishedInv, InArgument, Started
  <2> QED BY <1>1, <1>2, <2>1, <2>2 DEF Sound
<1>4. TypesAreThere(Argument)
  BY <1>1 DEF TypesAreThere, Sound
<1> QED BY <1>1, <1>2, <1>3, <1>4, JobsAreAsked

\* The jobs of new are done with, those of cur are on disk.
LEMMA FinishedStep ==
    ASSUME RunInv, FinishedInv, [Next]_vars, Started, opts.L' = opts.L,
           NEW new, NEW cur,
           Finished' = Finished \cup new,
           Finished' \cup Current' = (Finished \cup Current) \cup cur,
           \A job \in new : Sources(job[1], job[2]) \subseteq cached',
           Writes => DOMAIN disk' = DOMAIN disk \cup {PathOf(job) : job \in cur},
           Writes => \A p \in DOMAIN disk' :
             disk'[p].by \in cur \/ (p \in DOMAIN disk /\ disk'[p].by = disk[p].by)
    PROVE  FinishedInv'
<1>1. cached \subseteq cached' /\ tree' = tree
  BY CacheGrows
<1>2. \A g, u : Sources(g, u)' = Sources(g, u)
  BY <1>1, SameTree
<1>3. \A g, n : Path(g, n)' = Path(g, n)
  BY <1>1, SameOptions
<1>4. Writes' = Writes
  BY <1>1, SameOptions
<1>5. \A job \in Finished' : Sources(job[1], job[2]) \subseteq cached'
  BY <1>1 DEF FinishedInv
<1>6. \A job \in Finished' : (Sources(job[1], job[2]))' \subseteq cached'
  BY <1>2, <1>5
<1>7. PICK all : all = Finished \cup Current
  OBVIOUS
<1>8. Finished' \cup Current' = all \cup cur
  BY <1>7
<1>9. ASSUME Writes
      PROVE  /\ DOMAIN disk' = {PathOf(job) : job \in all \cup cur}
             /\ \A p \in DOMAIN disk' : disk'[p].by \in all \cup cur
  <2>1. DOMAIN disk = {PathOf(job) : job \in all} /\ \A p \in DOMAIN disk : disk[p].by \in all
    BY <1>7, <1>9 DEF FinishedInv
  <2>2. {PathOf(job) : job \in all \cup cur}
          = {PathOf(job) : job \in all} \cup {PathOf(job) : job \in cur}
    OBVIOUS
  <2> QED BY <1>9, <2>1, <2>2
<1>10. \A job : PathOf(job)' = PathOf(job)
  BY <1>3 DEF PathOf
<1>11. Writes' => /\ DOMAIN disk' = {PathOf(job)' : job \in Finished' \cup Current'}
                  /\ \A p \in DOMAIN disk' : disk'[p].by \in Finished' \cup Current'
  BY <1>4, <1>8, <1>9, <1>10
<1>12. pc' # "options"
  <2>1. Next \/ UNCHANGED vars
    OBVIOUS
  <2>2. /\ ReadOption => pc = "options"
        /\ Configure => pc = "options"
        /\ CheckArgument => pc' \in {"targets", "exit1"}
        /\ AppendTargets => pc' \in {"open", "exit1"}
    BY DEF ReadOption, Configure, CheckArgument, AppendTargets
  <2>3. /\ SkipGenerator => pc' = "open"
        /\ OpenOutput => pc' = "write"
        /\ CannotOpen => pc' = "exit1"
        /\ DepFileFails => pc' = "exit1"
        /\ WriteDepFile => pc' = "argument"
        /\ Exit => pc' = "exit0"
        /\ UNCHANGED vars => pc' = pc
    BY DEF SkipGenerator, OpenOutput, CannotOpen, DepFileFails, WriteDepFile, Exit, vars
  <2>4. WriteOutput => pc' \in {"exit1", "aborted", "open"}
    BY DEF WriteOutput
  <2> QED BY <2>1, <2>2, <2>3, <2>4 DEF Next, Started
<1> QED BY <1>6, <1>11, <1>12 DEF FinishedInv

LEMMA FinishedBefore ==
    ASSUME UNCHANGED <<tree, cmd, next>>, opts.L' = opts.L
    PROVE  (UNION {Asked(cmd.args[i]) : i \in 1 .. (next - 1)})'
             = UNION {Asked(cmd.args[i]) : i \in 1 .. (next - 1)}
<1>1. \A n : Asked(n)' = Asked(n)
  BY SameOptions
<1> QED BY <1>1

LEMMA FinishedStays ==
    ASSUME RunInv, FinishedInv, [Next]_vars, Started, opts.L' = opts.L, disk' = disk,
           Finished' = Finished, Current' = Current
    PROVE  FinishedInv'
<1>1. /\ Finished' = Finished \cup {} /\ Finished' \cup Current' = (Finished \cup Current) \cup {}
      /\ DOMAIN disk' = DOMAIN disk \cup {PathOf(job) : job \in {}}
      /\ \A p \in DOMAIN disk' : p \in DOMAIN disk /\ disk'[p].by = disk[p].by
  OBVIOUS
<1> QED BY <1>1, FinishedStep

LEMMA GeneratedStays ==
    ASSUME UNCHANGED <<tree, cmd, next, targets, at>>, opts.L' = opts.L
    PROVE  Generated' = Generated /\ Generator' = Generator /\ Target' = Target
<1>1. Argument' = Argument /\ The' = The
  BY DEF Argument, The
<1>2. Jobs(Argument)' = Jobs(Argument)
  BY <1>1, SameJobs
<1>3. \A i, j : Behind(i, j)' <=> Behind(i, j)
  BY DEF Behind
<1>4. Generator' = Generator /\ Target' = Target
  BY <1>1 DEF Generator, Target
<1>5. \A job : job \in Generated' <=> job \in Generated
  BY <1>1, <1>2, <1>3 DEF Generated
<1>6. Generated' = Generated
  <2>1. PICK a, b : a = Generated' /\ b = Generated
    OBVIOUS
  <2>2. \A job : job \in a <=> job \in b
    BY <1>5, <2>1
  <2>3. Generated \subseteq Jobs(Argument) /\ Generated' \subseteq Jobs(Argument)
    BY <1>1, <1>2 DEF Generated
  <2>4. a = b
    BY <2>1, <2>2, <2>3
  <2> QED BY <2>1, <2>4
<1> QED BY <1>4, <1>6

LEMMA FinishedConfigure == ASSUME RunInv, FinishedInv, Configure PROVE FinishedInv'
<1>1. pc = "options" /\ disk' = disk /\ pc' \in {"exit1", "argument"}
  BY DEF Configure, work
<1>2. DOMAIN disk' = {}
  BY <1>1 DEF FinishedInv
<1>3. CASE pc' = "exit1"
  BY <1>3 DEF FinishedInv, Started
<1>4. CASE pc' = "argument"
  <2>1. next' = 1
    BY <1>4 DEF Configure
  <2>2. Finished' = {} /\ Current' = {}
    BY <1>4, <2>1 DEF Finished, Current, InArgument
  <2> QED BY <1>2, <1>4, <2>2 DEF FinishedInv
<1> QED BY <1>1, <1>3, <1>4

LEMMA FinishedCheckArgument == ASSUME RunInv, FinishedInv, CheckArgument PROVE FinishedInv'
<1>1. pc = "argument" /\ UNCHANGED <<tree, cmd, next, opts, disk>> /\ pc' \in {"targets", "exit1"}
  BY DEF CheckArgument, inputs
<1>2. CASE pc' = "exit1"
  BY <1>2 DEF FinishedInv, Started
<1>3. CASE pc' = "targets"
  <2>1. Finished' = Finished /\ Current' = Current
    BY <1>1, <1>3, FinishedBefore DEF Finished, Current, InArgument
  <2>2. [Next]_vars /\ Started /\ opts.L' = opts.L
    BY <1>1 DEF Next, Started
  <2> QED BY <1>1, <2>1, <2>2, FinishedStays
<1> QED BY <1>1, <1>2, <1>3

LEMMA FinishedAppendTargets == ASSUME RunInv, FinishedInv, AppendTargets PROVE FinishedInv'
<1>1. pc = "targets" /\ UNCHANGED <<tree, cmd, next, opts, disk>> /\ pc' \in {"open", "exit1"}
  BY DEF AppendTargets, inputs
<1>2. CASE pc' = "exit1"
  BY <1>2 DEF FinishedInv, Started
<1>3. CASE pc' = "open"
  <2>1. at'.target = 1 /\ at'.file = 1
    BY <1>3 DEF AppendTargets
  <2>2. RunInv'
    BY RunAppendTargets
  <2>3. targets' \in Seq(FullName) /\ Fits(Argument)'
    BY <1>3, <2>2 DEF RunInv, TargetsInv, ArgumentInv, InArgument
  <2>4. The'.generators \in Seq(Generators)
    <3>1. The' = The /\ Argument' = Argument
      BY <1>1 DEF The, Argument
    <3>2. Fits(Argument)
      BY <1>1 DEF RunInv, ArgumentInv
    <3> QED BY <3>1, <3>2, GeneratorFacts
  <2>5. ASSUME NEW S, NEW s \in Seq(S) PROVE \A i \in DOMAIN s : i \in Int /\ i >= 1
    OBVIOUS
  <2>6. \A i \in DOMAIN targets', j \in DOMAIN The'.generators : ~ Behind(i, j)'
    BY <2>1, <2>3, <2>4, <2>5 DEF Behind
  <2>7. Generated' = {}
    BY <2>6 DEF Generated
  <2>8. Finished' = Finished /\ Current' = Current
    BY <1>1, <1>3, <2>7, FinishedBefore DEF Finished, Current, InArgument
  <2>9. [Next]_vars /\ Started /\ opts.L' = opts.L
    BY <1>1 DEF Next, Started
  <2> QED BY <1>1, <2>8, <2>9, FinishedStays
<1> QED BY <1>1, <1>2, <1>3

LEMMA FinishedSkipGenerator == ASSUME RunInv, FinishedInv, SkipGenerator PROVE FinishedInv'
<1>1. /\ pc = "open" /\ ~ AllGenerated /\ ~ shouldGenerate(Generator, Target) /\ Advance
      /\ UNCHANGED <<tree, cmd, pc, next, opts, targets, disk>>
  BY DEF SkipGenerator, inputs
<1>2. \A job : job \in Generated' <=> job \in Generated
  BY <1>1, GeneratedAdvances DEF InArgument
<1>3. Finished' = Finished
  <2>1. Finished' = (UNION {Asked(cmd.args[i]) : i \in 1 .. (next - 1)}) \cup Generated'
    BY <1>1, FinishedBefore DEF Finished, InArgument
  <2>2. Finished = (UNION {Asked(cmd.args[i]) : i \in 1 .. (next - 1)}) \cup Generated
    BY <1>1 DEF Finished, InArgument
  <2> QED BY <1>2, <2>1, <2>2
<1>4. Current' = Current
  BY <1>1 DEF Current
<1>5. [Next]_vars /\ Started /\ opts.L' = opts.L
  BY <1>1 DEF Next, Started
<1> QED BY <1>1, <1>3, <1>4, <1>5, FinishedStays

LEMMA FinishedOpenOutput == ASSUME RunInv, FinishedInv, OpenOutput PROVE FinishedInv'
<1>1. /\ pc = "open" /\ ~ AllGenerated /\ pc' = "write"
      /\ UNCHANGED <<tree, cmd, next, opts, targets, at>>
      /\ disk' = IF Writes THEN Emptied(Path(Generator, Target), <<Generator, Target>>) ELSE disk
  BY DEF OpenOutput, inputs
<1>2. PICK job : job = <<Generator, Target>>
  OBVIOUS
<1>3. Generated' = Generated /\ Generator' = Generator /\ Target' = Target
  BY <1>1, GeneratedStays
<1>4. Finished' = Finished
  BY <1>1, <1>3, FinishedBefore DEF Finished, InArgument
<1>5. Current = {} /\ Current' = {job}
  BY <1>1, <1>2, <1>3 DEF Current
<1>6. [Next]_vars /\ Started /\ opts.L' = opts.L
  BY <1>1 DEF Next, Started
<1>7. Writes => /\ DOMAIN disk' = DOMAIN disk \cup {PathOf(j) : j \in {job}}
                /\ \A p \in DOMAIN disk' :
                     disk'[p].by \in {job} \/ (p \in DOMAIN disk /\ disk'[p].by = disk[p].by)
  <2>1. SUFFICES ASSUME Writes
                 PROVE  /\ DOMAIN disk' = DOMAIN disk \cup {PathOf(j) : j \in {job}}
                        /\ \A p \in DOMAIN disk' :
                             disk'[p].by \in {job} \/ (p \in DOMAIN disk /\ disk'[p].by = disk[p].by)
    OBVIOUS
  <2>2. PICK path, new : path = Path(Generator, Target) /\ new = [by |-> job, complete |-> FALSE]
    OBVIOUS
  <2>3. disk' = [p \in DOMAIN disk \cup {path} |-> IF p = path THEN new ELSE disk[p]]
    BY <1>1, <1>2, <2>1, <2>2 DEF Emptied
  <2>4. {PathOf(j) : j \in {job}} = {path}
    BY <1>2, <2>2 DEF PathOf
  <2>5. new.by = job
    BY <2>2
  <2> QED BY <2>3, <2>4, <2>5
<1>8. Finished' = Finished \cup {} /\ Finished' \cup Current' = (Finished \cup Current) \cup {job}
  BY <1>4, <1>5
<1>9. PICK new, cur : new = {} /\ cur = {job}
  OBVIOUS
<1>10. /\ Finished' = Finished \cup new /\ Finished' \cup Current' = (Finished \cup Current) \cup cur
       /\ \A j \in new : Sources(j[1], j[2]) \subseteq cached'
  BY <1>8, <1>9
<1>11. Writes => /\ DOMAIN disk' = DOMAIN disk \cup {PathOf(j) : j \in cur}
                 /\ \A p \in DOMAIN disk' :
                      disk'[p].by \in cur \/ (p \in DOMAIN disk /\ disk'[p].by = disk[p].by)
  BY <1>7, <1>9
<1> QED BY <1>6, <1>10, <1>11, FinishedStep

LEMMA FinishedWriteOutput ==
    ASSUME RunInv, DiskInv, FinishedInv, WriteOutput PROVE FinishedInv'
<1>1. pc = "write" /\ UNCHANGED <<tree, cmd, next, opts, targets>>
  BY DEF WriteOutput, inputs
<1>2. [Next]_vars /\ Started /\ opts.L' = opts.L
  BY <1>1 DEF Next, Started
<1>3. CASE Fails
  <2>1. pc' = "exit1"
    BY <1>3 DEF WriteOutput
  <2> QED BY <2>1 DEF FinishedInv, Started
<1>4. CASE ~ Fails /\ ~ JavaCheck(Generator, Target)
  <2>1. pc' = "aborted" /\ UNCHANGED <<at, disk>>
    BY <1>4 DEF WriteOutput
  <2>2. Generated' = Generated /\ Generator' = Generator /\ Target' = Target
    BY <1>1, <1>2, <2>1, GeneratedStays
  <2>3. Finished' = Finished /\ Current' = Current
    BY <1>1, <1>2, <2>1, <2>2, FinishedBefore DEF Finished, Current, InArgument
  <2> QED BY <1>2, <2>1, <2>3, FinishedStays
<1>5. CASE ~ Fails /\ JavaCheck(Generator, Target)
  <2>1. /\ disk' = IF Writes THEN Complete(Path(Generator, Target)) ELSE disk
        /\ cached' = AllParsed /\ Advance /\ pc' = "open"
    BY <1>5 DEF WriteOutput, Reads
  <2>2. ~ AllGenerated /\ shouldGenerate(Generator, Target)
    BY <1>1, WriteFacts
  <2>3. PICK job : job = <<Generator, Target>>
    OBVIOUS
  <2>4. \A j : j \in Generated' <=> j \in Generated \/ j = job
    BY <1>1, <2>1, <2>2, <2>3, GeneratedAdvances DEF InArgument
  <2>5. PICK before : before = UNION {Asked(cmd.args[i]) : i \in 1 .. (next - 1)}
    OBVIOUS
  <2>6. Finished' = before \cup Generated' /\ Finished = before \cup Generated
    BY <1>1, <1>2, <2>1, <2>5, FinishedBefore DEF Finished, InArgument
  <2>7. Finished' = Finished \cup {job}
    BY <2>4, <2>6
  <2>8. Current = {job} /\ Current' = {}
    BY <1>1, <2>1, <2>3 DEF Current
  <2>9. Finished' \cup Current' = (Finished \cup Current) \cup {}
    BY <2>7, <2>8
  <2>10. Sources(job[1], job[2]) \subseteq cached'
    <3>1. Sources(Generator, Target) \subseteq cached'
      BY <1>1, <1>5, <2>1, ParsedFacts
    <3> QED BY <2>3, <3>1
  <2>11. Writes => /\ DOMAIN disk' = DOMAIN disk \cup {PathOf(j) : j \in {}}
                   /\ \A p \in DOMAIN disk' : p \in DOMAIN disk /\ disk'[p].by = disk[p].by
    <3>1. SUFFICES ASSUME Writes
                   PROVE  /\ DOMAIN disk' = DOMAIN disk
                          /\ \A p \in DOMAIN disk' : disk'[p].by = disk[p].by
      OBVIOUS
    <3>2. PICK path : path = Path(Generator, Target)
      OBVIOUS
    <3>3. disk' = [disk EXCEPT ![path].complete = TRUE]
      BY <2>1, <3>1, <3>2 DEF Complete
    <3>4. \A p \in DOMAIN disk : disk[p] \in [by : Generators \X FullName, complete : BOOLEAN]
      BY DEF DiskInv
    <3>5. PICK new : new = [disk[path] EXCEPT !.complete = TRUE]
      OBVIOUS
    <3>6. DOMAIN disk' = DOMAIN disk /\ \A p \in DOMAIN disk : disk'[p] = IF p = path THEN new ELSE disk[p]
      BY <3>3, <3>5
    <3>7. path \in DOMAIN disk => new.by = disk[path].by
      BY <3>4, <3>5
    <3> QED BY <3>6, <3>7
  <2> QED BY <1>2, <2>7, <2>9, <2>10, <2>11, FinishedStep
<1> QED BY <1>3, <1>4, <1>5

LEMMA FinishedWriteDepFile == ASSUME RunInv, FinishedInv, WriteDepFile PROVE FinishedInv'
<1>1. /\ pc = "open" /\ AllGenerated /\ next' = next + 1 /\ pc' = "argument"
      /\ UNCHANGED <<tree, cmd, opts, disk>>
  BY DEF WriteDepFile, inputs
<1>2. [Next]_vars /\ Started /\ opts.L' = opts.L
  BY <1>1 DEF Next, Started
<1>3. Generated = Asked(Argument)
  BY <1>1, GeneratedIsAsked DEF InArgument
<1>4. next \in Nat \ {0}
  BY DEF RunInv, InputsInv
<1>5. \A n : Asked(n)' = Asked(n)
  BY <1>1, <1>2, SameOptions
<1>6. Finished' = UNION {Asked(cmd.args[i]) : i \in 1 .. next}
  <2>1. next' - 1 = next
    BY <1>1, <1>4
  <2>2. Finished' = UNION {Asked(cmd.args[i])' : i \in 1 .. next}
    BY <1>1, <2>1 DEF Finished, InArgument
  <2> QED BY <1>1, <1>5, <2>2
<1>7. Finished = (UNION {Asked(cmd.args[i]) : i \in 1 .. (next - 1)}) \cup Asked(cmd.args[next])
  BY <1>1, <1>3 DEF Finished, InArgument, Argument
<1>8. \A i : i \in 1 .. next <=> i \in 1 .. (next - 1) \/ i = next
  BY <1>4
<1>9. Finished' = Finished
  BY <1>6, <1>7, <1>8
<1>10. Current' = Current
  BY <1>1 DEF Current
<1> QED BY <1>1, <1>2, <1>9, <1>10, FinishedStays

LEMMA FinishedExit == ASSUME RunInv, FinishedInv, Exit PROVE FinishedInv'
<1>1. /\ pc = "argument" /\ pc' = "exit0"
      /\ UNCHANGED <<tree, cmd, next, opts, disk>>
  BY DEF Exit, inputs, work
<1>2. [Next]_vars /\ Started /\ opts.L' = opts.L
  BY <1>1 DEF Next, Started
<1>3. Finished' = Finished /\ Current' = Current
  BY <1>1, <1>2, FinishedBefore DEF Finished, Current, InArgument
<1> QED BY <1>1, <1>2, <1>3, FinishedStays

LEMMA FinishedNext == RunInv /\ DiskInv /\ FinishedInv /\ [Next]_vars => FinishedInv'
<1> SUFFICES ASSUME RunInv, DiskInv, FinishedInv, [Next]_vars PROVE FinishedInv'
  OBVIOUS
<1>1. CASE pc' = "exit1"
  BY <1>1 DEF FinishedInv, Started
<1>2. CASE pc = "options" /\ pc' = "options" /\ disk' = disk
  BY <1>2 DEF FinishedInv, Started
<1>3. CASE UNCHANGED vars
  <2>1. UNCHANGED <<tree, cmd, pc, next, opts, targets, at, disk>> /\ opts.L' = opts.L
    BY <1>3 DEF vars
  <2>2. Generated' = Generated /\ Generator' = Generator /\ Target' = Target
    BY <2>1, GeneratedStays
  <2>3. Finished' = Finished /\ Current' = Current
    BY <2>1, <2>2, FinishedBefore DEF Finished, Current, InArgument
  <2>4. CASE Started
    BY <2>1, <2>3, <2>4, FinishedStays
  <2>5. CASE ~ Started
    BY <1>1, <1>2, <2>1, <2>5 DEF Started
  <2> QED BY <2>4, <2>5
<1>4. /\ ReadOption => pc' = "exit1" \/ (pc = "options" /\ pc' = "options" /\ disk' = disk)
      /\ CannotOpen => pc' = "exit1"
      /\ DepFileFails => pc' = "exit1"
  BY DEF ReadOption, CannotOpen, DepFileFails, work
<1> QED BY <1>1, <1>2, <1>3, <1>4, FinishedConfigure, FinishedCheckArgument, FinishedAppendTargets,
           FinishedSkipGenerator, FinishedOpenOutput, FinishedWriteOutput, FinishedWriteDepFile,
           FinishedExit DEF Next

LEMMA AllFinished ==
    ASSUME RunInv, pc = "exit0"
    PROVE  Finished = AllAsked /\ Current = {}
<1>1. next = Len(cmd.args) + 1 /\ cmd \in CommandLines
  BY DEF RunInv, InputsInv
<1>2. Len(cmd.args) \in Nat /\ DOMAIN cmd.args = 1 .. Len(cmd.args)
  BY <1>1, ArgumentsFacts
<1>3. 1 .. (next - 1) = DOMAIN cmd.args
  BY <1>1, <1>2
<1>4. Finished = UNION {Asked(cmd.args[i]) : i \in DOMAIN cmd.args}
  BY <1>3 DEF Finished, InArgument
<1>5. \A n : n \in Args <=> \E i \in DOMAIN cmd.args : n = cmd.args[i]
  BY DEF Args, ToSet
<1> QED BY <1>4, <1>5 DEF AllAsked, Current

LEMMA AllComplete == RunInv /\ DiskInv /\ FinishedInv => OutputsAreComplete
<1> SUFFICES ASSUME RunInv, DiskInv, FinishedInv, pc = "exit0", Writes
             PROVE  /\ DOMAIN disk = {PathOf(job) : job \in AllAsked}
                    /\ \A p \in DOMAIN disk : disk[p].complete /\ disk[p].by \in AllAsked
  BY DEF OutputsAreComplete
<1>1. PICK all : all = Finished \cup Current
  OBVIOUS
<1>2. DOMAIN disk = {PathOf(job) : job \in all} /\ \A p \in DOMAIN disk : disk[p].by \in all
  BY <1>1 DEF FinishedInv, Started
<1>3. all = AllAsked
  BY <1>1, AllFinished
<1>4. \A p \in DOMAIN disk : disk[p].complete
  BY DEF DiskInv
<1> QED BY <1>2, <1>3, <1>4

LEMMA FinishedInit == Init => FinishedInv
BY DEF Init, FinishedInv, Started

\* OutputsAreComplete: a run that succeeds has left exactly the files that were
\* asked for, each of them complete (OutputHandler::generate, kFormats,
\* Coordinator::getFormatter).
THEOREM OutputsAreCompleteHolds == Spec => []OutputsAreComplete
BY RunInit, RunNext, DiskInit, DiskNext, FinishedInit, FinishedNext, AllComplete, PTL DEF Spec

-----------------------------------------------------------------------------
(* The outputs of an argument.                                             *)

LEMMA SomeConcat ==
    ASSUME NEW T, NEW ss
    PROVE  ss \in Seq(Seq(T)) =>
             \E f \in [0 .. Len(ss) -> Seq(T)] :
                f[0] = <<>> /\ \A n \in 1 .. Len(ss) : f[n] = f[n - 1] \o ss[n]
<1> DEFINE st == [i \in 1 .. Len(ss) |-> [q \in Seq(T) |-> q \o ss[i]]]
<1>1. ASSUME ss \in Seq(Seq(T))
      PROVE  /\ Len(ss) \in Nat /\ <<>> \in Seq(T)
             /\ \A i \in 1 .. Len(ss) : ss[i] \in Seq(T)
             /\ st \in [1 .. Len(ss) -> [Seq(T) -> Seq(T)]]
  <2>1. \A i \in 1 .. Len(ss) : ss[i] \in Seq(T)
    BY <1>1
  <2> QED BY <1>1, <2>1
<1>2. \A i \in 1 .. Len(ss) : \A q \in Seq(T) : st[i][q] = q \o ss[i]
  OBVIOUS
<1> HIDE DEF st
<1>3. ASSUME NEW D, NEW b \in D, NEW k \in Nat, st \in [1 .. k -> [D -> D]]
      PROVE  \E f \in [0 .. k -> D] : f[0] = b /\ \A n \in 1 .. k : f[n] = st[n][f[n - 1]]
  BY <1>3, SomeIteration
<1>4. ASSUME ss \in Seq(Seq(T))
      PROVE  \E f \in [0 .. Len(ss) -> Seq(T)] :
                f[0] = <<>> /\ \A n \in 1 .. Len(ss) : f[n] = f[n - 1] \o ss[n]
  <2>1. PICK f \in [0 .. Len(ss) -> Seq(T)] :
            f[0] = <<>> /\ \A n \in 1 .. Len(ss) : f[n] = st[n][f[n - 1]]
    <3>1. PICK D, b, k : D = Seq(T) /\ b = <<>> /\ k = Len(ss)
      OBVIOUS
    <3>2. b \in D /\ k \in Nat /\ st \in [1 .. k -> [D -> D]]
      BY <1>1, <1>4, <3>1
    <3>3. \E f \in [0 .. k -> D] : f[0] = b /\ \A n \in 1 .. k : f[n] = st[n][f[n - 1]]
      BY <1>3, <3>2
    <3> QED BY <3>1, <3>3
  <2>2. ASSUME NEW n \in 1 .. Len(ss) PROVE f[n] = f[n - 1] \o ss[n]
    <3>1. n - 1 \in 0 .. Len(ss)
      BY <1>1, <1>4
    <3>2. f[n - 1] \in Seq(T)
      BY <2>1, <3>1
    <3> QED BY <1>2, <2>1, <3>2
  <2> QED BY <2>1, <2>2
<1> QED BY <1>4

\* What FlattenSeq answers is put together one sequence after the other.
LEMMA FlattenSteps ==
    ASSUME NEW T, NEW ss \in Seq(Seq(T))
    PROVE  \E f \in [0 .. Len(ss) -> Seq(T)] :
             /\ f[0] = <<>> /\ \A n \in 1 .. Len(ss) : f[n] = f[n - 1] \o ss[n]
             /\ FlattenSeq(ss) = f[Len(ss)]
<1> DEFINE m == Len(ss)
<1>1. m \in Nat /\ DOMAIN ss = 1 .. m /\ \A i \in 1 .. m : ss[i] \in Seq(T)
  OBVIOUS
<1>2. PICK f \in [0 .. m -> Seq(T)] :
          f[0] = <<>> /\ \A n \in 1 .. m : f[n] = f[n - 1] \o ss[n]
  BY SomeConcat
<1>3. CASE m = 0
  <2>1. FlattenSeq(ss) = ss /\ ss = <<>>
    BY <1>3 DEF FlattenSeq
  <2>2. FlattenSeq(ss) = f[m]
    BY <1>2, <1>3, <2>1
  <2> QED BY <1>2, <2>2
<1>4. CASE m # 0
  <2> DEFINE flatten[i \in 1 .. m] == IF i = 1 THEN ss[i] ELSE flatten[i - 1] \o ss[i]
  <2>1. FlattenSeq(ss) = flatten[m]
    BY <1>4 DEF FlattenSeq
  <2> DEFINE g == [i \in 1 .. m |-> f[i]]
  <2>2. ASSUME NEW i \in 1 .. m PROVE f[i] = f[i - 1] \o ss[i]
    BY <1>2
  <2>3. ASSUME NEW i \in 1 .. m PROVE g[i] = IF i = 1 THEN ss[i] ELSE g[i - 1] \o ss[i]
    <3>1. CASE i = 1
      <4>1. 1 \in 1 .. m /\ ss[1] \in Seq(T) /\ 1 - 1 = 0
        BY <1>1, <3>1
      <4>2. f[1] = <<>> \o ss[1]
        BY <1>2, <2>2, <4>1
      <4>3. \A q \in Seq(T) : <<>> \o q = q
        OBVIOUS
      <4>4. f[1] = ss[1]
        BY <4>1, <4>2, <4>3
      <4> QED BY <3>1, <4>1, <4>4
    <3>2. CASE i # 1
      <4>1. i - 1 \in 1 .. m
        BY <1>1, <3>2
      <4> QED BY <2>2, <3>2, <4>1
    <3> QED BY <3>1, <3>2
  <2>4. g = [i \in 1 .. m |-> IF i = 1 THEN ss[i] ELSE g[i - 1] \o ss[i]]
    <3>1. g = [i \in 1 .. m |-> g[i]]
      OBVIOUS
    <3> HIDE DEF g
    <3> QED BY <2>3, <3>1
  <2>5. \E h : h = [i \in 1 .. m |-> IF i = 1 THEN ss[i] ELSE h[i - 1] \o ss[i]]
    BY <2>4
  <2>6. flatten = [i \in 1 .. m |-> IF i = 1 THEN ss[i] ELSE flatten[i - 1] \o ss[i]]
    BY <2>5 DEF flatten
  <2> HIDE DEF flatten
  <2>7. ASSUME NEW i \in 1 .. m PROVE flatten[i] = IF i = 1 THEN ss[i] ELSE flatten[i - 1] \o ss[i]
    BY <2>6
  <2> DEFINE S == {k \in Nat : k + 1 <= m => flatten[k + 1] = f[k + 1]}
  <2>8. 0 \in S
    <3>1. 1 \in 1 .. m /\ 0 + 1 = 1
      BY <1>1, <1>4
    <3>2. g[1] = f[1] /\ flatten[1] = ss[1] /\ g[1] = ss[1]
      BY <2>3, <2>7, <3>1
    <3> QED BY <3>1, <3>2
  <2>9. ASSUME NEW k \in Nat, k \in S PROVE k + 1 \in S
    <3> SUFFICES ASSUME (k + 1) + 1 <= m PROVE flatten[(k + 1) + 1] = f[(k + 1) + 1]
      OBVIOUS
    <3>1. k + 1 <= m /\ (k + 1) + 1 \in 1 .. m /\ (k + 1) + 1 # 1 /\ ((k + 1) + 1) - 1 = k + 1
      BY <1>1
    <3>2. flatten[k + 1] = f[k + 1]
      BY <2>9, <3>1
    <3>3. PICK i : i = (k + 1) + 1
      OBVIOUS
    <3>4. i \in 1 .. m /\ i # 1 /\ i - 1 = k + 1
      BY <3>1, <3>3
    <3>5. f[i] = f[i - 1] \o ss[i]
      BY <2>2, <3>4
    <3>6. flatten[i] = flatten[i - 1] \o ss[i]
      BY <2>7, <3>4
    <3> QED BY <3>2, <3>3, <3>4, <3>5, <3>6
  <2> HIDE DEF S
  <2>10. \A k \in Nat : k \in S
    BY <2>8, <2>9, SetInduction
  <2>11. m - 1 \in Nat /\ (m - 1) + 1 = m /\ m <= m
    BY <1>1, <1>4
  <2>12. flatten[m] = f[m]
    BY <2>10, <2>11 DEF S
  <2> QED BY <1>2, <2>1, <2>12
<1> QED BY <1>3, <1>4

\* It has the elements of all the sequences.
LEMMA FlattenFacts ==
    ASSUME NEW T, NEW ss \in Seq(Seq(T))
    PROVE  /\ FlattenSeq(ss) \in Seq(T)
           /\ ToSet(FlattenSeq(ss)) = UNION {ToSet(ss[i]) : i \in DOMAIN ss}
<1>1. PICK m : m = Len(ss)
  OBVIOUS
<1>2. m \in Nat /\ DOMAIN ss = 1 .. m /\ \A i \in 1 .. m : ss[i] \in Seq(T)
  BY <1>1
<1>3. PICK f \in [0 .. m -> Seq(T)] :
          /\ f[0] = <<>> /\ \A n \in 1 .. m : f[n] = f[n - 1] \o ss[n]
          /\ FlattenSeq(ss) = f[m]
  BY <1>1, FlattenSteps
<1> DEFINE S == {k \in Nat : k <= m => ToSet(f[k]) = UNION {ToSet(ss[i]) : i \in 1 .. k}}
<1>4. 0 \in S
  <2>1. ToSet(f[0]) = {} /\ 1 .. 0 = {}
    BY <1>3 DEF ToSet
  <2> QED BY <2>1
<1>5. ASSUME NEW k \in Nat, k \in S PROVE k + 1 \in S
  <2> SUFFICES ASSUME k + 1 <= m
               PROVE  ToSet(f[k + 1]) = UNION {ToSet(ss[i]) : i \in 1 .. (k + 1)}
    OBVIOUS
  <2>1. PICK n : n = k + 1
    OBVIOUS
  <2>2. n \in 1 .. m /\ n - 1 = k /\ k \in 0 .. m /\ k <= m
    BY <1>2, <2>1
  <2>3. f[k] \in Seq(T) /\ ss[n] \in Seq(T) /\ f[n] = f[k] \o ss[n]
    BY <1>2, <1>3, <2>2
  <2>4. ToSet(f[k]) = UNION {ToSet(ss[i]) : i \in 1 .. k}
    BY <1>5, <2>2
  <2>5. ToSet(f[n]) = ToSet(f[k]) \cup ToSet(ss[n])
    BY <2>3, ConcatElements
  <2> DEFINE E(i) == ToSet(ss[i])
  <2>6. UNION {ToSet(ss[i]) : i \in 1 .. n} = (UNION {ToSet(ss[i]) : i \in 1 .. k}) \cup ToSet(ss[n])
    <3>1. \A i : i \in 1 .. n <=> i \in 1 .. k \/ i = n
      BY <2>1
    <3> HIDE DEF E
    <3>2. UNION {E(i) : i \in 1 .. n} = (UNION {E(i) : i \in 1 .. k}) \cup E(n)
      BY <3>1
    <3> QED BY <3>2 DEF E
  <2> QED BY <2>1, <2>4, <2>5, <2>6
<1> HIDE DEF S
<1>6. \A k \in Nat : k \in S
  BY <1>4, <1>5, SetInduction
<1>7. m <= m /\ m \in 0 .. m
  BY <1>2
<1>8. ToSet(f[m]) = UNION {ToSet(ss[i]) : i \in 1 .. m}
  BY <1>2, <1>6, <1>7 DEF S
<1> QED BY <1>2, <1>3, <1>7, <1>8

LEMMA FlattenRow ==
    ASSUME NEW T, NEW m \in Nat, NEW f \in [1 .. m -> Seq(T)]
    PROVE  /\ FlattenSeq(f) \in Seq(T)
           /\ ToSet(FlattenSeq(f)) = UNION {ToSet(f[i]) : i \in 1 .. m}
<1>1. f \in Seq(Seq(T)) /\ DOMAIN f = 1 .. m
  OBVIOUS
<1> QED BY <1>1, FlattenFacts

LEMMA OutputsFacts ==
    ASSUME RunInv, InArgument
    PROVE  /\ OutputsOf(targets) = <<>> <=> Jobs(Argument) = {}
           /\ OutputsOf(targets) # <<>> =>
                OutputsOf(targets)[1] \in {PathOf(job) : job \in Jobs(Argument)}
<1>1. targets \in Seq(FullName) /\ ToSet(targets) = AllTargets(Argument) /\ Fits(Argument)
  BY DEF RunInv, ArgumentInv, TargetsInv
<1>2. PICK F, ts, G, gs, T :
        /\ F = FullName /\ ts = targets /\ G = Generators /\ gs = The.generators
        /\ T = {PathOf(job) : job \in Jobs(Argument)}
  OBVIOUS
<1>3. ts \in Seq(F) /\ gs \in Seq(G)
  BY <1>1, <1>2, GeneratorFacts
<1>4. PICK n, m : n = Len(ts) /\ m = Len(gs)
  OBVIOUS
<1>5. n \in Nat /\ m \in Nat /\ DOMAIN ts = 1 .. n /\ DOMAIN gs = 1 .. m
  BY <1>3, <1>4
<1> DEFINE One(k, j) == IF shouldGenerate(gs[j], ts[k]) THEN <<Path(gs[j], ts[k])>> ELSE <<>>
           Row(k) == [j \in 1 .. m |-> One(k, j)]
           Rows == [k \in 1 .. n |-> FlattenSeq(Row(k))]
<1>6. OutputsOf(targets) = FlattenSeq(Rows)
  BY <1>2, <1>5 DEF OutputsOf
<1>7. ASSUME NEW k \in 1 .. n, NEW j \in 1 .. m
      PROVE  /\ One(k, j) \in Seq(T)
             /\ shouldGenerate(gs[j], ts[k]) => Path(gs[j], ts[k]) \in ToSet(One(k, j))
  <2>1. CASE shouldGenerate(gs[j], ts[k])
    <3>1. gs[j] \in ToSet(The.generators) /\ ts[k] \in AllTargets(Argument)
      BY <1>1, <1>2, <1>5 DEF ToSet
    <3>2. PICK job : job = <<gs[j], ts[k]>>
      OBVIOUS
    <3>3. job \in Jobs(Argument) /\ PathOf(job) = Path(gs[j], ts[k])
      BY <2>1, <3>1, <3>2 DEF Jobs, PathOf
    <3>4. PICK a : a = Path(gs[j], ts[k])
      OBVIOUS
    <3>5. a \in T
      BY <1>2, <3>3, <3>4
    <3>6. One(k, j) = <<a>>
      BY <2>1, <3>4
    <3>7. <<a>> \in Seq(T) /\ a \in ToSet(<<a>>)
      BY <3>5 DEF ToSet
    <3> QED BY <3>4, <3>6, <3>7
  <2>2. CASE ~ shouldGenerate(gs[j], ts[k])
    <3>1. One(k, j) = <<>> /\ <<>> \in Seq(T)
      BY <2>2
    <3> QED BY <2>2, <3>1
  <2> QED BY <2>1, <2>2
<1> HIDE DEF One
<1>8. ASSUME NEW k \in 1 .. n
      PROVE  /\ FlattenSeq(Row(k)) \in Seq(T)
             /\ ToSet(FlattenSeq(Row(k))) = UNION {ToSet(One(k, j)) : j \in 1 .. m}
  <2>1. PICK f : f = Row(k)
    OBVIOUS
  <2>2. f \in [1 .. m -> Seq(T)] /\ \A j \in 1 .. m : f[j] = One(k, j)
    BY <1>7, <2>1
  <2>3. FlattenSeq(f) \in Seq(T) /\ ToSet(FlattenSeq(f)) = UNION {ToSet(f[j]) : j \in 1 .. m}
    <3>1. m \in Nat /\ f \in [1 .. m -> Seq(T)]
      BY <1>5, <2>2
    <3> QED BY <3>1, FlattenRow
  <2>4. UNION {ToSet(f[j]) : j \in 1 .. m} = UNION {ToSet(One(k, j)) : j \in 1 .. m}
    BY <2>2
  <2> QED BY <2>1, <2>3, <2>4
<1> HIDE DEF Row
<1>9. /\ FlattenSeq(Rows) \in Seq(T)
      /\ ToSet(FlattenSeq(Rows)) = UNION {ToSet(FlattenSeq(Row(k))) : k \in 1 .. n}
  <2>1. PICK f : f = Rows
    OBVIOUS
  <2>2. f \in [1 .. n -> Seq(T)] /\ \A k \in 1 .. n : f[k] = FlattenSeq(Row(k))
    BY <1>8, <2>1
  <2>3. FlattenSeq(f) \in Seq(T) /\ ToSet(FlattenSeq(f)) = UNION {ToSet(f[k]) : k \in 1 .. n}
    BY <1>5, <2>2, FlattenRow
  <2>4. UNION {ToSet(f[k]) : k \in 1 .. n} = UNION {ToSet(FlattenSeq(Row(k))) : k \in 1 .. n}
    BY <2>2
  <2> QED BY <2>1, <2>3, <2>4
<1> HIDE DEF Rows
<1>10. ASSUME NEW job \in Jobs(Argument) PROVE PathOf(job) \in ToSet(FlattenSeq(Rows))
  <2>1. /\ job \in ToSet(The.generators) \X AllTargets(Argument)
        /\ shouldGenerate(job[1], job[2])
    BY DEF Jobs
  <2>2. PICK j \in 1 .. m : job[1] = gs[j]
    BY <1>2, <1>5, <2>1 DEF ToSet
  <2>3. PICK k \in 1 .. n : job[2] = ts[k]
    BY <1>1, <1>2, <1>5, <2>1 DEF ToSet
  <2>4. PathOf(job) \in ToSet(One(k, j))
    BY <1>7, <2>1, <2>2, <2>3 DEF PathOf
  <2>5. PathOf(job) \in ToSet(FlattenSeq(Row(k)))
    BY <1>8, <2>4
  <2> QED BY <1>9, <2>5
<1>11. PICK out : out = OutputsOf(targets)
  OBVIOUS
<1>12. out \in Seq(T)
  BY <1>6, <1>9, <1>11
<1>13. out = <<>> \/ out[1] \in T
  BY <1>12
<1>14. out = <<>> => ToSet(out) = {}
  BY DEF ToSet
<1>15. T = {} => Jobs(Argument) = {}
  BY <1>2
<1>16. Jobs(Argument) = {} => T = {}
  BY <1>2
<1>17. out # <<>> => T # {}
  BY <1>13
<1>18. \A job \in Jobs(Argument) : PathOf(job) \in ToSet(out)
  BY <1>6, <1>10, <1>11
<1> QED BY <1>2, <1>11, <1>13, <1>14, <1>16, <1>17, <1>18

-----------------------------------------------------------------------------
(* The dependency file.                                                    *)

\* What it is after the first m arguments: it is for the last of them that has
\* outputs, and lists the sources of that one and of those before.
IsLast(k, m) ==
  HasOutputs(cmd.args[k]) /\ \A i \in (k + 1) .. m : ~ HasOutputs(cmd.args[i])
IsFor(k) ==
  /\ depFile.for \in {PathOf(job) : job \in Asked(cmd.args[k])}
  /\ \A i \in 1 .. k : \A job \in Asked(cmd.args[i]) :
       ReachFrom(Sources(job[1], job[2])) \subseteq depFile.lists
Written(m) ==
  IF \A i \in 1 .. m : ~ HasOutputs(cmd.args[i]) THEN depFile = NoFile
  ELSE \E k \in 1 .. m : IsLast(k, m) /\ IsFor(k)

DepInv ==
  /\ pc = "options" => depFile = NoFile
  /\ Started /\ Writes /\ opts.d # NoValue => Written(next - 1)

LEMMA SameDependencies ==
    ASSUME UNCHANGED <<tree, cmd>>, opts.L' = opts.L
    PROVE  /\ \A n : HasOutputs(n)' <=> HasOutputs(n)
           /\ \A k, m : IsLast(k, m)' <=> IsLast(k, m)
           /\ \A job : PathOf(job)' = PathOf(job)
           /\ \A g, u : ReachFrom(Sources(g, u))' = ReachFrom(Sources(g, u))
<1>1. /\ \A n : Asked(n)' = Asked(n)
      /\ \A g, n : Path(g, n)' = Path(g, n)
  BY SameOptions
<1>2. \A n : HasOutputs(n)' <=> HasOutputs(n)
  BY <1>1 DEF HasOutputs
<1>3. \A k, m : IsLast(k, m)' <=> IsLast(k, m)
  BY <1>2 DEF IsLast
<1>4. \A job : PathOf(job)' = PathOf(job)
  BY <1>1 DEF PathOf
<1>5. \A g, u : ReachFrom(Sources(g, u))' = ReachFrom(Sources(g, u))
  BY SameTree
<1> QED BY <1>2, <1>3, <1>4, <1>5

LEMMA SameWritten ==
    ASSUME UNCHANGED <<tree, cmd, depFile>>, opts.L' = opts.L
    PROVE  \A m : Written(m)' <=> Written(m)
<1>1. \A n : Asked(n)' = Asked(n)
  BY SameOptions
<1>2. \A k : IsFor(k)' <=> IsFor(k)
  <2>1. ASSUME NEW k PROVE IsFor(k)' <=> IsFor(k)
    <3>1. {PathOf(job)' : job \in Asked(cmd.args[k])} = {PathOf(job) : job \in Asked(cmd.args[k])}
      BY SameDependencies
    <3>2. \A job : ReachFrom(Sources(job[1], job[2]))' = ReachFrom(Sources(job[1], job[2]))
      BY SameDependencies
    <3> QED BY <1>1, <3>1, <3>2 DEF IsFor
  <2> QED BY <2>1
<1>3. /\ \A n : HasOutputs(n)' <=> HasOutputs(n)
      /\ \A k, m : IsLast(k, m)' <=> IsLast(k, m)
  BY SameDependencies
<1> QED BY <1>2, <1>3 DEF Written

\* A step that leaves the dependency file alone.
LEMMA DepStays ==
    ASSUME DepInv, Started, pc' # "options", UNCHANGED <<tree, cmd, next, opts, depFile>>
    PROVE  DepInv'
<1>1. opts.L' = opts.L /\ Writes' = Writes
  BY DEF Writes, The
<1>2. Written(next - 1)' <=> Written(next - 1)
  <2>1. \A m : Written(m)' <=> Written(m)
    BY <1>1, SameWritten
  <2>2. PICK m : m = next - 1
    OBVIOUS
  <2>3. m = next' - 1
    BY <2>2
  <2>4. Written(next - 1)' <=> Written(m)'
    BY <2>3 DEF Written
  <2> QED BY <2>1, <2>2, <2>4
<1> QED BY <1>1, <1>2 DEF DepInv

LEMMA DepConfigure == ASSUME RunInv, DepInv, Configure PROVE DepInv'
<1>1. pc = "options" /\ depFile' = depFile /\ pc' \in {"exit1", "argument"}
  BY DEF Configure, work
<1>2. CASE pc' = "exit1"
  BY <1>2 DEF DepInv, Started
<1>3. CASE pc' = "argument"
  <2>1. next' = 1 /\ depFile' = NoFile
    BY <1>1, <1>3 DEF Configure, DepInv
  <2>2. 1 .. (next' - 1) = {}
    BY <2>1
  <2>3. Written(next - 1)'
    BY <2>1, <2>2 DEF Written, NoFile
  <2> QED BY <1>3, <2>3 DEF DepInv
<1> QED BY <1>1, <1>2, <1>3

LEMMA DepWriteDepFile ==
    ASSUME RunInv, FinishedInv, DepInv, WriteDepFile PROVE DepInv'
<1>1. /\ pc = "open" /\ AllGenerated /\ next' = next + 1 /\ pc' = "argument"
      /\ UNCHANGED <<tree, cmd, opts>>
  BY DEF WriteDepFile, inputs
<1>2. opts.L' = opts.L /\ Writes' = Writes
  BY <1>1 DEF Writes, The
<1>3. SUFFICES ASSUME Writes, opts.d # NoValue PROVE Written(next - 1)'
  BY <1>1, <1>2 DEF DepInv
<1>4. next \in Nat \ {0} /\ next' - 1 = next
  BY <1>1 DEF RunInv, InputsInv
<1>5. Generated = Asked(Argument) /\ Generated = Jobs(Argument)
  BY <1>1, GeneratedIsAsked, GeneratedIsJobs DEF InArgument
<1>6. Written(next - 1)
  BY <1>1, <1>3 DEF DepInv, Started
<1>7. \A i : i \in 1 .. next <=> i \in 1 .. (next - 1) \/ i = next
  BY <1>4
<1>8. \A k \in 1 .. (next - 1) : \A i : i \in (k + 1) .. next <=> i \in (k + 1) .. (next - 1) \/ i = next
  BY <1>4
<1>9. CASE Asked(Argument) = {}
  <2>1. ~ HasOutputs(cmd.args[next])
    BY <1>9 DEF HasOutputs, Argument
  <2>2. depFile' = depFile
    BY <1>1, <1>5, <1>9, OutputsFacts DEF WriteDepFile, InArgument
  <2>3. Written(next)
    <3>1. CASE \A i \in 1 .. (next - 1) : ~ HasOutputs(cmd.args[i])
      BY <1>6, <1>7, <2>1, <3>1 DEF Written
    <3>2. CASE ~ \A i \in 1 .. (next - 1) : ~ HasOutputs(cmd.args[i])
      <4>1. PICK k \in 1 .. (next - 1) : IsLast(k, next - 1) /\ IsFor(k)
        BY <1>6, <3>2 DEF Written
      <4>2. IsLast(k, next)
        BY <1>8, <2>1, <4>1 DEF IsLast
      <4> QED BY <1>7, <3>2, <4>1, <4>2 DEF Written
    <3> QED BY <3>1, <3>2
  <2>4. \A m : Written(m)' <=> Written(m)
    BY <1>1, <1>2, <2>2, SameWritten
  <2>5. PICK m : m = next
    OBVIOUS
  <2>6. m = next' - 1
    BY <1>4, <2>5
  <2>7. Written(next - 1)' <=> Written(m)'
    BY <2>6 DEF Written
  <2> QED BY <2>3, <2>4, <2>5, <2>7
<1>10. CASE Asked(Argument) # {}
  <2>1. HasOutputs(cmd.args[next])
    BY <1>10 DEF HasOutputs, Argument
  <2>2. OutputsOf(targets) # <<>>
    BY <1>1, <1>5, <1>10, OutputsFacts DEF InArgument
  <2>3. depFile' = [for |-> OutputsOf(targets)[1], lists |-> readFiles]
    BY <1>3, <2>2 DEF WriteDepFile
  <2>4. depFile'.for \in {PathOf(job) : job \in Asked(cmd.args[next])}
    BY <1>1, <1>5, <2>2, <2>3, OutputsFacts DEF InArgument, Argument
  <2>5. ASSUME NEW i \in 1 .. next, NEW job \in Asked(cmd.args[i])
        PROVE  ReachFrom(Sources(job[1], job[2])) \subseteq depFile'.lists
    <3>1. job \in Finished
      <4>1. CASE i \in 1 .. (next - 1)
        BY <2>5, <4>1 DEF Finished
      <4>2. CASE i = next
        BY <1>1, <1>5, <2>5, <4>2 DEF Finished, InArgument, Argument
      <4> QED BY <1>7, <4>1, <4>2
    <3>2. Sources(job[1], job[2]) \subseteq cached
      BY <1>1, <3>1 DEF FinishedInv, Started
    <3>3. tree \in Trees /\ Sound(cached) /\ cached \subseteq readFiles
      BY DEF RunInv, InputsInv, CacheInv
    <3>4. IsFiniteSet(Sources(job[1], job[2]))
      <4>1. IsFiniteSet(DOMAIN tree)
        BY <3>3, InputAssumption DEF TreeAssumption
      <4> QED BY <3>2, <3>3, <4>1, FS_Subset DEF Sound
    <3>5. ReachFrom(Sources(job[1], job[2])) \subseteq cached
      BY <3>2, <3>3, <3>4, ReachInSound
    <3> QED BY <2>3, <3>3, <3>5
  <2>6. /\ \A n : Asked(n)' = Asked(n)
        /\ \A n : HasOutputs(n)' <=> HasOutputs(n)
        /\ \A job : PathOf(job)' = PathOf(job)
        /\ \A job : ReachFrom(Sources(job[1], job[2]))' = ReachFrom(Sources(job[1], job[2]))
    BY <1>1, <1>2, SameOptions, SameDependencies
  <2>7. PICK m : m = next
    OBVIOUS
  <2>8. m = next' - 1 /\ m \in 1 .. m /\ (m + 1) .. m = {}
    BY <1>4, <2>7
  <2>9. IsFor(m)'
    <3>1. {PathOf(job)' : job \in Asked(cmd.args[m])} = {PathOf(job) : job \in Asked(cmd.args[m])}
      BY <2>6
    <3> QED BY <1>1, <2>4, <2>5, <2>6, <2>7, <3>1 DEF IsFor
  <2>10. IsLast(m, m)'
    BY <1>1, <2>1, <2>6, <2>7, <2>8 DEF IsLast
  <2>11. HasOutputs(cmd.args[m])'
    BY <1>1, <2>1, <2>6, <2>7
  <2>12. Written(m)'
    BY <2>8, <2>9, <2>10, <2>11 DEF Written
  <2>13. Written(next - 1)' <=> Written(m)'
    BY <2>8 DEF Written
  <2> QED BY <2>12, <2>13
<1> QED BY <1>9, <1>10

LEMMA DepNext == RunInv /\ FinishedInv /\ DepInv /\ [Next]_vars => DepInv'
<1> SUFFICES ASSUME RunInv, FinishedInv, DepInv, [Next]_vars PROVE DepInv'
  OBVIOUS
<1>1. CASE pc' = "exit1"
  BY <1>1 DEF DepInv, Started
<1>2. CASE pc = "options" /\ pc' = "options" /\ depFile' = depFile
  BY <1>2 DEF DepInv, Started
<1>3. CASE Started /\ pc' # "options" /\ UNCHANGED <<tree, cmd, next, opts, depFile>>
  BY <1>3, DepStays
<1>4. CASE UNCHANGED vars
  <2>1. pc' = pc /\ depFile' = depFile /\ UNCHANGED <<tree, cmd, next, opts, depFile>>
    BY <1>4 DEF vars
  <2> QED BY <1>1, <1>2, <1>3, <2>1 DEF Started
<1>5. /\ ReadOption => pc' = "exit1" \/ (pc = "options" /\ pc' = "options" /\ depFile' = depFile)
      /\ CannotOpen => pc' = "exit1"
      /\ DepFileFails => pc' = "exit1"
  BY DEF ReadOption, CannotOpen, DepFileFails, work
<1>6. CheckArgument \/ AppendTargets =>
        Started /\ pc' # "options" /\ UNCHANGED <<tree, cmd, next, opts, depFile>>
  BY DEF CheckArgument, AppendTargets, inputs, Started
<1>7. SkipGenerator \/ OpenOutput \/ WriteOutput \/ Exit =>
        Started /\ pc' # "options" /\ UNCHANGED <<tree, cmd, next, opts, depFile>>
  BY DEF SkipGenerator, OpenOutput, WriteOutput, Exit, inputs, work, Started
<1> QED BY <1>1, <1>2, <1>3, <1>4, <1>5, <1>6, <1>7, DepConfigure, DepWriteDepFile DEF Next

LEMMA LastIsMax ==
    ASSUME NEW n \in Nat, NEW S \in SUBSET (1 .. n), NEW k \in S, \A i \in (k + 1) .. n : i \notin S
    PROVE  Max(S) = k
<1>1. \A y \in S : k >= y
  OBVIOUS
<1>2. \A x \in S : (\A y \in S : x >= y) => x = k
  BY <1>1
<1>3. \E x \in S : \A y \in S : x >= y
  BY <1>1
<1> QED BY <1>2, <1>3 DEF Max

LEMMA DependenciesListed == RunInv /\ DepInv => DepFileListsSources
<1> DEFINE K == Max({i \in DOMAIN cmd.args : HasOutputs(cmd.args[i])})
<1> SUFFICES ASSUME RunInv, DepInv, pc = "exit0", Writes, opts.d # NoValue
             PROVE  IF \A n \in Args : ~ HasOutputs(n) THEN depFile = NoFile
                    ELSE /\ depFile.for \in {PathOf(job) : job \in Asked(cmd.args[K])}
                         /\ \A i \in 1 .. K : \A job \in Asked(cmd.args[i]) :
                              job[1] # "adapterMain" =>
                                ReachFrom(SourcesOf(job[2])) \subseteq depFile.lists
  BY DEF DepFileListsSources
<1>1. next = Len(cmd.args) + 1 /\ cmd \in CommandLines
  BY DEF RunInv, InputsInv
<1>2. PICK m : m = Len(cmd.args)
  OBVIOUS
<1>3. m \in Nat /\ DOMAIN cmd.args = 1 .. m /\ next - 1 = m
  BY <1>1, <1>2, ArgumentsFacts
<1>4. Written(m)
  BY <1>3 DEF DepInv, Started
<1>5. (\A n \in Args : ~ HasOutputs(n)) <=> (\A i \in 1 .. m : ~ HasOutputs(cmd.args[i]))
  BY <1>3 DEF Args, ToSet
<1>6. CASE \A i \in 1 .. m : ~ HasOutputs(cmd.args[i])
  BY <1>4, <1>5, <1>6 DEF Written
<1>7. CASE ~ \A i \in 1 .. m : ~ HasOutputs(cmd.args[i])
  <2>1. PICK k \in 1 .. m : IsLast(k, m) /\ IsFor(k)
    BY <1>4, <1>7 DEF Written
  <2>2. PICK S : S = {i \in DOMAIN cmd.args : HasOutputs(cmd.args[i])}
    OBVIOUS
  <2>3. S \in SUBSET (1 .. m) /\ k \in S /\ \A i \in (k + 1) .. m : i \notin S
    BY <1>3, <2>1, <2>2 DEF IsLast
  <2>4. K = k
    <3>1. Max(S) = k
      BY <1>3, <2>3, LastIsMax
    <3> QED BY <2>2, <3>1
  <2> HIDE DEF K
  <2>5. ASSUME NEW i \in 1 .. k, NEW job \in Asked(cmd.args[i]), job[1] # "adapterMain"
        PROVE  ReachFrom(SourcesOf(job[2])) \subseteq depFile.lists
    <3>1. Sources(job[1], job[2]) = SourcesOf(job[2])
      BY <2>5 DEF Sources
    <3> QED BY <2>1, <2>5, <3>1 DEF IsFor
  <2>6. depFile.for \in {PathOf(job) : job \in Asked(cmd.args[k])}
    BY <2>1 DEF IsFor
  <2> QED BY <1>5, <1>7, <2>4, <2>5, <2>6
<1> QED BY <1>6, <1>7

LEMMA DepInit == Init => DepInv
BY DEF Init, DepInv, Started

\* DepFileListsSources: the dependency file is for an output of the last argument
\* that has one, and lists all that was read for this and for every earlier
\* argument (OutputHandler::writeDepFile, Coordinator::onFileAccess).
THEOREM DepFileListsSourcesHolds == Spec => []DepFileListsSources
BY RunInit, RunNext, DiskInit, DiskNext, FinishedInit, FinishedNext, DepInit, DepNext,
   DependenciesListed, PTL DEF Spec

=============================================================================
