-------------------------- MODULE Checkout_proofs --------------------------
(***************************************************************************)
(* Theorems about the working copy, for every store and every sequence of  *)
(* edits, flushes and writes of others.                                    *)
(*                                                                         *)
(* The ids in the files are ids of facets there once were, and a facet     *)
(* others wrote bears their stamp. Each difference is about the file or    *)
(* the missing facet it was found for. A flush that nobody disturbs owes,  *)
(* for every file that is not yet as its facet is, a difference that is    *)
(* still to be applied; at the end nothing is owed. That an untouched copy *)
(* shows only differences that are explained rests on the paths: no two    *)
(* facets share one, and the directory of a file names its parent.         *)
(***************************************************************************)
EXTENDS Checkout, Store_proofs, SequenceTheorems

-----------------------------------------------------------------------------
(***************************************************************************)
(* The generations of a tree are what their recursion says (get_subtree).  *)
(***************************************************************************)
Descends(gen, fs, S, n) ==
  /\ gen = [k \in 0 .. n |-> gen[k]]
  /\ gen[0] = S
  /\ \A k \in 1 .. n : gen[k] = Children(fs, gen[k - 1])

LEMMA DescentExists ==
  ASSUME NEW fs, NEW S, NEW n \in Nat
  PROVE  \E gen : Descends(gen, fs, S, n)
<1> DEFINE T == {k \in Nat : ~\E gen : Descends(gen, fs, S, k)}
<1>1. SUFFICES ASSUME n \in T PROVE FALSE
  OBVIOUS
<1>2. T \in SUBSET Nat /\ T # {}
  BY <1>1
<1> HIDE DEF T
<1>3. PICK m \in T : \A k \in T : m <= k
  BY <1>2, FirstExists
<1>4. m \in Nat /\ ~\E gen : Descends(gen, fs, S, m)
  BY <1>3 DEF T
<1>5. CASE m = 0
  <2>1. Descends([k \in 0 .. m |-> S], fs, S, m)
    BY <1>5 DEF Descends
  <2> QED
    BY <1>4, <2>1
<1>6. CASE m # 0
  <2>1. m - 1 \in Nat /\ m - 1 \notin T
    BY <1>3, <1>4, <1>6
  <2>2. PICK gen : Descends(gen, fs, S, m - 1)
    BY <2>1 DEF T
  <2> DEFINE longer == [k \in 0 .. m |-> IF k = m THEN Children(fs, gen[m - 1]) ELSE gen[k]]
  <2>3. Descends(longer, fs, S, m)
    <3>1. longer[0] = S
      BY <1>4, <1>6, <2>2 DEF Descends
    <3>2. ASSUME NEW k \in 1 .. m PROVE longer[k] = Children(fs, longer[k - 1])
      <4>1. k - 1 \in 0 .. m /\ k - 1 # m /\ k \in 0 .. m
        BY <1>4
      <4>2. longer[k - 1] = gen[k - 1]
        BY <4>1
      <4>3. CASE k = m
        BY <4>1, <4>2, <4>3
      <4>4. CASE k # m
        <5>1. k \in 1 .. m - 1
          BY <1>4, <4>4
        <5> QED
          BY <2>2, <4>1, <4>2, <4>4, <5>1 DEF Descends
      <4> QED
        BY <4>3, <4>4
    <3>3. longer = [k \in 0 .. m |-> longer[k]]
      OBVIOUS
    <3> HIDE DEF longer
    <3> QED
      BY <3>1, <3>2, <3>3 DEF Descends
  <2> QED
    BY <1>4, <2>3
<1> QED
  BY <1>5, <1>6

LEMMA GenerationIsDescent ==
  ASSUME NEW fs, NEW S, NEW n \in Nat
  PROVE  \E gen : Descends(gen, fs, S, n) /\ Generation(fs, S, n) = gen[n]
<1> DEFINE Follows(g) == g = [k \in 0 .. n |-> IF k = 0 THEN S ELSE Children(fs, g[k - 1])]
           gen == CHOOSE g : Follows(g)
<1>1. Generation(fs, S, n) = gen[n]
  BY DEF Generation
<1>2. ASSUME NEW g PROVE Follows(g) <=> Descends(g, fs, S, n)
  <2>1. Follows(g) => Descends(g, fs, S, n)
    <3> HAVE Follows(g)
    <3>1. DOMAIN g = 0 .. n /\ \A k \in 0 .. n : g[k] = IF k = 0 THEN S ELSE Children(fs, g[k - 1])
      OBVIOUS
    <3>2. g = [k \in 0 .. n |-> g[k]]
      OBVIOUS
    <3>3. g[0] = S /\ \A k \in 1 .. n : g[k] = Children(fs, g[k - 1])
      <4>1. 0 \in 0 .. n /\ \A k \in 1 .. n : k \in 0 .. n /\ k # 0
        OBVIOUS
      <4> HIDE DEF Follows
      <4> QED
        BY <3>1, <4>1
    <3> HIDE DEF Follows
    <3> QED
      BY <3>2, <3>3 DEF Descends
  <2>2. Descends(g, fs, S, n) => Follows(g)
    <3> HAVE Descends(g, fs, S, n)
    <3> DEFINE h == [k \in 0 .. n |-> IF k = 0 THEN S ELSE Children(fs, g[k - 1])]
    <3>1. ASSUME NEW k \in 0 .. n PROVE g[k] = h[k]
      <4>1. CASE k = 0
        BY <4>1 DEF Descends
      <4>2. CASE k # 0
        <5>1. k \in 1 .. n
          BY <4>2
        <5> QED
          BY <4>2, <5>1 DEF Descends
      <4> QED
        BY <4>1, <4>2
    <3>2. h = [k \in 0 .. n |-> h[k]] /\ g = [k \in 0 .. n |-> g[k]]
      BY DEF Descends
    <3>3. g = h
      <4> HIDE DEF h
      <4> QED
        BY <3>1, <3>2
    <3> QED
      BY <3>3
  <2> QED
    BY <2>1, <2>2
<1>3. \E g : Follows(g)
  <2>1. PICK g : Descends(g, fs, S, n)
    BY DescentExists
  <2> QED
    BY <1>2, <2>1
<1>4. Follows(gen)
  <2> HIDE DEF Follows
  <2> QED
    BY <1>3
<1>5. Descends(gen, fs, S, n)
  <2> HIDE DEF Follows, gen
  <2> QED
    BY <1>2, <1>4
<1> HIDE DEF gen
<1> QED
  BY <1>1, <1>5

LEMMA DescentsAgree ==
  ASSUME NEW fs, NEW S, NEW n \in Nat, NEW m \in Nat, NEW g, NEW h,
         Descends(g, fs, S, n), Descends(h, fs, S, m), NEW j \in Nat, j <= n, j <= m
  PROVE  g[j] = h[j]
<1> DEFINE T == {k \in Nat : k <= n /\ k <= m /\ g[k] # h[k]}
<1>1. SUFFICES ASSUME j \in T PROVE FALSE
  OBVIOUS
<1>2. T \in SUBSET Nat /\ T # {}
  BY <1>1
<1> HIDE DEF T
<1>3. PICK k \in T : \A l \in T : k <= l
  BY <1>2, FirstExists
<1>4. k \in Nat /\ k <= n /\ k <= m /\ g[k] # h[k]
  BY <1>3 DEF T
<1>5. k # 0
  BY <1>4 DEF Descends
<1>6. k - 1 \in Nat /\ k - 1 <= n /\ k - 1 <= m /\ k - 1 \notin T
  BY <1>3, <1>4, <1>5
<1>7. g[k - 1] = h[k - 1]
  BY <1>6 DEF T
<1>8. k \in 1 .. n /\ k \in 1 .. m
  BY <1>4, <1>5
<1> QED
  BY <1>4, <1>7, <1>8 DEF Descends

LEMMA GenerationSteps ==
  ASSUME NEW fs, NEW S
  PROVE  /\ Generation(fs, S, 0) = S
         /\ \A n \in Nat : Generation(fs, S, n + 1) = Children(fs, Generation(fs, S, n))
<1>1. Generation(fs, S, 0) = S
  <2>1. PICK gen : Descends(gen, fs, S, 0) /\ Generation(fs, S, 0) = gen[0]
    BY GenerationIsDescent
  <2> QED
    BY <2>1 DEF Descends
<1>2. ASSUME NEW n \in Nat
      PROVE  Generation(fs, S, n + 1) = Children(fs, Generation(fs, S, n))
  <2>1. PICK g : Descends(g, fs, S, n) /\ Generation(fs, S, n) = g[n]
    BY GenerationIsDescent
  <2>2. n + 1 \in Nat
    OBVIOUS
  <2>3. PICK h : Descends(h, fs, S, n + 1) /\ Generation(fs, S, n + 1) = h[n + 1]
    BY <2>2, GenerationIsDescent
  <2>4. h[n + 1] = Children(fs, h[n])
    <3>1. n + 1 \in 1 .. n + 1 /\ (n + 1) - 1 = n
      OBVIOUS
    <3> QED
      BY <2>3, <3>1 DEF Descends
  <2>5. g[n] = h[n]
    <3>1. n <= n /\ n <= n + 1
      OBVIOUS
    <3> QED
      BY <2>1, <2>2, <2>3, <3>1, DescentsAgree
  <2> QED
    BY <2>1, <2>3, <2>4, <2>5
<1> QED
  BY <1>1, <1>2

(***************************************************************************)
(* Whoever is below the root, and is not the root, has a parent there.     *)
(***************************************************************************)
LEMMA BelowRoot ==
  ASSUME NEW fs, IsFiniteSet(DOMAIN fs), NEW root
  PROVE  /\ root \in Below(fs, {root})
         /\ Below(fs, {root}) \subseteq DOMAIN fs \cup {root}
         /\ \A i \in Below(fs, {root}) \ {root} : fs[i].parent \in Below(fs, {root})
<1> DEFINE n == Cardinality(DOMAIN fs)
<1>1. n \in Nat
  BY FS_CardinalityType
<1>2. \A i : i \in Below(fs, {root}) <=> \E k \in 0 .. n : i \in Generation(fs, {root}, k)
  BY DEF Below
<1> HIDE DEF n
<1>3. root \in Below(fs, {root})
  BY <1>1, <1>2, GenerationSteps
<1>4. ASSUME NEW i \in Below(fs, {root}), i # root
      PROVE  i \in DOMAIN fs /\ fs[i].parent \in Below(fs, {root})
  <2>1. PICK k \in 0 .. n : i \in Generation(fs, {root}, k)
    BY <1>2
  <2>2. k # 0
    BY <1>4, <2>1, GenerationSteps
  <2>3. k - 1 \in Nat /\ k - 1 \in 0 .. n /\ (k - 1) + 1 = k
    BY <1>1, <2>2
  <2>4. i \in Children(fs, Generation(fs, {root}, k - 1))
    <3>1. PICK l : l = k - 1
      OBVIOUS
    <3>2. Generation(fs, {root}, l + 1) = Children(fs, Generation(fs, {root}, l))
      BY <2>3, <3>1, GenerationSteps
    <3>3. l + 1 = k
      BY <2>3, <3>1
    <3> QED
      BY <2>1, <3>1, <3>2, <3>3
  <2> QED
    BY <1>2, <2>3, <2>4 DEF Children
<1> QED
  BY <1>3, <1>4

(***************************************************************************)
(* The way down from the root to a facet.                                  *)
(***************************************************************************)
WayTo(s, fs, root, i) ==
  /\ s \in Seq(Below(fs, {root}))
  /\ Len(s) >= 1 /\ s[1] = root /\ s[Len(s)] = i
  /\ \A k \in 2 .. Len(s) : s[k] # root /\ fs[s[k]].parent = s[k - 1]

LEMMA WayToRoot ==
  ASSUME NEW fs, IsFiniteSet(DOMAIN fs), NEW root
  PROVE  WayTo(<<root>>, fs, root, root)
<1>1. root \in Below(fs, {root})
  BY BelowRoot
<1> QED
  BY <1>1 DEF WayTo

LEMMA LongerWay ==
  ASSUME NEW fs, IsFiniteSet(DOMAIN fs), NEW root, NEW i \in Below(fs, {root}), i # root,
         NEW s, WayTo(s, fs, root, fs[i].parent)
  PROVE  WayTo(Append(s, i), fs, root, i)
<1> DEFINE t == Append(s, i)
           n == Len(s)
<1>1. s \in Seq(Below(fs, {root})) /\ n \in Nat /\ n >= 1
  BY DEF WayTo
<1>2. /\ t \in Seq(Below(fs, {root})) /\ Len(t) = n + 1 /\ t[n + 1] = i
      /\ \A k \in 1 .. n : t[k] = s[k]
  BY <1>1, AppendProperties
<1> HIDE DEF t
<1>3. t[1] = root
  BY <1>1, <1>2 DEF WayTo
<1>4. ASSUME NEW k \in 2 .. n + 1
      PROVE  t[k] # root /\ fs[t[k]].parent = t[k - 1]
  <2>1. CASE k = n + 1
    <3>1. k - 1 \in 1 .. n /\ k - 1 = n
      BY <1>1, <2>1
    <3>2. s[n] = fs[i].parent
      BY DEF WayTo
    <3> QED
      BY <1>2, <2>1, <3>1, <3>2
  <2>2. CASE k # n + 1
    <3>1. k \in 2 .. n /\ k \in 1 .. n /\ k - 1 \in 1 .. n
      BY <1>1, <2>2
    <3>2. s[k] # root /\ fs[s[k]].parent = s[k - 1]
      BY <3>1 DEF WayTo
    <3> QED
      BY <1>2, <3>1, <3>2
  <2> QED
    BY <2>1, <2>2
<1>5. WayTo(t, fs, root, i)
  BY <1>1, <1>2, <1>3, <1>4 DEF WayTo
<1> QED
  BY <1>5 DEF t

LEMMA WayExists ==
  ASSUME NEW fs, IsFiniteSet(DOMAIN fs), NEW root, NEW i \in Below(fs, {root})
  PROVE  \E s : WayTo(s, fs, root, i)
<1> DEFINE n == Cardinality(DOMAIN fs)
           Lost(j) == ~\E s : WayTo(s, fs, root, j)
           T == {k \in Nat : k <= n /\ \E j \in Generation(fs, {root}, k) : Lost(j)}
<1>1. n \in Nat
  BY FS_CardinalityType
<1>2. \A j, k : k \in 0 .. n /\ j \in Generation(fs, {root}, k) => j \in Below(fs, {root})
  BY DEF Below
<1>3. SUFFICES ASSUME Lost(i) PROVE FALSE
  OBVIOUS
<1>4. PICK k0 \in 0 .. n : i \in Generation(fs, {root}, k0)
  BY DEF Below
<1> HIDE DEF n, Lost
<1>5. k0 \in T
  BY <1>1, <1>3, <1>4
<1>6. T \in SUBSET Nat /\ T # {}
  BY <1>5
<1> HIDE DEF T
<1>7. PICK k \in T : \A l \in T : k <= l
  BY <1>6, FirstExists
<1>8. k \in Nat /\ k <= n /\ \E j \in Generation(fs, {root}, k) : Lost(j)
  BY <1>7 DEF T
<1>9. PICK j \in Generation(fs, {root}, k) : Lost(j)
  BY <1>8
<1>10. j # root
  BY <1>9, WayToRoot DEF Lost
<1>11. k # 0
  BY <1>9, <1>10, GenerationSteps
<1>12. k - 1 \in Nat /\ k - 1 <= n /\ (k - 1) + 1 = k /\ k - 1 \notin T
  BY <1>1, <1>7, <1>8, <1>11
<1>13. j \in Children(fs, Generation(fs, {root}, k - 1))
  <2>1. PICK l : l = k - 1
    OBVIOUS
  <2>2. Generation(fs, {root}, l + 1) = Children(fs, Generation(fs, {root}, l))
    BY <1>12, <2>1, GenerationSteps
  <2>3. l + 1 = k
    BY <1>12, <2>1
  <2> QED
    BY <1>9, <2>1, <2>2, <2>3
<1>14. fs[j].parent \in Generation(fs, {root}, k - 1)
  BY <1>13 DEF Children
<1>15. ~Lost(fs[j].parent)
  BY <1>12, <1>14 DEF T
<1>16. PICK s : WayTo(s, fs, root, fs[j].parent)
  BY <1>15 DEF Lost
<1>17. j \in Below(fs, {root})
  BY <1>1, <1>2, <1>8, <1>9
<1> QED
  BY <1>9, <1>10, <1>16, <1>17, LongerWay DEF Lost

(***************************************************************************)
(* There is one way: from its end it leads up from parent to parent until  *)
(* it meets the root.                                                      *)
(***************************************************************************)
LEMMA WaysAgreeFromBelow ==
  ASSUME NEW fs, NEW root, NEW i, NEW s, WayTo(s, fs, root, i), NEW t, WayTo(t, fs, root, i),
         NEW j \in Nat, j < Len(s), j < Len(t)
  PROVE  s[Len(s) - j] = t[Len(t) - j]
<1> DEFINE m == Len(s)
           n == Len(t)
           T == {k \in Nat : k < m /\ k < n /\ s[m - k] # t[n - k]}
<1>0. m \in Nat /\ n \in Nat /\ s[m] = i /\ t[n] = i
  BY DEF WayTo
<1>1. SUFFICES ASSUME j \in T PROVE FALSE
  OBVIOUS
<1>2. T \in SUBSET Nat /\ T # {}
  BY <1>1
<1> HIDE DEF T, m, n
<1>3. PICK k \in T : \A l \in T : k <= l
  BY <1>2, FirstExists
<1>4. k \in Nat /\ k < m /\ k < n /\ s[m - k] # t[n - k]
  BY <1>3 DEF T
<1>5. k # 0
  BY <1>0, <1>4
<1>6. k - 1 \in Nat /\ k - 1 < m /\ k - 1 < n /\ k - 1 \notin T
  BY <1>0, <1>3, <1>4, <1>5
<1>7. s[m - (k - 1)] = t[n - (k - 1)]
  BY <1>6 DEF T
<1>8. /\ m - (k - 1) \in 2 .. m /\ (m - (k - 1)) - 1 = m - k
      /\ n - (k - 1) \in 2 .. n /\ (n - (k - 1)) - 1 = n - k
  BY <1>0, <1>4, <1>5
<1>9. \A l \in 2 .. m : fs[s[l]].parent = s[l - 1]
  BY DEF WayTo, m
<1>10. \A l \in 2 .. n : fs[t[l]].parent = t[l - 1]
  BY DEF WayTo, n
<1> QED
  BY <1>4, <1>7, <1>8, <1>9, <1>10

LEMMA OneWay ==
  ASSUME NEW fs, NEW root, NEW i, NEW s, WayTo(s, fs, root, i), NEW t, WayTo(t, fs, root, i)
  PROVE  s = t
<1> DEFINE m == Len(s)
           n == Len(t)
           D == Below(fs, {root})
<1>1. /\ m \in Nat /\ n \in Nat /\ m >= 1 /\ n >= 1 /\ s \in Seq(D) /\ t \in Seq(D)
      /\ s[1] = root /\ t[1] = root
      /\ \A k \in 2 .. m : s[k] # root
      /\ \A k \in 2 .. n : t[k] # root
  BY DEF WayTo
<1>2. \A j \in Nat : j < m /\ j < n => s[m - j] = t[n - j]
  BY WaysAgreeFromBelow
<1> HIDE DEF m, n, D
<1>3. ~ m < n
  <2> SUFFICES ASSUME m < n PROVE FALSE
    OBVIOUS
  <2>1. m - 1 \in Nat /\ m - 1 < m /\ m - 1 < n /\ m - (m - 1) = 1 /\ n - (m - 1) \in 2 .. n
    BY <1>1
  <2> QED
    BY <1>1, <1>2, <2>1
<1>4. ~ n < m
  <2> SUFFICES ASSUME n < m PROVE FALSE
    OBVIOUS
  <2>1. n - 1 \in Nat /\ n - 1 < m /\ n - 1 < n /\ n - (n - 1) = 1 /\ m - (n - 1) \in 2 .. m
    BY <1>1
  <2> QED
    BY <1>1, <1>2, <2>1
<1>5. m = n
  BY <1>1, <1>3, <1>4
<1>6. ASSUME NEW k \in 1 .. m PROVE s[k] = t[k]
  <2>1. m - k \in Nat /\ m - k < m /\ m - k < n /\ m - (m - k) = k /\ n - (m - k) = k
    BY <1>1, <1>5
  <2> QED
    BY <1>2, <2>1
<1> QED
  BY <1>1, <1>5, <1>6, SeqEqual DEF m, n

(***************************************************************************)
(* File names, and that two siblings do not share one: unique_slug numbers *)
(* the younger one higher.                                                 *)
(***************************************************************************)
LEMMA NamesAreNames ==
  ASSUME NEW D, IsFiniteSet(D), NEW order \in Ages(D), NEW i \in D,
         facets[i].cols[Title] \in Values
  PROVE  NameOf(i, order) \in Names
<1> DEFINE elder == {j \in DOMAIN order :
                  /\ facets[j].parent = facets[i].parent
                  /\ Slug(j) = Slug(i)
                  /\ order[j] < order[i]}
<1>1. elder \subseteq D
  BY DEF Ages, Injection
<1>2. NameOf(i, order) = <<Slug(i), 1 + Cardinality(elder)>>
  BY DEF NameOf
<1> HIDE DEF elder
<1>3. Cardinality(elder) \in Nat
  BY <1>1, FS_Subset, FS_CardinalityType
<1>4. Slug(i) \in Slugs
  BY ColumnsAssumption DEF Slug
<1> QED
  BY <1>2, <1>3, <1>4 DEF Names

LEMMA YoungerSiblingsDiffer ==
  ASSUME NEW D, IsFiniteSet(D), NEW order \in Ages(D), NEW i \in D, NEW j \in D,
         facets[i].parent = facets[j].parent, order[i] < order[j]
  PROVE  NameOf(i, order) # NameOf(j, order)
<1> DEFINE Elder(k) == {l \in DOMAIN order :
                  /\ facets[l].parent = facets[k].parent
                  /\ Slug(l) = Slug(k)
                  /\ order[l] < order[k]}
<1>1. /\ NameOf(i, order) = <<Slug(i), 1 + Cardinality(Elder(i))>>
      /\ NameOf(j, order) = <<Slug(j), 1 + Cardinality(Elder(j))>>
  BY DEF NameOf
<1>2. DOMAIN order = D /\ \A k \in D : order[k] \in Int
  <2>1. Cardinality(D) \in Nat /\ order \in [D -> 1 .. Cardinality(D)]
    BY FS_CardinalityType DEF Ages, Injection
  <2> QED
    BY <2>1
<1>3. Elder(i) \subseteq D /\ Elder(j) \subseteq D /\ i \notin Elder(i)
  BY <1>2
<1> SUFFICES ASSUME Slug(i) = Slug(j),
                    1 + Cardinality(Elder(i)) = 1 + Cardinality(Elder(j))
             PROVE  FALSE
  <2> HIDE DEF Elder
  <2> QED
    BY <1>1
<1>4. i \in Elder(j)
  BY <1>2
<1>5. Elder(i) \subseteq Elder(j)
  BY <1>2
<1> HIDE DEF Elder
<1>6. IsFiniteSet(Elder(i)) /\ IsFiniteSet(Elder(j))
  BY <1>3, FS_Subset
<1>7. Cardinality(Elder(i)) \in Nat /\ Cardinality(Elder(j)) \in Nat
  BY <1>6, FS_CardinalityType
<1>8. Cardinality(Elder(i)) = Cardinality(Elder(j))
  BY <1>7
<1>9. Elder(i) = Elder(j)
  BY <1>5, <1>6, <1>8, FS_Subset
<1> QED
  BY <1>3, <1>4, <1>9

LEMMA SiblingsDiffer ==
  ASSUME NEW D, IsFiniteSet(D), NEW order \in Ages(D), NEW i \in D, NEW j \in D,
         facets[i].parent = facets[j].parent, NameOf(i, order) = NameOf(j, order)
  PROVE  i = j
<1>1. Cardinality(D) \in Nat /\ order \in [D -> 1 .. Cardinality(D)]
      /\ (order[i] = order[j] => i = j)
  BY FS_CardinalityType DEF Ages, Injection, IsInjective
<1>2. ~ order[i] < order[j] /\ ~ order[j] < order[i]
  BY YoungerSiblingsDiffer
<1> QED
  BY <1>1, <1>2

(***************************************************************************)
(* The paths of a checkout are what their recursion says: the root lies at *)
(* the top, any other facet in the directory named after its parent.       *)
(***************************************************************************)
IsPaths(path, root, order) ==
  LET D == Below(facets, {root})
  IN  /\ path \in [D -> Seq(Names)]
      /\ path[root] = <<NameOf(root, order)>>
      /\ \A i \in D \ {root} : path[i] = Append(path[facets[i].parent], NameOf(i, order))

LEMMA PathsExist ==
  ASSUME IsFiniteSet(Live), NEW root, NEW order,
         \A i \in Below(facets, {root}) : NameOf(i, order) \in Names
  PROVE  \E path : IsPaths(path, root, order)
<1> DEFINE D == Below(facets, {root})
           way == [i \in D |-> CHOOSE s : WayTo(s, facets, root, i)]
           path == [i \in D |-> [k \in 1 .. Len(way[i]) |-> NameOf(way[i][k], order)]]
<1>1. /\ root \in D
      /\ \A i \in D \ {root} : facets[i].parent \in D
  BY BelowRoot DEF Live
<1>2. ASSUME NEW i \in D
      PROVE  WayTo(way[i], facets, root, i)
  BY WayExists DEF Live
<1> HIDE DEF way
<1>3. way[root] = <<root>>
  BY <1>1, <1>2, WayToRoot, OneWay DEF Live
<1>4. ASSUME NEW i \in D, i # root
      PROVE  way[i] = Append(way[facets[i].parent], i)
  <2>1. PICK p : p = facets[i].parent
    OBVIOUS
  <2>2. WayTo(way[p], facets, root, p) /\ WayTo(way[i], facets, root, i)
    BY <1>1, <1>2, <1>4, <2>1
  <2>3. WayTo(Append(way[p], i), facets, root, i)
    BY <1>4, <2>1, <2>2, LongerWay DEF Live
  <2> QED
    BY <2>1, <2>2, <2>3, OneWay
<1>5. ASSUME NEW i \in D
      PROVE  /\ Len(way[i]) \in Nat /\ way[i] \in Seq(D)
             /\ path[i] \in Seq(Names) /\ Len(path[i]) = Len(way[i])
             /\ \A k \in 1 .. Len(way[i]) : path[i][k] = NameOf(way[i][k], order)
  <2>1. way[i] \in Seq(D) /\ Len(way[i]) \in Nat
    <3>1. way[i] \in Seq(D)
      BY <1>2 DEF WayTo
    <3> QED
      BY <3>1, LenProperties
  <2>2. \A k \in 1 .. Len(way[i]) : way[i][k] \in D
    BY <2>1, ElementOfSeq
  <2>3. path[i] = [k \in 1 .. Len(way[i]) |-> NameOf(way[i][k], order)]
    OBVIOUS
  <2>4. path[i] \in [1 .. Len(way[i]) -> Names]
    <3> HIDE DEF path, D
    <3> QED
      BY <2>2, <2>3 DEF D
  <2>5. path[i] \in Seq(Names) /\ Len(path[i]) = Len(way[i])
    <3> HIDE DEF path, D
    <3> QED
      BY <2>1, <2>4
  <2> QED
    BY <2>1, <2>3, <2>5
<1> HIDE DEF D
<1>6. path[root] = <<NameOf(root, order)>>
  <2>1. Len(<<root>>) = 1 /\ <<root>>[1] = root
    OBVIOUS
  <2>2. path[root] \in Seq(Names) /\ Len(path[root]) = 1 /\ path[root][1] = NameOf(root, order)
    <3> HIDE DEF path
    <3>1. way[root][1] = root /\ Len(way[root]) = 1
      BY <1>3, <2>1
    <3>2. 1 \in 1 .. Len(way[root])
      BY <3>1
    <3> QED
      BY <1>1, <1>5, <3>1, <3>2
  <2> HIDE DEF path
  <2> QED
    BY <2>2
<1> HIDE DEF path
<1>7. ASSUME NEW i \in D, i # root
      PROVE  path[i] = Append(path[facets[i].parent], NameOf(i, order))
  <2> PICK p : p = facets[i].parent
    OBVIOUS
  <2> PICK n : n = Len(way[p])
    OBVIOUS
  <2>1. p \in D
    BY <1>1, <1>7
  <2>2. n \in Nat /\ way[p] \in Seq(D) /\ way[i] = Append(way[p], i)
    BY <1>4, <1>5, <1>7, <2>1
  <2>3. /\ Len(way[i]) = n + 1 /\ way[i][n + 1] = i
        /\ \A k \in 1 .. n : way[i][k] = way[p][k]
    BY <2>2, AppendProperties
  <2>4. /\ path[i] \in Seq(Names) /\ Len(path[i]) = n + 1
        /\ \A k \in 1 .. n + 1 : path[i][k] = NameOf(way[i][k], order)
    BY <1>5, <2>3
  <2>5. /\ path[p] \in Seq(Names) /\ Len(path[p]) = n
        /\ \A k \in 1 .. n : path[p][k] = NameOf(way[p][k], order)
    BY <1>5, <2>1
  <2>6. NameOf(i, order) \in Names
    BY DEF D
  <2> DEFINE longer == Append(path[p], NameOf(i, order))
  <2>7. /\ longer \in Seq(Names) /\ Len(longer) = n + 1
        /\ longer[n + 1] = NameOf(i, order)
        /\ \A k \in 1 .. n : longer[k] = path[p][k]
    BY <2>5, <2>6, AppendProperties
  <2> HIDE DEF longer
  <2>8. ASSUME NEW k \in 1 .. n + 1 PROVE path[i][k] = longer[k]
    <3>1. CASE k = n + 1
      BY <2>2, <2>3, <2>4, <2>7, <3>1
    <3>2. CASE k # n + 1
      <4>1. k \in 1 .. n
        BY <2>2, <3>2
      <4> QED
        BY <2>3, <2>4, <2>5, <2>7, <4>1
    <3> QED
      BY <3>1, <3>2
  <2>9. path[i] = longer
    BY <2>2, <2>4, <2>7, <2>8, SeqEqual
  <2> QED
    BY <2>9 DEF longer
<1>8. path \in [D -> Seq(Names)]
  <2>1. path = [i \in D |-> path[i]]
    BY DEF path
  <2> QED
    BY <1>5, <2>1
<1>9. IsPaths(path, root, order)
  BY <1>6, <1>7, <1>8 DEF IsPaths, D
<1> QED
  BY <1>9

LEMMA PathsUnderRoot ==
  ASSUME IsFiniteSet(Live), NEW root, NEW order \in Ages(Below(facets, {root})),
         \A i \in Below(facets, {root}) : NameOf(i, order) \in Names
  PROVE  IsPaths(PathsUnder(root, order), root, order)
<1> DEFINE D == Below(facets, {root})
           Follows(f) == f = [i \in DOMAIN order |->
                                IF i = root THEN <<NameOf(i, order)>>
                                ELSE Append(f[facets[i].parent], NameOf(i, order))]
           path == CHOOSE f : Follows(f)
<1>1. PathsUnder(root, order) = path
  BY DEF PathsUnder
<1>2. DOMAIN order = D
  BY DEF Ages, Injection
<1>3. /\ root \in D
      /\ \A i \in D \ {root} : facets[i].parent \in D
  BY BelowRoot DEF Live
<1> HIDE DEF D
<1>4. PICK f : IsPaths(f, root, order)
  BY PathsExist
<1>5. Follows(f)
  <2>1. f = [i \in D |-> f[i]]
    BY <1>4 DEF IsPaths, D
  <2>2. \A i \in D : f[i] = IF i = root THEN <<NameOf(i, order)>>
                            ELSE Append(f[facets[i].parent], NameOf(i, order))
    BY <1>4 DEF IsPaths, D
  <2> QED
    BY <1>2, <2>1, <2>2
<1>6. Follows(path)
  <2> HIDE DEF Follows
  <2> QED
    BY <1>5
<1> HIDE DEF path
<1>7. /\ DOMAIN path = D
      /\ path[root] = <<NameOf(root, order)>>
      /\ \A i \in D \ {root} : path[i] = Append(path[facets[i].parent], NameOf(i, order))
  BY <1>2, <1>3, <1>6
<1>8. path \in [D -> Seq(Names)]
  <2>0. path = [i \in D |-> path[i]]
    BY <1>2, <1>6
  <2> HIDE DEF Follows
  <2> DEFINE T == {n \in Nat : \E i \in D : /\ path[i] \notin Seq(Names)
                                          /\ \E s : WayTo(s, facets, root, i) /\ Len(s) = n}
  <2>1. ASSUME NEW i \in D, path[i] \notin Seq(Names) PROVE FALSE
    <3>1. PICK s : WayTo(s, facets, root, i)
      BY WayExists DEF Live, D
    <3>2. T \in SUBSET Nat /\ T # {}
      <4>1. Len(s) \in Nat
        BY <3>1, LenProperties DEF WayTo
      <4>2. Len(s) \in T
        BY <2>1, <3>1, <4>1
      <4> QED
        BY <4>2
    <3> HIDE DEF T
    <3>3. PICK n \in T : \A k \in T : n <= k
      BY <3>2, FirstExists
    <3>4. PICK j \in D : path[j] \notin Seq(Names) /\ \E t : WayTo(t, facets, root, j) /\ Len(t) = n
      BY <3>3 DEF T
    <3>40. PICK t : WayTo(t, facets, root, j) /\ Len(t) = n
      BY <3>4
    <3>41. path[root] \in Seq(Names)
      <4>1. NameOf(root, order) \in Names
        BY <1>3 DEF D
      <4> QED
        BY <1>7, <4>1
    <3>5. j # root
      BY <3>4, <3>41
    <3>6. PICK p : p = facets[j].parent
      OBVIOUS
    <3>7. p \in D
      BY <1>3, <3>5, <3>6
    <3>8. PICK u : WayTo(u, facets, root, p)
      BY <3>7, WayExists DEF Live, D
    <3>9. WayTo(Append(u, j), facets, root, j)
      BY <3>5, <3>6, <3>8, LongerWay DEF Live, D
    <3>10. t = Append(u, j)
      BY <3>40, <3>9, OneWay
    <3>11. u \in Seq(D) /\ Len(u) \in Nat /\ Len(t) = Len(u) + 1
      BY <3>8, <3>10, AppendProperties DEF WayTo, D
    <3>12. Len(u) \notin T
      BY <3>3, <3>40, <3>11
    <3>13. path[p] \in Seq(Names)
      BY <3>7, <3>8, <3>11, <3>12 DEF T
    <3>14. path[j] \in Seq(Names)
      <4>1. NameOf(j, order) \in Names
        BY DEF D
      <4>2. path[j] = Append(path[p], NameOf(j, order))
        BY <1>7, <3>5, <3>6
      <4> QED
        BY <3>13, <4>1, <4>2, AppendProperties
    <3> QED
      BY <3>4, <3>14
  <2> QED
    BY <2>0, <2>1
<1> QED
  BY <1>1, <1>7, <1>8 DEF IsPaths, D

LEMMA FrontOfAppend ==
  ASSUME NEW S, NEW s \in Seq(S), NEW e \in S
  PROVE  Front(Append(s, e)) = s
<1>1. /\ Append(s, e) \in Seq(S) /\ Len(Append(s, e)) = Len(s) + 1
      /\ \A k \in 1 .. Len(s) : Append(s, e)[k] = s[k]
  BY AppendProperties
<1>2. Len(s) \in Nat /\ (Len(s) + 1) - 1 = Len(s)
  BY LenProperties
<1>3. Front(Append(s, e)) = SubSeq(Append(s, e), 1, Len(s))
  BY <1>1, <1>2 DEF Front
<1>4. \A k \in 1 .. Len(s) : Append(s, e)[k] \in S
  BY <1>1, ElementOfSeq
<1>5. /\ SubSeq(Append(s, e), 1, Len(s)) \in Seq(S)
      /\ Len(SubSeq(Append(s, e), 1, Len(s))) = Len(s)
      /\ \A k \in 1 .. Len(s) : SubSeq(Append(s, e), 1, Len(s))[k] = s[k]
  <2> PICK t : t = Append(s, e)
    OBVIOUS
  <2> PICK n : n = Len(s)
    OBVIOUS
  <2>1. n \in Nat /\ \A k \in 1 .. n : t[k] \in S /\ t[k] = s[k]
    BY <1>1, <1>2, <1>4
  <2>2. /\ SubSeq(t, 1, n) \in Seq(S)
        /\ Len(SubSeq(t, 1, n)) = IF 1 <= n THEN n - 1 + 1 ELSE 0
        /\ \A k \in 1 .. n - 1 + 1 : SubSeq(t, 1, n)[k] = t[1 + k - 1]
    BY <2>1, SubSeqProperties
  <2>3. \A k \in 1 .. n : k \in 1 .. n - 1 + 1 /\ 1 + k - 1 = k
    BY <2>1
  <2>4. Len(SubSeq(t, 1, n)) = n
    BY <2>1, <2>2
  <2> QED
    BY <2>1, <2>2, <2>3, <2>4
<1> QED
  BY <1>3, <1>5, SeqEqual

(***************************************************************************)
(* The root's path is one name long, any other one longer than its         *)
(* directory, which is the path of the parent.                             *)
(***************************************************************************)
WellPlaced(path, root, i) ==
  /\ Len(path[i]) \in Nat /\ Len(path[i]) >= 1
  /\ i = root => Len(path[i]) = 1
  /\ i # root => /\ facets[i].parent \in Below(facets, {root})
                 /\ Len(path[i]) = Len(path[facets[i].parent]) + 1
                 /\ Len(path[i]) # 1
                 /\ Front(path[i]) = path[facets[i].parent]

LEMMA PathShape ==
  ASSUME IsFiniteSet(Live), NEW root, NEW order, NEW path, IsPaths(path, root, order),
         \A i \in Below(facets, {root}) : NameOf(i, order) \in Names
  PROVE  \A i \in Below(facets, {root}) : WellPlaced(path, root, i)
<1> DEFINE D == Below(facets, {root})
<1>1. /\ root \in D
      /\ \A i \in D \ {root} : facets[i].parent \in D
  BY BelowRoot DEF Live
<1> HIDE DEF D
<1>2. /\ path \in [D -> Seq(Names)]
      /\ path[root] = <<NameOf(root, order)>>
      /\ \A i \in D \ {root} : path[i] = Append(path[facets[i].parent], NameOf(i, order))
  BY DEF IsPaths, D
<1>3. \A i \in D : path[i] \in Seq(Names) /\ Len(path[i]) \in Nat
  BY <1>2, LenProperties
<1>4. Len(path[root]) = 1
  BY <1>2
<1>5. ASSUME NEW i \in D \ {root}
      PROVE  /\ Len(path[i]) = Len(path[facets[i].parent]) + 1
             /\ Front(path[i]) = path[facets[i].parent]
  <2> PICK p : p = facets[i].parent
    OBVIOUS
  <2>1. p \in D /\ path[p] \in Seq(Names) /\ path[i] = Append(path[p], NameOf(i, order))
    BY <1>1, <1>2, <1>3
  <2>2. NameOf(i, order) \in Names
    BY DEF D
  <2> QED
    BY <2>1, <2>2, AppendProperties, FrontOfAppend
<1>6. \A i \in D : path[i] # <<>>
  <2> TAKE i \in D
  <2>1. CASE i = root
    <3>1. <<NameOf(root, order)>> # <<>>
      OBVIOUS
    <3> QED
      BY <1>2, <2>1, <3>1
  <2>2. CASE i # root
    <3> PICK n : n = Len(path[facets[i].parent])
      OBVIOUS
    <3>1. n \in Nat /\ Len(path[i]) = n + 1
      BY <1>1, <1>3, <1>5, <2>2
    <3> QED
      BY <3>1
  <2> QED
    BY <2>1, <2>2
<1>7. \A i \in D : Len(path[i]) >= 1
  BY <1>3, <1>6
<1>8. \A i \in D \ {root} : Len(path[i]) # 1
  <2> TAKE i \in D \ {root}
  <2> PICK n : n = Len(path[facets[i].parent])
    OBVIOUS
  <2>1. n \in Nat /\ n >= 1 /\ Len(path[i]) = n + 1
    BY <1>1, <1>3, <1>5, <1>7
  <2> QED
    BY <2>1
<1> QED
  <2> SUFFICES ASSUME NEW i \in D PROVE WellPlaced(path, root, i)
    BY DEF D
  <2>1. CASE i = root
    BY <1>3, <1>4, <1>7, <2>1 DEF WellPlaced
  <2>2. CASE i # root
    BY <1>1, <1>3, <1>5, <1>7, <1>8, <2>2 DEF WellPlaced, D
  <2> QED
    BY <2>1, <2>2

(***************************************************************************)
(* No two facets share a path: two that did would be siblings of one name, *)
(* or their parents would share one already.                               *)
(***************************************************************************)
LEMMA PathsDiffer ==
  ASSUME IsFiniteSet(Live), NEW root \in Live, NEW order \in Ages(Below(facets, {root})),
         NEW path, IsPaths(path, root, order),
         \A i \in Below(facets, {root}) : NameOf(i, order) \in Names
  PROVE  \A a, b \in Below(facets, {root}) : path[a] = path[b] => a = b
<1>2. \A i \in Below(facets, {root}) : WellPlaced(path, root, i)
  BY PathShape
<1> DEFINE D == Below(facets, {root})
           T == {n \in Nat : \E i, j \in D : i # j /\ path[i] = path[j] /\ Len(path[i]) = n}
<1>0. IsFiniteSet(D)
  BY BelowRoot, FS_Subset, FS_AddElement DEF Live
<1>1. /\ \A i \in D : path[i] \in Seq(Names)
      /\ \A i \in D \ {root} : path[i] = Append(path[facets[i].parent], NameOf(i, order))
  BY DEF IsPaths
<1> SUFFICES ASSUME NEW a \in D, NEW b \in D, path[a] = path[b], a # b PROVE FALSE
  OBVIOUS
<1>3. Len(path[a]) \in T
  <2>1. Len(path[a]) \in Nat
    BY <1>2 DEF WellPlaced
  <2> QED
    BY <2>1
<1>30. T \in SUBSET Nat /\ T # {}
  BY <1>3
<1> HIDE DEF T
<1>4. PICK n \in T : \A k \in T : n <= k
  BY <1>30, FirstExists
<1>5. PICK i, j \in D : i # j /\ path[i] = path[j] /\ Len(path[i]) = n
  BY <1>4 DEF T
<1>6. i # root /\ j # root
  BY <1>2, <1>5 DEF WellPlaced
<1> PICK p : p = facets[i].parent
  OBVIOUS
<1> PICK q : q = facets[j].parent
  OBVIOUS
<1>7. /\ p \in D /\ path[p] \in Seq(Names) /\ path[i] = Append(path[p], NameOf(i, order))
      /\ q \in D /\ path[q] \in Seq(Names) /\ path[j] = Append(path[q], NameOf(j, order))
      /\ Len(path[p]) \in Nat /\ n = Len(path[p]) + 1
  <2>1. WellPlaced(path, root, i) /\ WellPlaced(path, root, j)
    BY <1>2
  <2>2. p \in D /\ q \in D /\ n = Len(path[p]) + 1
    BY <1>5, <1>6, <2>1 DEF WellPlaced
  <2>3. path[p] \in Seq(Names) /\ path[q] \in Seq(Names)
    BY <1>1, <2>2
  <2>4. Len(path[p]) \in Nat
    BY <2>3, LenProperties
  <2> QED
    BY <1>1, <1>5, <1>6, <2>2, <2>3, <2>4
<1>8. NameOf(i, order) \in Names /\ NameOf(j, order) \in Names
  OBVIOUS
<1> HIDE DEF D
<1>9. path[p] = path[q]
  <2>1. Front(Append(path[p], NameOf(i, order))) = path[p]
    BY <1>7, <1>8, FrontOfAppend
  <2>2. Front(Append(path[q], NameOf(j, order))) = path[q]
    BY <1>7, <1>8, FrontOfAppend
  <2> QED
    BY <1>5, <1>7, <2>1, <2>2
<1>10. NameOf(i, order) = NameOf(j, order)
  <2> PICK m : m = Len(path[p])
    OBVIOUS
  <2>1. Append(path[p], NameOf(i, order))[m + 1] = NameOf(i, order)
    BY <1>7, <1>8, AppendProperties
  <2>2. Append(path[q], NameOf(j, order))[m + 1] = NameOf(j, order)
    BY <1>7, <1>8, <1>9, AppendProperties
  <2> QED
    BY <1>5, <1>7, <2>1, <2>2
<1>11. Len(path[p]) \notin T
  BY <1>4, <1>7
<1>12. p = q
  BY <1>7, <1>9, <1>11 DEF T
<1>13. i = j
  BY <1>0, <1>10, <1>12, SiblingsDiffer DEF D
<1> QED
  BY <1>5, <1>13

-----------------------------------------------------------------------------
(***************************************************************************)
(* What holds in every state.  Before the checkout there is no copy; after *)
(* it the files name only facets there once were, and what others wrote    *)
(* bears their stamp.  The comparison does not end before it met every     *)
(* file that does not parse, so no flush gets further than that.           *)
(***************************************************************************)
FileIds == {disk[p].id : p \in DOMAIN disk}

Fresh == at = "none" => facets \in Stores /\ disk = Nothing /\ broken = {} /\ manifest = Nothing

CopyOK ==
  /\ IsFiniteSet(DOMAIN manifest)
  /\ DOMAIN manifest \subseteq minted
  /\ FileIds \subseteq minted \cup {None}
  /\ foreign \subseteq minted
  /\ foreign \cap Live \subseteq stamped

StageOK ==
  /\ at \in {"none", "ready"} => diffs = <<>>
  /\ at = "diff" => next = 1 /\ broken \subseteq unread
  /\ at \in {"apply", "write", "flushed"} => unread = {}
  /\ at = "flushed" => next = Len(diffs) + 1

(***************************************************************************)
(* A difference is about the file it was found in, or about a facet that   *)
(* has no file any more; a change of fields found by comparing is about a  *)
(* facet that nobody else had written, unless it was not checked out.      *)
(***************************************************************************)
EntryOK(d) ==
  /\ d.kind # "created" => d.id \in minted
  /\ d.kind = "created" => d.path \in DOMAIN disk
  /\ d.kind \in {"modified", "moved"} => d.path \in DOMAIN disk /\ disk[d.path].id = d.id
  /\ d.kind = "moved" => d.parent = FsParent(d.path)
  /\ d.kind = "deleted" => d.id \in Unseen
  /\ d.kind = "modified" /\ calm => d.id \notin foreign \cap DOMAIN manifest

DiffsOK == \A k \in DOMAIN diffs : EntryOK(diffs[k])

(***************************************************************************)
(* The row a flush is about to write back has the fields of its file.      *)
(***************************************************************************)
WriteOK ==
  at = "write" =>
    /\ next \in DOMAIN diffs /\ diffs[next].kind \in {"modified", "conflict"}
    /\ ~force => diffs[next].id \notin Conflicted
    /\ held \in Rows
    /\ diffs[next].kind = "modified" =>
         \A c \in Compared : held.cols[c] = disk[diffs[next].path].cols[c]

CopyInv ==
  /\ TypeOK /\ Integrity /\ Fresh /\ CopyOK /\ StageOK /\ DiffsOK /\ WriteOK

-----------------------------------------------------------------------------
(***************************************************************************)
(* Any statement leaves minted ids minted and revives nobody.              *)
(***************************************************************************)
LEMMA StatementKeepsIds ==
  ASSUME StoreInv, [StoreNext]_tables
  PROVE  /\ StoreInv' /\ minted \subseteq minted'
         /\ Live' \cap minted \subseteq Live
<1>1. StoreInv'
  BY StoreNextInv
<1>2. CASE \E id \in Ids, row \in Rows : CreateFacet(id, row)
  BY <1>1, <1>2 DEF CreateFacet, InsertRow, Live
<1>3. CASE \E id \in Ids, row \in Rows : UpdateFacet(id, row)
  BY <1>1, <1>3 DEF UpdateFacet, UpdateRow, Live
<1>4. CASE \E id \in Ids, parent \in Parents : MoveFacet(id, parent)
  BY <1>1, <1>4 DEF MoveFacet, SetParent, Live
<1>5. CASE \E id \in Ids : DeleteFacet(id)
  BY <1>1, <1>5 DEF DeleteFacet, DeleteRow, Live
<1>6. CASE \E e \in Edges : AddEdge(e) \/ RemoveEdge(e)
  BY <1>1, <1>6 DEF AddEdge, RemoveEdge, Live
<1>7. CASE UNCHANGED tables
  BY <1>1, <1>7 DEF tables, Live
<1> QED
  BY <1>2, <1>3, <1>4, <1>5, <1>6, <1>7 DEF StoreNext

LEMMA PairIsConcat ==
  ASSUME NEW S, NEW x \in S, NEW y \in S
  PROVE  <<x>> \o <<y>> = <<x, y>>
<1>1. <<x>> \in Seq(S) /\ <<y>> \in Seq(S) /\ <<x, y>> \in Seq(S)
  OBVIOUS
<1>2. /\ <<x>> \o <<y>> \in Seq(S) /\ Len(<<x>> \o <<y>>) = Len(<<x>>) + Len(<<y>>)
      /\ \A k \in 1 .. Len(<<x>>) + Len(<<y>>) :
           (<<x>> \o <<y>>)[k] = IF k <= Len(<<x>>) THEN <<x>>[k] ELSE <<y>>[k - Len(<<x>>)]
  BY <1>1, ConcatProperties
<1>3. Len(<<x>> \o <<y>>) = 2 /\ Len(<<x, y>>) = 2
  BY <1>2
<1>4. (<<x>> \o <<y>>)[1] = x /\ (<<x>> \o <<y>>)[2] = y
  BY <1>2
<1>5. \A k \in 1 .. 2 : (<<x>> \o <<y>>)[k] = <<x, y>>[k]
  BY <1>4
<1> QED
  BY <1>1, <1>2, <1>3, <1>5, SeqEqual

LEMMA TextsAreValues == Texts \subseteq Values
BY ColumnsAssumption

LEMMA FileFields ==
  ASSUME TypeOK, NEW path \in DOMAIN disk
  PROVE  /\ disk[path] \in File
         /\ \A c \in Rendered : disk[path].cols[c] \in Values
<1>1. disk[path] \in File
  BY DEF TypeOK
<1>2. \A c \in Rendered : disk[path].cols[c] \in Texts
  BY <1>1 DEF File
<1> QED
  BY <1>1, <1>2, TextsAreValues

(***************************************************************************)
(* The parent read off the disk is a facet there once was, or none.        *)
(***************************************************************************)
LEMMA ParentIsKnown ==
  ASSUME CopyOK, NEW path
  PROVE  FsParent(path) \in minted \cup {None}
<1> DEFINE dir == Front(path)
           owners == {i \in DOMAIN manifest : manifest[i].path = dir}
<1>1. CASE dir \in DOMAIN disk /\ disk[dir].id # None
  BY <1>1 DEF FsParent, CopyOK, FileIds
<1>2. CASE ~(dir \in DOMAIN disk /\ disk[dir].id # None) /\ owners # {}
  <2>1. FsParent(path) = CHOOSE i \in owners : TRUE
    BY <1>2 DEF FsParent
  <2> QED
    BY <1>2, <2>1 DEF CopyOK
<1>3. CASE ~(dir \in DOMAIN disk /\ disk[dir].id # None) /\ owners = {}
  <2>1. FsParent(path) = None
    BY <1>3 DEF FsParent
  <2> QED
    BY <2>1
<1> QED
  BY <1>1, <1>2, <1>3

(***************************************************************************)
(* What diff finds for one file: each kind of difference under its         *)
(* condition, and nothing else.                                            *)
(***************************************************************************)
Finds(kind, path) ==
  LET i == disk[path].id
  IN  \/ kind = "created" /\ i = None
      \/ kind = "conflict" /\ i # None /\ Conflicting(i)
      \/ kind = "moved" /\ i # None /\ ~Conflicting(i) /\ Moved(path)
      \/ kind = "modified" /\ i # None /\ ~Conflicting(i) /\ Differs(facets[i], disk[path])

FindsOnly(seq, path) ==
  \A k \in DOMAIN seq :
    \E kind \in {"created", "conflict", "moved", "modified"} :
      Finds(kind, path) /\ seq[k] = Entry(kind, disk[path].id, path, FsParent(path))

FindsAll(seq, path) ==
  \A kind \in {"created", "conflict", "moved", "modified"} :
    Finds(kind, path) =>
      \E k \in DOMAIN seq : seq[k] = Entry(kind, disk[path].id, path, FsParent(path))

LEMMA FoundIs ==
  ASSUME TypeOK, CopyOK, NEW path \in DOMAIN disk
  PROVE  /\ Found(path) \in Seq(DiffEntry)
         /\ FindsOnly(Found(path), path) /\ FindsAll(Found(path), path)
<1> PICK i : i = disk[path].id
  OBVIOUS
<1> PICK parent : parent = FsParent(path)
  OBVIOUS
<1>0. path \in Seq(Names) /\ i \in Parents /\ parent \in Parents
  <2>1. parent \in minted \cup {None}
    BY ParentIsKnown
  <2> QED
    BY <2>1 DEF TypeOK, TablesOK, File, Parents
<1> DEFINE E(kind) == Entry(kind, i, path, parent)
<1>1. \A kind \in {"created", "conflict", "moved", "modified"} : E(kind) \in DiffEntry
  BY <1>0 DEF Entry, DiffEntry
<1> DEFINE moved == IF Moved(path) THEN <<E("moved")>> ELSE <<>>
           modified == IF Differs(facets[i], disk[path]) THEN <<E("modified")>> ELSE <<>>
<1>2. Found(path) = CASE i = None -> <<E("created")>>
                      [] i # None /\ Conflicting(i) -> <<E("conflict")>>
                      [] OTHER -> moved \o modified
  BY DEF Found
<1> HIDE DEF E
<1>3. CASE i = None
  <2>1. Found(path) = <<E("created")>>
    BY <1>2, <1>3
  <2>2. \A kind : Finds(kind, path) <=> kind = "created"
    BY <1>3 DEF Finds
  <2> QED
    BY <1>1, <2>1, <2>2 DEF FindsOnly, FindsAll, E
<1>4. CASE i # None /\ Conflicting(i)
  <2>1. Found(path) = <<E("conflict")>>
    BY <1>2, <1>4
  <2>2. \A kind : Finds(kind, path) <=> kind = "conflict"
    BY <1>4 DEF Finds
  <2> QED
    BY <1>1, <2>1, <2>2 DEF FindsOnly, FindsAll, E
<1>5. CASE i # None /\ ~Conflicting(i)
  <2>1. Found(path) = moved \o modified
    BY <1>2, <1>5
  <2>2. \A kind : Finds(kind, path) <=> \/ kind = "moved" /\ Moved(path)
                                        \/ kind = "modified" /\ Differs(facets[i], disk[path])
    BY <1>5 DEF Finds
  <2>3. CASE Moved(path) /\ Differs(facets[i], disk[path])
    <3>1. Found(path) = <<E("moved"), E("modified")>>
      BY <1>1, <2>1, <2>3, PairIsConcat
    <3> QED
      BY <1>1, <2>2, <2>3, <3>1 DEF FindsOnly, FindsAll, E
  <2>4. CASE Moved(path) /\ ~Differs(facets[i], disk[path])
    <3>1. Found(path) = <<E("moved")>>
      BY <2>1, <2>4
    <3> QED
      BY <1>1, <2>2, <2>4, <3>1 DEF FindsOnly, FindsAll, E
  <2>5. CASE ~Moved(path) /\ Differs(facets[i], disk[path])
    <3>1. Found(path) = <<E("modified")>>
      BY <2>1, <2>5
    <3> QED
      BY <1>1, <2>2, <2>5, <3>1 DEF FindsOnly, FindsAll, E
  <2>6. CASE ~Moved(path) /\ ~Differs(facets[i], disk[path])
    <3>1. Found(path) = <<>>
      BY <2>1, <2>6
    <3> QED
      BY <1>1, <2>2, <2>6, <3>1 DEF FindsOnly, FindsAll, E
  <2> QED
    BY <2>3, <2>4, <2>5, <2>6
<1> QED
  BY <1>3, <1>4, <1>5

-----------------------------------------------------------------------------
LEMMA CopyInvIsStoreInv == CopyInv => StoreInv
BY DEF CopyInv, TypeOK, StoreInv

LEMMA InitCopy == Init => CopyInv
<1> SUFFICES ASSUME Init PROVE CopyInv
  OBVIOUS
<1> USE DEF Init
<1>1. IsTable(facets) /\ ParentsExist(facets)
  BY StoresAssumption
<1>2. DOMAIN Nothing = {} /\ Nothing \in [{} -> ManifestEntry]
  BY DEF Nothing
<1>3. TablesOK
  BY <1>1 DEF TablesOK, Live, IsTable
<1>4. TypeOK
  <2>1. /\ DOMAIN disk = {} /\ broken = {}
        /\ DOMAIN manifest = {} /\ manifest \in [DOMAIN manifest -> ManifestEntry]
    BY <1>2
  <2>2. diffs \in Seq(DiffEntry) /\ next \in 1 .. Len(diffs) + 1
    OBVIOUS
  <2>3. DOMAIN disk \subseteq Seq(Names) /\ \A path \in DOMAIN disk : disk[path] \in File
    BY <2>1
  <2>4. at \in Places /\ force \in BOOLEAN /\ calm \in BOOLEAN /\ held \in Rows \cup {None}
    BY DEF Places
  <2>5. stamped = {} /\ unread = {} /\ foreign = {} /\ edited = 0 /\ served = 0
    OBVIOUS
  <2> HIDE DEF Init
  <2> QED
    BY <1>3, <2>1, <2>2, <2>3, <2>4, <2>5 DEF TypeOK
<1>5. Integrity
  BY <1>1 DEF Integrity, RefIntegrity, EdgeEndsExist
<1>6. CopyOK
  BY <1>2, FS_EmptySet DEF CopyOK, FileIds
<1>7. Fresh /\ StageOK /\ DiffsOK /\ WriteOK
  BY DEF Fresh, StageOK, DiffsOK, WriteOK
<1> QED
  BY <1>4, <1>5, <1>6, <1>7 DEF CopyInv

(***************************************************************************)
(* What a checkout writes: every facet below the root gets one file at its *)
(* own path, which parses or not, and one entry in the manifest.           *)
(***************************************************************************)
Written(root, order, path) ==
  LET D == Below(facets, {root})
  IN  /\ order \in Ages(D) /\ IsPaths(path, root, order)
      /\ \A i \in D : WellPlaced(path, root, i)
      /\ \A i, j \in D : path[i] = path[j] => i = j
      /\ DOMAIN disk' = {path[i] : i \in {j \in D : ReadBack(j) # None}}
      /\ broken' = {path[i] : i \in {j \in D : ReadBack(j) = None}}
      /\ \A i \in D : ReadBack(i) # None => disk'[path[i]] = RenderedFile(i)
      /\ manifest' = [i \in D |-> [path |-> path[i], parent |-> facets[i].parent]]

LEMMA CheckOutWrites ==
  ASSUME CopyInv, NEW root \in Live, CheckOut(root)
  PROVE  /\ Below(facets, {root}) \subseteq Live /\ IsFiniteSet(Below(facets, {root}))
         /\ \E order, path : Written(root, order, path)
<1> DEFINE D == Below(facets, {root})
<1>1. facets \in Stores
  BY DEF CopyInv, Fresh, CheckOut
<1>2. IsFiniteSet(Live) /\ \A i \in Live : facets[i].cols[Title] \in Values
  BY <1>1, StoresAssumption, ColumnsAssumption DEF Live, IsTable, Rows, Contents, Rendered
<1>3. D \subseteq Live /\ IsFiniteSet(D)
  <2>1. IsFiniteSet(DOMAIN facets) /\ root \in DOMAIN facets
    BY <1>2 DEF Live
  <2>2. D \subseteq DOMAIN facets
    BY <2>1, BelowRoot
  <2> QED
    BY <2>1, <2>2, FS_Subset DEF Live
<1>4. PICK order \in Ages(D) :
        LET path == PathsUnder(root, order)
            legible == {i \in DOMAIN path : ReadBack(i) # None}
        IN  /\ disk' = [p \in {path[i] : i \in legible} |->
                          RenderedFile(CHOOSE i \in DOMAIN path : path[i] = p)]
            /\ broken' = {path[i] : i \in DOMAIN path \ legible}
            /\ manifest' = [i \in DOMAIN path |->
                 [path |-> path[i], parent |-> facets[i].parent]]
  BY DEF CheckOut
<1> PICK path : path = PathsUnder(root, order)
  OBVIOUS
<1>5. \A i \in Below(facets, {root}) : NameOf(i, order) \in Names
  BY <1>2, <1>3, NamesAreNames
<1>6. IsPaths(path, root, order)
  BY <1>2, <1>5, PathsUnderRoot
<1>7. DOMAIN path = D
  BY <1>6 DEF IsPaths
<1> HIDE DEF D
<1>8. \A i, j \in D : path[i] = path[j] => i = j
  BY <1>2, <1>5, <1>6, PathsDiffer DEF D
<1>9. \A i \in D : WellPlaced(path, root, i)
  BY <1>2, <1>5, <1>6, PathShape DEF D
<1> PICK legible : legible = {i \in D : ReadBack(i) # None}
  OBVIOUS
<1>10. /\ disk' = [p \in {path[i] : i \in legible} |->
                     RenderedFile(CHOOSE i \in DOMAIN path : path[i] = p)]
       /\ broken' = {path[i] : i \in D \ legible}
  BY <1>4, <1>7
<1>11. /\ DOMAIN disk' = {path[i] : i \in {j \in D : ReadBack(j) # None}}
       /\ broken' = {path[i] : i \in {j \in D : ReadBack(j) = None}}
  <2>1. legible = {j \in D : ReadBack(j) # None} /\ D \ legible = {j \in D : ReadBack(j) = None}
    OBVIOUS
  <2> QED
    BY <1>10, <2>1
<1>12. ASSUME NEW i \in D, ReadBack(i) # None PROVE disk'[path[i]] = RenderedFile(i)
  <2>1. path[i] \in {path[j] : j \in legible}
    BY <1>12
  <2>2. (CHOOSE j \in DOMAIN path : path[j] = path[i]) = i
    BY <1>7, <1>8
  <2> QED
    BY <1>10, <2>1, <2>2
<1>13. manifest' = [i \in D |-> [path |-> path[i], parent |-> facets[i].parent]]
  BY <1>4, <1>7
<1>14. Written(root, order, path)
  BY <1>4, <1>6, <1>8, <1>9, <1>11, <1>12, <1>13 DEF Written, D
<1> QED
  BY <1>3, <1>14 DEF D

LEMMA RenderedIsFile ==
  ASSUME IsTable(facets), NEW i \in Live, ReadBack(i) # None
  PROVE  RenderedFile(i) \in File
<1>1. i \in Ids /\ facets[i].parent \in Parents /\ facets[i].cols \in [Columns -> Values]
  BY DEF IsTable, Live, Rows, Contents
<1>2. [c \in Rendered |-> facets[i].cols[c]] \in [Rendered -> Values]
  BY <1>1, ColumnsAssumption
<1>3. ReadBack(i) \in [Rendered -> Texts]
  BY <1>2, ColumnsAssumption DEF ReadBack
<1> QED
  BY <1>1, <1>3 DEF RenderedFile, File, Parents

LEMMA CheckOutCopy ==
  ASSUME CopyInv, NEW root \in Live, CheckOut(root)
  PROVE  CopyInv'
<1> PICK D : D = Below(facets, {root})
  OBVIOUS
<1>1. D \subseteq Live /\ IsFiniteSet(D) /\ \E order, path : Written(root, order, path)
  BY CheckOutWrites
<1>2. PICK order, path : Written(root, order, path)
  BY <1>1
<1>3. /\ path \in [D -> Seq(Names)]
      /\ DOMAIN disk' = {path[i] : i \in {j \in D : ReadBack(j) # None}}
      /\ broken' = {path[i] : i \in {j \in D : ReadBack(j) = None}}
      /\ \A i \in D : ReadBack(i) # None => disk'[path[i]] = RenderedFile(i)
      /\ manifest' = [i \in D |-> [path |-> path[i], parent |-> facets[i].parent]]
      /\ \A i, j \in D : path[i] = path[j] => i = j
  BY <1>2 DEF Written, IsPaths
<1>4. facets \in Stores
  BY DEF CopyInv, Fresh, CheckOut
<1>5. TypeOK /\ IsTable(facets)
  BY DEF CopyInv, TypeOK, TablesOK
<1>6. \A i \in D : ReadBack(i) # None => RenderedFile(i) \in File
  BY <1>1, <1>5, RenderedIsFile
<1>7. \A p \in DOMAIN disk' : p \in Seq(Names) /\ disk'[p] \in File /\ disk'[p].id \in D
  <2> TAKE p \in DOMAIN disk'
  <2>1. PICK i \in D : p = path[i] /\ ReadBack(i) # None
    BY <1>3
  <2>2. disk'[p] = RenderedFile(i) /\ RenderedFile(i).id = i
    BY <1>3, <2>1 DEF RenderedFile
  <2> QED
    BY <1>3, <1>6, <2>1, <2>2
<1>70. broken' \subseteq Seq(Names) /\ broken' \cap DOMAIN disk' = {}
  <2>1. ASSUME NEW p \in broken' PROVE p \in Seq(Names) /\ p \notin DOMAIN disk'
    <3>1. PICK i \in D : p = path[i] /\ ReadBack(i) = None
      BY <1>3
    <3>2. \A j \in D : ReadBack(j) # None => path[j] # p
      BY <1>3, <3>1
    <3> QED
      BY <1>3, <3>1, <3>2
  <2> QED
    BY <2>1
<1>8. DOMAIN manifest' = D /\ manifest' \in [D -> ManifestEntry]
  <2>1. \A i \in D : facets[i].parent \in Parents
    BY <1>1, <1>5 DEF IsTable, Live, Rows
  <2>2. \A i \in D : [path |-> path[i], parent |-> facets[i].parent] \in ManifestEntry
    BY <1>3, <2>1 DEF ManifestEntry
  <2> QED
    BY <1>3, <2>2
<1>9. /\ diffs = <<>> /\ unread \subseteq DOMAIN disk \cup broken
      /\ disk = Nothing /\ broken = {}
  BY DEF CopyInv, StageOK, CheckOut, TypeOK, Fresh
<1>10. UNCHANGED <<facets, edges, minted, stamped, force, unread, diffs, next, held, calm, edited, served, foreign>> /\ at' = "ready"
  BY DEF CheckOut, history
<1>11. TypeOK'
  <2>1. D \subseteq Ids
    BY <1>1, <1>5 DEF TypeOK, TablesOK, Live
  <2>2. unread = {}
    BY <1>9 DEF Nothing
  <2>3. TablesOK'
    BY <1>5, <1>10 DEF TypeOK, TablesOK, Live
  <2> QED
    BY <1>5, <1>7, <1>70, <1>8, <1>10, <2>1, <2>2, <2>3 DEF TypeOK, Places
<1>12. Integrity'
  BY <1>10 DEF CopyInv, Integrity
<1>13. CopyOK'
  <2>1. D \subseteq minted
    BY <1>1, <1>5 DEF TypeOK, TablesOK, Live
  <2> QED
    BY <1>1, <1>7, <1>8, <1>10, <2>1 DEF CopyOK, FileIds, CopyInv, Live
<1>14. Fresh' /\ StageOK' /\ DiffsOK' /\ WriteOK'
  BY <1>9, <1>10 DEF Fresh, StageOK, DiffsOK, WriteOK
<1> QED
  BY <1>11, <1>12, <1>13, <1>14 DEF CopyInv

(***************************************************************************)
(* Whatever the user does to the files, they are files, and an id in one   *)
(* is that of a facet there once was.                                      *)
(***************************************************************************)
LEMMA FreePathsAreNames ==
  ASSUME CopyInv, NEW q \in FreePaths
  PROVE  q \in Seq(Names) /\ q \notin DOMAIN disk
<1>0. q \notin DOMAIN disk
  BY DEF FreePaths
<1>1. CASE q \in broken
  BY <1>0, <1>1 DEF CopyInv, TypeOK
<1>2. CASE q \notin broken
  <2>1. PICK d \in Directories, v \in Slugs : q = Append(d, <<v, 1>>)
    BY <1>2 DEF FreePaths
  <2>2. d \in Seq(Names)
    <3>1. \A i \in DOMAIN manifest : manifest[i].path \in Seq(Names)
      BY DEF CopyInv, TypeOK, ManifestEntry
    <3>2. DOMAIN disk \subseteq Seq(Names) /\ <<>> \in Seq(Names)
      BY DEF CopyInv, TypeOK
    <3> QED
      BY <2>1, <3>1, <3>2 DEF Directories
  <2>3. <<v, 1>> \in Names
    BY DEF Names
  <2> QED
    BY <1>0, <2>1, <2>2, <2>3, AppendProperties
<1> QED
  BY <1>1, <1>2

GoodFiles(d, b) ==
  /\ DOMAIN d \subseteq Seq(Names)
  /\ \A p \in DOMAIN d : d[p] \in File /\ d[p].id \in minted \cup {None}
  /\ b \subseteq Seq(Names) /\ b \cap DOMAIN d = {}

LEMMA RewrittenFiles ==
  ASSUME GoodFiles(disk, broken), minted \subseteq Ids, NEW p \in DOMAIN disk, Rewrite(p)
  PROVE  GoodFiles(disk', broken)
<1>1. disk[p] \in File
  BY DEF GoodFiles
<1>2. PICK file \in File : /\ file.id \in minted \cup {None}
                           /\ DOMAIN disk' = DOMAIN disk /\ disk'[p] = file
                           /\ \A f \in DOMAIN disk : f # p => disk'[f] = disk[f]
  <2>1. CASE \E c \in Rendered, v \in Texts : disk' = [disk EXCEPT ![p].cols[c] = v]
    <3>1. PICK c \in Rendered, v \in Texts : disk' = [disk EXCEPT ![p].cols[c] = v]
      BY <2>1
    <3>2. /\ [disk[p] EXCEPT !.cols[c] = v] \in File
          /\ [disk[p] EXCEPT !.cols[c] = v].id = disk[p].id
      BY <1>1 DEF File
    <3>3. /\ DOMAIN disk' = DOMAIN disk /\ disk'[p] = [disk[p] EXCEPT !.cols[c] = v]
          /\ \A f \in DOMAIN disk : f # p => disk'[f] = disk[f]
      BY <3>1
    <3> QED
      BY <3>2, <3>3 DEF GoodFiles
  <2>2. CASE \E i \in minted \cup {None} : disk' = [disk EXCEPT ![p].id = i]
    <3>1. PICK i \in minted \cup {None} : disk' = [disk EXCEPT ![p].id = i]
      BY <2>2
    <3>2. [disk[p] EXCEPT !.id = i] \in File /\ [disk[p] EXCEPT !.id = i].id = i
      BY <1>1 DEF File, Parents
    <3>3. /\ DOMAIN disk' = DOMAIN disk /\ disk'[p] = [disk[p] EXCEPT !.id = i]
          /\ \A f \in DOMAIN disk : f # p => disk'[f] = disk[f]
      BY <3>1
    <3> QED
      BY <3>2, <3>3
  <2> QED
    BY <2>1, <2>2 DEF Rewrite
<1> QED
  BY <1>2 DEF GoodFiles

LEMMA WrittenFiles ==
  ASSUME GoodFiles(disk, broken), NEW q \in Seq(Names), WriteAt(q)
  PROVE  GoodFiles(disk', broken')
<1>1. PICK file \in File, kept \in SUBSET DOMAIN disk :
        /\ file.id \in minted \cup {None}
        /\ disk' = [f \in kept \cup {q} |-> IF f = q THEN file ELSE disk[f]]
  <2>1. CASE \E p \in DOMAIN disk :
          disk' = [f \in (DOMAIN disk \ {p}) \cup {q} |-> IF f = q THEN disk[p] ELSE disk[f]]
    BY <2>1 DEF GoodFiles
  <2>2. CASE \E p \in DOMAIN disk : disk' = Put(q, disk[p])
    BY <2>2 DEF GoodFiles, Put
  <2>3. CASE \E cols \in [Rendered -> Texts] :
          disk' = Put(q, [id |-> None, hint |-> None, cols |-> cols])
    <3>1. PICK cols \in [Rendered -> Texts] :
            disk' = Put(q, [id |-> None, hint |-> None, cols |-> cols])
      BY <2>3
    <3>2. [id |-> None, hint |-> None, cols |-> cols] \in File
      BY DEF File, Parents
    <3> QED
      BY <3>1, <3>2 DEF Put
  <2> QED
    BY <2>1, <2>2, <2>3 DEF WriteAt
<1>2. broken' = broken \ {q}
  BY DEF WriteAt
<1>3. /\ DOMAIN disk' = kept \cup {q} /\ disk'[q] = file
      /\ \A f \in kept : f # q => disk'[f] = disk[f]
  BY <1>1
<1> QED
  BY <1>1, <1>2, <1>3 DEF GoodFiles

LEMMA EditedFiles ==
  ASSUME CopyInv, Edit
  PROVE  GoodFiles(disk', broken')
<1>1. GoodFiles(disk, broken) /\ minted \subseteq Ids
  BY DEF CopyInv, TypeOK, TablesOK, CopyOK, FileIds, GoodFiles
<1>2. CASE \E p \in DOMAIN disk : Rewrite(p) /\ UNCHANGED broken
  BY <1>1, <1>2, RewrittenFiles
<1>3. CASE \E q \in FreePaths : WriteAt(q)
  BY <1>1, <1>3, FreePathsAreNames, WrittenFiles
<1>4. CASE \E p \in DOMAIN disk : disk' = Without(p) /\ broken' \in {broken, broken \cup {p}}
  BY <1>1, <1>4 DEF GoodFiles, Without
<1>5. CASE \E q \in FreePaths : broken' = broken \cup {q} /\ UNCHANGED disk
  BY <1>1, <1>5, FreePathsAreNames DEF GoodFiles
<1>6. CASE \E p \in broken : broken' = broken \ {p} /\ UNCHANGED disk
  BY <1>1, <1>6 DEF GoodFiles
<1> QED
  BY <1>2, <1>3, <1>4, <1>5, <1>6 DEF Edit

LEMMA EditCopy ==
  ASSUME CopyInv, Edit
  PROVE  CopyInv'
<1>1. /\ DOMAIN disk' \subseteq Seq(Names)
      /\ \A p \in DOMAIN disk' : disk'[p] \in File /\ disk'[p].id \in minted \cup {None}
      /\ broken' \subseteq Seq(Names) /\ broken' \cap DOMAIN disk' = {}
  BY EditedFiles DEF GoodFiles
<1>2. /\ UNCHANGED <<facets, edges, minted, stamped, manifest, served, foreign>>
      /\ at' = "ready" /\ edited' = edited + 1
      /\ force' = FALSE /\ unread' = {} /\ diffs' = <<>> /\ next' = 1 /\ held' = None /\ calm' = TRUE
  BY DEF Edit, NoFlush, tables
<1>3. TypeOK'
  <2>1. TablesOK'
    BY <1>2 DEF CopyInv, TypeOK, TablesOK, Live
  <2>2. diffs' \in Seq(DiffEntry) /\ next' \in 1 .. Len(diffs') + 1
    BY <1>2
  <2>3. edited' \in Nat
    BY <1>2 DEF CopyInv, TypeOK
  <2>4. at' \in Places /\ force' \in BOOLEAN /\ calm' \in BOOLEAN /\ held' \in Rows \cup {None}
    BY <1>2 DEF Places
  <2>5. /\ stamped' \subseteq Ids /\ DOMAIN manifest' \subseteq Ids
        /\ manifest' \in [DOMAIN manifest' -> ManifestEntry]
        /\ unread' \subseteq DOMAIN disk' \cup broken' /\ served' \in Nat /\ foreign' \subseteq Ids
    BY <1>2 DEF CopyInv, TypeOK
  <2> QED
    BY <1>1, <2>1, <2>2, <2>3, <2>4, <2>5 DEF TypeOK
<1>4. Integrity'
  BY <1>2 DEF CopyInv, Integrity
<1>5. CopyOK'
  <2>1. FileIds' \subseteq minted \cup {None}
    BY <1>1 DEF FileIds
  <2> QED
    BY <1>2, <2>1 DEF CopyOK, CopyInv, Live
<1>6. Fresh' /\ StageOK' /\ DiffsOK' /\ WriteOK'
  BY <1>2 DEF Fresh, StageOK, DiffsOK, WriteOK
<1> QED
  BY <1>3, <1>4, <1>5, <1>6 DEF CopyInv

(***************************************************************************)
(* Differences stay what they are while the copy stays as it is.           *)
(***************************************************************************)
LEMMA DiffsStay ==
  ASSUME DiffsOK, UNCHANGED <<disk, broken, manifest, diffs>>, minted \subseteq minted',
         calm' => calm /\ foreign' = foreign
  PROVE  DiffsOK' /\ Conflicted' = Conflicted
<1>1. \A path : FsParent(path)' = FsParent(path)
  BY DEF FsParent
<1>2. Unseen' = Unseen
  BY DEF Unseen
<1>3. ASSUME NEW k \in DOMAIN diffs PROVE EntryOK(diffs[k])'
  BY <1>1, <1>2 DEF DiffsOK, EntryOK
<1> QED
  BY <1>3 DEF DiffsOK, Conflicted

(***************************************************************************)
(* A statement leaves the copy known: nobody in it is revived.             *)
(***************************************************************************)
LEMMA CopyStays ==
  ASSUME CopyInv, [StoreNext]_tables, UNCHANGED <<disk, broken, manifest, foreign>>,
         stamped \subseteq stamped'
  PROVE  CopyOK' /\ TablesOK' /\ Integrity'
<1>1. StoreInv' /\ minted \subseteq minted' /\ Live' \cap minted \subseteq Live
  BY CopyInvIsStoreInv, StatementKeepsIds
<1>2. FileIds' = FileIds
  BY DEF FileIds
<1> QED
  BY <1>1, <1>2 DEF CopyOK, CopyInv, StoreInv

(***************************************************************************)
(* Steps of a flush that write nothing.                                    *)
(***************************************************************************)
LEMMA QuietCopy ==
  ASSUME CopyInv, UNCHANGED <<facets, edges, minted, stamped, disk, broken, manifest, edited, served, foreign>>,
         at' \in Places, at' # "none", force' \in BOOLEAN, calm' \in BOOLEAN,
         unread' \subseteq DOMAIN disk \cup broken, diffs' \in Seq(DiffEntry), next' \in 1 .. Len(diffs') + 1,
         held' \in Rows \cup {None},
         StageOK', DiffsOK', WriteOK'
  PROVE  CopyInv'
<1>1. CopyOK' /\ TablesOK' /\ Integrity'
  BY CopyStays DEF tables
<1>2. TypeOK'
  BY <1>1 DEF CopyInv, TypeOK
<1>3. Fresh'
  BY DEF Fresh
<1> QED
  BY <1>1, <1>2, <1>3 DEF CopyInv

LEMMA BeginFlushCopy ==
  ASSUME CopyInv, NEW f \in BOOLEAN, BeginFlush(f)
  PROVE  CopyInv'
<1>1. /\ UNCHANGED <<facets, edges, minted, stamped, disk, broken, manifest, held, edited, served, foreign>>
      /\ at' = "diff" /\ force' = f /\ calm' = TRUE
      /\ unread' = DOMAIN disk \cup broken /\ diffs' = <<>> /\ next' = 1
  BY DEF BeginFlush, tables, local, history
<1>2. StageOK' /\ DiffsOK' /\ WriteOK'
  BY <1>1 DEF StageOK, DiffsOK, WriteOK
<1>3. diffs' \in Seq(DiffEntry) /\ next' \in 1 .. Len(diffs') + 1
  BY <1>1
<1>4. held' \in Rows \cup {None}
  BY <1>1 DEF CopyInv, TypeOK
<1> QED
  BY <1>1, <1>2, <1>3, <1>4, QuietCopy DEF Places

LEMMA StopCopy ==
  ASSUME CopyInv, Stop
  PROVE  CopyInv'
<1>1. /\ UNCHANGED <<facets, edges, minted, stamped, disk, broken, manifest, edited, served, foreign>>
      /\ at' = "ready"
      /\ force' = FALSE /\ unread' = {} /\ diffs' = <<>> /\ next' = 1 /\ held' = None /\ calm' = TRUE
  BY DEF Stop, NoFlush, tables, local, history
<1>2. StageOK' /\ DiffsOK' /\ WriteOK'
  BY <1>1 DEF StageOK, DiffsOK, WriteOK
<1>3. diffs' \in Seq(DiffEntry) /\ next' \in 1 .. Len(diffs') + 1
  BY <1>1
<1> QED
  BY <1>1, <1>2, <1>3, QuietCopy DEF Places

(***************************************************************************)
(* More differences, of this very copy, go to the end of the list.         *)
(***************************************************************************)
LEMMA DiffsGrow ==
  ASSUME CopyInv, NEW found \in Seq(DiffEntry), \A k \in DOMAIN found : EntryOK(found[k]),
         diffs' = diffs \o found, UNCHANGED <<minted, disk, broken, manifest, foreign, calm>>
  PROVE  /\ diffs' \in Seq(DiffEntry) /\ Len(diffs') = Len(diffs) + Len(found)
         /\ \A k \in DOMAIN diffs : k \in DOMAIN diffs' /\ diffs'[k] = diffs[k]
         /\ \A k \in DOMAIN found : Len(diffs) + k \in DOMAIN diffs' /\ diffs'[Len(diffs) + k] = found[k]
         /\ \A k \in DOMAIN diffs' : k \in DOMAIN diffs \/ \E j \in DOMAIN found : diffs'[k] = found[j]
         /\ DiffsOK'
<1>1. diffs \in Seq(DiffEntry)
  BY DEF CopyInv, TypeOK
<1>2. /\ diffs' \in Seq(DiffEntry) /\ Len(diffs') = Len(diffs) + Len(found)
      /\ \A k \in 1 .. Len(diffs) + Len(found) :
           diffs'[k] = IF k <= Len(diffs) THEN diffs[k] ELSE found[k - Len(diffs)]
  BY <1>1, ConcatProperties
<1>3. Len(diffs) \in Nat /\ DOMAIN diffs = 1 .. Len(diffs)
  BY <1>1, LenProperties
<1>4. Len(found) \in Nat /\ DOMAIN found = 1 .. Len(found)
  BY LenProperties
<1>5. DOMAIN diffs' = 1 .. Len(diffs) + Len(found)
  BY <1>2, LenProperties
<1>6. \A k \in DOMAIN diffs : k \in DOMAIN diffs' /\ diffs'[k] = diffs[k]
  BY <1>2, <1>3, <1>4, <1>5
<1>7. \A k \in DOMAIN found : Len(diffs) + k \in DOMAIN diffs' /\ diffs'[Len(diffs) + k] = found[k]
  <2> TAKE k \in DOMAIN found
  <2>1. /\ Len(diffs) + k \in 1 .. Len(diffs) + Len(found)
        /\ ~(Len(diffs) + k <= Len(diffs)) /\ (Len(diffs) + k) - Len(diffs) = k
    BY <1>3, <1>4
  <2> QED
    BY <1>2, <1>5, <2>1
<1>8. \A k \in DOMAIN diffs' : \/ k \in DOMAIN diffs /\ diffs'[k] = diffs[k]
                               \/ \E j \in DOMAIN found : diffs'[k] = found[j]
  <2> TAKE k \in DOMAIN diffs'
  <2>1. CASE k <= Len(diffs)
    BY <1>2, <1>3, <1>4, <1>5, <2>1
  <2>2. CASE ~(k <= Len(diffs))
    <3>1. k - Len(diffs) \in DOMAIN found /\ diffs'[k] = found[k - Len(diffs)]
      BY <1>2, <1>3, <1>4, <1>5, <2>2
    <3> QED
      BY <3>1
  <2> QED
    BY <2>1, <2>2
<1>9. \A path : FsParent(path)' = FsParent(path)
  BY DEF FsParent
<1>10. Unseen' = Unseen
  BY DEF Unseen
<1>11. ASSUME NEW k \in DOMAIN diffs' PROVE EntryOK(diffs[k])'
  <2>1. CASE k \in DOMAIN diffs /\ diffs'[k] = diffs[k]
    <3>1. EntryOK(diffs[k])
      BY <2>1 DEF CopyInv, DiffsOK
    <3> QED
      BY <1>9, <1>10, <2>1, <3>1 DEF EntryOK
  <2>2. CASE \E j \in DOMAIN found : diffs'[k] = found[j]
    <3>1. PICK j \in DOMAIN found : diffs'[k] = found[j]
      BY <2>2
    <3>2. EntryOK(found[j])
      OBVIOUS
    <3> QED
      BY <1>9, <1>10, <3>1, <3>2 DEF EntryOK
  <2> QED
    BY <1>8, <2>1, <2>2
<1>12. DiffsOK'
  BY <1>11 DEF DiffsOK
<1> QED
  BY <1>2, <1>6, <1>7, <1>8, <1>12

(***************************************************************************)
(* A compared file whose facet was not in conflict is about a facet nobody *)
(* else wrote since the checkout, or one that was not checked out.         *)
(***************************************************************************)
LEMMA ComparedIsUnwritten ==
  ASSUME CopyInv, NEW path \in DOMAIN disk, disk[path].id # None, ~Conflicting(disk[path].id)
  PROVE  disk[path].id \in Live /\ disk[path].id \notin foreign \cap DOMAIN manifest
BY DEF CopyInv, CopyOK, Conflicting

LEMMA FoundIsOK ==
  ASSUME CopyInv, NEW path \in DOMAIN disk
  PROVE  \A k \in DOMAIN Found(path) : EntryOK(Found(path)[k])
<1>1. FindsOnly(Found(path), path)
  BY FoundIs DEF CopyInv
<1> TAKE k \in DOMAIN Found(path)
<1>2. PICK kind \in {"created", "conflict", "moved", "modified"} :
        Finds(kind, path) /\ Found(path)[k] = Entry(kind, disk[path].id, path, FsParent(path))
  BY <1>1 DEF FindsOnly
<1> PICK d : d = Found(path)[k]
  OBVIOUS
<1>3. d.kind = kind /\ d.id = disk[path].id /\ d.path = path /\ d.parent = FsParent(path)
  BY <1>2 DEF Entry
<1>4. kind # "created" => d.id \in minted
  <2>1. kind # "created" => disk[path].id # None
    BY <1>2 DEF Finds
  <2> QED
    BY <1>3, <2>1 DEF CopyInv, CopyOK, FileIds
<1>5. kind = "modified" => d.id \notin foreign \cap DOMAIN manifest
  BY <1>2, <1>3, ComparedIsUnwritten DEF Finds
<1>6. kind # "deleted"
  BY <1>2
<1>7. EntryOK(d)
  BY <1>3, <1>4, <1>5, <1>6 DEF EntryOK
<1> QED
  BY <1>7

LEMMA CompareCopy ==
  ASSUME CopyInv, NEW path \in unread, Compare(path)
  PROVE  CopyInv'
<1>1. /\ at = "diff" /\ path \in DOMAIN disk
      /\ UNCHANGED <<facets, edges, minted, stamped, disk, broken, manifest, at, force, next, held,
                     edited, served, foreign, calm>>
      /\ diffs' = diffs \o Found(path) /\ unread' = unread \ {path}
  BY DEF Compare, Reaches, tables, local, history
<1> PICK found : found = Found(path)
  OBVIOUS
<1>2. found \in Seq(DiffEntry)
  BY <1>1, FoundIs DEF CopyInv
<1>3. \A k \in DOMAIN found : EntryOK(found[k])
  BY <1>1, FoundIsOK
<1>4. diffs' \in Seq(DiffEntry) /\ DiffsOK'
  BY <1>1, <1>2, <1>3, DiffsGrow
<1>5. next = 1
  BY <1>1 DEF CopyInv, StageOK
<1>6. next' \in 1 .. Len(diffs') + 1
  BY <1>1, <1>4, <1>5, LenProperties
<1>70. broken' \subseteq unread'
  BY <1>1 DEF CopyInv, TypeOK, StageOK
<1>7. StageOK' /\ WriteOK'
  BY <1>1, <1>5, <1>70 DEF StageOK, WriteOK
<1>8. at' \in Places /\ at' # "none" /\ force' \in BOOLEAN /\ calm' \in BOOLEAN
      /\ unread' \subseteq DOMAIN disk \cup broken /\ held' \in Rows \cup {None}
  BY <1>1 DEF CopyInv, TypeOK, Places
<1> QED
  BY <1>1, <1>4, <1>6, <1>7, <1>8, QuietCopy

(***************************************************************************)
(* The facets whose files are gone, each once, in some order.              *)
(***************************************************************************)
Deletions(gone) ==
  [k \in DOMAIN gone |-> Entry("deleted", gone[k], manifest[gone[k]].path, None)]

LEMMA DeletionsAreOK ==
  ASSUME CopyInv, NEW gone \in SetToSeqs(Unseen)
  PROVE  /\ Deletions(gone) \in Seq(DiffEntry) /\ DOMAIN Deletions(gone) = DOMAIN gone
         /\ \A k \in DOMAIN gone : EntryOK(Deletions(gone)[k])
<1>1. gone \in [1 .. Cardinality(Unseen) -> Unseen]
  BY DEF SetToSeqs
<1>2. Cardinality(Unseen) \in Nat
  BY FS_Subset, FS_CardinalityType DEF CopyInv, CopyOK, Unseen
<1>3. ASSUME NEW k \in DOMAIN gone
      PROVE  /\ Entry("deleted", gone[k], manifest[gone[k]].path, None) \in DiffEntry
             /\ EntryOK(Entry("deleted", gone[k], manifest[gone[k]].path, None))
  <2>1. gone[k] \in Unseen
    BY <1>1
  <2>2. gone[k] \in DOMAIN manifest
    BY <2>1 DEF Unseen
  <2>3. gone[k] \in Parents /\ manifest[gone[k]].path \in Seq(Names) /\ None \in Parents
    BY <2>2 DEF CopyInv, TypeOK, ManifestEntry, Parents
  <2>4. Entry("deleted", gone[k], manifest[gone[k]].path, None) \in DiffEntry
    BY <2>3 DEF Entry, DiffEntry
  <2>5. EntryOK(Entry("deleted", gone[k], manifest[gone[k]].path, None))
    BY <2>1, <2>2 DEF Entry, EntryOK, CopyInv, CopyOK
  <2> QED
    BY <2>4, <2>5
<1>4. DOMAIN Deletions(gone) = 1 .. Cardinality(Unseen) /\ DOMAIN gone = 1 .. Cardinality(Unseen)
  BY <1>1 DEF Deletions
<1>5. Deletions(gone) \in [1 .. Cardinality(Unseen) -> DiffEntry]
  BY <1>3, <1>4 DEF Deletions
<1>6. Deletions(gone) \in Seq(DiffEntry)
  BY <1>2, <1>5
<1> QED
  BY <1>3, <1>4, <1>6 DEF Deletions

LEMMA EndDiffCopy ==
  ASSUME CopyInv, EndDiff
  PROVE  CopyInv'
<1>1. PICK gone \in SetToSeqs(Unseen) : diffs' = diffs \o Deletions(gone)
  BY DEF EndDiff, Deletions
<1>2. /\ at = "diff" /\ at' = "apply" /\ unread = {}
      /\ UNCHANGED <<facets, edges, minted, stamped, disk, broken, manifest, force, unread, next, held,
                     edited, served, foreign, calm>>
  BY DEF EndDiff, tables, local, history
<1> PICK found : found = Deletions(gone)
  OBVIOUS
<1>3. found \in Seq(DiffEntry) /\ \A k \in DOMAIN found : EntryOK(found[k])
  BY DeletionsAreOK
<1>4. diffs' \in Seq(DiffEntry) /\ DiffsOK'
  BY <1>1, <1>2, <1>3, DiffsGrow
<1>5. next = 1
  BY <1>2 DEF CopyInv, StageOK
<1>6. next' \in 1 .. Len(diffs') + 1
  BY <1>2, <1>4, <1>5, LenProperties
<1>7. StageOK' /\ WriteOK'
  BY <1>2 DEF StageOK, WriteOK
<1>8. at' \in Places /\ at' # "none" /\ force' \in BOOLEAN /\ calm' \in BOOLEAN
      /\ unread' \subseteq DOMAIN disk \cup broken /\ held' \in Rows \cup {None}
  BY <1>2 DEF CopyInv, TypeOK, Places
<1> QED
  BY <1>2, <1>4, <1>6, <1>7, <1>8, QuietCopy

LEMMA EndFlushCopy ==
  ASSUME CopyInv, EndFlush
  PROVE  CopyInv'
<1>1. /\ at = "apply" /\ at' = "flushed" /\ next > Len(diffs)
      /\ UNCHANGED <<facets, edges, minted, stamped, disk, broken, manifest, force, unread, diffs, next, held,
                     edited, served, foreign, calm>>
  BY DEF EndFlush, tables, local, history
<1>2. diffs \in Seq(DiffEntry) /\ next \in 1 .. Len(diffs) + 1
  BY DEF CopyInv, TypeOK
<1>3. next = Len(diffs) + 1
  BY <1>1, <1>2, LenProperties
<1>4. DiffsOK'
  BY <1>1, DiffsStay DEF CopyInv
<1>5. StageOK' /\ WriteOK'
  BY <1>1, <1>3 DEF CopyInv, StageOK, WriteOK
<1>6. at' \in Places /\ at' # "none" /\ force' \in BOOLEAN /\ calm' \in BOOLEAN
      /\ unread' \subseteq DOMAIN disk \cup broken /\ held' \in Rows \cup {None}
  BY <1>1 DEF CopyInv, TypeOK, Places
<1> QED
  BY <1>1, <1>2, <1>4, <1>5, <1>6, QuietCopy

-----------------------------------------------------------------------------
(***************************************************************************)
(* Applying the differences.  Whatever the statement did, the flush goes   *)
(* on to the next difference and the copy stays as it is.                  *)
(***************************************************************************)
LEMMA AppliedCopy ==
  ASSUME CopyInv, at \in {"apply", "write"}, next <= Len(diffs), Passed,
         [StoreNext]_tables, stamped \subseteq stamped', stamped' \subseteq Ids
  PROVE  CopyInv'
<1>1. /\ at' = "apply" /\ next' = next + 1 /\ held' = None
      /\ UNCHANGED <<disk, broken, manifest, force, unread, diffs, edited, served, foreign, calm>>
  BY DEF Passed, local, history
<1>2. CopyOK' /\ TablesOK' /\ Integrity'
  BY <1>1, CopyStays
<1>30. minted \subseteq minted'
  BY CopyInvIsStoreInv, StatementKeepsIds
<1>3. DiffsOK'
  BY <1>1, <1>30, DiffsStay DEF CopyInv
<1>4. diffs \in Seq(DiffEntry) /\ next \in 1 .. Len(diffs) + 1
  BY DEF CopyInv, TypeOK
<1>5. next' \in 1 .. Len(diffs') + 1
  BY <1>1, <1>4, LenProperties
<1>6. StageOK' /\ WriteOK' /\ Fresh'
  BY <1>1 DEF CopyInv, StageOK, WriteOK, Fresh
<1>7. TypeOK'
  BY <1>1, <1>2, <1>4, <1>5 DEF CopyInv, TypeOK, Places
<1> QED
  BY <1>2, <1>3, <1>6, <1>7 DEF CopyInv

LEMMA OverlaidIsRow ==
  ASSUME TypeOK, NEW i \in Live, NEW path \in DOMAIN disk
  PROVE  /\ Overlaid(facets[i], disk[path]) \in Rows
         /\ \A c \in Compared : Overlaid(facets[i], disk[path]).cols[c] = disk[path].cols[c]
<1> DEFINE cols == [c \in Columns |-> IF c \in Rendered THEN disk[path].cols[c] ELSE facets[i].cols[c]]
<1>1. facets[i] \in Rows
  BY DEF TypeOK, TablesOK, IsTable, Live
<1>2. \A c \in Rendered : disk[path].cols[c] \in Values
  BY FileFields
<1>3. cols \in Contents
  BY <1>1, <1>2 DEF Rows, Contents
<1>4. Overlaid(facets[i], disk[path]) = [facets[i] EXCEPT !.cols = cols]
  BY DEF Overlaid
<1>5. \A c \in Compared : cols[c] = disk[path].cols[c]
  BY ColumnsAssumption DEF Rendered
<1> HIDE DEF cols
<1>6. [facets[i] EXCEPT !.cols = cols] \in Rows /\ [facets[i] EXCEPT !.cols = cols].cols = cols
  BY <1>1, <1>3 DEF Rows
<1> QED
  BY <1>4, <1>5, <1>6

(***************************************************************************)
(* Reading the row before it is written back, for the difference at hand.  *)
(***************************************************************************)
LEMMA FetchCopy ==
  ASSUME CopyInv, NEW kind \in {"modified", "conflict"}, IsNext(kind), NEW path,
         kind = "modified" => path = diffs[next].path,
         FetchFor(diffs[next].id, path)
  PROVE  CopyInv' /\ UNCHANGED <<tables, stamped>>
<1> PICK i : i = diffs[next].id
  OBVIOUS
<1>1. at = "apply" /\ next <= Len(diffs) /\ diffs[next].kind = kind /\ (~force => i \notin Conflicted)
  BY DEF IsNext
<1>2. diffs \in Seq(DiffEntry) /\ next \in 1 .. Len(diffs) + 1 /\ stamped \subseteq Ids
  BY DEF CopyInv, TypeOK
<1>3. CASE i \in Live /\ path \in DOMAIN disk
  <2>1. /\ held' = Overlaid(facets[i], disk[path]) /\ at' = "write"
        /\ UNCHANGED <<facets, edges, minted, stamped, disk, broken, manifest, force, unread, diffs, next,
                       edited, served, foreign, calm>>
    BY <1>3 DEF FetchFor, tables, local, history
  <2>2. held' \in Rows /\ \A c \in Compared : held'.cols[c] = disk[path].cols[c]
    BY <1>3, <2>1, OverlaidIsRow DEF CopyInv
  <2>3. next \in DOMAIN diffs
    BY <1>1, <1>2, LenProperties
  <2>4. DiffsOK' /\ Conflicted' = Conflicted
    BY <2>1, DiffsStay DEF CopyInv
  <2>5. WriteOK'
    <3>1. diffs[next]' = diffs[next] /\ disk' = disk /\ next' = next /\ force' = force /\ diffs' = diffs
      BY <2>1
    <3>2. kind = "modified" => \A c \in Compared : held'.cols[c] = disk[diffs[next].path].cols[c]
      BY <2>2
    <3> QED
      BY <1>1, <2>2, <2>3, <2>4, <3>1, <3>2 DEF WriteOK
  <2>6. StageOK'
    BY <1>1, <2>1 DEF CopyInv, StageOK
  <2>7. at' \in Places /\ at' # "none" /\ force' \in BOOLEAN /\ calm' \in BOOLEAN
        /\ unread' \subseteq DOMAIN disk \cup broken /\ held' \in Rows \cup {None}
        /\ diffs' \in Seq(DiffEntry) /\ next' \in 1 .. Len(diffs') + 1
    BY <1>2, <2>1, <2>2 DEF CopyInv, TypeOK, Places
  <2> QED
    BY <2>1, <2>4, <2>5, <2>6, <2>7, QuietCopy DEF tables
<1>4. CASE ~(i \in Live /\ path \in DOMAIN disk)
  <2>1. Passed /\ UNCHANGED <<tables, stamped>>
    BY <1>4 DEF FetchFor
  <2> QED
    BY <1>1, <1>2, <2>1, AppliedCopy
<1> QED
  BY <1>3, <1>4

LEMMA FetchModifiedCopy ==
  ASSUME CopyInv, FetchModified
  PROVE  CopyInv' /\ UNCHANGED <<tables, stamped>>
BY FetchCopy DEF FetchModified

LEMMA FetchForcedCopy ==
  ASSUME CopyInv, FetchForced
  PROVE  CopyInv' /\ UNCHANGED <<tables, stamped>>
<1> PICK i : i = diffs[next].id
  OBVIOUS
<1>1. IsNext("conflict")
  BY DEF FetchForced
<1>2. CASE i \in DOMAIN manifest
  <2>1. FetchFor(diffs[next].id, manifest[i].path)
    BY <1>2 DEF FetchForced
  <2> QED
    BY <1>1, <2>1, FetchCopy
<1>3. CASE i \notin DOMAIN manifest
  <2>1. Passed /\ UNCHANGED <<tables, stamped>>
    BY <1>3 DEF FetchForced
  <2>2. stamped \subseteq Ids /\ at = "apply" /\ next <= Len(diffs)
    BY <1>1 DEF CopyInv, TypeOK, IsNext
  <2> QED
    BY <2>1, <2>2, AppliedCopy
<1> QED
  BY <1>2, <1>3

(***************************************************************************)
(* The statements of a flush are statements of the store.                  *)
(***************************************************************************)
LEMMA WriteIsStatement ==
  ASSUME CopyInv, WriteHeld
  PROVE  StoreNext \/ UNCHANGED tables
<1>1. CASE UpdateFacet(diffs[next].id, held)
  <2>1. held \in Rows /\ diffs[next].id \in Live /\ Live \subseteq Ids
    BY <1>1 DEF WriteHeld, CopyInv, WriteOK, UpdateFacet, TypeOK, TablesOK, IsTable, Live
  <2> QED
    BY <1>1, <2>1 DEF StoreNext
<1>2. CASE UNCHANGED tables
  BY <1>2
<1> QED
  BY <1>1, <1>2 DEF WriteHeld

LEMMA MoveIsStatement ==
  ASSUME CopyInv, ApplyMoved
  PROVE  StoreNext \/ UNCHANGED tables
<1>1. CASE MoveFacet(diffs[next].id, diffs[next].parent)
  <2>1. diffs[next].parent \in Parents /\ diffs[next].id \in Ids
    BY <1>1 DEF CopyInv, MoveFacet, TypeOK, TablesOK, IsTable, Live, ParentExists, Parents
  <2> QED
    BY <1>1, <2>1 DEF StoreNext
<1>2. CASE UNCHANGED tables
  BY <1>2
<1> QED
  BY <1>1, <1>2 DEF ApplyMoved

LEMMA DeletionIsStatement ==
  ASSUME CopyInv, ApplyDeleted
  PROVE  StoreNext \/ UNCHANGED tables
<1>1. CASE DeleteFacet(diffs[next].id)
  <2>1. diffs[next].id \in Ids
    BY <1>1 DEF CopyInv, DeleteFacet, TypeOK, TablesOK, IsTable, Live
  <2> QED
    BY <1>1, <2>1 DEF StoreNext
<1>2. CASE UNCHANGED tables
  BY <1>2
<1> QED
  BY <1>1, <1>2 DEF ApplyDeleted

(***************************************************************************)
(* The row of a new file: its fields, and the directory it lies in or the  *)
(* parent its header names.                                                *)
(***************************************************************************)
NewParent(path) == IF FsParent(path) # None THEN FsParent(path) ELSE disk[path].hint

NewRow(path) ==
  [parent |-> NewParent(path), tenant |-> None,
   cols |-> [c \in Columns |-> IF c \in Rendered THEN disk[path].cols[c] ELSE Unset]]

LEMMA NewRowIsRow ==
  ASSUME CopyInv, NEW path \in DOMAIN disk
  PROVE  NewRow(path) \in Rows
<1>1. disk[path].hint \in Parents /\ \A c \in Rendered : disk[path].cols[c] \in Values
  BY FileFields DEF CopyInv, File
<1>2. FsParent(path) \in Parents
  BY ParentIsKnown DEF CopyInv, TypeOK, TablesOK, Parents
<1>3. NewParent(path) \in Parents
  BY <1>1, <1>2 DEF NewParent
<1>4. [c \in Columns |-> IF c \in Rendered THEN disk[path].cols[c] ELSE Unset] \in Contents
  BY <1>1, ColumnsAssumption DEF Contents
<1> QED
  BY <1>3, <1>4 DEF NewRow, Rows, Callers

LEMMA CreationIsStatement ==
  ASSUME CopyInv, ApplyCreated
  PROVE  /\ diffs[next].path \in DOMAIN disk
         /\ \/ \E i \in Ids : CreateFacet(i, NewRow(diffs[next].path))
            \/ UNCHANGED tables
         /\ StoreNext \/ UNCHANGED tables
<1> PICK path : path = diffs[next].path
  OBVIOUS
<1>1. /\ at = "apply" /\ next <= Len(diffs) /\ diffs[next].kind = "created"
      /\ next \in 1 .. Len(diffs) + 1 /\ diffs \in Seq(DiffEntry)
  BY DEF ApplyCreated, IsNext, CopyInv, TypeOK
<1>2. next \in DOMAIN diffs
  BY <1>1, LenProperties
<1>3. path \in DOMAIN disk
  BY <1>1, <1>2 DEF CopyInv, DiffsOK, EntryOK
<1>4. NewRow(path) \in Rows
  BY <1>3, NewRowIsRow
<1>5. (\E i \in Ids : CreateFacet(i, NewRow(path))) \/ UNCHANGED tables
  BY DEF ApplyCreated, NewRow, NewParent
<1> QED
  BY <1>3, <1>4, <1>5 DEF StoreNext

LEMMA ApplyCopy ==
  ASSUME CopyInv, Skip \/ WriteHeld \/ ApplyMoved \/ ApplyDeleted \/ ApplyCreated
  PROVE  CopyInv' /\ [StoreNext]_tables /\ stamped \subseteq stamped'
<1>1. diffs \in Seq(DiffEntry) /\ next \in 1 .. Len(diffs) + 1 /\ stamped \subseteq Ids
  BY DEF CopyInv, TypeOK
<1>2. Passed
  BY DEF Skip, WriteHeld, ApplyMoved, ApplyDeleted, ApplyCreated
<1>3. at \in {"apply", "write"}
  BY DEF Skip, WriteHeld, ApplyMoved, ApplyDeleted, ApplyCreated, IsNext
<1>4. next <= Len(diffs)
  <2>1. CASE WriteHeld
    BY <1>1, <2>1, LenProperties DEF WriteHeld, CopyInv, WriteOK
  <2>2. CASE ~WriteHeld
    BY <2>2 DEF Skip, ApplyMoved, ApplyDeleted, ApplyCreated, IsNext
  <2> QED
    BY <2>1, <2>2
<1>5. [StoreNext]_tables
  BY WriteIsStatement, MoveIsStatement, DeletionIsStatement, CreationIsStatement DEF Skip
<1>6. stamped' \subseteq stamped \cup Live /\ stamped \subseteq stamped'
  BY DEF Skip, WriteHeld, ApplyMoved, ApplyDeleted, ApplyCreated, Stamp, UpdateFacet, MoveFacet
<1>7. Live \subseteq Ids
  BY DEF CopyInv, TypeOK, TablesOK, IsTable, Live
<1> QED
  BY <1>1, <1>2, <1>3, <1>4, <1>5, <1>6, <1>7, AppliedCopy

(***************************************************************************)
(* Another caller's write: it bears a stamp, or its facet is gone.         *)
(***************************************************************************)
LEMMA ServerWrites ==
  ASSUME CopyInv, Server
  PROVE  \E i \in Live :
           /\ Served({i}) /\ [StoreNext]_tables
           /\ stamped \subseteq stamped' /\ stamped' \subseteq stamped \cup {i}
           /\ i \in Live' => i \in stamped'
<1> PICK i \in Live : \/ \E c \in Columns, v \in Values : ServerUpdate(i, c, v)
                      \/ \E parent \in Live \cup {None} : ServerMove(i, parent)
                      \/ ServerDelete(i)
  BY DEF Server
<1>1. i \in Ids /\ Live \subseteq Ids /\ facets[i] \in Rows
  BY DEF CopyInv, TypeOK, TablesOK, IsTable, Live
<1>2. CASE \E c \in Columns, v \in Values : ServerUpdate(i, c, v)
  <2>1. PICK c \in Columns, v \in Values : ServerUpdate(i, c, v)
    BY <1>2
  <2>2. [facets[i] EXCEPT !.cols[c] = v] \in Rows
    BY <1>1 DEF Rows, Contents
  <2>3. StoreNext
    BY <1>1, <2>1, <2>2 DEF ServerUpdate, StoreNext
  <2> QED
    BY <2>1, <2>3 DEF ServerUpdate, Stamp
<1>3. CASE \E parent \in Live \cup {None} : ServerMove(i, parent)
  <2>1. PICK parent \in Live \cup {None} : ServerMove(i, parent)
    BY <1>3
  <2>2. StoreNext
    BY <1>1, <2>1 DEF ServerMove, StoreNext, Parents
  <2> QED
    BY <2>1, <2>2 DEF ServerMove, Stamp
<1>4. CASE ServerDelete(i)
  <2>1. StoreNext
    BY <1>1, <1>4 DEF ServerDelete, StoreNext
  <2>2. i \notin Live'
    BY <1>4 DEF ServerDelete, DeleteFacet, DeleteRow, Live
  <2> QED
    BY <1>4, <2>1, <2>2 DEF ServerDelete
<1> QED
  BY <1>2, <1>3, <1>4

LEMMA ServerCopy ==
  ASSUME CopyInv, Server, at # "none"
  PROVE  CopyInv' /\ [StoreNext]_tables
<1>1. PICK i \in Live :
        /\ Served({i}) /\ [StoreNext]_tables
        /\ stamped \subseteq stamped' /\ stamped' \subseteq stamped \cup {i}
        /\ i \in Live' => i \in stamped'
  BY ServerWrites
<1>2. /\ UNCHANGED <<disk, broken, manifest, at, force, unread, diffs, next, held, edited>>
      /\ served' = served + 1 /\ foreign' = foreign \cup {i} /\ calm' = FALSE
  BY <1>1 DEF Served, local
<1>3. StoreInv' /\ minted \subseteq minted' /\ Live' \cap minted \subseteq Live
  BY <1>1, CopyInvIsStoreInv, StatementKeepsIds
<1>4. i \in Ids /\ i \in minted
  BY DEF CopyInv, TypeOK, TablesOK, IsTable, Live
<1>5. CopyOK'
  <2>1. FileIds' = FileIds
    BY <1>2 DEF FileIds
  <2> QED
    BY <1>1, <1>2, <1>3, <1>4, <2>1 DEF CopyOK, CopyInv
<1>6. DiffsOK' /\ Conflicted' = Conflicted
  BY <1>2, <1>3, DiffsStay DEF CopyInv
<1>7. StageOK' /\ Fresh'
  BY <1>2 DEF CopyInv, StageOK, Fresh
<1>8. WriteOK'
  BY <1>2, <1>6 DEF CopyInv, WriteOK
<1>9. TypeOK'
  <2>1. served' \in Nat
    BY <1>2 DEF CopyInv, TypeOK
  <2> QED
    BY <1>1, <1>2, <1>3, <1>4, <2>1 DEF CopyInv, TypeOK, StoreInv
<1> QED
  BY <1>1, <1>3, <1>5, <1>6, <1>7, <1>8, <1>9 DEF CopyInv, StoreInv

LEMMA StutterCopy ==
  ASSUME CopyInv, UNCHANGED allVars
  PROVE  CopyInv'
<1>1. UNCHANGED <<facets, edges, minted, stamped, disk, broken, manifest, at, force, unread,
                  diffs, next, held, edited, served, foreign, calm>>
  BY DEF allVars
<1>2. CopyOK' /\ TablesOK' /\ Integrity'
  BY <1>1, CopyStays DEF tables
<1>3. DiffsOK' /\ Conflicted' = Conflicted
  BY <1>1, DiffsStay DEF CopyInv
<1>4. StageOK' /\ Fresh' /\ WriteOK'
  BY <1>1, <1>3 DEF CopyInv, StageOK, Fresh, WriteOK
<1>5. TypeOK'
  BY <1>1, <1>2 DEF CopyInv, TypeOK
<1> QED
  BY <1>2, <1>3, <1>4, <1>5 DEF CopyInv

LEMMA NextCopy == CopyInv /\ [Next]_allVars => CopyInv'
<1> SUFFICES ASSUME CopyInv, [Next]_allVars PROVE CopyInv'
  OBVIOUS
<1>1. CASE \E root \in Live : CheckOut(root)
  BY <1>1, CheckOutCopy
<1>2. CASE Edit
  BY <1>2, EditCopy
<1>3. CASE \E f \in BOOLEAN : BeginFlush(f)
  BY <1>3, BeginFlushCopy
<1>4. CASE \E path \in unread : Compare(path) \/ ParseError(path)
  BY <1>4, CompareCopy, StopCopy DEF ParseError
<1>5. CASE EndDiff
  BY <1>5, EndDiffCopy
<1>6. CASE FetchModified
  BY <1>6, FetchModifiedCopy
<1>7. CASE FetchForced
  BY <1>7, FetchForcedCopy
<1>8. CASE Skip \/ WriteHeld \/ ApplyMoved \/ ApplyDeleted \/ ApplyCreated
  BY <1>8, ApplyCopy
<1>9. CASE EndFlush
  BY <1>9, EndFlushCopy
<1>10. CASE Abandon
  BY <1>10, StopCopy DEF Abandon
<1>11. CASE at # "none" /\ Server
  BY <1>11, ServerCopy
<1>12. CASE UNCHANGED allVars
  BY <1>12, StutterCopy
<1> QED
  BY <1>1, <1>2, <1>3, <1>4, <1>5, <1>6, <1>7, <1>8, <1>9, <1>10, <1>11, <1>12 DEF Next, Flush

LEMMA CopyInvariance == Spec => []CopyInv
<1>1. Init => CopyInv
  BY InitCopy
<1>2. CopyInv /\ [Next]_allVars => CopyInv'
  BY NextCopy
<1> QED
  BY <1>1, <1>2, PTL DEF Spec

-----------------------------------------------------------------------------
(***************************************************************************)
(* The state of a working copy and of a running flush stays well formed:   *)
(* the files name only facets, every difference is one of the five kinds,  *)
(* and the position in the list is within it or just behind it.            *)
(***************************************************************************)
THEOREM CopyTypeCorrect == Spec => []TypeOK
<1>1. CopyInv => TypeOK
  BY DEF CopyInv
<1> QED
  BY <1>1, CopyInvariance, PTL

(***************************************************************************)
(* No flush breaks a foreign key of the store, though it moves and creates *)
(* facets under parents it read off the disk long before, and other        *)
(* callers delete them meanwhile.                                          *)
(***************************************************************************)
THEOREM FlushKeepsForeignKeys == Spec => []Integrity
<1>1. CopyInv => Integrity
  BY DEF CopyInv
<1> QED
  BY <1>1, CopyInvariance, PTL

-----------------------------------------------------------------------------
(***************************************************************************)
(* What one applied difference does to the rows of the store.              *)
(***************************************************************************)
LEMMA NextDiff ==
  ASSUME CopyInv, (at = "apply" /\ next <= Len(diffs)) \/ at = "write"
  PROVE  next \in DOMAIN diffs /\ next \in Nat /\ EntryOK(diffs[next])
<1>1. diffs \in Seq(DiffEntry) /\ next \in 1 .. Len(diffs) + 1
  BY DEF CopyInv, TypeOK
<1>2. next \in DOMAIN diffs
  <2>1. CASE at = "write"
    BY <2>1 DEF CopyInv, WriteOK
  <2>2. CASE next <= Len(diffs)
    BY <1>1, <2>2, LenProperties
  <2> QED
    BY <2>1, <2>2
<1> QED
  BY <1>1, <1>2, LenProperties DEF CopyInv, DiffsOK

LEMMA WriteEffect ==
  ASSUME CopyInv, WriteHeld
  PROVE  /\ Live' = Live
         /\ \A j \in Live : /\ facets'[j].parent = facets[j].parent
                            /\ j # diffs[next].id => facets'[j] = facets[j]
                            /\ j = diffs[next].id => facets'[j].cols = held.cols
<1>1. IsTable(facets)
  BY DEF CopyInv, TypeOK, TablesOK
<1>2. CASE UpdateFacet(diffs[next].id, held)
  BY <1>1, <1>2 DEF UpdateFacet, UpdateRow, Live, IsTable, Rows
<1>3. CASE diffs[next].id \notin Live /\ UNCHANGED tables
  BY <1>3 DEF tables, Live
<1> QED
  BY <1>2, <1>3 DEF WriteHeld

LEMMA MoveEffect ==
  ASSUME CopyInv, ApplyMoved
  PROVE  /\ Live' = Live
         /\ \A j \in Live : /\ facets'[j].cols = facets[j].cols
                            /\ j # diffs[next].id => facets'[j] = facets[j]
                            /\ j = diffs[next].id => \/ facets'[j].parent = diffs[next].parent
                                                     \/ /\ facets'[j].parent = facets[j].parent
                                                        /\ diffs[next].parent \notin Live \cup {None}
<1>1. IsTable(facets)
  BY DEF CopyInv, TypeOK, TablesOK
<1>2. CASE MoveFacet(diffs[next].id, diffs[next].parent)
  BY <1>1, <1>2 DEF MoveFacet, SetParent, Live, IsTable, Rows
<1>3. CASE /\ diffs[next].id \notin Live \/ ~ParentExists(facets, diffs[next].parent)
           /\ UNCHANGED tables
  BY <1>3 DEF tables, Live, ParentExists
<1> QED
  BY <1>2, <1>3 DEF ApplyMoved

LEMMA DeleteEffect ==
  ASSUME CopyInv, ApplyDeleted
  PROVE  /\ Live' = Live \ {diffs[next].id}
         /\ \A j \in Live' : /\ facets'[j].cols = facets[j].cols
                             /\ facets'[j].parent = IF facets[j].parent = diffs[next].id THEN None
                                                    ELSE facets[j].parent
<1>1. IsTable(facets) /\ ParentsExist(facets)
  BY DEF CopyInv, TypeOK, TablesOK, Integrity, RefIntegrity
<1>2. CASE DeleteFacet(diffs[next].id)
  BY <1>1, <1>2 DEF DeleteFacet, DeleteRow, Orphaned, Live, IsTable, Rows
<1>3. CASE diffs[next].id \notin Live /\ UNCHANGED tables
  <2>1. diffs[next].id \in DOMAIN manifest
    BY NextDiff DEF ApplyDeleted, IsNext, EntryOK, Unseen
  <2>2. diffs[next].id # None
    BY <2>1, NoneAssumption DEF CopyInv, TypeOK
  <2>3. \A j \in Live : facets[j].parent # diffs[next].id
    BY <1>1, <1>3, <2>2 DEF ParentsExist, ParentExists, Live
  <2> QED
    BY <1>3, <2>3 DEF tables, Live
<1> QED
  BY <1>2, <1>3 DEF ApplyDeleted

LEMMA CreateEffect ==
  ASSUME CopyInv, ApplyCreated
  PROVE  /\ Live \subseteq Live' /\ Live' \cap minted \subseteq Live
         /\ \A j \in Live : facets'[j] = facets[j]
<1> PICK row : row = NewRow(diffs[next].path)
  OBVIOUS
<1>1. CASE \E i \in Ids : CreateFacet(i, row)
  <2>1. PICK i \in Ids : CreateFacet(i, row)
    BY <1>1
  <2>2. Live \subseteq minted
    BY DEF CopyInv, TypeOK, TablesOK
  <2> QED
    BY <2>1, <2>2 DEF CreateFacet, InsertRow, Live
<1>2. CASE UNCHANGED tables
  BY <1>2 DEF tables, Live
<1> QED
  BY <1>1, <1>2, CreationIsStatement

(***************************************************************************)
(* Between two writes of others, the flush is the only one to write.       *)
(***************************************************************************)
LEMMA FlushStep ==
  ASSUME CopyInv, [Next]_allVars, FlushWrites
  PROVE  UNCHANGED tables \/ WriteHeld \/ ApplyMoved \/ ApplyDeleted \/ ApplyCreated
<1>1. at \in {"apply", "write"} /\ served' = served
  BY DEF FlushWrites
<1>2. ~Server
  <2>1. SUFFICES ASSUME Server PROVE FALSE
    OBVIOUS
  <2>2. PICK i \in Live : Served({i})
    BY <2>1, ServerWrites
  <2>3. served \in Nat /\ served' = served + 1
    BY <2>2 DEF Served, CopyInv, TypeOK
  <2> QED
    BY <1>1, <2>3
<1>3. ASSUME FetchModified \/ FetchForced PROVE UNCHANGED tables
  BY <1>3, FetchModifiedCopy, FetchForcedCopy
<1>4. ~Edit /\ \A root \in Live : ~CheckOut(root)
  BY <1>1 DEF Edit, CheckOut
<1>5. ASSUME Abandon \/ EndFlush \/ Skip \/ EndDiff \/ (\E f \in BOOLEAN : BeginFlush(f))
             \/ (\E path \in unread : Compare(path) \/ ParseError(path))
      PROVE  UNCHANGED tables
  BY <1>5 DEF Abandon, Stop, EndFlush, Skip, EndDiff, Compare, ParseError, BeginFlush
<1>6. ASSUME UNCHANGED allVars PROVE UNCHANGED tables
  BY <1>6 DEF allVars, tables
<1> QED
  BY <1>2, <1>3, <1>4, <1>5, <1>6 DEF Next, Flush

(***************************************************************************)
(* "If a Conflict is detected and force=false ... the change is not        *)
(* applied" (src/checkout.rs): a facet reported as a conflict keeps its    *)
(* contents and its place through the whole flush, whatever other          *)
(* differences bear its id; at most its parent is deleted from over it.    *)
(***************************************************************************)
THEOREM ConflictsSkipped == Spec => ConflictsAreSkipped
<1> DEFINE P == FlushWrites /\ ~force =>
                  \A i \in Conflicted \cap Live :
                    /\ i \in DOMAIN facets'
                    /\ facets'[i].cols = facets[i].cols
                    /\ facets'[i].parent \in {facets[i].parent, None}
<1>1. ASSUME CopyInv, [Next]_allVars PROVE P
  <2> SUFFICES ASSUME FlushWrites, ~force, NEW i \in Conflicted, i \in Live
               PROVE  /\ i \in Live' /\ facets'[i].cols = facets[i].cols
                      /\ facets'[i].parent \in {facets[i].parent, None}
    BY DEF Live
  <2>1. CASE UNCHANGED tables
    BY <2>1 DEF tables, Live
  <2>2. CASE WriteHeld
    <3>1. i # diffs[next].id
      BY <1>1, <2>2 DEF WriteHeld, CopyInv, WriteOK
    <3> QED
      BY <1>1, <2>2, <3>1, WriteEffect
  <2>3. CASE ApplyMoved
    <3>1. i # diffs[next].id
      BY <2>3 DEF ApplyMoved, IsNext
    <3> QED
      BY <1>1, <2>3, <3>1, MoveEffect
  <2>4. CASE ApplyDeleted
    <3>1. i # diffs[next].id
      BY <2>4 DEF ApplyDeleted, IsNext
    <3> QED
      BY <1>1, <2>4, <3>1, DeleteEffect
  <2>5. CASE ApplyCreated
    BY <1>1, <2>5, CreateEffect
  <2> QED
    BY <1>1, <2>1, <2>2, <2>3, <2>4, <2>5, FlushStep
<1>2. CopyInv /\ [Next]_allVars => [P]_allVars
  BY <1>1
<1> QED
  BY <1>2, CopyInvariance, PTL DEF Spec, ConflictsAreSkipped

(***************************************************************************)
(* "Conflicts are reported (and skipped) unless force=true": a checked-out *)
(* facet that another caller wrote afterwards keeps its contents through a *)
(* flush that began later, as long as some file still bears its id.  The   *)
(* files may bear any ids, those of facets not checked out too, and one id *)
(* several times.                                                          *)
(***************************************************************************)
THEOREM ForeignWritesSpared == Spec => FlushSparesForeign
<1> DEFINE P == FlushWrites /\ ~force /\ calm =>
                  \A i \in (foreign \cap Live \cap DOMAIN manifest) \ Unseen : Spared(i)
<1>1. ASSUME CopyInv, [Next]_allVars PROVE P
  <2> SUFFICES ASSUME FlushWrites, ~force, calm, NEW i \in foreign, i \in Live,
                      i \in DOMAIN manifest, i \notin Unseen
               PROVE  i \in Live' /\ facets'[i].cols = facets[i].cols
    BY DEF Live, Spared
  <2>1. CASE UNCHANGED tables
    BY <2>1 DEF tables, Live
  <2>2. CASE WriteHeld
    <3>1. /\ next \in DOMAIN diffs /\ diffs[next].kind \in {"modified", "conflict"}
          /\ diffs[next].id \notin Conflicted
      BY <1>1, <2>2 DEF WriteHeld, CopyInv, WriteOK
    <3>2. diffs[next].kind = "modified"
      BY <3>1 DEF Conflicted
    <3>3. i # diffs[next].id
      BY <1>1, <3>1, <3>2 DEF CopyInv, DiffsOK, EntryOK
    <3> QED
      BY <1>1, <2>2, <3>3, WriteEffect
  <2>3. CASE ApplyMoved
    BY <1>1, <2>3, MoveEffect
  <2>4. CASE ApplyDeleted
    <3>1. i # diffs[next].id
      BY <1>1, <2>4, NextDiff DEF ApplyDeleted, IsNext, EntryOK
    <3> QED
      BY <1>1, <2>4, <3>1, DeleteEffect
  <2>5. CASE ApplyCreated
    BY <1>1, <2>5, CreateEffect
  <2> QED
    BY <1>1, <2>1, <2>2, <2>3, <2>4, <2>5, FlushStep
<1>2. CopyInv /\ [Next]_allVars => [P]_allVars
  BY <1>1
<1> QED
  BY <1>2, CopyInvariance, PTL DEF Spec, FlushSparesForeign

-----------------------------------------------------------------------------
(***************************************************************************)
(* How a flush settles.  While it runs unconflicted and undisturbed, every *)
(* compared file agrees with the store but for what a difference still to  *)
(* come will set right, and so does every missing file.                    *)
(***************************************************************************)
ToCome(kind, i) ==
  \E k \in DOMAIN diffs : next <= k /\ diffs[k].kind = kind /\ diffs[k].id = i

Settling(p) ==
  LET i == disk[p].id
  IN  /\ i \in Live
      /\ Differs(facets[i], disk[p]) => ToCome("modified", i)
      /\ facets[i].parent # FsParent(p) => FsParent(p) \notin Live \cup {None} \/ ToCome("moved", i)

FilesSettling == \A p \in DOMAIN disk \ unread : disk[p].id # None => Settling(p)

DeletionsToCome == \A i \in Unseen \cap Live : ToCome("deleted", i)

Undisturbed == calm /\ Conflicted = {} /\ Unambiguous

SettlingOK ==
  Undisturbed =>
    /\ at \in {"diff", "apply", "write", "flushed"} => FilesSettling
    /\ at \in {"apply", "write", "flushed"} => DeletionsToCome

LEMMA SettlesAtTheEnd == CopyInv /\ SettlingOK => FlushSettles
<1> SUFFICES ASSUME CopyInv, SettlingOK, at = "flushed", Undisturbed
             PROVE  /\ \A p \in DOMAIN disk : disk[p].id # None => InStore(p)
                    /\ Unseen \cap Live = {}
  BY DEF FlushSettles, Undisturbed
<1>1. next = Len(diffs) + 1 /\ unread = {} /\ diffs \in Seq(DiffEntry)
  BY DEF CopyInv, StageOK, TypeOK
<1>2. \A kind, i : ~ToCome(kind, i)
  BY <1>1, LenProperties DEF ToCome
<1>3. FilesSettling /\ DeletionsToCome
  BY DEF SettlingOK
<1>4. Unseen \cap Live = {}
  BY <1>2, <1>3 DEF DeletionsToCome
<1>5. ASSUME NEW p \in DOMAIN disk, disk[p].id # None PROVE InStore(p)
  <2>1. Settling(p)
    BY <1>1, <1>3, <1>5 DEF FilesSettling
  <2> QED
    BY <1>2, <2>1 DEF Settling, InStore
<1> QED
  BY <1>4, <1>5

(***************************************************************************)
(* What is still to come stays so while the list grows, and when another   *)
(* difference is passed.                                                   *)
(***************************************************************************)
LEMMA StillToCome ==
  ASSUME NEW kind, NEW i, ToCome(kind, i), next' = next,
         \A k \in DOMAIN diffs : k \in DOMAIN diffs' /\ diffs'[k] = diffs[k]
  PROVE  ToCome(kind, i)'
BY DEF ToCome

LEMMA OtherPassed ==
  ASSUME CopyInv, NEW kind, NEW i, ToCome(kind, i), next' = next + 1, diffs' = diffs,
         diffs[next].kind # kind \/ diffs[next].id # i
  PROVE  ToCome(kind, i)'
<1>1. PICK k \in DOMAIN diffs : next <= k /\ diffs[k].kind = kind /\ diffs[k].id = i
  BY DEF ToCome
<1>2. diffs \in Seq(DiffEntry) /\ next \in 1 .. Len(diffs) + 1
  BY DEF CopyInv, TypeOK
<1>3. next \in Int /\ k \in Int
  BY <1>1, <1>2, LenProperties
<1>4. next # k
  BY <1>1
<1>5. next + 1 <= k
  BY <1>1, <1>3, <1>4
<1> QED
  BY <1>1, <1>5 DEF ToCome

LEMMA FsParentStays ==
  ASSUME UNCHANGED <<disk, broken, manifest>>
  PROVE  /\ \A p : FsParent(p)' = FsParent(p)
         /\ Unseen' = Unseen /\ (Unambiguous' <=> Unambiguous)
BY DEF FsParent, Unseen, Unambiguous

LEMMA CompareSettling ==
  ASSUME CopyInv, SettlingOK, NEW path \in unread, Compare(path)
  PROVE  SettlingOK'
<1>1. /\ at = "diff" /\ path \in DOMAIN disk
      /\ UNCHANGED <<facets, minted, stamped, disk, broken, manifest, at, next, calm, foreign>>
      /\ diffs' = diffs \o Found(path) /\ unread' = unread \ {path}
  BY DEF Compare, Reaches, tables, local, history
<1> PICK found : found = Found(path)
  OBVIOUS
<1>2. found \in Seq(DiffEntry) /\ FindsAll(found, path)
  BY <1>1, FoundIs DEF CopyInv
<1>3. \A k \in DOMAIN found : EntryOK(found[k])
  BY <1>1, FoundIsOK
<1>4. /\ diffs' \in Seq(DiffEntry)
      /\ \A k \in DOMAIN diffs : k \in DOMAIN diffs' /\ diffs'[k] = diffs[k]
      /\ \A k \in DOMAIN found : Len(diffs) + k \in DOMAIN diffs' /\ diffs'[Len(diffs) + k] = found[k]
  BY <1>1, <1>2, <1>3, DiffsGrow
<1>5. ASSUME NEW kind \in {"created", "conflict", "moved", "modified"}, Finds(kind, path)
      PROVE  ToCome(kind, disk[path].id)'
  <2>1. PICK k \in DOMAIN found : found[k] = Entry(kind, disk[path].id, path, FsParent(path))
    BY <1>2, <1>5 DEF FindsAll
  <2>2. found[k].kind = kind /\ found[k].id = disk[path].id
    BY <2>1 DEF Entry
  <2>3. next' = 1 /\ disk' = disk
    BY <1>1 DEF CopyInv, StageOK
  <2>4. Len(diffs) + k \in DOMAIN diffs' /\ diffs'[Len(diffs) + k] = found[k]
    BY <1>4
  <2>5. 1 <= Len(diffs) + k
    BY <1>4, <2>4, LenProperties
  <2> QED
    BY <2>2, <2>3, <2>4, <2>5 DEF ToCome
<1>6. SUFFICES ASSUME Undisturbed' PROVE FilesSettling'
  BY <1>1 DEF SettlingOK
<1>7. Conflicted \subseteq Conflicted'
  BY <1>4 DEF Conflicted
<1>8. Undisturbed
  BY <1>1, <1>6, <1>7, FsParentStays DEF Undisturbed
<1>9. FilesSettling
  BY <1>1, <1>8 DEF SettlingOK
<1>10. ASSUME NEW p \in DOMAIN disk, p \notin unread, disk[p].id # None PROVE Settling(p)'
  <2>1. Settling(p)
    BY <1>9, <1>10 DEF FilesSettling
  <2>2. Live' = Live
    BY <1>1 DEF Live
  <2>3. Differs(facets[disk[p].id], disk[p])' <=> Differs(facets[disk[p].id], disk[p])
    BY <1>1 DEF Differs
  <2> QED
    BY <1>1, <1>4, <2>1, <2>2, <2>3, FsParentStays, StillToCome DEF Settling
<1>11. ASSUME disk[path].id # None PROVE Settling(path)'
  <2>1. ~Conflicting(disk[path].id)
    <3>1. SUFFICES ASSUME Conflicting(disk[path].id) PROVE FALSE
      OBVIOUS
    <3>2. ToCome("conflict", disk[path].id)'
      BY <1>5, <1>11, <3>1 DEF Finds
    <3>3. Conflicted' # {}
      BY <3>2 DEF ToCome, Conflicted
    <3> QED
      BY <1>6, <3>3 DEF Undisturbed
  <2>2. disk[path].id \in Live
    BY <2>1 DEF Conflicting
  <2>3. Differs(facets[disk[path].id], disk[path]) => ToCome("modified", disk[path].id)'
    BY <1>5, <1>11, <2>1 DEF Finds
  <2>4. facets[disk[path].id].parent # FsParent(path) => ToCome("moved", disk[path].id)'
    BY <1>5, <1>11, <2>1 DEF Finds, Moved
  <2>5. Live' = Live
    BY <1>1 DEF Live
  <2>6. Differs(facets[disk[path].id], disk[path])' <=> Differs(facets[disk[path].id], disk[path])
    BY <1>1 DEF Differs
  <2> QED
    BY <1>1, <2>2, <2>3, <2>4, <2>5, <2>6, FsParentStays DEF Settling
<1> QED
  BY <1>1, <1>10, <1>11 DEF FilesSettling

LEMMA DeletionsListAll ==
  ASSUME CopyInv, NEW gone \in SetToSeqs(Unseen), NEW i \in Unseen
  PROVE  \E k \in DOMAIN gone : gone[k] = i
<1>1. PICK U : U = Unseen
  OBVIOUS
<1>2. IsFiniteSet(U)
  BY <1>1, FS_Subset DEF CopyInv, CopyOK, Unseen
<1>3. PICK n : n = Cardinality(U) /\ n \in Nat
  BY <1>2, FS_CardinalityType
<1>4. gone \in [1 .. n -> U] /\ \A j, k \in 1 .. n : gone[j] = gone[k] => j = k
  BY <1>1, <1>3 DEF SetToSeqs
<1>5. IsFiniteSet(1 .. n) /\ Cardinality(1 .. n) = n
  BY <1>3, FS_Interval
<1>6. gone \in Injection(1 .. n, U)
  BY <1>4 DEF Injection, IsInjective
<1>7. gone \in Surjection(1 .. n, U)
  BY <1>2, <1>3, <1>5, <1>6, FS_Injection
<1> QED
  BY <1>1, <1>4, <1>7 DEF Surjection

LEMMA EndDiffSettling ==
  ASSUME CopyInv, SettlingOK, EndDiff
  PROVE  SettlingOK'
<1>1. PICK gone \in SetToSeqs(Unseen) : diffs' = diffs \o Deletions(gone)
  BY DEF EndDiff, Deletions
<1>2. /\ at = "diff" /\ at' = "apply" /\ unread = {}
      /\ UNCHANGED <<facets, minted, stamped, disk, broken, manifest, unread, next, calm, foreign>>
  BY DEF EndDiff, tables, local, history
<1> PICK found : found = Deletions(gone)
  OBVIOUS
<1>3. found \in Seq(DiffEntry) /\ DOMAIN found = DOMAIN gone /\ \A k \in DOMAIN found : EntryOK(found[k])
  BY DeletionsAreOK
<1>4. /\ diffs' \in Seq(DiffEntry)
      /\ \A k \in DOMAIN diffs : k \in DOMAIN diffs' /\ diffs'[k] = diffs[k]
      /\ \A k \in DOMAIN found : Len(diffs) + k \in DOMAIN diffs' /\ diffs'[Len(diffs) + k] = found[k]
  BY <1>1, <1>2, <1>3, DiffsGrow
<1>5. SUFFICES ASSUME Undisturbed' PROVE FilesSettling' /\ DeletionsToCome'
  BY DEF SettlingOK
<1>6. Conflicted \subseteq Conflicted'
  BY <1>4 DEF Conflicted
<1>7. Undisturbed
  BY <1>2, <1>5, <1>6, FsParentStays DEF Undisturbed
<1>8. FilesSettling
  BY <1>2, <1>7 DEF SettlingOK
<1>9. Live' = Live
  BY <1>2 DEF Live
<1>10. ASSUME NEW p \in DOMAIN disk, disk[p].id # None PROVE Settling(p)'
  <2>1. Settling(p)
    BY <1>2, <1>8, <1>10 DEF FilesSettling
  <2>2. Differs(facets[disk[p].id], disk[p])' <=> Differs(facets[disk[p].id], disk[p])
    BY <1>2 DEF Differs
  <2> QED
    BY <1>2, <1>4, <1>9, <2>1, <2>2, FsParentStays, StillToCome DEF Settling
<1>11. ASSUME NEW i \in Unseen, i \in Live PROVE ToCome("deleted", i)'
  <2>1. PICK k \in DOMAIN gone : gone[k] = i
    BY DeletionsListAll
  <2>2. found[k].kind = "deleted" /\ found[k].id = i
    BY <2>1 DEF Deletions, Entry
  <2>3. Len(diffs) + k \in DOMAIN diffs' /\ diffs'[Len(diffs) + k] = found[k]
    BY <1>3, <1>4
  <2>4. next' = 1 /\ 1 <= Len(diffs) + k
    BY <1>2, <1>4, <2>3, LenProperties DEF CopyInv, StageOK
  <2> QED
    BY <2>2, <2>3, <2>4 DEF ToCome
<1> QED
  BY <1>2, <1>9, <1>10, <1>11, FsParentStays DEF FilesSettling, DeletionsToCome

(***************************************************************************)
(* Passing a difference settles what it was about.                         *)
(***************************************************************************)
LEMMA PassedSettling ==
  ASSUME CopyInv, SettlingOK, at \in {"apply", "write"}, Passed,
         Undisturbed /\ FilesSettling /\ DeletionsToCome
           => /\ \A p \in DOMAIN disk : disk[p].id # None => Settling(p)'
              /\ \A i \in Unseen \cap Live' : ToCome("deleted", i)'
  PROVE  SettlingOK'
<1>1. /\ at' = "apply" /\ UNCHANGED <<disk, broken, manifest, diffs, calm, unread>>
  BY DEF Passed, local
<1>2. Undisturbed' <=> Undisturbed
  BY <1>1, FsParentStays DEF Undisturbed, Conflicted
<1>3. Undisturbed => FilesSettling /\ DeletionsToCome
  BY DEF SettlingOK
<1>4. Undisturbed' => FilesSettling' /\ DeletionsToCome'
  BY <1>1, <1>2, <1>3, FsParentStays DEF FilesSettling, DeletionsToCome
<1> QED
  BY <1>4 DEF SettlingOK

LEMMA PassedFacts ==
  ASSUME CopyInv, at \in {"apply", "write"}, Passed
  PROVE  /\ next' = next + 1 /\ unread = {}
         /\ UNCHANGED <<disk, broken, manifest, diffs>>
         /\ \A p : FsParent(p)' = FsParent(p)
BY FsParentStays DEF Passed, local, CopyInv, StageOK

(***************************************************************************)
(* Where a file of a difference is, when ids are unambiguous.              *)
(***************************************************************************)
LEMMA OneFile ==
  ASSUME CopyInv, Unambiguous, NEW d, EntryOK(d), d.kind \in {"modified", "moved"},
         NEW p \in DOMAIN disk, disk[p].id = d.id
  PROVE  p = d.path
<1>1. d.path \in DOMAIN disk /\ disk[d.path].id = d.id /\ d.id \in minted
  BY DEF EntryOK
<1>2. d.id # None
  BY <1>1, NoneAssumption DEF CopyInv, TypeOK, TablesOK
<1> QED
  BY <1>1, <1>2 DEF Unambiguous

LEMMA WriteSettling ==
  ASSUME CopyInv, SettlingOK, WriteHeld
  PROVE  SettlingOK'
<1>1. at = "write" /\ Passed
  BY DEF WriteHeld
<1> SUFFICES ASSUME Undisturbed, FilesSettling, DeletionsToCome
             PROVE  /\ \A p \in DOMAIN disk : disk[p].id # None => Settling(p)'
                    /\ \A i \in Unseen \cap Live' : ToCome("deleted", i)'
  BY <1>1, PassedSettling
<1> PICK d : d = diffs[next]
  OBVIOUS
<1>2. next \in DOMAIN diffs /\ EntryOK(d)
  BY <1>1, NextDiff
<1>3. d.kind = "modified" /\ \A c \in Compared : held.cols[c] = disk[d.path].cols[c]
  BY <1>1, <1>2 DEF CopyInv, WriteOK, Undisturbed, Conflicted
<1>4. /\ Live' = Live
      /\ \A j \in Live : /\ facets'[j].parent = facets[j].parent
                         /\ j # d.id => facets'[j] = facets[j]
                         /\ j = d.id => facets'[j].cols = held.cols
  BY WriteEffect
<1>5. /\ next' = next + 1 /\ unread = {} /\ UNCHANGED <<disk, broken, manifest, diffs>>
      /\ \A p : FsParent(p)' = FsParent(p)
  BY <1>1, PassedFacts
<1>6. ASSUME NEW i, ToCome("deleted", i) PROVE ToCome("deleted", i)'
  BY <1>3, <1>5, <1>6, OtherPassed
<1>7. ASSUME NEW p \in DOMAIN disk, disk[p].id # None PROVE Settling(p)'
  <2> PICK j : j = disk[p].id
    OBVIOUS
  <2>1. Settling(p)
    BY <1>5, <1>7 DEF FilesSettling
  <2>2. j \in Live /\ j \in Live'
    BY <1>4, <2>1 DEF Settling
  <2>3. ToCome("moved", j) => ToCome("moved", j)'
    BY <1>3, <1>5, OtherPassed
  <2>4. Differs(facets[j], disk[p])' => ToCome("modified", j)'
    <3>1. CASE j = d.id
      <4>1. p = d.path
        BY <1>2, <1>3, <3>1, OneFile DEF Undisturbed
      <4>2. \A c \in Compared : facets'[j].cols[c] = disk[p].cols[c]
        BY <1>3, <1>4, <2>2, <3>1, <4>1
      <4> QED
        BY <1>5, <4>2 DEF Differs
    <3>2. CASE j # d.id
      <4>1. Differs(facets[j], disk[p])' => Differs(facets[j], disk[p])
        BY <1>4, <1>5, <2>2, <3>2 DEF Differs
      <4>2. Differs(facets[j], disk[p]) => ToCome("modified", j)
        BY <2>1 DEF Settling
      <4>3. ToCome("modified", j) => ToCome("modified", j)'
        BY <1>5, <3>2, OtherPassed
      <4> QED
        BY <4>1, <4>2, <4>3
    <3> QED
      BY <3>1, <3>2
  <2>5. facets'[j].parent = facets[j].parent
    BY <1>4, <2>2
  <2>6. disk'[p].id = j
    BY <1>5
  <2> QED
    BY <1>4, <1>5, <2>1, <2>2, <2>3, <2>4, <2>5, <2>6 DEF Settling
<1> QED
  BY <1>4, <1>6, <1>7 DEF DeletionsToCome

LEMMA MoveSettling ==
  ASSUME CopyInv, SettlingOK, ApplyMoved
  PROVE  SettlingOK'
<1>1. at = "apply" /\ next <= Len(diffs) /\ diffs[next].kind = "moved" /\ Passed
  BY DEF ApplyMoved, IsNext
<1> SUFFICES ASSUME Undisturbed, FilesSettling, DeletionsToCome
             PROVE  /\ \A p \in DOMAIN disk : disk[p].id # None => Settling(p)'
                    /\ \A i \in Unseen \cap Live' : ToCome("deleted", i)'
  BY <1>1, PassedSettling
<1> PICK d : d = diffs[next]
  OBVIOUS
<1>2. next \in DOMAIN diffs /\ EntryOK(d) /\ d.parent = FsParent(d.path)
  BY <1>1, NextDiff DEF EntryOK
<1>3. /\ Live' = Live
      /\ \A j \in Live : /\ facets'[j].cols = facets[j].cols
                         /\ j # d.id => facets'[j] = facets[j]
                         /\ j = d.id => \/ facets'[j].parent = d.parent
                                        \/ /\ facets'[j].parent = facets[j].parent
                                           /\ d.parent \notin Live \cup {None}
  BY MoveEffect
<1>4. /\ next' = next + 1 /\ unread = {} /\ UNCHANGED <<disk, broken, manifest, diffs>>
      /\ \A p : FsParent(p)' = FsParent(p)
  BY <1>1, PassedFacts
<1>5. ASSUME NEW i, NEW kind \in {"deleted", "modified"}, ToCome(kind, i) PROVE ToCome(kind, i)'
  BY <1>1, <1>4, <1>5, OtherPassed
<1>6. ASSUME NEW p \in DOMAIN disk, disk[p].id # None PROVE Settling(p)'
  <2> PICK j : j = disk[p].id
    OBVIOUS
  <2>1. Settling(p)
    BY <1>4, <1>6 DEF FilesSettling
  <2>2. j \in Live /\ j \in Live'
    BY <1>3, <2>1 DEF Settling
  <2>3. Differs(facets[j], disk[p])' => ToCome("modified", j)'
    <3>1. Differs(facets[j], disk[p])' => Differs(facets[j], disk[p])
      BY <1>3, <1>4, <2>2 DEF Differs
    <3>2. Differs(facets[j], disk[p]) => ToCome("modified", j)
      BY <2>1 DEF Settling
    <3> QED
      BY <1>5, <3>1, <3>2
  <2>4. facets'[j].parent # FsParent(p) => FsParent(p) \notin Live \cup {None} \/ ToCome("moved", j)'
    <3>1. CASE j = d.id
      <4>1. p = d.path
        BY <1>1, <1>2, <3>1, OneFile DEF Undisturbed
      <4> QED
        BY <1>2, <1>3, <2>2, <3>1, <4>1
    <3>2. CASE j # d.id
      <4>1. facets'[j].parent = facets[j].parent
        BY <1>3, <2>2, <3>2
      <4>2. facets[j].parent # FsParent(p) => FsParent(p) \notin Live \cup {None} \/ ToCome("moved", j)
        BY <2>1 DEF Settling
      <4>3. ToCome("moved", j) => ToCome("moved", j)'
        BY <1>4, <3>2, OtherPassed
      <4> QED
        BY <4>1, <4>2, <4>3
    <3> QED
      BY <3>1, <3>2
  <2>5. disk'[p].id = j
    BY <1>4
  <2> QED
    BY <1>3, <1>4, <2>2, <2>3, <2>4, <2>5 DEF Settling
<1> QED
  BY <1>3, <1>5, <1>6 DEF DeletionsToCome

LEMMA DeleteSettling ==
  ASSUME CopyInv, SettlingOK, ApplyDeleted
  PROVE  SettlingOK'
<1>1. at = "apply" /\ next <= Len(diffs) /\ diffs[next].kind = "deleted" /\ Passed
  BY DEF ApplyDeleted, IsNext
<1> SUFFICES ASSUME Undisturbed, FilesSettling, DeletionsToCome
             PROVE  /\ \A p \in DOMAIN disk : disk[p].id # None => Settling(p)'
                    /\ \A i \in Unseen \cap Live' : ToCome("deleted", i)'
  BY <1>1, PassedSettling
<1> PICK i : i = diffs[next].id
  OBVIOUS
<1>2. i \in Unseen /\ i # None
  <2>1. i \in Unseen
    BY <1>1, NextDiff DEF EntryOK
  <2> QED
    BY <2>1, NoneAssumption DEF Unseen, CopyInv, TypeOK
<1>3. /\ Live' = Live \ {i}
      /\ \A j \in Live' : /\ facets'[j].cols = facets[j].cols
                          /\ facets'[j].parent = IF facets[j].parent = i THEN None
                                                 ELSE facets[j].parent
  BY DeleteEffect
<1>4. /\ next' = next + 1 /\ unread = {} /\ UNCHANGED <<disk, broken, manifest, diffs>>
      /\ \A p : FsParent(p)' = FsParent(p)
  BY <1>1, PassedFacts
<1>5. ASSUME NEW kind, NEW j, ToCome(kind, j), j # i \/ kind # "deleted" PROVE ToCome(kind, j)'
  BY <1>1, <1>4, <1>5, OtherPassed
<1>6. ASSUME NEW p \in DOMAIN disk, disk[p].id # None PROVE Settling(p)'
  <2> PICK j : j = disk[p].id
    OBVIOUS
  <2>1. Settling(p)
    BY <1>4, <1>6 DEF FilesSettling
  <2>2. j # i
    BY <1>2 DEF Unseen
  <2>3. j \in Live /\ j \in Live'
    BY <1>3, <2>1, <2>2 DEF Settling
  <2>4. Differs(facets[j], disk[p])' => ToCome("modified", j)'
    <3>1. Differs(facets[j], disk[p])' => Differs(facets[j], disk[p])
      BY <1>3, <1>4, <2>3 DEF Differs
    <3>2. Differs(facets[j], disk[p]) => ToCome("modified", j)
      BY <2>1 DEF Settling
    <3> QED
      BY <1>5, <3>1, <3>2
  <2>5. facets'[j].parent # FsParent(p) => FsParent(p) \notin Live' \cup {None} \/ ToCome("moved", j)'
    <3>1. CASE FsParent(p) = i
      BY <1>2, <1>3, <3>1
    <3>2. CASE FsParent(p) # i
      <4>1. ToCome("moved", j) => ToCome("moved", j)'
        BY <1>5
      <4>2. facets[j].parent # FsParent(p) => FsParent(p) \notin Live \cup {None} \/ ToCome("moved", j)
        BY <2>1 DEF Settling
      <4>3. facets'[j].parent # facets[j].parent => facets[j].parent = i
        BY <1>3, <2>3
      <4> QED
        BY <1>3, <3>2, <4>1, <4>2, <4>3
    <3> QED
      BY <3>1, <3>2
  <2>6. disk'[p].id = j
    BY <1>4
  <2> QED
    BY <1>4, <2>3, <2>4, <2>5, <2>6 DEF Settling
<1>7. ASSUME NEW j \in Unseen, j \in Live' PROVE ToCome("deleted", j)'
  BY <1>3, <1>5, <1>7 DEF DeletionsToCome
<1> QED
  BY <1>6, <1>7

LEMMA CreateSettling ==
  ASSUME CopyInv, SettlingOK, ApplyCreated
  PROVE  SettlingOK'
<1>1. at = "apply" /\ next <= Len(diffs) /\ diffs[next].kind = "created" /\ Passed
  BY DEF ApplyCreated, IsNext
<1> SUFFICES ASSUME Undisturbed, FilesSettling, DeletionsToCome
             PROVE  /\ \A p \in DOMAIN disk : disk[p].id # None => Settling(p)'
                    /\ \A i \in Unseen \cap Live' : ToCome("deleted", i)'
  BY <1>1, PassedSettling
<1>2. /\ Live \subseteq Live' /\ Live' \cap minted \subseteq Live
      /\ \A j \in Live : facets'[j] = facets[j]
  BY CreateEffect
<1>3. DOMAIN manifest \subseteq minted
  BY DEF CopyInv, CopyOK
<1>4. /\ next' = next + 1 /\ unread = {} /\ UNCHANGED <<disk, broken, manifest, diffs>>
      /\ \A p : FsParent(p)' = FsParent(p)
  BY <1>1, PassedFacts
<1>5. ASSUME NEW kind \in {"deleted", "moved", "modified"}, NEW j, ToCome(kind, j) PROVE ToCome(kind, j)'
  BY <1>1, <1>4, <1>5, OtherPassed
<1>6. ASSUME NEW p \in DOMAIN disk, disk[p].id # None PROVE Settling(p)'
  <2> PICK j : j = disk[p].id
    OBVIOUS
  <2>1. Settling(p)
    BY <1>4, <1>6 DEF FilesSettling
  <2>2. j \in Live /\ j \in Live' /\ facets'[j] = facets[j]
    BY <1>2, <2>1 DEF Settling
  <2>3. Differs(facets[j], disk[p])' => ToCome("modified", j)'
    <3>1. Differs(facets[j], disk[p])' => Differs(facets[j], disk[p])
      BY <1>4, <2>2 DEF Differs
    <3>2. Differs(facets[j], disk[p]) => ToCome("modified", j)
      BY <2>1 DEF Settling
    <3> QED
      BY <1>5, <3>1, <3>2
  <2>4. facets'[j].parent # FsParent(p) => FsParent(p) \notin Live' \cup {None} \/ ToCome("moved", j)'
    <3>1. FsParent(p) \in minted \cup {None}
      BY ParentIsKnown DEF CopyInv
    <3>2. FsParent(p) \notin Live \cup {None} => FsParent(p) \notin Live' \cup {None}
      BY <1>2, <1>3, <3>1
    <3>3. ToCome("moved", j) => ToCome("moved", j)'
      BY <1>5
    <3>4. facets[j].parent # FsParent(p) => FsParent(p) \notin Live \cup {None} \/ ToCome("moved", j)
      BY <2>1 DEF Settling
    <3> QED
      BY <2>2, <3>2, <3>3, <3>4
  <2>5. disk'[p].id = j
    BY <1>4
  <2> QED
    BY <1>4, <2>2, <2>3, <2>4, <2>5 DEF Settling
<1>7. ASSUME NEW j \in Unseen, j \in Live' PROVE ToCome("deleted", j)'
  <2>1. j \in Live
    BY <1>2, <1>3, <1>7 DEF Unseen
  <2> QED
    BY <1>5, <2>1 DEF DeletionsToCome
<1> QED
  BY <1>6, <1>7

(***************************************************************************)
(* Steps that write nothing and pass nothing.                              *)
(***************************************************************************)
LEMMA QuietSettling ==
  ASSUME SettlingOK, UNCHANGED <<facets, disk, broken, manifest, unread, diffs, next, calm>>,
         at \in {"diff", "apply", "write", "flushed"},
         at \in {"apply", "write", "flushed"} \/ at' = at
  PROVE  SettlingOK'
<1>1. Live' = Live /\ Conflicted' = Conflicted
  BY DEF Live, Conflicted
<1>2. Undisturbed' <=> Undisturbed
  BY <1>1, FsParentStays DEF Undisturbed
<1>3. \A kind, i : ToCome(kind, i)' <=> ToCome(kind, i)
  BY DEF ToCome
<1>4. \A p : Differs(facets[disk[p].id], disk[p])' <=> Differs(facets[disk[p].id], disk[p])
  BY DEF Differs
<1>5. \A p : Settling(p)' <=> Settling(p)
  BY <1>1, <1>3, <1>4, FsParentStays DEF Settling
<1>6. FilesSettling' <=> FilesSettling
  BY <1>5 DEF FilesSettling
<1>7. DeletionsToCome' <=> DeletionsToCome
  BY <1>1, <1>3, FsParentStays DEF DeletionsToCome
<1> QED
  BY <1>2, <1>6, <1>7 DEF SettlingOK

(***************************************************************************)
(* A row the flush cannot read is not the row of a file, if all is well.   *)
(***************************************************************************)
LEMMA FetchSettling ==
  ASSUME CopyInv, SettlingOK, NEW kind \in {"modified", "conflict"}, IsNext(kind), NEW path,
         kind = "modified" => path = diffs[next].path,
         FetchFor(diffs[next].id, path)
  PROVE  SettlingOK'
<1> PICK d : d = diffs[next]
  OBVIOUS
<1>1. at = "apply" /\ next \in DOMAIN diffs /\ EntryOK(d) /\ d.kind = kind
  BY NextDiff DEF IsNext
<1>2. CASE d.id \in Live /\ path \in DOMAIN disk
  <2>1. UNCHANGED <<facets, disk, broken, manifest, unread, diffs, next, calm>>
    BY <1>2 DEF FetchFor, tables, local
  <2> QED
    BY <1>1, <2>1, QuietSettling
<1>3. CASE ~(d.id \in Live /\ path \in DOMAIN disk)
  <2>1. Passed /\ UNCHANGED <<facets, edges, minted, stamped>>
    BY <1>3 DEF FetchFor, tables
  <2> SUFFICES ASSUME Undisturbed, FilesSettling, DeletionsToCome
               PROVE  /\ \A p \in DOMAIN disk : disk[p].id # None => Settling(p)'
                      /\ \A i \in Unseen \cap Live' : ToCome("deleted", i)'
    BY <1>1, <2>1, PassedSettling
  <2>2. kind = "modified"
    BY <1>1 DEF Undisturbed, Conflicted
  <2>3. d.id \notin Live
    BY <1>1, <1>3, <2>2 DEF EntryOK
  <2>4. /\ next' = next + 1 /\ unread = {} /\ UNCHANGED <<disk, broken, manifest, diffs>>
        /\ \A p : FsParent(p)' = FsParent(p)
    BY <1>1, <2>1, PassedFacts
  <2>5. Live' = Live
    BY <2>1 DEF Live
  <2>6. ASSUME NEW k, NEW j \in Live, ToCome(k, j) PROVE ToCome(k, j)'
    BY <2>3, <2>4, <2>6, OtherPassed
  <2>7. ASSUME NEW p \in DOMAIN disk, disk[p].id # None PROVE Settling(p)'
    <3> PICK j : j = disk[p].id
      OBVIOUS
    <3>1. Settling(p)
      BY <2>4, <2>7 DEF FilesSettling
    <3>2. j \in Live
      BY <3>1 DEF Settling
    <3>3. Differs(facets[j], disk[p])' <=> Differs(facets[j], disk[p])
      BY <2>1, <2>4 DEF Differs
    <3>4. Differs(facets[j], disk[p]) => ToCome("modified", j)'
      BY <2>6, <3>1, <3>2 DEF Settling
    <3>5. facets[j].parent # FsParent(p) => FsParent(p) \notin Live \cup {None} \/ ToCome("moved", j)'
      BY <2>6, <3>1, <3>2 DEF Settling
    <3>6. disk'[p].id = j
      BY <2>4
    <3> QED
      BY <2>1, <2>4, <2>5, <3>2, <3>3, <3>4, <3>5, <3>6 DEF Settling
  <2> QED
    BY <2>5, <2>6, <2>7 DEF DeletionsToCome
<1> QED
  BY <1>2, <1>3

LEMMA ForcedSettling ==
  ASSUME CopyInv, SettlingOK, FetchForced
  PROVE  SettlingOK'
<1> PICK i : i = diffs[next].id
  OBVIOUS
<1>1. IsNext("conflict")
  BY DEF FetchForced
<1>2. CASE i \in DOMAIN manifest
  <2>1. FetchFor(diffs[next].id, manifest[i].path)
    BY <1>2 DEF FetchForced
  <2> QED
    BY <1>1, <2>1, FetchSettling
<1>3. CASE i \notin DOMAIN manifest
  <2>1. Passed /\ at = "apply"
    BY <1>1, <1>3 DEF FetchForced, IsNext
  <2>2. ~Undisturbed
    BY <1>1, NextDiff DEF IsNext, Undisturbed, Conflicted
  <2> QED
    BY <2>1, <2>2, PassedSettling
<1> QED
  BY <1>2, <1>3

LEMMA NextSettling ==
  ASSUME CopyInv, SettlingOK, [Next]_allVars
  PROVE  SettlingOK'
<1>1. CASE Edit \/ Stop \/ \E root \in Live : CheckOut(root)
  BY <1>1 DEF Edit, Stop, CheckOut, SettlingOK
<1>2. CASE \E f \in BOOLEAN : BeginFlush(f)
  BY <1>2 DEF BeginFlush, local, SettlingOK, FilesSettling
<1>3. CASE \E path \in unread : Compare(path) \/ ParseError(path)
  BY <1>1, <1>3, CompareSettling DEF ParseError
<1>4. CASE EndDiff
  BY <1>4, EndDiffSettling
<1>5. CASE FetchModified
  BY <1>5, FetchSettling DEF FetchModified
<1>6. CASE FetchForced
  BY <1>6, ForcedSettling
<1>7. CASE Skip
  <2>1. at = "apply" /\ Passed /\ ~Undisturbed
    BY <1>7 DEF Skip, Undisturbed
  <2> QED
    BY <2>1, PassedSettling
<1>8. CASE WriteHeld
  BY <1>8, WriteSettling
<1>9. CASE ApplyMoved
  BY <1>9, MoveSettling
<1>10. CASE ApplyDeleted
  BY <1>10, DeleteSettling
<1>11. CASE ApplyCreated
  BY <1>11, CreateSettling
<1>12. CASE EndFlush
  <2>1. at = "apply" /\ UNCHANGED <<facets, disk, broken, manifest, unread, diffs, next, calm>>
    BY <1>12 DEF EndFlush, tables, local
  <2> QED
    BY <2>1, QuietSettling
<1>13. CASE Server
  <2>1. PICK i \in Live : Served({i})
    BY <1>13, ServerWrites
  <2> QED
    BY <2>1 DEF Served, SettlingOK, Undisturbed
<1>14. CASE UNCHANGED allVars
  <2>1. UNCHANGED <<facets, disk, broken, manifest, unread, diffs, next, calm, at>>
    BY <1>14 DEF allVars
  <2>2. CASE at \in {"diff", "apply", "write", "flushed"}
    BY <2>1, <2>2, QuietSettling
  <2>3. CASE at \notin {"diff", "apply", "write", "flushed"}
    BY <2>1, <2>3 DEF SettlingOK
  <2> QED
    BY <2>2, <2>3
<1> QED
  BY <1>1, <1>2, <1>3, <1>4, <1>5, <1>6, <1>7, <1>8, <1>9, <1>10, <1>11, <1>12, <1>13, <1>14 DEF Next, Flush, Abandon

(***************************************************************************)
(* A flush that met no conflict, no other writer and no id in two files    *)
(* leaves the store as the files say: each file's facet has its fields and *)
(* its place, and those whose files are missing are gone.  The order in    *)
(* which flush applies the differences (src/checkout.rs) never undoes one. *)
(***************************************************************************)
THEOREM FlushesSettle == Spec => []FlushSettles
<1>1. Init => SettlingOK
  BY DEF Init, SettlingOK
<1>2. CopyInv /\ SettlingOK /\ [Next]_allVars => SettlingOK'
  BY NextSettling
<1>3. CopyInv /\ SettlingOK => FlushSettles
  BY SettlesAtTheEnd
<1> QED
  BY <1>1, <1>2, <1>3, CopyInvariance, PTL DEF Spec

-----------------------------------------------------------------------------
(***************************************************************************)
(* A copy nobody touched, of a subtree nobody touched: every facet of the  *)
(* manifest is where checkout put it, and its file is what its row reads   *)
(* back as, or does not parse.  But for the root, the directory of a file  *)
(* is the path of its parent, and of no other facet.                       *)
(***************************************************************************)
InPlace(i) ==
  /\ i \in Live
  /\ manifest[i].parent = facets[i].parent
  /\ \/ manifest[i].path \in broken
     \/ manifest[i].path \in DOMAIN disk /\ disk[manifest[i].path] = RenderedFile(i)
  /\ \/ Len(manifest[i].path) = 1
     \/ /\ facets[i].parent \in DOMAIN manifest
        /\ Front(manifest[i].path) = manifest[facets[i].parent].path
  /\ manifest[i].path # <<>>

AsCheckedOut ==
  /\ \A i \in DOMAIN manifest : InPlace(i)
  /\ \A i, j \in DOMAIN manifest : manifest[i].path = manifest[j].path => i = j
  /\ \A p \in DOMAIN disk : disk[p].id \in DOMAIN manifest /\ manifest[disk[p].id].path = p

Explained(d) == RootDrift(d) \/ TextDrift(d)

UntouchedOK ==
  Untouched => AsCheckedOut /\ \A k \in DOMAIN diffs : Explained(diffs[k])

LEMMA CheckOutUntouched ==
  ASSUME CopyInv, NEW root \in Live, CheckOut(root)
  PROVE  UntouchedOK'
<1> PICK D : D = Below(facets, {root})
  OBVIOUS
<1>1. D \subseteq Live /\ \E order, path : Written(root, order, path)
  BY CheckOutWrites
<1>2. PICK order, path : Written(root, order, path)
  BY <1>1
<1>3. /\ path \in [D -> Seq(Names)]
      /\ \A i \in D : WellPlaced(path, root, i)
      /\ \A i, j \in D : path[i] = path[j] => i = j
      /\ DOMAIN disk' = {path[i] : i \in {j \in D : ReadBack(j) # None}}
      /\ broken' = {path[i] : i \in {j \in D : ReadBack(j) = None}}
      /\ \A i \in D : ReadBack(i) # None => disk'[path[i]] = RenderedFile(i)
      /\ manifest' = [i \in D |-> [path |-> path[i], parent |-> facets[i].parent]]
  BY <1>2 DEF Written, IsPaths
<1>4. diffs = <<>> /\ diffs' = diffs /\ facets' = facets
  BY DEF CopyInv, StageOK, CheckOut
<1>5. ASSUME NEW i \in D PROVE InPlace(i)'
  <2>1. i \in Live' /\ manifest'[i].parent = facets'[i].parent /\ manifest'[i].path = path[i]
    BY <1>1, <1>3, <1>4 DEF Live
  <2>2. path[i] \in broken' \/ (path[i] \in DOMAIN disk' /\ disk'[path[i]] = RenderedFile(i))
    <3>1. CASE ReadBack(i) = None
      BY <1>3, <3>1
    <3>2. CASE ReadBack(i) # None
      BY <1>3, <3>2
    <3> QED
      BY <3>1, <3>2
  <2>3. RenderedFile(i)' = RenderedFile(i)
    BY <1>4 DEF RenderedFile, ReadBack
  <2>5. WellPlaced(path, root, i)
    BY <1>3
  <2>6. \/ Len(path[i]) = 1
        \/ facets[i].parent \in D /\ Front(path[i]) = path[facets[i].parent]
    BY <2>5 DEF WellPlaced
  <2>7. path[i] # <<>>
    <3>1. Len(path[i]) >= 1
      BY <2>5 DEF WellPlaced
    <3>2. Len(<<>>) = 0
      OBVIOUS
    <3> QED
      BY <3>1, <3>2
  <2>8. DOMAIN manifest' = D /\ \A j \in D : manifest'[j].path = path[j]
    BY <1>3
  <2> QED
    BY <1>4, <2>1, <2>2, <2>3, <2>6, <2>7, <2>8 DEF InPlace
<1>6. ASSUME NEW p \in DOMAIN disk' PROVE disk'[p].id \in DOMAIN manifest' /\ manifest'[disk'[p].id].path = p
  <2>1. PICK i \in D : p = path[i] /\ ReadBack(i) # None
    BY <1>3
  <2>2. disk'[p].id = i
    <3>1. disk'[p] = RenderedFile(i)
      BY <1>3, <2>1
    <3> QED
      BY <3>1 DEF RenderedFile
  <2> QED
    BY <1>3, <2>1, <2>2
<1>7. DOMAIN manifest' = D /\ \A i, j \in D : manifest'[i].path = manifest'[j].path => i = j
  BY <1>3
<1>8. AsCheckedOut'
  BY <1>5, <1>6, <1>7 DEF AsCheckedOut
<1> QED
  BY <1>4, <1>8 DEF UntouchedOK

(***************************************************************************)
(* fs_parent_uuid finds every parent again, but for the root's: from the   *)
(* id in the parent's file, or from the manifest if that does not parse.   *)
(***************************************************************************)
LEMMA ParentFoundAgain ==
  ASSUME CopyInv, AsCheckedOut, NEW path \in DOMAIN disk
  PROVE  \/ Len(path) = 1 /\ FsParent(path) = None
         \/ FsParent(path) = facets[disk[path].id].parent
<1> PICK i : i = disk[path].id
  OBVIOUS
<1>1. i \in DOMAIN manifest /\ manifest[i].path = path /\ InPlace(i)
  BY DEF AsCheckedOut
<1>2. CASE Len(path) = 1
  <2>1. path \in Seq(Names)
    BY DEF CopyInv, TypeOK
  <2>2. Front(path) = <<>>
    BY <1>2, <2>1 DEF Front
  <2>3. <<>> \notin DOMAIN disk
    BY DEF AsCheckedOut, InPlace
  <2>4. {j \in DOMAIN manifest : manifest[j].path = <<>>} = {}
    BY DEF AsCheckedOut, InPlace
  <2>5. FsParent(path) = None
    BY <2>2, <2>3, <2>4 DEF FsParent
  <2> QED
    BY <1>2, <2>5
<1>3. CASE Len(path) # 1
  <2> PICK q : q = facets[i].parent
    OBVIOUS
  <2> PICK dir : dir = Front(path)
    OBVIOUS
  <2>1. q \in DOMAIN manifest /\ dir = manifest[q].path
    BY <1>1, <1>3 DEF InPlace
  <2>2. q # None
    BY <2>1, NoneAssumption DEF CopyInv, TypeOK
  <2>3. {j \in DOMAIN manifest : manifest[j].path = dir} = {q}
    BY <2>1 DEF AsCheckedOut
  <2>4. dir \in DOMAIN disk => disk[dir].id = q
    BY <2>1 DEF AsCheckedOut
  <2>5. FsParent(path) = q
    <3>1. CASE dir \in DOMAIN disk
      BY <2>2, <2>4, <3>1 DEF FsParent
    <3>2. CASE dir \notin DOMAIN disk
      <4>1. FsParent(path) = CHOOSE j \in {q} : TRUE
        BY <2>3, <3>2 DEF FsParent
      <4> QED
        BY <4>1
    <3> QED
      BY <3>1, <3>2
  <2> QED
    BY <2>5
<1> QED
  BY <1>2, <1>3

LEMMA CheckedOutStays ==
  ASSUME UNCHANGED <<facets, disk, broken, manifest>>
  PROVE  /\ AsCheckedOut => AsCheckedOut'
         /\ \A d : Explained(d)' <=> Explained(d)
<1>1. \A i : ReadBack(i)' = ReadBack(i)
  BY DEF ReadBack
<1>2. \A i \in DOMAIN manifest : InPlace(i) => InPlace(i)'
  BY <1>1 DEF InPlace, RenderedFile, Live
<1>3. AsCheckedOut => AsCheckedOut'
  BY <1>2 DEF AsCheckedOut
<1>4. \A d : Explained(d)' <=> Explained(d)
  BY <1>1 DEF Explained, RootDrift, TextDrift
<1> QED
  BY <1>3, <1>4

LEMMA QuietUntouched ==
  ASSUME UntouchedOK, UNCHANGED <<facets, disk, broken, manifest>>,
         diffs' = diffs \/ diffs' = <<>>, Untouched' => Untouched
  PROVE  UntouchedOK'
<1>1. SUFFICES ASSUME Untouched' PROVE AsCheckedOut' /\ \A k \in DOMAIN diffs' : Explained(diffs[k])'
  BY DEF UntouchedOK
<1>2. AsCheckedOut /\ \A k \in DOMAIN diffs : Explained(diffs[k])
  BY <1>1 DEF UntouchedOK
<1>3. AsCheckedOut'
  BY <1>2, CheckedOutStays
<1>4. ASSUME NEW k \in DOMAIN diffs' PROVE Explained(diffs[k])'
  <2> PICK d : d = diffs[k]
    OBVIOUS
  <2>1. k \in DOMAIN diffs /\ diffs'[k] = d
    BY <1>4
  <2>2. Explained(d)'
    BY <1>2, <2>1, CheckedOutStays
  <2> QED
    BY <2>1, <2>2 DEF Explained, RootDrift, TextDrift
<1> QED
  BY <1>3, <1>4

(***************************************************************************)
(* The differences added to the list are explained if those found are.     *)
(***************************************************************************)
LEMMA GrownUntouched ==
  ASSUME CopyInv, UntouchedOK, UNCHANGED <<facets, minted, stamped, disk, broken, manifest, edited, foreign, calm>>,
         NEW found \in Seq(DiffEntry), \A k \in DOMAIN found : EntryOK(found[k]),
         diffs' = diffs \o found,
         Untouched /\ AsCheckedOut => \A j \in DOMAIN found : Explained(found[j])
  PROVE  UntouchedOK'
<1>1. SUFFICES ASSUME Untouched' PROVE AsCheckedOut' /\ \A k \in DOMAIN diffs' : Explained(diffs[k])'
  BY DEF UntouchedOK
<1>2. Untouched
  BY <1>1 DEF Untouched
<1>3. AsCheckedOut /\ \A k \in DOMAIN diffs : Explained(diffs[k])
  BY <1>2 DEF UntouchedOK
<1>4. AsCheckedOut'
  BY <1>3, CheckedOutStays
<1>5. \A j \in DOMAIN found : Explained(found[j])
  BY <1>2, <1>3
<1>6. /\ \A k \in DOMAIN diffs : k \in DOMAIN diffs' /\ diffs'[k] = diffs[k]
      /\ \A k \in DOMAIN diffs' : k \in DOMAIN diffs \/ \E j \in DOMAIN found : diffs'[k] = found[j]
  BY DiffsGrow
<1>7. ASSUME NEW k \in DOMAIN diffs' PROVE Explained(diffs[k])'
  <2>1. PICK d : d = diffs'[k]
    OBVIOUS
  <2>2. Explained(d)
    BY <1>3, <1>5, <1>6, <2>1
  <2>3. Explained(d)'
    BY <2>2, CheckedOutStays
  <2> QED
    BY <2>1, <2>3 DEF Explained, RootDrift, TextDrift
<1> QED
  BY <1>4, <1>7

LEMMA CompareUntouched ==
  ASSUME CopyInv, UntouchedOK, NEW path \in unread, Compare(path)
  PROVE  UntouchedOK'
<1>1. /\ path \in DOMAIN disk
      /\ UNCHANGED <<facets, minted, stamped, disk, broken, manifest, calm, edited, foreign>>
      /\ diffs' = diffs \o Found(path)
  BY DEF Compare, tables, local, history
<1> PICK found : found = Found(path)
  OBVIOUS
<1> PICK i : i = disk[path].id
  OBVIOUS
<1>2. found \in Seq(DiffEntry) /\ FindsOnly(found, path)
  BY <1>1, FoundIs DEF CopyInv
<1>3. \A k \in DOMAIN found : EntryOK(found[k])
  BY <1>1, FoundIsOK
<1>4. ASSUME Untouched, AsCheckedOut, NEW j \in DOMAIN found PROVE Explained(found[j])
  <2>1. PICK kind \in {"created", "conflict", "moved", "modified"} :
          Finds(kind, path) /\ found[j] = Entry(kind, i, path, FsParent(path))
    BY <1>2 DEF FindsOnly
  <2>2. /\ i \in DOMAIN manifest /\ manifest[i].path = path /\ InPlace(i)
        /\ i \in Live /\ manifest[i].parent = facets[i].parent
    BY <1>1, <1>4 DEF AsCheckedOut, InPlace
  <2>3. disk[path] = RenderedFile(i)
    BY <1>1, <2>2 DEF InPlace, CopyInv, TypeOK
  <2>4. i # None
    BY <2>2, NoneAssumption DEF CopyInv, TypeOK
  <2>5. ~Conflicting(i)
    BY <1>4, <2>2 DEF Conflicting, Untouched
  <2>6. CASE kind = "moved"
    <3>1. FsParent(path) # facets[i].parent
      BY <2>1, <2>2, <2>6 DEF Finds, Moved
    <3>2. Len(path) = 1 /\ FsParent(path) = None
      BY <1>1, <1>4, <3>1, ParentFoundAgain
    <3>3. RootDrift(found[j])
      BY <2>1, <2>2, <2>6, <3>1, <3>2 DEF Entry, RootDrift
    <3> QED
      BY <3>3 DEF Explained
  <2>7. CASE kind = "modified"
    <3>1. Differs(facets[i], disk[path])
      BY <2>1, <2>7 DEF Finds
    <3>2. \E c \in Compared : ReadBack(i)[c] # facets[i].cols[c]
      BY <2>3, <3>1 DEF Differs, RenderedFile
    <3>3. TextDrift(found[j])
      BY <2>1, <2>7, <3>2 DEF Entry, TextDrift
    <3> QED
      BY <3>3 DEF Explained
  <2> QED
    BY <2>1, <2>4, <2>5, <2>6, <2>7 DEF Finds
<1> QED
  BY <1>1, <1>2, <1>3, <1>4, GrownUntouched

LEMMA EndDiffUntouched ==
  ASSUME CopyInv, UntouchedOK, EndDiff
  PROVE  UntouchedOK'
<1>1. PICK gone \in SetToSeqs(Unseen) : diffs' = diffs \o Deletions(gone)
  BY DEF EndDiff, Deletions
<1>2. /\ broken = {}
      /\ UNCHANGED <<facets, minted, stamped, disk, broken, manifest, calm, edited, foreign>>
  BY DEF EndDiff, tables, local, history, CopyInv, StageOK
<1> PICK found : found = Deletions(gone)
  OBVIOUS
<1>3. found \in Seq(DiffEntry) /\ DOMAIN found = DOMAIN gone /\ \A k \in DOMAIN found : EntryOK(found[k])
  BY DeletionsAreOK
<1>4. ASSUME AsCheckedOut PROVE DOMAIN found = {}
  <2>1. \A i \in DOMAIN manifest : \E p \in DOMAIN disk : disk[p].id = i
    <3> TAKE i \in DOMAIN manifest
    <3>1. manifest[i].path \in DOMAIN disk /\ disk[manifest[i].path] = RenderedFile(i)
      BY <1>2, <1>4 DEF AsCheckedOut, InPlace
    <3> QED
      BY <3>1 DEF RenderedFile
  <2>2. Unseen = {}
    BY <2>1 DEF Unseen
  <2>3. \A k \in DOMAIN found : found[k].kind = "deleted"
    BY DEF Deletions, Entry
  <2> QED
    BY <1>3, <2>2, <2>3 DEF EntryOK
<1> QED
  BY <1>1, <1>2, <1>3, <1>4, GrownUntouched

(***************************************************************************)
(* Writing back the row of a difference stamps it: the facet is there.     *)
(***************************************************************************)
LEMMA WriteTouches ==
  ASSUME CopyInv, UntouchedOK, Untouched, WriteHeld
  PROVE  stamped' # {}
<1>1. next \in DOMAIN diffs /\ EntryOK(diffs[next]) /\ diffs[next].kind \in {"modified", "conflict"}
  BY NextDiff DEF WriteHeld, CopyInv, WriteOK
<1>2. AsCheckedOut /\ Explained(diffs[next])
  BY <1>1 DEF UntouchedOK
<1>3. diffs[next].kind = "modified"
  BY <1>1, <1>2 DEF Explained, RootDrift, TextDrift
<1>4. diffs[next].path \in DOMAIN disk /\ disk[diffs[next].path].id = diffs[next].id
  BY <1>1, <1>3 DEF EntryOK
<1>5. diffs[next].id \in Live
  BY <1>2, <1>4 DEF AsCheckedOut, InPlace
<1> QED
  BY <1>5 DEF WriteHeld, Stamp

LEMMA NextUntouched ==
  ASSUME CopyInv, UntouchedOK, [Next]_allVars
  PROVE  UntouchedOK'
<1>1. CASE \E root \in Live : CheckOut(root)
  BY <1>1, CheckOutUntouched
<1>2. CASE Edit
  <2>1. edited' = edited + 1 /\ edited \in Nat
    BY <1>2 DEF Edit, CopyInv, TypeOK
  <2> QED
    BY <2>1 DEF UntouchedOK, Untouched
<1>3. CASE \E path \in unread : Compare(path)
  BY <1>3, CompareUntouched
<1>4. CASE EndDiff
  BY <1>4, EndDiffUntouched
<1>5. CASE (\E f \in BOOLEAN : BeginFlush(f)) \/ Stop \/ EndFlush \/ Skip
  <2>1. /\ UNCHANGED <<facets, disk, broken, manifest, stamped, edited, foreign>>
        /\ diffs' = diffs \/ diffs' = <<>>
    BY <1>5 DEF BeginFlush, Stop, NoFlush, EndFlush, Skip, Passed, tables, local, history
  <2> QED
    BY <2>1, QuietUntouched DEF Untouched
<1>6. CASE FetchModified
  <2>1. UNCHANGED <<facets, disk, broken, manifest, stamped, edited, foreign, diffs>>
    BY <1>6 DEF FetchModified, FetchFor, Passed, tables, local, history
  <2> QED
    BY <2>1, QuietUntouched DEF Untouched
<1>7. CASE FetchForced \/ ApplyDeleted \/ ApplyCreated
  <2>1. stamped \subseteq stamped' /\ UNCHANGED <<edited, foreign>>
    BY <1>7, FetchForcedCopy, ApplyCopy
       DEF FetchForced, FetchFor, ApplyDeleted, ApplyCreated, Passed, history
  <2>2. ASSUME Untouched' PROVE FALSE
    <3>1. Untouched
      BY <2>1, <2>2 DEF Untouched
    <3>2. next \in DOMAIN diffs /\ diffs[next].kind \notin {"moved", "modified"}
      BY <1>7, NextDiff DEF FetchForced, ApplyDeleted, ApplyCreated, IsNext
    <3> QED
      BY <3>1, <3>2 DEF UntouchedOK, Explained, RootDrift, TextDrift
  <2> QED
    BY <2>2 DEF UntouchedOK
<1>8. CASE WriteHeld
  <2>1. stamped \subseteq stamped' /\ UNCHANGED <<edited, foreign>>
    BY <1>8, ApplyCopy DEF WriteHeld, Passed, history
  <2> QED
    BY <1>8, <2>1, WriteTouches DEF UntouchedOK, Untouched
<1>9. CASE ApplyMoved
  <2>1. UNCHANGED <<disk, broken, manifest, diffs, edited, foreign>>
    BY <1>9 DEF ApplyMoved, Passed, local, history
  <2>2. CASE UNCHANGED <<tables, stamped>>
    BY <2>1, <2>2, QuietUntouched DEF Untouched, tables
  <2>3. CASE Stamp(diffs[next].id)
    BY <2>3 DEF Stamp, UntouchedOK, Untouched
  <2> QED
    BY <1>9, <2>2, <2>3 DEF ApplyMoved
<1>10. CASE Server
  <2>1. PICK i \in Live : Served({i})
    BY <1>10, ServerWrites
  <2> QED
    BY <2>1 DEF Served, UntouchedOK, Untouched
<1>11. CASE UNCHANGED allVars
  <2>1. UNCHANGED <<facets, disk, broken, manifest, stamped, edited, foreign, diffs>>
    BY <1>11 DEF allVars
  <2> QED
    BY <2>1, QuietUntouched DEF Untouched
<1>12. CASE \E path \in unread : ParseError(path)
  BY <1>5, <1>12 DEF ParseError
<1> QED
  BY <1>1, <1>2, <1>3, <1>4, <1>5, <1>6, <1>7, <1>8, <1>9, <1>10, <1>11, <1>12 DEF Next, Flush, Abandon

(***************************************************************************)
(* Of a copy nobody touched diff reports a facet only if text cannot hold  *)
(* its fields, or if it is the root and has a parent: whatever the shape   *)
(* of the subtree, however many facets share a slug and whatever its rows  *)
(* read back as.  No file is new, missing or in conflict, no two share a   *)
(* path, and every parent below the root is found again, also when the     *)
(* parent's own file does not parse.                                       *)
(***************************************************************************)
THEOREM DriftsAreExplained == Spec => []DriftIsExplained
<1>1. Init => UntouchedOK
  <2>1. DOMAIN Nothing = {}
    BY DEF Nothing
  <2> QED
    BY <2>1 DEF Init, UntouchedOK, AsCheckedOut
<1>2. CopyInv /\ UntouchedOK /\ [Next]_allVars => UntouchedOK'
  BY NextUntouched
<1>3. UntouchedOK => DriftIsExplained
  BY DEF UntouchedOK, Explained, DriftIsExplained
<1> QED
  BY <1>1, <1>2, <1>3, CopyInvariance, PTL DEF Spec

-----------------------------------------------------------------------------
(***************************************************************************)
(* Every step of the copy and of its flush is a statement of the store, or *)
(* none.                                                                   *)
(***************************************************************************)
LEMMA CopyStepIsStatement ==
  ASSUME CopyInv, [Next]_allVars
  PROVE  [StoreNext]_tables
<1>1. CASE Edit \/ Stop \/ \E root \in Live : CheckOut(root)
  BY <1>1 DEF Edit, Stop, CheckOut, tables
<1>2. CASE \/ \E f \in BOOLEAN : BeginFlush(f)
           \/ \E path \in unread : Compare(path) \/ ParseError(path)
           \/ EndDiff \/ EndFlush
  BY <1>1, <1>2 DEF BeginFlush, Compare, ParseError, EndDiff, EndFlush
<1>3. CASE FetchModified \/ FetchForced
  BY <1>3, FetchModifiedCopy, FetchForcedCopy
<1>4. CASE Skip \/ WriteHeld \/ ApplyMoved \/ ApplyDeleted \/ ApplyCreated
  BY <1>4, ApplyCopy
<1>5. CASE Server
  BY <1>5, ServerWrites
<1>6. CASE UNCHANGED allVars
  BY <1>6 DEF allVars, tables
<1> QED
  BY <1>1, <1>2, <1>3, <1>4, <1>5, <1>6 DEF Next, Flush, Abandon

(***************************************************************************)
(* However many differences a flush has to apply, it moves facets one at a *)
(* time or loses them their parent: rewriting a row in two statements      *)
(* (get_facet, update_facet) never takes back a move made in between.      *)
(***************************************************************************)
THEOREM FlushMovesOneByOne == Spec => PlaceIsStable
<1>1. CopyInv /\ [Next]_allVars => [ReparentingIsMoveOrLostParent]_tables
  BY CopyInvIsStoreInv, CopyStepIsStatement, StatementKeepsPlaces
<1> QED
  BY <1>1, CopyInvariance, PTL DEF Spec, PlaceIsStable
=============================================================================
