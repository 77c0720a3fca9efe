------------------------------ MODULE BstProofs ------------------------------
(***************************************************************************)
(* Theorems about the search tree, for any keys, data and cells.           *)
(***************************************************************************)
EXTENDS Bst, FunctionTheorems, FiniteSetTheorems, WellFoundedInduction, SequenceTheorems,
        TLAPS

-----------------------------------------------------------------------------
(***************************************************************************)
(* Induction over the levels of a tree.                                    *)
(***************************************************************************)

\* Induction over the naturals up to n: a set that has 0, and every successor.
LEMMA UpTo ==
    ASSUME NEW n \in Nat, NEW S, 0 \in S,
           \A k \in 0 .. n - 1 : k \in S => k + 1 \in S
    PROVE  \A k \in 0 .. n : k \in S
<1> SUFFICES ASSUME NEW z \in 0 .. n, z \notin S PROVE FALSE
  OBVIOUS
<1> DEFINE T == {k \in 0 .. n : k \notin S}
<1>1. \A m, k \in Nat : m < k => <<m, k>> \in OpToRel(<, Nat)
  BY Zenon DEF OpToRel
<1>2. PICK R : IsWellFoundedOn(R, Nat) /\ \A m, k \in Nat : m < k => <<m, k>> \in R
  BY <1>1, NatLessThanWellFounded, Zenon
<1>3. PICK N, U : N = Nat /\ U = T
  OBVIOUS
<1>4. IsWellFoundedOn(R, N) /\ U \subseteq N /\ U # {}
  BY <1>2, <1>3
<1>5. \E x \in U : \A y \in U : ~(<<y, x>> \in R)
  BY ONLY <1>4, WFMin, Zenon
<1>6. PICK k \in 0 .. n : k \notin S /\ \A y \in 0 .. n : y \notin S => <<y, k>> \notin R
  BY <1>3, <1>5
<1>7. k # 0
  BY <1>6
<1>8. k - 1 \in 0 .. n - 1 /\ k - 1 < k /\ k - 1 \in Nat /\ k \in Nat /\ (k - 1) + 1 = k
  BY <1>7
<1>9. k - 1 \in S
  <2>1. PICK y \in Nat : y = k - 1 /\ y \in 0 .. n /\ y < k
    BY <1>8
  <2>2. <<y, k>> \in R
    BY <1>2, <1>8, <2>1, Zenon
  <2> QED
    BY <1>6, <2>1, <2>2, Zenon
<1> QED
  BY <1>6, <1>8, <1>9

\* ... and over all of them.
LEMMA Naturals ==
    ASSUME NEW S, 0 \in S, \A k \in Nat : k \in S => k + 1 \in S
    PROVE  \A n \in Nat : n \in S
<1> SUFFICES ASSUME NEW n \in Nat PROVE n \in S
  OBVIOUS
<1>1. \A k \in 0 .. n - 1 : k \in S => k + 1 \in S
  OBVIOUS
<1>2. \A k \in 0 .. n : k \in S
  BY ONLY <1>1, 0 \in S, n \in Nat, UpTo, Zenon
<1>3. n \in 0 .. n
  OBVIOUS
<1> QED
  BY <1>2, <1>3, Zenon

\* There is a function as Levels describes it.
LEMMA LevelsFrom ==
    Levels = [n \in Nat |-> IF n = 0 THEN {Null}
                            ELSE {Null} \cup NodesOver(Levels[n - 1])]
<1> DEFINE Up(L) == {Null} \cup NodesOver(L)
           Is(g, k) == /\ g[0] = {Null}
                       /\ \A i \in 1 .. k : g[i] = Up(g[i - 1])
           S == {k \in Nat : \E g : Is(g, k)}
           Def(f) == f = [n \in Nat |-> IF n = 0 THEN {Null} ELSE Up(f[n - 1])]
<1>1. Levels = CHOOSE f : Def(f)
  BY DEF Levels
<1> HIDE DEF Up
<1>2. \A n \in Nat : \E g : Is(g, n)
  <2>1. 0 \in S
    <3>1. PICK g : g = [i \in {0} |-> {Null}]
      OBVIOUS
    <3>2. g[0] = {Null}
      BY <3>1
    <3> QED
      BY <3>2
  <2>2. ASSUME NEW k \in Nat, k \in S PROVE k + 1 \in S
    <3>1. PICK g : Is(g, k)
      BY <2>2
    <3>2. PICK f : f = [i \in 0 .. k + 1 |-> IF i = k + 1 THEN Up(g[k]) ELSE g[i]]
      OBVIOUS
    <3>3. f[0] = {Null}
      BY <3>1, <3>2
    <3>4. ASSUME NEW i \in 1 .. k + 1 PROVE f[i] = Up(f[i - 1])
      <4>1. CASE i = k + 1
        <5>1. f[i] = Up(g[k]) /\ f[i - 1] = g[k]
          BY <3>2, <4>1
        <5> QED
          BY <5>1
      <4>2. CASE i \in 1 .. k
        <5>1. f[i] = g[i] /\ f[i - 1] = g[i - 1]
          BY <3>2, <4>2
        <5> QED
          BY <3>1, <4>2, <5>1
      <4> QED
        BY <4>1, <4>2
    <3>5. Is(f, k + 1)
      BY <3>3, <3>4
    <3> HIDE DEF Is
    <3> QED
      BY <3>5
  <2> HIDE DEF S
  <2>3. \A n \in Nat : n \in S
    BY <2>1, <2>2, Naturals
  <2> QED
    BY <2>3 DEF S
<1>3. ASSUME NEW k \in Nat, NEW l \in Nat, k =< l, NEW g, Is(g, k), NEW h, Is(h, l)
      PROVE  g[k] = h[k]
  <2> DEFINE A == {i \in 0 .. k : g[i] = h[i]}
  <2>1. 0 \in A
    BY <1>3
  <2>2. \A i \in 0 .. k - 1 : i \in A => i + 1 \in A
    BY <1>3
  <2> HIDE DEF A
  <2>3. \A i \in 0 .. k : i \in A
    BY <2>1, <2>2, UpTo
  <2> QED
    BY <2>3 DEF A
<1>4. PICK w : w = [n \in Nat |-> CHOOSE g : Is(g, n)]
  OBVIOUS
<1>5. \A n \in Nat : Is(w[n], n)
  <2> HIDE DEF Is
  <2> QED
    BY <1>2, <1>4
<1>6. PICK f : f = [n \in Nat |-> w[n][n]]
  OBVIOUS
<1>7. f[0] = {Null}
  BY <1>5, <1>6
<1>8. ASSUME NEW n \in Nat, n # 0 PROVE f[n] = Up(f[n - 1])
  <2>1. f[n] = w[n][n] /\ f[n - 1] = w[n - 1][n - 1]
    BY <1>6, <1>8
  <2>2. w[n][n] = Up(w[n][n - 1])
    BY <1>5, <1>8
  <2>3. w[n - 1][n - 1] = w[n][n - 1]
    <3>1. PICK m \in Nat : m = n - 1 /\ m =< n
      BY <1>8
    <3>2. Is(w[m], m) /\ Is(w[n], n)
      BY <1>5
    <3> HIDE DEF Is
    <3> QED
      BY <1>3, <3>1, <3>2
  <2> QED
    BY <2>1, <2>2, <2>3
<1>9. Def(f)
  BY <1>6, <1>7, <1>8
<1> HIDE DEF Def
<1>10. Def(Levels)
  BY <1>1, <1>9
<1> QED
  BY <1>10 DEF Def, Up

LEMMA LevelsAre ==
    /\ Levels[0] = {Null}
    /\ \A n \in Nat : Levels[n + 1] = {Null} \cup NodesOver(Levels[n])
<1>1. PICK z \in Nat : z = 0
  OBVIOUS
<1>2. Levels[z] = {Null}
  BY <1>1, LevelsFrom
<1>3. ASSUME NEW n \in Nat PROVE Levels[n + 1] = {Null} \cup NodesOver(Levels[n])
  <2>1. PICK m \in Nat : m = n + 1 /\ m # 0 /\ m - 1 = n
    OBVIOUS
  <2>2. Levels[m] = IF m = 0 THEN {Null} ELSE {Null} \cup NodesOver(Levels[m - 1])
    BY LevelsFrom
  <2> QED
    BY <2>1, <2>2
<1> QED
  BY <1>1, <1>2, <1>3

\* A tree of so many levels is one of more.
LEMMA LevelsGrow ==
    ASSUME NEW n \in Nat, NEW m \in Nat, n =< m
    PROVE  Levels[n] \subseteq Levels[m]
<1> DEFINE S == {k \in Nat : Levels[k] \subseteq Levels[k + 1]}
           T == {j \in Nat : Levels[n] \subseteq Levels[n + j]}
<1>1. 0 \in S
  <2>1. Levels[0 + 1] = {Null} \cup NodesOver(Levels[0])
    BY LevelsAre
  <2> QED
    BY <2>1, LevelsAre
<1>2. ASSUME NEW k \in Nat, k \in S PROVE k + 1 \in S
  <2>1. PICK a, b, c : a = Levels[k] /\ b = Levels[k + 1] /\ c = Levels[k + 1 + 1]
    OBVIOUS
  <2>2. b = {Null} \cup NodesOver(a) /\ c = {Null} \cup NodesOver(b) /\ a \subseteq b
    BY <1>2, <2>1, LevelsAre
  <2>3. b \subseteq c
    BY <2>2 DEF NodesOver
  <2> QED
    BY <2>1, <2>3
<1> HIDE DEF S
<1>3. \A k \in Nat : k \in S
  BY <1>1, <1>2, Naturals
<1>4. \A k \in Nat : Levels[k] \subseteq Levels[k + 1]
  BY <1>3 DEF S
<1>5. 0 \in T
  OBVIOUS
<1>6. ASSUME NEW j \in Nat, j \in T PROVE j + 1 \in T
  <2>1. PICK k \in Nat : k = n + j /\ k + 1 = n + (j + 1)
    OBVIOUS
  <2> QED
    BY <1>4, <1>6, <2>1
<1> HIDE DEF T
<1>7. \A j \in Nat : j \in T
  BY <1>5, <1>6, Naturals
<1>8. PICK j \in Nat : m = n + j
  <2>1. m - n \in Nat /\ m = n + (m - n)
    OBVIOUS
  <2> QED
    BY <2>1
<1> QED
  BY <1>7, <1>8 DEF T

-----------------------------------------------------------------------------
(***************************************************************************)
(* Trees: their parts, induction and recursion over them.                  *)
(***************************************************************************)
Height == Cardinality(Keys) + 1

LEMMA HeightType == Height \in Nat \ {0} /\ Tree = Levels[Height] /\ Null \in Tree
<1>1. Cardinality(Keys) \in Nat
  BY BstAssumption, FS_CardinalityType
<1>2. PICK h \in Nat : h = Cardinality(Keys)
  BY <1>1
<1>3. Height = h + 1 /\ Tree = Levels[h + 1]
  BY <1>2 DEF Height, Tree
<1> QED
  BY <1>2, <1>3, LevelsAre

\* A node is a tree, and so are its subtrees, of one level less.
LEMMA Parts ==
    ASSUME NEW t \in Tree, t # Null
    PROVE  /\ t = [cell |-> t.cell, key |-> t.key, data |-> t.data,
                   left |-> t.left, right |-> t.right]
           /\ t.cell \in Cells /\ t.key \in Keys /\ t.data \in Data
           /\ t.left \in Tree /\ t.right \in Tree /\ t.key \in Int
<1>1. PICK n \in Nat : Height = n + 1
  BY HeightType
<1>2. t \in NodesOver(Levels[n])
  BY <1>1, HeightType, LevelsAre
<1>3. Levels[n] \subseteq Tree
  BY <1>1, HeightType, LevelsGrow
<1> QED
  BY <1>2, <1>3, BstAssumption DEF NodesOver

\* A node over two trees is not NULL.
LEMMA NodeIsSome ==
    ASSUME NEW c \in Cells, NEW k \in Keys, NEW d \in Data,
           NEW l \in Tree, NEW r \in Tree
    PROVE  [cell |-> c, key |-> k, data |-> d, left |-> l, right |-> r] # Null
  BY BstAssumption DEF NodesOver

\* Induction over trees: a set that has NULL, and every node over two of its
\* members.
LEMMA TreeInduction ==
    ASSUME NEW S, Null \in S,
           \A t \in Tree \ {Null} : t.left \in S /\ t.right \in S => t \in S
    PROVE  Tree \subseteq S
<1> DEFINE T == {n \in Nat : n =< Height => Levels[n] \subseteq S}
<1>1. 0 \in T
  BY LevelsAre
<1>2. ASSUME NEW n \in Nat, n \in T PROVE n + 1 \in T
  <2>1. ASSUME n + 1 =< Height, NEW t \in Levels[n + 1] PROVE t \in S
    <3>1. CASE t = Null
      BY <3>1
    <3>2. CASE t # Null
      <4>1. t \in NodesOver(Levels[n]) /\ Levels[n] \subseteq S
        BY <1>2, <2>1, <3>2, LevelsAre, HeightType
      <4>2. t \in Tree
        BY <2>1, HeightType, LevelsGrow
      <4>3. t.left \in S /\ t.right \in S
        BY <4>1 DEF NodesOver
      <4> QED
        BY <3>2, <4>2, <4>3
    <3> QED
      BY <3>1, <3>2
  <2> QED
    BY <2>1
<1> HIDE DEF T
<1>3. \A n \in Nat : n \in T
  BY <1>1, <1>2, Naturals
<1> QED
  BY <1>3, HeightType DEF T

\* Recursion over trees: what is made of a node and of what is made of its
\* subtrees.
Recurs(f, z, F) ==
    \A t \in Tree : f[t] = IF t = Null THEN z ELSE F[t][f[t.left]][f[t.right]]

LEMMA TreeRecursion ==
    ASSUME NEW V, NEW z \in V, NEW F \in [Tree -> [V -> [V -> V]]]
    PROVE  \E f \in [Tree -> V] : Recurs(f, z, F)
<1> DEFINE Is(f, T) == \A t \in T : f[t] = IF t = Null THEN z
                                           ELSE F[t][f[t.left]][f[t.right]]
           S == {n \in Nat : n =< Height => \E f \in [Levels[n] -> V] : Is(f, Levels[n])}
<1>1. 0 \in S
  <2>1. PICK f : f = [t \in {Null} |-> z]
    OBVIOUS
  <2>2. f \in [{Null} -> V] /\ Is(f, {Null})
    BY <2>1
  <2> HIDE DEF Is
  <2> QED
    BY <2>2, LevelsAre
<1>2. ASSUME NEW n \in Nat, n \in S PROVE n + 1 \in S
  <2> SUFFICES ASSUME n + 1 =< Height
               PROVE  \E f \in [Levels[n + 1] -> V] : Is(f, Levels[n + 1])
    OBVIOUS
  <2>1. PICK g \in [Levels[n] -> V] : Is(g, Levels[n])
    <3>1. n =< Height
      BY HeightType
    <3> QED
      BY <1>2, <3>1
  <2>2. PICK L : L = Levels[n + 1] /\ L = {Null} \cup NodesOver(Levels[n])
    BY LevelsAre
  <2>3. L \subseteq Tree /\ Levels[n] \subseteq L
    <3>1. PICK m \in Nat : m = n + 1
      OBVIOUS
    <3>2. L = Levels[m]
      BY <2>2, <3>1
    <3>3. n =< m /\ m =< Height /\ Height \in Nat
      BY <3>1, HeightType
    <3>4. Levels[n] \subseteq Levels[m] /\ Levels[m] \subseteq Levels[Height]
      BY <3>3, LevelsGrow
    <3> QED
      BY <3>2, <3>4, HeightType
  <2>4. PICK f : f = [t \in L |-> IF t = Null THEN z ELSE F[t][g[t.left]][g[t.right]]]
    OBVIOUS
  <2>5. \A t \in L : t # Null => t.left \in Levels[n] /\ t.right \in Levels[n]
    BY <2>2 DEF NodesOver
  <2>6. f \in [L -> V]
    <3>1. ASSUME NEW t \in L, t # Null PROVE F[t][g[t.left]][g[t.right]] \in V
      <4>1. PICK a \in V, b \in V : a = g[t.left] /\ b = g[t.right]
        BY <2>1, <2>5, <3>1
      <4>2. t \in Tree
        BY <2>3
      <4> QED
        BY <4>1, <4>2
    <3> QED
      BY <2>4, <3>1
  <2>7. \A t \in Levels[n] : f[t] = g[t]
    BY <2>1, <2>3, <2>4
  <2>8. Is(f, L)
    BY <2>4, <2>5, <2>7
  <2> HIDE DEF Is
  <2> QED
    BY <2>2, <2>6, <2>8
<1> HIDE DEF S
<1>3. \A n \in Nat : n \in S
  BY <1>1, <1>2, Naturals
<1>4. PICK h \in Nat : h = Height /\ h =< h
  BY HeightType
<1>5. \E f \in [Levels[h] -> V] : Is(f, Levels[h])
  <2>1. h \in S
    BY <1>3
  <2> QED
    BY <1>4, <2>1 DEF S
<1> QED
  BY <1>4, <1>5, HeightType DEF Recurs

-----------------------------------------------------------------------------
(***************************************************************************)
(* The recursive functions, one level at a time.                           *)
(***************************************************************************)

\* bst_find_min.
LEMMA FindMinIs ==
    /\ FindMin(Null) = Null
    /\ \A t \in Tree \ {Null} :
         FindMin(t) = IF t.left = Null THEN t ELSE FindMin(t.left)
<1> DEFINE Body(t, a, b) == IF t.left = Null THEN t ELSE a
           Def(f) == f = [t \in Tree |-> IF t = Null THEN Null
                              ELSE IF t.left = Null THEN t ELSE f[t.left]]
           V == Tree
<1>1. \A s : FindMin(s) = (CHOOSE f : Def(f))[s]
  BY Zenon DEF FindMin
<1>2. PICK F : F = [t \in Tree |-> [a \in V |-> [b \in V |->
                        IF t = Null THEN Null ELSE Body(t, a, b)]]]
  OBVIOUS
<1>3. Null \in V
  BY HeightType
<1>4. ASSUME NEW t \in Tree \ {Null}, NEW a \in V, NEW b \in V
      PROVE  Body(t, a, b) \in V
  BY Parts
<1> HIDE DEF V
<1>5. F \in [Tree -> [V -> [V -> V]]]
  <2> HIDE DEF Body
  <2> QED
    BY <1>2, <1>3, <1>4
<1>6. PICK f \in [Tree -> V] : Recurs(f, Null, F)
  <2>1. PICK z, W : z = Null /\ W = V
    OBVIOUS
  <2>2. z \in W /\ F \in [Tree -> [W -> [W -> W]]]
    BY <1>3, <1>5, <2>1
  <2>3. \E f \in [Tree -> W] : Recurs(f, z, F)
    BY ONLY <2>2, TreeRecursion, Zenon
  <2> QED
    BY <2>1, <2>3
<1>7. ASSUME NEW t \in Tree \ {Null}
      PROVE  f[t] = Body(t, f[t.left], f[t.right])
  <2>1. f[t.left] \in V /\ f[t.right] \in V
    BY Parts
  <2> HIDE DEF Body
  <2> QED
    BY <1>2, <1>6, <2>1 DEF Recurs
<1>8. Def(f)
  BY <1>6, <1>7 DEF Recurs
<1>9. PICK g : g = CHOOSE f1 : Def(f1)
  OBVIOUS
<1>10. Def(g)
  <2> HIDE DEF Def
  <2> QED
    BY <1>8, <1>9
<1>11. \A s : FindMin(s) = g[s]
  <2> HIDE DEF Def
  <2> QED
    BY <1>1, <1>9
<1> QED
  BY <1>10, <1>11, HeightType, Parts

\* bst_find.
LEMMA FindIs ==
    ASSUME NEW k \in Keys
    PROVE  /\ Find(Null, k) = Null
           /\ \A t \in Tree \ {Null} :
                Find(t, k) = IF k < t.key THEN Find(t.left, k)
                             ELSE IF k > t.key THEN Find(t.right, k) ELSE t
<1> DEFINE Body(t, a, b) == IF k < t.key THEN a ELSE IF k > t.key THEN b ELSE t
           Def(f) == f = [t \in Tree |->
                          IF t = Null THEN Null
                          ELSE IF k < t.key THEN f[t.left]
                          ELSE IF k > t.key THEN f[t.right] ELSE t]
           V == Tree
<1>1. \A s : Find(s, k) = (CHOOSE f : Def(f))[s]
  BY Zenon DEF Find
<1>2. PICK F : F = [t \in Tree |-> [a \in V |-> [b \in V |->
                        IF t = Null THEN Null ELSE Body(t, a, b)]]]
  OBVIOUS
<1>3. Null \in V
  BY HeightType
<1>4. ASSUME NEW t \in Tree \ {Null}, NEW a \in V, NEW b \in V
      PROVE  Body(t, a, b) \in V
  BY Parts
<1> HIDE DEF V
<1>5. F \in [Tree -> [V -> [V -> V]]]
  <2> HIDE DEF Body
  <2> QED
    BY <1>2, <1>3, <1>4
<1>6. PICK f \in [Tree -> V] : Recurs(f, Null, F)
  <2>1. PICK z, W : z = Null /\ W = V
    OBVIOUS
  <2>2. z \in W /\ F \in [Tree -> [W -> [W -> W]]]
    BY <1>3, <1>5, <2>1
  <2>3. \E f \in [Tree -> W] : Recurs(f, z, F)
    BY ONLY <2>2, TreeRecursion, Zenon
  <2> QED
    BY <2>1, <2>3
<1>7. ASSUME NEW t \in Tree \ {Null}
      PROVE  f[t] = Body(t, f[t.left], f[t.right])
  <2>1. f[t.left] \in V /\ f[t.right] \in V
    BY Parts
  <2> HIDE DEF Body
  <2> QED
    BY <1>2, <1>6, <2>1 DEF Recurs
<1>8. Def(f)
  BY <1>6, <1>7 DEF Recurs
<1>9. PICK g : g = CHOOSE f1 : Def(f1)
  OBVIOUS
<1>10. Def(g)
  <2> HIDE DEF Def
  <2> QED
    BY <1>8, <1>9
<1>11. \A s : Find(s, k) = g[s]
  <2> HIDE DEF Def
  <2> QED
    BY <1>1, <1>9
<1> QED
  BY <1>10, <1>11, HeightType, Parts

\* The nodes that can be reached.
LEMMA NodesAre ==
    /\ Nodes(Null) = {}
    /\ \A t \in Tree \ {Null} :
         Nodes(t) = {t} \cup Nodes(t.left) \cup Nodes(t.right)
<1> DEFINE Body(t, a, b) == {t} \cup a \cup b
           Def(f) == f = [t \in Tree |-> IF t = Null THEN {}
                                          ELSE {t} \cup f[t.left] \cup f[t.right]]
           V == SUBSET Tree
<1>1. \A s : Nodes(s) = (CHOOSE f : Def(f))[s]
  BY Zenon DEF Nodes
<1>2. PICK F : F = [t \in Tree |-> [a \in V |-> [b \in V |->
                        IF t = Null THEN {} ELSE Body(t, a, b)]]]
  OBVIOUS
<1>3. {} \in V
  OBVIOUS
<1>4. ASSUME NEW t \in Tree \ {Null}, NEW a \in V, NEW b \in V
      PROVE  Body(t, a, b) \in V
  BY Parts
<1> HIDE DEF V
<1>5. F \in [Tree -> [V -> [V -> V]]]
  <2> HIDE DEF Body
  <2> QED
    BY <1>2, <1>3, <1>4
<1>6. PICK f \in [Tree -> V] : Recurs(f, {}, F)
  <2>1. PICK z, W : z = {} /\ W = V
    OBVIOUS
  <2>2. z \in W /\ F \in [Tree -> [W -> [W -> W]]]
    BY <1>3, <1>5, <2>1
  <2>3. \E f \in [Tree -> W] : Recurs(f, z, F)
    BY ONLY <2>2, TreeRecursion, Zenon
  <2> QED
    BY <2>1, <2>3
<1>7. ASSUME NEW t \in Tree \ {Null}
      PROVE  f[t] = Body(t, f[t.left], f[t.right])
  <2>1. f[t.left] \in V /\ f[t.right] \in V
    BY Parts
  <2> HIDE DEF Body
  <2> QED
    BY <1>2, <1>6, <2>1 DEF Recurs
<1>8. Def(f)
  BY <1>6, <1>7 DEF Recurs
<1>9. PICK g : g = CHOOSE f1 : Def(f1)
  OBVIOUS
<1>10. Def(g)
  <2> HIDE DEF Def
  <2> QED
    BY <1>8, <1>9
<1>11. \A s : Nodes(s) = g[s]
  <2> HIDE DEF Def
  <2> QED
    BY <1>1, <1>9
<1> QED
  BY <1>10, <1>11, HeightType, Parts

\* bst_for_each.
LEMMA VisitedIs ==
    /\ Visited(Null) = <<>>
    /\ \A t \in Tree \ {Null} :
         Visited(t) = Visited(t.left) \o <<t>> \o Visited(t.right)
<1> DEFINE Body(t, a, b) == a \o <<t>> \o b
           Def(f) == f = [t \in Tree |-> IF t = Null THEN <<>>
                                          ELSE f[t.left] \o <<t>> \o f[t.right]]
           V == Seq(Tree)
<1>1. \A s : Visited(s) = (CHOOSE f : Def(f))[s]
  BY Zenon DEF Visited
<1>2. PICK F : F = [t \in Tree |-> [a \in V |-> [b \in V |->
                        IF t = Null THEN <<>> ELSE Body(t, a, b)]]]
  OBVIOUS
<1>3. <<>> \in V
  OBVIOUS
<1>4. ASSUME NEW t \in Tree \ {Null}, NEW a \in V, NEW b \in V
      PROVE  Body(t, a, b) \in V
  BY Parts
<1> HIDE DEF V
<1>5. F \in [Tree -> [V -> [V -> V]]]
  <2> HIDE DEF Body
  <2> QED
    BY <1>2, <1>3, <1>4
<1>6. PICK f \in [Tree -> V] : Recurs(f, <<>>, F)
  <2>1. PICK z, W : z = <<>> /\ W = V
    OBVIOUS
  <2>2. z \in W /\ F \in [Tree -> [W -> [W -> W]]]
    BY <1>3, <1>5, <2>1
  <2>3. \E f \in [Tree -> W] : Recurs(f, z, F)
    BY ONLY <2>2, TreeRecursion, Zenon
  <2> QED
    BY <2>1, <2>3
<1>7. ASSUME NEW t \in Tree \ {Null}
      PROVE  f[t] = Body(t, f[t.left], f[t.right])
  <2>1. f[t.left] \in V /\ f[t.right] \in V
    BY Parts
  <2> HIDE DEF Body
  <2> QED
    BY <1>2, <1>6, <2>1 DEF Recurs
<1>8. Def(f)
  BY <1>6, <1>7 DEF Recurs
<1>9. PICK g : g = CHOOSE f1 : Def(f1)
  OBVIOUS
<1>10. Def(g)
  <2> HIDE DEF Def
  <2> QED
    BY <1>8, <1>9
<1>11. \A s : Visited(s) = g[s]
  <2> HIDE DEF Def
  <2> QED
    BY <1>1, <1>9
<1> QED
  BY <1>10, <1>11, HeightType, Parts

-----------------------------------------------------------------------------
(***************************************************************************)
(* Trees of any number of levels, which an operation may give, and the     *)
(* operations that give them.                                              *)
(***************************************************************************)
AnyTree == UNION {Levels[n] : n \in Nat}

LEMMA AnyTreeHas ==
    /\ Null \in AnyTree /\ Tree \subseteq AnyTree
    /\ NodesOver(AnyTree) \subseteq AnyTree
<1>1. Null \in AnyTree /\ Tree \subseteq AnyTree
  BY HeightType DEF AnyTree
<1>2. ASSUME NEW t \in NodesOver(AnyTree) PROVE t \in AnyTree
  <2>1. PICK i \in Nat, j \in Nat : t.left \in Levels[i] /\ t.right \in Levels[j]
    BY DEF NodesOver, AnyTree
  <2>2. PICK n \in Nat : i =< n /\ j =< n
    <3>1. i =< i + j /\ j =< i + j /\ i + j \in Nat
      OBVIOUS
    <3> QED
      BY <3>1
  <2>3. Levels[i] \subseteq Levels[n] /\ Levels[j] \subseteq Levels[n]
    BY <2>2, LevelsGrow
  <2>4. t \in NodesOver(Levels[n])
    BY <2>1, <2>3 DEF NodesOver
  <2>5. t \in Levels[n + 1]
    BY <2>4, LevelsAre
  <2>6. n + 1 \in Nat
    OBVIOUS
  <2> QED
    BY <2>5, <2>6 DEF AnyTree
<1> QED
  BY <1>1, <1>2

\* A node with another subtree or other data.
LEMMA NodeIs ==
    ASSUME NEW t \in Tree, t # Null
    PROVE  /\ \A l : [t EXCEPT !.left = l] = Node(t.cell, t.key, t.data, l, t.right)
           /\ \A r : [t EXCEPT !.right = r] = Node(t.cell, t.key, t.data, t.left, r)
           /\ \A d : [t EXCEPT !.data = d] = Node(t.cell, t.key, d, t.left, t.right)
           /\ t = Node(t.cell, t.key, t.data, t.left, t.right)
<1>1. PICK c, k0, d0, l0, r0 :
         /\ t = [cell |-> c, key |-> k0, data |-> d0, left |-> l0, right |-> r0]
         /\ c \in Cells
  BY Parts
<1>2. t.cell = c /\ t.key = k0 /\ t.data = d0 /\ t.left = l0 /\ t.right = r0
  BY <1>1
<1>3. \A l : [t EXCEPT !.left = l] = Node(t.cell, t.key, t.data, l, t.right)
  BY <1>1, <1>2 DEF Node
<1>4. \A r : [t EXCEPT !.right = r] = Node(t.cell, t.key, t.data, t.left, r)
  BY <1>1, <1>2 DEF Node
<1>5. \A d : [t EXCEPT !.data = d] = Node(t.cell, t.key, d, t.left, t.right)
  BY <1>1, <1>2 DEF Node
<1>6. t = Node(t.cell, t.key, t.data, t.left, t.right)
  BY <1>1, <1>2 DEF Node
<1> QED
  BY <1>3, <1>4, <1>5, <1>6

\* A node over two trees.
LEMMA NodeIn ==
    \A c \in Cells, k \in Keys, d \in Data, l, r \in AnyTree :
        Node(c, k, d, l, r) \in AnyTree
<1> SUFFICES ASSUME NEW c \in Cells, NEW k \in Keys, NEW d \in Data,
                    NEW l \in AnyTree, NEW r \in AnyTree
             PROVE  Node(c, k, d, l, r) \in AnyTree
  OBVIOUS
<1>1. Node(c, k, d, l, r) \in NodesOver(AnyTree)
  BY DEF NodesOver, Node
<1> QED
  BY <1>1, AnyTreeHas

\* The least node of a tree is one of its nodes.
LEMMA FindMinIn ==
    \A t \in Tree \ {Null} : FindMin(t) \in Tree \ {Null} /\ FindMin(t) \in Nodes(t)
<1> DEFINE S == {t \in Tree : t # Null =>
                    FindMin(t) \in Tree \ {Null} /\ FindMin(t) \in Nodes(t)}
<1>1. Null \in S
  BY HeightType
<1>2. ASSUME NEW t \in Tree \ {Null}, t.left \in S, t.right \in S PROVE t \in S
  BY <1>2, FindMinIs, NodesAre, Parts
<1> HIDE DEF S
<1>3. Tree \subseteq S
  BY <1>1, <1>2, TreeInduction
<1> QED
  BY <1>3 DEF S

LEMMA InsertIs ==
    ASSUME NEW c \in Cells, NEW k \in Keys, NEW d \in Data
    PROVE  /\ Insert(Null, c, k, d) = Node(c, k, d, Null, Null)
           /\ \A t \in Tree \ {Null} :
                Insert(t, c, k, d) =
                  IF k < t.key
                  THEN Node(t.cell, t.key, t.data, Insert(t.left, c, k, d), t.right)
                  ELSE IF k > t.key
                  THEN Node(t.cell, t.key, t.data, t.left, Insert(t.right, c, k, d))
                  ELSE Node(t.cell, t.key, d, t.left, t.right)
<1> DEFINE Body(t, a, b) == IF k < t.key THEN Node(t.cell, t.key, t.data, a, t.right)
                            ELSE IF k > t.key THEN Node(t.cell, t.key, t.data, t.left, b)
                            ELSE Node(t.cell, t.key, d, t.left, t.right)
           Code(t, f) == IF t = Null THEN Node(c, k, d, Null, Null)
                         ELSE IF k < t.key THEN [t EXCEPT !.left = f[t.left]]
                         ELSE IF k > t.key THEN [t EXCEPT !.right = f[t.right]]
                         ELSE [t EXCEPT !.data = d]
           Def(f) == f = [t \in Tree |-> Code(t, f)]
           V == AnyTree
<1>1. \A s : Insert(s, c, k, d) = (CHOOSE f : Def(f))[s]
  BY Zenon DEF Insert
<1>2. PICK F : F = [t \in Tree |-> [a \in V |-> [b \in V |->
                        IF t = Null THEN Node(c, k, d, Null, Null) ELSE Body(t, a, b)]]]
  OBVIOUS
<1>3. Node(c, k, d, Null, Null) \in V
  BY AnyTreeHas, NodeIn
<1>4. ASSUME NEW t \in Tree \ {Null}, NEW a \in V, NEW b \in V
      PROVE  Body(t, a, b) \in V
  <2>1. t.left \in V /\ t.right \in V /\ t.cell \in Cells /\ t.key \in Keys /\ t.data \in Data
    BY Parts, AnyTreeHas
  <2> HIDE DEF V
  <2>2. \A c1 \in Cells, k1 \in Keys, d1 \in Data, l, r \in V :
           Node(c1, k1, d1, l, r) \in V
    BY NodeIn DEF V
  <2> QED
    BY <2>1, <2>2
<1> HIDE DEF V
<1>5. F \in [Tree -> [V -> [V -> V]]]
  <2> HIDE DEF Body
  <2> QED
    BY <1>2, <1>3, <1>4
<1>6. PICK f \in [Tree -> V] : Recurs(f, Node(c, k, d, Null, Null), F)
  <2>1. PICK z, W : z = Node(c, k, d, Null, Null) /\ W = V
    OBVIOUS
  <2>2. z \in W /\ F \in [Tree -> [W -> [W -> W]]]
    BY <1>3, <1>5, <2>1
  <2>3. \E f \in [Tree -> W] : Recurs(f, z, F)
    BY ONLY <2>2, TreeRecursion, Zenon
  <2> QED
    BY <2>1, <2>3
<1>7. ASSUME NEW t \in Tree \ {Null}
      PROVE  f[t] = Body(t, f[t.left], f[t.right])
  <2>1. f[t.left] \in V /\ f[t.right] \in V
    BY Parts
  <2> HIDE DEF Body
  <2> QED
    BY <1>2, <1>6, <2>1 DEF Recurs
<1>8. f = [t \in Tree |-> IF t = Null THEN Node(c, k, d, Null, Null)
                          ELSE Body(t, f[t.left], f[t.right])]
  <2> HIDE DEF Body
  <2> QED
    BY <1>6, <1>7 DEF Recurs
<1>9. ASSUME NEW g, NEW t \in Tree \ {Null}
      PROVE  Code(t, g) = Body(t, g[t.left], g[t.right])
  BY NodeIs
<1>10. \A g : Code(Null, g) = Node(c, k, d, Null, Null)
  OBVIOUS
<1> HIDE DEF Body, Code
<1>11. Def(f)
  BY <1>8, <1>9, <1>10
<1>12. PICK g : g = CHOOSE f1 : Def(f1)
  OBVIOUS
<1>13. Def(g)
  <2> HIDE DEF Def
  <2> QED
    BY <1>11, <1>12
<1>14. \A s : Insert(s, c, k, d) = g[s]
  <2> HIDE DEF Def
  <2> QED
    BY <1>1, <1>12
<1>15. g[Null] = Node(c, k, d, Null, Null)
  BY <1>10, <1>13, HeightType
<1>16. \A t \in Tree \ {Null} : g[t] = Body(t, g[t.left], g[t.right])
  BY <1>9, <1>13
<1> QED
  BY <1>14, <1>15, <1>16 DEF Body

\* bst_delete: the tree it returns.
LEMMA DeleteIs ==
    /\ \A k \in Keys : Delete(Null, k) = Null
    /\ \A t \in Tree \ {Null}, k \in Keys :
         Delete(t, k) =
           IF k < t.key THEN Node(t.cell, t.key, t.data, Delete(t.left, k), t.right)
           ELSE IF k > t.key THEN Node(t.cell, t.key, t.data, t.left, Delete(t.right, k))
           ELSE IF t.left = Null THEN t.right
           ELSE IF t.right = Null THEN t.left
           ELSE Node(t.cell, FindMin(t.right).key, FindMin(t.right).data, t.left,
                     Delete(t.right, FindMin(t.right).key))
<1> DEFINE Body(t, a, b) ==
             [k \in Keys |->
               IF k < t.key THEN Node(t.cell, t.key, t.data, a[k], t.right)
               ELSE IF k > t.key THEN Node(t.cell, t.key, t.data, t.left, b[k])
               ELSE IF t.left = Null THEN t.right
               ELSE IF t.right = Null THEN t.left
               ELSE Node(t.cell, FindMin(t.right).key, FindMin(t.right).data, t.left,
                         b[FindMin(t.right).key])]
           Code(t, f) == [k \in Keys |->
                IF t = Null THEN Null
                ELSE IF k < t.key THEN [t EXCEPT !.left = f[t.left][k]]
                ELSE IF k > t.key THEN [t EXCEPT !.right = f[t.right][k]]
                ELSE IF t.left = Null THEN t.right
                ELSE IF t.right = Null THEN t.left
                ELSE LET m == FindMin(t.right) IN
                     Node(t.cell, m.key, m.data, t.left, f[t.right][m.key])]
           Def(f) == f = [t \in Tree |-> Code(t, f)]
           V == [Keys -> AnyTree]
           Z == [k \in Keys |-> Null]
<1>1. \A s, x : Delete(s, x) = (CHOOSE f : Def(f))[s][x]
  BY Zenon DEF Delete
<1>2. PICK F : F = [t \in Tree |-> [a \in V |-> [b \in V |->
                        IF t = Null THEN Z ELSE Body(t, a, b)]]]
  OBVIOUS
<1>3. Z \in V
  BY AnyTreeHas
<1>4. ASSUME NEW t \in Tree \ {Null}, NEW a \in V, NEW b \in V
      PROVE  Body(t, a, b) \in V
  <2>1. t.left \in AnyTree /\ t.right \in AnyTree /\ t.cell \in Cells
        /\ t.key \in Keys /\ t.data \in Data
    BY Parts, AnyTreeHas
  <2>2. t.right # Null => FindMin(t.right).key \in Keys /\ FindMin(t.right).data \in Data
    BY Parts, FindMinIn
  <2> QED
    BY <2>1, <2>2, NodeIn
<1> HIDE DEF V, Z
<1>5. F \in [Tree -> [V -> [V -> V]]]
  <2> HIDE DEF Body
  <2> QED
    BY <1>2, <1>3, <1>4
<1>6. PICK f \in [Tree -> V] : Recurs(f, Z, F)
  <2>1. PICK z, W : z = Z /\ W = V
    OBVIOUS
  <2>2. z \in W /\ F \in [Tree -> [W -> [W -> W]]]
    BY <1>3, <1>5, <2>1
  <2>3. \E f \in [Tree -> W] : Recurs(f, z, F)
    BY ONLY <2>2, TreeRecursion, Zenon
  <2> QED
    BY <2>1, <2>3
<1>7. ASSUME NEW t \in Tree \ {Null}
      PROVE  f[t] = Body(t, f[t.left], f[t.right])
  <2>1. f[t.left] \in V /\ f[t.right] \in V
    BY Parts
  <2> HIDE DEF Body
  <2> QED
    BY <1>2, <1>6, <2>1 DEF Recurs
<1>8. f = [t \in Tree |-> IF t = Null THEN Z ELSE Body(t, f[t.left], f[t.right])]
  <2> HIDE DEF Body
  <2> QED
    BY <1>6, <1>7 DEF Recurs
<1>9. ASSUME NEW g, NEW t \in Tree \ {Null}
      PROVE  Code(t, g) = Body(t, g[t.left], g[t.right])
  BY NodeIs
<1>10. \A g : Code(Null, g) = Z
  BY DEF Z
<1> HIDE DEF Body, Code
<1>11. Def(f)
  BY <1>8, <1>9, <1>10
<1>12. PICK g : g = CHOOSE f1 : Def(f1)
  OBVIOUS
<1>13. Def(g)
  <2> HIDE DEF Def
  <2> QED
    BY <1>11, <1>12
<1>14. \A s, x : Delete(s, x) = g[s][x]
  <2> HIDE DEF Def
  <2> QED
    BY <1>1, <1>12
<1>15. \A k \in Keys : g[Null][k] = Null
  <2>1. g[Null] = Z
    BY <1>10, <1>13, HeightType
  <2> QED
    BY <2>1 DEF Z
<1>16. ASSUME NEW t \in Tree \ {Null}, NEW k \in Keys
       PROVE  g[t][k] =
           IF k < t.key THEN Node(t.cell, t.key, t.data, g[t.left][k], t.right)
           ELSE IF k > t.key THEN Node(t.cell, t.key, t.data, t.left, g[t.right][k])
           ELSE IF t.left = Null THEN t.right
           ELSE IF t.right = Null THEN t.left
           ELSE Node(t.cell, FindMin(t.right).key, FindMin(t.right).data, t.left,
                     g[t.right][FindMin(t.right).key])
  <2>1. g[t] = Body(t, g[t.left], g[t.right])
    BY <1>9, <1>13
  <2> QED
    BY <2>1 DEF Body
<1> QED
  BY <1>14, <1>15, <1>16

\* bst_delete: the cells it frees.
LEMMA FreedIs ==
    /\ \A k \in Keys : Freed(Null, k) = {}
    /\ \A t \in Tree \ {Null}, k \in Keys :
         Freed(t, k) =
           IF k < t.key THEN Freed(t.left, k) ELSE IF k > t.key THEN Freed(t.right, k)
           ELSE IF Null \in {t.left, t.right} THEN {t.cell}
           ELSE Freed(t.right, FindMin(t.right).key)
<1> DEFINE Body(t, a, b) ==
             [k \in Keys |->
               IF k < t.key THEN a[k] ELSE IF k > t.key THEN b[k]
               ELSE IF Null \in {t.left, t.right} THEN {t.cell}
               ELSE b[FindMin(t.right).key]]
           Code(t, f) == [k \in Keys |->
                IF t = Null THEN {}
                ELSE IF k < t.key THEN f[t.left][k]
                ELSE IF k > t.key THEN f[t.right][k]
                ELSE IF Null \in {t.left, t.right} THEN {t.cell}
                ELSE f[t.right][FindMin(t.right).key]]
           Def(f) == f = [t \in Tree |-> Code(t, f)]
           V == [Keys -> SUBSET Cells]
           Z == [k \in Keys |-> {}]
<1>1. \A s, x : Freed(s, x) = (CHOOSE f : Def(f))[s][x]
  BY Zenon DEF Freed
<1>2. PICK F : F = [t \in Tree |-> [a \in V |-> [b \in V |->
                        IF t = Null THEN Z ELSE Body(t, a, b)]]]
  OBVIOUS
<1>3. Z \in V
  BY AnyTreeHas
<1>4. ASSUME NEW t \in Tree \ {Null}, NEW a \in V, NEW b \in V
      PROVE  Body(t, a, b) \in V
  <2>1. t.right # Null => FindMin(t.right).key \in Keys
    BY Parts, FindMinIn
  <2> QED
    BY <2>1, Parts
<1> HIDE DEF V, Z
<1>5. F \in [Tree -> [V -> [V -> V]]]
  <2> HIDE DEF Body
  <2> QED
    BY <1>2, <1>3, <1>4
<1>6. PICK f \in [Tree -> V] : Recurs(f, Z, F)
  <2>1. PICK z, W : z = Z /\ W = V
    OBVIOUS
  <2>2. z \in W /\ F \in [Tree -> [W -> [W -> W]]]
    BY <1>3, <1>5, <2>1
  <2>3. \E f \in [Tree -> W] : Recurs(f, z, F)
    BY ONLY <2>2, TreeRecursion, Zenon
  <2> QED
    BY <2>1, <2>3
<1>7. ASSUME NEW t \in Tree \ {Null}
      PROVE  f[t] = Body(t, f[t.left], f[t.right])
  <2>1. f[t.left] \in V /\ f[t.right] \in V
    BY Parts
  <2> HIDE DEF Body
  <2> QED
    BY <1>2, <1>6, <2>1 DEF Recurs
<1>8. f = [t \in Tree |-> IF t = Null THEN Z ELSE Body(t, f[t.left], f[t.right])]
  <2> HIDE DEF Body
  <2> QED
    BY <1>6, <1>7 DEF Recurs
<1>9. ASSUME NEW g, NEW t \in Tree \ {Null}
      PROVE  Code(t, g) = Body(t, g[t.left], g[t.right])
  OBVIOUS
<1>10. \A g : Code(Null, g) = Z
  BY DEF Z
<1> HIDE DEF Body, Code
<1>11. Def(f)
  BY <1>8, <1>9, <1>10
<1>12. PICK g : g = CHOOSE f1 : Def(f1)
  OBVIOUS
<1>13. Def(g)
  <2> HIDE DEF Def
  <2> QED
    BY <1>11, <1>12
<1>14. \A s, x : Freed(s, x) = g[s][x]
  <2> HIDE DEF Def
  <2> QED
    BY <1>1, <1>12
<1>15. \A k \in Keys : g[Null][k] = {}
  <2>1. g[Null] = Z
    BY <1>10, <1>13, HeightType
  <2> QED
    BY <2>1 DEF Z
<1>16. ASSUME NEW t \in Tree \ {Null}, NEW k \in Keys
       PROVE  g[t][k] =
           IF k < t.key THEN g[t.left][k] ELSE IF k > t.key THEN g[t.right][k]
           ELSE IF Null \in {t.left, t.right} THEN {t.cell}
           ELSE g[t.right][FindMin(t.right).key]
  <2>1. g[t] = Body(t, g[t.left], g[t.right])
    BY <1>9, <1>13
  <2> QED
    BY <2>1 DEF Body
<1> QED
  BY <1>14, <1>15, <1>16

-----------------------------------------------------------------------------
(***************************************************************************)
(* What a tree holds, and when it is a search tree.                        *)
(***************************************************************************)
Entries(t) == {<<n.key, n.data>> : n \in Nodes(t)}
CellsOf(t) == {n.cell : n \in Nodes(t)}

\* A node with such a cell and key fits over two subtrees: the keys are in
\* order and no cell is used twice.
Fits(c, k, l, r) ==
    /\ \A i \in KeysIn(l) : i < k
    /\ \A i \in KeysIn(r) : i > k
    /\ c \notin CellsOf(l) \cup CellsOf(r)
    /\ CellsOf(l) \cap CellsOf(r) = {}

Good(t) == \A n \in Nodes(t) : Fits(n.cell, n.key, n.left, n.right)

LEMMA NullHolds ==
    Nodes(Null) = {} /\ KeysIn(Null) = {} /\ Entries(Null) = {} /\ CellsOf(Null) = {} /\ Good(Null)
  BY NodesAre DEF KeysIn, Entries, CellsOf, Good

\* What a node over two trees holds.
LEMMA NodeHolds ==
    ASSUME NEW c \in Cells, NEW k \in Keys, NEW d \in Data, NEW l \in Tree, NEW r \in Tree,
           NEW u \in Tree, u = Node(c, k, d, l, r)
    PROVE  /\ u # Null /\ u.cell = c /\ u.key = k /\ u.data = d /\ u.left = l /\ u.right = r
           /\ Nodes(u) = {u} \cup Nodes(l) \cup Nodes(r)
           /\ KeysIn(u) = {k} \cup KeysIn(l) \cup KeysIn(r)
           /\ Entries(u) = {<<k, d>>} \cup Entries(l) \cup Entries(r)
           /\ CellsOf(u) = {c} \cup CellsOf(l) \cup CellsOf(r)
           /\ Good(u) <=> Fits(c, k, l, r) /\ Good(l) /\ Good(r)
<1>1. u # Null
  BY NodeIsSome DEF Node
<1>2. u.cell = c /\ u.key = k /\ u.data = d /\ u.left = l /\ u.right = r
  BY DEF Node
<1>3. Nodes(u) = {u} \cup Nodes(l) \cup Nodes(r)
  BY <1>1, <1>2, NodesAre
<1>4. KeysIn(u) = {k} \cup KeysIn(l) \cup KeysIn(r)
  BY <1>2, <1>3 DEF KeysIn
<1>5. Entries(u) = {<<k, d>>} \cup Entries(l) \cup Entries(r)
  BY <1>2, <1>3 DEF Entries
<1>6. CellsOf(u) = {c} \cup CellsOf(l) \cup CellsOf(r)
  BY <1>2, <1>3 DEF CellsOf
<1>7. Good(u) <=> Fits(c, k, l, r) /\ Good(l) /\ Good(r)
  BY <1>2, <1>3 DEF Good
<1> QED
  BY <1>1, <1>2, <1>3, <1>4, <1>5, <1>6, <1>7

\* ... and what a tree that is not NULL does.
LEMMA TreeHolds ==
    ASSUME NEW t \in Tree, t # Null
    PROVE  /\ t.cell \in Cells /\ t.key \in Keys /\ t.data \in Data /\ t.key \in Int
           /\ t.left \in Tree /\ t.right \in Tree
           /\ Nodes(t) = {t} \cup Nodes(t.left) \cup Nodes(t.right)
           /\ KeysIn(t) = {t.key} \cup KeysIn(t.left) \cup KeysIn(t.right)
           /\ Entries(t) = {<<t.key, t.data>>} \cup Entries(t.left) \cup Entries(t.right)
           /\ CellsOf(t) = {t.cell} \cup CellsOf(t.left) \cup CellsOf(t.right)
           /\ Good(t) <=> /\ Fits(t.cell, t.key, t.left, t.right)
                          /\ Good(t.left) /\ Good(t.right)
<1>1. PICK c, k, d, l, r : c = t.cell /\ k = t.key /\ d = t.data /\ l = t.left /\ r = t.right
  OBVIOUS
<1>2. c \in Cells /\ k \in Keys /\ d \in Data /\ l \in Tree /\ r \in Tree /\ k \in Int
  BY <1>1, Parts
<1>3. t = Node(c, k, d, l, r)
  BY <1>1, NodeIs
<1>4. /\ Nodes(t) = {t} \cup Nodes(l) \cup Nodes(r)
      /\ KeysIn(t) = {k} \cup KeysIn(l) \cup KeysIn(r)
      /\ Entries(t) = {<<k, d>>} \cup Entries(l) \cup Entries(r)
      /\ CellsOf(t) = {c} \cup CellsOf(l) \cup CellsOf(r)
      /\ Good(t) <=> Fits(c, k, l, r) /\ Good(l) /\ Good(r)
  BY <1>2, <1>3, NodeHolds
<1> QED
  BY <1>1, <1>2, <1>4

LEMMA HoldsType ==
    \A t \in Tree : /\ Nodes(t) \subseteq Tree \ {Null}
                    /\ KeysIn(t) \subseteq Keys /\ KeysIn(t) \subseteq Int
                    /\ Entries(t) \subseteq Keys \X Data
                    /\ CellsOf(t) \subseteq Cells
                    /\ KeysIn(t) = {e[1] : e \in Entries(t)}
<1> DEFINE S == {t \in Tree : Nodes(t) \subseteq Tree \ {Null}}
<1>1. Null \in S
  BY HeightType, NullHolds
<1>2. ASSUME NEW t \in Tree \ {Null}, t.left \in S, t.right \in S PROVE t \in S
  BY <1>2, TreeHolds
<1> HIDE DEF S
<1>3. Tree \subseteq S
  BY <1>1, <1>2, TreeInduction
<1>4. ASSUME NEW t \in Tree
      PROVE  /\ Nodes(t) \subseteq Tree \ {Null}
             /\ KeysIn(t) \subseteq Keys /\ KeysIn(t) \subseteq Int
             /\ Entries(t) \subseteq Keys \X Data
             /\ CellsOf(t) \subseteq Cells
             /\ KeysIn(t) = {e[1] : e \in Entries(t)}
  <2>1. Nodes(t) \subseteq Tree \ {Null}
    BY <1>3 DEF S
  <2>2. \A n \in Nodes(t) : n.key \in Keys /\ n.key \in Int /\ n.data \in Data /\ n.cell \in Cells
    BY <2>1, TreeHolds
  <2>3. KeysIn(t) \subseteq Keys /\ KeysIn(t) \subseteq Int /\ CellsOf(t) \subseteq Cells
    BY <2>2 DEF KeysIn, CellsOf
  <2>4. Entries(t) \subseteq Keys \X Data
    BY <2>2 DEF Entries
  <2>5. KeysIn(t) = {e[1] : e \in Entries(t)}
    <3>1. \A i \in KeysIn(t) : i \in {e[1] : e \in Entries(t)}
      <4>1. ASSUME NEW n \in Nodes(t) PROVE n.key \in {e[1] : e \in Entries(t)}
        <5>1. PICK e : e = <<n.key, n.data>>
          OBVIOUS
        <5>2. e \in Entries(t) /\ e[1] = n.key
          BY <5>1 DEF Entries
        <5> QED
          BY <5>2
      <4> QED
        BY <4>1 DEF KeysIn
    <3>2. \A e \in Entries(t) : e[1] \in KeysIn(t)
      BY DEF Entries, KeysIn
    <3> QED
      BY <3>1, <3>2
  <2> QED
    BY <2>1, <2>3, <2>4, <2>5
<1> QED
  BY <1>4

\* In a search tree a key is at one node only, and so is a cell.
LEMMA UniqueNodes ==
    ASSUME NEW t \in Tree, Good(t), NEW m \in Nodes(t), NEW n \in Nodes(t),
           m.key = n.key \/ m.cell = n.cell
    PROVE  m = n
<1> DEFINE S == {s \in Tree : Good(s) =>
                    \A a, b \in Nodes(s) : a.key = b.key \/ a.cell = b.cell => a = b}
<1>1. Null \in S
  BY HeightType, NullHolds
<1>2. ASSUME NEW s \in Tree \ {Null}, s.left \in S, s.right \in S PROVE s \in S
  <2> SUFFICES ASSUME Good(s), NEW a \in Nodes(s), NEW b \in Nodes(s),
                      a.key = b.key \/ a.cell = b.cell
               PROVE  a = b
    OBVIOUS
  <2>1. PICK l, r : l = s.left /\ r = s.right /\ l \in S /\ r \in S
    BY <1>2
  <2>2. /\ Nodes(s) = {s} \cup Nodes(l) \cup Nodes(r) /\ Good(l) /\ Good(r)
        /\ Fits(s.cell, s.key, l, r) /\ s.key \in Int
    BY <2>1, TreeHolds
  <2>3. \A x \in Nodes(l) : /\ x.key < s.key /\ x.key \in Int
                            /\ x.cell # s.cell /\ x.cell \in CellsOf(l)
    <3>1. \A x \in Nodes(l) : x.key \in KeysIn(l) /\ x.cell \in CellsOf(l)
      BY DEF KeysIn, CellsOf
    <3> QED
      BY <2>1, <2>2, <3>1, HoldsType DEF Fits
  <2>4. \A x \in Nodes(r) : /\ x.key > s.key /\ x.key \in Int
                            /\ x.cell # s.cell /\ x.cell \in CellsOf(r)
    <3>1. \A x \in Nodes(r) : x.key \in KeysIn(r) /\ x.cell \in CellsOf(r)
      BY DEF KeysIn, CellsOf
    <3> QED
      BY <2>1, <2>2, <3>1, HoldsType DEF Fits
  <2>5. CellsOf(l) \cap CellsOf(r) = {}
    BY <2>2 DEF Fits
  <2>6. ASSUME NEW x \in Nodes(l), NEW y \in Nodes(r) PROVE x.key # y.key /\ x.cell # y.cell
    BY <2>2, <2>3, <2>4, <2>5
  <2>7. ASSUME NEW x \in Nodes(l) \cup Nodes(r) PROVE x.key # s.key /\ x.cell # s.cell
    BY <2>2, <2>3, <2>4
  <2>8. CASE a = s \/ b = s
    BY <2>2, <2>7, <2>8
  <2>9. a \in Nodes(l) /\ b \in Nodes(l) => a = b
    BY <2>1, <2>2
  <2>10. a \in Nodes(r) /\ b \in Nodes(r) => a = b
    BY <2>1, <2>2
  <2>11. ~(a \in Nodes(l) /\ b \in Nodes(r)) /\ ~(a \in Nodes(r) /\ b \in Nodes(l))
    BY <2>6
  <2>12. a \in {s} \cup Nodes(l) \cup Nodes(r) /\ b \in {s} \cup Nodes(l) \cup Nodes(r)
    BY <2>2
  <2> QED
    BY <2>8, <2>9, <2>10, <2>11, <2>12, Zenon
<1> HIDE DEF S
<1>3. Tree \subseteq S
  BY <1>1, <1>2, TreeInduction
<1> QED
  BY <1>3 DEF S

-----------------------------------------------------------------------------
(***************************************************************************)
(* The levels of what an operation gives.                                  *)
(***************************************************************************)
LEMMA NodeAtLevel ==
    ASSUME NEW n \in Nat, NEW c \in Cells, NEW k \in Keys, NEW d \in Data,
           NEW l \in Levels[n], NEW r \in Levels[n]
    PROVE  Node(c, k, d, l, r) \in Levels[n + 1]
<1>1. Node(c, k, d, l, r) \in NodesOver(Levels[n])
  BY DEF Node, NodesOver
<1> QED
  BY <1>1, LevelsAre

LEMMA PartsAtLevel ==
    ASSUME NEW n \in Nat, n + 1 =< Height, NEW t \in Levels[n + 1], t # Null
    PROVE  t \in Tree /\ t.left \in Levels[n] /\ t.right \in Levels[n]
<1>1. t \in NodesOver(Levels[n])
  BY LevelsAre
<1>2. t.left \in Levels[n] /\ t.right \in Levels[n]
  BY <1>1 DEF NodesOver
<1>3. Levels[n + 1] \subseteq Tree
  BY HeightType, LevelsGrow
<1> QED
  BY <1>2, <1>3

\* An insertion adds a level at most.
LEMMA InsertLevel ==
    ASSUME NEW c \in Cells, NEW k \in Keys, NEW d \in Data,
           NEW n \in Nat, n =< Height, NEW s \in Levels[n]
    PROVE  Insert(s, c, k, d) \in Levels[n + 1]
<1> DEFINE S == {i \in Nat : i =< Height =>
                    \A t \in Levels[i] : Insert(t, c, k, d) \in Levels[i + 1]}
<1>1. Insert(Null, c, k, d) = Node(c, k, d, Null, Null)
  BY InsertIs
<1>2. \A i \in Nat : Insert(Null, c, k, d) \in Levels[i + 1]
  <2>1. \A i \in Nat : Null \in Levels[i]
    <3>1. \A i \in Nat : Levels[0] \subseteq Levels[i]
      BY LevelsGrow
    <3> QED
      BY <3>1, LevelsAre
  <2> QED
    BY <1>1, <2>1, NodeAtLevel
<1>3. 0 \in S
  <2>1. \A t \in Levels[0] : Insert(t, c, k, d) \in Levels[0 + 1]
    BY <1>2, LevelsAre
  <2> QED
    BY <2>1
<1>4. ASSUME NEW i \in Nat, i \in S PROVE i + 1 \in S
  <2> SUFFICES ASSUME i + 1 =< Height, NEW t \in Levels[i + 1]
               PROVE  Insert(t, c, k, d) \in Levels[i + 1 + 1]
    OBVIOUS
  <2>1. CASE t = Null
    BY <1>2, <2>1
  <2>2. CASE t # Null
    <3>1. t \in Tree /\ t.left \in Levels[i] /\ t.right \in Levels[i]
      BY <2>2, PartsAtLevel
    <3>2. i \in Nat /\ i + 1 \in Nat /\ i =< i + 1
      OBVIOUS
    <3>3. Levels[i] \subseteq Levels[i + 1]
      BY <3>2, LevelsGrow
    <3>4. i =< Height
      BY HeightType
    <3>5. Insert(t.left, c, k, d) \in Levels[i + 1] /\ Insert(t.right, c, k, d) \in Levels[i + 1]
      BY <1>4, <3>1, <3>4
    <3>6. PICK m \in Nat : m = i + 1
      OBVIOUS
    <3>7. \A d1 \in Data, l, r \in Levels[m] :
             Node(t.cell, t.key, d1, l, r) \in Levels[m + 1]
      BY <2>2, <3>1, Parts, NodeAtLevel
    <3>8. t.data \in Data
      BY <2>2, <3>1, Parts
    <3>9. Insert(t, c, k, d) \in Levels[m + 1]
      <4>1. /\ t.left \in Levels[m] /\ t.right \in Levels[m]
            /\ Insert(t.left, c, k, d) \in Levels[m] /\ Insert(t.right, c, k, d) \in Levels[m]
        BY <3>1, <3>3, <3>5, <3>6
      <4>2. t \in Tree \ {Null}
        BY <2>2, <3>1
      <4> QED
        BY <3>7, <3>8, <4>1, <4>2, InsertIs
    <3> QED
      BY <3>6, <3>9
  <2> QED
    BY <2>1, <2>2
<1> HIDE DEF S
<1>5. \A i \in Nat : i \in S
  BY <1>3, <1>4, Naturals
<1> QED
  BY <1>5 DEF S

\* A deletion adds none.
LEMMA DeleteLevel ==
    ASSUME NEW n \in Nat, n =< Height, NEW s \in Levels[n], NEW x \in Keys
    PROVE  Delete(s, x) \in Levels[n]
<1> DEFINE S == {i \in Nat : i =< Height =>
                    \A t \in Levels[i], k \in Keys : Delete(t, k) \in Levels[i]}
<1>1. 0 \in S
  BY LevelsAre, DeleteIs
<1>2. ASSUME NEW i \in Nat, i \in S PROVE i + 1 \in S
  <2> SUFFICES ASSUME i + 1 =< Height, NEW t \in Levels[i + 1], NEW k \in Keys
               PROVE  Delete(t, k) \in Levels[i + 1]
    OBVIOUS
  <2>1. CASE t = Null
    BY <2>1, DeleteIs
  <2>2. CASE t # Null
    <3>1. t \in Tree /\ t.left \in Levels[i] /\ t.right \in Levels[i]
      BY <2>2, PartsAtLevel
    <3>2. i \in Nat /\ i + 1 \in Nat /\ i =< i + 1 /\ i =< Height
      BY HeightType
    <3>3. Levels[i] \subseteq Levels[i + 1]
      BY <3>2, LevelsGrow
    <3>4. \A y \in Keys : Delete(t.left, y) \in Levels[i] /\ Delete(t.right, y) \in Levels[i]
      BY <1>2, <3>1, <3>2
    <3>5. t.cell \in Cells /\ t.key \in Keys /\ t.data \in Data /\ t.right \in Tree
      BY <2>2, <3>1, Parts
    <3>6. t.right # Null => FindMin(t.right).key \in Keys /\ FindMin(t.right).data \in Data
      BY <3>5, FindMinIn, Parts
    <3>7. \A k1 \in Keys, d1 \in Data, l, r \in Levels[i] :
             Node(t.cell, k1, d1, l, r) \in Levels[i + 1]
      BY <3>5, NodeAtLevel
    <3>8. t \in Tree \ {Null}
      BY <2>2, <3>1
    <3> QED
      BY <3>1, <3>3, <3>4, <3>5, <3>6, <3>7, <3>8, DeleteIs
  <2> QED
    BY <2>1, <2>2
<1> HIDE DEF S
<1>3. \A i \in Nat : i \in S
  BY <1>1, <1>2, Naturals
<1> QED
  BY <1>3 DEF S

\* A search tree has no more levels than keys.
LEMMA GoodLevel ==
    ASSUME NEW s \in Tree, Good(s)
    PROVE  /\ Cardinality(KeysIn(s)) \in Nat /\ Cardinality(KeysIn(s)) =< Cardinality(Keys)
           /\ s \in Levels[Cardinality(KeysIn(s))] /\ s \in Levels[Cardinality(Keys)]
<1>1. \A t \in Tree : /\ IsFiniteSet(KeysIn(t)) /\ Cardinality(KeysIn(t)) \in Nat
                      /\ Cardinality(KeysIn(t)) =< Cardinality(Keys)
                      /\ Cardinality(Keys) \in Nat
  BY HoldsType, BstAssumption, FS_Subset, FS_CardinalityType
<1> DEFINE S == {t \in Tree : Good(t) => t \in Levels[Cardinality(KeysIn(t))]}
<1>2. Null \in S
  <2>1. Null \in Levels[0] /\ Cardinality({}) = 0
    BY LevelsAre, FS_EmptySet
  <2> QED
    BY <2>1, HeightType, NullHolds
<1>3. ASSUME NEW t \in Tree \ {Null}, t.left \in S, t.right \in S PROVE t \in S
  <2> SUFFICES ASSUME Good(t) PROVE t \in Levels[Cardinality(KeysIn(t))]
    OBVIOUS
  <2>1. PICK l, r, n : l = t.left /\ r = t.right /\ n = Cardinality(KeysIn(t)) - 1
    OBVIOUS
  <2>2. /\ KeysIn(t) = {t.key} \cup KeysIn(l) \cup KeysIn(r) /\ l \in Tree /\ r \in Tree
        /\ Good(l) /\ Good(r) /\ Fits(t.cell, t.key, l, r) /\ t.key \in Int
    BY <2>1, TreeHolds
  <2>3. ASSUME NEW q \in Tree, KeysIn(q) \subseteq KeysIn(t) \ {t.key}
        PROVE  Cardinality(KeysIn(q)) =< n /\ n \in Nat
    <3>1. IsFiniteSet(KeysIn(t)) /\ t.key \in KeysIn(t)
      BY <1>1, <2>2
    <3>2. PICK R : R = KeysIn(t) \ {t.key}
      OBVIOUS
    <3>3. IsFiniteSet(R) /\ Cardinality(R) = n
      BY <2>1, <3>1, <3>2, FS_RemoveElement
    <3>4. Cardinality(KeysIn(q)) =< Cardinality(R)
      BY <2>3, <3>2, <3>3, FS_Subset
    <3> QED
      BY <3>3, <3>4, FS_CardinalityType
  <2>4. KeysIn(l) \subseteq KeysIn(t) \ {t.key} /\ KeysIn(r) \subseteq KeysIn(t) \ {t.key}
    <3>1. KeysIn(l) \subseteq Int /\ KeysIn(r) \subseteq Int
      BY <2>2, HoldsType
    <3>2. t.key \notin KeysIn(l) /\ t.key \notin KeysIn(r)
      BY <2>2, <3>1 DEF Fits
    <3> QED
      BY <2>2, <3>2
  <2>5. /\ Cardinality(KeysIn(l)) =< n /\ Cardinality(KeysIn(r)) =< n /\ n \in Nat
        /\ Cardinality(KeysIn(l)) \in Nat /\ Cardinality(KeysIn(r)) \in Nat
    BY <1>1, <2>2, <2>3, <2>4
  <2>6. l \in Levels[Cardinality(KeysIn(l))] /\ r \in Levels[Cardinality(KeysIn(r))]
    BY <1>3, <2>1, <2>2
  <2>7. l \in Levels[n] /\ r \in Levels[n]
    BY <2>5, <2>6, LevelsGrow
  <2>8. /\ t = Node(t.cell, t.key, t.data, l, r)
        /\ t.cell \in Cells /\ t.key \in Keys /\ t.data \in Data
    BY <2>1, NodeIs, Parts
  <2>9. PICK c, k, d : c = t.cell /\ k = t.key /\ d = t.data
    OBVIOUS
  <2>10. Node(c, k, d, l, r) \in Levels[n + 1]
    BY <2>5, <2>7, <2>8, <2>9, NodeAtLevel
  <2>11. n + 1 = Cardinality(KeysIn(t))
    BY <1>1, <2>1
  <2> QED
    BY <2>8, <2>9, <2>10, <2>11
<1> HIDE DEF S
<1>4. Tree \subseteq S
  BY <1>2, <1>3, TreeInduction
<1>5. s \in Levels[Cardinality(KeysIn(s))]
  BY <1>4 DEF S
<1> QED
  BY <1>1, <1>5, LevelsGrow

-----------------------------------------------------------------------------
(***************************************************************************)
(* What the operations do to a search tree.                                *)
(***************************************************************************)

\* bst_find_min gives the node with the least key.
LEMMA FindMinLeast ==
    ASSUME NEW s \in Tree, s # Null, Good(s)
    PROVE  /\ FindMin(s) \in Nodes(s) /\ FindMin(s).key \in Keys /\ FindMin(s).data \in Data
           /\ \A i \in KeysIn(s) : FindMin(s).key =< i
<1> DEFINE S == {t \in Tree : t # Null /\ Good(t) =>
                    \A i \in KeysIn(t) : FindMin(t).key =< i}
<1>1. Null \in S
  BY HeightType
<1>2. ASSUME NEW t \in Tree \ {Null}, t.left \in S, t.right \in S PROVE t \in S
  <2> SUFFICES ASSUME Good(t), NEW i \in KeysIn(t) PROVE FindMin(t).key =< i
    OBVIOUS
  <2>1. PICK l, r, k : l = t.left /\ r = t.right /\ k = t.key
    OBVIOUS
  <2>2. /\ KeysIn(t) = {k} \cup KeysIn(l) \cup KeysIn(r) /\ l \in Tree /\ r \in Tree
        /\ Good(l) /\ Fits(t.cell, k, l, r) /\ k \in Int
    BY <2>1, TreeHolds
  <2>3. KeysIn(l) \subseteq Int /\ KeysIn(r) \subseteq Int
    BY <2>2, HoldsType
  <2>4. CASE l = Null
    <3>1. FindMin(t).key = k /\ KeysIn(l) = {}
      BY <2>1, <2>4, FindMinIs, NullHolds
    <3> QED
      BY <2>2, <2>3, <3>1 DEF Fits
  <2>5. CASE l # Null
    <3>1. PICK m : m = FindMin(l)
      OBVIOUS
    <3>2. FindMin(t) = m /\ m.key \in KeysIn(l)
      <4>1. FindMin(t) = FindMin(l)
        BY <2>1, <2>5, FindMinIs
      <4> QED
        BY <2>2, <2>5, <3>1, <4>1, FindMinIn DEF KeysIn
    <3>3. \A j \in KeysIn(l) : m.key =< j
      BY <1>2, <2>1, <2>2, <2>5, <3>1
    <3> QED
      BY <2>2, <2>3, <3>2, <3>3 DEF Fits
  <2> QED
    BY <2>4, <2>5
<1> HIDE DEF S
<1>3. Tree \subseteq S
  BY <1>1, <1>2, TreeInduction
<1>4. FindMin(s) \in Nodes(s) /\ FindMin(s).key \in Keys /\ FindMin(s).data \in Data
  BY FindMinIn, Parts
<1> QED
  BY <1>3, <1>4 DEF S

\* bst_find gives the node with the key, if there is one.
LEMMA FindFinds ==
    ASSUME NEW s \in Tree, Good(s), NEW k \in Keys
    PROVE  /\ k \in KeysIn(s) => /\ Find(s, k) \in Nodes(s) /\ Find(s, k) # Null
                                 /\ Find(s, k).key = k
           /\ k \notin KeysIn(s) => Find(s, k) = Null
<1> DEFINE S == {t \in Tree : Good(t) =>
                    /\ k \in KeysIn(t) => Find(t, k) \in Nodes(t) /\ Find(t, k).key = k
                    /\ k \notin KeysIn(t) => Find(t, k) = Null}
<1>1. Null \in S
  BY HeightType, NullHolds, FindIs
<1>2. ASSUME NEW t \in Tree \ {Null}, t.left \in S, t.right \in S PROVE t \in S
  <2> SUFFICES ASSUME Good(t)
               PROVE  /\ k \in KeysIn(t) => Find(t, k) \in Nodes(t) /\ Find(t, k).key = k
                      /\ k \notin KeysIn(t) => Find(t, k) = Null
    OBVIOUS
  <2>1. PICK l, r, x : l = t.left /\ r = t.right /\ x = t.key
    OBVIOUS
  <2>2. /\ KeysIn(t) = {x} \cup KeysIn(l) \cup KeysIn(r) /\ l \in Tree /\ r \in Tree
        /\ Nodes(t) = {t} \cup Nodes(l) \cup Nodes(r)
        /\ Good(l) /\ Good(r) /\ Fits(t.cell, x, l, r) /\ x \in Int /\ k \in Int
    BY <2>1, TreeHolds, BstAssumption
  <2>3. Find(t, k) = IF k < x THEN Find(l, k) ELSE IF k > x THEN Find(r, k) ELSE t
    BY <2>1, FindIs
  <2>4. /\ k \in KeysIn(l) => Find(l, k) \in Nodes(l) /\ Find(l, k).key = k
        /\ k \notin KeysIn(l) => Find(l, k) = Null
        /\ k \in KeysIn(r) => Find(r, k) \in Nodes(r) /\ Find(r, k).key = k
        /\ k \notin KeysIn(r) => Find(r, k) = Null
    BY <1>2, <2>1, <2>2
  <2>5. (k \in KeysIn(l) => k < x) /\ (k \in KeysIn(r) => k > x)
    BY <2>2 DEF Fits
  <2>6. CASE k < x
    BY <2>2, <2>3, <2>4, <2>5, <2>6
  <2>7. CASE k > x
    BY <2>2, <2>3, <2>4, <2>5, <2>7
  <2>8. CASE k = x
    BY <2>1, <2>2, <2>3, <2>8
  <2> QED
    BY <2>2, <2>6, <2>7, <2>8
<1> HIDE DEF S
<1>3. Tree \subseteq S
  BY <1>1, <1>2, TreeInduction
<1>4. /\ k \in KeysIn(s) => Find(s, k) \in Nodes(s) /\ Find(s, k).key = k
      /\ k \notin KeysIn(s) => Find(s, k) = Null
  BY <1>3 DEF S
<1> QED
  BY <1>4, HoldsType

\* bst_insert adds the key, or replaces its data, and takes the cell if it is
\* another key.
LEMMA Inserts ==
    ASSUME NEW c \in Cells, NEW k \in Keys, NEW d \in Data,
           NEW s \in Tree, Good(s), c \notin CellsOf(s)
    PROVE  /\ Insert(s, c, k, d) \in Tree /\ Good(Insert(s, c, k, d))
           /\ KeysIn(Insert(s, c, k, d)) = KeysIn(s) \cup {k}
           /\ Entries(Insert(s, c, k, d)) = {e \in Entries(s) : e[1] # k} \cup {<<k, d>>}
           /\ CellsOf(Insert(s, c, k, d)) =
                CellsOf(s) \cup (IF k \in KeysIn(s) THEN {} ELSE {c})
<1> DEFINE Rest(E) == {e \in E : e[1] # k}
           Did(t, u) ==
             /\ Good(u) /\ KeysIn(u) = KeysIn(t) \cup {k}
             /\ Entries(u) = Rest(Entries(t)) \cup {<<k, d>>}
             /\ CellsOf(u) = CellsOf(t) \cup (IF k \in KeysIn(t) THEN {} ELSE {c})
           S == {t \in Tree : Good(t) /\ c \notin CellsOf(t) => Did(t, Insert(t, c, k, d))}
<1>1. ASSUME NEW t \in Tree, Good(t) PROVE Insert(t, c, k, d) \in Tree
  <2>1. PICK h \in Nat : h = Cardinality(Keys) /\ Height = h + 1 /\ h =< Height
    BY BstAssumption, FS_CardinalityType DEF Height
  <2>2. t \in Levels[h]
    BY <1>1, <2>1, GoodLevel
  <2>3. Insert(t, c, k, d) \in Levels[h + 1]
    BY <2>1, <2>2, InsertLevel
  <2> QED
    BY <2>1, <2>3, HeightType
<1>2. Null \in S
  <2>1. PICK u : u = Insert(Null, c, k, d)
    OBVIOUS
  <2>2. u \in Tree /\ u = Node(c, k, d, Null, Null) /\ Null \in Tree
    BY <1>1, <2>1, InsertIs, HeightType, NullHolds
  <2>3. /\ KeysIn(u) = {k} \cup {} /\ Entries(u) = {<<k, d>>} \cup {}
        /\ CellsOf(u) = {c} \cup {} /\ Good(u)
    BY <2>2, NodeHolds, NullHolds DEF Fits
  <2>4. Did(Null, u)
    BY <2>3, NullHolds
  <2> QED
    BY <2>1, <2>2, <2>4
<1>3. ASSUME NEW t \in Tree \ {Null}, t.left \in S, t.right \in S PROVE t \in S
  <2> SUFFICES ASSUME Good(t), c \notin CellsOf(t) PROVE Did(t, Insert(t, c, k, d))
    OBVIOUS
  <2>1. PICK l, r, x, b, y : l = t.left /\ r = t.right /\ x = t.key /\ b = t.cell /\ y = t.data
    OBVIOUS
  <2>2. /\ KeysIn(t) = {x} \cup KeysIn(l) \cup KeysIn(r) /\ l \in Tree /\ r \in Tree
        /\ Entries(t) = {<<x, y>>} \cup Entries(l) \cup Entries(r)
        /\ CellsOf(t) = {b} \cup CellsOf(l) \cup CellsOf(r)
        /\ Good(l) /\ Good(r) /\ Fits(b, x, l, r)
        /\ x \in Int /\ x \in Keys /\ b \in Cells /\ y \in Data /\ k \in Int
    BY <2>1, TreeHolds, BstAssumption
  <2>3. \A q \in {l, r} : /\ KeysIn(q) \subseteq Int
                          /\ \A e \in Entries(q) : e[1] \in KeysIn(q)
    BY <2>2, HoldsType
  <2>4. PICK u : u = Insert(t, c, k, d) /\ u \in Tree
    BY <1>1
  <2>5. CASE k < x
    <3>1. PICK v : v = Insert(l, c, k, d)
      OBVIOUS
    <3>2. Did(l, v) /\ v \in Tree
      BY <1>1, <1>3, <2>1, <2>2, <3>1
    <3>3. u = Node(b, x, y, v, r)
      BY <2>1, <2>4, <2>5, <3>1, InsertIs
    <3>4. /\ KeysIn(u) = {x} \cup KeysIn(v) \cup KeysIn(r)
          /\ Entries(u) = {<<x, y>>} \cup Entries(v) \cup Entries(r)
          /\ CellsOf(u) = {b} \cup CellsOf(v) \cup CellsOf(r)
          /\ Good(u) <=> Fits(b, x, v, r) /\ Good(v) /\ Good(r)
      BY <2>2, <2>4, <3>2, <3>3, NodeHolds
    <3>5. k \notin KeysIn(r) /\ k # x
      BY <2>2, <2>3, <2>5 DEF Fits
    <3>6. Fits(b, x, v, r)
      BY <2>2, <2>5, <3>2 DEF Fits
    <3>7. Rest(Entries(t)) = {<<x, y>>} \cup Rest(Entries(l)) \cup Entries(r)
      BY <2>2, <2>3, <3>5
    <3> HIDE DEF Rest
    <3> QED
      BY <2>2, <2>4, <3>2, <3>4, <3>5, <3>6, <3>7
  <2>6. CASE k > x
    <3>1. PICK v : v = Insert(r, c, k, d)
      OBVIOUS
    <3>2. Did(r, v) /\ v \in Tree
      BY <1>1, <1>3, <2>1, <2>2, <3>1
    <3>3. u = Node(b, x, y, l, v)
      BY <2>1, <2>2, <2>4, <2>6, <3>1, InsertIs
    <3>4. /\ KeysIn(u) = {x} \cup KeysIn(l) \cup KeysIn(v)
          /\ Entries(u) = {<<x, y>>} \cup Entries(l) \cup Entries(v)
          /\ CellsOf(u) = {b} \cup CellsOf(l) \cup CellsOf(v)
          /\ Good(u) <=> Fits(b, x, l, v) /\ Good(l) /\ Good(v)
      BY <2>2, <2>4, <3>2, <3>3, NodeHolds
    <3>5. k \notin KeysIn(l) /\ k # x
      BY <2>2, <2>3, <2>6 DEF Fits
    <3>6. Fits(b, x, l, v)
      BY <2>2, <2>6, <3>2 DEF Fits
    <3>7. Rest(Entries(t)) = {<<x, y>>} \cup Entries(l) \cup Rest(Entries(r))
      BY <2>2, <2>3, <3>5
    <3> HIDE DEF Rest
    <3> QED
      BY <2>2, <2>4, <3>2, <3>4, <3>5, <3>6, <3>7
  <2>7. CASE k = x
    <3>1. u = Node(b, x, d, l, r)
      BY <2>1, <2>2, <2>4, <2>7, InsertIs
    <3>2. /\ KeysIn(u) = {x} \cup KeysIn(l) \cup KeysIn(r)
          /\ Entries(u) = {<<x, d>>} \cup Entries(l) \cup Entries(r)
          /\ CellsOf(u) = {b} \cup CellsOf(l) \cup CellsOf(r)
          /\ Good(u) <=> Fits(b, x, l, r) /\ Good(l) /\ Good(r)
      BY <2>2, <2>4, <3>1, NodeHolds
    <3>3. k \notin KeysIn(l) /\ k \notin KeysIn(r)
      BY <2>2, <2>3, <2>7 DEF Fits
    <3>4. Rest(Entries(t)) = Entries(l) \cup Entries(r)
      BY <2>2, <2>3, <2>7, <3>3
    <3> HIDE DEF Rest
    <3> QED
      BY <2>2, <2>4, <2>7, <3>2, <3>4
  <2> QED
    BY <2>2, <2>5, <2>6, <2>7
<1> HIDE DEF S
<1>4. Tree \subseteq S
  BY <1>2, <1>3, TreeInduction
<1> QED
  BY <1>1, <1>4 DEF S

\* bst_delete takes the key out, if it is there, and frees the cells that the
\* tree no longer uses.
LEMMA Deletes ==
    ASSUME NEW s \in Tree, Good(s), NEW x \in Keys
    PROVE  /\ Delete(s, x) \in Tree /\ Good(Delete(s, x))
           /\ KeysIn(Delete(s, x)) = KeysIn(s) \ {x}
           /\ Entries(Delete(s, x)) = {e \in Entries(s) : e[1] # x}
           /\ CellsOf(Delete(s, x)) = CellsOf(s) \ Freed(s, x)
<1> DEFINE Rest(E, k) == {e \in E : e[1] # k}
           Did(t, k, u, f) ==
             /\ Good(u) /\ KeysIn(u) = KeysIn(t) \ {k} /\ Entries(u) = Rest(Entries(t), k)
             /\ CellsOf(u) = CellsOf(t) \ f /\ f \subseteq CellsOf(t)
           S == {t \in Tree : Good(t) =>
                    \A k \in Keys : Did(t, k, Delete(t, k), Freed(t, k))}
<1>1. ASSUME NEW t \in Tree, NEW k \in Keys PROVE Delete(t, k) \in Tree
  <2>1. PICK h \in Nat : h = Height /\ h =< Height
    BY HeightType
  <2> QED
    BY <2>1, DeleteLevel, HeightType
<1>2. Null \in S
  BY DeleteIs, FreedIs, NullHolds, HeightType
<1>3. ASSUME NEW t \in Tree \ {Null}, t.left \in S, t.right \in S PROVE t \in S
  <2> SUFFICES ASSUME Good(t), NEW k \in Keys PROVE Did(t, k, Delete(t, k), Freed(t, k))
    OBVIOUS
  <2>1. PICK l, r, z, b, y : l = t.left /\ r = t.right /\ z = t.key /\ b = t.cell /\ y = t.data
    OBVIOUS
  <2>2. /\ KeysIn(t) = {z} \cup KeysIn(l) \cup KeysIn(r) /\ l \in Tree /\ r \in Tree
        /\ Entries(t) = {<<z, y>>} \cup Entries(l) \cup Entries(r)
        /\ CellsOf(t) = {b} \cup CellsOf(l) \cup CellsOf(r)
        /\ Good(l) /\ Good(r) /\ Fits(b, z, l, r)
        /\ z \in Int /\ z \in Keys /\ b \in Cells /\ y \in Data /\ k \in Int
    BY <2>1, TreeHolds, BstAssumption
  <2>3. \A q \in {l, r} : /\ KeysIn(q) \subseteq Int
                          /\ \A e \in Entries(q) : e[1] \in KeysIn(q)
    BY <2>2, HoldsType
  <2>4. PICK u, f : u = Delete(t, k) /\ f = Freed(t, k) /\ u \in Tree
    BY <1>1
  <2>5. ASSUME NEW q \in {l, r}, NEW j \in Keys
        PROVE  Did(q, j, Delete(q, j), Freed(q, j)) /\ Delete(q, j) \in Tree
    BY <1>1, <1>3, <2>1, <2>2
  <2>6. CASE k < z
    <3>1. PICK v : v = Delete(l, k) /\ Did(l, k, v, f) /\ v \in Tree
      BY <2>1, <2>2, <2>4, <2>5, <2>6, FreedIs
    <3>2. u = Node(b, z, y, v, r)
      BY <2>1, <2>4, <2>6, <3>1, DeleteIs
    <3>3. /\ KeysIn(u) = {z} \cup KeysIn(v) \cup KeysIn(r)
          /\ Entries(u) = {<<z, y>>} \cup Entries(v) \cup Entries(r)
          /\ CellsOf(u) = {b} \cup CellsOf(v) \cup CellsOf(r)
          /\ Good(u) <=> Fits(b, z, v, r) /\ Good(v) /\ Good(r)
      BY <2>2, <2>4, <3>1, <3>2, NodeHolds
    <3>4. k \notin KeysIn(r) /\ k # z
      BY <2>2, <2>3, <2>6 DEF Fits
    <3>5. Fits(b, z, v, r)
      BY <2>2, <2>6, <3>1 DEF Fits
    <3>6. Rest(Entries(t), k) = {<<z, y>>} \cup Rest(Entries(l), k) \cup Entries(r)
      BY <2>2, <2>3, <3>4
    <3>7. b \notin CellsOf(l) /\ CellsOf(l) \cap CellsOf(r) = {}
      BY <2>2 DEF Fits
    <3> HIDE DEF Rest
    <3>8. Good(u) /\ KeysIn(u) = KeysIn(t) \ {k}
      BY <2>2, <3>1, <3>3, <3>4, <3>5
    <3>9. Entries(u) = Rest(Entries(t), k)
      BY <3>1, <3>3, <3>6
    <3>10. CellsOf(v) = CellsOf(l) \ f /\ f \subseteq CellsOf(l)
      BY <3>1
    <3>11. CellsOf(u) = CellsOf(t) \ f /\ f \subseteq CellsOf(t)
      BY <2>2, <3>3, <3>7, <3>10
    <3> QED
      BY <2>4, <3>8, <3>9, <3>11
  <2>7. CASE k > z
    <3>1. PICK v : v = Delete(r, k) /\ Did(r, k, v, f) /\ v \in Tree
      BY <2>1, <2>2, <2>4, <2>5, <2>7, FreedIs
    <3>2. u = Node(b, z, y, l, v)
      BY <2>1, <2>2, <2>4, <2>7, <3>1, DeleteIs
    <3>3. /\ KeysIn(u) = {z} \cup KeysIn(l) \cup KeysIn(v)
          /\ Entries(u) = {<<z, y>>} \cup Entries(l) \cup Entries(v)
          /\ CellsOf(u) = {b} \cup CellsOf(l) \cup CellsOf(v)
          /\ Good(u) <=> Fits(b, z, l, v) /\ Good(l) /\ Good(v)
      BY <2>2, <2>4, <3>1, <3>2, NodeHolds
    <3>4. k \notin KeysIn(l) /\ k # z
      BY <2>2, <2>3, <2>7 DEF Fits
    <3>5. Fits(b, z, l, v)
      BY <2>2, <2>7, <3>1 DEF Fits
    <3>6. Rest(Entries(t), k) = {<<z, y>>} \cup Entries(l) \cup Rest(Entries(r), k)
      BY <2>2, <2>3, <3>4
    <3>7. b \notin CellsOf(r) /\ CellsOf(l) \cap CellsOf(r) = {}
      BY <2>2 DEF Fits
    <3> HIDE DEF Rest
    <3>8. Good(u) /\ KeysIn(u) = KeysIn(t) \ {k}
      BY <2>2, <3>1, <3>3, <3>4, <3>5
    <3>9. Entries(u) = Rest(Entries(t), k)
      BY <3>1, <3>3, <3>6
    <3>10. CellsOf(v) = CellsOf(r) \ f /\ f \subseteq CellsOf(r)
      BY <3>1
    <3>11. CellsOf(u) = CellsOf(t) \ f /\ f \subseteq CellsOf(t)
      BY <2>2, <3>3, <3>7, <3>10
    <3> QED
      BY <2>4, <3>8, <3>9, <3>11
  <2>8. CASE k = z
    <3>1. k \notin KeysIn(l) /\ k \notin KeysIn(r)
      BY <2>2, <2>3, <2>8 DEF Fits
    <3>2. Rest(Entries(t), k) = Entries(l) \cup Entries(r)
      BY <2>2, <2>3, <2>8, <3>1
    <3>3. b \notin CellsOf(l) /\ b \notin CellsOf(r) /\ CellsOf(l) \cap CellsOf(r) = {}
      BY <2>2 DEF Fits
    <3>4. ~(k < z) /\ ~(k > z)
      BY <2>2, <2>8
    <3>5. u = IF l = Null THEN r ELSE IF r = Null THEN l
               ELSE Node(b, FindMin(r).key, FindMin(r).data, l, Delete(r, FindMin(r).key))
      BY <2>1, <2>4, <3>4, DeleteIs
    <3>6. f = IF Null \in {l, r} THEN {b} ELSE Freed(r, FindMin(r).key)
      BY <2>1, <2>4, <3>4, FreedIs
    <3>7. CASE l = Null
      <4>1. u = r /\ f = {b}
        BY <3>7, <3>5, <3>6
      <4>2. KeysIn(l) = {} /\ Entries(l) = {} /\ CellsOf(l) = {}
        BY <3>7, NullHolds
      <4> HIDE DEF Rest
      <4> QED
        BY <2>2, <2>4, <2>8, <3>1, <3>2, <3>3, <4>1, <4>2
    <3>8. CASE l # Null /\ r = Null
      <4>1. u = l /\ f = {b}
        BY <3>8, <3>5, <3>6
      <4>2. KeysIn(r) = {} /\ Entries(r) = {} /\ CellsOf(r) = {}
        BY <3>8, NullHolds
      <4> HIDE DEF Rest
      <4> QED
        BY <2>2, <2>4, <2>8, <3>1, <3>2, <3>3, <4>1, <4>2
    <3>9. CASE l # Null /\ r # Null
      <4>1. PICK m : m = FindMin(r)
        OBVIOUS
      <4>2. /\ m \in Nodes(r) /\ m.key \in Keys /\ m.data \in Data
            /\ \A i \in KeysIn(r) : m.key =< i
        BY <2>2, <3>9, <4>1, FindMinLeast
      <4>3. PICK j, e : j = m.key /\ e = m.data /\ j \in Keys /\ e \in Data /\ j \in Int
        BY <4>2, BstAssumption
      <4>4. PICK v : v = Delete(r, j) /\ Did(r, j, v, f) /\ v \in Tree
        BY <2>5, <3>9, <3>6, <4>1, <4>3
      <4>5. u = Node(b, j, e, l, v)
        BY <3>9, <3>5, <4>1, <4>3, <4>4
      <4>6. /\ KeysIn(u) = {j} \cup KeysIn(l) \cup KeysIn(v)
            /\ Entries(u) = {<<j, e>>} \cup Entries(l) \cup Entries(v)
            /\ CellsOf(u) = {b} \cup CellsOf(l) \cup CellsOf(v)
            /\ Good(u) <=> Fits(b, j, l, v) /\ Good(l) /\ Good(v)
        BY <2>2, <2>4, <4>3, <4>4, <4>5, NodeHolds
      <4>7. j \in KeysIn(r) /\ <<j, e>> \in Entries(r)
        BY <4>2, <4>3 DEF KeysIn, Entries
      <4>8. \A g \in Entries(r) : g[1] = j => g = <<j, e>>
        <5>1. ASSUME NEW n \in Nodes(r), n.key = j PROVE n = m
          BY <2>2, <4>2, <4>3, <5>1, UniqueNodes
        <5>2. ASSUME NEW n \in Nodes(r), <<n.key, n.data>>[1] = j
              PROVE  <<n.key, n.data>> = <<j, e>>
          BY <4>3, <5>1, <5>2
        <5> QED
          BY <5>2 DEF Entries
      <4>9. Entries(r) = {<<j, e>>} \cup Rest(Entries(r), j)
        BY <4>7, <4>8
      <4>10. Fits(b, j, l, v)
        <5>1. \A i \in KeysIn(l) : i < j
          BY <2>2, <2>3, <4>3, <4>7 DEF Fits
        <5>2. \A i \in KeysIn(v) : i > j
          BY <2>3, <4>2, <4>3, <4>4
        <5> QED
          BY <2>2, <3>3, <4>4, <5>1, <5>2 DEF Fits
      <4> HIDE DEF Rest
      <4>11. Good(u)
        BY <2>2, <4>4, <4>6, <4>10
      <4>12. KeysIn(u) = KeysIn(t) \ {k}
        BY <2>2, <2>8, <3>1, <4>4, <4>6, <4>7
      <4>13. Entries(u) = Rest(Entries(t), k)
        <5>1. Entries(v) = Rest(Entries(r), j)
          BY <4>4
        <5>2. Entries(u) = Entries(l) \cup Entries(r)
          BY <4>6, <4>9, <5>1
        <5> QED
          BY <3>2, <5>2
      <4>14. CellsOf(v) = CellsOf(r) \ f /\ f \subseteq CellsOf(r)
        BY <4>4
      <4>15. CellsOf(u) = CellsOf(t) \ f /\ f \subseteq CellsOf(t)
        BY <2>2, <3>3, <4>6, <4>14
      <4> QED
        BY <2>4, <4>11, <4>12, <4>13, <4>15
    <3> QED
      BY <3>7, <3>8, <3>9
  <2> QED
    BY <2>2, <2>6, <2>7, <2>8
<1> HIDE DEF S
<1>4. Tree \subseteq S
  BY <1>2, <1>3, TreeInduction
<1> QED
  BY <1>1, <1>4 DEF S

\* bst_for_each visits each key once, in order.
LEMMA Visits ==
    ASSUME NEW s \in Tree, Good(s)
    PROVE  /\ Visited(s) \in Seq(Tree)
           /\ \A i, j \in 1 .. Len(Visited(s)) :
                 i < j => Visited(s)[i].key < Visited(s)[j].key
           /\ {Visited(s)[i].key : i \in 1 .. Len(Visited(s))} = KeysIn(s)
<1> DEFINE Did(t, v) ==
             /\ v \in Seq(Tree)
             /\ \A i, j \in 1 .. Len(v) : i < j => v[i].key < v[j].key
             /\ {v[i].key : i \in 1 .. Len(v)} = KeysIn(t)
           S == {t \in Tree : Good(t) => Did(t, Visited(t))}
<1>1. Null \in S
  <2>1. Did(Null, <<>>)
    BY NullHolds
  <2> QED
    BY <2>1, HeightType, VisitedIs
<1>2. ASSUME NEW t \in Tree \ {Null}, t.left \in S, t.right \in S PROVE t \in S
  <2> SUFFICES ASSUME Good(t) PROVE Did(t, Visited(t))
    OBVIOUS
  <2>1. PICK l, r, z, a, b, v :
           /\ l = t.left /\ r = t.right /\ z = t.key
           /\ a = Visited(l) /\ b = Visited(r) /\ v = a \o <<t>> \o b
    OBVIOUS
  <2>2. /\ KeysIn(t) = {z} \cup KeysIn(l) \cup KeysIn(r) /\ l \in Tree /\ r \in Tree
        /\ Good(l) /\ Good(r) /\ Fits(t.cell, z, l, r) /\ z \in Int
    BY <2>1, TreeHolds
  <2>3. Did(l, a) /\ Did(r, b) /\ Visited(t) = v
    BY <1>2, <2>1, <2>2, VisitedIs
  <2>4. KeysIn(l) \subseteq Int /\ KeysIn(r) \subseteq Int
    BY <2>2, HoldsType
  <2>5. PICK m, n : m = Len(a) /\ n = Len(b)
    OBVIOUS
  <2>6. a \in Seq(Tree) /\ b \in Seq(Tree) /\ m \in Nat /\ n \in Nat
    BY <2>3, <2>5
  <2>7. /\ v \in Seq(Tree) /\ Len(v) = m + 1 + n
        /\ \A i \in 1 .. m : v[i] = a[i]
        /\ v[m + 1] = t
        /\ \A i \in 1 .. n : v[m + 1 + i] = b[i]
    BY <2>1, <2>3, <2>5, <2>6
  <2>8. \A i \in 1 .. m : v[i].key \in KeysIn(l) /\ v[i].key < z /\ v[i].key \in Int
    BY <2>2, <2>3, <2>4, <2>5, <2>6, <2>7 DEF Fits
  <2>9. \A i \in m + 2 .. m + 1 + n :
           /\ v[i] = b[i - m - 1] /\ i - m - 1 \in 1 .. n
           /\ v[i].key \in KeysIn(r) /\ v[i].key > z /\ v[i].key \in Int
    <3> SUFFICES ASSUME NEW i \in m + 2 .. m + 1 + n
                 PROVE  /\ v[i] = b[i - m - 1] /\ i - m - 1 \in 1 .. n
                        /\ v[i].key \in KeysIn(r) /\ v[i].key > z /\ v[i].key \in Int
      OBVIOUS
    <3>1. PICK j : j = i - m - 1
      OBVIOUS
    <3>2. j \in 1 .. n /\ m + 1 + j = i
      BY <2>6, <3>1
    <3>3. v[i] = b[j] /\ b[j].key \in KeysIn(r)
      BY <2>3, <2>5, <2>6, <2>7, <3>2
    <3> QED
      BY <2>2, <2>4, <3>2, <3>3, <3>1 DEF Fits
  <2>10. ASSUME NEW i \in 1 .. Len(v), NEW j \in 1 .. Len(v), i < j
        PROVE  v[i].key < v[j].key
    <3>1. CASE j =< m
      <4>1. i \in 1 .. m /\ j \in 1 .. m
        BY <2>5, <2>6, <2>7, <2>10, <3>1
      <4> QED
        BY <2>3, <2>5, <2>6, <2>7, <2>10, <4>1
    <3>2. CASE i =< m /\ j > m
      <4>1. i \in 1 .. m /\ (j = m + 1 \/ j \in m + 2 .. m + 1 + n)
        BY <2>5, <2>6, <2>7, <3>2
      <4>2. v[i].key < z /\ v[i].key \in Int
        BY <2>8, <4>1
      <4>3. (v[j].key = z \/ v[j].key > z) /\ v[j].key \in Int
        BY <2>1, <2>2, <2>7, <2>9, <4>1
      <4> QED
        BY <2>2, <4>2, <4>3
    <3>3. CASE i = m + 1
      <4>1. j \in m + 2 .. m + 1 + n
        BY <2>5, <2>6, <2>7, <2>10, <3>3
      <4> QED
        BY <2>1, <2>2, <2>7, <2>9, <3>3, <4>1
    <3>4. CASE i > m + 1
      <4>1. i \in m + 2 .. m + 1 + n /\ j \in m + 2 .. m + 1 + n
        BY <2>5, <2>6, <2>7, <2>10, <3>4
      <4>2. PICK i1, j1 : i1 = i - m - 1 /\ j1 = j - m - 1
        OBVIOUS
      <4>3. i1 \in 1 .. n /\ j1 \in 1 .. n /\ i1 < j1
        BY <2>5, <2>6, <2>10, <4>1, <4>2
      <4>4. v[i] = b[i1] /\ v[j] = b[j1]
        BY <2>9, <4>1, <4>2
      <4>5. b[i1].key < b[j1].key
        BY <2>3, <2>5, <2>6, <4>3
      <4> QED
        BY <4>4, <4>5
    <3> QED
      BY <2>5, <2>6, <3>1, <3>2, <3>3, <3>4
  <2>11. {v[i].key : i \in 1 .. Len(v)} = KeysIn(t)
    <3>1. ASSUME NEW i \in 1 .. Len(v) PROVE v[i].key \in KeysIn(t)
      <4>1. i \in 1 .. m \/ i = m + 1 \/ i \in m + 2 .. m + 1 + n
        BY <2>5, <2>6, <2>7
      <4> QED
        BY <2>1, <2>2, <2>7, <2>8, <2>9, <4>1
    <3>2. ASSUME NEW k \in KeysIn(t) PROVE \E i \in 1 .. Len(v) : v[i].key = k
      <4>1. CASE k \in KeysIn(l)
        <5>1. PICK i \in 1 .. m : a[i].key = k
          BY <2>3, <2>5, <2>6, <4>1
        <5>2. i \in 1 .. Len(v) /\ v[i].key = k
          BY <2>5, <2>6, <2>7, <5>1
        <5> QED
          BY <5>2
      <4>2. CASE k = z
        <5>1. PICK i \in 1 .. Len(v) : i = m + 1
          BY <2>5, <2>6, <2>7
        <5> QED
          BY <2>1, <2>7, <4>2, <5>1
      <4>3. CASE k \in KeysIn(r)
        <5>1. PICK i \in 1 .. n : b[i].key = k
          BY <2>3, <2>5, <2>6, <4>3
        <5>2. PICK j \in 1 .. Len(v) : j = m + 1 + i
          BY <2>5, <2>6, <2>7
        <5>3. v[j].key = k
          BY <2>7, <5>1, <5>2
        <5> QED
          BY <5>3
      <4> QED
        BY <2>2, <4>1, <4>2, <4>3
    <3> QED
      BY <3>1, <3>2
  <2> HIDE DEF Did
  <2>12. Did(t, v)
    BY <2>7, <2>10, <2>11 DEF Did
  <2> QED
    BY <2>3, <2>12
<1> HIDE DEF S
<1>3. Tree \subseteq S
  BY <1>1, <1>2, TreeInduction
<1> QED
  BY <1>3 DEF S

\* As many cells as keys.
LEMMA CellsCount ==
    ASSUME NEW s \in Tree, Good(s)
    PROVE  Cardinality(CellsOf(s)) = Cardinality(KeysIn(s))
<1>1. PICK K, C, N : K = KeysIn(s) /\ C = CellsOf(s) /\ N = Nodes(s)
  OBVIOUS
<1>2. PICK f : f = [k \in K |-> (CHOOSE n \in N : n.key = k).cell]
  OBVIOUS
<1>3. \A n \in N : n.key \in K /\ n.cell \in C /\ f[n.key] = n.cell
  <2> SUFFICES ASSUME NEW n \in N PROVE n.key \in K /\ n.cell \in C /\ f[n.key] = n.cell
    OBVIOUS
  <2>1. n.key \in K /\ n.cell \in C
    BY <1>1 DEF KeysIn, CellsOf
  <2>2. PICK o : o = CHOOSE p \in N : p.key = n.key
    OBVIOUS
  <2>3. o \in N /\ o.key = n.key
    BY <2>2
  <2>4. o = n
    BY <1>1, <2>3, UniqueNodes
  <2> QED
    BY <1>2, <2>1, <2>2, <2>4
<1>4. f \in [K -> C]
  <2>1. \A k \in K : f[k] \in C
    BY <1>1, <1>3 DEF KeysIn
  <2> QED
    BY <1>2, <2>1
<1>5. \A a, b \in K : f[a] = f[b] => a = b
  <2>1. \A m, n \in N : m.cell = n.cell => m = n
    BY <1>1, UniqueNodes
  <2> QED
    BY <1>1, <1>3, <2>1 DEF KeysIn
<1>6. \A c \in C : \E k \in K : f[k] = c
  BY <1>1, <1>3 DEF CellsOf
<1>7. f \in Bijection(K, C)
  BY <1>4, <1>5, <1>6, Fun_IsBij
<1>8. IsFiniteSet(K)
  BY <1>1, HoldsType, BstAssumption, FS_Subset
<1>9. ExistsBijection(K, C)
  BY <1>7 DEF ExistsBijection
<1> QED
  BY <1>1, <1>8, <1>9, FS_Bijection

-----------------------------------------------------------------------------
(***************************************************************************)
(* The invariant and the properties of the module.                         *)
(***************************************************************************)
TreeInv == root \in Tree /\ Good(root) /\ cells = CellsOf(root)

LEMMA TreeInit == Init => TreeInv
  BY HeightType, NullHolds DEF Init, TreeInv

LEMMA TreeNext == TreeInv /\ [Next]_vars => TreeInv'
<1> SUFFICES ASSUME TreeInv, [Next]_vars PROVE TreeInv'
  OBVIOUS
<1>1. root \in Tree /\ Good(root) /\ cells = CellsOf(root)
  BY DEF TreeInv
<1>2. ASSUME NEW k \in Keys, NEW d \in Data, BstInsert(k, d) PROVE TreeInv'
  <2>1. PICK c \in Cells \ cells :
           /\ root' = Insert(root, c, k, d)
           /\ cells' = IF Find(root, k) = Null THEN cells \cup {c} ELSE cells
    BY <1>2 DEF BstInsert
  <2>2. /\ root' \in Tree /\ Good(root')
        /\ CellsOf(root') = CellsOf(root) \cup (IF k \in KeysIn(root) THEN {} ELSE {c})
    BY <1>1, <2>1, Inserts
  <2>3. Find(root, k) = Null <=> k \notin KeysIn(root)
    BY <1>1, FindFinds
  <2> QED
    BY <1>1, <2>1, <2>2, <2>3 DEF TreeInv
<1>3. ASSUME NEW k \in Keys, BstDelete(k) PROVE TreeInv'
  <2>1. root' = Delete(root, k) /\ cells' = cells \ Freed(root, k)
    BY <1>3 DEF BstDelete
  <2>2. /\ root' \in Tree /\ Good(root')
        /\ CellsOf(root') = CellsOf(root) \ Freed(root, k)
    BY <1>1, <2>1, Deletes
  <2> QED
    BY <1>1, <2>1, <2>2 DEF TreeInv
<1>4. CASE UNCHANGED vars
  BY <1>1, <1>4 DEF vars, TreeInv
<1> QED
  BY <1>2, <1>3, <1>4 DEF Next

\* The tree is always a search tree of at most as many levels as there are
\* keys, whose cells are the allocated ones (bst_insert, bst_delete).
THEOREM TreeIsSound == Spec => []TreeInv
  BY TreeInit, TreeNext, PTL DEF Spec

\* A lookup and a visit find what the tree holds, whatever insertions and
\* deletions made of it (bst_find, bst_for_each).
THEOREM LookupsAgree == Spec => []ViewsAgree
<1>1. TreeInv => ViewsAgree
  <2> SUFFICES ASSUME TreeInv PROVE ViewsAgree
    OBVIOUS
  <2>1. root \in Tree /\ Good(root)
    BY DEF TreeInv
  <2>2. PICK v : v = Visited(root)
    OBVIOUS
  <2>3. /\ v \in Seq(Tree)
        /\ \A i, j \in 1 .. Len(v) : i < j => v[i].key < v[j].key
        /\ {v[i].key : i \in 1 .. Len(v)} = KeysIn(root)
    BY <2>1, <2>2, Visits
  <2>4. DOMAIN v = 1 .. Len(v)
    BY <2>3
  <2>5. \A k \in Keys : IF k \in KeysIn(root)
                        THEN Find(root, k) # Null /\ Find(root, k).key = k
                        ELSE Find(root, k) = Null
    BY <2>1, FindFinds
  <2> QED
    BY <2>2, <2>3, <2>4, <2>5 DEF ViewsAgree
<1> QED
  BY <1>1, TreeIsSound, PTL

\* No node leaks and none of the tree is freed (bst_insert, bst_delete).
THEOREM NodesAreAllocated == Spec => []NoLeakNoDangling
<1>1. TreeInv => NoLeakNoDangling
  BY CellsCount DEF TreeInv, NoLeakNoDangling, CellsOf
<1> QED
  BY <1>1, TreeIsSound, PTL

\* The contents of a search tree, by its entries.
LEMMA ContentsAre ==
    ASSUME NEW t \in Tree, Good(t)
    PROVE  /\ Contents(t) = [k \in KeysIn(t) |-> Contents(t)[k]]
           /\ \A k \in KeysIn(t) : <<k, Contents(t)[k]>> \in Entries(t)
           /\ \A e \in Entries(t) : e[1] \in KeysIn(t) /\ Contents(t)[e[1]] = e[2]
<1>1. Contents(t) = [k \in KeysIn(t) |-> Contents(t)[k]]
  BY DEF Contents
<1>2. ASSUME NEW n \in Nodes(t)
      PROVE  n.key \in KeysIn(t) /\ Contents(t)[n.key] = n.data
  <2>1. n.key \in KeysIn(t)
    BY DEF KeysIn
  <2>2. PICK o : o = CHOOSE p \in Nodes(t) : p.key = n.key
    OBVIOUS
  <2>3. o \in Nodes(t) /\ o.key = n.key
    BY <2>2
  <2>4. o = n
    BY <2>3, UniqueNodes
  <2>5. Contents(t)[n.key] = o.data
    BY <2>1, <2>2 DEF Contents
  <2> QED
    BY <2>1, <2>4, <2>5
<1>3. \A k \in KeysIn(t) : <<k, Contents(t)[k]>> \in Entries(t)
  BY <1>2 DEF KeysIn, Entries
<1>4. \A e \in Entries(t) : e[1] \in KeysIn(t) /\ Contents(t)[e[1]] = e[2]
  BY <1>2 DEF Entries
<1> QED
  BY <1>1, <1>3, <1>4

\* An insertion and a deletion change one entry only (bst_insert, bst_delete).
THEOREM OneEntryChanges == Spec => []UpdatesOneEntry
<1>1. TreeInv => UpdatesOneEntry
  <2> SUFFICES ASSUME TreeInv, NEW k \in Keys
               PROVE  /\ Contents(Delete(root, k)) =
                            [j \in KeysIn(root) \ {k} |-> Contents(root)[j]]
                      /\ \A d \in Data, c \in Cells \ cells :
                            Contents(Insert(root, c, k, d)) =
                                [j \in KeysIn(root) \cup {k} |->
                                    IF j = k THEN d ELSE Contents(root)[j]]
    BY DEF UpdatesOneEntry
  <2>1. root \in Tree /\ Good(root) /\ cells = CellsOf(root)
    BY DEF TreeInv
  <2>2. PICK C : C = Contents(root) /\ \A j \in KeysIn(root) : <<j, C[j]>> \in Entries(root)
    BY <2>1, ContentsAre
  <2>3. Contents(Delete(root, k)) = [j \in KeysIn(root) \ {k} |-> C[j]]
    <3>1. PICK u : u = Delete(root, k)
      OBVIOUS
    <3>2. /\ u \in Tree /\ Good(u) /\ KeysIn(u) = KeysIn(root) \ {k}
          /\ Entries(u) = {e \in Entries(root) : e[1] # k}
      BY <2>1, <3>1, Deletes
    <3>3. PICK D : /\ D = Contents(u) /\ D = [j \in KeysIn(u) |-> D[j]]
                   /\ \A e \in Entries(u) : D[e[1]] = e[2]
      BY <3>2, ContentsAre
    <3>4. ASSUME NEW j \in KeysIn(u) PROVE D[j] = C[j]
      <4>1. PICK e : e = <<j, C[j]>>
        OBVIOUS
      <4>2. e \in Entries(root) /\ j # k /\ e[1] = j /\ e[2] = C[j]
        BY <2>2, <3>2, <4>1
      <4> QED
        BY <3>2, <3>3, <4>2
    <3> QED
      BY <3>1, <3>2, <3>3, <3>4
  <2>4. ASSUME NEW d \in Data, NEW c \in Cells \ cells
        PROVE  Contents(Insert(root, c, k, d)) =
                  [j \in KeysIn(root) \cup {k} |-> IF j = k THEN d ELSE C[j]]
    <3>1. PICK u : u = Insert(root, c, k, d)
      OBVIOUS
    <3>2. /\ u \in Tree /\ Good(u) /\ KeysIn(u) = KeysIn(root) \cup {k}
          /\ Entries(u) = {e \in Entries(root) : e[1] # k} \cup {<<k, d>>}
      BY <2>1, <3>1, Inserts
    <3>3. PICK D : /\ D = Contents(u) /\ D = [j \in KeysIn(u) |-> D[j]]
                   /\ \A e \in Entries(u) : D[e[1]] = e[2]
      BY <3>2, ContentsAre
    <3>4. ASSUME NEW j \in KeysIn(u) PROVE D[j] = IF j = k THEN d ELSE C[j]
      <4>1. PICK e : e = <<j, IF j = k THEN d ELSE C[j]>>
        OBVIOUS
      <4>2. e[1] = j /\ e[2] = IF j = k THEN d ELSE C[j]
        BY <4>1
      <4>3. e \in Entries(u)
        BY <2>2, <3>2, <4>1
      <4> QED
        BY <3>3, <4>2, <4>3
    <3> QED
      BY <3>1, <3>2, <3>3, <3>4
  <2> QED
    BY <2>2, <2>3, <2>4
<1> QED
  BY <1>1, TreeIsSound, PTL

=============================================================================
