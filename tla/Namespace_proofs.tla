------------------------- MODULE Namespace_proofs -------------------------
(***************************************************************************)
(* Theorems about Namespace, for every number of inodes, runs and names    *)
(* and every size of a directory block.                                    *)
(*                                                                         *)
(* The properties speak of what a walk from the root reaches, a recursive  *)
(* definition that no step of a call preserves by itself.  The invariant   *)
(* says the same without the walk, in layers: what the directories list    *)
(* (Lists), that blocks and runs are where they belong (Owned), and that   *)
(* the entries, kinds and '..' entries make a tree (Shape) with the right  *)
(* link counts (Counts).  The steps of a call preserve the lower layers    *)
(* one by one; the upper ones are restored when the call ends.             *)
(***************************************************************************)
EXTENDS Namespace, FiniteSetTheorems, FunctionTheorems, SequenceTheorems,
        WellFoundedInduction, TLAPS

-----------------------------------------------------------------------------
(* The invariant.                                                          *)

\* A directory's content c names i as n in one of its first sz blocks.
Has(c, sz, n, i) == \E k \in 1..sz : n \in DOMAIN c.blocks[k] /\ c.blocks[k][n] = i

\* It has just its blocks, none is overfull, and no two have a name in common.
Neat(c, sz) ==
    /\ sz = Len(c.blocks)
    /\ \A k \in 1..sz : Cardinality(DOMAIN c.blocks[k]) <= BlkNames
    /\ \A k, l \in 1..sz, n \in Names :
          n \in DOMAIN c.blocks[k] /\ n \in DOMAIN c.blocks[l] => k = l

InDir(s, d) == s.content[s.inode[d].run]

\* The entries of the directories are T.
Lists(s, T) ==
    /\ T \subseteq Edge
    /\ \A d \in Inodes, n \in Names, i \in Inodes :
          <<d, n, i>> \in T <=> IsDir(s, d) /\ Has(InDir(s, d), s.inode[d].size, n, i)

\* Directories have storage and are neat; each run in use has one owner; an
\* inode is cleared just when it is free.
Owned(s) ==
    /\ \A d \in Inodes : IsDir(s, d) =>
          s.inode[d].run \in Runs /\ Neat(InDir(s, d), s.inode[d].size)
    /\ \A r \in Runs : r \in s.rused <=> \E i \in Inodes : s.inode[i].run = r
    /\ \A i, j \in Inodes :
          s.inode[i].run = s.inode[j].run /\ s.inode[i].run # 0 => i = j
    /\ \A i \in Inodes : i \notin s.iused => s.inode[i] = Cleared
    /\ \A i \in s.iused : s.inode[i].kind # "free"

\* The '..' of every directory.
Ups(s, U) == \A d \in Inodes : IsDir(s, d) => InDir(s, d).dotdot = U[d]

Kind(s) == [i \in Inodes |-> s.inode[i].kind]
LinkOf(s) == [i \in Inodes |-> s.inode[i].nlink]

\* No directories lie on a cycle.
Rooted(K, U) ==
    \A S \in SUBSET Inodes :
        (\A d \in S : K[d] = "dir" /\ d # Root /\ U[d] \in S) => S = {}

\* Entries T, kinds K and parents U make a tree.
Shape(T, K, U) ==
    /\ K[Root] = "dir" /\ U[Root] = Root
    /\ \A d \in Inodes, n \in Names, i \in Inodes :
          <<d, n, i>> \in T => K[d] = "dir" /\ K[i] # "free" /\ i # Root
    /\ \A d \in Inodes, n \in Names, i, j \in Inodes :
          <<d, n, i>> \in T /\ <<d, n, j>> \in T => i = j
    /\ \A i \in Inodes : K[i] # "free" /\ i # Root =>
          \E d \in Inodes, n \in Names : <<d, n, i>> \in T
    /\ \A d, e \in Inodes, n, m \in Names, i \in Inodes :
          <<d, n, i>> \in T /\ <<e, m, i>> \in T /\ K[i] = "dir" => d = U[i] /\ n = m
    /\ Rooted(K, U)

NamesOf(T, i)    == {e \in T : e[3] = i}
Subdirs(T, K, d) == {e \in T : e[1] = d /\ K[e[3]] = "dir"}
Counts(T, K, C) ==
    \A i \in Inodes : K[i] # "free" =>
        C[i] = IF K[i] = "dir" THEN 2 + Cardinality(Subdirs(T, K, i))
               ELSE Cardinality(NamesOf(T, i))

Sound(s, T, U) ==
    /\ U \in [Inodes -> Inodes]
    /\ Lists(s, T) /\ Owned(s) /\ Ups(s, U)
    /\ Shape(T, Kind(s), U) /\ Counts(T, Kind(s), LinkOf(s))

IInv == TypeOK /\ (damage = "none" => \E U \in [Inodes -> Inodes] : Sound(disk, expected, U))

-----------------------------------------------------------------------------
(* Naturals, and functions defined by iteration.                           *)

LEMMA LeastNatural ==
    ASSUME NEW S \in SUBSET Nat, S # {}
    PROVE  \E x \in S : \A y \in S : x <= y
<1> DEFINE R == {ss \in Nat \X Nat : ss[1] < ss[2]}
<1>1. IsWellFoundedOn(R, Nat)
  BY NatLessThanWellFounded DEF OpToRel
<1>2. \E x \in S : \A y \in S : ~ (<<y, x>> \in R)
  <2> HIDE DEF R
  <2>1. QED BY <1>1, WFMin
<1>3. PICK x \in S : \A y \in S : ~ (<<y, x>> \in R)
  BY <1>2
<1>4. ASSUME NEW y \in S PROVE x <= y
  <2>1. ~ (y < x)
    BY <1>3
  <2>2. QED BY <2>1
<1>5. QED BY <1>4

LEMMA LowestFacts ==
    ASSUME NEW S \in SUBSET Nat, S # {}
    PROVE  Lowest(S) \in S
<1>1. \E x \in S : \A y \in S : x <= y
  BY LeastNatural
<1>2. QED BY <1>1 DEF Lowest

\* Induction up to a bound: what holds at 0, and at k + 1 if it holds at k.
LEMMA Upward ==
    ASSUME NEW n \in Nat, NEW S, 0 \in S, \A k \in 0..(n - 1) : k \in S => k + 1 \in S
    PROVE  0..n \subseteq S
<1> DEFINE Bad == {k \in 0..n : k \notin S}
<1>1. SUFFICES ASSUME Bad # {} PROVE FALSE
  OBVIOUS
<1>2. Bad \in SUBSET Nat
  OBVIOUS
<1>3. PICK k \in Bad : \A j \in Bad : k <= j
  <2> HIDE DEF Bad
  <2>1. QED BY <1>1, <1>2, LeastNatural
<1>4. k # 0
  OBVIOUS
<1>5. k - 1 \in 0..(n - 1) /\ k - 1 \in 0..n
  BY <1>4
<1>6. k - 1 \in S
  <2>1. k - 1 \notin Bad
    BY <1>3, <1>5
  <2>2. QED BY <2>1, <1>5
<1>7. (k - 1) + 1 \in S
  BY <1>5, <1>6
<1>8. QED BY <1>7

\* The function f of 0..n that starts with first and goes on with step.
IsIteration(f, n, first, step) ==
    f = [k \in 0..n |-> IF k = 0 THEN first ELSE step[f[k - 1]]]

LEMMA IterationExists ==
    ASSUME NEW n \in Nat, NEW first, NEW step
    PROVE  \E f : IsIteration(f, n, first, step)
<1> DEFINE S == {m \in 0..n : \E f : IsIteration(f, m, first, step)}
<1>1. 0 \in S
  <2> DEFINE f == [k \in 0..0 |-> first]
  <2>1. f = [k \in 0..0 |-> IF k = 0 THEN first ELSE step[f[k - 1]]]
    OBVIOUS
  <2>2. IsIteration(f, 0, first, step)
    BY <2>1 DEF IsIteration
  <2>3. QED BY <2>2
<1>2. ASSUME NEW m \in 0..(n - 1), m \in S PROVE m + 1 \in S
  <2>1. PICK f : IsIteration(f, m, first, step)
    BY <1>2
  <2> DEFINE g == [k \in 0..(m + 1) |-> IF k = m + 1 THEN step[f[m]] ELSE f[k]]
  <2>2. ASSUME NEW k \in 0..(m + 1)
        PROVE  g[k] = IF k = 0 THEN first ELSE step[g[k - 1]]
    <3>1. CASE k = m + 1
      BY <3>1
    <3>2. CASE k # m + 1
      <4>1. k \in 0..m /\ (k # 0 => k - 1 \in 0..m)
        BY <3>2
      <4>2. g[k] = f[k] /\ (k # 0 => g[k - 1] = f[k - 1])
        BY <4>1
      <4>3. f[k] = IF k = 0 THEN first ELSE step[f[k - 1]]
        BY <2>1, <4>1 DEF IsIteration
      <4>4. QED BY <4>2, <4>3
    <3>3. QED BY <3>1, <3>2
  <2>3. g = [k \in 0..(m + 1) |-> IF k = 0 THEN first ELSE step[g[k - 1]]]
    BY <2>2
  <2> HIDE DEF g
  <2>4. IsIteration(g, m + 1, first, step)
    BY <2>3 DEF IsIteration
  <2>5. QED BY <2>4
<1>3. 0..n \subseteq S
  <2> HIDE DEF S
  <2>1. QED BY <1>1, <1>2, Upward
<1>4. n \in S
  BY <1>3
<1>5. QED BY <1>4

\* Everything that contains first and is closed under step.
LEMMA IterationIn ==
    ASSUME NEW n \in Nat, NEW first, NEW step, NEW f, IsIteration(f, n, first, step),
           NEW S, first \in S, \A x \in S : step[x] \in S
    PROVE  \A k \in 0..n : f[k] \in S
<1> DEFINE G == {k \in 0..n : f[k] \in S}
<1>1. 0 \in G
  BY DEF IsIteration
<1>2. ASSUME NEW k \in 0..(n - 1), k \in G PROVE k + 1 \in G
  <2>1. k + 1 \in 0..n /\ k + 1 # 0 /\ (k + 1) - 1 = k
    OBVIOUS
  <2>2. f[k + 1] = step[f[k]]
    BY <2>1 DEF IsIteration
  <2>3. QED BY <2>1, <2>2, <1>2
<1>3. 0..n \subseteq G
  <2> HIDE DEF G
  <2>1. QED BY <1>1, <1>2, Upward
<1>4. QED BY <1>3

\* A growing iteration over the subsets of a finite set comes to a halt within
\* as many steps as the set has elements.
LEMMA IterationHalts ==
    ASSUME NEW X, IsFiniteSet(X), NEW first \in SUBSET X, first # {}, NEW step,
           \A S \in SUBSET X : step[S] \in SUBSET X /\ S \subseteq step[S],
           NEW f, IsIteration(f, Cardinality(X), first, step)
    PROVE  /\ f[Cardinality(X)] \in SUBSET X
           /\ first \subseteq f[Cardinality(X)]
           /\ step[f[Cardinality(X)]] = f[Cardinality(X)]
<1> DEFINE n == Cardinality(X)
           G == {k \in 0..n : /\ f[k] \in SUBSET X /\ first \subseteq f[k]
                              /\ step[f[k]] = f[k] \/ Cardinality(f[k]) >= k + 1}
<1>1. n \in Nat
  BY FS_CardinalityType
<1>2. \A S \in SUBSET X : IsFiniteSet(S) /\ Cardinality(S) \in Nat /\ Cardinality(S) <= n
  BY FS_Subset, FS_CardinalityType
<1>3. 0 \in G
  <2>1. f[0] = first
    BY <1>1 DEF IsIteration
  <2>2. Cardinality(first) >= 1
    BY <1>2, FS_EmptySet
  <2>3. QED BY <1>1, <2>1, <2>2
<1>4. ASSUME NEW k \in 0..(n - 1), k \in G PROVE k + 1 \in G
  <2>1. k + 1 \in 0..n /\ k + 1 # 0 /\ (k + 1) - 1 = k
    BY <1>1
  <2>2. f[k + 1] = step[f[k]]
    BY <2>1 DEF IsIteration
  <2>3. f[k + 1] \in SUBSET X /\ first \subseteq f[k + 1] /\ f[k] \subseteq f[k + 1]
    BY <1>4, <2>2
  <2>4. CASE step[f[k]] = f[k]
    <3>1. f[k + 1] = f[k]
      BY <2>2, <2>4
    <3>2. step[f[k + 1]] = f[k + 1]
      BY <2>4, <3>1
    <3>3. QED BY <2>1, <2>3, <3>2
  <2>5. CASE step[f[k]] # f[k]
    <3>1. Cardinality(f[k]) >= k + 1
      BY <1>4, <2>5
    <3>2. f[k] # f[k + 1]
      BY <2>2, <2>5
    <3>3. Cardinality(f[k]) <= Cardinality(f[k + 1]) /\ Cardinality(f[k + 1]) # Cardinality(f[k])
      BY <1>2, <2>3, <3>2, FS_Subset
    <3>4. Cardinality(f[k + 1]) >= (k + 1) + 1
      BY <1>2, <1>4, <2>3, <3>1, <3>3
    <3>5. QED BY <2>1, <2>3, <3>4
  <2>6. QED BY <2>4, <2>5
<1>5. 0..n \subseteq G
  <2> HIDE DEF G, n
  <2>1. QED BY <1>1, <1>3, <1>4, Upward
<1>6. n \in G
  BY <1>1, <1>5
<1>7. step[f[n]] = f[n]
  <2>1. f[n] \in SUBSET X
    BY <1>6
  <2>2. Cardinality(f[n]) \in Nat /\ Cardinality(f[n]) <= n
    BY <1>2, <2>1
  <2>3. QED BY <1>1, <1>6, <2>2
<1>8. QED BY <1>6, <1>7

-----------------------------------------------------------------------------
(* Types.                                                                  *)

Typed(s) ==
    /\ s.runs \in Images
    /\ s.inode \in [Inodes -> Inode]
    /\ s.iused \in SUBSET Inodes
    /\ s.content \in [Runs -> Content]
    /\ s.rused \in SUBSET Runs

Opened == [runs : Images, inode : [Inodes -> Inode], iused : SUBSET Inodes,
           content : [Runs -> Content], rused : SUBSET Runs, past : Seq(Disk)]

LEMMA DiskTyped == \A s \in Disk : Typed(s)
  BY DEF Disk, Typed

LEMMA OpenedTyped == \A s \in Opened : Typed(s)
  BY DEF Opened, Typed

LEMMA InodeTyped ==
    ASSUME NEW s, Typed(s), NEW i \in Inodes
    PROVE  /\ s.inode[i] \in Inode
           /\ s.inode[i].kind \in Kinds /\ s.inode[i].nlink \in Int
           /\ s.inode[i].size \in 0..MaxBlks /\ s.inode[i].run \in Runs \cup {0}
<1>1. s.inode[i] \in Inode
  BY DEF Typed
<1>2. QED BY <1>1 DEF Inode

LEMMA BlockTyped ==
    ASSUME NEW b \in Blocks
    PROVE  DOMAIN b \subseteq Names /\ (\A n \in DOMAIN b : b[n] \in Inodes)
<1>1. PICK D \in SUBSET Names : b \in [D -> Inodes]
  BY DEF Blocks
<1>2. QED BY <1>1

LEMMA ContentTyped ==
    ASSUME NEW c \in Content
    PROVE  /\ c.blocks \in Seq(Blocks) /\ Len(c.blocks) \in Nat
           /\ DOMAIN c.blocks = 1..Len(c.blocks)
           /\ c.dotdot \in Inodes \cup {0}
           /\ \A k \in 1..Len(c.blocks) : c.blocks[k] \in Blocks
<1>1. c.blocks \in Seq(Blocks) /\ c.dotdot \in Inodes \cup {0}
  BY DEF Content
<1>2. QED BY <1>1

LEMMA RootInode == Root \in Inodes /\ 0 \notin Inodes /\ 0 \notin Runs
  BY NamespaceAssumption

-----------------------------------------------------------------------------
(* What the walk from the root reaches.                                    *)

\* Directories have storage.
Stored(s) == \A d \in Inodes : IsDir(s, d) => s.inode[d].run \in Runs

LEMMA EntryTyped ==
    ASSUME NEW s, Typed(s), Stored(s), NEW d \in Inodes, IsDir(s, d),
           NEW e \in ListOf(s, s.inode[d])
    PROVE  /\ e = <<e[1], e[2]>> /\ e[1] \in Names /\ e[2] \in Inodes
           /\ \E k \in 1..s.inode[d].size \cap DOMAIN InDir(s, d).blocks :
                 e[1] \in DOMAIN InDir(s, d).blocks[k] /\ e[2] = InDir(s, d).blocks[k][e[1]]
<1>1. PICK k \in 1..s.inode[d].size \cap DOMAIN InDir(s, d).blocks :
         e \in {<<n, InDir(s, d).blocks[k][n]>> : n \in DOMAIN InDir(s, d).blocks[k]}
  BY DEF ListOf, InDir
<1>2. PICK n \in DOMAIN InDir(s, d).blocks[k] : e = <<n, InDir(s, d).blocks[k][n]>>
  BY <1>1
<1>3. InDir(s, d) \in Content
  BY DEF Typed, Stored, InDir
<1>4. InDir(s, d).blocks[k] \in Blocks
  BY <1>1, <1>3, ContentTyped
<1>5. n \in Names /\ InDir(s, d).blocks[k][n] \in Inodes
  BY <1>4, BlockTyped
<1>6. QED BY <1>1, <1>2, <1>5

\* The inodes the directories of S name.
Named(s, S) == {e[3] : e \in UNION {EdgesOf(s, d) : d \in {x \in S : IsDir(s, x)}}}
Upto(s) ==
    LET upto[k \in 0..Cardinality(Inodes)] ==
            IF k = 0 THEN {Root}
            ELSE upto[k - 1] \cup
                 {e[3] : e \in UNION {EdgesOf(s, d) : d \in {x \in upto[k - 1] : IsDir(s, x)}}}
    IN  upto

Closed(s, S) == \A d \in S : IsDir(s, d) => \A e \in ListOf(s, s.inode[d]) : e[2] \in S

LEMMA NamedMembers ==
    ASSUME NEW s, NEW S, NEW i
    PROVE  i \in Named(s, S) <=>
              \E d \in S : IsDir(s, d) /\ \E e \in ListOf(s, s.inode[d]) : i = e[2]
<1>1. ASSUME i \in Named(s, S)
      PROVE  \E d \in S : IsDir(s, d) /\ \E e \in ListOf(s, s.inode[d]) : i = e[2]
  <2>1. PICK x \in UNION {EdgesOf(s, d) : d \in {y \in S : IsDir(s, y)}} : i = x[3]
    BY <1>1 DEF Named
  <2>2. PICK d \in {y \in S : IsDir(s, y)} : x \in EdgesOf(s, d)
    BY <2>1
  <2>3. PICK e \in ListOf(s, s.inode[d]) : x = <<d, e[1], e[2]>>
    BY <2>2 DEF EdgesOf
  <2>4. QED BY <2>1, <2>2, <2>3
<1>2. ASSUME NEW d \in S, IsDir(s, d), NEW e \in ListOf(s, s.inode[d]), i = e[2]
      PROVE  i \in Named(s, S)
  <2>1. <<d, e[1], e[2]>> \in EdgesOf(s, d)
    BY <1>2 DEF EdgesOf
  <2>2. <<d, e[1], e[2]>> \in UNION {EdgesOf(s, x) : x \in {y \in S : IsDir(s, y)}}
    BY <1>2, <2>1
  <2>3. <<d, e[1], e[2]>>[3] = i
    BY <1>2
  <2>4. QED BY <2>2, <2>3 DEF Named
<1>3. QED BY <1>1, <1>2

LEMMA ReachableFacts ==
    ASSUME NEW s, Typed(s), Stored(s)
    PROVE  /\ Reachable(s) \in SUBSET Inodes /\ Root \in Reachable(s)
           /\ Closed(s, Reachable(s))
           /\ \A S : Root \in S /\ Closed(s, S) => Reachable(s) \subseteq S
<1> DEFINE n == Cardinality(Inodes)
           step == [S \in SUBSET Inodes |-> S \cup Named(s, S)]
           Is(f) == f = [k \in 0..n |-> IF k = 0 THEN {Root} ELSE f[k - 1] \cup Named(s, f[k - 1])]
<1>1. IsFiniteSet(Inodes) /\ n \in Nat
  BY NamespaceAssumption, FS_CardinalityType
<1>2. \A S \in SUBSET Inodes : step[S] \in SUBSET Inodes /\ S \subseteq step[S]
  <2>1. SUFFICES ASSUME NEW S \in SUBSET Inodes PROVE Named(s, S) \subseteq Inodes
    OBVIOUS
  <2>2. ASSUME NEW i \in Named(s, S) PROVE i \in Inodes
    <3>1. PICK d \in S : IsDir(s, d) /\ \E e \in ListOf(s, s.inode[d]) : i = e[2]
      BY NamedMembers
    <3>2. PICK e \in ListOf(s, s.inode[d]) : i = e[2]
      BY <3>1
    <3>3. QED BY <3>1, <3>2, EntryTyped
  <2>3. QED BY <2>2
<1>3. \E f : Is(f)
  <2>1. PICK f : IsIteration(f, n, {Root}, step)
    <3> HIDE DEF step, n
    <3>1. QED BY <1>1, IterationExists
  <2> DEFINE P == SUBSET Inodes
  <2>2. {Root} \in P /\ \A S \in P : step[S] \in P
    BY <1>2, RootInode
  <2>3. \A k \in 0..n : f[k] \in P
    <3> HIDE DEF P, step, n
    <3>1. QED BY <1>1, <2>1, <2>2, IterationIn
  <2>4. ASSUME NEW k \in 0..n
        PROVE  f[k] = IF k = 0 THEN {Root} ELSE f[k - 1] \cup Named(s, f[k - 1])
    <3>1. k # 0 => k - 1 \in 0..n
      BY <1>1
    <3>2. k # 0 => step[f[k - 1]] = f[k - 1] \cup Named(s, f[k - 1])
      BY <2>3, <3>1
    <3>3. f[k] = IF k = 0 THEN {Root} ELSE step[f[k - 1]]
      BY <2>1 DEF IsIteration
    <3>4. QED BY <3>2, <3>3
  <2>5. Is(f)
    <3>1. f = [k \in 0..n |-> IF k = 0 THEN {Root} ELSE step[f[k - 1]]]
      BY <2>1 DEF IsIteration
    <3>2. f = [k \in 0..n |-> f[k]]
      BY <3>1
    <3>3. QED BY <2>4, <3>2
  <2>6. QED BY <2>5
<1>4. Upto(s) = CHOOSE f : Is(f)
  BY DEF Upto, Named
<1>5. Is(Upto(s))
  <2> HIDE DEF Is
  <2>1. QED BY <1>3, <1>4
<1>6. PICK f : Is(f) /\ f = Upto(s)
  <2> HIDE DEF Is
  <2>1. QED BY <1>5
<1>7. \A k \in 0..n : f[k] \in SUBSET Inodes
  <2> DEFINE G == {k \in 0..n : f[k] \in SUBSET Inodes}
  <2>1. 0 \in G
    BY <1>1, <1>6, RootInode
  <2>2. ASSUME NEW k \in 0..(n - 1), k \in G PROVE k + 1 \in G
    <3>1. k + 1 \in 0..n /\ k + 1 # 0 /\ (k + 1) - 1 = k
      BY <1>1
    <3>2. f[k + 1] = f[k] \cup Named(s, f[k])
      BY <1>6, <3>1
    <3>3. QED BY <1>2, <2>2, <3>1, <3>2
  <2>3. 0..n \subseteq G
    <3> HIDE DEF G, n
    <3>1. QED BY <1>1, <2>1, <2>2, Upward
  <2>4. QED BY <2>3
<1>8. IsIteration(f, n, {Root}, step)
  <2>1. ASSUME NEW k \in 0..n
        PROVE  f[k] = IF k = 0 THEN {Root} ELSE step[f[k - 1]]
    <3>1. k # 0 => k - 1 \in 0..n
      BY <1>1
    <3>2. k # 0 => step[f[k - 1]] = f[k - 1] \cup Named(s, f[k - 1])
      BY <1>7, <3>1
    <3>3. f[k] = IF k = 0 THEN {Root} ELSE f[k - 1] \cup Named(s, f[k - 1])
      BY <1>6
    <3>4. QED BY <3>2, <3>3
  <2>2. f = [k \in 0..n |-> f[k]]
    BY <1>6
  <2>3. f = [k \in 0..n |-> IF k = 0 THEN {Root} ELSE step[f[k - 1]]]
    BY <2>1, <2>2
  <2>4. QED BY <2>3 DEF IsIteration
<1>9. f[n] \in SUBSET Inodes /\ {Root} \subseteq f[n] /\ step[f[n]] = f[n]
  <2>1. {Root} \in SUBSET Inodes /\ {Root} # {}
    BY RootInode
  <2> HIDE DEF step
  <2>2. QED BY <1>1, <1>2, <1>8, <2>1, IterationHalts
<1>10. Reachable(s) = f[n]
  BY <1>6 DEF Reachable, Upto
<1>11. Closed(s, f[n])
  <2>1. Named(s, f[n]) \subseteq f[n]
    BY <1>9
  <2>2. QED BY <2>1, NamedMembers DEF Closed
<1>12. ASSUME NEW S, Root \in S, Closed(s, S) PROVE f[n] \subseteq S
  <2> DEFINE P == (SUBSET S) \cap (SUBSET Inodes)
  <2>1. {Root} \in P
    BY <1>12, RootInode
  <2>2. ASSUME NEW Q \in P PROVE step[Q] \in P
    <3>1. Named(s, Q) \subseteq S
      BY <1>12, NamedMembers DEF Closed
    <3>2. QED BY <1>2, <3>1
  <2>3. \A k \in 0..n : f[k] \in P
    <3> HIDE DEF P, step, n
    <3>1. QED BY <1>1, <1>8, <2>1, <2>2, IterationIn
  <2>4. QED BY <1>1, <2>3
<1>13. QED BY <1>9, <1>10, <1>11, <1>12

-----------------------------------------------------------------------------
(* On a sound image the walk reaches the used inodes and lists the entries. *)

LEMMA Triple ==
    ASSUME NEW T, T \subseteq Edge, NEW e \in T
    PROVE  /\ e = <<e[1], e[2], e[3]>>
           /\ e[1] \in Inodes /\ e[2] \in Names /\ e[3] \in Inodes
  BY DEF Edge

LEMMA OwnedStored == \A s : Owned(s) => Stored(s)
  BY DEF Owned, Stored

LEMMA ListedFacts ==
    ASSUME NEW s, Typed(s), NEW T, Lists(s, T), Owned(s), NEW d \in Inodes, IsDir(s, d)
    PROVE  /\ \A e \in ListOf(s, s.inode[d]) :
                 e = <<e[1], e[2]>> /\ <<d, e[1], e[2]>> \in T
           /\ \A n \in Names, i \in Inodes :
                 <<d, n, i>> \in T => <<n, i>> \in ListOf(s, s.inode[d])
<1>1. ASSUME NEW e \in ListOf(s, s.inode[d])
      PROVE  e = <<e[1], e[2]>> /\ <<d, e[1], e[2]>> \in T
  <2>1. /\ e = <<e[1], e[2]>> /\ e[1] \in Names /\ e[2] \in Inodes
        /\ \E k \in 1..s.inode[d].size \cap DOMAIN InDir(s, d).blocks :
              e[1] \in DOMAIN InDir(s, d).blocks[k] /\ e[2] = InDir(s, d).blocks[k][e[1]]
    BY OwnedStored, EntryTyped
  <2>2. Has(InDir(s, d), s.inode[d].size, e[1], e[2])
    BY <2>1 DEF Has
  <2>3. QED BY <2>1, <2>2 DEF Lists
<1>2. ASSUME NEW n \in Names, NEW i \in Inodes, <<d, n, i>> \in T
      PROVE  <<n, i>> \in ListOf(s, s.inode[d])
  <2>1. Has(InDir(s, d), s.inode[d].size, n, i)
    BY <1>2 DEF Lists
  <2>2. PICK k \in 1..s.inode[d].size :
           n \in DOMAIN InDir(s, d).blocks[k] /\ InDir(s, d).blocks[k][n] = i
    BY <2>1 DEF Has
  <2>3. InDir(s, d) \in Content /\ Neat(InDir(s, d), s.inode[d].size)
    BY DEF Typed, Owned, InDir
  <2>4. k \in DOMAIN InDir(s, d).blocks
    BY <2>3, ContentTyped DEF Neat
  <2>5. PICK B : B = InDir(s, d).blocks
    OBVIOUS
  <2>6. ListOf(s, s.inode[d]) =
           UNION {{<<m, B[j][m]>> : m \in DOMAIN B[j]} : j \in 1..s.inode[d].size \cap DOMAIN B}
    BY ONLY <2>5 DEF ListOf, InDir
  <2>7. k \in 1..s.inode[d].size \cap DOMAIN B /\ n \in DOMAIN B[k] /\ B[k][n] = i
    BY <2>2, <2>4, <2>5
  <2>8. <<n, i>> \in {<<m, B[k][m]>> : m \in DOMAIN B[k]}
    BY ONLY <2>7
  <2>9. QED BY ONLY <2>6, <2>7, <2>8
<1>3. QED BY <1>1, <1>2

LEMMA LookupFacts ==
    ASSUME NEW s, Typed(s), NEW T, Lists(s, T), Owned(s), NEW d \in Inodes, IsDir(s, d),
           NEW n \in Names
    PROVE  /\ Lookup(s, d, n) \in SUBSET Inodes
           /\ \A i \in Inodes : i \in Lookup(s, d, n) <=> <<d, n, i>> \in T
<1>1. ASSUME NEW i \in Lookup(s, d, n) PROVE i \in Inodes /\ <<d, n, i>> \in T
  <2>1. PICK e \in ListOf(s, s.inode[d]) : e[1] = n /\ i = e[2]
    BY DEF Lookup
  <2>2. <<d, n, i>> \in T
    BY <2>1, ListedFacts
  <2>3. QED BY <2>2 DEF Lists, Edge
<1>2. ASSUME NEW i \in Inodes, <<d, n, i>> \in T PROVE i \in Lookup(s, d, n)
  <2>1. <<n, i>> \in ListOf(s, s.inode[d])
    BY <1>2, ListedFacts
  <2>2. <<n, i>> \in {x \in ListOf(s, s.inode[d]) : x[1] = n} /\ i = <<n, i>>[2]
    BY <2>1
  <2>3. QED BY <2>2 DEF Lookup
<1>3. QED BY <1>1, <1>2

LEMMA KindFacts == \A s, i : i \in Inodes => Kind(s)[i] = s.inode[i].kind
  BY DEF Kind

LEMMA WalkFacts ==
    ASSUME NEW s, Typed(s), NEW T, NEW U, Sound(s, T, U)
    PROVE  /\ Reachable(s) = s.iused
           /\ Dirs(s) = {d \in Inodes : IsDir(s, d)}
           /\ Tree(s) = T
<1> DEFINE R == Reachable(s)
<1>1. Lists(s, T) /\ Owned(s) /\ Shape(T, Kind(s), U) /\ T \subseteq Edge
  BY DEF Sound, Lists
<1>2. /\ R \in SUBSET Inodes /\ Root \in R /\ Closed(s, R)
      /\ \A S : Root \in S /\ Closed(s, S) => R \subseteq S
  BY <1>1, OwnedStored, ReachableFacts
<1>3. \A d \in Inodes, n \in Names, i \in Inodes :
         <<d, n, i>> \in T => IsDir(s, d) /\ i \in s.iused /\ (d \in R => i \in R)
  <2>1. SUFFICES ASSUME NEW d \in Inodes, NEW n \in Names, NEW i \in Inodes, <<d, n, i>> \in T
                 PROVE  IsDir(s, d) /\ i \in s.iused /\ (d \in R => i \in R)
    OBVIOUS
  <2>2. IsDir(s, d)
    BY <1>1, <2>1 DEF Lists
  <2>3. s.inode[i].kind # "free"
    BY <1>1, <2>1, KindFacts DEF Shape
  <2>4. i \in s.iused
    BY <1>1, <2>3 DEF Owned, Cleared
  <2>5. d \in R => i \in R
    <3>1. <<n, i>> \in ListOf(s, s.inode[d])
      BY <1>1, <2>1, <2>2, ListedFacts
    <3>2. d \in R => <<n, i>>[2] \in R
      BY <1>2, <2>2, <3>1 DEF Closed
    <3>3. QED BY <3>2
  <2>6. QED BY <2>2, <2>4, <2>5
<1>4. R \subseteq s.iused
  <2>1. Root \in s.iused
    <3>1. s.inode[Root].kind = "dir"
      BY <1>1, RootInode, KindFacts DEF Shape
    <3>2. QED BY <1>1, <3>1, RootInode DEF Owned, Cleared
  <2>2. Closed(s, s.iused)
    <3>1. ASSUME NEW d \in s.iused, IsDir(s, d), NEW e \in ListOf(s, s.inode[d])
          PROVE  e[2] \in s.iused
      <4>1. d \in Inodes
        BY DEF Typed
      <4>2. <<d, e[1], e[2]>> \in T
        BY <1>1, <3>1, <4>1, ListedFacts
      <4>3. e[1] \in Names /\ e[2] \in Inodes
        BY <1>1, <4>2 DEF Edge
      <4>4. QED BY <1>3, <4>1, <4>2, <4>3
    <3>2. QED BY <3>1 DEF Closed
  <2>3. QED BY <1>2, <2>1, <2>2
<1>5. \A d \in Inodes : IsDir(s, d) => d \in R
  <2> DEFINE S == {d \in Inodes : IsDir(s, d) /\ d \notin R}
  <2>1. ASSUME NEW d \in S PROVE Kind(s)[d] = "dir" /\ d # Root /\ U[d] \in S
    <3>1. Kind(s)[d] = "dir" /\ d # Root
      BY <1>2, KindFacts DEF IsDir
    <3>2. PICK p \in Inodes, n \in Names : <<p, n, d>> \in T
      BY <1>1, <3>1 DEF Shape
    <3>3. p = U[d]
      BY <1>1, <3>1, <3>2 DEF Shape
    <3>4. IsDir(s, p) /\ p \notin R
      BY <1>3, <3>2
    <3>5. QED BY <3>1, <3>3, <3>4
  <2>2. S \in SUBSET Inodes /\ Rooted(Kind(s), U)
    BY <1>1 DEF Shape
  <2>3. S = {}
    <3> HIDE DEF S
    <3>1. QED BY <2>1, <2>2 DEF Rooted
  <2>4. QED BY <2>3
<1>6. s.iused \subseteq R
  <2>1. ASSUME NEW i \in s.iused PROVE i \in R
    <3>1. i \in Inodes /\ Kind(s)[i] # "free"
      BY <1>1, KindFacts DEF Typed, Owned
    <3>2. CASE i = Root
      BY <1>2, <3>2
    <3>3. CASE i # Root
      <4>1. PICK d \in Inodes, n \in Names : <<d, n, i>> \in T
        BY <1>1, <3>1, <3>3 DEF Shape
      <4>2. QED BY <1>3, <1>5, <3>1, <4>1
    <3>4. QED BY <3>2, <3>3
  <2>2. QED BY <2>1
<1>7. Dirs(s) = {d \in Inodes : IsDir(s, d)}
  BY <1>2, <1>5 DEF Dirs
<1>8. Tree(s) = T
  <2>1. ASSUME NEW x \in Tree(s) PROVE x \in T
    <3>1. PICK d \in Dirs(s) : x \in EdgesOf(s, d)
      BY DEF Tree
    <3>2. PICK e \in ListOf(s, s.inode[d]) : x = <<d, e[1], e[2]>>
      BY <3>1 DEF EdgesOf
    <3>3. d \in Inodes /\ IsDir(s, d)
      BY <1>7
    <3>4. QED BY <1>1, <3>2, <3>3, ListedFacts
  <2>2. ASSUME NEW x \in T PROVE x \in Tree(s)
    <3>1. x = <<x[1], x[2], x[3]>> /\ x[1] \in Inodes /\ x[2] \in Names /\ x[3] \in Inodes
      BY <1>1, Triple
    <3>2. IsDir(s, x[1])
      BY <1>3, <2>2, <3>1
    <3>3. <<x[2], x[3]>> \in ListOf(s, s.inode[x[1]])
      BY <1>1, <2>2, <3>1, <3>2, ListedFacts
    <3>4. x \in EdgesOf(s, x[1])
      BY <3>1, <3>3 DEF EdgesOf
    <3>5. x[1] \in Dirs(s)
      BY <1>7, <3>1, <3>2
    <3>6. QED BY <3>4, <3>5 DEF Tree
  <2>3. QED BY <2>1, <2>2
<1>9. QED BY <1>4, <1>6, <1>7, <1>8

-----------------------------------------------------------------------------
(* The invariant gives the properties.                                     *)

LEMMA SoundTree ==
    ASSUME NEW U, Typed(disk), Sound(disk, expected, U)
    PROVE  TreeAsExpected /\ OneParent
<1> DEFINE T == expected
<1>1. /\ Tree(disk) = T /\ Dirs(disk) = {d \in Inodes : IsDir(disk, d)}
      /\ Shape(T, Kind(disk), U) /\ T \subseteq Edge /\ Ups(disk, U)
  BY WalkFacts DEF Sound, Lists
<1>2. ASSUME NEW d \in Dirs(disk)
      PROVE  IF d = Root THEN {e \in T : e[3] = d} = {} /\ InDir(disk, d).dotdot = Root
             ELSE \E n \in Names : {e \in T : e[3] = d} = {<<InDir(disk, d).dotdot, n, d>>}
  <2>1. d \in Inodes /\ IsDir(disk, d) /\ Kind(disk)[d] = "dir" /\ InDir(disk, d).dotdot = U[d]
    BY <1>1, KindFacts DEF IsDir, Ups
  <2>2. \A e \in T : e = <<e[1], e[2], e[3]>> /\ e[1] \in Inodes /\ e[2] \in Names /\ e[3] \in Inodes
    BY <1>1, Triple
  <2>3. CASE d = Root
    <3>1. \A e \in T : e[3] # Root
      BY <1>1, <2>2 DEF Shape
    <3>2. U[Root] = Root
      BY <1>1 DEF Shape
    <3>3. QED BY <2>1, <2>3, <3>1, <3>2
  <2>4. CASE d # Root
    <3>1. PICK p \in Inodes, n \in Names : <<p, n, d>> \in T
      BY <1>1, <2>1, <2>4 DEF Shape
    <3>2. p = U[d]
      BY <1>1, <2>1, <3>1 DEF Shape
    <3>3. ASSUME NEW e \in T, e[3] = d PROVE e = <<U[d], n, d>>
      <4>1. e[1] = U[d] /\ e[2] = n
        BY <1>1, <2>1, <2>2, <3>1, <3>3 DEF Shape
      <4>2. QED BY <2>2, <3>3, <4>1
    <3>4. {e \in T : e[3] = d} = {<<U[d], n, d>>}
      BY <3>1, <3>2, <3>3
    <3>5. QED BY <2>1, <2>4, <3>4
  <2>5. QED BY <2>3, <2>4
<1>3. TreeAsExpected
  BY <1>1 DEF TreeAsExpected
<1>4. OneParent
  BY <1>1, <1>2 DEF OneParent, InDir
<1>5. QED BY <1>3, <1>4

LEMMA SoundCounts ==
    ASSUME NEW U, Typed(disk), Sound(disk, expected, U)
    PROVE  CountsMatch
<1> DEFINE T == expected
<1>1. /\ Tree(disk) = T /\ Owned(disk) /\ T \subseteq Edge
      /\ Counts(T, Kind(disk), LinkOf(disk))
  BY WalkFacts DEF Sound, Lists
<1>2. ASSUME NEW i \in disk.iused
      PROVE  disk.inode[i].nlink =
                IF IsDir(disk, i) THEN 2 + Cardinality({e \in T : e[1] = i /\ IsDir(disk, e[3])})
                ELSE Cardinality({e \in T : e[3] = i})
  <2>1. i \in Inodes /\ Kind(disk)[i] # "free"
    BY <1>1, KindFacts DEF Typed, Owned
  <2>2. LinkOf(disk)[i] = IF Kind(disk)[i] = "dir" THEN 2 + Cardinality(Subdirs(T, Kind(disk), i))
                          ELSE Cardinality(NamesOf(T, i))
    BY <1>1, <2>1 DEF Counts
  <2>3. Subdirs(T, Kind(disk), i) = {e \in T : e[1] = i /\ IsDir(disk, e[3])}
    <3>1. \A e \in T : Kind(disk)[e[3]] = disk.inode[e[3]].kind
      BY <1>1, Triple, KindFacts
    <3>2. QED BY <3>1 DEF Subdirs, IsDir
  <2>4. LinkOf(disk)[i] = disk.inode[i].nlink /\ (Kind(disk)[i] = "dir" <=> IsDir(disk, i))
    BY <2>1, KindFacts DEF LinkOf, IsDir
  <2>5. QED BY <2>2, <2>3, <2>4 DEF NamesOf
<1>3. QED BY <1>1, <1>2 DEF CountsMatch

LEMMA SoundStorage ==
    ASSUME NEW U, Typed(disk), Sound(disk, expected, U)
    PROVE  NoOrphans /\ StorageOwned
<1>1. /\ Reachable(disk) = disk.iused /\ Owned(disk)
      /\ Dirs(disk) = {d \in Inodes : IsDir(disk, d)}
  BY WalkFacts DEF Sound
<1> DEFINE Holders == {i \in Inodes : disk.inode[i].run # 0}
<1>2. disk.rused = {disk.inode[i].run : i \in Holders}
  <2>1. ASSUME NEW r \in disk.rused PROVE r \in {disk.inode[i].run : i \in Holders}
    <3>1. r \in Runs /\ r # 0
      BY RootInode DEF Typed
    <3>2. PICK i \in Inodes : disk.inode[i].run = r
      BY <1>1, <2>1, <3>1 DEF Owned
    <3>3. QED BY <3>1, <3>2
  <2>2. ASSUME NEW i \in Holders PROVE disk.inode[i].run \in disk.rused
    <3>1. disk.inode[i].run \in Runs
      BY InodeTyped
    <3>2. QED BY <1>1, <3>1 DEF Owned
  <2>3. QED BY <2>1, <2>2
<1>3. \A i, j \in Holders : disk.inode[i].run = disk.inode[j].run => i = j
  BY <1>1 DEF Owned
<1>4. \A i \in Dirs(disk) : i \in Holders
  BY <1>1, RootInode DEF Owned
<1>5. QED BY <1>1, <1>2, <1>3, <1>4 DEF NoOrphans, StorageOwned

LEMMA InvariantImplies == IInv => KeepsTree /\ KeepsCounts /\ KeepsStorage
<1>1. SUFFICES ASSUME IInv PROVE KeepsTree /\ KeepsCounts /\ KeepsStorage
  OBVIOUS
<1>2. TypeOK /\ Typed(disk)
  BY <1>1, DiskTyped DEF IInv, TypeOK
<1>3. ASSUME damage = "none"
      PROVE  TreeAsExpected /\ OneParent /\ CountsMatch /\ NoOrphans /\ StorageOwned
  <2>1. PICK U \in [Inodes -> Inodes] : Sound(disk, expected, U)
    BY <1>1, <1>3 DEF IInv
  <2>2. QED BY <1>2, <2>1, SoundTree, SoundCounts, SoundStorage
<1>4. QED BY <1>2, <1>3 DEF KeepsTree, KeepsCounts, KeepsStorage

-----------------------------------------------------------------------------
(* Trees: what adding, removing and moving an entry does to Shape and       *)
(* Counts.                                                                  *)

TreeOK(T, K, U, C) ==
    /\ T \subseteq Edge
    /\ K \in [Inodes -> Kinds] /\ U \in [Inodes -> Inodes] /\ C \in [Inodes -> Int]
    /\ Shape(T, K, U) /\ Counts(T, K, C)

LEMMA EdgeFinite == \A T : T \subseteq Edge => IsFiniteSet(T)
<1>1. IsFiniteSet(Inodes) /\ IsFiniteSet(Names)
  BY NamespaceAssumption
<1>2. IsFiniteSet(Names \X Inodes)
  BY <1>1, FS_Product
<1>3. IsFiniteSet(Inodes \X (Names \X Inodes))
  BY <1>1, <1>2, FS_Product
<1>4. IsFiniteSet(Edge)
  <2> DEFINE B == Inodes \X (Names \X Inodes)
             f == [y \in B |-> <<y[1], y[2][1], y[2][2]>>]
  <2>1. f \in [B -> Edge]
    BY DEF Edge
  <2>2. ASSUME NEW e \in Edge PROVE \E y \in B : f[y] = e
    <3>1. /\ e = <<e[1], e[2], e[3]>> /\ e[1] \in Inodes /\ e[2] \in Names /\ e[3] \in Inodes
      BY DEF Edge
    <3>2. <<e[1], <<e[2], e[3]>>>> \in B
      BY <3>1
    <3>3. f[<<e[1], <<e[2], e[3]>>>>] = e
      BY <3>1, <3>2
    <3>4. QED BY <3>2, <3>3
  <2>3. f \in Surjection(B, Edge)
    BY <2>1, <2>2 DEF Surjection
  <2> HIDE DEF f, B
  <2>4. IsFiniteSet(B)
    BY <1>3 DEF B
  <2>5. QED BY <2>3, <2>4, FS_Surjection
<1>5. QED BY <1>4, FS_Subset

\* V has one entry more than T, of i in p.
OneMore(T, V, K, p, i) ==
    /\ \A j : Cardinality(NamesOf(V, j)) = Cardinality(NamesOf(T, j)) + (IF j = i THEN 1 ELSE 0)
    /\ \A d : Cardinality(Subdirs(V, K, d)) =
                Cardinality(Subdirs(T, K, d)) + (IF d = p /\ K[i] = "dir" THEN 1 ELSE 0)
    /\ \A j : Cardinality(NamesOf(T, j)) \in Nat /\ Cardinality(Subdirs(T, K, j)) \in Nat

LEMMA CountOneMore ==
    ASSUME NEW T, T \subseteq Edge, NEW K, NEW p \in Inodes, NEW n \in Names, NEW i \in Inodes,
           <<p, n, i>> \notin T, NEW V, V = T \cup {<<p, n, i>>}
    PROVE  OneMore(T, V, K, p, i)
<1> DEFINE x == <<p, n, i>>
<1>1. x[1] = p /\ x[3] = i
  OBVIOUS
<1>2. ASSUME NEW j PROVE /\ IsFiniteSet(NamesOf(T, j)) /\ Cardinality(NamesOf(T, j)) \in Nat
                         /\ IsFiniteSet(Subdirs(T, K, j)) /\ Cardinality(Subdirs(T, K, j)) \in Nat
  <2>1. NamesOf(T, j) \subseteq Edge /\ Subdirs(T, K, j) \subseteq Edge
    BY DEF NamesOf, Subdirs
  <2>2. QED BY <2>1, EdgeFinite, FS_CardinalityType
<1>3. ASSUME NEW j PROVE Cardinality(NamesOf(V, j)) =
                            Cardinality(NamesOf(T, j)) + (IF j = i THEN 1 ELSE 0)
  <2>1. CASE j = i
    <3>1. NamesOf(V, j) = NamesOf(T, j) \cup {x} /\ x \notin NamesOf(T, j)
      BY <1>1, <2>1 DEF NamesOf
    <3>2. QED BY <1>2, <2>1, <3>1, FS_AddElement
  <2>2. CASE j # i
    <3>1. NamesOf(V, j) = NamesOf(T, j)
      BY <1>1, <2>2 DEF NamesOf
    <3>2. QED BY <1>2, <2>2, <3>1
  <2>3. QED BY <2>1, <2>2
<1>4. ASSUME NEW d
      PROVE  Cardinality(Subdirs(V, K, d)) =
                Cardinality(Subdirs(T, K, d)) + (IF d = p /\ K[i] = "dir" THEN 1 ELSE 0)
  <2>1. CASE d = p /\ K[i] = "dir"
    <3>1. Subdirs(V, K, d) = Subdirs(T, K, d) \cup {x} /\ x \notin Subdirs(T, K, d)
      BY <1>1, <2>1 DEF Subdirs
    <3>2. QED BY <1>2, <2>1, <3>1, FS_AddElement
  <2>2. CASE ~(d = p /\ K[i] = "dir")
    <3>1. Subdirs(V, K, d) = Subdirs(T, K, d)
      BY <1>1, <2>2 DEF Subdirs
    <3>2. QED BY <1>2, <2>2, <3>1
  <2>3. QED BY <2>1, <2>2
<1>5. QED BY <1>2, <1>3, <1>4 DEF OneMore

\* The kind of an inode without a name counts in no directory.
LEMMA CountNewKind ==
    ASSUME NEW T, T \subseteq Edge, NEW K, NEW L, NEW i \in Inodes,
           \A d \in Inodes, n \in Names : <<d, n, i>> \notin T,
           \A j \in Inodes : j # i => L[j] = K[j]
    PROVE  \A d : Subdirs(T, L, d) = Subdirs(T, K, d)
<1>1. \A e \in T : L[e[3]] = K[e[3]]
  BY Triple
<1>2. QED BY <1>1 DEF Subdirs

\* The parent of a directory is a directory, and no other one names it.
LEMMA ParentFacts ==
    ASSUME NEW T, NEW K, NEW U, NEW C, TreeOK(T, K, U, C), NEW d \in Inodes, K[d] = "dir", d # Root
    PROVE  U[d] \in Inodes /\ K[U[d]] = "dir" /\ \E n \in Names : <<U[d], n, d>> \in T
<1>1. PICK p \in Inodes, n \in Names : <<p, n, d>> \in T
  BY DEF TreeOK, Shape
<1>2. p = U[d]
  BY <1>1 DEF TreeOK, Shape
<1>3. K[p] = "dir"
  BY <1>1 DEF TreeOK, Shape
<1>4. QED BY <1>1, <1>2, <1>3

\* mkdir, create, mknod, symlink: a free inode becomes an object with a name.
\* The new inode i gets the name n in p.
AddsObject(T, K, U, C, p, n, i, L, D, V) ==
    /\ TreeOK(T, K, U, C) /\ p \in Inodes /\ n \in Names /\ i \in Inodes
    /\ K[p] = "dir" /\ K[i] = "free"
    /\ \A j \in Inodes : <<p, n, j>> \notin T
    /\ L \in [Inodes -> Kinds] /\ L[i] # "free" /\ \A j \in Inodes : j # i => L[j] = K[j]
    /\ D \in [Inodes -> Int] /\ D[i] = IF L[i] = "dir" THEN 2 ELSE 1
    /\ \A j \in Inodes : j # i => D[j] = C[j] + (IF j = p /\ L[i] = "dir" THEN 1 ELSE 0)
    /\ V = T \cup {<<p, n, i>>}

LEMMA TreeNewObject ==
    ASSUME NEW T, NEW K, NEW U, NEW C, NEW p, NEW n, NEW i, NEW L, NEW D, NEW V, AddsObject(T, K, U, C, p, n, i, L, D, V)
    PROVE  \E W \in [Inodes -> Inodes] :
              /\ TreeOK(V, L, W, D)
              /\ W[i] = p /\ \A j \in Inodes : j # i => W[j] = U[j]
<1> USE DEF AddsObject
<1> DEFINE W == [U EXCEPT ![i] = p]
<1>1. /\ W \in [Inodes -> Inodes] /\ W[i] = p /\ \A j \in Inodes : j # i => W[j] = U[j]
  BY DEF TreeOK
<1>2. i # Root /\ i # p /\ Root \in Inodes /\ Root # i
  BY RootInode DEF TreeOK, Shape
<1>3. \A d \in Inodes, m \in Names, j \in Inodes : <<d, m, j>> \in T => d # i /\ j # i
  BY DEF TreeOK, Shape
<1>4. V \subseteq Edge
  BY DEF TreeOK, Edge
<1>5. \A d \in Inodes, m \in Names, j \in Inodes :
         <<d, m, j>> \in V <=> <<d, m, j>> \in T \/ (d = p /\ m = n /\ j = i)
  OBVIOUS
<1>6. Rooted(L, W)
  <2>1. SUFFICES ASSUME NEW S \in SUBSET Inodes,
                        \A d \in S : L[d] = "dir" /\ d # Root /\ W[d] \in S
                 PROVE  S = {}
    BY DEF Rooted
  <2>2. \A d \in S \ {i} : K[d] = "dir" /\ d # Root /\ U[d] \in S \ {i}
    <3>1. SUFFICES ASSUME NEW d \in S \ {i}
                   PROVE  K[d] = "dir" /\ d # Root /\ U[d] \in S \ {i}
      OBVIOUS
    <3>2. K[d] = "dir" /\ d # Root /\ U[d] \in S
      BY <1>1, <2>1
    <3>3. K[U[d]] = "dir"
      BY <3>2, ParentFacts
    <3>4. QED BY <3>2, <3>3
  <2>3. S \ {i} \in SUBSET Inodes /\ Rooted(K, U)
    BY DEF TreeOK, Shape
  <2>4. S \ {i} = {}
    BY <2>2, <2>3 DEF Rooted
  <2>5. i \notin S
    <3>1. i \in S => p \in S \ {i}
      BY <1>1, <1>2, <2>1
    <3>2. QED BY <2>4, <3>1
  <2>6. QED BY <2>4, <2>5
<1>7. Shape(V, L, W)
  <2> HIDE DEF W
  <2>1. L[Root] = "dir" /\ W[Root] = Root
    BY <1>1, <1>2 DEF TreeOK, Shape
  <2>2. \A d \in Inodes, m \in Names, j \in Inodes :
           <<d, m, j>> \in V => L[d] = "dir" /\ L[j] # "free" /\ j # Root
    BY <1>2, <1>3, <1>5 DEF TreeOK, Shape
  <2>3. \A d \in Inodes, m \in Names, j, k \in Inodes :
           <<d, m, j>> \in V /\ <<d, m, k>> \in V => j = k
    BY <1>5 DEF TreeOK, Shape
  <2>4. \A j \in Inodes : L[j] # "free" /\ j # Root =>
           \E d \in Inodes, m \in Names : <<d, m, j>> \in V
    BY <1>5 DEF TreeOK, Shape
  <2>5. \A d, e \in Inodes, m, k \in Names, j \in Inodes :
           <<d, m, j>> \in V /\ <<e, k, j>> \in V /\ L[j] = "dir" => d = W[j] /\ m = k
    BY <1>1, <1>3, <1>5 DEF TreeOK, Shape
  <2>6. QED BY <1>6, <2>1, <2>2, <2>3, <2>4, <2>5 DEF Shape
<1>8. Counts(V, L, D)
  <2>1. T \subseteq Edge /\ <<p, n, i>> \notin T
    BY DEF TreeOK
  <2>2. OneMore(T, V, L, p, i)
    BY <2>1, CountOneMore
  <2>3. \A d : Subdirs(T, L, d) = Subdirs(T, K, d)
    BY <1>3, <2>1, CountNewKind
  <2>4. NamesOf(T, i) = {} /\ Subdirs(T, K, i) = {}
    <3>1. \A e \in T : e[1] # i /\ e[3] # i
      BY <1>3, <2>1, Triple
    <3>2. QED BY <3>1 DEF NamesOf, Subdirs
  <2>5. Cardinality({}) = 0
    BY FS_EmptySet
  <2>6. ASSUME NEW j \in Inodes, L[j] # "free"
        PROVE  D[j] = IF L[j] = "dir" THEN 2 + Cardinality(Subdirs(V, L, j))
                      ELSE Cardinality(NamesOf(V, j))
    <3>1. CASE j = i
      <4>1. Cardinality(NamesOf(T, i)) = 0 /\ Cardinality(Subdirs(T, L, i)) = 0
        BY <2>3, <2>4, <2>5
      <4>2. Cardinality(NamesOf(V, i)) = 1 /\ Cardinality(Subdirs(V, L, i)) = 0
        <5>1. /\ Cardinality(NamesOf(V, i)) = Cardinality(NamesOf(T, i)) + 1
              /\ Cardinality(Subdirs(V, L, i)) = Cardinality(Subdirs(T, L, i)) + 0
          BY <1>2, <2>2 DEF OneMore
        <5>2. QED BY <4>1, <5>1
      <4>3. QED BY <2>6, <3>1, <4>2
    <3>2. CASE j # i
      <4>1. C[j] = IF K[j] = "dir" THEN 2 + Cardinality(Subdirs(T, K, j))
                   ELSE Cardinality(NamesOf(T, j))
        BY <2>6, <3>2 DEF TreeOK, Counts
      <4>2. L[j] = K[j] /\ D[j] = C[j] + (IF j = p /\ L[i] = "dir" THEN 1 ELSE 0)
        BY <3>2
      <4>3. L[p] = "dir"
        BY <1>2
      <4>4. QED BY <2>2, <2>3, <3>2, <4>1, <4>2, <4>3 DEF OneMore
    <3>3. QED BY <3>1, <3>2
  <2>7. QED BY <2>6 DEF Counts
<1>9. TreeOK(V, L, W, D)
  BY <1>1, <1>4, <1>7, <1>8 DEF TreeOK
<1>10. QED BY <1>1, <1>9

\* link: an object that is no directory gets another name.
\* A file i gets another name n in p.
AddsName(T, K, U, C, p, n, i, D, V) ==
    /\ TreeOK(T, K, U, C) /\ p \in Inodes /\ n \in Names /\ i \in Inodes
    /\ K[p] = "dir" /\ K[i] # "free" /\ K[i] # "dir"
    /\ \A j \in Inodes : <<p, n, j>> \notin T
    /\ D \in [Inodes -> Int] /\ \A j \in Inodes : D[j] = C[j] + (IF j = i THEN 1 ELSE 0)
    /\ V = T \cup {<<p, n, i>>}

LEMMA TreeNewName ==
    ASSUME NEW T, NEW K, NEW U, NEW C, NEW p, NEW n, NEW i, NEW D, NEW V, AddsName(T, K, U, C, p, n, i, D, V)
    PROVE  TreeOK(V, K, U, D)
<1> USE DEF AddsName
<1>1. V \subseteq Edge /\ T \subseteq Edge /\ <<p, n, i>> \notin T
  BY DEF TreeOK, Edge
<1>2. \A d \in Inodes, m \in Names, j \in Inodes :
         <<d, m, j>> \in V <=> <<d, m, j>> \in T \/ (d = p /\ m = n /\ j = i)
  OBVIOUS
<1>3. i # Root
  BY DEF TreeOK, Shape
<1>4. Shape(V, K, U)
  <2>1. \A d \in Inodes, m \in Names, j \in Inodes :
           <<d, m, j>> \in V => K[d] = "dir" /\ K[j] # "free" /\ j # Root
    BY <1>2, <1>3 DEF TreeOK, Shape
  <2>2. \A d \in Inodes, m \in Names, j, k \in Inodes :
           <<d, m, j>> \in V /\ <<d, m, k>> \in V => j = k
    BY <1>2 DEF TreeOK, Shape
  <2>3. \A j \in Inodes : K[j] # "free" /\ j # Root =>
           \E d \in Inodes, m \in Names : <<d, m, j>> \in V
    BY <1>2 DEF TreeOK, Shape
  <2>4. \A d, e \in Inodes, m, k \in Names, j \in Inodes :
           <<d, m, j>> \in V /\ <<e, k, j>> \in V /\ K[j] = "dir" => d = U[j] /\ m = k
    BY <1>2 DEF TreeOK, Shape
  <2>5. QED BY <2>1, <2>2, <2>3, <2>4 DEF TreeOK, Shape
<1>5. OneMore(T, V, K, p, i)
  BY <1>1, CountOneMore
<1>6. ASSUME NEW j \in Inodes, K[j] # "free"
      PROVE  D[j] = IF K[j] = "dir" THEN 2 + Cardinality(Subdirs(V, K, j))
                    ELSE Cardinality(NamesOf(V, j))
  <2>1. C[j] = IF K[j] = "dir" THEN 2 + Cardinality(Subdirs(T, K, j))
               ELSE Cardinality(NamesOf(T, j))
    BY <1>6 DEF TreeOK, Counts
  <2>2. D[j] = C[j] + (IF j = i THEN 1 ELSE 0)
    OBVIOUS
  <2>3. /\ Cardinality(NamesOf(V, j)) = Cardinality(NamesOf(T, j)) + (IF j = i THEN 1 ELSE 0)
        /\ Cardinality(Subdirs(V, K, j)) = Cardinality(Subdirs(T, K, j)) + 0
        /\ Cardinality(NamesOf(T, j)) \in Nat /\ Cardinality(Subdirs(T, K, j)) \in Nat
    BY <1>5 DEF OneMore
  <2>4. QED BY <2>1, <2>2, <2>3
<1>7. Counts(V, K, D)
  BY <1>6 DEF Counts
<1>8. QED BY <1>1, <1>4, <1>7 DEF TreeOK

\* unlink of one of several names.
\* A file i that has other names loses the name n in p.
DropsName(T, K, U, C, p, n, i, D, V) ==
    /\ TreeOK(T, K, U, C) /\ p \in Inodes /\ n \in Names /\ i \in Inodes
    /\ <<p, n, i>> \in T /\ K[i] # "dir" /\ C[i] # 1
    /\ D \in [Inodes -> Int] /\ \A j \in Inodes : D[j] = C[j] - (IF j = i THEN 1 ELSE 0)
    /\ V = T \ {<<p, n, i>>}

LEMMA TreeLessName ==
    ASSUME NEW T, NEW K, NEW U, NEW C, NEW p, NEW n, NEW i, NEW D, NEW V, DropsName(T, K, U, C, p, n, i, D, V)
    PROVE  TreeOK(V, K, U, D)
<1> USE DEF DropsName
<1>1. V \subseteq Edge /\ <<p, n, i>> \notin V /\ T = V \cup {<<p, n, i>>} /\ T \subseteq Edge
  BY DEF TreeOK
<1>2. \A d \in Inodes, m \in Names, j \in Inodes :
         <<d, m, j>> \in V <=> <<d, m, j>> \in T /\ ~(d = p /\ m = n /\ j = i)
  OBVIOUS
<1>3. OneMore(V, T, K, p, i)
  BY <1>1, CountOneMore
<1>4. K[i] # "free"
  BY DEF TreeOK, Shape
<1>5. \E d \in Inodes, m \in Names : <<d, m, i>> \in V
  <2>1. C[i] = Cardinality(NamesOf(T, i))
    BY <1>4 DEF TreeOK, Counts
  <2>2. Cardinality(NamesOf(T, i)) = Cardinality(NamesOf(V, i)) + 1
    BY <1>3 DEF OneMore
  <2>3. Cardinality(NamesOf(V, i)) \in Nat
    BY <1>3 DEF OneMore
  <2>4. Cardinality(NamesOf(V, i)) # 0
    BY <2>1, <2>2, <2>3
  <2>5. NamesOf(V, i) # {}
    BY <2>4, FS_EmptySet
  <2>6. PICK e \in V : e[3] = i
    BY <2>5 DEF NamesOf
  <2>7. e = <<e[1], e[2], e[3]>> /\ e[1] \in Inodes /\ e[2] \in Names
    BY <1>1, <2>6, Triple
  <2>8. <<e[1], e[2], i>> \in V
    BY <2>6, <2>7
  <2>9. QED BY <2>7, <2>8
<1>6. Shape(V, K, U)
  <2>1. \A d \in Inodes, m \in Names, j \in Inodes :
           <<d, m, j>> \in V => K[d] = "dir" /\ K[j] # "free" /\ j # Root
    BY <1>2 DEF TreeOK, Shape
  <2>2. \A d \in Inodes, m \in Names, j, k \in Inodes :
           <<d, m, j>> \in V /\ <<d, m, k>> \in V => j = k
    BY <1>2 DEF TreeOK, Shape
  <2>3. \A j \in Inodes : K[j] # "free" /\ j # Root =>
           \E d \in Inodes, m \in Names : <<d, m, j>> \in V
    <3>1. ASSUME NEW j \in Inodes, K[j] # "free", j # Root, j # i
          PROVE  \E d \in Inodes, m \in Names : <<d, m, j>> \in V
      <4>1. \E d \in Inodes, m \in Names : <<d, m, j>> \in T
        BY <3>1 DEF TreeOK, Shape
      <4>2. QED BY <1>2, <3>1, <4>1
    <3>2. QED BY <1>5, <3>1
  <2>4. \A d, e \in Inodes, m, k \in Names, j \in Inodes :
           <<d, m, j>> \in V /\ <<e, k, j>> \in V /\ K[j] = "dir" => d = U[j] /\ m = k
    BY <1>2 DEF TreeOK, Shape
  <2>5. QED BY <2>1, <2>2, <2>3, <2>4 DEF TreeOK, Shape
<1>7. ASSUME NEW j \in Inodes, K[j] # "free"
      PROVE  D[j] = IF K[j] = "dir" THEN 2 + Cardinality(Subdirs(V, K, j))
                    ELSE Cardinality(NamesOf(V, j))
  <2>1. C[j] = IF K[j] = "dir" THEN 2 + Cardinality(Subdirs(T, K, j))
               ELSE Cardinality(NamesOf(T, j))
    BY <1>7 DEF TreeOK, Counts
  <2>2. D[j] = C[j] - (IF j = i THEN 1 ELSE 0)
    OBVIOUS
  <2>3. /\ Cardinality(NamesOf(T, j)) = Cardinality(NamesOf(V, j)) + (IF j = i THEN 1 ELSE 0)
        /\ Cardinality(Subdirs(T, K, j)) = Cardinality(Subdirs(V, K, j)) + 0
        /\ Cardinality(NamesOf(V, j)) \in Nat /\ Cardinality(Subdirs(V, K, j)) \in Nat
    BY <1>3 DEF OneMore
  <2>4. QED BY <2>1, <2>2, <2>3
<1>8. Counts(V, K, D)
  BY <1>7 DEF Counts
<1>9. QED BY <1>1, <1>6, <1>8 DEF TreeOK

\* unlink of the last name, and rmdir: the object goes with its name.
\* The inode i goes with its one name, n in p; a directory is empty.
DropsObject(T, K, U, C, p, n, i, L, D, V) ==
    /\ TreeOK(T, K, U, C) /\ p \in Inodes /\ n \in Names /\ i \in Inodes
    /\ <<p, n, i>> \in T
    /\ \A d \in Inodes, m \in Names : <<d, m, i>> \in T => d = p /\ m = n
    /\ \A m \in Names, j \in Inodes : <<i, m, j>> \notin T
    /\ L \in [Inodes -> Kinds] /\ L[i] = "free" /\ \A j \in Inodes : j # i => L[j] = K[j]
    /\ D \in [Inodes -> Int]
    /\ \A j \in Inodes : j # i => D[j] = C[j] - (IF j = p /\ K[i] = "dir" THEN 1 ELSE 0)
    /\ V = T \ {<<p, n, i>>}

LEMMA TreeLessObject ==
    ASSUME NEW T, NEW K, NEW U, NEW C, NEW p, NEW n, NEW i, NEW L, NEW D, NEW V, DropsObject(T, K, U, C, p, n, i, L, D, V)
    PROVE  TreeOK(V, L, U, D)
<1> USE DEF DropsObject
<1>1. V \subseteq Edge /\ <<p, n, i>> \notin V /\ T = V \cup {<<p, n, i>>} /\ T \subseteq Edge
  BY DEF TreeOK
<1>2. \A d \in Inodes, m \in Names, j \in Inodes :
         <<d, m, j>> \in V <=> <<d, m, j>> \in T /\ j # i
  OBVIOUS
<1>3. /\ i # Root /\ Root \in Inodes
      /\ \A d \in Inodes, m \in Names, j \in Inodes : <<d, m, j>> \in V => d # i /\ j # i
  BY <1>2, RootInode DEF TreeOK, Shape
<1>4. Rooted(L, U)
  <2>1. SUFFICES ASSUME NEW S \in SUBSET Inodes,
                        \A d \in S : L[d] = "dir" /\ d # Root /\ U[d] \in S
                 PROVE  S = {}
    BY DEF Rooted
  <2>2. \A d \in S : K[d] = "dir" /\ d # Root /\ U[d] \in S
    BY <2>1
  <2>3. Rooted(K, U)
    BY DEF TreeOK, Shape
  <2>4. QED BY <2>2, <2>3 DEF Rooted
<1>5. Shape(V, L, U)
  <2>1. \A d \in Inodes, m \in Names, j \in Inodes :
           <<d, m, j>> \in V => L[d] = "dir" /\ L[j] # "free" /\ j # Root
    BY <1>2, <1>3 DEF TreeOK, Shape
  <2>2. \A d \in Inodes, m \in Names, j, k \in Inodes :
           <<d, m, j>> \in V /\ <<d, m, k>> \in V => j = k
    BY <1>2 DEF TreeOK, Shape
  <2>3. \A j \in Inodes : L[j] # "free" /\ j # Root =>
           \E d \in Inodes, m \in Names : <<d, m, j>> \in V
    BY <1>2 DEF TreeOK, Shape
  <2>4. \A d, e \in Inodes, m, k \in Names, j \in Inodes :
           <<d, m, j>> \in V /\ <<e, k, j>> \in V /\ L[j] = "dir" => d = U[j] /\ m = k
    BY <1>2 DEF TreeOK, Shape
  <2>5. L[Root] = "dir" /\ U[Root] = Root
    BY <1>3 DEF TreeOK, Shape
  <2>6. QED BY <1>4, <2>1, <2>2, <2>3, <2>4, <2>5 DEF Shape
<1>6. OneMore(V, T, K, p, i)
  BY <1>1, CountOneMore
<1>7. \A d : Subdirs(V, L, d) = Subdirs(V, K, d)
  BY <1>1, <1>3, CountNewKind
<1>8. ASSUME NEW j \in Inodes, L[j] # "free"
      PROVE  D[j] = IF L[j] = "dir" THEN 2 + Cardinality(Subdirs(V, L, j))
                    ELSE Cardinality(NamesOf(V, j))
  <2>1. j # i /\ L[j] = K[j]
    BY <1>8
  <2>2. C[j] = IF K[j] = "dir" THEN 2 + Cardinality(Subdirs(T, K, j))
               ELSE Cardinality(NamesOf(T, j))
    BY <1>8, <2>1 DEF TreeOK, Counts
  <2>3. D[j] = C[j] - (IF j = p /\ K[i] = "dir" THEN 1 ELSE 0)
    BY <2>1
  <2>4. /\ Cardinality(NamesOf(T, j)) = Cardinality(NamesOf(V, j)) + 0
        /\ Cardinality(Subdirs(T, K, j)) =
              Cardinality(Subdirs(V, K, j)) + (IF j = p /\ K[i] = "dir" THEN 1 ELSE 0)
        /\ Cardinality(NamesOf(V, j)) \in Nat /\ Cardinality(Subdirs(V, K, j)) \in Nat
    BY <1>6, <2>1 DEF OneMore
  <2>5. Subdirs(V, L, j) = Subdirs(V, K, j)
    BY <1>7
  <2>6. K[p] = "dir"
    BY DEF TreeOK, Shape
  <2>7. QED BY <2>1, <2>2, <2>3, <2>4, <2>5, <2>6
<1>9. Counts(V, L, D)
  BY <1>8 DEF Counts
<1>10. QED BY <1>1, <1>5, <1>9 DEF TreeOK

\* rename: i moves from p to q.  A holds the directories above q, and i is not
\* one of them.
\* i moves from n in p to m in q; A are the directories above q, and i is not one of
\* them.
Moves(T, K, U, C, p, n, q, m, i, A, D, V) ==
    /\ TreeOK(T, K, U, C) /\ p \in Inodes /\ n \in Names /\ q \in Inodes /\ m \in Names
    /\ i \in Inodes /\ <<p, n, i>> \in T /\ K[q] = "dir"
    /\ \A j \in Inodes : <<q, m, j>> \notin T
    /\ A \in SUBSET Inodes
    /\ K[i] = "dir" => q \in A /\ i \notin A /\ \A d \in A : d = Root \/ U[d] \in A
    /\ D \in [Inodes -> Int]
    /\ \A j \in Inodes :
          D[j] = C[j] - (IF j = p /\ K[i] = "dir" THEN 1 ELSE 0)
                      + (IF j = q /\ K[i] = "dir" THEN 1 ELSE 0)
    /\ V = (T \ {<<p, n, i>>}) \cup {<<q, m, i>>}

LEMMA TreeMove ==
    ASSUME NEW T, NEW K, NEW U, NEW C, NEW p, NEW n, NEW q, NEW m, NEW i, NEW A, NEW D,
           NEW V, Moves(T, K, U, C, p, n, q, m, i, A, D, V)
    PROVE  \E W \in [Inodes -> Inodes] :
              /\ TreeOK(V, K, W, D)
              /\ K[i] = "dir" => W[i] = q
              /\ \A j \in Inodes : j # i => W[j] = U[j]
<1> USE DEF Moves
<1> DEFINE W == IF K[i] = "dir" THEN [U EXCEPT ![i] = q] ELSE U
           X == T \ {<<p, n, i>>}
<1>1. /\ W \in [Inodes -> Inodes] /\ (K[i] = "dir" => W[i] = q)
      /\ \A j \in Inodes : j # i \/ K[i] # "dir" => W[j] = U[j]
  BY DEF TreeOK
<1>2. /\ X \subseteq Edge /\ T \subseteq Edge /\ V \subseteq Edge
      /\ <<p, n, i>> \notin X /\ T = X \cup {<<p, n, i>>}
      /\ <<q, m, i>> \notin X /\ V = X \cup {<<q, m, i>>}
  BY DEF TreeOK, Edge
<1>3. \A d \in Inodes, k \in Names, j \in Inodes :
         <<d, k, j>> \in V <=> \/ <<d, k, j>> \in T /\ ~(d = p /\ k = n /\ j = i)
                               \/ d = q /\ k = m /\ j = i
  BY <1>2
<1>4. K[i] # "free" /\ i # Root
  BY DEF TreeOK, Shape
<1>5. Rooted(K, W)
  <2>1. SUFFICES ASSUME NEW S \in SUBSET Inodes,
                        \A d \in S : K[d] = "dir" /\ d # Root /\ W[d] \in S
                 PROVE  S = {}
    BY DEF Rooted
  <2>2. Rooted(K, U)
    BY DEF TreeOK, Shape
  <2>3. CASE i \in S
    <3>1. K[i] = "dir" /\ q \in S \cap A
      BY <1>1, <2>1, <2>3
    <3>2. \A d \in S \cap A : K[d] = "dir" /\ d # Root /\ U[d] \in S \cap A
      BY <1>1, <2>1, <3>1
    <3>3. S \cap A \in SUBSET Inodes
      OBVIOUS
    <3>4. QED BY <2>2, <3>1, <3>2, <3>3 DEF Rooted
  <2>4. CASE i \notin S
    <3>1. \A d \in S : K[d] = "dir" /\ d # Root /\ U[d] \in S
      BY <1>1, <2>1, <2>4
    <3>2. QED BY <2>2, <3>1 DEF Rooted
  <2>5. QED BY <2>3, <2>4
<1>6. Shape(V, K, W)
  <2> HIDE DEF W
  <2>1. \A d \in Inodes, k \in Names, j \in Inodes :
           <<d, k, j>> \in V => K[d] = "dir" /\ K[j] # "free" /\ j # Root
    BY <1>3, <1>4 DEF TreeOK, Shape
  <2>2. \A d \in Inodes, k \in Names, j, l \in Inodes :
           <<d, k, j>> \in V /\ <<d, k, l>> \in V => j = l
    BY <1>3 DEF TreeOK, Shape
  <2>3. \A j \in Inodes : K[j] # "free" /\ j # Root =>
           \E d \in Inodes, k \in Names : <<d, k, j>> \in V
    BY <1>3 DEF TreeOK, Shape
  <2>4. \A d, e \in Inodes, k, l \in Names, j \in Inodes :
           <<d, k, j>> \in V /\ <<e, l, j>> \in V /\ K[j] = "dir" => d = W[j] /\ k = l
    <3>1. SUFFICES ASSUME NEW d \in Inodes, NEW e \in Inodes, NEW k \in Names, NEW l \in Names,
                          NEW j \in Inodes, <<d, k, j>> \in V, <<e, l, j>> \in V, K[j] = "dir"
                   PROVE  d = W[j] /\ k = l
      OBVIOUS
    <3>2. CASE j = i
      <4>1. \A x \in Inodes, y \in Names : <<x, y, i>> \in T => x = p /\ y = n
        BY <3>1, <3>2 DEF TreeOK, Shape
      <4>2. QED BY <1>1, <1>3, <3>1, <3>2, <4>1
    <3>3. CASE j # i
      <4>1. <<d, k, j>> \in T /\ <<e, l, j>> \in T /\ W[j] = U[j]
        BY <1>1, <1>3, <3>1, <3>3
      <4>2. QED BY <3>1, <4>1 DEF TreeOK, Shape
    <3>4. QED BY <3>2, <3>3
  <2>5. K[Root] = "dir" /\ W[Root] = Root
    BY <1>1, <1>4, RootInode DEF TreeOK, Shape
  <2>6. QED BY <1>5, <2>1, <2>2, <2>3, <2>4, <2>5 DEF Shape
<1>7. OneMore(X, T, K, p, i) /\ OneMore(X, V, K, q, i)
  <2> HIDE DEF X
  <2>1. OneMore(X, T, K, p, i)
    BY <1>2, CountOneMore
  <2>2. OneMore(X, V, K, q, i)
    BY <1>2, CountOneMore
  <2>3. QED BY <2>1, <2>2
<1>8. ASSUME NEW j \in Inodes, K[j] # "free"
      PROVE  D[j] = IF K[j] = "dir" THEN 2 + Cardinality(Subdirs(V, K, j))
                    ELSE Cardinality(NamesOf(V, j))
  <2> HIDE DEF X
  <2>1. C[j] = IF K[j] = "dir" THEN 2 + Cardinality(Subdirs(T, K, j))
               ELSE Cardinality(NamesOf(T, j))
    BY <1>8 DEF TreeOK, Counts
  <2>2. D[j] = C[j] - (IF j = p /\ K[i] = "dir" THEN 1 ELSE 0)
                    + (IF j = q /\ K[i] = "dir" THEN 1 ELSE 0)
    OBVIOUS
  <2>3. /\ Cardinality(NamesOf(T, j)) = Cardinality(NamesOf(X, j)) + (IF j = i THEN 1 ELSE 0)
        /\ Cardinality(NamesOf(V, j)) = Cardinality(NamesOf(X, j)) + (IF j = i THEN 1 ELSE 0)
        /\ Cardinality(Subdirs(T, K, j)) =
              Cardinality(Subdirs(X, K, j)) + (IF j = p /\ K[i] = "dir" THEN 1 ELSE 0)
        /\ Cardinality(NamesOf(X, j)) \in Nat /\ Cardinality(Subdirs(X, K, j)) \in Nat
    BY <1>7 DEF OneMore
  <2>4. Cardinality(Subdirs(V, K, j)) =
              Cardinality(Subdirs(X, K, j)) + (IF j = q /\ K[i] = "dir" THEN 1 ELSE 0)
    BY <1>7 DEF OneMore
  <2>5. K[p] = "dir" /\ K[q] = "dir"
    BY DEF TreeOK, Shape
  <2>6. QED BY <2>1, <2>2, <2>3, <2>4, <2>5
<1>9. Counts(V, K, D)
  BY <1>8 DEF Counts
<1>10. TreeOK(V, K, W, D)
  BY <1>1, <1>2, <1>6, <1>9 DEF TreeOK
<1>11. QED BY <1>1, <1>10

-----------------------------------------------------------------------------
(* The image: a step that concerns one inode and its storage.              *)

Base(s, T, U) ==
    /\ Typed(s) /\ U \in [Inodes -> Inodes]
    /\ Lists(s, T) /\ Owned(s) /\ Ups(s, U)

\* What is not i's is the same in s and t; i's run is its own.
Elsewhere(s, t, i) ==
    /\ \A j \in Inodes : j # i =>
          t.inode[j] = s.inode[j] /\ (j \in t.iused <=> j \in s.iused)
    /\ \A r \in Runs :
          r \in t.rused <=> \/ r \in s.rused /\ r # s.inode[i].run
                            \/ r = t.inode[i].run
    /\ t.inode[i].run = s.inode[i].run \/ t.inode[i].run \notin s.rused
    /\ \A r \in s.rused : r # s.inode[i].run => t.content[r] = s.content[r]

\* i is as Base asks, with the entries V and the parent W[i].
Here(t, V, W, i) ==
    /\ i \in t.iused => t.inode[i].kind # "free"
    /\ i \notin t.iused => t.inode[i] = Cleared
    /\ IsDir(t, i) => /\ t.inode[i].run \in Runs
                      /\ Neat(InDir(t, i), t.inode[i].size)
                      /\ InDir(t, i).dotdot = W[i]
    /\ \A n \in Names, j \in Inodes :
          <<i, n, j>> \in V <=> IsDir(t, i) /\ Has(InDir(t, i), t.inode[i].size, n, j)

LEMMA BaseStep ==
    ASSUME NEW s, NEW T, NEW U, Base(s, T, U), NEW t, Typed(t), NEW i \in Inodes,
           NEW V, V \subseteq Edge, NEW W \in [Inodes -> Inodes],
           Elsewhere(s, t, i), Here(t, V, W, i),
           \A d \in Inodes, n \in Names, j \in Inodes :
              d # i => (<<d, n, j>> \in V <=> <<d, n, j>> \in T),
           \A d \in Inodes : d # i => W[d] = U[d]
    PROVE  Base(t, V, W)
<1>1. ASSUME NEW d \in Inodes, d # i, IsDir(s, d) \/ IsDir(t, d)
      PROVE  IsDir(s, d) /\ IsDir(t, d) /\ t.inode[d] = s.inode[d] /\ InDir(t, d) = InDir(s, d)
  <2>1. t.inode[d] = s.inode[d]
    BY <1>1 DEF Elsewhere
  <2>2. IsDir(s, d) /\ IsDir(t, d)
    BY <1>1, <2>1 DEF IsDir
  <2>3. s.inode[d].run \in Runs
    BY <2>2 DEF Base, Owned
  <2>4. s.inode[d].run \in s.rused /\ s.inode[d].run # s.inode[i].run
    BY <1>1, <2>3, RootInode DEF Base, Owned
  <2>5. t.content[s.inode[d].run] = s.content[s.inode[d].run]
    BY <2>4 DEF Elsewhere
  <2>6. QED BY <2>1, <2>2, <2>5 DEF InDir
<1>2. Lists(t, V)
  <2>1. ASSUME NEW d \in Inodes, NEW n \in Names, NEW j \in Inodes
        PROVE  <<d, n, j>> \in V <=> IsDir(t, d) /\ Has(InDir(t, d), t.inode[d].size, n, j)
    <3>1. CASE d = i
      BY <3>1 DEF Here
    <3>2. CASE d # i
      <4>1. <<d, n, j>> \in T <=> IsDir(s, d) /\ Has(InDir(s, d), s.inode[d].size, n, j)
        BY DEF Base, Lists
      <4>2. CASE IsDir(s, d) \/ IsDir(t, d)
        BY <1>1, <3>2, <4>1, <4>2
      <4>3. CASE ~(IsDir(s, d) \/ IsDir(t, d))
        BY <3>2, <4>1, <4>3
      <4>4. QED BY <4>2, <4>3
    <3>3. QED BY <3>1, <3>2
  <2>2. QED BY <2>1 DEF Lists
<1>3. Owned(t)
  <2>1. ASSUME NEW d \in Inodes, IsDir(t, d)
        PROVE  t.inode[d].run \in Runs /\ Neat(InDir(t, d), t.inode[d].size)
    <3>1. CASE d = i
      BY <2>1, <3>1 DEF Here
    <3>2. CASE d # i
      BY <1>1, <2>1, <3>2 DEF Base, Owned
    <3>3. QED BY <3>1, <3>2
  <2>2. ASSUME NEW r \in Runs PROVE r \in t.rused <=> \E j \in Inodes : t.inode[j].run = r
    <3>1. r \in s.rused <=> \E j \in Inodes : s.inode[j].run = r
      BY DEF Base, Owned
    <3>2. r # 0
      BY RootInode
    <3>3. \A j \in Inodes : s.inode[j].run = s.inode[i].run /\ s.inode[j].run = r => j = i
      BY <3>2 DEF Base, Owned
    <3>4. QED BY <3>1, <3>3 DEF Elsewhere
  <2>3. ASSUME NEW j \in Inodes, NEW k \in Inodes,
               t.inode[j].run = t.inode[k].run, t.inode[j].run # 0, j # k
        PROVE  FALSE
    <3>1. \A x \in Inodes : x # i => t.inode[x].run = s.inode[x].run
      BY DEF Elsewhere
    <3>2. CASE j # i /\ k # i
      BY <2>3, <3>1, <3>2 DEF Base, Owned
    <3>3. ASSUME NEW x \in Inodes, x # i, t.inode[x].run = t.inode[i].run, t.inode[x].run # 0
          PROVE  FALSE
      <4>1. s.inode[x].run = t.inode[i].run
        BY <3>1, <3>3
      <4>2. s.inode[x].run \in Runs
        BY <3>3, <4>1, InodeTyped DEF Base
      <4>3. s.inode[x].run \in s.rused
        BY <4>2 DEF Base, Owned
      <4>4. s.inode[x].run = s.inode[i].run
        BY <4>1, <4>3 DEF Elsewhere
      <4>5. QED BY <3>3, <4>1, <4>4 DEF Base, Owned
    <3>4. QED BY <2>3, <3>2, <3>3
  <2>4. ASSUME NEW j \in Inodes, j \notin t.iused PROVE t.inode[j] = Cleared
    BY <2>4 DEF Elsewhere, Here, Base, Owned
  <2>5. ASSUME NEW j \in t.iused PROVE t.inode[j].kind # "free"
    <3>1. j \in Inodes
      BY DEF Typed
    <3>2. QED BY <3>1, <2>5 DEF Elsewhere, Here, Base, Owned
  <2>6. QED BY <2>1, <2>2, <2>3, <2>4, <2>5 DEF Owned
<1>4. Ups(t, W)
  <2>1. ASSUME NEW d \in Inodes, IsDir(t, d) PROVE InDir(t, d).dotdot = W[d]
    <3>1. CASE d = i
      BY <2>1, <3>1 DEF Here
    <3>2. CASE d # i
      <4>1. IsDir(s, d) /\ InDir(t, d) = InDir(s, d) /\ W[d] = U[d]
        BY <1>1, <2>1, <3>2
      <4>2. QED BY <4>1 DEF Base, Ups
    <3>3. QED BY <3>1, <3>2
  <2>2. QED BY <2>1 DEF Ups
<1>5. QED BY <1>2, <1>3, <1>4 DEF Base

\* The calls' writes, one by one.
NodeSet == [no : Inodes, ino : Inode]

LEMMA PutEffect ==
    ASSUME NEW s \in Opened, NEW t \in Opened
    PROVE  /\ Put(s, t) \in Opened
           /\ Put(s, t).runs = t.runs /\ Put(s, t).inode = t.inode /\ Put(s, t).iused = t.iused
           /\ Put(s, t).content = t.content /\ Put(s, t).rused = t.rused
<1>1. Image(s) \in Disk
  BY DEF Image, Opened, Disk
<1>2. s.past \in Seq(Disk)
  BY DEF Opened
<1>3. Append(s.past, Image(s)) \in Seq(Disk)
  BY <1>1, <1>2, AppendProperties
<1>4. QED BY <1>3 DEF Put, Opened

LEMMA WriteInodeEffect ==
    ASSUME NEW s \in Opened, NEW node \in NodeSet
    PROVE  /\ WriteInode(s, node) \in Opened
           /\ WriteInode(s, node).inode = [s.inode EXCEPT ![node.no] = node.ino]
           /\ WriteInode(s, node).runs = s.runs /\ WriteInode(s, node).iused = s.iused
           /\ WriteInode(s, node).content = s.content /\ WriteInode(s, node).rused = s.rused
<1> DEFINE t == [s EXCEPT !.inode[node.no] = node.ino]
<1>1. /\ t \in Opened /\ t.inode = [s.inode EXCEPT ![node.no] = node.ino]
      /\ t.runs = s.runs /\ t.iused = s.iused /\ t.content = s.content /\ t.rused = s.rused
  BY DEF Opened, NodeSet
<1>2. WriteInode(s, node) = Put(s, t)
  BY DEF WriteInode
<1> HIDE DEF t
<1>3. QED BY <1>1, <1>2, PutEffect

LEMMA ClearedTyped == Cleared \in Inode
  BY NamespaceAssumption DEF Cleared, Inode, Kinds

LEMMA ClearInodeEffect ==
    ASSUME NEW s \in Opened, NEW i \in Inodes
    PROVE  /\ ClearInode(s, i) \in Opened
           /\ ClearInode(s, i).inode = [s.inode EXCEPT ![i] = Cleared]
           /\ ClearInode(s, i).runs = s.runs /\ ClearInode(s, i).iused = s.iused
           /\ ClearInode(s, i).content = s.content /\ ClearInode(s, i).rused = s.rused
<1> DEFINE t == [s EXCEPT !.inode[i] = Cleared]
<1>1. /\ t \in Opened /\ t.inode = [s.inode EXCEPT ![i] = Cleared]
      /\ t.runs = s.runs /\ t.iused = s.iused /\ t.content = s.content /\ t.rused = s.rused
  BY ClearedTyped DEF Opened
<1>2. ClearInode(s, i) = Put(s, t)
  BY DEF ClearInode
<1> HIDE DEF t
<1>3. QED BY <1>1, <1>2, PutEffect

LEMMA InodeMapEffect ==
    ASSUME NEW s \in Opened, NEW i \in Inodes
    PROVE  /\ AllocInode(s, i) \in Opened /\ AllocInode(s, i).iused = s.iused \cup {i}
           /\ AllocInode(s, i).runs = s.runs /\ AllocInode(s, i).inode = s.inode
           /\ AllocInode(s, i).content = s.content /\ AllocInode(s, i).rused = s.rused
           /\ FreeInode(s, i) \in Opened /\ FreeInode(s, i).iused = s.iused \ {i}
           /\ FreeInode(s, i).runs = s.runs /\ FreeInode(s, i).inode = s.inode
           /\ FreeInode(s, i).content = s.content /\ FreeInode(s, i).rused = s.rused
<1> DEFINE t == [s EXCEPT !.iused = s.iused \cup {i}]
           u == [s EXCEPT !.iused = s.iused \ {i}]
<1>1. /\ t \in Opened /\ t.iused = s.iused \cup {i}
      /\ t.runs = s.runs /\ t.inode = s.inode /\ t.content = s.content /\ t.rused = s.rused
  BY DEF Opened
<1>2. /\ u \in Opened /\ u.iused = s.iused \ {i}
      /\ u.runs = s.runs /\ u.inode = s.inode /\ u.content = s.content /\ u.rused = s.rused
  BY DEF Opened
<1>3. AllocInode(s, i) = Put(s, t) /\ FreeInode(s, i) = Put(s, u)
  BY DEF AllocInode, FreeInode
<1> HIDE DEF t, u
<1>4. QED BY <1>1, <1>2, <1>3, PutEffect

LEMMA RunMapEffect ==
    ASSUME NEW s \in Opened, NEW r \in Runs
    PROVE  /\ AllocRun(s, r) \in Opened /\ AllocRun(s, r).rused = s.rused \cup {r}
           /\ AllocRun(s, r).runs = s.runs /\ AllocRun(s, r).inode = s.inode
           /\ AllocRun(s, r).content = s.content /\ AllocRun(s, r).iused = s.iused
           /\ FreeRun(s, r) \in Opened /\ FreeRun(s, r).rused = s.rused \ {r}
           /\ FreeRun(s, r).runs = s.runs /\ FreeRun(s, r).inode = s.inode
           /\ FreeRun(s, r).content = s.content /\ FreeRun(s, r).iused = s.iused
<1> DEFINE t == [s EXCEPT !.rused = s.rused \cup {r}]
           u == [s EXCEPT !.rused = s.rused \ {r}]
<1>1. /\ t \in Opened /\ t.rused = s.rused \cup {r}
      /\ t.runs = s.runs /\ t.inode = s.inode /\ t.content = s.content /\ t.iused = s.iused
  BY DEF Opened
<1>2. /\ u \in Opened /\ u.rused = s.rused \ {r}
      /\ u.runs = s.runs /\ u.inode = s.inode /\ u.content = s.content /\ u.iused = s.iused
  BY DEF Opened
<1>3. AllocRun(s, r) = Put(s, t) /\ FreeRun(s, r) = Put(s, u)
  BY DEF AllocRun, FreeRun
<1> HIDE DEF t, u
<1>4. QED BY <1>1, <1>2, <1>3, PutEffect

LEMMA FillEffect ==
    ASSUME NEW s \in Opened, NEW r \in Runs, NEW c \in Content
    PROVE  /\ Fill(s, r, c) \in Opened /\ Fill(s, r, c).content = [s.content EXCEPT ![r] = c]
           /\ Fill(s, r, c).runs = s.runs /\ Fill(s, r, c).inode = s.inode
           /\ Fill(s, r, c).iused = s.iused /\ Fill(s, r, c).rused = s.rused
<1> DEFINE t == [s EXCEPT !.content[r] = c]
<1>1. /\ t \in Opened /\ t.content = [s.content EXCEPT ![r] = c]
      /\ t.runs = s.runs /\ t.inode = s.inode /\ t.iused = s.iused /\ t.rused = s.rused
  BY DEF Opened
<1>2. Fill(s, r, c) = Put(s, t)
  BY DEF Fill
<1> HIDE DEF t
<1>3. QED BY <1>1, <1>2, PutEffect

LEMMA FreeStorageEffect ==
    ASSUME NEW s \in Opened, NEW ino \in Inode
    PROVE  /\ FreeStorage(s, ino) \in Opened /\ FreeStorage(s, ino).rused = s.rused \ {ino.run}
           /\ FreeStorage(s, ino).runs = s.runs /\ FreeStorage(s, ino).inode = s.inode
           /\ FreeStorage(s, ino).iused = s.iused /\ FreeStorage(s, ino).content = s.content
<1>1. CASE ino.run = 0
  <2>1. s.rused = s.rused \ {0}
    BY RootInode DEF Opened
  <2>2. QED BY <1>1, <2>1 DEF FreeStorage
<1>2. CASE ino.run # 0
  <2>1. ino.run \in Runs
    BY <1>2 DEF Inode
  <2>2. QED BY <1>2, <2>1, RunMapEffect DEF FreeStorage
<1>3. QED BY <1>1, <1>2

-----------------------------------------------------------------------------
(* The blocks of a directory.                                              *)

\* The content x with tz blocks has what c has, and names i as n.
Took(c, x, sz, tz, n, i) ==
    /\ x \in Content /\ x.dotdot = c.dotdot /\ Neat(x, tz)
    /\ \A m \in Names, j \in Inodes : Has(x, tz, m, j) <=> Has(c, sz, m, j) \/ (m = n /\ j = i)

\* The content x has what c has, but for the name n.
Lost(c, x, sz, n) ==
    /\ x \in Content /\ x.dotdot = c.dotdot /\ Neat(x, sz)
    /\ \A m \in Names, j \in Inodes : Has(x, sz, m, j) <=> Has(c, sz, m, j) /\ m # n

LEMMA NotNamed ==
    ASSUME NEW c \in Content, NEW sz, Neat(c, sz), NEW n, \A j \in Inodes : ~Has(c, sz, n, j)
    PROVE  \A k \in 1..sz : n \notin DOMAIN c.blocks[k]
<1>1. ASSUME NEW k \in 1..sz, n \in DOMAIN c.blocks[k] PROVE FALSE
  <2>1. c.blocks[k] \in Blocks
    BY ContentTyped DEF Neat
  <2>2. c.blocks[k][n] \in Inodes
    BY <1>1, <2>1, BlockTyped
  <2>3. QED BY <1>1, <2>2 DEF Has
<1>2. QED BY <1>1

LEMMA BlockFinite == \A b \in Blocks : IsFiniteSet(DOMAIN b) /\ Cardinality(DOMAIN b) \in Nat
  BY BlockTyped, NamespaceAssumption, FS_Subset, FS_CardinalityType

\* A block b of c is replaced by f.
Replaced(c, k, f) == [c EXCEPT !.blocks = [@ EXCEPT ![k] = f]]

LEMMA ReplacedFacts ==
    ASSUME NEW c \in Content, NEW k \in 1..Len(c.blocks), NEW f \in Blocks
    PROVE  /\ Replaced(c, k, f) \in Content
           /\ Replaced(c, k, f).dotdot = c.dotdot
           /\ Len(Replaced(c, k, f).blocks) = Len(c.blocks)
           /\ Replaced(c, k, f).blocks[k] = f
           /\ \A l \in 1..Len(c.blocks) : l # k => Replaced(c, k, f).blocks[l] = c.blocks[l]
<1> DEFINE b == [c.blocks EXCEPT ![k] = f]
<1>1. c.blocks \in Seq(Blocks) /\ c.dotdot \in Inodes \cup {0}
  BY ContentTyped
<1>2. /\ b \in Seq(Blocks) /\ Len(b) = Len(c.blocks) /\ b[k] = f
      /\ \A l \in 1..Len(c.blocks) : l # k => b[l] = c.blocks[l]
  BY <1>1
<1>3. Replaced(c, k, f) = [dotdot |-> c.dotdot, blocks |-> b]
  BY DEF Replaced, Content
<1> HIDE DEF b
<1>4. QED BY <1>1, <1>2, <1>3 DEF Content

With(f, n, i) == [x \in DOMAIN f \cup {n} |-> IF x = n THEN i ELSE f[x]]
Without(f, n) == [x \in DOMAIN f \ {n} |-> f[x]]

LEMMA TookInRoom ==
    ASSUME NEW c \in Content, NEW sz, Neat(c, sz), NEW n \in Names, NEW i \in Inodes,
           \A j \in Inodes : ~Has(c, sz, n, j),
           NEW k \in 1..sz, Cardinality(DOMAIN c.blocks[k]) < BlkNames,
           NEW f, f = With(c.blocks[k], n, i)
    PROVE  f \in Blocks /\ Took(c, Replaced(c, k, f), sz, sz, n, i)
<1> DEFINE b == c.blocks[k]
           x == Replaced(c, k, f)
<1>1. sz \in 0..Len(c.blocks) /\ Len(c.blocks) \in Nat /\ k \in 1..Len(c.blocks) /\ b \in Blocks
  BY ContentTyped DEF Neat
<1>2. DOMAIN b \subseteq Names /\ (\A y \in DOMAIN b : b[y] \in Inodes) /\ n \notin DOMAIN b
  BY <1>1, BlockTyped, NotNamed
<1>3. DOMAIN f = DOMAIN b \cup {n} /\ f[n] = i /\ \A y \in DOMAIN b : f[y] = b[y]
  BY <1>2 DEF With
<1>4. f \in Blocks
  <2>1. f \in [DOMAIN b \cup {n} -> Inodes] /\ DOMAIN b \cup {n} \in SUBSET Names
    BY <1>2 DEF With
  <2>2. QED BY <2>1 DEF Blocks
<1>5. /\ x \in Content /\ x.dotdot = c.dotdot /\ Len(x.blocks) = Len(c.blocks) /\ x.blocks[k] = f
      /\ \A l \in 1..Len(c.blocks) : l # k => x.blocks[l] = c.blocks[l]
  BY <1>1, <1>4, ReplacedFacts
<1>6. \A l \in 1..sz : l \in 1..Len(c.blocks)
  BY <1>1
<1>7. \A l \in 1..sz : n \notin DOMAIN c.blocks[l]
  BY NotNamed
<1> HIDE DEF x
<1>8. Neat(x, sz)
  <2>1. Cardinality(DOMAIN f) <= BlkNames
    <3>1. IsFiniteSet(DOMAIN b) /\ Cardinality(DOMAIN b) \in Nat
      BY <1>1, BlockFinite
    <3>2. Cardinality(DOMAIN f) = Cardinality(DOMAIN b) + 1
      BY <1>2, <1>3, <3>1, FS_AddElement
    <3>3. QED BY <3>1, <3>2, NamespaceAssumption
  <2>2. \A l \in 1..sz : Cardinality(DOMAIN x.blocks[l]) <= BlkNames
    BY <1>5, <1>6, <2>1 DEF Neat
  <2>3. ASSUME NEW l \in 1..sz, NEW o \in 1..sz, NEW m \in Names,
               m \in DOMAIN x.blocks[l], m \in DOMAIN x.blocks[o]
        PROVE  l = o
    <3>1. CASE m = n
      <4>1. l = k /\ o = k
        BY <1>5, <1>6, <1>7, <2>3, <3>1
      <4>2. QED BY <4>1
    <3>2. CASE m # n
      <4>1. m \in DOMAIN c.blocks[l] /\ m \in DOMAIN c.blocks[o]
        BY <1>3, <1>5, <1>6, <2>3, <3>2
      <4>2. QED BY <4>1 DEF Neat
    <3>3. QED BY <3>1, <3>2
  <2>4. QED BY <1>1, <1>5, <2>2, <2>3 DEF Neat
<1>9. ASSUME NEW m \in Names, NEW j \in Inodes
      PROVE  Has(x, sz, m, j) <=> Has(c, sz, m, j) \/ (m = n /\ j = i)
  <2>1. ASSUME NEW l \in 1..sz, m \in DOMAIN x.blocks[l], x.blocks[l][m] = j
        PROVE  Has(c, sz, m, j) \/ (m = n /\ j = i)
    <3>1. CASE l = k /\ m = n
      BY <1>3, <1>5, <2>1, <3>1
    <3>2. CASE ~(l = k /\ m = n)
      <4>1. m \in DOMAIN c.blocks[l] /\ c.blocks[l][m] = j
        BY <1>3, <1>5, <1>6, <2>1, <3>2
      <4>2. QED BY <4>1 DEF Has
    <3>3. QED BY <3>1, <3>2
  <2>2. ASSUME NEW l \in 1..sz, m \in DOMAIN c.blocks[l], c.blocks[l][m] = j
        PROVE  Has(x, sz, m, j)
    <3>1. m \in DOMAIN x.blocks[l] /\ x.blocks[l][m] = j
      BY <1>3, <1>5, <1>6, <2>2
    <3>2. QED BY <3>1 DEF Has
  <2>3. Has(x, sz, n, i)
    BY <1>3, <1>5 DEF Has
  <2>4. QED BY <2>1, <2>2, <2>3 DEF Has
<1>10. QED BY <1>4, <1>5, <1>8, <1>9 DEF Took, x

LEMMA LostFrom ==
    ASSUME NEW c \in Content, NEW sz, Neat(c, sz), NEW n \in Names,
           NEW k \in 1..sz, n \in DOMAIN c.blocks[k],
           NEW f, f = Without(c.blocks[k], n)
    PROVE  f \in Blocks /\ Lost(c, Replaced(c, k, f), sz, n)
<1> DEFINE b == c.blocks[k]
           x == Replaced(c, k, f)
<1>1. sz \in 0..Len(c.blocks) /\ Len(c.blocks) \in Nat /\ k \in 1..Len(c.blocks) /\ b \in Blocks
  BY ContentTyped DEF Neat
<1>2. DOMAIN b \subseteq Names /\ (\A y \in DOMAIN b : b[y] \in Inodes)
  BY <1>1, BlockTyped
<1>3. DOMAIN f = DOMAIN b \ {n} /\ \A y \in DOMAIN f : f[y] = b[y]
  BY DEF Without
<1>4. f \in Blocks
  <2>1. f \in [DOMAIN b \ {n} -> Inodes] /\ DOMAIN b \ {n} \in SUBSET Names
    BY <1>2 DEF Without
  <2>2. QED BY <2>1 DEF Blocks
<1>5. /\ x \in Content /\ x.dotdot = c.dotdot /\ Len(x.blocks) = Len(c.blocks) /\ x.blocks[k] = f
      /\ \A l \in 1..Len(c.blocks) : l # k => x.blocks[l] = c.blocks[l]
  BY <1>1, <1>4, ReplacedFacts
<1>6. \A l \in 1..sz : l \in 1..Len(c.blocks)
  BY <1>1
<1>7. \A l \in 1..sz : n \in DOMAIN c.blocks[l] => l = k
  BY DEF Neat
<1> HIDE DEF x
<1>8. Neat(x, sz)
  <2>1. Cardinality(DOMAIN f) <= BlkNames
    <3>1. IsFiniteSet(DOMAIN b) /\ Cardinality(DOMAIN b) \in Nat
      BY <1>1, BlockFinite
    <3>2. DOMAIN f \in SUBSET DOMAIN b /\ Cardinality(DOMAIN b) <= BlkNames
      BY <1>3 DEF Neat
    <3>3. Cardinality(DOMAIN f) <= Cardinality(DOMAIN b) /\ Cardinality(DOMAIN f) \in Nat
      BY <1>4, <3>1, <3>2, FS_Subset, BlockFinite
    <3>4. QED BY <3>1, <3>2, <3>3, NamespaceAssumption
  <2>2. \A l \in 1..sz : Cardinality(DOMAIN x.blocks[l]) <= BlkNames
    BY <1>5, <1>6, <2>1 DEF Neat
  <2>3. ASSUME NEW l \in 1..sz, NEW o \in 1..sz, NEW m \in Names,
               m \in DOMAIN x.blocks[l], m \in DOMAIN x.blocks[o]
        PROVE  l = o
    <3>1. m \in DOMAIN c.blocks[l] /\ m \in DOMAIN c.blocks[o]
      BY <1>3, <1>5, <1>6, <2>3
    <3>2. QED BY <3>1 DEF Neat
  <2>4. QED BY <1>1, <1>5, <2>2, <2>3 DEF Neat
<1>9. ASSUME NEW m \in Names, NEW j \in Inodes
      PROVE  Has(x, sz, m, j) <=> Has(c, sz, m, j) /\ m # n
  <2>1. ASSUME NEW l \in 1..sz, m \in DOMAIN x.blocks[l], x.blocks[l][m] = j
        PROVE  Has(c, sz, m, j) /\ m # n
    <3>1. m \in DOMAIN c.blocks[l] /\ c.blocks[l][m] = j
      BY <1>3, <1>5, <1>6, <2>1
    <3>2. m # n
      BY <1>3, <1>5, <1>6, <1>7, <2>1, <3>1
    <3>3. QED BY <3>1, <3>2 DEF Has
  <2>2. ASSUME NEW l \in 1..sz, m \in DOMAIN c.blocks[l], c.blocks[l][m] = j, m # n
        PROVE  Has(x, sz, m, j)
    <3>1. m \in DOMAIN x.blocks[l] /\ x.blocks[l][m] = j
      BY <1>3, <1>5, <1>6, <2>2
    <3>2. QED BY <3>1 DEF Has
  <2>3. QED BY <2>1, <2>2 DEF Has
<1>10. QED BY <1>4, <1>5, <1>8, <1>9 DEF Lost, x

\* A directory of sz blocks that grows.
Longer(c, sz, f) == [c EXCEPT !.blocks = SubSeq(@, 1, sz) \o <<f>>]

LEMMA LongerIs ==
    ASSUME NEW c \in Content, NEW sz \in 0..Len(c.blocks), NEW f \in Blocks
    PROVE  LET x == Longer(c, sz, f)
           IN  /\ x \in Content /\ x.dotdot = c.dotdot /\ Len(x.blocks) = sz + 1
               /\ x.blocks[sz + 1] = f /\ \A l \in 1..sz : x.blocks[l] = c.blocks[l]
<1> DEFINE x == Longer(c, sz, f)
<1>1. Len(c.blocks) \in Nat /\ sz \in Nat /\ c.blocks \in Seq(Blocks) /\ c.dotdot \in Inodes \cup {0}
  BY ContentTyped
<1> DEFINE first == SubSeq(c.blocks, 1, sz)
           b == first \o <<f>>
<1>2. first \in Seq(Blocks) /\ Len(first) = sz /\ \A l \in 1..sz : first[l] = c.blocks[l]
  BY <1>1
<1>3. <<f>> \in Seq(Blocks) /\ Len(<<f>>) = 1 /\ <<f>>[1] = f
  OBVIOUS
<1>4. /\ b \in Seq(Blocks) /\ Len(b) = sz + 1 /\ b[sz + 1] = f
      /\ \A l \in 1..sz : b[l] = c.blocks[l]
  <2> HIDE DEF first
  <2>1. QED BY <1>1, <1>2, <1>3
<1>5. x = [dotdot |-> c.dotdot, blocks |-> b]
  <2>1. x = [c EXCEPT !.blocks = b]
    BY DEF Longer
  <2> HIDE DEF b, x
  <2>2. QED BY <2>1 DEF Content
<1> HIDE DEF b, first
<1>6. x \in Content /\ x.dotdot = c.dotdot /\ x.blocks = b
  BY <1>1, <1>4, <1>5 DEF Content
<1>7. QED BY <1>4, <1>6

LEMMA EmptyBlock == <<>> \in Blocks
<1>1. <<>> \in [{} -> Inodes] /\ {} \in SUBSET Names
  OBVIOUS
<1>2. QED BY <1>1 DEF Blocks

LEMMA TookBehind ==
    ASSUME NEW c \in Content, NEW sz, Neat(c, sz), NEW n \in Names, NEW i \in Inodes,
           \A j \in Inodes : ~Has(c, sz, n, j),
           NEW f, f = [y \in {n} |-> i]
    PROVE  Took(c, Longer(c, sz, f), sz, sz + 1, n, i)
<1> DEFINE x == Longer(c, sz, f)
<1>1. sz \in 0..Len(c.blocks) /\ Len(c.blocks) \in Nat /\ sz \in Nat /\ c.blocks \in Seq(Blocks)
      /\ c.dotdot \in Inodes \cup {0}
  BY ContentTyped DEF Neat
<1>2. DOMAIN f = {n} /\ f[n] = i
  OBVIOUS
<1>3. f \in Blocks
  <2>1. f \in [{n} -> Inodes] /\ {n} \in SUBSET Names
    OBVIOUS
  <2>2. QED BY <2>1 DEF Blocks
<1>4. /\ x \in Content /\ x.dotdot = c.dotdot /\ Len(x.blocks) = sz + 1
      /\ x.blocks[sz + 1] = f /\ \A l \in 1..sz : x.blocks[l] = c.blocks[l]
  BY <1>1, <1>3, LongerIs
<1> HIDE DEF x
<1>9. \A l \in 1..sz : n \notin DOMAIN c.blocks[l]
  BY NotNamed
<1>10. Neat(x, sz + 1)
  <2>1. Cardinality(DOMAIN f) <= BlkNames
    <3>1. Cardinality(DOMAIN f) = 1
      BY <1>2, FS_Singleton
    <3>2. QED BY <3>1, NamespaceAssumption
  <2>2. ASSUME NEW l \in 1..(sz + 1) PROVE Cardinality(DOMAIN x.blocks[l]) <= BlkNames
    <3>1. CASE l = sz + 1
      BY <1>4, <2>1, <3>1
    <3>2. CASE l # sz + 1
      <4>1. l \in 1..sz
        BY <1>1, <3>2
      <4>2. QED BY <1>4, <4>1 DEF Neat
    <3>3. QED BY <3>1, <3>2
  <2>3. ASSUME NEW l \in 1..(sz + 1), NEW o \in 1..(sz + 1), NEW m \in Names,
               m \in DOMAIN x.blocks[l], m \in DOMAIN x.blocks[o]
        PROVE  l = o
    <3>1. (l # sz + 1 => l \in 1..sz) /\ (o # sz + 1 => o \in 1..sz)
      BY <1>1
    <3>2. (l = sz + 1 => m = n) /\ (o = sz + 1 => m = n)
      BY <1>2, <1>4, <2>3
    <3>3. /\ l # sz + 1 => m \in DOMAIN c.blocks[l] /\ m # n
          /\ o # sz + 1 => m \in DOMAIN c.blocks[o] /\ m # n
      BY <1>4, <1>9, <2>3, <3>1
    <3>4. CASE l = sz + 1
      BY <3>2, <3>3, <3>4
    <3>5. CASE l # sz + 1
      <4>1. o # sz + 1
        BY <3>2, <3>3, <3>5
      <4>2. QED BY <3>1, <3>3, <3>5, <4>1 DEF Neat
    <3>6. QED BY <3>4, <3>5
  <2>4. sz + 1 = Len(x.blocks)
    BY <1>1, <1>4
  <2>5. QED BY <2>2, <2>3, <2>4 DEF Neat
<1>11. ASSUME NEW m \in Names, NEW j \in Inodes
       PROVE  Has(x, sz + 1, m, j) <=> Has(c, sz, m, j) \/ (m = n /\ j = i)
  <2>1. ASSUME NEW l \in 1..(sz + 1), m \in DOMAIN x.blocks[l], x.blocks[l][m] = j
        PROVE  Has(c, sz, m, j) \/ (m = n /\ j = i)
    <3>1. CASE l = sz + 1
      BY <1>2, <1>4, <2>1, <3>1
    <3>2. CASE l # sz + 1
      <4>1. l \in 1..sz
        BY <1>1, <3>2
      <4>2. QED BY <1>4, <2>1, <4>1 DEF Has
    <3>3. QED BY <3>1, <3>2
  <2>2. ASSUME NEW l \in 1..sz, m \in DOMAIN c.blocks[l], c.blocks[l][m] = j
        PROVE  Has(x, sz + 1, m, j)
    <3>1. l \in 1..(sz + 1) /\ m \in DOMAIN x.blocks[l] /\ x.blocks[l][m] = j
      BY <1>1, <1>4, <2>2
    <3>2. QED BY <3>1 DEF Has
  <2>3. Has(x, sz + 1, n, i)
    <3>1. sz + 1 \in 1..(sz + 1) /\ n \in DOMAIN x.blocks[sz + 1] /\ x.blocks[sz + 1][n] = i
      BY <1>1, <1>2, <1>4
    <3>2. QED BY <3>1 DEF Has
  <2>4. QED BY <2>1, <2>2, <2>3 DEF Has
<1>12. QED BY <1>4, <1>10, <1>11 DEF Took, x

-----------------------------------------------------------------------------
(* nextufs__insert_dirent and nextufs__remove_dirent.                      *)

\* A block of a directory is written.
PutBlock(s, r, k, f) == Put(s, [s EXCEPT !.content[r].blocks[k] = f])

BlockPut(s, r, k, f, x) ==
    /\ x \in Opened /\ x.content = [s.content EXCEPT ![r] = Replaced(s.content[r], k, f)]
    /\ x.runs = s.runs /\ x.inode = s.inode /\ x.iused = s.iused /\ x.rused = s.rused

LEMMA PutBlockDone ==
    ASSUME NEW s \in Opened, NEW r \in Runs, NEW k \in 1..Len(s.content[r].blocks), NEW f \in Blocks
    PROVE  BlockPut(s, r, k, f, PutBlock(s, r, k, f))
<1> DEFINE t == [s EXCEPT !.content[r].blocks[k] = f]
           c == Replaced(s.content[r], k, f)
<1>1. s.content[r] \in Content
  BY DEF Opened
<1>2. c \in Content
  BY <1>1, ReplacedFacts
<1>3. t = [s EXCEPT !.content[r] = c]
  BY DEF Replaced
<1>4. PutBlock(s, r, k, f) = Put(s, t)
  BY DEF PutBlock
<1> HIDE DEF t, c
<1>5. /\ t \in Opened /\ t.content = [s.content EXCEPT ![r] = c]
      /\ t.runs = s.runs /\ t.inode = s.inode /\ t.iused = s.iused /\ t.rused = s.rused
  BY <1>2, <1>3 DEF Opened
<1>6. PICK x : x = Put(s, t)
  OBVIOUS
<1>7. /\ x \in Opened /\ x.content = t.content
      /\ x.runs = t.runs /\ x.inode = t.inode /\ x.iused = t.iused /\ x.rused = t.rused
  BY <1>5, <1>6, PutEffect
<1>8. BlockPut(s, r, k, f, x)
  BY <1>5, <1>7 DEF BlockPut, c
<1>9. QED BY <1>4, <1>6, <1>8

LEMMA PutBlockEffect ==
    ASSUME NEW s \in Opened, NEW r \in Runs, NEW k \in 1..Len(s.content[r].blocks), NEW f \in Blocks
    PROVE  /\ PutBlock(s, r, k, f) \in Opened
           /\ PutBlock(s, r, k, f).content =
                 [s.content EXCEPT ![r] = Replaced(s.content[r], k, f)]
           /\ PutBlock(s, r, k, f).runs = s.runs /\ PutBlock(s, r, k, f).inode = s.inode
           /\ PutBlock(s, r, k, f).iused = s.iused /\ PutBlock(s, r, k, f).rused = s.rused
<1>1. BlockPut(s, r, k, f, PutBlock(s, r, k, f))
  BY PutBlockDone
<1>2. QED BY <1>1 DEF BlockPut

\* The parts of Insert.
Room(c, sz) == {k \in 1..sz : Cardinality(DOMAIN c.blocks[k]) < BlkNames}
Grown(node, to) == [node EXCEPT !.ino.size = @ + 1, !.ino.run = to]

InsertIs(s, node, n, i, way, run, c, sz, k, to, moved) ==
    /\ Room(c, sz) # {} =>
          Insert(s, node, n, i, way) =
             [ok |-> TRUE, node |-> node,
              s |-> WriteInode(PutBlock(s, run, k, With(c.blocks[k], n, i)), node)]
    /\ Room(c, sz) = {} /\ CanGrow(s, node, way) =>
          Insert(s, node, n, i, way) =
             [ok |-> TRUE, node |-> Grown(node, to),
              s |-> Fill(WriteInode(moved, Grown(node, to)), to, Longer(c, sz, With(<<>>, n, i)))]
    /\ Room(c, sz) = {} /\ ~CanGrow(s, node, way) =>
          Insert(s, node, n, i, way) = [ok |-> FALSE, node |-> node, s |-> s]

LEMMA InsertParts ==
    ASSUME NEW s, NEW node, NEW n, NEW i, NEW way, NEW run, run = node.ino.run,
           NEW c, c = s.content[run], NEW sz, sz = node.ino.size,
           NEW k, k = Lowest(Room(c, sz)), NEW to,
           to = IF way = "moved" THEN Lowest(FreeRuns(s)) ELSE run,
           NEW moved,
           moved = IF way = "moved"
                   THEN FreeRun(Fill(AllocRun(s, to), to, Longer(c, sz, <<>>)), run) ELSE s
    PROVE  InsertIs(s, node, n, i, way, run, c, sz, k, to, moved)
<1>1. ASSUME Room(c, sz) # {}
      PROVE  Insert(s, node, n, i, way) =
                [ok |-> TRUE, node |-> node,
                 s |-> WriteInode(PutBlock(s, run, k, With(c.blocks[k], n, i)), node)]
  <2>1. {l \in 1..node.ino.size : Cardinality(DOMAIN s.content[run].blocks[l]) < BlkNames} = Room(c, sz)
    BY DEF Room
  <2>2. PutBlock(s, run, k, With(c.blocks[k], n, i)) =
           Put(s, [s EXCEPT !.content[run].blocks[k] =
                       [x \in DOMAIN @ \cup {n} |-> IF x = n THEN i ELSE @[x]]])
    BY DEF With, PutBlock
  <2>3. QED BY <1>1, <2>1, <2>2, ZenonT(30) DEF Insert
<1>2. ASSUME Room(c, sz) = {}, CanGrow(s, node, way)
      PROVE  Insert(s, node, n, i, way) =
                [ok |-> TRUE, node |-> Grown(node, to),
                 s |-> Fill(WriteInode(moved, Grown(node, to)), to, Longer(c, sz, With(<<>>, n, i)))]
  BY <1>2 DEF Insert, Room, With, Grown, Longer
<1>3. ASSUME Room(c, sz) = {}, ~CanGrow(s, node, way)
      PROVE  Insert(s, node, n, i, way) = [ok |-> FALSE, node |-> node, s |-> s]
  BY <1>3 DEF Insert, Room
<1>4. QED BY <1>1, <1>2, <1>3 DEF InsertIs

\* The node of a directory that grew.
LEMMA GrownFacts ==
    ASSUME NEW node \in NodeSet, node.ino.size + 1 \in 0..MaxBlks, NEW to \in Runs
    PROVE  /\ Grown(node, to) \in NodeSet /\ Grown(node, to).no = node.no
           /\ Grown(node, to).ino.size = node.ino.size + 1 /\ Grown(node, to).ino.run = to
           /\ Grown(node, to).ino.kind = node.ino.kind /\ Grown(node, to).ino.nlink = node.ino.nlink
<1> DEFINE g == [node EXCEPT !.ino.size = node.ino.size + 1]
           h == [g EXCEPT !.ino.run = to]
<1>1. /\ g \in NodeSet /\ g.no = node.no /\ g.ino.size = node.ino.size + 1
      /\ g.ino.kind = node.ino.kind /\ g.ino.nlink = node.ino.nlink
  BY DEF NodeSet, Inode
<1>2. Grown(node, to) = h
  BY DEF Grown
<1> HIDE DEF g
<1>3. /\ h \in NodeSet /\ h.no = g.no /\ h.ino.size = g.ino.size /\ h.ino.run = to
      /\ h.ino.kind = g.ino.kind /\ h.ino.nlink = g.ino.nlink
  BY <1>1 DEF NodeSet, Inode
<1> HIDE DEF h
<1>4. QED BY <1>1, <1>2, <1>3

\* The node is inode p as the image has it.
At(s, node, p) == node \in NodeSet /\ node.no = p /\ node.ino = s.inode[p]

\* What Insert answers: the entries V, or nothing changed.
Inserted(s, V, U, p, node, ins) ==
    /\ ins.ok \in BOOLEAN /\ ins.s \in Opened
    /\ ~ins.ok => ins.s = s /\ ins.node = node
    /\ ins.ok => /\ Base(ins.s, V, U) /\ At(ins.s, ins.node, p)
                 /\ ins.s.iused = s.iused
                 /\ \A j \in Inodes : j # p => ins.s.inode[j] = s.inode[j]
                 /\ ins.s.inode[p].kind = s.inode[p].kind
                 /\ ins.s.inode[p].nlink = s.inode[p].nlink
    /\ Room(InDir(s, p), s.inode[p].size) # {} => ins.ok /\ ins.node = node

LEMMA FreeRunFacts ==
    ASSUME NEW s, Typed(s), FreeRuns(s) # {}
    PROVE  Lowest(FreeRuns(s)) \in Runs /\ Lowest(FreeRuns(s)) \notin s.rused
<1>1. FreeRuns(s) \subseteq Runs /\ Runs \subseteq Nat
  BY NamespaceAssumption DEF Typed, FreeRuns
<1>2. Lowest(FreeRuns(s)) \in FreeRuns(s)
  BY <1>1, LowestFacts
<1>3. QED BY <1>1, <1>2 DEF FreeRuns

LEMMA EntriesAdded ==
    ASSUME NEW T, T \subseteq Edge, NEW p \in Inodes, NEW n \in Names, NEW i \in Inodes,
           NEW V, V = T \cup {<<p, n, i>>}
    PROVE  /\ V \subseteq Edge
           /\ \A d \in Inodes, m \in Names, j \in Inodes :
                 <<d, m, j>> \in V <=> <<d, m, j>> \in T \/ (d = p /\ m = n /\ j = i)
  BY DEF Edge

\* The state t a directory p is left in that took the name n.
LEMMA TookBase ==
    ASSUME NEW s, NEW T, NEW U, Base(s, T, U), NEW p \in Inodes, IsDir(s, p),
           NEW n \in Names, NEW i \in Inodes, NEW V, V = T \cup {<<p, n, i>>},
           NEW t, Typed(t), Elsewhere(s, t, p), t.iused = s.iused,
           t.inode[p].kind = "dir", t.inode[p].run \in Runs,
           Took(InDir(s, p), InDir(t, p), s.inode[p].size, t.inode[p].size, n, i)
    PROVE  Base(t, V, U)
<1>1. T \subseteq Edge
  BY DEF Base, Lists
<1>2. /\ V \subseteq Edge
      /\ \A d \in Inodes, m \in Names, j \in Inodes :
            <<d, m, j>> \in V <=> <<d, m, j>> \in T \/ (d = p /\ m = n /\ j = i)
  BY <1>1, EntriesAdded
<1>3. p \in t.iused
  BY DEF Base, Owned, IsDir, Cleared
<1>4. Here(t, V, U, p)
  <2>1. IsDir(t, p) /\ Neat(InDir(t, p), t.inode[p].size) /\ InDir(t, p).dotdot = U[p]
    BY DEF IsDir, Took, Base, Ups
  <2>2. ASSUME NEW m \in Names, NEW j \in Inodes
        PROVE  <<p, m, j>> \in V <=> Has(InDir(t, p), t.inode[p].size, m, j)
    <3>1. <<p, m, j>> \in T <=> Has(InDir(s, p), s.inode[p].size, m, j)
      BY DEF Base, Lists
    <3>2. QED BY <1>2, <3>1 DEF Took
  <2>3. QED BY <1>3, <2>1, <2>2 DEF Here
<1>5. U \in [Inodes -> Inodes]
  BY DEF Base
<1>6. \A d \in Inodes, m \in Names, j \in Inodes :
         d # p => (<<d, m, j>> \in V <=> <<d, m, j>> \in T)
  BY <1>2
<1>7. QED BY <1>2, <1>4, <1>5, <1>6, BaseStep

LEMMA DirFacts ==
    ASSUME NEW s, NEW T, NEW U, Base(s, T, U), NEW p \in Inodes, IsDir(s, p)
    PROVE  /\ s.inode[p].run \in Runs /\ s.inode[p].run \in s.rused
           /\ InDir(s, p) \in Content /\ Neat(InDir(s, p), s.inode[p].size)
           /\ s.inode[p].size \in 0..Len(InDir(s, p).blocks) /\ Len(InDir(s, p).blocks) \in Nat
           /\ s.inode[p].size \in 0..MaxBlks
           /\ p \in s.iused
<1>1. s.inode[p].run \in Runs /\ Neat(InDir(s, p), s.inode[p].size)
  BY DEF Base, Owned
<1>2. s.inode[p].run \in s.rused
  BY <1>1 DEF Base, Owned
<1>3. InDir(s, p) \in Content
  BY <1>1 DEF Base, Typed, InDir
<1>4. p \in s.iused
  BY DEF Base, Owned, IsDir, Cleared
<1>5. QED BY <1>1, <1>2, <1>3, <1>4, ContentTyped, InodeTyped DEF Neat, Base

LEMMA InsertBase ==
    ASSUME NEW s \in Opened, NEW T, NEW U, Base(s, T, U), NEW p \in Inodes, IsDir(s, p),
           NEW node, At(s, node, p), NEW n \in Names, NEW i \in Inodes, NEW way \in Ways,
           \A j \in Inodes : <<p, n, j>> \notin T, NEW V, V = T \cup {<<p, n, i>>}
    PROVE  Inserted(s, V, U, p, node, Insert(s, node, n, i, way))
<1> DEFINE run == s.inode[p].run
           c == InDir(s, p)
           sz == s.inode[p].size
           ins == Insert(s, node, n, i, way)
<1>1. /\ run \in Runs /\ run \in s.rused /\ c \in Content /\ Neat(c, sz)
      /\ sz \in 0..Len(c.blocks) /\ Len(c.blocks) \in Nat /\ sz \in 0..MaxBlks
  BY DirFacts
<1>2. node \in NodeSet /\ node.no = p /\ node.ino = s.inode[p] /\ node.ino.run = run
      /\ node.ino.size = sz /\ c = s.content[run] /\ s.inode[p] \in Inode
  BY InodeTyped DEF At, InDir, Base
<1>3. \A j \in Inodes : ~Has(c, sz, n, j)
  BY DEF Base, Lists
<1>4. Typed(s) /\ s.inode[p].kind = "dir"
  BY DEF Base, IsDir
<1>8. PICK k : k = Lowest(Room(c, sz))
  OBVIOUS
<1>9. PICK to : to = IF way = "moved" THEN Lowest(FreeRuns(s)) ELSE run
  OBVIOUS
<1>10. PICK moved : moved = IF way = "moved"
                            THEN FreeRun(Fill(AllocRun(s, to), to, Longer(c, sz, <<>>)), run) ELSE s
  OBVIOUS
<1>11. InsertIs(s, node, n, i, way, run, c, sz, k, to, moved)
  <2> HIDE DEF c, sz, run
  <2>1. QED BY <1>2, <1>8, <1>9, <1>10, InsertParts
<1>5. CASE Room(c, sz) # {}
  <2> DEFINE f == With(c.blocks[k], n, i)
             s1 == PutBlock(s, run, k, f)
             t == WriteInode(s1, node)
  <2>1. k \in 1..sz /\ Cardinality(DOMAIN c.blocks[k]) < BlkNames
    <3>1. Room(c, sz) \in SUBSET Nat
      BY <1>1 DEF Room
    <3>2. Lowest(Room(c, sz)) \in Room(c, sz)
      BY <1>5, <3>1, LowestFacts
    <3>3. QED BY <1>8, <3>2 DEF Room
  <2>2. ins = [ok |-> TRUE, node |-> node, s |-> t]
    <3> HIDE DEF c, sz, run
    <3>1. QED BY <1>5, <1>11 DEF InsertIs
  <2>3. f = With(c.blocks[k], n, i)
    OBVIOUS
  <2> HIDE DEF f
  <2>4. f \in Blocks /\ Took(c, Replaced(c, k, f), sz, sz, n, i)
    <3> HIDE DEF c, sz
    <3>1. QED BY <1>1, <1>3, <2>1, <2>3, TookInRoom
  <2>5. k \in 1..Len(s.content[run].blocks)
    BY <1>1, <1>2, <2>1
  <2>6. /\ s1 \in Opened /\ s1.content = [s.content EXCEPT ![run] = Replaced(c, k, f)]
        /\ s1.inode = s.inode /\ s1.iused = s.iused /\ s1.rused = s.rused
    <3> HIDE DEF run
    <3>1. QED BY <1>1, <1>2, <2>4, <2>5, PutBlockEffect
  <2> HIDE DEF s1
  <2>7. /\ t \in Opened /\ t.inode = [s.inode EXCEPT ![p] = node.ino]
        /\ t.content = s1.content /\ t.iused = s.iused /\ t.rused = s.rused
    BY <1>2, <2>6, WriteInodeEffect
  <2> HIDE DEF t
  <2>8. t.inode = s.inode
    BY <1>2, <1>4, <2>7 DEF Typed
  <2>9. InDir(t, p) = Replaced(c, k, f)
    BY <1>1, <1>4, <2>6, <2>7, <2>8 DEF InDir, Typed
  <2>10. Elsewhere(s, t, p)
    BY <1>1, <1>4, <2>6, <2>7, <2>8 DEF Elsewhere, Typed
  <2>11. Took(InDir(s, p), InDir(t, p), s.inode[p].size, t.inode[p].size, n, i)
    BY <2>4, <2>8, <2>9
  <2>12. Typed(t)
    BY <2>7, OpenedTyped
  <2>13. Base(t, V, U)
    BY <1>1, <1>4, <2>7, <2>8, <2>10, <2>11, <2>12, TookBase
  <2>14. At(t, node, p)
    BY <1>2, <2>8 DEF At
  <2>15. ins.ok \in BOOLEAN /\ ins.ok /\ ins.node = node /\ ins.s = t
    BY <2>2
  <2>16. QED BY <2>7, <2>8, <2>13, <2>14, <2>15 DEF Inserted
<1>6. CASE Room(c, sz) = {} /\ ~CanGrow(s, node, way)
  <2>1. ins = [ok |-> FALSE, node |-> node, s |-> s]
    <3> HIDE DEF c, sz, run
    <3>1. QED BY <1>6, <1>11 DEF InsertIs
  <2>2. ins.ok \in BOOLEAN /\ ~ins.ok /\ ins.node = node /\ ins.s = s
    BY <2>1
  <2>3. QED BY <1>6, <2>2 DEF Inserted
<1>7. CASE Room(c, sz) = {} /\ CanGrow(s, node, way)
  <2> DEFINE g == Grown(node, to)
             x == Longer(c, sz, With(<<>>, n, i))
             s1 == WriteInode(moved, g)
             t == Fill(s1, to, x)
  <2>1. way # "full" /\ sz < MaxBlks /\ (way = "moved" => FreeRuns(s) # {})
    BY <1>2, <1>7 DEF CanGrow
  <2>2. to \in Runs /\ (way = "moved" => to \notin s.rused) /\ (way # "moved" => to = run)
    BY <1>1, <1>4, <1>9, <2>1, FreeRunFacts
  <2>3. ins = [ok |-> TRUE, node |-> g, s |-> t]
    <3> HIDE DEF c, sz, run
    <3>1. QED BY <1>7, <1>11 DEF InsertIs
  <2>4. PICK f : f = With(<<>>, n, i)
    OBVIOUS
  <2>5. f = [y \in {n} |-> i]
    BY <2>4 DEF With
  <2>6. Took(c, x, sz, sz + 1, n, i)
    <3>1. x = Longer(c, sz, f)
      BY <2>4
    <3> HIDE DEF c, sz, x
    <3>2. QED BY <1>1, <1>3, <2>5, <3>1, TookBehind
  <2>7. x \in Content
    <3> HIDE DEF x
    <3>1. QED BY <2>6 DEF Took
  <2> HIDE DEF x
  <2>8. /\ moved \in Opened /\ moved.inode = s.inode /\ moved.iused = s.iused
        /\ \A r \in Runs : r \in moved.rused <=> (r \in s.rused /\ r # run) \/ r = to
        /\ \A r \in Runs : r # to => moved.content[r] = s.content[r]
    <3>1. CASE way # "moved"
      <4>1. moved = s /\ to = run
        BY <1>10, <2>2, <3>1
      <4>2. QED BY <1>1, <4>1
    <3>2. CASE way = "moved"
      <4>9. PICK l \in Content : l = Longer(c, sz, <<>>)
        BY <1>1, LongerIs, EmptyBlock
      <4> HIDE DEF c, run, sz
      <4>1. PICK m1 : m1 = AllocRun(s, to)
        OBVIOUS
      <4>2. PICK m2 : m2 = Fill(m1, to, l)
        OBVIOUS
      <4>3. /\ m1 \in Opened /\ m1.rused = s.rused \cup {to} /\ m1.inode = s.inode
            /\ m1.content = s.content /\ m1.iused = s.iused
        BY <2>2, <4>1, RunMapEffect
      <4>4. /\ m2 \in Opened /\ m2.rused = s.rused \cup {to} /\ m2.inode = s.inode
            /\ m2.content = [s.content EXCEPT ![to] = l] /\ m2.iused = s.iused
        BY <1>1, <2>2, <4>2, <4>3, FillEffect
      <4>5. moved = FreeRun(m2, run)
        BY <1>10, <3>2, <4>1, <4>2, <4>9
      <4>6. /\ moved \in Opened /\ moved.rused = m2.rused \ {run} /\ moved.inode = s.inode
            /\ moved.content = m2.content /\ moved.iused = s.iused
        BY <1>1, <4>4, <4>5, RunMapEffect
      <4>7. to # run
        BY <1>1, <2>2, <3>2
      <4>8. QED BY <1>4, <2>2, <4>4, <4>6, <4>7 DEF Typed
    <3>3. QED BY <3>1, <3>2
  <2>9. /\ g \in NodeSet /\ g.no = p /\ g.ino.size = sz + 1 /\ g.ino.run = to
        /\ g.ino.kind = "dir" /\ g.ino.nlink = s.inode[p].nlink
    <3>1. node.ino.size + 1 \in 0..MaxBlks
      BY <1>1, <1>2, <2>1, NamespaceAssumption
    <3>2. QED BY <1>2, <1>4, <2>2, <3>1, GrownFacts
  <2> HIDE DEF g
  <2>10. /\ s1 \in Opened /\ s1.inode = [s.inode EXCEPT ![p] = g.ino] /\ s1.iused = s.iused
         /\ s1.content = moved.content /\ s1.rused = moved.rused
    BY <2>8, <2>9, WriteInodeEffect
  <2> HIDE DEF s1
  <2>11. /\ t \in Opened /\ t.inode = [s.inode EXCEPT ![p] = g.ino] /\ t.iused = s.iused
         /\ t.content = [moved.content EXCEPT ![to] = x] /\ t.rused = moved.rused
    BY <2>2, <2>7, <2>10, FillEffect
  <2> HIDE DEF t
  <2>12. t.inode[p] = g.ino /\ \A j \in Inodes : j # p => t.inode[j] = s.inode[j]
    BY <1>4, <2>11 DEF Typed
  <2>13. InDir(t, p) = x
    BY <2>2, <2>8, <2>9, <2>11, <2>12 DEF InDir, Opened
  <2>14. \A r \in s.rused : r # run => t.content[r] = s.content[r]
    <3>1. \A r \in s.rused : r \in Runs
      BY <1>4 DEF Typed
    <3>2. \A r \in s.rused : r # run => r # to
      BY <2>2
    <3>3. \A r \in Runs : r # to => t.content[r] = moved.content[r]
      BY <2>8, <2>11 DEF Opened
    <3>4. QED BY <2>8, <3>1, <3>2, <3>3
  <2>15. Elsewhere(s, t, p)
    <3>1. \A r \in Runs : r \in t.rused <=> (r \in s.rused /\ r # run) \/ r = to
      BY <2>8, <2>11
    <3>2. to = run \/ to \notin s.rused
      BY <2>2
    <3>3. QED BY <2>9, <2>11, <2>12, <2>14, <3>1, <3>2 DEF Elsewhere
  <2>16. Took(InDir(s, p), InDir(t, p), s.inode[p].size, t.inode[p].size, n, i)
    BY <2>6, <2>9, <2>12, <2>13
  <2>17. Typed(t)
    BY <2>11, OpenedTyped
  <2>18. Base(t, V, U)
    <3>1. t.inode[p].kind = "dir" /\ t.inode[p].run \in Runs /\ t.iused = s.iused
      BY <2>2, <2>9, <2>11, <2>12
    <3>2. QED BY <2>15, <2>16, <2>17, <3>1, TookBase
  <2>19. At(t, g, p)
    BY <2>9, <2>12 DEF At
  <2>20. ins.ok \in BOOLEAN /\ ins.ok /\ ins.node = g /\ ins.s = t
    BY <2>3
  <2>21. QED BY <1>4, <1>7, <2>9, <2>11, <2>12, <2>18, <2>19, <2>20 DEF Inserted
<1>12. QED BY <1>5, <1>6, <1>7

\* The blocks that name n, and the parts of Remove.
Naming(c, sz, n) == {k \in 1..sz : n \in DOMAIN c.blocks[k]}

RemoveIs(s, node, n, run, c, sz, k) ==
    /\ Naming(c, sz, n) # {} =>
          Remove(s, node, n) =
             [ok |-> TRUE, node |-> node,
              s |-> WriteInode(PutBlock(s, run, k, Without(c.blocks[k], n)), node)]
    /\ Naming(c, sz, n) = {} => Remove(s, node, n) = [ok |-> FALSE, node |-> node, s |-> s]

LEMMA RemoveParts ==
    ASSUME NEW s, NEW node, NEW n, NEW run, run = node.ino.run,
           NEW c, c = s.content[run], NEW sz, sz = node.ino.size,
           NEW k, k = Lowest(Naming(c, sz, n))
    PROVE  RemoveIs(s, node, n, run, c, sz, k)
<1>1. ASSUME Naming(c, sz, n) # {}
      PROVE  Remove(s, node, n) =
                [ok |-> TRUE, node |-> node,
                 s |-> WriteInode(PutBlock(s, run, k, Without(c.blocks[k], n)), node)]
  BY <1>1, ZenonT(30) DEF Remove, Naming, Without, PutBlock
<1>2. ASSUME Naming(c, sz, n) = {}
      PROVE  Remove(s, node, n) = [ok |-> FALSE, node |-> node, s |-> s]
  BY <1>2 DEF Remove, Naming
<1>3. QED BY <1>1, <1>2 DEF RemoveIs

\* Also a node that no longer agrees with the image leaves the types as they are.
LEMMA RemoveTyped ==
    ASSUME NEW s \in Opened, NEW node \in NodeSet, node.ino.run \in Runs, NEW n
    PROVE  /\ Remove(s, node, n).s \in Opened /\ Remove(s, node, n).node = node
           /\ \/ Remove(s, node, n).s.inode = s.inode
              \/ Remove(s, node, n).s.inode = [s.inode EXCEPT ![node.no] = node.ino]
<1>1. PICK run : run = node.ino.run
  OBVIOUS
<1>2. PICK c : c = s.content[run]
  OBVIOUS
<1>3. PICK sz : sz = node.ino.size
  OBVIOUS
<1>4. PICK k : k = Lowest(Naming(c, sz, n))
  OBVIOUS
<1>5. RemoveIs(s, node, n, run, c, sz, k)
  BY <1>1, <1>2, <1>3, <1>4, RemoveParts
<1>6. CASE Naming(c, sz, n) = {}
  <2>1. Remove(s, node, n) = [ok |-> FALSE, node |-> node, s |-> s]
    BY <1>5, <1>6 DEF RemoveIs
  <2>2. QED BY <2>1
<1>7. CASE Naming(c, sz, n) # {}
  <2>1. PICK f : f = Without(c.blocks[k], n)
    OBVIOUS
  <2>2. PICK s1 : s1 = PutBlock(s, run, k, f)
    OBVIOUS
  <2>3. Remove(s, node, n) = [ok |-> TRUE, node |-> node, s |-> WriteInode(s1, node)]
    BY <1>5, <1>7, <2>1, <2>2 DEF RemoveIs
  <2>4. run \in Runs /\ c \in Content
    BY <1>1, <1>2 DEF Opened
  <2>5. s1 \in Opened /\ s1.inode = s.inode
    <3>1. CASE k \in 1..Len(c.blocks)
      <4>1. c.blocks[k] \in Blocks
        BY <2>4, <3>1, ContentTyped
      <4>2. f \in [DOMAIN c.blocks[k] \ {n} -> Inodes] /\ DOMAIN c.blocks[k] \ {n} \in SUBSET Names
        BY <2>1, <4>1, BlockTyped DEF Without
      <4>3. f \in Blocks
        BY <4>2 DEF Blocks
      <4>4. s \in Opened /\ run \in Runs /\ k \in 1..Len(s.content[run].blocks) /\ f \in Blocks
        BY <1>2, <2>4, <3>1, <4>3
      <4>5. BlockPut(s, run, k, f, PutBlock(s, run, k, f))
        BY ONLY <4>4, PutBlockDone
      <4>6. QED BY <2>2, <4>5 DEF BlockPut
    <3>2. CASE k \notin 1..Len(c.blocks)
      <4>1. c.blocks \in Seq(Blocks) /\ DOMAIN c.blocks = 1..Len(c.blocks)
        BY <2>4, ContentTyped
      <4>2. [c.blocks EXCEPT ![k] = f] = c.blocks
        BY <3>2, <4>1
      <4>3. [c EXCEPT !.blocks = [c.blocks EXCEPT ![k] = f]] = c
        BY <2>4, <4>2 DEF Content
      <4>4. [s.content EXCEPT ![run] = c] = s.content
        BY <1>2, <2>4 DEF Opened
      <4>5. [s EXCEPT !.content = s.content] = s
        BY DEF Opened
      <4>6. [s EXCEPT !.content[run].blocks[k] = f] = s
        BY <1>2, <4>3, <4>4, <4>5
      <4>7. s1 = Put(s, s)
        BY <2>2, <4>6 DEF PutBlock
      <4>8. QED BY <4>7, PutEffect
    <3>3. QED BY <3>1, <3>2
  <2>6. /\ WriteInode(s1, node) \in Opened
        /\ WriteInode(s1, node).inode = [s.inode EXCEPT ![node.no] = node.ino]
    BY <2>5, WriteInodeEffect
  <2>7. QED BY <2>3, <2>6
<1>8. QED BY <1>6, <1>7

\* What Remove answers of a name that is there.
Removed(s, V, U, p, node, rem) ==
    /\ rem.ok /\ rem.node = node /\ rem.s \in Opened
    /\ Base(rem.s, V, U)
    /\ rem.s.inode = s.inode /\ rem.s.iused = s.iused
    /\ Room(InDir(rem.s, p), s.inode[p].size) # {}

LEMMA EntryRemoved ==
    ASSUME NEW T, T \subseteq Edge, NEW p \in Inodes, NEW n \in Names, NEW i \in Inodes,
           \A j \in Inodes : <<p, n, j>> \in T => j = i,
           NEW V, V = T \ {<<p, n, i>>}
    PROVE  /\ V \subseteq Edge
           /\ \A d \in Inodes, m \in Names, j \in Inodes :
                 <<d, m, j>> \in V <=> <<d, m, j>> \in T /\ ~(d = p /\ m = n)
  BY DEF Edge

LEMMA LostBase ==
    ASSUME NEW s, NEW T, NEW U, Base(s, T, U), NEW p \in Inodes, IsDir(s, p),
           NEW n \in Names, NEW i \in Inodes, \A j \in Inodes : <<p, n, j>> \in T => j = i,
           NEW V, V = T \ {<<p, n, i>>},
           NEW t, Typed(t), Elsewhere(s, t, p), t.iused = s.iused, t.inode = s.inode,
           Lost(InDir(s, p), InDir(t, p), s.inode[p].size, n)
    PROVE  Base(t, V, U)
<1>1. T \subseteq Edge
  BY DEF Base, Lists
<1>2. /\ V \subseteq Edge
      /\ \A d \in Inodes, m \in Names, j \in Inodes :
            <<d, m, j>> \in V <=> <<d, m, j>> \in T /\ ~(d = p /\ m = n)
  BY <1>1, EntryRemoved
<1>3. p \in t.iused /\ t.inode[p].run \in Runs
  BY DirFacts
<1>4. Here(t, V, U, p)
  <2>1. IsDir(t, p) /\ Neat(InDir(t, p), t.inode[p].size) /\ InDir(t, p).dotdot = U[p]
    BY DEF IsDir, Lost, Base, Ups
  <2>2. ASSUME NEW m \in Names, NEW j \in Inodes
        PROVE  <<p, m, j>> \in V <=> Has(InDir(t, p), t.inode[p].size, m, j)
    <3>1. <<p, m, j>> \in T <=> Has(InDir(s, p), s.inode[p].size, m, j)
      BY DEF Base, Lists
    <3>2. QED BY <1>2, <3>1 DEF Lost
  <2>3. t.inode[p].kind # "free"
    BY <2>1 DEF IsDir
  <2>4. QED BY <1>3, <2>1, <2>2, <2>3 DEF Here
<1>5. U \in [Inodes -> Inodes]
  BY DEF Base
<1>6. \A d \in Inodes, m \in Names, j \in Inodes :
         d # p => (<<d, m, j>> \in V <=> <<d, m, j>> \in T)
  BY <1>2
<1>7. QED BY <1>2, <1>4, <1>5, <1>6, BaseStep

LEMMA RemoveBase ==
    ASSUME NEW s \in Opened, NEW T, NEW U, Base(s, T, U), NEW p \in Inodes, IsDir(s, p),
           NEW node, At(s, node, p), NEW n \in Names, NEW i \in Inodes, <<p, n, i>> \in T,
           \A j \in Inodes : <<p, n, j>> \in T => j = i,
           NEW V, V = T \ {<<p, n, i>>}
    PROVE  Removed(s, V, U, p, node, Remove(s, node, n))
<1>1. PICK run : run = s.inode[p].run
  OBVIOUS
<1>2. PICK c : c = InDir(s, p)
  OBVIOUS
<1>3. PICK sz : sz = s.inode[p].size
  OBVIOUS
<1>4. PICK k : k = Lowest(Naming(c, sz, n))
  OBVIOUS
<1>5. PICK f : f = Without(c.blocks[k], n)
  OBVIOUS
<1>6. PICK s1 : s1 = PutBlock(s, run, k, f)
  OBVIOUS
<1>7. PICK t : t = WriteInode(s1, node)
  OBVIOUS
<1>8. /\ run \in Runs /\ run \in s.rused /\ c \in Content /\ Neat(c, sz)
      /\ sz \in 0..Len(c.blocks) /\ Len(c.blocks) \in Nat
  BY <1>1, <1>2, <1>3, DirFacts
<1>9. node \in NodeSet /\ node.no = p /\ node.ino = s.inode[p] /\ node.ino.run = run
      /\ node.ino.size = sz /\ c = s.content[run]
  BY <1>1, <1>2, <1>3 DEF At, InDir
<1>10. Typed(s)
  BY DEF Base
<1>11. k \in 1..sz /\ n \in DOMAIN c.blocks[k] /\ Naming(c, sz, n) # {}
  <2>1. Has(c, sz, n, i)
    BY <1>2, <1>3 DEF Base, Lists
  <2>2. Naming(c, sz, n) # {}
    BY <2>1 DEF Has, Naming
  <2>3. Naming(c, sz, n) \in SUBSET Nat
    BY <1>8 DEF Naming
  <2>4. Lowest(Naming(c, sz, n)) \in Naming(c, sz, n)
    BY <2>2, <2>3, LowestFacts
  <2>5. QED BY <1>4, <2>2, <2>4 DEF Naming
<1>12. Remove(s, node, n) = [ok |-> TRUE, node |-> node, s |-> t]
  <2>1. RemoveIs(s, node, n, run, c, sz, k)
    BY <1>4, <1>9, RemoveParts
  <2>2. QED BY <1>5, <1>6, <1>7, <1>11, <2>1 DEF RemoveIs
<1>13. f \in Blocks /\ Lost(c, Replaced(c, k, f), sz, n)
  BY <1>5, <1>8, <1>11, LostFrom
<1>14. k \in 1..Len(c.blocks)
  BY <1>8, <1>11
<1>15. /\ s1 \in Opened /\ s1.content = [s.content EXCEPT ![run] = Replaced(c, k, f)]
       /\ s1.inode = s.inode /\ s1.iused = s.iused /\ s1.rused = s.rused
  BY <1>6, <1>8, <1>9, <1>13, <1>14, PutBlockEffect
<1>16. /\ t \in Opened /\ t.inode = [s.inode EXCEPT ![p] = node.ino]
       /\ t.content = s1.content /\ t.iused = s.iused /\ t.rused = s.rused
  BY <1>7, <1>9, <1>15, WriteInodeEffect
<1>17. t.inode = s.inode
  BY <1>9, <1>10, <1>16 DEF Typed
<1>18. InDir(t, p) = Replaced(c, k, f)
  BY <1>1, <1>8, <1>10, <1>15, <1>16, <1>17 DEF InDir, Typed
<1>19. Elsewhere(s, t, p)
  BY <1>1, <1>8, <1>10, <1>15, <1>16, <1>17 DEF Elsewhere, Typed
<1>20. Base(t, V, U)
  <2>1. Lost(InDir(s, p), InDir(t, p), s.inode[p].size, n)
    BY <1>2, <1>3, <1>13, <1>18
  <2>2. Typed(t)
    BY <1>16, OpenedTyped
  <2>3. QED BY <1>16, <1>17, <1>19, <2>1, <2>2, LostBase
<1>21. k \in Room(InDir(t, p), sz)
  <2>1. c.blocks[k] \in Blocks
    BY <1>8, <1>14, ContentTyped
  <2>2. IsFiniteSet(DOMAIN c.blocks[k]) /\ Cardinality(DOMAIN c.blocks[k]) \in Nat
    BY <2>1, BlockFinite
  <2>3. DOMAIN f = DOMAIN c.blocks[k] \ {n}
    BY <1>5 DEF Without
  <2>4. Cardinality(DOMAIN f) = Cardinality(DOMAIN c.blocks[k]) - 1
    <3>1. PICK b : b = DOMAIN c.blocks[k]
      OBVIOUS
    <3>2. Cardinality(b \ {n}) = Cardinality(b) - 1
      BY <1>11, <2>2, <3>1, FS_RemoveElement
    <3>3. QED BY <2>3, <3>1, <3>2
  <2>5. Cardinality(DOMAIN c.blocks[k]) <= BlkNames
    BY <1>8, <1>11 DEF Neat
  <2>6. Cardinality(DOMAIN f) < BlkNames
    BY <2>2, <2>4, <2>5, NamespaceAssumption
  <2>7. InDir(t, p).blocks[k] = f
    BY <1>8, <1>13, <1>14, <1>18, ReplacedFacts
  <2>8. QED BY <1>11, <2>6, <2>7 DEF Room
<1>22. QED BY <1>3, <1>12, <1>16, <1>17, <1>20, <1>21 DEF Removed

-----------------------------------------------------------------------------
(* The other writes of the calls.                                          *)

LEMMA DiscardEffect ==
    ASSUME NEW s \in Opened, NEW node \in NodeSet
    PROVE  /\ Discard(s, node) \in Opened
           /\ Discard(s, node).inode = [s.inode EXCEPT ![node.no] = Cleared]
           /\ Discard(s, node).iused = s.iused \ {node.no}
           /\ Discard(s, node).rused = s.rused \ {node.ino.run}
           /\ Discard(s, node).content = s.content
<1>1. node.no \in Inodes /\ node.ino \in Inode
  BY DEF NodeSet
<1>2. PICK s1 : s1 = FreeStorage(s, node.ino)
  OBVIOUS
<1>3. PICK s2 : s2 = ClearInode(s1, node.no)
  OBVIOUS
<1>4. Discard(s, node) = FreeInode(s2, node.no)
  BY <1>2, <1>3 DEF Discard
<1>5. s1 \in Opened /\ s1.rused = s.rused \ {node.ino.run} /\ s1.inode = s.inode
      /\ s1.iused = s.iused /\ s1.content = s.content
  BY <1>1, <1>2, FreeStorageEffect
<1>6. s2 \in Opened /\ s2.rused = s1.rused /\ s2.inode = [s1.inode EXCEPT ![node.no] = Cleared]
      /\ s2.iused = s1.iused /\ s2.content = s1.content
  BY <1>1, <1>3, <1>5, ClearInodeEffect
<1>7. QED BY <1>1, <1>4, <1>5, <1>6, InodeMapEffect

\* An inode goes, with its storage.
Discarded(s, T, U, i, x) ==
    /\ x \in Opened /\ Base(x, T, U)
    /\ x.inode = [s.inode EXCEPT ![i] = Cleared]
    /\ x.iused = s.iused \ {i} /\ x.content = s.content

LEMMA DiscardBase ==
    ASSUME NEW s \in Opened, NEW T, NEW U, Base(s, T, U), NEW i \in Inodes,
           NEW node, At(s, node, i), \A m \in Names, j \in Inodes : <<i, m, j>> \notin T
    PROVE  Discarded(s, T, U, i, Discard(s, node))
<1>1. PICK x : x = Discard(s, node)
  OBVIOUS
<1>2. node \in NodeSet /\ node.no = i /\ node.ino = s.inode[i]
  BY DEF At
<1>3. /\ x \in Opened /\ x.inode = [s.inode EXCEPT ![i] = Cleared] /\ x.iused = s.iused \ {i}
      /\ x.rused = s.rused \ {s.inode[i].run} /\ x.content = s.content
  BY <1>1, <1>2, DiscardEffect
<1>4. Typed(s) /\ Typed(x)
  BY <1>3, OpenedTyped
<1>5. x.inode[i] = Cleared /\ \A j \in Inodes : j # i => x.inode[j] = s.inode[j]
  BY <1>3, <1>4 DEF Typed
<1>6. x.inode[i].run = 0 /\ ~IsDir(x, i)
  BY <1>5 DEF Cleared, IsDir
<1>7. Elsewhere(s, x, i)
  <2>1. 0 \notin Runs /\ 0 \notin s.rused
    BY <1>4, RootInode DEF Typed
  <2>2. QED BY <1>3, <1>4, <1>5, <1>6, <2>1 DEF Elsewhere
<1>8. Here(x, T, U, i)
  BY <1>3, <1>5, <1>6 DEF Here
<1>9. T \subseteq Edge /\ U \in [Inodes -> Inodes]
  BY DEF Base, Lists
<1>10. Base(x, T, U)
  BY <1>4, <1>7, <1>8, <1>9, BaseStep
<1>11. QED BY <1>1, <1>3, <1>10 DEF Discarded

\* An inode is written with another link count, or as it is.
Recounted(s, T, U, node, x) ==
    /\ x \in Opened /\ Base(x, T, U)
    /\ x.inode = [s.inode EXCEPT ![node.no] = node.ino]
    /\ x.iused = s.iused /\ x.content = s.content

LEMMA RecountBase ==
    ASSUME NEW s \in Opened, NEW T, NEW U, Base(s, T, U), NEW node \in NodeSet,
           NEW i \in s.iused, node.no = i,
           node.ino.kind = s.inode[i].kind, node.ino.size = s.inode[i].size,
           node.ino.run = s.inode[i].run
    PROVE  Recounted(s, T, U, node, WriteInode(s, node))
<1>1. PICK x : x = WriteInode(s, node)
  OBVIOUS
<1>2. /\ x \in Opened /\ x.inode = [s.inode EXCEPT ![i] = node.ino] /\ x.iused = s.iused
      /\ x.rused = s.rused /\ x.content = s.content
  BY <1>1, WriteInodeEffect
<1>3. Typed(s) /\ Typed(x) /\ i \in Inodes
  BY <1>2, OpenedTyped DEF Typed
<1>4. x.inode[i] = node.ino /\ \A j \in Inodes : j # i => x.inode[j] = s.inode[j]
  BY <1>2, <1>3 DEF Typed
<1>5. InDir(x, i) = InDir(s, i) /\ (IsDir(x, i) <=> IsDir(s, i))
      /\ x.inode[i].size = s.inode[i].size /\ x.inode[i].run = s.inode[i].run
  BY <1>2, <1>4 DEF InDir, IsDir
<1>6. Elsewhere(s, x, i)
  <2>1. \A r \in Runs : r = s.inode[i].run => r \in s.rused
    BY <1>3 DEF Base, Owned
  <2>2. QED BY <1>2, <1>4, <1>5, <2>1 DEF Elsewhere
<1>7. Here(x, T, U, i)
  <2>1. node.ino.kind # "free"
    BY DEF Base, Owned
  <2>2. IsDir(x, i) => /\ x.inode[i].run \in Runs /\ Neat(InDir(x, i), x.inode[i].size)
                       /\ InDir(x, i).dotdot = U[i]
    BY <1>3, <1>5 DEF Base, Owned, Ups
  <2>3. \A n \in Names, j \in Inodes :
           <<i, n, j>> \in T <=> IsDir(x, i) /\ Has(InDir(x, i), x.inode[i].size, n, j)
    BY <1>3, <1>5 DEF Base, Lists
  <2>4. QED BY <1>2, <1>4, <2>1, <2>2, <2>3 DEF Here
<1>8. T \subseteq Edge /\ U \in [Inodes -> Inodes]
  BY DEF Base, Lists
<1>9. Base(x, T, U)
  BY <1>3, <1>6, <1>7, <1>8, BaseStep
<1>10. QED BY <1>1, <1>2, <1>9 DEF Recounted

\* A node written back as it was read changes nothing.
LEMMA WrittenBack ==
    ASSUME NEW s \in Opened, NEW T, NEW U, Base(s, T, U), NEW i \in s.iused,
           NEW node, At(s, node, i)
    PROVE  /\ WriteInode(s, node) \in Opened /\ Base(WriteInode(s, node), T, U)
           /\ WriteInode(s, node).inode = s.inode /\ WriteInode(s, node).iused = s.iused
           /\ WriteInode(s, node).content = s.content
<1>1. node \in NodeSet /\ node.no = i /\ node.ino = s.inode[i]
  BY DEF At
<1>2. Recounted(s, T, U, node, WriteInode(s, node))
  BY <1>1, RecountBase
<1>3. [s.inode EXCEPT ![i] = s.inode[i]] = s.inode
  BY DEF Opened
<1>4. QED BY <1>1, <1>2, <1>3 DEF Recounted

\* '..' of a directory names up.
Reparent(c, up) == [c EXCEPT !.dotdot = up]

LEMMA DotDotBase ==
    ASSUME NEW s \in Opened, NEW T, NEW U, Base(s, T, U), NEW i \in Inodes, IsDir(s, i),
           NEW node, At(s, node, i), NEW up \in Inodes,
           NEW W \in [Inodes -> Inodes], W[i] = up, \A j \in Inodes : j # i => W[j] = U[j]
    PROVE  /\ SetDotDot(s, node, up) \in Opened /\ Base(SetDotDot(s, node, up), T, W)
           /\ SetDotDot(s, node, up).inode = s.inode /\ SetDotDot(s, node, up).iused = s.iused
<1>1. PICK run : run = s.inode[i].run
  OBVIOUS
<1>2. PICK c : c = Reparent(InDir(s, i), up)
  OBVIOUS
<1>3. PICK t : t = Fill(s, run, c)
  OBVIOUS
<1>4. node \in NodeSet /\ node.no = i /\ node.ino = s.inode[i]
  BY DEF At
<1>5. /\ run \in Runs /\ run \in s.rused /\ InDir(s, i) \in Content
      /\ Neat(InDir(s, i), s.inode[i].size) /\ i \in s.iused
  BY <1>1, DirFacts
<1>6. c \in Content /\ c.blocks = InDir(s, i).blocks /\ c.dotdot = up
  BY <1>2, <1>5 DEF Content, Reparent
<1>7. t = Put(s, [s EXCEPT !.content[node.ino.run].dotdot = up])
  <2>1. [s EXCEPT !.content[run].dotdot = up] = [s EXCEPT !.content[run] = c]
    BY <1>1, <1>2 DEF InDir, Reparent
  <2>2. QED BY <1>1, <1>3, <1>4, <2>1 DEF Fill
<1>8. SetDotDot(s, node, up) = WriteInode(t, node)
  BY <1>7 DEF SetDotDot
<1>9. /\ t \in Opened /\ t.content = [s.content EXCEPT ![run] = c]
      /\ t.inode = s.inode /\ t.iused = s.iused /\ t.rused = s.rused
  BY <1>3, <1>5, <1>6, FillEffect
<1>10. Typed(s) /\ Typed(t)
  BY <1>9, OpenedTyped
<1>11. InDir(t, i) = c
  BY <1>1, <1>5, <1>9, <1>10 DEF InDir, Typed
<1>12. Elsewhere(s, t, i)
  BY <1>1, <1>5, <1>9, <1>10 DEF Elsewhere, Typed
<1>13. Here(t, T, W, i)
  <2>1. Neat(c, s.inode[i].size)
    BY <1>5, <1>6 DEF Neat
  <2>2. IsDir(t, i) /\ t.inode[i].kind # "free"
    BY <1>9 DEF IsDir
  <2>3. \A n \in Names, j \in Inodes :
           <<i, n, j>> \in T <=> Has(c, s.inode[i].size, n, j)
    <3>1. \A n \in Names, j \in Inodes :
             <<i, n, j>> \in T <=> Has(InDir(s, i), s.inode[i].size, n, j)
      BY DEF Base, Lists
    <3>2. QED BY <1>6, <3>1 DEF Has
  <2>4. QED BY <1>1, <1>5, <1>6, <1>9, <1>11, <2>1, <2>2, <2>3 DEF Here
<1>14. T \subseteq Edge
  BY DEF Base, Lists
<1>15. Base(t, T, W)
  BY <1>10, <1>12, <1>13, <1>14, BaseStep
<1>16. At(t, node, i)
  BY <1>4, <1>9 DEF At
<1>17. QED BY <1>5, <1>8, <1>9, <1>15, <1>16, WrittenBack

\* An inode that was free is in use, with storage of its own or none.
Made(s, T, W, new, x) ==
    /\ x \in Opened /\ Base(x, T, W)
    /\ x.inode = [s.inode EXCEPT ![new.no] = new.ino]
    /\ x.iused = s.iused \cup {new.no}

LEMMA NewBase ==
    ASSUME NEW s \in Opened, NEW T, NEW U, Base(s, T, U), NEW i \in Inodes, i \notin s.iused,
           NEW new \in NodeSet, new.no = i, new.ino.kind # "free", new.ino.run \notin s.rused,
           NEW W \in [Inodes -> Inodes], \A j \in Inodes : j # i => W[j] = U[j],
           NEW x \in Opened, x.inode = [s.inode EXCEPT ![i] = new.ino], x.iused = s.iused \cup {i},
           \A r \in Runs : r \in x.rused <=> r \in s.rused \/ r = new.ino.run,
           \A r \in s.rused : x.content[r] = s.content[r],
           new.ino.kind = "dir" =>
              /\ new.ino.run \in Runs /\ Neat(x.content[new.ino.run], new.ino.size)
              /\ x.content[new.ino.run].dotdot = W[i]
              /\ \A n \in Names, j \in Inodes : ~Has(x.content[new.ino.run], new.ino.size, n, j)
    PROVE  Made(s, T, W, new, x)
<1>1. Typed(s) /\ Typed(x)
  BY OpenedTyped
<1>2. x.inode[i] = new.ino /\ \A j \in Inodes : j # i => x.inode[j] = s.inode[j]
  BY <1>1 DEF Typed
<1>3. s.inode[i] = Cleared
  BY DEF Base, Owned
<1>4. s.inode[i].run = 0 /\ ~IsDir(s, i)
  BY <1>3 DEF Cleared, IsDir
<1>5. Elsewhere(s, x, i)
  <2>1. 0 \notin Runs /\ 0 \notin s.rused
    BY <1>1, RootInode DEF Typed
  <2>2. QED BY <1>2, <1>4, <2>1 DEF Elsewhere
<1>6. Here(x, T, W, i)
  <2>1. \A n \in Names, j \in Inodes : <<i, n, j>> \notin T
    BY <1>4 DEF Base, Lists
  <2>2. QED BY <1>2, <2>1 DEF Here, IsDir, InDir
<1>7. T \subseteq Edge
  BY DEF Base, Lists
<1>8. Base(x, T, W)
  BY <1>1, <1>5, <1>6, <1>7, BaseStep
<1>9. QED BY <1>8 DEF Made

\* The writes of a call that makes an inode, with data or without.
MakeInode(s, i, data, r, c, new) ==
    WriteInode(IF data THEN Fill(AllocRun(AllocInode(s, i), r), r, c) ELSE AllocInode(s, i), new)

LEMMA MakeInodeBase ==
    ASSUME NEW s \in Opened, NEW T, NEW U, Base(s, T, U), NEW i \in Inodes, i \notin s.iused,
           NEW data \in BOOLEAN, NEW r, r = (IF data THEN Lowest(FreeRuns(s)) ELSE 0),
           data => FreeRuns(s) # {}, NEW c \in Content,
           NEW new \in NodeSet, new.no = i, new.ino.kind # "free", new.ino.run = r,
           NEW W \in [Inodes -> Inodes], \A j \in Inodes : j # i => W[j] = U[j],
           new.ino.kind = "dir" =>
              /\ data /\ Neat(c, new.ino.size) /\ c.dotdot = W[i]
              /\ \A n \in Names, j \in Inodes : ~Has(c, new.ino.size, n, j)
    PROVE  Made(s, T, W, new, MakeInode(s, i, data, r, c, new))
<1>1. Typed(s)
  BY OpenedTyped
<1>2. PICK s1 : s1 = AllocInode(s, i)
  OBVIOUS
<1>3. s1 \in Opened /\ s1.iused = s.iused \cup {i} /\ s1.inode = s.inode
      /\ s1.content = s.content /\ s1.rused = s.rused
  BY <1>2, InodeMapEffect
<1>4. PICK x : x = MakeInode(s, i, data, r, c, new)
  OBVIOUS
<1>5. CASE data
  <2>1. r \in Runs /\ r \notin s.rused
    BY <1>1, <1>5, FreeRunFacts
  <2>2. PICK s2 : s2 = AllocRun(s1, r)
    OBVIOUS
  <2>3. PICK s3 : s3 = Fill(s2, r, c)
    OBVIOUS
  <2>4. x = WriteInode(s3, new)
    BY <1>2, <1>4, <1>5, <2>2, <2>3 DEF MakeInode
  <2>5. s2 \in Opened /\ s2.rused = s.rused \cup {r} /\ s2.inode = s.inode
        /\ s2.content = s.content /\ s2.iused = s1.iused
    BY <1>3, <2>1, <2>2, RunMapEffect
  <2>6. s3 \in Opened /\ s3.rused = s2.rused /\ s3.inode = s.inode
        /\ s3.content = [s.content EXCEPT ![r] = c] /\ s3.iused = s1.iused
    BY <2>1, <2>3, <2>5, FillEffect
  <2>7. x \in Opened /\ x.rused = s.rused \cup {r} /\ x.inode = [s.inode EXCEPT ![i] = new.ino]
        /\ x.content = [s.content EXCEPT ![r] = c] /\ x.iused = s.iused \cup {i}
    BY <1>3, <2>4, <2>5, <2>6, WriteInodeEffect
  <2>8. x.content[r] = c /\ \A y \in s.rused : x.content[y] = s.content[y]
    BY <1>1, <2>1, <2>7 DEF Typed
  <2>9. \A y \in Runs : y \in x.rused <=> y \in s.rused \/ y = new.ino.run
    BY <2>7
  <2>10. new.ino.run \notin s.rused /\ new.ino.run \in Runs
    BY <2>1
  <2>11. new.ino.kind = "dir" =>
              /\ new.ino.run \in Runs /\ Neat(x.content[new.ino.run], new.ino.size)
              /\ x.content[new.ino.run].dotdot = W[i]
              /\ \A n \in Names, j \in Inodes : ~Has(x.content[new.ino.run], new.ino.size, n, j)
    BY <2>8, <2>10
  <2>12. Made(s, T, W, new, x)
    <3>1. x \in Opened /\ x.inode = [s.inode EXCEPT ![i] = new.ino] /\ x.iused = s.iused \cup {i}
      BY <2>7
    <3>2. new.ino.run \notin s.rused /\ \A y \in s.rused : x.content[y] = s.content[y]
      BY <2>8, <2>10
    <3>3. QED BY <2>9, <2>11, <3>1, <3>2, NewBase
  <2>13. QED BY <1>4, <2>12
<1>6. CASE ~data
  <2>1. r = 0 /\ new.ino.kind # "dir" /\ 0 \notin Runs /\ 0 \notin s.rused
    BY <1>1, <1>6, RootInode DEF Typed
  <2>2. x = WriteInode(s1, new)
    BY <1>2, <1>4, <1>6 DEF MakeInode
  <2>3. x \in Opened /\ x.rused = s.rused /\ x.inode = [s.inode EXCEPT ![i] = new.ino]
        /\ x.content = s.content /\ x.iused = s.iused \cup {i}
    BY <1>3, <2>2, WriteInodeEffect
  <2>4. \A y \in Runs : y \in x.rused <=> y \in s.rused \/ y = new.ino.run
    BY <2>1, <2>3
  <2>5. \A y \in s.rused : x.content[y] = s.content[y]
    BY <2>3
  <2>6. Made(s, T, W, new, x)
    BY <2>1, <2>3, <2>4, <2>5, NewBase
  <2>7. QED BY <1>4, <2>6
<1>7. QED BY <1>5, <1>6

\* A file's contents are stored anew before the old ones are freed.
LEMMA RewriteBase ==
    ASSUME NEW s \in Opened, NEW T, NEW U, Base(s, T, U), NEW i \in Inodes,
           s.inode[i].kind = "file",
           NEW data \in BOOLEAN, NEW r, r = (IF data THEN Lowest(FreeRuns(s)) ELSE 0),
           data => FreeRuns(s) # {},
           NEW new \in NodeSet, new.no = i, new.ino.kind = "file", new.ino.run = r,
           new.ino.nlink = s.inode[i].nlink,
           NEW s1, s1 = IF data THEN Fill(AllocRun(s, r), r, NoContent) ELSE s,
           NEW x, x = FreeStorage(WriteInode(s1, new), s.inode[i])
    PROVE  /\ x \in Opened /\ Base(x, T, U)
           /\ x.inode = [s.inode EXCEPT ![i] = new.ino] /\ x.iused = s.iused
<1>1. Typed(s) /\ s.inode[i] \in Inode
  BY OpenedTyped DEF Typed
<1>2. r \notin s.rused /\ r \in Runs \cup {0} /\ (data => r \in Runs)
  BY <1>1, FreeRunFacts, RootInode DEF Typed
<1>3. NoContent \in Content
  <2>1. <<>> \in Seq(Blocks)
    OBVIOUS
  <2>2. QED BY <2>1 DEF NoContent, Content
<1>4. /\ s1 \in Opened /\ s1.inode = s.inode /\ s1.iused = s.iused
      /\ \A y \in Runs : y \in s1.rused <=> y \in s.rused \/ y = r
      /\ \A y \in s.rused : s1.content[y] = s.content[y]
  <2>1. CASE data
    <3>1. PICK s2 : s2 = AllocRun(s, r)
      OBVIOUS
    <3>2. s2 \in Opened /\ s2.rused = s.rused \cup {r} /\ s2.inode = s.inode
          /\ s2.content = s.content /\ s2.iused = s.iused
      BY <1>2, <2>1, <3>1, RunMapEffect
    <3>3. s1 = Fill(s2, r, NoContent)
      BY <2>1, <3>1
    <3>4. s1 \in Opened /\ s1.rused = s2.rused /\ s1.inode = s.inode
          /\ s1.content = [s.content EXCEPT ![r] = NoContent] /\ s1.iused = s.iused
      BY <1>2, <1>3, <2>1, <3>2, <3>3, FillEffect
    <3>5. QED BY <1>1, <1>2, <2>1, <3>2, <3>4 DEF Typed
  <2>2. CASE ~data
    BY <2>2, RootInode
  <2>3. QED BY <2>1, <2>2
<1>5. PICK s3 : s3 = WriteInode(s1, new)
  OBVIOUS
<1>6. s3 \in Opened /\ s3.inode = [s.inode EXCEPT ![i] = new.ino] /\ s3.iused = s.iused
      /\ s3.rused = s1.rused /\ s3.content = s1.content
  BY <1>4, <1>5, WriteInodeEffect
<1>7. x \in Opened /\ x.inode = s3.inode /\ x.iused = s.iused
      /\ x.rused = s1.rused \ {s.inode[i].run} /\ x.content = s1.content
  BY <1>1, <1>5, <1>6, FreeStorageEffect
<1>8. Typed(x) /\ x.inode[i] = new.ino /\ \A j \in Inodes : j # i => x.inode[j] = s.inode[j]
  BY <1>1, <1>6, <1>7, OpenedTyped DEF Typed
<1>9. \A y \in Runs : y = s.inode[i].run => y \in s.rused
  BY <1>1 DEF Base, Owned
<1>10. Elsewhere(s, x, i)
  BY <1>2, <1>4, <1>7, <1>8, <1>9 DEF Elsewhere
<1>11. Here(x, T, U, i)
  <2>1. ~IsDir(x, i) /\ ~IsDir(s, i) /\ i \in s.iused
    BY <1>8 DEF IsDir, Base, Owned, Cleared
  <2>2. \A n \in Names, j \in Inodes : <<i, n, j>> \notin T
    BY <2>1 DEF Base, Lists
  <2>3. QED BY <1>7, <1>8, <2>1, <2>2 DEF Here
<1>12. T \subseteq Edge /\ U \in [Inodes -> Inodes]
  BY DEF Base, Lists
<1>13. Base(x, T, U)
  BY <1>8, <1>10, <1>11, <1>12, BaseStep
<1>14. QED BY <1>6, <1>7, <1>13

-----------------------------------------------------------------------------
(* How a call starts and ends.                                             *)

LEMMA SoundParts ==
    ASSUME NEW s, Typed(s), NEW T, NEW U
    PROVE  /\ Kind(s) \in [Inodes -> Kinds] /\ LinkOf(s) \in [Inodes -> Int]
           /\ Sound(s, T, U) <=> Base(s, T, U) /\ TreeOK(T, Kind(s), U, LinkOf(s))
<1>1. Kind(s) \in [Inodes -> Kinds] /\ LinkOf(s) \in [Inodes -> Int]
  BY InodeTyped DEF Kind, LinkOf
<1>2. QED BY <1>1 DEF Sound, Base, TreeOK, Lists

\* An image with the same inodes, maps and contents.
LEMMA SameImage ==
    ASSUME NEW s, NEW t, NEW T, NEW U, Base(s, T, U), Typed(t),
           t.inode = s.inode, t.iused = s.iused, t.rused = s.rused,
           \A r \in Runs : (\E i \in Inodes : s.inode[i].run = r) => t.content[r] = s.content[r]
    PROVE  Base(t, T, U)
<1>1. \A d \in Inodes : (IsDir(t, d) <=> IsDir(s, d)) /\ (IsDir(s, d) => InDir(t, d) = InDir(s, d))
  <2>1. \A d \in Inodes : IsDir(s, d) => s.inode[d].run \in Runs
    BY DEF Base, Owned
  <2>2. QED BY <2>1 DEF IsDir, InDir
<1>2. Lists(t, T)
  BY <1>1 DEF Base, Lists
<1>3. Owned(t)
  BY <1>1 DEF Base, Owned
<1>4. Ups(t, U)
  BY <1>1 DEF Base, Ups
<1>5. QED BY <1>2, <1>3, <1>4 DEF Base

LEMMA SettledTyped == \A s : Typed(s) => Settled(s) \in Disk
<1>1. SUFFICES ASSUME NEW s, Typed(s) PROVE Settled(s) \in Disk
  OBVIOUS
<1>2. NoContent \in Content
  <2>1. <<>> \in Seq(Blocks)
    OBVIOUS
  <2>2. QED BY <2>1 DEF NoContent, Content
<1>3. PICK c : c = [r \in Runs |-> IF \E i \in Inodes : s.inode[i].run = r
                                  THEN s.content[r] ELSE NoContent]
  OBVIOUS
<1>4. \A r \in Runs : s.content[r] \in Content
  BY <1>1 DEF Typed
<1>5. c \in [Runs -> Content]
  <2>1. \A r \in Runs : c[r] \in Content
    BY <1>2, <1>3, <1>4
  <2>2. QED BY <1>3, <2>1
<1>6. Settled(s) = [runs |-> s.runs, inode |-> s.inode, iused |-> s.iused, rused |-> s.rused,
                    content |-> c]
  BY <1>3 DEF Settled
<1>7. QED BY <1>1, <1>5, <1>6 DEF Disk, Typed

LEMMA SettledSound ==
    ASSUME NEW s, NEW T, NEW U, Typed(s), Sound(s, T, U)
    PROVE  Settled(s) \in Disk /\ Sound(Settled(s), T, U)
<1>1. PICK t : t = Settled(s)
  OBVIOUS
<1>2. t \in Disk /\ Typed(t)
  BY <1>1, SettledTyped, DiskTyped
<1>3. t.inode = s.inode /\ t.iused = s.iused /\ t.rused = s.rused
  BY <1>1 DEF Settled
<1>4. \A r \in Runs : (\E i \in Inodes : s.inode[i].run = r) => t.content[r] = s.content[r]
  BY <1>1 DEF Settled
<1>5. Base(s, T, U) /\ TreeOK(T, Kind(s), U, LinkOf(s))
  BY SoundParts
<1>6. Base(t, T, U)
  BY <1>2, <1>3, <1>4, <1>5, SameImage
<1>7. Kind(t) = Kind(s) /\ LinkOf(t) = LinkOf(s)
  BY <1>3 DEF Kind, LinkOf
<1>8. Sound(t, T, U)
  BY <1>2, <1>5, <1>6, <1>7, SoundParts
<1>9. QED BY <1>1, <1>2, <1>8

LEMMA OpenEffect ==
    ASSUME NEW x \in Disk
    PROVE  /\ Open(x) \in Opened
           /\ Open(x).runs = x.runs /\ Open(x).inode = x.inode /\ Open(x).iused = x.iused
           /\ Open(x).content = x.content /\ Open(x).rused = x.rused
<1>1. <<>> \in Seq(Disk)
  OBVIOUS
<1>2. QED BY <1>1 DEF Open, Opened, Disk

\* The open image a call starts from.
LEMMA OpenSound ==
    ASSUME IInv, Undamaged
    PROVE  \E U \in [Inodes -> Inodes] :
              /\ Open(disk) \in Opened /\ Base(Open(disk), expected, U)
              /\ Open(disk).inode = disk.inode /\ Open(disk).iused = disk.iused
              /\ Open(disk).rused = disk.rused /\ Open(disk).runs = disk.runs
              /\ Open(disk).content = disk.content
              /\ Typed(disk) /\ Sound(disk, expected, U) /\ Base(disk, expected, U)
              /\ TreeOK(expected, Kind(disk), U, LinkOf(disk))
<1>1. disk \in Disk /\ Typed(disk)
  BY DiskTyped DEF IInv, TypeOK
<1>2. PICK U \in [Inodes -> Inodes] : Sound(disk, expected, U)
  BY DEF IInv, Undamaged
<1>3. Base(disk, expected, U) /\ TreeOK(expected, Kind(disk), U, LinkOf(disk))
  BY <1>1, <1>2, SoundParts
<1>4. PICK s : s = Open(disk)
  OBVIOUS
<1>5. s \in Opened /\ s.inode = disk.inode /\ s.iused = disk.iused
      /\ s.content = disk.content /\ s.rused = disk.rused /\ s.runs = disk.runs
  BY <1>1, <1>4, OpenEffect
<1>6. Base(s, expected, U)
  BY <1>3, <1>5, OpenedTyped, SameImage
<1>7. QED BY <1>1, <1>2, <1>3, <1>4, <1>5, <1>6

LEMMA DirsTyped == IInv /\ Undamaged => Dirs(disk) \in SUBSET Inodes
<1>1. SUFFICES ASSUME IInv, Undamaged PROVE Dirs(disk) \in SUBSET Inodes
  OBVIOUS
<1>2. PICK U \in [Inodes -> Inodes] : Typed(disk) /\ Sound(disk, expected, U)
  BY <1>1, OpenSound
<1>3. Dirs(disk) = {d \in Inodes : IsDir(disk, d)}
  BY <1>2, WalkFacts
<1>4. QED BY <1>3

LEMMA BetweenTyped ==
    ASSUME NEW s \in Opened, NEW k \in Nat
    PROVE  Between(s, k) \subseteq Disk
<1>1. s.past \in Seq(Disk)
  BY DEF Opened
<1>2. \A j \in (k + 1)..Len(s.past) : s.past[j] \in Disk
  BY <1>1
<1>3. QED BY <1>2 DEF Between

\* An image is what it was when the block that was not written is left out.
LEMMA ExposedIs ==
    ASSUME NEW y \in Disk, NEW stale \in Stale(y)
    PROVE  LET x == Exposed(y, stale)
           IN  /\ x \in Disk /\ x.inode = y.inode /\ WithoutLast(x, Unwritten(y)) = y
               /\ \A r \in Runs : /\ DOMAIN y.content[r].blocks \subseteq DOMAIN x.content[r].blocks
                                  /\ \A k \in DOMAIN y.content[r].blocks :
                                        x.content[r].blocks[k] = y.content[r].blocks[k]
<1>1. stale \in Blocks
  BY EmptyBlock DEF Stale
<1>2. PICK S : S = Unwritten(y)
  OBVIOUS
<1>3. PICK c : c = [r \in Runs |-> IF HeldBy(y, r, S)
                                  THEN [y.content[r] EXCEPT !.blocks = Append(@, stale)]
                                  ELSE y.content[r]]
  OBVIOUS
<1>4. \A r \in Runs : y.content[r] \in Content
  BY DEF Disk
<1>5. ASSUME NEW r \in Runs
      PROVE  /\ c[r] \in Content
             /\ DOMAIN y.content[r].blocks \subseteq DOMAIN c[r].blocks
             /\ \A k \in DOMAIN y.content[r].blocks : c[r].blocks[k] = y.content[r].blocks[k]
             /\ HeldBy(y, r, S) =>
                   [c[r] EXCEPT !.blocks = SubSeq(@, 1, Len(@) - 1)] = y.content[r]
             /\ ~HeldBy(y, r, S) => c[r] = y.content[r]
  <2>1. PICK o, b : /\ y.content[r] = [dotdot |-> o, blocks |-> b]
                    /\ o \in Inodes \cup {0} /\ b \in Seq(Blocks)
    BY <1>4 DEF Content
  <2>2. PICK e : e = Append(b, stale)
    OBVIOUS
  <2>3. e \in Seq(Blocks) /\ DOMAIN b \subseteq DOMAIN e /\ \A k \in DOMAIN b : e[k] = b[k]
    BY <1>1, <2>1, <2>2
  <2>4. SubSeq(e, 1, Len(e) - 1) = b
    BY <1>1, <2>1, <2>2
  <2>5. CASE HeldBy(y, r, S)
    <3>1. c[r] = [dotdot |-> o, blocks |-> e]
      <4>1. c[r] = [y.content[r] EXCEPT !.blocks = Append(@, stale)]
        BY <1>3, <2>5
      <4>2. Append(y.content[r].blocks, stale) = e
        BY <2>1, <2>2
      <4>3. c[r] = [y.content[r] EXCEPT !.blocks = e]
        BY ONLY <4>1, <4>2
      <4>4. [[dotdot |-> o, blocks |-> b] EXCEPT !.blocks = e] = [dotdot |-> o, blocks |-> e]
        OBVIOUS
      <4>5. QED BY ONLY <2>1, <4>3, <4>4
    <3>2. QED BY <2>1, <2>3, <2>4, <2>5, <3>1 DEF Content
  <2>6. CASE ~HeldBy(y, r, S)
    BY <1>3, <1>4, <2>6
  <2>7. QED BY <2>5, <2>6
<1>6. PICK x : x = Exposed(y, stale)
  OBVIOUS
<1>7. x = [runs |-> y.runs, inode |-> y.inode, iused |-> y.iused, content |-> c, rused |-> y.rused]
  BY <1>2, <1>3, <1>6 DEF Exposed, Disk
<1>8. c \in [Runs -> Content]
  BY <1>3, <1>5
<1>9. x \in Disk
  BY <1>7, <1>8 DEF Disk
<1>10. WithoutLast(x, S) = y
  <2>1. PICK d : d = [r \in Runs |-> IF HeldBy(x, r, S)
                                    THEN [x.content[r] EXCEPT !.blocks = SubSeq(@, 1, Len(@) - 1)]
                                    ELSE x.content[r]]
    OBVIOUS
  <2>2. ASSUME NEW r \in Runs PROVE d[r] = y.content[r]
    <3>1. (HeldBy(x, r, S) <=> HeldBy(y, r, S)) /\ x.content[r] = c[r]
      BY <1>7 DEF HeldBy
    <3>2. QED BY <1>5, <2>1, <3>1
  <2>3. y.content \in [Runs -> Content]
    BY DEF Disk
  <2>4. d = y.content
    BY <2>1, <2>2, <2>3
  <2>5. WithoutLast(x, S) = [x EXCEPT !.content = d]
    BY <2>1 DEF WithoutLast
  <2>6. WithoutLast(x, S) =
          [runs |-> y.runs, inode |-> y.inode, iused |-> y.iused, content |-> d, rused |-> y.rused]
    BY ONLY <1>7, <2>5
  <2>7. QED BY <2>4, <2>6 DEF Disk
<1>11. x.inode = y.inode /\ x.content = c
  BY <1>7
<1>12. \A r \in Runs : /\ DOMAIN y.content[r].blocks \subseteq DOMAIN x.content[r].blocks
                       /\ \A k \in DOMAIN y.content[r].blocks :
                             x.content[r].blocks[k] = y.content[r].blocks[k]
  BY <1>5, <1>11
<1>13. QED BY ONLY <1>2, <1>6, <1>9, <1>10, <1>11, <1>12

DirSet(s) == {d \in Inodes : IsDir(s, d)}

\* What the callers see of a call: it told of the tree T with the directories
\* D, or it was cut short and told of nothing.
Told(T, D) ==
    \/ damage' \notin {"cut", "undone"} /\ expected' = T /\ DirSet(disk') = D
    \/ damage' \in {"cut", "undone"} /\ expected' = expected /\ cut'.dirs = Dirs(disk)

LEMMA KindDirs == \A s, t : Kind(s) = Kind(t) => DirSet(s) = DirSet(t)
<1>1. SUFFICES ASSUME NEW s, NEW t, Kind(s) = Kind(t) PROVE DirSet(s) = DirSet(t)
  OBVIOUS
<1>2. \A j \in Inodes : s.inode[j].kind = t.inode[j].kind
  BY <1>1, KindFacts
<1>3. QED BY <1>2 DEF DirSet, IsDir

LEMMA SettledDirs == \A s : DirSet(Settled(s)) = DirSet(s)
  BY DEF Settled, DirSet, IsDir

\* An image a call leaves that is not followed further.
LEMMA LeftIn ==
    ASSUME IInv, Undamaged, NEW x, Typed(x), NEW spared \in SUBSET Edge, NEW either \in SUBSET Edge,
           LeftAs(x, spared, either), damage' \in {"cut", "undone"}, NEW T, NEW D
    PROVE  IInv' /\ Told(T, D)
<1>1. PICK y : y = Settled(x)
  OBVIOUS
<1>2. y \in Disk
  BY <1>1, SettledTyped
<1>3. PICK stale \in Stale(y) : disk' = Exposed(y, stale)
  BY <1>1 DEF LeftAs
<1>4. disk' \in Disk
  BY <1>2, <1>3, ExposedIs
<1>5. Unwritten(y) \subseteq Inodes
  BY DEF Unwritten
<1>6. /\ cut' = [dirs |-> Dirs(disk), spared |-> spared, either |-> either, unwritten |-> Unwritten(y)]
      /\ expected' = expected
  BY <1>1 DEF LeftAs
<1>7. cut' \in Cut
  BY <1>5, <1>6, DirsTyped DEF Cut
<1>8. expected \in SUBSET Edge
  BY DEF IInv, TypeOK
<1>9. Told(T, D)
  BY <1>6 DEF Told
<1>10. QED BY <1>4, <1>6, <1>7, <1>8, <1>9 DEF IInv, TypeOK, Damages

\* A call that goes through, or is cut short.
LEMMA EndsIn ==
    ASSUME IInv, Undamaged, NEW s \in Opened, NEW told \in SUBSET Edge, NEW names,
           NEW either \in SUBSET Edge, NEW U, Sound(s, told, U), Ends(s, told, names, either)
    PROVE  IInv' /\ Told(told, DirSet(s))
<1>1. Typed(s) /\ expected \in SUBSET Edge
  BY OpenedTyped DEF IInv, TypeOK
<1>2. CASE disk' = Settled(s) /\ expected' = told /\ damage' = "none" /\ cut' = NoCut
  <2>1. disk' \in Disk /\ Sound(disk', expected', U)
    BY <1>1, <1>2, SettledSound
  <2>2. U \in [Inodes -> Inodes]
    BY DEF Sound
  <2>3. NoCut \in Cut
    BY DEF NoCut, Cut
  <2>4. TypeOK'
    BY <1>2, <2>1, <2>3 DEF TypeOK, Damages
  <2>5. Told(told, DirSet(s))
    BY <1>2, SettledDirs DEF Told
  <2>6. QED BY <2>1, <2>2, <2>4, <2>5 DEF IInv
<1>3. CASE \E x \in Between(s, 1) : LeftAs(x, expected \ names, either) /\ damage' = "cut"
  <2>1. PICK x \in Between(s, 1) : LeftAs(x, expected \ names, either)
    BY <1>3
  <2>2. Typed(x) /\ expected \ names \in SUBSET Edge
    BY <1>1, BetweenTyped, DiskTyped
  <2>3. QED BY <1>3, <2>1, <2>2, LeftIn
<1>4. QED BY <1>2, <1>3 DEF Ends

LEMMA LeavesIn ==
    ASSUME NEW s \in Opened, NEW told \in SUBSET Edge, NEW how \in Damages,
           how \notin {"none", "cut", "undone"}, Leaves(s, told, how)
    PROVE  IInv' /\ Told(told, DirSet(s))
<1>1. Settled(s) \in Disk
  BY OpenedTyped, SettledTyped
<1>2. NoCut \in Cut
  BY DEF NoCut, Cut
<1>3. Told(told, DirSet(s))
  BY SettledDirs DEF Leaves, Told
<1>4. QED BY <1>1, <1>2, <1>3 DEF Leaves, IInv, TypeOK

LEMMA UndoneIn ==
    ASSUME IInv, Undamaged, NEW s \in Opened, NEW ins, ins.s \in Opened,
           NEW node \in NodeSet, Undone(s, ins, node), NEW T, NEW D
    PROVE  IInv' /\ Told(T, D)
<1>1. s.past \in Seq(Disk) /\ Len(s.past) \in Nat
  BY DEF Opened
<1>2. PICK x \in Between(ins.s, Len(s.past)) :
         LeftAs(Discard(Open(x), node), expected, {}) /\ damage' = "undone"
  BY DEF Undone
<1>3. x \in Disk
  BY <1>1, BetweenTyped
<1>4. Typed(Discard(Open(x), node))
  BY <1>3, OpenEffect, DiscardEffect, OpenedTyped
<1>5. expected \in SUBSET Edge
  BY DEF IInv, TypeOK
<1>6. QED BY <1>2, <1>4, <1>5, LeftIn

-----------------------------------------------------------------------------
(* The calls that make an inode.                                           *)

\* A call has opened the image: s.
Begun(s, U) ==
    /\ s = Open(disk) /\ s \in Opened
    /\ Base(s, expected, U) /\ TreeOK(expected, Kind(s), U, LinkOf(s))
    /\ s.inode = disk.inode /\ s.iused = disk.iused /\ s.rused = disk.rused
    /\ s.runs = disk.runs /\ s.content = disk.content
    /\ Typed(disk) /\ Sound(disk, expected, U)
    /\ U \in [Inodes -> Inodes] /\ expected \in SUBSET Edge

LEMMA Begin == IInv /\ Undamaged => \E s, U : Begun(s, U)
<1>1. SUFFICES ASSUME IInv, Undamaged PROVE \E s, U : Begun(s, U)
  OBVIOUS
<1>2. PICK s : s = Open(disk)
  OBVIOUS
<1>3. PICK U \in [Inodes -> Inodes] :
         /\ s \in Opened /\ Base(s, expected, U)
         /\ s.inode = disk.inode /\ s.iused = disk.iused
         /\ s.rused = disk.rused /\ s.runs = disk.runs
         /\ s.content = disk.content
         /\ Typed(disk) /\ Sound(disk, expected, U)
         /\ TreeOK(expected, Kind(disk), U, LinkOf(disk))
  BY <1>1, <1>2, OpenSound
<1>4. Kind(s) = Kind(disk) /\ LinkOf(s) = LinkOf(disk)
  BY <1>3 DEF Kind, LinkOf
<1>5. expected \in SUBSET Edge
  BY <1>1 DEF IInv, TypeOK
<1>6. Begun(s, U)
  BY <1>2, <1>3, <1>4, <1>5 DEF Begun
<1>7. QED BY <1>6

LEMMA SameDirs ==
    ASSUME NEW s, NEW U, Begun(s, U), NEW y, Kind(y) = Kind(s)
    PROVE  DirSet(y) = DirSet(disk)
<1>1. \A j \in Inodes : y.inode[j].kind = disk.inode[j].kind
  <2>1. \A j \in Inodes : Kind(y)[j] = y.inode[j].kind /\ Kind(s)[j] = s.inode[j].kind
    BY KindFacts
  <2>2. QED BY <2>1 DEF Begun
<1>2. QED BY <1>1 DEF DirSet, IsDir

\* An inode in use, read into a node.
LEMMA BegunNode ==
    ASSUME NEW s, NEW U, Begun(s, U), NEW i \in Inodes
    PROVE  At(s, Node(disk, i), i)
<1>1. s.inode[i] \in Inode
  BY InodeTyped DEF Begun, Base
<1>2. QED BY <1>1 DEF At, Node, NodeSet, Begun

LEMMA BegunDir ==
    ASSUME NEW s, NEW U, Begun(s, U), NEW p \in Dirs(disk)
    PROVE  /\ p \in Inodes /\ IsDir(s, p) /\ IsDir(disk, p) /\ p \in s.iused
           /\ At(s, Node(disk, p), p)
           /\ \A n \in Names : Lookup(disk, p, n) \in SUBSET Inodes
           /\ \A n \in Names, i \in Inodes : i \in Lookup(disk, p, n) <=> <<p, n, i>> \in expected
<1>1. p \in Inodes /\ IsDir(disk, p)
  <2>1. Dirs(disk) = {d \in Inodes : IsDir(disk, d)}
    BY WalkFacts DEF Begun
  <2>2. QED BY <2>1
<1>2. IsDir(s, p)
  BY <1>1 DEF Begun, IsDir
<1>3. p \in s.iused
  BY <1>1, <1>2, DirFacts DEF Begun
<1>4. Lists(disk, expected) /\ Owned(disk) /\ Typed(disk)
  BY DEF Begun, Sound
<1>5. /\ \A n \in Names : Lookup(disk, p, n) \in SUBSET Inodes
      /\ \A n \in Names, i \in Inodes : i \in Lookup(disk, p, n) <=> <<p, n, i>> \in expected
  BY <1>1, <1>4, LookupFacts
<1>6. QED BY <1>1, <1>2, <1>3, <1>5, BegunNode

LEMMA BegunFree ==
    ASSUME NEW s, NEW U, Begun(s, U)
    PROVE  /\ FreeRuns(s) = FreeRuns(disk)
           /\ FreeInodes(disk) # {} =>
                 /\ Lowest(FreeInodes(disk)) \in Inodes /\ Lowest(FreeInodes(disk)) \notin s.iused
                 /\ s.inode[Lowest(FreeInodes(disk))] = Cleared
<1>1. FreeInodes(disk) \in SUBSET Nat
  BY NamespaceAssumption DEF FreeInodes
<1>2. FreeInodes(disk) # {} => Lowest(FreeInodes(disk)) \in FreeInodes(disk)
  BY <1>1, LowestFacts
<1>3. QED BY <1>2 DEF FreeInodes, FreeRuns, Begun, Base, Owned

LEMMA InsertedSame ==
    ASSUME NEW s, NEW V, NEW U, NEW p \in Inodes, NEW node, NEW ins,
           Inserted(s, V, U, p, node, ins), ins.ok
    PROVE  Kind(ins.s) = Kind(s) /\ LinkOf(ins.s) = LinkOf(s)
<1>1. \A j \in Inodes : ins.s.inode[j].kind = s.inode[j].kind
                        /\ ins.s.inode[j].nlink = s.inode[j].nlink
  BY DEF Inserted
<1>2. QED BY <1>1 DEF Kind, LinkOf

\* Only the '..' of directories matters.
LEMMA OtherUps ==
    ASSUME NEW s, NEW T, NEW W, Base(s, T, W), NEW U \in [Inodes -> Inodes],
           \A d \in Inodes : IsDir(s, d) => U[d] = W[d]
    PROVE  Base(s, T, U)
  BY DEF Base, Ups

NoEntry(T, p, n) == \A j \in Inodes : <<p, n, j>> \notin T

\* A new inode and an entry for it in the directory p.
NewAt(s, U, W, p, n, i, new, x, V) ==
    /\ Begun(s, U) /\ p \in Inodes /\ IsDir(s, p) /\ n \in Names
    /\ i \in Inodes /\ i \notin s.iused /\ i # p
    /\ NoEntry(expected, p, n)
    /\ new \in NodeSet /\ new.no = i /\ new.ino.kind # "free"
    /\ new.ino.nlink = IF new.ino.kind = "dir" THEN 2 ELSE 1
    /\ W = [U EXCEPT ![i] = p]
    /\ Made(s, expected, W, new, x)
    /\ V = expected \cup {<<p, n, i>>}

LEMMA NewInserted ==
    ASSUME NEW s, NEW U, NEW W, NEW p, NEW n, NEW i, NEW new, NEW x, NEW V,
           NewAt(s, U, W, p, n, i, new, x, V), NEW way \in Ways
    PROVE  Inserted(x, V, W, p, Node(disk, p), Insert(x, Node(disk, p), n, i, way))
<1>1. x \in Opened /\ Base(x, expected, W) /\ x.inode = [s.inode EXCEPT ![i] = new.ino]
  BY DEF NewAt, Made
<1>2. p \in Inodes /\ i \in Inodes /\ i # p /\ n \in Names /\ s \in Opened
  BY DEF NewAt, Begun
<1>3. x.inode[p] = s.inode[p]
  BY <1>1, <1>2 DEF Opened
<1>4. IsDir(x, p)
  BY <1>3 DEF IsDir, NewAt
<1>5. At(s, Node(disk, p), p)
  BY <1>2, BegunNode DEF NewAt
<1>6. At(x, Node(disk, p), p)
  BY <1>3, <1>5 DEF At
<1>7. \A j \in Inodes : <<p, n, j>> \notin expected
  BY DEF NewAt, NoEntry
<1>8. V = expected \cup {<<p, n, i>>}
  BY DEF NewAt
<1>9. QED BY <1>1, <1>2, <1>4, <1>6, <1>7, <1>8, InsertBase

LEMMA NewDiscarded ==
    ASSUME NEW s, NEW U, NEW W, NEW p, NEW n, NEW i, NEW new, NEW x, NEW V,
           NewAt(s, U, W, p, n, i, new, x, V)
    PROVE  /\ Discard(x, new) \in Opened /\ Sound(Discard(x, new), expected, U)
           /\ Discard(x, new).inode = s.inode
<1>1. x \in Opened /\ Base(x, expected, W) /\ x.inode = [s.inode EXCEPT ![i] = new.ino]
  BY DEF NewAt, Made
<1>2. /\ i \in Inodes /\ s \in Opened /\ new \in NodeSet /\ new.no = i
      /\ s.inode[i] = Cleared /\ Base(s, expected, U) /\ U \in [Inodes -> Inodes]
      /\ TreeOK(expected, Kind(s), U, LinkOf(s)) /\ W = [U EXCEPT ![i] = p]
  BY DEF NewAt, Begun, Base, Owned
<1>3. At(x, new, i)
  BY <1>1, <1>2 DEF At, Opened
<1>4. \A m \in Names, j \in Inodes : <<i, m, j>> \notin expected
  <2>1. ~IsDir(s, i)
    BY <1>2 DEF IsDir, Cleared
  <2>2. QED BY <1>2, <2>1 DEF Base, Lists
<1>5. PICK t : t = Discard(x, new)
  OBVIOUS
<1>6. Discarded(x, expected, W, i, t)
  BY <1>1, <1>2, <1>3, <1>4, <1>5, DiscardBase
<1>7. t \in Opened /\ Base(t, expected, W) /\ t.inode = [x.inode EXCEPT ![i] = Cleared]
  BY <1>6 DEF Discarded
<1>8. t.inode = s.inode
  BY <1>1, <1>2, <1>7 DEF Opened
<1>9. Base(t, expected, U)
  <2>1. \A d \in Inodes : IsDir(t, d) => U[d] = W[d]
    <3>1. ~IsDir(t, i)
      BY <1>2, <1>8 DEF IsDir, Cleared
    <3>2. QED BY <1>2, <3>1
  <2>2. QED BY <1>2, <1>7, <2>1, OtherUps
<1>10. Kind(t) = Kind(s) /\ LinkOf(t) = LinkOf(s)
  BY <1>8 DEF Kind, LinkOf
<1>11. Sound(t, expected, U)
  BY <1>2, <1>7, <1>9, <1>10, OpenedTyped, SoundParts
<1>12. QED BY <1>5, <1>7, <1>8, <1>11

\* The directories after a new inode was made.
LEMMA NewDirs ==
    ASSUME NEW s, NEW U, NEW W, NEW p, NEW n, NEW i, NEW new, NEW x, NEW V,
           NewAt(s, U, W, p, n, i, new, x, V), NEW y, Kind(y) = Kind(x)
    PROVE  DirSet(y) = IF new.ino.kind = "dir" THEN DirSet(disk) \cup {i} ELSE DirSet(disk)
<1>1. /\ x.inode = [s.inode EXCEPT ![i] = new.ino] /\ i \in Inodes /\ s \in Opened
      /\ s.inode = disk.inode /\ s.inode[i].kind = "free"
  BY DEF NewAt, Made, Begun, Base, Owned, Cleared
<1>2. \A j \in Inodes : Kind(y)[j] = IF j = i THEN new.ino.kind ELSE disk.inode[j].kind
  BY <1>1 DEF Kind, Opened
<1>3. \A j \in Inodes : IsDir(y, j) <=> IF j = i THEN new.ino.kind = "dir" ELSE IsDir(disk, j)
  BY <1>2 DEF Kind, IsDir
<1>4. ~IsDir(disk, i)
  BY <1>1 DEF IsDir
<1>5. QED BY <1>1, <1>3, <1>4 DEF DirSet

\* The kinds and counts of y are those after the entry V and, for a directory,
\* after p's count went up.
LEMMA NewSound ==
    ASSUME NEW s, NEW U, NEW W, NEW p, NEW n, NEW i, NEW new, NEW x, NEW V,
           NewAt(s, U, W, p, n, i, new, x, V), NEW y, Typed(y), Base(y, V, W),
           Kind(y) = Kind(x),
           \A j \in Inodes : LinkOf(y)[j] =
              LinkOf(x)[j] + (IF j = p /\ new.ino.kind = "dir" THEN 1 ELSE 0)
    PROVE  Sound(y, V, W)
<1>1. /\ x \in Opened /\ x.inode = [s.inode EXCEPT ![i] = new.ino]
      /\ p \in Inodes /\ i \in Inodes /\ i # p /\ n \in Names /\ s \in Opened
      /\ new \in NodeSet /\ new.ino.kind # "free"
      /\ new.ino.nlink = (IF new.ino.kind = "dir" THEN 2 ELSE 1)
      /\ U \in [Inodes -> Inodes] /\ W = [U EXCEPT ![i] = p]
      /\ TreeOK(expected, Kind(s), U, LinkOf(s))
      /\ V = expected \cup {<<p, n, i>>}
      /\ new.no = i
  BY DEF NewAt, Made, Begun
<1>2. Kind(s)[p] = "dir" /\ Kind(s)[i] = "free"
  <2>1. s.inode[i] = Cleared
    BY DEF NewAt, Begun, Base, Owned
  <2>2. QED BY <1>1, <2>1 DEF NewAt, IsDir, Kind, Cleared
<1>3. x.inode[i] = new.ino /\ \A j \in Inodes : j # i => x.inode[j] = s.inode[j]
  BY <1>1 DEF Opened
<1>4. PICK L : L = Kind(y)
  OBVIOUS
<1>5. PICK D : D = LinkOf(y)
  OBVIOUS
<1>6. L \in [Inodes -> Kinds] /\ D \in [Inodes -> Int]
  BY <1>4, <1>5, SoundParts
<1>7. L[i] = new.ino.kind /\ \A j \in Inodes : j # i => L[j] = Kind(s)[j]
  BY <1>1, <1>3, <1>4 DEF Kind
<1>8. LinkOf(x)[i] = new.ino.nlink /\ \A j \in Inodes : j # i => LinkOf(x)[j] = LinkOf(s)[j]
  BY <1>1, <1>3 DEF LinkOf
<1>9. D[i] = IF L[i] = "dir" THEN 2 ELSE 1
  <2>1. D[i] = LinkOf(x)[i] + 0
    BY <1>1, <1>5
  <2>2. LinkOf(x)[i] \in Int
    BY <1>1, <1>8
  <2>3. QED BY <1>1, <1>7, <1>8, <2>1, <2>2
<1>10. \A j \in Inodes : j # i =>
          D[j] = LinkOf(s)[j] + (IF j = p /\ L[i] = "dir" THEN 1 ELSE 0)
  BY <1>5, <1>7, <1>8
<1>11. \A j \in Inodes : <<p, n, j>> \notin expected
  BY DEF NewAt, NoEntry
<1>12. PICK X \in [Inodes -> Inodes] :
          /\ TreeOK(V, L, X, D)
          /\ X[i] = p /\ \A j \in Inodes : j # i => X[j] = U[j]
  <2>1. PICK K : K = Kind(s)
    OBVIOUS
  <2>2. PICK C : C = LinkOf(s)
    OBVIOUS
  <2>3. TreeOK(expected, K, U, C) /\ K[p] = "dir" /\ K[i] = "free"
    BY <1>1, <1>2, <2>1, <2>2
  <2>4. L[i] # "free" /\ \A j \in Inodes : j # i => L[j] = K[j]
    BY <1>1, <1>7, <2>1
  <2>5. \A j \in Inodes : j # i => D[j] = C[j] + (IF j = p /\ L[i] = "dir" THEN 1 ELSE 0)
    BY <1>10, <2>2
  <2>6. p \in Inodes /\ n \in Names /\ i \in Inodes /\ V = expected \cup {<<p, n, i>>}
    BY <1>1
  <2>7. AddsObject(expected, K, U, C, p, n, i, L, D, V)
    BY <1>6, <1>9, <1>11, <2>3, <2>4, <2>5, <2>6 DEF AddsObject
  <2>8. QED BY <2>7, TreeNewObject
<1>13. X = W
  BY <1>1, <1>12
<1>14. QED BY <1>4, <1>5, <1>12, <1>13, SoundParts

\* The inode i is made, with the storage r and the contents c in it if it has
\* data, and gets the name n in p.
Making(s, U, W, p, n, i, new, data, r, c, x, V, way, ins) ==
    /\ NewAt(s, U, W, p, n, i, new, x, V)
    /\ data \in BOOLEAN /\ (data => r \in Runs /\ r \notin s.rused) /\ c \in Content
    /\ x = MakeInode(s, i, data, r, c, new)
    /\ new.ino.kind = "dir" => new.ino.run \in Runs
    /\ way \in Ways /\ ins = Insert(x, Node(disk, p), n, i, way)

LEMMA CreateMakes ==
    ASSUME IInv, NEW p \in Dirs(disk), NEW n \in Names, NEW kind \in {"file", "special"},
           NEW data \in BOOLEAN, NEW way \in Ways, Create(p, n, kind, data, way)
    PROVE  /\ Undamaged
           /\ \E s, U, W, i, new, r, c, x, V, ins :
                 /\ Making(s, U, W, p, n, i, new, data, r, c, x, V, way, ins)
                 /\ new.ino.kind # "dir"
                 /\ \/ ins.ok /\ Ends(ins.s, V, {}, {})
                    \/ ~ins.ok /\ Ends(Discard(x, new), expected, {}, {})
                    \/ ins.ok /\ Undone(x, ins, new)
<1>1. Undamaged
  BY DEF Create
<1>2. PICK s, U : Begun(s, U)
  BY <1>1, Begin
<1>3. PICK i : i = Lowest(FreeInodes(disk))
  OBVIOUS
<1>4. PICK r : r = IF data THEN Lowest(FreeRuns(disk)) ELSE 0
  OBVIOUS
<1>5. PICK new : new = [no |-> i, ino |-> Fresh(kind, 1, 0, r)]
  OBVIOUS
<1>6. PICK x : x = MakeInode(s, i, data, r, NoContent, new)
  OBVIOUS
<1>7. PICK ins : ins = Insert(x, Node(disk, p), n, i, way)
  OBVIOUS
<1>8. PICK V : V = expected \cup {<<p, n, i>>}
  OBVIOUS
<1>9. /\ Absent(p, n) /\ FreeInodes(disk) # {} /\ (data => FreeRuns(disk) # {} /\ kind = "file")
      /\ \/ ins.ok /\ Ends(ins.s, V, {}, {})
         \/ ~ins.ok /\ Ends(Discard(x, new), expected, {}, {})
         \/ ins.ok /\ Undone(x, ins, new)
  <2>1. s = Open(disk)
    BY <1>2 DEF Begun
  <2>2. QED BY <1>3, <1>4, <1>5, <1>6, <1>7, <1>8, <2>1 DEF Create, MakeInode
<1>10. /\ p \in Inodes /\ IsDir(s, p) /\ p \in s.iused
       /\ \A j \in Inodes : j \in Lookup(disk, p, n) <=> <<p, n, j>> \in expected
  BY <1>2, BegunDir
<1>11. /\ i \in Inodes /\ i \notin s.iused /\ i # p
       /\ FreeRuns(s) = FreeRuns(disk) /\ s \in Opened
       /\ Base(s, expected, U) /\ U \in [Inodes -> Inodes]
  BY <1>2, <1>3, <1>9, <1>10, BegunFree DEF Begun
<1>12. PICK W : W = [U EXCEPT ![i] = p]
  OBVIOUS
<1>13. W \in [Inodes -> Inodes] /\ \A j \in Inodes : j # i => W[j] = U[j]
  BY <1>10, <1>11, <1>12
<1>14. /\ new \in NodeSet /\ new.no = i /\ new.ino.kind = kind /\ new.ino.run = r
       /\ new.ino.nlink = 1 /\ kind # "free" /\ kind # "dir"
  <2>1. r \in Runs \cup {0}
    <3>1. data => FreeRuns(s) # {} /\ r = Lowest(FreeRuns(s))
      BY <1>4, <1>9, <1>11
    <3>2. data => r \in Runs
      BY <1>11, <3>1, FreeRunFacts, OpenedTyped
    <3>3. QED BY <1>4, <3>2
  <2>2. 0 \in 0..MaxBlks
    BY NamespaceAssumption
  <2>3. QED BY <1>5, <1>11, <2>1, <2>2 DEF NodeSet, Inode, Fresh, Kinds
<1>15. NoContent \in Content
  <2>1. <<>> \in Seq(Blocks)
    OBVIOUS
  <2>2. QED BY <2>1 DEF NoContent, Content
<1>16. Made(s, expected, W, new, x)
  <2>1. r = (IF data THEN Lowest(FreeRuns(s)) ELSE 0) /\ (data => FreeRuns(s) # {})
    BY <1>4, <1>9, <1>11
  <2>2. QED BY <1>6, <1>11, <1>13, <1>14, <1>15, <2>1, MakeInodeBase
<1>17. NewAt(s, U, W, p, n, i, new, x, V)
  <2>1. NoEntry(expected, p, n)
    BY <1>9, <1>10 DEF Absent, NoEntry
  <2>2. QED BY <1>2, <1>8, <1>10, <1>11, <1>12, <1>14, <1>16, <2>1 DEF NewAt
<1>18. data => r \in Runs /\ r \notin s.rused
  <2>1. data => FreeRuns(s) # {} /\ r = Lowest(FreeRuns(s))
    BY <1>4, <1>9, <1>11
  <2>2. QED BY <1>11, <2>1, FreeRunFacts, OpenedTyped
<1>19. Making(s, U, W, p, n, i, new, data, r, NoContent, x, V, way, ins)
  BY <1>6, <1>7, <1>14, <1>15, <1>17, <1>18 DEF Making
<1>20. QED BY <1>1, <1>9, <1>14, <1>19

LEMMA CreateIn ==
    ASSUME IInv, NEW p \in Dirs(disk), NEW n \in Names, NEW kind \in {"file", "special"},
           NEW data \in BOOLEAN, NEW way \in Ways, Create(p, n, kind, data, way)
    PROVE  /\ IInv'
           /\ \/ Told(expected, DirSet(disk))
              \/ \E i \in Inodes :
                    /\ i \notin disk.iused
                    /\ Told(expected \cup {<<p, n, i>>}, DirSet(disk))
<1>1. Undamaged
  BY CreateMakes
<1>2. PICK s, U, W, i, new, r, c, x, V, ins :
         /\ Making(s, U, W, p, n, i, new, data, r, c, x, V, way, ins)
         /\ new.ino.kind # "dir"
         /\ \/ ins.ok /\ Ends(ins.s, V, {}, {})
            \/ ~ins.ok /\ Ends(Discard(x, new), expected, {}, {})
            \/ ins.ok /\ Undone(x, ins, new)
  BY CreateMakes
<1>3. NewAt(s, U, W, p, n, i, new, x, V) /\ ins = Insert(x, Node(disk, p), n, i, way)
  BY <1>2 DEF Making
<1>4. /\ Begun(s, U) /\ V = expected \cup {<<p, n, i>>} /\ new \in NodeSet
      /\ Made(s, expected, W, new, x) /\ p \in Inodes /\ i \in Inodes /\ i \notin s.iused
  BY <1>3 DEF NewAt
<1>5. Inserted(x, V, W, p, Node(disk, p), ins)
  BY <1>3, NewInserted
<1>6. expected \in SUBSET Edge /\ V \in SUBSET Edge /\ {} \in SUBSET Edge
  BY <1>3, <1>4 DEF Begun, NewAt, Edge
<1>7. CASE ins.ok /\ Ends(ins.s, V, {}, {})
  <2>1. PICK y : y = ins.s
    OBVIOUS
  <2>2. y \in Opened /\ Base(y, V, W) /\ Kind(y) = Kind(x) /\ LinkOf(y) = LinkOf(x)
    <3>1. Kind(ins.s) = Kind(x) /\ LinkOf(ins.s) = LinkOf(x)
      BY <1>4, <1>5, <1>7, InsertedSame
    <3>2. ins.s \in Opened /\ Base(ins.s, V, W)
      BY <1>5, <1>7 DEF Inserted
    <3>3. QED BY <2>1, <3>1, <3>2
  <2>3. \A j \in Inodes : LinkOf(y)[j] =
           LinkOf(x)[j] + (IF j = p /\ new.ino.kind = "dir" THEN 1 ELSE 0)
    <3>1. LinkOf(y) \in [Inodes -> Int]
      BY <2>2, OpenedTyped, SoundParts
    <3>2. QED BY <1>2, <2>2, <3>1
  <2>4. Sound(y, V, W)
    BY <1>3, <2>2, <2>3, OpenedTyped, NewSound
  <2>5. Ends(y, V, {}, {})
    BY <1>7, <2>1
  <2>6. DirSet(y) = DirSet(disk)
    BY <1>2, <1>3, <2>2, NewDirs
  <2>7. IInv' /\ Told(V, DirSet(disk))
    BY <1>1, <1>6, <2>2, <2>4, <2>5, <2>6, EndsIn
  <2>8. QED BY <1>4, <2>7 DEF Begun
<1>8. CASE ~ins.ok /\ Ends(Discard(x, new), expected, {}, {})
  <2>1. /\ Discard(x, new) \in Opened /\ Sound(Discard(x, new), expected, U)
        /\ Discard(x, new).inode = disk.inode
    BY <1>4, <1>3, NewDiscarded DEF Begun
  <2>2. DirSet(Discard(x, new)) = DirSet(disk)
    BY <2>1 DEF DirSet, IsDir
  <2>3. QED BY <1>1, <1>6, <1>8, <2>1, <2>2, EndsIn
<1>9. CASE ins.ok /\ Undone(x, ins, new)
  <2>1. x \in Opened /\ ins.s \in Opened
    BY <1>4, <1>5 DEF Made, Inserted
  <2>2. QED BY <1>1, <1>4, <1>9, <2>1, UndoneIn
<1>10. QED BY <1>2, <1>7, <1>8, <1>9

LEMMA MkdirNoFragmentIn ==
    ASSUME IInv, NEW p \in Dirs(disk), NEW n \in Names, MkdirNoFragment(p, n)
    PROVE  IInv' /\ Told(expected, DirSet(disk))
<1>1. Undamaged /\ FreeInodes(disk) # {}
      /\ Leaves(AllocInode(Open(disk), Lowest(FreeInodes(disk))), expected, "inode leaked")
  BY DEF MkdirNoFragment
<1>2. PICK s, U : Begun(s, U)
  BY <1>1, Begin
<1>3. Lowest(FreeInodes(disk)) \in Inodes
  BY <1>1, <1>2, BegunFree
<1>4. PICK y : y = AllocInode(Open(disk), Lowest(FreeInodes(disk)))
  OBVIOUS
<1>5. y \in Opened /\ y.inode = disk.inode
  BY <1>2, <1>3, <1>4, InodeMapEffect DEF Begun
<1>6. expected \in SUBSET Edge /\ "inode leaked" \in Damages
  BY DEF IInv, TypeOK, Damages
<1>7. DirSet(y) = DirSet(disk)
  BY <1>5 DEF DirSet, IsDir
<1>8. IInv' /\ Told(expected, DirSet(y))
  BY <1>1, <1>4, <1>5, <1>6, LeavesIn
<1>9. QED BY <1>7, <1>8

\* A new directory: its one block names nothing.
LEMMA NewDirFacts ==
    ASSUME NEW up \in Inodes
    PROVE  /\ NewDir(up) \in Content /\ Neat(NewDir(up), 1) /\ NewDir(up).dotdot = up
           /\ \A n \in Names, j \in Inodes : ~Has(NewDir(up), 1, n, j)
<1>1. PICK b : b = << <<>> >>
  OBVIOUS
<1>2. NewDir(up) = [dotdot |-> up, blocks |-> b]
  BY <1>1 DEF NewDir
<1>3. <<>> \in Blocks
  <2>1. <<>> \in [{} -> Inodes] /\ {} \in SUBSET Names
    OBVIOUS
  <2>2. QED BY <2>1 DEF Blocks
<1>4. b \in Seq(Blocks) /\ Len(b) = 1 /\ b[1] = <<>>
  BY <1>1, <1>3
<1>5. DOMAIN b[1] = {} /\ Cardinality(DOMAIN b[1]) = 0
  <2>1. DOMAIN b[1] = {}
    BY <1>4
  <2>2. QED BY <2>1, FS_EmptySet
<1>6. \A k \in 1..1 : k = 1
  OBVIOUS
<1>7. Neat(NewDir(up), 1)
  <2>1. NewDir(up).blocks = b /\ 1 = Len(b) /\ 0 <= BlkNames
    BY <1>2, <1>4, NamespaceAssumption
  <2>2. \A k \in 1..1 : Cardinality(DOMAIN b[k]) <= BlkNames
    BY <1>5, <1>6, <2>1
  <2>3. QED BY <1>6, <2>1, <2>2 DEF Neat
<1>8. \A n \in Names, j \in Inodes : ~Has(NewDir(up), 1, n, j)
  BY <1>2, <1>5, <1>6 DEF Has
<1>9. QED BY <1>2, <1>4, <1>7, <1>8 DEF Content

\* A directory has one more link, in the node d of it.
LEMMA LinkedFacts ==
    ASSUME NEW d \in NodeSet, NEW k \in Int
    PROVE  /\ Linked(d, k) \in NodeSet /\ Linked(d, k).no = d.no
           /\ Linked(d, k).ino.nlink = d.ino.nlink + k
           /\ Linked(d, k).ino.kind = d.ino.kind /\ Linked(d, k).ino.size = d.ino.size
           /\ Linked(d, k).ino.run = d.ino.run
<1>1. d.ino \in Inode /\ d.ino.nlink + k \in Int
  BY DEF NodeSet, Inode
<1>2. PICK o : o = [d.ino EXCEPT !.nlink = d.ino.nlink + k]
  OBVIOUS
<1>3. /\ o \in Inode /\ o.nlink = d.ino.nlink + k /\ o.kind = d.ino.kind
      /\ o.size = d.ino.size /\ o.run = d.ino.run
  BY <1>1, <1>2 DEF Inode
<1>4. Linked(d, k) = [d EXCEPT !.ino = o]
  BY <1>2 DEF Linked
<1>5. QED BY <1>3, <1>4 DEF NodeSet

\* A node's count is written, k more than the image has.
LEMMA CountWritten ==
    ASSUME NEW s \in Opened, NEW T, NEW U, Base(s, T, U), NEW i \in s.iused,
           NEW node, At(s, node, i), NEW k \in Int, NEW x, x = WriteInode(s, Linked(node, k))
    PROVE  /\ x \in Opened /\ Base(x, T, U) /\ x.iused = s.iused /\ x.content = s.content
           /\ Kind(x) = Kind(s)
           /\ At(x, Linked(node, k), i)
           /\ \A j \in Inodes : j # i => x.inode[j] = s.inode[j]
           /\ x.inode[i].run = s.inode[i].run /\ x.inode[i].size = s.inode[i].size
           /\ \A j \in Inodes : LinkOf(x)[j] = LinkOf(s)[j] + (IF j = i THEN k ELSE 0)
<1>1. i \in Inodes /\ node \in NodeSet /\ node.no = i /\ node.ino = s.inode[i]
  BY DEF At, Opened
<1>2. PICK g : g = Linked(node, k)
  OBVIOUS
<1>3. /\ g \in NodeSet /\ g.no = i /\ g.ino.nlink = s.inode[i].nlink + k
      /\ g.ino.kind = s.inode[i].kind /\ g.ino.size = s.inode[i].size
      /\ g.ino.run = s.inode[i].run
  BY <1>1, <1>2, LinkedFacts
<1>4. Recounted(s, T, U, g, x)
  BY <1>2, <1>3, RecountBase
<1>5. /\ x \in Opened /\ Base(x, T, U) /\ x.inode = [s.inode EXCEPT ![i] = g.ino]
      /\ x.iused = s.iused /\ x.content = s.content
  BY <1>3, <1>4 DEF Recounted
<1>6. x.inode[i] = g.ino /\ \A j \in Inodes : j # i => x.inode[j] = s.inode[j]
  BY <1>1, <1>5 DEF Opened
<1>7. Kind(x) = Kind(s)
  BY <1>3, <1>6 DEF Kind
<1>8. At(x, g, i)
  BY <1>3, <1>6 DEF At
<1>9. \A j \in Inodes : LinkOf(x)[j] = LinkOf(s)[j] + (IF j = i THEN k ELSE 0)
  <2>1. \A j \in Inodes : s.inode[j].nlink \in Int
    BY OpenedTyped, InodeTyped
  <2>2. QED BY <1>3, <1>6, <2>1 DEF LinkOf
<1>10. QED BY <1>2, <1>3, <1>5, <1>6, <1>7, <1>8, <1>9

LEMMA MkdirMakes ==
    ASSUME IInv, NEW p \in Dirs(disk), NEW n \in Names, NEW way \in Ways, Mkdir(p, n, way)
    PROVE  /\ Undamaged
           /\ \E s, U, W, i, new, r, c, x, V, ins :
                 /\ Making(s, U, W, p, n, i, new, TRUE, r, c, x, V, way, ins)
                 /\ new.ino.kind = "dir"
                 /\ \/ ins.ok /\ Ends(WriteInode(ins.s, Linked(ins.node, 1)), V, {}, {})
                    \/ ~ins.ok /\ Ends(Discard(x, new), expected, {}, {})
                    \/ ins.ok /\ Undone(x, ins, new)
<1>1. Undamaged
  BY DEF Mkdir
<1>2. PICK s, U : Begun(s, U)
  BY <1>1, Begin
<1>3. PICK i : i = Lowest(FreeInodes(disk))
  OBVIOUS
<1>4. PICK r : r = Lowest(FreeRuns(disk))
  OBVIOUS
<1>5. PICK new : new = [no |-> i, ino |-> Fresh("dir", 2, 1, r)]
  OBVIOUS
<1>6. PICK x : x = WriteInode(Fill(AllocRun(AllocInode(s, i), r), r, NewDir(p)), new)
  OBVIOUS
<1>7. PICK ins : ins = Insert(x, Node(disk, p), n, i, way)
  OBVIOUS
<1>8. PICK V : V = expected \cup {<<p, n, i>>}
  OBVIOUS
<1>9. /\ Absent(p, n) /\ FreeInodes(disk) # {} /\ FreeRuns(disk) # {}
      /\ \/ ins.ok /\ Ends(WriteInode(ins.s, Linked(ins.node, 1)), V, {}, {})
         \/ ~ins.ok /\ Ends(Discard(x, new), expected, {}, {})
         \/ ins.ok /\ Undone(x, ins, new)
  <2>1. s = Open(disk)
    BY <1>2 DEF Begun
  <2>2. QED BY <1>3, <1>4, <1>5, <1>6, <1>7, <1>8, <2>1 DEF Mkdir
<1>10. /\ p \in Inodes /\ IsDir(s, p) /\ p \in s.iused
       /\ \A j \in Inodes : j \in Lookup(disk, p, n) <=> <<p, n, j>> \in expected
  BY <1>2, BegunDir
<1>11. /\ i \in Inodes /\ i \notin s.iused /\ i # p
       /\ FreeRuns(s) = FreeRuns(disk) /\ s \in Opened
       /\ Base(s, expected, U) /\ U \in [Inodes -> Inodes]
  BY <1>2, <1>3, <1>9, <1>10, BegunFree DEF Begun
<1>12. PICK W : W = [U EXCEPT ![i] = p]
  OBVIOUS
<1>13. W \in [Inodes -> Inodes] /\ W[i] = p /\ \A j \in Inodes : j # i => W[j] = U[j]
  BY <1>10, <1>11, <1>12
<1>14. /\ new \in NodeSet /\ new.no = i /\ new.ino.kind = "dir" /\ new.ino.run = r
       /\ new.ino.nlink = 2 /\ new.ino.size = 1
  <2>1. r \in Runs
    BY <1>4, <1>9, <1>11, FreeRunFacts, OpenedTyped
  <2>2. 1 \in 0..MaxBlks
    BY NamespaceAssumption
  <2>3. QED BY <1>5, <1>11, <2>1, <2>2 DEF NodeSet, Inode, Fresh, Kinds
<1>15. Made(s, expected, W, new, x)
  <2>1. r = (IF TRUE THEN Lowest(FreeRuns(s)) ELSE 0) /\ FreeRuns(s) # {}
    BY <1>4, <1>9, <1>11
  <2>2. PICK c : c = NewDir(p)
    OBVIOUS
  <2>3. /\ c \in Content /\ Neat(c, new.ino.size) /\ c.dotdot = W[i]
        /\ \A m \in Names, j \in Inodes : ~Has(c, new.ino.size, m, j)
    BY <1>10, <1>13, <1>14, <2>2, NewDirFacts
  <2>4. x = MakeInode(s, i, TRUE, r, c, new)
    BY <1>6, <2>2 DEF MakeInode
  <2>5. /\ s \in Opened /\ Base(s, expected, U) /\ i \in Inodes /\ i \notin s.iused
        /\ new \in NodeSet /\ new.no = i /\ new.ino.kind # "free" /\ new.ino.run = r
        /\ W \in [Inodes -> Inodes] /\ (\A j \in Inodes : j # i => W[j] = U[j])
        /\ TRUE \in BOOLEAN
    BY <1>11, <1>13, <1>14
  <2>6. Made(s, expected, W, new, MakeInode(s, i, TRUE, r, c, new))
    BY ONLY <2>1, <2>3, <2>5, MakeInodeBase, ZenonT(30)
  <2>7. QED BY <2>4, <2>6
<1>16. NewAt(s, U, W, p, n, i, new, x, V)
  <2>1. NoEntry(expected, p, n)
    BY <1>9, <1>10 DEF Absent, NoEntry
  <2>2. QED BY <1>2, <1>8, <1>10, <1>11, <1>12, <1>14, <1>15, <2>1 DEF NewAt
<1>17. r \in Runs /\ r \notin s.rused /\ NewDir(p) \in Content
  BY <1>4, <1>9, <1>10, <1>11, FreeRunFacts, NewDirFacts, OpenedTyped
<1>18. x = MakeInode(s, i, TRUE, r, NewDir(p), new)
  BY <1>6 DEF MakeInode
<1>19. PICK c : c = NewDir(p)
  OBVIOUS
<1>20. Making(s, U, W, p, n, i, new, TRUE, r, c, x, V, way, ins)
  BY <1>7, <1>14, <1>16, <1>17, <1>18, <1>19 DEF Making
<1>21. QED BY <1>1, <1>9, <1>14, <1>20

LEMMA MkdirIn ==
    ASSUME IInv, NEW p \in Dirs(disk), NEW n \in Names, NEW way \in Ways, Mkdir(p, n, way)
    PROVE  /\ IInv'
           /\ \/ Told(expected, DirSet(disk))
              \/ \E i \in Inodes :
                    /\ i \notin disk.iused
                    /\ Told(expected \cup {<<p, n, i>>}, DirSet(disk) \cup {i})
<1>1. Undamaged
  BY MkdirMakes
<1>2. PICK s, U, W, i, new, r, c, x, V, ins :
         /\ Making(s, U, W, p, n, i, new, TRUE, r, c, x, V, way, ins)
         /\ new.ino.kind = "dir"
         /\ \/ ins.ok /\ Ends(WriteInode(ins.s, Linked(ins.node, 1)), V, {}, {})
            \/ ~ins.ok /\ Ends(Discard(x, new), expected, {}, {})
            \/ ins.ok /\ Undone(x, ins, new)
  BY MkdirMakes
<1>3. NewAt(s, U, W, p, n, i, new, x, V) /\ ins = Insert(x, Node(disk, p), n, i, way)
  BY <1>2 DEF Making
<1>4. /\ Begun(s, U) /\ V = expected \cup {<<p, n, i>>} /\ new \in NodeSet
      /\ Made(s, expected, W, new, x) /\ p \in Inodes /\ i \in Inodes /\ i \notin s.iused
      /\ p \in s.iused
  BY <1>3, BegunDir DEF NewAt
<1>5. Inserted(x, V, W, p, Node(disk, p), ins)
  BY <1>3, NewInserted
<1>6. expected \in SUBSET Edge /\ V \in SUBSET Edge /\ {} \in SUBSET Edge
  BY <1>3, <1>4 DEF Begun, NewAt, Edge
<1>7. CASE ins.ok /\ Ends(WriteInode(ins.s, Linked(ins.node, 1)), V, {}, {})
  <2>1. PICK y : y = ins.s
    OBVIOUS
  <2>2. PICK z : z = WriteInode(y, Linked(ins.node, 1))
    OBVIOUS
  <2>3. /\ y \in Opened /\ Base(y, V, W) /\ Kind(y) = Kind(x) /\ LinkOf(y) = LinkOf(x)
        /\ At(y, ins.node, p) /\ y.iused = x.iused
    <3>1. Kind(ins.s) = Kind(x) /\ LinkOf(ins.s) = LinkOf(x)
      BY <1>4, <1>5, <1>7, InsertedSame
    <3>2. /\ ins.s \in Opened /\ Base(ins.s, V, W)
          /\ At(ins.s, ins.node, p) /\ ins.s.iused = x.iused
      BY <1>5, <1>7 DEF Inserted
    <3>3. QED BY <2>1, <3>1, <3>2
  <2>4. p \in y.iused
    BY <1>4, <2>3 DEF Made
  <2>5. /\ z \in Opened /\ Base(z, V, W) /\ Kind(z) = Kind(y)
        /\ \A j \in Inodes : LinkOf(z)[j] = LinkOf(y)[j] + (IF j = p THEN 1 ELSE 0)
    <3>1. PICK k \in Int : k = 1
      OBVIOUS
    <3>2. QED BY <2>2, <2>3, <2>4, <3>1, CountWritten
  <2>6. Sound(z, V, W)
    <3>1. \A j \in Inodes : LinkOf(z)[j] =
             LinkOf(x)[j] + (IF j = p /\ new.ino.kind = "dir" THEN 1 ELSE 0)
      BY <1>2, <2>3, <2>5
    <3>2. Kind(z) = Kind(x)
      BY <2>3, <2>5
    <3>3. QED BY <1>3, <2>5, <3>1, <3>2, OpenedTyped, NewSound
  <2>7. Ends(z, V, {}, {})
    BY <1>7, <2>1, <2>2
  <2>8. DirSet(z) = DirSet(disk) \cup {i}
    <3>1. Kind(z) = Kind(x)
      BY <2>3, <2>5
    <3>2. QED BY <1>2, <1>3, <3>1, NewDirs
  <2>9. IInv' /\ Told(V, DirSet(z))
    BY <1>1, <1>6, <2>5, <2>6, <2>7, EndsIn
  <2>10. QED BY <1>4, <2>8, <2>9 DEF Begun
<1>8. CASE ~ins.ok /\ Ends(Discard(x, new), expected, {}, {})
  <2>1. /\ Discard(x, new) \in Opened /\ Sound(Discard(x, new), expected, U)
        /\ Discard(x, new).inode = disk.inode
    BY <1>4, <1>3, NewDiscarded DEF Begun
  <2>2. DirSet(Discard(x, new)) = DirSet(disk)
    BY <2>1 DEF DirSet, IsDir
  <2>3. QED BY <1>1, <1>6, <1>8, <2>1, <2>2, EndsIn
<1>9. CASE ins.ok /\ Undone(x, ins, new)
  <2>1. x \in Opened /\ ins.s \in Opened
    BY <1>4, <1>5 DEF Made, Inserted
  <2>2. QED BY <1>1, <1>4, <1>9, <2>1, UndoneIn
<1>10. QED BY <1>2, <1>7, <1>8, <1>9

-----------------------------------------------------------------------------
(* The calls that take a name away.                                        *)

LEMMA OneNameOnly ==
    ASSUME NEW T, T \subseteq Edge, NEW e \in T, Cardinality(NamesOf(T, e[3])) <= 1
    PROVE  \A x \in T : x[3] = e[3] => x = e
<1> DEFINE N == NamesOf(T, e[3])
<1>1. N \subseteq T /\ e \in N
  BY DEF NamesOf
<1>2. IsFiniteSet(N) /\ Cardinality(N) \in Nat
  <2>1. N \subseteq Edge
    BY <1>1
  <2> HIDE DEF N
  <2>2. QED BY <2>1, EdgeFinite, FS_CardinalityType
<1>3. N \ {e} = {}
  <2> HIDE DEF N
  <2>1. IsFiniteSet(N \ {e}) /\ Cardinality(N \ {e}) = Cardinality(N) - 1
    BY <1>1, <1>2, FS_RemoveElement
  <2>2. Cardinality(N \ {e}) \in Nat
    BY <2>1, FS_CardinalityType
  <2>3. Cardinality(N) <= 1
    BY DEF N
  <2>4. Cardinality(N \ {e}) = 0
    BY <1>2, <2>1, <2>2, <2>3
  <2>5. QED BY <2>1, <2>4, FS_EmptySet
<1>4. ASSUME NEW x \in T, x[3] = e[3] PROVE x = e
  <2>1. x \in N
    BY <1>4 DEF NamesOf
  <2>2. QED BY <1>3, <2>1
<1>5. QED BY <1>4

\* The entry n of p, which names i, and the tree without it.
Leaving(s, U, p, n, i, V) ==
    /\ Begun(s, U) /\ p \in Inodes /\ IsDir(s, p) /\ p \in s.iused
    /\ n \in Names /\ i \in Inodes /\ i \in s.iused /\ i # p
    /\ <<p, n, i>> \in expected
    /\ V = expected \ {<<p, n, i>>}

\* y is the image without that name, and node the directory p in it.
Dropped(s, U, V, p, i, node, y) ==
    /\ y \in Opened /\ Sound(y, V, U) /\ Base(y, V, U)
    /\ At(y, node, p) /\ IsDir(y, p)
    /\ Room(InDir(y, p), y.inode[p].size) # {}
    /\ ~IsDir(y, i)
    /\ \A j \in Inodes : j # i /\ j # p => y.inode[j] = s.inode[j] /\ (j \in y.iused <=> j \in s.iused)

LEMMA DroppedDirs ==
    ASSUME NEW s, NEW U, Begun(s, U), NEW V, NEW p \in Inodes, IsDir(s, p), NEW i,
           NEW node, NEW y, Dropped(s, U, V, p, i, node, y)
    PROVE  DirSet(y) = DirSet(disk) \ {i}
<1>1. \A j \in Inodes : IsDir(y, j) <=> IsDir(s, j) /\ j # i
  BY DEF Dropped, IsDir
<1>2. \A j \in Inodes : IsDir(s, j) <=> IsDir(disk, j)
  BY DEF Begun, IsDir
<1>3. QED BY <1>1, <1>2 DEF DirSet

LEMMA LeavingFacts ==
    ASSUME NEW s, NEW U, Begun(s, U), NEW p \in Dirs(disk), NEW n \in Names,
           NEW i \in Lookup(disk, p, n), NEW V, V = expected \ {<<p, n, i>>}
    PROVE  /\ Leaving(s, U, p, n, i, V)
           /\ At(s, Node(disk, i), i) /\ At(s, Node(disk, p), p)
           /\ \A j \in Inodes : <<p, n, j>> \in expected => j = i
           /\ U \in [Inodes -> Inodes] /\ V \in SUBSET Edge
<1>1. /\ p \in Inodes /\ IsDir(s, p) /\ p \in s.iused /\ At(s, Node(disk, p), p)
      /\ i \in Inodes /\ <<p, n, i>> \in expected
  BY BegunDir
<1>2. TreeOK(expected, Kind(s), U, LinkOf(s)) /\ Base(s, expected, U) /\ expected \in SUBSET Edge
  BY DEF Begun
<1>3. \A j \in Inodes : <<p, n, j>> \in expected => j = i
  BY <1>1, <1>2 DEF TreeOK, Shape
<1>4. i \in s.iused
  <2>1. Kind(s)[i] # "free"
    BY <1>1, <1>2 DEF TreeOK, Shape
  <2>2. s.inode[i].kind # "free"
    BY <1>1, <2>1 DEF Kind
  <2>3. QED BY <1>1, <1>2, <2>2 DEF Base, Owned, Cleared
<1>5. i # p
  <2>1. SUFFICES ASSUME i = p PROVE FALSE
    OBVIOUS
  <2>2. Kind(s)[i] = "dir"
    BY <1>1, <2>1 DEF Kind, IsDir
  <2>3. U[i] = i /\ i # Root
    BY <1>1, <1>2, <2>1, <2>2 DEF TreeOK, Shape
  <2>4. Rooted(Kind(s), U)
    BY <1>2 DEF TreeOK, Shape
  <2>5. {i} \in SUBSET Inodes /\ \A d \in {i} : Kind(s)[d] = "dir" /\ d # Root /\ U[d] \in {i}
    BY <1>1, <2>2, <2>3
  <2>6. {i} = {}
    BY <2>4, <2>5 DEF Rooted
  <2>7. QED BY <2>6
<1>6. U \in [Inodes -> Inodes] /\ V \in SUBSET Edge
  BY <1>2 DEF Begun
<1>7. At(s, Node(disk, i), i)
  BY <1>1, BegunNode
<1>8. QED BY <1>1, <1>3, <1>4, <1>5, <1>6, <1>7 DEF Leaving

\* The image after the entry and the inode it named are gone.
LEMMA GoneSound ==
    ASSUME NEW s, NEW U, NEW p, NEW n, NEW i, NEW V, Leaving(s, U, p, n, i, V),
           \A d \in Inodes, m \in Names : <<d, m, i>> \in expected => d = p /\ m = n,
           \A m \in Names, j \in Inodes : <<i, m, j>> \notin expected,
           NEW y, Typed(y), Base(y, V, U), Kind(y)[i] = "free",
           \A j \in Inodes : j # i => Kind(y)[j] = Kind(s)[j],
           \A j \in Inodes : j # i =>
              LinkOf(y)[j] = LinkOf(s)[j] - (IF j = p /\ IsDir(s, i) THEN 1 ELSE 0)
    PROVE  Sound(y, V, U)
<1>1. PICK K : K = Kind(s)
  OBVIOUS
<1>2. PICK C : C = LinkOf(s)
  OBVIOUS
<1>3. PICK L : L = Kind(y)
  OBVIOUS
<1>4. PICK D : D = LinkOf(y)
  OBVIOUS
<1>5. L \in [Inodes -> Kinds] /\ D \in [Inodes -> Int]
  BY <1>3, <1>4, SoundParts
<1>6. /\ TreeOK(expected, K, U, C) /\ p \in Inodes /\ n \in Names /\ i \in Inodes
      /\ <<p, n, i>> \in expected /\ V = expected \ {<<p, n, i>>}
  BY <1>1, <1>2 DEF Leaving, Begun
<1>7. K[i] = "dir" <=> IsDir(s, i)
  BY <1>1, <1>6 DEF Kind, IsDir
<1>8. \A j \in Inodes : j # i => D[j] = C[j] - (IF j = p /\ K[i] = "dir" THEN 1 ELSE 0)
  BY <1>2, <1>4, <1>7
<1>9. L[i] = "free" /\ \A j \in Inodes : j # i => L[j] = K[j]
  BY <1>1, <1>3
<1>10. DropsObject(expected, K, U, C, p, n, i, L, D, V)
  BY <1>5, <1>6, <1>8, <1>9 DEF DropsObject
<1>11. TreeOK(V, L, U, D)
  BY <1>10, TreeLessObject
<1>12. QED BY <1>3, <1>4, <1>11, SoundParts

\* nextufs__remove_linked_inode after the entry is gone.
LEMMA UnlinkedSound ==
    ASSUME NEW s, NEW U, Begun(s, U), NEW p \in Dirs(disk), NEW n \in Names,
           NEW i \in Lookup(disk, p, n), ~IsDir(disk, i), NEW V, V = expected \ {<<p, n, i>>},
           NEW rem, rem = Remove(s, Node(disk, p), n),
           NEW y, y = RemoveLinked(rem.s, Node(disk, i))
    PROVE  rem.ok /\ rem.node = Node(disk, p) /\ Dropped(s, U, V, p, i, rem.node, y)
<1>1. PICK up : up = Node(disk, p)
  OBVIOUS
<1>2. PICK t : t = Node(disk, i)
  OBVIOUS
<1>3. /\ Leaving(s, U, p, n, i, V) /\ At(s, t, i) /\ At(s, up, p)
      /\ \A j \in Inodes : <<p, n, j>> \in expected => j = i
  BY <1>1, <1>2, LeavingFacts
<1>4. /\ s \in Opened /\ Base(s, expected, U) /\ TreeOK(expected, Kind(s), U, LinkOf(s))
      /\ p \in Inodes /\ IsDir(s, p) /\ p \in s.iused /\ i \in Inodes /\ i \in s.iused /\ i # p
      /\ <<p, n, i>> \in expected /\ expected \in SUBSET Edge
      /\ V = expected \ {<<p, n, i>>}
  BY <1>3 DEF Leaving, Begun
<1>5. ~IsDir(s, i)
  BY DEF Begun, IsDir
<1>6. Removed(s, V, U, p, up, rem)
  BY <1>1, <1>3, <1>4, RemoveBase
<1>7. PICK x : x = rem.s
  OBVIOUS
<1>8. /\ rem.ok /\ rem.node = up /\ x \in Opened /\ Base(x, V, U) /\ x.inode = s.inode
      /\ x.iused = s.iused /\ Room(InDir(x, p), s.inode[p].size) # {}
  BY <1>6, <1>7 DEF Removed
<1>9. At(x, t, i) /\ At(x, up, p) /\ ~IsDir(x, i) /\ IsDir(x, p) /\ Kind(x) = Kind(s)
      /\ LinkOf(x) = LinkOf(s)
  BY <1>3, <1>4, <1>5, <1>8 DEF At, IsDir, Kind, LinkOf
<1>10. /\ t \in NodeSet /\ t.no = i /\ t.ino = s.inode[i]
       /\ LinkOf(s)[i] = t.ino.nlink /\ t.ino.nlink \in Int
       /\ Kind(s)[i] # "dir" /\ Kind(s)[i] # "free"
  <2>1. t \in NodeSet /\ t.no = i /\ t.ino = s.inode[i]
    BY <1>3 DEF At
  <2>2. t.ino.nlink \in Int
    BY <1>4, <2>1, InodeTyped, OpenedTyped
  <2>3. LinkOf(s)[i] = t.ino.nlink
    BY <1>4, <2>1 DEF LinkOf
  <2>4. Kind(s)[i] # "dir" /\ Kind(s)[i] # "free"
    BY <1>4, <1>5 DEF Kind, IsDir, Base, Owned
  <2>5. QED BY <2>1, <2>2, <2>3, <2>4
<1>11. Linked(t, -1).ino.nlink = t.ino.nlink - 1
  <2>1. PICK k \in Int : k = -1
    OBVIOUS
  <2>2. Linked(t, k).ino.nlink = t.ino.nlink + k
    BY <1>10, LinkedFacts
  <2>3. QED BY <1>10, <2>1, <2>2
<1>12. CASE t.ino.nlink - 1 > 0
  <2>1. y = WriteInode(x, Linked(t, -1))
    BY <1>2, <1>7, <1>11, <1>12 DEF RemoveLinked
  <2>2. /\ y \in Opened /\ Base(y, V, U) /\ y.iused = x.iused /\ y.content = x.content
        /\ Kind(y) = Kind(x) /\ \A j \in Inodes : j # i => y.inode[j] = x.inode[j]
        /\ \A j \in Inodes : LinkOf(y)[j] = LinkOf(x)[j] - (IF j = i THEN 1 ELSE 0)
    <3>1. PICK k \in Int : k = -1
      OBVIOUS
    <3>2. /\ y \in Opened /\ Base(y, V, U) /\ y.iused = x.iused /\ y.content = x.content
          /\ Kind(y) = Kind(x) /\ \A j \in Inodes : j # i => y.inode[j] = x.inode[j]
          /\ \A j \in Inodes : LinkOf(y)[j] = LinkOf(x)[j] + (IF j = i THEN k ELSE 0)
      <4>1. y = WriteInode(x, Linked(t, k))
        BY <2>1, <3>1
      <4>2. i \in x.iused
        BY <1>4, <1>8
      <4>3. QED BY <1>8, <1>9, <4>1, <4>2, CountWritten
    <3>3. LinkOf(x) \in [Inodes -> Int]
      BY <1>8, OpenedTyped, SoundParts
    <3>4. QED BY <3>1, <3>2, <3>3
  <2>3. PICK K : K = Kind(s)
    OBVIOUS
  <2>4. PICK C : C = LinkOf(s)
    OBVIOUS
  <2>5. PICK D : D = LinkOf(y)
    OBVIOUS
  <2>6. D \in [Inodes -> Int]
    BY <2>2, <2>5, OpenedTyped, SoundParts
  <2>7. TreeOK(expected, K, U, C) /\ K[i] # "dir" /\ C[i] # 1
    BY <1>4, <1>10, <1>12, <2>3, <2>4
  <2>8. \A j \in Inodes : D[j] = C[j] - (IF j = i THEN 1 ELSE 0)
    BY <1>9, <2>2, <2>4, <2>5
  <2>9. DropsName(expected, K, U, C, p, n, i, D, V)
    BY <1>4, <2>6, <2>7, <2>8 DEF DropsName
  <2>10. TreeOK(V, K, U, D)
    BY <2>9, TreeLessName
  <2>11. Sound(y, V, U)
    BY <1>9, <2>2, <2>3, <2>5, <2>10, OpenedTyped, SoundParts
  <2>12. y.inode[p] = x.inode[p] /\ InDir(y, p) = InDir(x, p)
    BY <1>4, <2>2 DEF InDir
  <2>13. At(y, up, p) /\ IsDir(y, p) /\ Room(InDir(y, p), y.inode[p].size) # {}
    BY <1>8, <1>9, <2>12 DEF At, IsDir
  <2>14. ~IsDir(y, i)
    BY <1>4, <1>9, <1>10, <2>2 DEF Kind, IsDir
  <2>15. QED BY <1>1, <1>8, <2>2, <2>11, <2>13, <2>14 DEF Dropped
<1>13. CASE ~(t.ino.nlink - 1 > 0)
  <2>1. y = Discard(x, t)
    BY <1>2, <1>7, <1>11, <1>13 DEF RemoveLinked, Discard
  <2>2. \A m \in Names, j \in Inodes : <<i, m, j>> \notin expected
    BY <1>4, <1>5 DEF Base, Lists
  <2>3. Discarded(x, V, U, i, y)
    <3>1. \A m \in Names, j \in Inodes : <<i, m, j>> \notin V
      BY <1>4, <2>2
    <3>2. QED BY <1>4, <1>8, <1>9, <2>1, <3>1, DiscardBase
  <2>4. /\ y \in Opened /\ Base(y, V, U) /\ y.inode = [x.inode EXCEPT ![i] = Cleared]
        /\ y.iused = x.iused \ {i} /\ y.content = x.content
    BY <2>3 DEF Discarded
  <2>5. y.inode[i] = Cleared /\ \A j \in Inodes : j # i => y.inode[j] = x.inode[j]
    BY <1>4, <1>8, <2>4 DEF Opened
  <2>6. Kind(y)[i] = "free" /\ \A j \in Inodes : j # i => Kind(y)[j] = Kind(s)[j]
    BY <1>4, <1>8, <2>5 DEF Kind, Cleared
  <2>7. \A j \in Inodes : j # i =>
           LinkOf(y)[j] = LinkOf(s)[j] - (IF j = p /\ IsDir(s, i) THEN 1 ELSE 0)
    <3>1. LinkOf(s) \in [Inodes -> Int]
      BY <1>4 DEF TreeOK
    <3>2. \A j \in Inodes : j # i => LinkOf(y)[j] = LinkOf(s)[j]
      BY <1>8, <2>5 DEF LinkOf
    <3>3. QED BY <1>5, <3>1, <3>2
  <2>8. \A d \in Inodes, m \in Names : <<d, m, i>> \in expected => d = p /\ m = n
    <3>1. Cardinality(NamesOf(expected, i)) <= 1
      <4>1. LinkOf(s)[i] = Cardinality(NamesOf(expected, i))
        BY <1>4, <1>10 DEF TreeOK, Counts
      <4>2. QED BY <1>10, <1>13, <4>1
    <3>2. PICK e : e = <<p, n, i>>
      OBVIOUS
    <3>3. e \in expected /\ e[3] = i
      BY <1>4, <3>2
    <3>4. \A x2 \in expected : x2[3] = i => x2 = e
      BY <1>4, <3>1, <3>3, OneNameOnly
    <3>5. ASSUME NEW d \in Inodes, NEW m \in Names, <<d, m, i>> \in expected
          PROVE  d = p /\ m = n
      <4>1. <<d, m, i>> = e
        BY <3>4, <3>5
      <4>2. QED BY <3>2, <4>1
    <3>6. QED BY <3>5
  <2>9. Sound(y, V, U)
    BY <1>3, <2>2, <2>4, <2>6, <2>7, <2>8, OpenedTyped, GoneSound
  <2>10. y.inode[p] = x.inode[p] /\ InDir(y, p) = InDir(x, p)
    BY <1>4, <2>4, <2>5 DEF InDir
  <2>11. At(y, up, p) /\ IsDir(y, p) /\ Room(InDir(y, p), y.inode[p].size) # {}
    BY <1>8, <1>9, <2>10 DEF At, IsDir
  <2>12. \A j \in Inodes : j # i /\ j # p =>
            y.inode[j] = s.inode[j] /\ (j \in y.iused <=> j \in s.iused)
    BY <1>8, <2>4, <2>5
  <2>13. ~IsDir(y, i)
    BY <2>5 DEF IsDir, Cleared
  <2>14. QED BY <1>1, <1>8, <2>4, <2>9, <2>11, <2>12, <2>13 DEF Dropped
<1>14. QED BY <1>12, <1>13

\* nextufs__remove_dir_inode after the entry is gone: an empty directory.
LEMMA RmdirSound ==
    ASSUME NEW s, NEW U, Begun(s, U), NEW p \in Dirs(disk), NEW n \in Names,
           NEW i \in Lookup(disk, p, n), IsDir(disk, i), EmptyDir(disk, i, p),
           NEW V, V = expected \ {<<p, n, i>>},
           NEW rem, rem = Remove(s, Node(disk, p), n),
           NEW dir, dir = RemoveDir(rem.s, rem.node, Node(disk, i))
    PROVE  /\ rem.ok /\ rem.node = Node(disk, p) /\ Dropped(s, U, V, p, i, dir.node, dir.s)
           /\ \A m \in Names, j \in Inodes : <<i, m, j>> \notin expected
<1>1. PICK up : up = Node(disk, p)
  OBVIOUS
<1>2. PICK t : t = Node(disk, i)
  OBVIOUS
<1>3. /\ Leaving(s, U, p, n, i, V) /\ At(s, t, i) /\ At(s, up, p)
      /\ \A j \in Inodes : <<p, n, j>> \in expected => j = i
  BY <1>1, <1>2, LeavingFacts
<1>4. /\ s \in Opened /\ Base(s, expected, U) /\ TreeOK(expected, Kind(s), U, LinkOf(s))
      /\ p \in Inodes /\ IsDir(s, p) /\ p \in s.iused /\ i \in Inodes /\ i \in s.iused /\ i # p
      /\ <<p, n, i>> \in expected /\ expected \in SUBSET Edge
      /\ V = expected \ {<<p, n, i>>}
  BY <1>3 DEF Leaving, Begun
<1>5. IsDir(s, i)
  BY DEF Begun, IsDir
<1>6. Removed(s, V, U, p, up, rem)
  BY <1>1, <1>3, <1>4, RemoveBase
<1>7. PICK x : x = rem.s
  OBVIOUS
<1>8. /\ rem.ok /\ rem.node = up /\ x \in Opened /\ Base(x, V, U) /\ x.inode = s.inode
      /\ x.iused = s.iused /\ Room(InDir(x, p), s.inode[p].size) # {}
  BY <1>6, <1>7 DEF Removed
<1>9. At(x, t, i) /\ At(x, up, p) /\ IsDir(x, p) /\ Kind(x) = Kind(s) /\ LinkOf(x) = LinkOf(s)
  BY <1>3, <1>4, <1>8 DEF At, IsDir, Kind, LinkOf
<1>10. PICK z : z = Discard(x, t)
  OBVIOUS
<1>11. PICK y : y = WriteInode(z, Linked(up, -1))
  OBVIOUS
<1>12. dir.node = Linked(up, -1) /\ dir.s = y
  BY <1>2, <1>7, <1>8, <1>10, <1>11 DEF RemoveDir, Discard
<1>13. \A m \in Names, j \in Inodes : <<i, m, j>> \notin expected
  <2>1. ListOf(disk, disk.inode[i]) = {}
    BY DEF EmptyDir
  <2>2. Typed(disk) /\ Lists(disk, expected) /\ Owned(disk)
    BY DEF Begun, Sound
  <2>3. QED BY <1>4, <2>1, <2>2, ListedFacts
<1>14. Discarded(x, V, U, i, z)
  <2>1. \A m \in Names, j \in Inodes : <<i, m, j>> \notin V
    BY <1>4, <1>13
  <2>2. QED BY <1>4, <1>8, <1>9, <1>10, <2>1, DiscardBase
<1>15. /\ z \in Opened /\ Base(z, V, U) /\ z.inode = [x.inode EXCEPT ![i] = Cleared]
       /\ z.iused = x.iused \ {i} /\ z.content = x.content
  BY <1>14 DEF Discarded
<1>16. z.inode[i] = Cleared /\ \A j \in Inodes : j # i => z.inode[j] = x.inode[j]
  BY <1>4, <1>8, <1>15 DEF Opened
<1>17. At(z, up, p) /\ p \in z.iused
  BY <1>4, <1>8, <1>9, <1>15, <1>16 DEF At
<1>18. PICK k \in Int : k = -1
  OBVIOUS
<1>19. /\ y \in Opened /\ Base(y, V, U) /\ y.iused = z.iused /\ y.content = z.content
       /\ Kind(y) = Kind(z) /\ At(y, Linked(up, k), p)
       /\ \A j \in Inodes : j # p => y.inode[j] = z.inode[j]
       /\ y.inode[p].run = z.inode[p].run /\ y.inode[p].size = z.inode[p].size
       /\ \A j \in Inodes : LinkOf(y)[j] = LinkOf(z)[j] + (IF j = p THEN k ELSE 0)
  <2>1. y = WriteInode(z, Linked(up, k))
    BY <1>11, <1>18
  <2>2. z \in Opened /\ Base(z, V, U) /\ At(z, up, p) /\ p \in z.iused
    BY <1>15, <1>17
  <2>3. /\ y \in Opened /\ Base(y, V, U) /\ y.iused = z.iused /\ y.content = z.content
        /\ Kind(y) = Kind(z) /\ At(y, Linked(up, k), p)
    BY <2>1, <2>2, CountWritten
  <2>4. /\ \A j \in Inodes : j # p => y.inode[j] = z.inode[j]
        /\ y.inode[p].run = z.inode[p].run /\ y.inode[p].size = z.inode[p].size
    BY <2>1, <2>2, CountWritten
  <2>5. \A j \in Inodes : LinkOf(y)[j] = LinkOf(z)[j] + (IF j = p THEN k ELSE 0)
    BY <2>1, <2>2, CountWritten
  <2>6. QED BY <2>3, <2>4, <2>5
<1>20. Kind(y)[i] = "free" /\ \A j \in Inodes : j # i => Kind(y)[j] = Kind(s)[j]
  <2>1. Kind(z)[i] = "free" /\ \A j \in Inodes : j # i => Kind(z)[j] = Kind(s)[j]
    BY <1>4, <1>8, <1>16 DEF Kind, Cleared
  <2>2. QED BY <1>19, <2>1
<1>21. \A j \in Inodes : j # i =>
          LinkOf(y)[j] = LinkOf(s)[j] - (IF j = p /\ IsDir(s, i) THEN 1 ELSE 0)
  <2>1. LinkOf(s) \in [Inodes -> Int]
    BY <1>4 DEF TreeOK
  <2>2. \A j \in Inodes : j # i => LinkOf(z)[j] = LinkOf(s)[j]
    BY <1>8, <1>16 DEF LinkOf
  <2>3. QED BY <1>5, <1>18, <1>19, <2>1, <2>2
<1>22. \A d \in Inodes, m \in Names : <<d, m, i>> \in expected => d = p /\ m = n
  <2>1. Kind(s)[i] = "dir" /\ n \in Names
    BY <1>3, <1>4, <1>5 DEF Kind, IsDir, Leaving
  <2>2. QED BY <1>4, <2>1 DEF TreeOK, Shape
<1>23. Sound(y, V, U)
  BY <1>3, <1>13, <1>19, <1>20, <1>21, <1>22, OpenedTyped, GoneSound
<1>24. IsDir(y, p)
  <2>1. Kind(y)[p] = Kind(s)[p]
    BY <1>4, <1>20
  <2>2. QED BY <1>4, <2>1 DEF Kind, IsDir
<1>25. Room(InDir(y, p), y.inode[p].size) # {}
  <2>1. z.inode[p] = s.inode[p]
    BY <1>4, <1>8, <1>16
  <2>2. InDir(y, p) = InDir(x, p) /\ y.inode[p].size = s.inode[p].size
    BY <1>8, <1>15, <1>19, <2>1 DEF InDir
  <2>3. QED BY <1>8, <2>2
<1>26. \A j \in Inodes : j # i /\ j # p =>
          y.inode[j] = s.inode[j] /\ (j \in y.iused <=> j \in s.iused)
  BY <1>8, <1>15, <1>16, <1>19
<1>27. ~IsDir(y, i)
  BY <1>4, <1>20 DEF Kind, IsDir
<1>28. Dropped(s, U, V, p, i, dir.node, y)
  BY <1>12, <1>18, <1>19, <1>23, <1>24, <1>25, <1>26, <1>27 DEF Dropped
<1>29. QED BY <1>1, <1>8, <1>12, <1>13, <1>28

LEMMA UnlinkIn ==
    ASSUME IInv, NEW p \in Dirs(disk), NEW n \in Names, NEW i \in Lookup(disk, p, n),
           Unlink(p, n, i)
    PROVE  IInv' /\ Told(expected \ {<<p, n, i>>}, DirSet(disk) \ {i})
<1>1. PICK rem : rem = Remove(Open(disk), Node(disk, p), n)
  OBVIOUS
<1>2. PICK y : y = RemoveLinked(rem.s, Node(disk, i))
  OBVIOUS
<1>3. PICK V : V = expected \ {<<p, n, i>>}
  OBVIOUS
<1>4. Undamaged /\ ~IsDir(disk, i)
  BY DEF Unlink
<1>5. PICK s, U : Begun(s, U)
  BY <1>4, Begin
<1>6. s = Open(disk) /\ s \in Opened
  BY <1>5 DEF Begun
<1>7. p \in Inodes /\ i \in Inodes /\ V \in SUBSET Edge
  BY <1>3, <1>5, BegunDir, LeavingFacts
<1>8. rem.ok /\ Dropped(s, U, V, p, i, rem.node, y)
  BY <1>1, <1>2, <1>3, <1>4, <1>5, <1>6, UnlinkedSound
<1>9. Ends(y, V, {<<p, n, i>>}, {})
  <2>1. PICK un : un = Unlinked(p, n, i)
    OBVIOUS
  <2>2. Ends(un.s, V, {<<p, n, i>>}, {})
    BY <1>3, <2>1 DEF Unlink
  <2>3. un = [rem EXCEPT !.s = y]
    BY <1>1, <1>2, <2>1 DEF Unlinked
  <2>4. un.s = y
    <3>1. Remove(Open(disk), Node(disk, p), n) =
             [ok |-> rem.ok, node |-> rem.node, s |-> rem.s]
      BY <1>1 DEF Remove
    <3>2. rem = [ok |-> rem.ok, node |-> rem.node, s |-> rem.s]
      BY <1>1, <3>1
    <3>3. QED BY <2>3, <3>2
  <2>5. QED BY <2>2, <2>4
<1>10. y \in Opened /\ Sound(y, V, U)
  BY <1>8 DEF Dropped
<1>11. {} \in SUBSET Edge
  OBVIOUS
<1>12. PICK names : names = {<<p, n, i>>}
  OBVIOUS
<1>13. Ends(y, V, names, {})
  BY <1>9, <1>12
<1>14. DirSet(y) = DirSet(disk) \ {i}
  BY <1>5, <1>8, BegunDir, DroppedDirs
<1>15. IInv' /\ Told(V, DirSet(y))
  BY <1>4, <1>7, <1>10, <1>11, <1>13, EndsIn
<1>16. QED BY <1>3, <1>14, <1>15

LEMMA RmdirIn ==
    ASSUME IInv, NEW p \in Dirs(disk), NEW n \in Names, NEW i \in Lookup(disk, p, n),
           Rmdir(p, n, i)
    PROVE  /\ IInv' /\ Told(expected \ {<<p, n, i>>}, DirSet(disk) \ {i})
           /\ \A m \in Names, j \in Inodes : <<i, m, j>> \notin expected
<1>1. PICK rem : rem = Remove(Open(disk), Node(disk, p), n)
  OBVIOUS
<1>2. PICK dir : dir = RemoveDir(rem.s, rem.node, Node(disk, i))
  OBVIOUS
<1>3. PICK V : V = expected \ {<<p, n, i>>}
  OBVIOUS
<1>4. PICK names : names = {<<p, n, i>>}
  OBVIOUS
<1>5. Undamaged /\ IsDir(disk, i) /\ EmptyDir(disk, i, p) /\ Ends(dir.s, V, names, {})
  BY <1>1, <1>2, <1>3, <1>4 DEF Rmdir
<1>6. PICK s, U : Begun(s, U)
  BY <1>5, Begin
<1>7. s = Open(disk) /\ s \in Opened
  BY <1>6 DEF Begun
<1>8. V \in SUBSET Edge /\ {} \in SUBSET Edge
  BY <1>3, <1>6, LeavingFacts
<1>9. /\ Dropped(s, U, V, p, i, dir.node, dir.s)
      /\ \A m \in Names, j \in Inodes : <<i, m, j>> \notin expected
  BY <1>1, <1>2, <1>3, <1>5, <1>6, <1>7, RmdirSound
<1>10. PICK y : y = dir.s
  OBVIOUS
<1>11. y \in Opened /\ Sound(y, V, U) /\ Ends(y, V, names, {})
  BY <1>5, <1>9, <1>10 DEF Dropped
<1>12. DirSet(y) = DirSet(disk) \ {i}
  BY <1>6, <1>9, <1>10, BegunDir, DroppedDirs
<1>13. IInv' /\ Told(V, DirSet(y))
  BY <1>5, <1>8, <1>11, EndsIn
<1>14. QED BY <1>3, <1>9, <1>12, <1>13

-----------------------------------------------------------------------------
(* Another name for a file, and new contents.                              *)

LEMMA BegunUsed ==
    ASSUME NEW s, NEW U, Begun(s, U), NEW i \in Reachable(disk)
    PROVE  i \in Inodes /\ i \in s.iused /\ At(s, Node(disk, i), i)
<1>1. Reachable(disk) = disk.iused /\ disk.iused \in SUBSET Inodes /\ s.iused = disk.iused
  BY WalkFacts DEF Begun, Typed
<1>2. i \in Inodes /\ i \in s.iused
  BY <1>1
<1>3. QED BY <1>2, BegunNode

LEMMA LinkIn ==
    ASSUME IInv, NEW p \in Dirs(disk), NEW n \in Names, NEW i \in Reachable(disk),
           NEW way \in Ways, Link(p, n, i, way)
    PROVE  /\ IInv'
           /\ \/ Told(expected, DirSet(disk))
              \/ Told(expected \cup {<<p, n, i>>}, DirSet(disk))
<1>1. Undamaged /\ ~IsDir(disk, i) /\ Absent(p, n)
  BY DEF Link
<1>2. PICK s, U : Begun(s, U)
  BY <1>1, Begin
<1>3. PICK t : t = Node(disk, i)
  OBVIOUS
<1>4. PICK x : x = WriteInode(s, Linked(t, 1))
  OBVIOUS
<1>5. PICK ins : ins = Insert(x, Node(disk, p), n, i, way)
  OBVIOUS
<1>6. PICK V : V = expected \cup {<<p, n, i>>}
  OBVIOUS
<1>7. IF ins.ok THEN Ends(ins.s, V, {}, {}) ELSE Leaves(ins.s, expected, "link count kept")
  <2>1. s = Open(disk)
    BY <1>2 DEF Begun
  <2>2. QED BY <1>3, <1>4, <1>5, <1>6, <2>1 DEF Link
<1>8. /\ p \in Inodes /\ IsDir(s, p) /\ At(s, Node(disk, p), p)
      /\ \A j \in Inodes : <<p, n, j>> \notin expected
  BY <1>1, <1>2, BegunDir DEF Absent
<1>9. i \in Inodes /\ i \in s.iused /\ At(s, t, i)
  BY <1>2, <1>3, BegunUsed
<1>10. /\ s \in Opened /\ Base(s, expected, U) /\ TreeOK(expected, Kind(s), U, LinkOf(s))
       /\ ~IsDir(s, i) /\ expected \in SUBSET Edge /\ U \in [Inodes -> Inodes]
  BY <1>1, <1>2 DEF Begun, IsDir
<1>11. i # p
  BY <1>8, <1>10
<1>12. PICK k \in Int : k = 1
  OBVIOUS
<1>13. /\ x \in Opened /\ Base(x, expected, U) /\ Kind(x) = Kind(s)
       /\ \A j \in Inodes : j # i => x.inode[j] = s.inode[j]
       /\ \A j \in Inodes : LinkOf(x)[j] = LinkOf(s)[j] + (IF j = i THEN k ELSE 0)
  <2>1. x = WriteInode(s, Linked(t, k))
    BY <1>4, <1>12
  <2>2. x \in Opened /\ Base(x, expected, U) /\ Kind(x) = Kind(s)
    BY <1>9, <1>10, <2>1, CountWritten
  <2>3. \A j \in Inodes : j # i => x.inode[j] = s.inode[j]
    BY <1>9, <1>10, <2>1, CountWritten
  <2>4. \A j \in Inodes : LinkOf(x)[j] = LinkOf(s)[j] + (IF j = i THEN k ELSE 0)
    BY <1>9, <1>10, <2>1, CountWritten
  <2>5. QED BY <2>2, <2>3, <2>4
<1>14. At(x, Node(disk, p), p) /\ IsDir(x, p)
  BY <1>8, <1>11, <1>13 DEF At, IsDir
<1>15. Inserted(x, V, U, p, Node(disk, p), ins)
  BY <1>5, <1>6, <1>8, <1>9, <1>13, <1>14, InsertBase
<1>16. V \in SUBSET Edge /\ {} \in SUBSET Edge
  BY <1>6, <1>8, <1>9, <1>10 DEF Edge
<1>17. CASE ins.ok
  <2>1. PICK y : y = ins.s
    OBVIOUS
  <2>2. Kind(ins.s) = Kind(x) /\ LinkOf(ins.s) = LinkOf(x)
    BY <1>8, <1>15, <1>17, InsertedSame
  <2>3. y \in Opened /\ Base(y, V, U)
    BY <1>15, <1>17, <2>1 DEF Inserted
  <2>4. PICK K : K = Kind(s)
    OBVIOUS
  <2>5. PICK C : C = LinkOf(s)
    OBVIOUS
  <2>6. PICK D : D = LinkOf(y)
    OBVIOUS
  <2>7. D \in [Inodes -> Int]
    BY <2>3, <2>6, OpenedTyped, SoundParts
  <2>8. TreeOK(expected, K, U, C) /\ K[p] = "dir" /\ K[i] # "dir" /\ K[i] # "free"
    BY <1>8, <1>9, <1>10, <2>4, <2>5 DEF Kind, IsDir, Base, Owned
  <2>9. \A j \in Inodes : D[j] = C[j] + (IF j = i THEN 1 ELSE 0)
    BY <1>12, <1>13, <2>1, <2>2, <2>5, <2>6
  <2>10. AddsName(expected, K, U, C, p, n, i, D, V)
    BY <1>6, <1>8, <1>9, <2>7, <2>8, <2>9 DEF AddsName
  <2>11. TreeOK(V, K, U, D)
    BY <2>10, TreeNewName
  <2>12. Kind(y) = K
    BY <1>13, <2>1, <2>2, <2>4
  <2>13. Sound(y, V, U)
    BY <2>3, <2>6, <2>11, <2>12, OpenedTyped, SoundParts
  <2>14. Ends(y, V, {}, {})
    BY <1>7, <1>17, <2>1
  <2>15. DirSet(y) = DirSet(disk)
    BY <1>2, <2>4, <2>12, SameDirs
  <2>16. IInv' /\ Told(V, DirSet(y))
    BY <1>1, <1>16, <2>3, <2>13, <2>14, EndsIn
  <2>17. QED BY <1>6, <2>15, <2>16
<1>18. CASE ~ins.ok
  <2>1. ins.s \in Opened
    BY <1>15 DEF Inserted
  <2>2. Leaves(ins.s, expected, "link count kept")
    BY <1>7, <1>18
  <2>3. "link count kept" \in Damages
    BY DEF Damages
  <2>4. Kind(ins.s) = Kind(s)
    BY <1>13, <1>15, <1>18 DEF Inserted
  <2>5. DirSet(ins.s) = DirSet(disk)
    BY <1>2, <2>4, SameDirs
  <2>6. IInv' /\ Told(expected, DirSet(ins.s))
    BY <1>10, <2>1, <2>2, <2>3, LeavesIn
  <2>7. QED BY <2>5, <2>6
<1>19. QED BY <1>17, <1>18

LEMMA RewriteIn ==
    ASSUME IInv, NEW i \in Reachable(disk), NEW data \in BOOLEAN, Rewrite(i, data)
    PROVE  IInv' /\ Told(expected, DirSet(disk))
<1>1. Undamaged /\ disk.inode[i].kind = "file" /\ (data => FreeRuns(disk) # {})
  BY DEF Rewrite
<1>2. PICK s, U : Begun(s, U)
  BY <1>1, Begin
<1>3. PICK r : r = IF data THEN Lowest(FreeRuns(disk)) ELSE 0
  OBVIOUS
<1>4. PICK new : new = [no |-> i, ino |-> [disk.inode[i] EXCEPT !.run = r]]
  OBVIOUS
<1>5. PICK s1 : s1 = IF data THEN Fill(AllocRun(s, r), r, NoContent) ELSE s
  OBVIOUS
<1>6. PICK y : y = FreeStorage(WriteInode(s1, new), disk.inode[i])
  OBVIOUS
<1>7. Ends(y, expected, {}, {})
  <2>1. s = Open(disk)
    BY <1>2 DEF Begun
  <2>2. QED BY <1>3, <1>4, <1>5, <1>6, <2>1 DEF Rewrite
<1>8. i \in Inodes /\ i \in s.iused
  BY <1>2, BegunUsed
<1>9. /\ s \in Opened /\ Base(s, expected, U) /\ TreeOK(expected, Kind(s), U, LinkOf(s))
      /\ expected \in SUBSET Edge /\ s.inode = disk.inode /\ FreeRuns(s) = FreeRuns(disk)
  BY <1>2, BegunFree DEF Begun
<1>10. r = (IF data THEN Lowest(FreeRuns(s)) ELSE 0) /\ (data => FreeRuns(s) # {})
  BY <1>1, <1>3, <1>9
<1>11. r \in Runs \cup {0}
  <2>1. data => r \in Runs
    BY <1>9, <1>10, FreeRunFacts, OpenedTyped
  <2>2. QED BY <1>3, <2>1
<1>12. /\ new \in NodeSet /\ new.no = i /\ new.ino.kind = "file" /\ new.ino.run = r
       /\ new.ino.nlink = s.inode[i].nlink
  <2>1. disk.inode[i] \in Inode
    BY <1>8, <1>9, InodeTyped, OpenedTyped
  <2>2. QED BY <1>1, <1>4, <1>8, <1>9, <1>11, <2>1 DEF NodeSet, Inode
<1>13. y \in Opened /\ Base(y, expected, U) /\ y.inode = [s.inode EXCEPT ![i] = new.ino]
  <2>1. y = FreeStorage(WriteInode(s1, new), s.inode[i]) /\ s.inode[i].kind = "file"
    BY <1>1, <1>6, <1>9
  <2>2. QED BY <1>5, <1>8, <1>9, <1>10, <1>12, <2>1, RewriteBase
<1>14. Kind(y) = Kind(s) /\ LinkOf(y) = LinkOf(s)
  <2>1. \A j \in Inodes : y.inode[j].kind = s.inode[j].kind /\ y.inode[j].nlink = s.inode[j].nlink
    BY <1>1, <1>8, <1>9, <1>12, <1>13 DEF Opened
  <2>2. QED BY <2>1 DEF Kind, LinkOf
<1>15. Sound(y, expected, U)
  BY <1>9, <1>13, <1>14, OpenedTyped, SoundParts
<1>16. {} \in SUBSET Edge
  OBVIOUS
<1>17. DirSet(y) = DirSet(disk)
  BY <1>2, <1>14, SameDirs
<1>18. QED BY <1>1, <1>7, <1>9, <1>13, <1>15, <1>16, <1>17, EndsIn

-----------------------------------------------------------------------------
(* nextufs_path_rename.                                                    *)

\* The way up that nextufs__directory_has_ancestor follows.
Climb(s, d) ==
    LET up[k \in 0..Cardinality(Inodes)] ==
            IF k = 0 THEN d
            ELSE IF up[k - 1] = Root THEN Root
            ELSE s.content[s.inode[up[k - 1]].run].dotdot
    IN  up

LEMMA ClimbFacts ==
    ASSUME NEW s, NEW T, NEW U, Base(s, T, U), TreeOK(T, Kind(s), U, LinkOf(s)),
           NEW q \in Inodes, IsDir(s, q)
    PROVE  /\ DOMAIN Climb(s, q) = 0..Cardinality(Inodes)
           /\ Climb(s, q)[0] = q
           /\ \A k \in 0..(Cardinality(Inodes) - 1) :
                 Climb(s, q)[k] # Root => Climb(s, q)[k + 1] = U[Climb(s, q)[k]]
<1> DEFINE n == Cardinality(Inodes)
           D == {d \in Inodes : IsDir(s, d)}
           step == [d \in D |-> IF d = Root THEN Root ELSE U[d]]
           Is(f) == f = [k \in 0..n |-> IF k = 0 THEN q
                                        ELSE IF f[k - 1] = Root THEN Root
                                        ELSE s.content[s.inode[f[k - 1]].run].dotdot]
<1>1. n \in Nat
  BY NamespaceAssumption, FS_CardinalityType
<1>2. q \in D /\ \A d \in D : step[d] \in D
  <2>1. ASSUME NEW d \in D, d # Root PROVE U[d] \in D
    <3>1. PICK K : K = Kind(s)
      OBVIOUS
    <3>2. PICK C : C = LinkOf(s)
      OBVIOUS
    <3>3. TreeOK(T, K, U, C) /\ K[d] = "dir"
      BY <3>1, <3>2 DEF Kind, IsDir
    <3>4. U[d] \in Inodes /\ K[U[d]] = "dir"
      BY <2>1, <3>3, ParentFacts
    <3>5. QED BY <3>1, <3>4 DEF Kind, IsDir
  <2>2. Root \in D
    BY RootInode DEF TreeOK, Shape, Kind, IsDir
  <2>3. QED BY <2>1, <2>2
<1>3. \A d \in D : d # Root => s.content[s.inode[d].run].dotdot = U[d]
  BY DEF Base, Ups, InDir
<1>4. PICK f : IsIteration(f, n, q, step)
  <2> HIDE DEF step, n
  <2>1. QED BY <1>1, IterationExists
<1>5. \A k \in 0..n : f[k] \in D
  <2> HIDE DEF step, n, D
  <2>1. QED BY <1>1, <1>2, <1>4, IterationIn
<1>6. f = [k \in 0..n |-> IF k = 0 THEN q ELSE step[f[k - 1]]]
  BY <1>4 DEF IsIteration
<1>7. Is(f)
  <2>1. ASSUME NEW k \in 0..n
        PROVE  f[k] = IF k = 0 THEN q
                      ELSE IF f[k - 1] = Root THEN Root
                      ELSE s.content[s.inode[f[k - 1]].run].dotdot
    <3>1. k # 0 => k - 1 \in 0..n
      BY <1>1
    <3>2. k # 0 => f[k - 1] \in D
      BY <1>5, <3>1
    <3>3. f[k] = IF k = 0 THEN q ELSE step[f[k - 1]]
      BY <1>6
    <3> HIDE DEF D
    <3>4. QED BY <1>3, <3>2, <3>3
  <2>2. f = [k \in 0..n |-> f[k]]
    BY <1>6
  <2>3. QED BY <2>1, <2>2
<1>8. Climb(s, q) = CHOOSE g : Is(g)
  BY DEF Climb
<1>9. Is(Climb(s, q))
  <2> HIDE DEF Is
  <2>1. QED BY <1>7, <1>8
<1>10. PICK g : g = Climb(s, q)
  OBVIOUS
<1>11. Is(g)
  <2> HIDE DEF Is
  <2>1. QED BY <1>9, <1>10
<1>12. g = f
  <2> DEFINE G == {k \in 0..n : g[k] = f[k]}
  <2>1. 0 \in G
    BY <1>1, <1>6, <1>11
  <2>2. ASSUME NEW k \in 0..(n - 1), k \in G PROVE k + 1 \in G
    <3>1. k + 1 \in 0..n /\ k + 1 # 0 /\ (k + 1) - 1 = k
      BY <1>1
    <3>2. g[k] = f[k]
      BY <2>2
    <3>3. f[k + 1] = IF f[k] = Root THEN Root ELSE s.content[s.inode[f[k]].run].dotdot
      BY <1>7, <3>1
    <3>4. g[k + 1] = IF g[k] = Root THEN Root ELSE s.content[s.inode[g[k]].run].dotdot
      BY <1>11, <3>1
    <3>5. QED BY <3>1, <3>2, <3>3, <3>4
  <2>3. 0..n \subseteq G
    <3> HIDE DEF G, n
    <3>1. QED BY <1>1, <2>1, <2>2, Upward
  <2>4. g = [k \in 0..n |-> g[k]] /\ f = [k \in 0..n |-> f[k]]
    BY <1>6, <1>11
  <2>5. QED BY <2>3, <2>4
<1>13. DOMAIN f = 0..n /\ f[0] = q
  BY <1>1, <1>6
<1>14. ASSUME NEW k \in 0..(n - 1), f[k] # Root PROVE f[k + 1] = U[f[k]]
  <2>1. k + 1 \in 0..n /\ k + 1 # 0 /\ (k + 1) - 1 = k /\ k \in 0..n
    BY <1>1
  <2>2. f[k] \in D
    BY <1>5, <2>1
  <2>3. f[k + 1] = step[f[k]]
    BY <1>6, <2>1
  <2>4. QED BY <1>14, <2>2, <2>3
<1>15. QED BY <1>10, <1>12, <1>13, <1>14

\* The directories above q, if a is not among them.
LEMMA AncestorFacts ==
    ASSUME NEW s, NEW T, NEW U, Base(s, T, U), TreeOK(T, Kind(s), U, LinkOf(s)),
           NEW q \in Inodes, IsDir(s, q), NEW a, ~HasAncestor(s, q, a)
    PROVE  \E A \in SUBSET Inodes :
              /\ q \in A /\ a \notin A
              /\ \A d \in A : IsDir(s, d) /\ (d = Root \/ U[d] \in A)
<1> DEFINE D == {d \in Inodes : IsDir(s, d)}
           n == Cardinality(Inodes)
           c == Cardinality(D)
           step == [S \in SUBSET D |-> S \cup {U[d] : d \in S \ {Root}}]
<1>1. n \in Nat /\ IsFiniteSet(D) /\ c \in Nat /\ c <= n
  <2>1. D \in SUBSET Inodes
    OBVIOUS
  <2> HIDE DEF D
  <2>2. QED BY <2>1, NamespaceAssumption, FS_CardinalityType, FS_Subset
<1>2. PICK up : up = Climb(s, q)
  OBVIOUS
<1>3. /\ DOMAIN up = 0..n /\ up[0] = q
      /\ \A k \in 0..(n - 1) : up[k] # Root => up[k + 1] = U[up[k]]
  BY <1>2, ClimbFacts
<1>4. \A k \in 0..n : up[k] # a
  <2>1. HasAncestor(s, q, a) = (\E k \in DOMAIN up : up[k] = a)
    BY <1>2 DEF HasAncestor, Climb
  <2>2. QED BY <1>3, <2>1
<1>5. \A S \in SUBSET D : step[S] \in SUBSET D /\ S \subseteq step[S]
  <2>1. ASSUME NEW d \in D, d # Root PROVE U[d] \in D
    <3>1. PICK K : K = Kind(s)
      OBVIOUS
    <3>2. PICK C : C = LinkOf(s)
      OBVIOUS
    <3>3. TreeOK(T, K, U, C) /\ K[d] = "dir"
      BY <3>1, <3>2 DEF Kind, IsDir
    <3>4. U[d] \in Inodes /\ K[U[d]] = "dir"
      BY <2>1, <3>3, ParentFacts
    <3>5. QED BY <3>1, <3>4 DEF Kind, IsDir
  <2> HIDE DEF D
  <2>2. QED BY <2>1
<1>6. {q} \in SUBSET D /\ {q} # {}
  OBVIOUS
<1>7. PICK f : IsIteration(f, c, {q}, step)
  <2> HIDE DEF step, c
  <2>1. QED BY <1>1, IterationExists
<1>8. f[c] \in SUBSET D /\ {q} \subseteq f[c] /\ step[f[c]] = f[c]
  <2> HIDE DEF step, D
  <2>1. QED BY <1>1, <1>5, <1>6, <1>7, IterationHalts
<1>9. f = [k \in 0..c |-> IF k = 0 THEN {q} ELSE step[f[k - 1]]]
  BY <1>7 DEF IsIteration
<1>10. \A k \in 0..c : f[k] \in SUBSET D
  <2> DEFINE P == SUBSET D
  <2>1. {q} \in P /\ \A S \in P : step[S] \in P
    BY <1>5, <1>6
  <2> HIDE DEF P, step, c
  <2>2. \A k \in 0..c : f[k] \in P
    BY <1>1, <1>7, <2>1, IterationIn
  <2>3. QED BY <2>2 DEF P
<1>11. \A x \in f[c] : x # a
  <2> DEFINE G == {k \in 0..c : \A x \in f[k] : \E j \in 0..k : up[j] = x}
  <2>1. 0 \in G
    <3>1. f[0] = {q}
      BY <1>1, <1>9
    <3>2. QED BY <1>1, <1>3, <3>1
  <2>2. ASSUME NEW k \in 0..(c - 1), k \in G PROVE k + 1 \in G
    <3>1. k + 1 \in 0..c /\ k + 1 # 0 /\ (k + 1) - 1 = k /\ k \in 0..c
      BY <1>1
    <3>2. f[k + 1] = f[k] \cup {U[d] : d \in f[k] \ {Root}}
      <4>1. f[k + 1] = step[f[k]]
        <5> HIDE DEF step, c
        <5>1. f[k + 1] = IF k + 1 = 0 THEN {q} ELSE step[f[(k + 1) - 1]]
          BY <1>9, <3>1
        <5>2. QED BY ONLY <3>1, <5>1
      <4>2. f[k] \in SUBSET D
        BY <1>10, <3>1
      <4> HIDE DEF D
      <4>3. QED BY <4>1, <4>2
    <3>3. ASSUME NEW x \in f[k + 1] PROVE \E j \in 0..(k + 1) : up[j] = x
      <4>1. CASE x \in f[k]
        <5>1. PICK j \in 0..k : up[j] = x
          BY <2>2, <4>1
        <5>2. j \in 0..(k + 1)
          BY <1>1
        <5>3. QED BY <5>1, <5>2
      <4>2. CASE x \notin f[k]
        <5>1. PICK d \in f[k] \ {Root} : x = U[d]
          BY <3>2, <3>3, <4>2
        <5>2. PICK j \in 0..k : up[j] = d
          BY <2>2, <5>1
        <5>3. j \in 0..(n - 1) /\ j + 1 \in 0..(k + 1)
          BY <1>1
        <5>4. up[j + 1] = x
          BY <1>3, <5>1, <5>2, <5>3
        <5>5. QED BY <5>3, <5>4
      <4>3. QED BY <4>1, <4>2
    <3>4. QED BY <3>1, <3>3
  <2>3. 0..c \subseteq G
    <3> HIDE DEF G, c
    <3>1. QED BY <1>1, <2>1, <2>2, Upward
  <2>4. c \in G
    <3>1. c \in Nat
      BY <1>1
    <3> HIDE DEF G, c
    <3>2. c \in 0..c
      BY <3>1
    <3>3. QED BY <2>3, <3>2
  <2>5. ASSUME NEW x \in f[c] PROVE x # a
    <3>1. PICK j \in 0..c : up[j] = x
      BY <2>4
    <3>2. j \in 0..n
      BY <1>1
    <3>3. QED BY <1>4, <3>1, <3>2
  <2>6. QED BY <2>5
<1>12. PICK A : A = f[c]
  OBVIOUS
<1>13. A \in SUBSET Inodes /\ q \in A /\ a \notin A /\ \A d \in A : IsDir(s, d)
  BY <1>8, <1>11, <1>12
<1>14. ASSUME NEW d \in A, d # Root PROVE U[d] \in A
  <2>1. A \in SUBSET D /\ step[A] = A
    BY <1>8, <1>12
  <2> HIDE DEF D
  <2>2. step[A] = A \cup {U[y] : y \in A \ {Root}}
    BY <2>1
  <2>3. QED BY <1>14, <2>1, <2>2
<1>15. QED BY <1>13, <1>14

\* The entry m of q, if there was one, is gone with the inode it named: X is
\* the tree without it.
TargetGone(s, U, X, p, q, m, i, T, gone) ==
    /\ gone.s \in Opened /\ Sound(gone.s, X, U) /\ Base(gone.s, X, U)
    /\ At(gone.s, gone.node, q) /\ IsDir(gone.s, q)
    /\ X \in SUBSET Edge
    /\ \A d \in Inodes, x \in Names, j \in Inodes :
          <<d, x, j>> \in X <=> <<d, x, j>> \in expected /\ ~(d = q /\ x = m)
    /\ T # {} => Room(InDir(gone.s, q), gone.s.inode[q].size) # {}
    /\ T = {} => X = expected
    /\ gone.s.inode[i] = s.inode[i] /\ (i \in gone.s.iused <=> i \in s.iused)
    /\ p # q => gone.s.inode[p] = s.inode[p] /\ (p \in gone.s.iused <=> p \in s.iused)
    /\ DirSet(gone.s) = DirSet(disk) \ T

LEMMA TargetRemovedSound ==
    ASSUME NEW s, NEW U, Begun(s, U), NEW p \in Dirs(disk), NEW n \in Names,
           NEW q \in Dirs(disk), NEW m \in Names, NEW i \in Lookup(disk, p, n), i # q,
           NEW T, T = Lookup(disk, q, m), i \notin T, \A t \in T : Replaceable(i, t, q),
           NEW gone, gone = TargetRemoved(s, Node(disk, q), m, T)
    PROVE  \E X : TargetGone(s, U, X, p, q, m, i, T, gone)
<1>1. /\ p \in Inodes /\ IsDir(s, p) /\ q \in Inodes /\ IsDir(s, q) /\ At(s, Node(disk, q), q)
      /\ i \in Inodes /\ <<p, n, i>> \in expected
      /\ T \in SUBSET Inodes /\ \A j \in Inodes : j \in T <=> <<q, m, j>> \in expected
  BY BegunDir
<1>2. /\ s \in Opened /\ Base(s, expected, U) /\ TreeOK(expected, Kind(s), U, LinkOf(s))
      /\ expected \in SUBSET Edge /\ Sound(s, expected, U) /\ s.inode = disk.inode
  BY OpenedTyped, SoundParts DEF Begun
<1>3. CASE T = {}
  <2>1. gone.node = Node(disk, q) /\ gone.s = s
    BY <1>3 DEF TargetRemoved
  <2>2. \A d \in Inodes, x \in Names, j \in Inodes :
           <<d, x, j>> \in expected <=> <<d, x, j>> \in expected /\ ~(d = q /\ x = m)
    BY <1>1, <1>3
  <2>3. DirSet(s) = DirSet(disk) \ T
    BY <1>3, SameDirs
  <2>4. TargetGone(s, U, expected, p, q, m, i, T, gone)
    BY <1>1, <1>2, <1>3, <2>1, <2>2, <2>3 DEF TargetGone
  <2>5. QED BY <2>4
<1>4. CASE T # {}
  <2>1. PICK t : t = CHOOSE x \in T : TRUE
    OBVIOUS
  <2>2. t \in T /\ t \in Inodes /\ t # i /\ t \in Lookup(disk, q, m)
    BY <1>1, <1>4, <2>1
  <2>3. PICK X : X = expected \ {<<q, m, t>>}
    OBVIOUS
  <2>4. PICK rem : rem = Remove(s, Node(disk, q), m)
    OBVIOUS
  <2>5. /\ Leaving(s, U, q, m, t, X)
        /\ \A j \in Inodes : <<q, m, j>> \in expected => j = t
    BY <2>2, <2>3, LeavingFacts
  <2>6. Dropped(s, U, X, q, t, gone.node, gone.s) /\ p # t
    <3>1. CASE IsDir(disk, t)
      <4>1. EmptyDir(disk, t, q)
        BY <2>2, <3>1 DEF Replaceable
      <4>2. gone = RemoveDir(rem.s, rem.node, Node(disk, t))
        BY <1>4, <2>1, <2>4, <3>1 DEF TargetRemoved
      <4>3. /\ Dropped(s, U, X, q, t, gone.node, gone.s)
            /\ \A x \in Names, j \in Inodes : <<t, x, j>> \notin expected
        BY <2>2, <2>3, <2>4, <3>1, <4>1, <4>2, RmdirSound
      <4>4. QED BY <1>1, <4>3
    <3>2. CASE ~IsDir(disk, t)
      <4>1. PICK y : y = RemoveLinked(rem.s, Node(disk, t))
        OBVIOUS
      <4>2. gone = [node |-> rem.node, s |-> y]
        BY <1>4, <2>1, <2>4, <3>2, <4>1 DEF TargetRemoved
      <4>3. Dropped(s, U, X, q, t, rem.node, y)
        BY <2>2, <2>3, <2>4, <3>2, <4>1, UnlinkedSound
      <4>4. p # t
        BY <1>1, <1>2, <3>2 DEF IsDir
      <4>5. QED BY <4>2, <4>3, <4>4
    <3>3. QED BY <3>1, <3>2
  <2>7. /\ X \in SUBSET Edge
        /\ \A d \in Inodes, x \in Names, j \in Inodes :
              <<d, x, j>> \in X <=> <<d, x, j>> \in expected /\ ~(d = q /\ x = m)
    BY <1>1, <1>2, <2>2, <2>3, <2>5, EntryRemoved
  <2>8. TargetGone(s, U, X, p, q, m, i, T, gone)
    <3>1. /\ gone.s.inode[i] = s.inode[i] /\ (i \in gone.s.iused <=> i \in s.iused)
          /\ p # q => gone.s.inode[p] = s.inode[p] /\ (p \in gone.s.iused <=> p \in s.iused)
      BY <1>1, <2>2, <2>6 DEF Dropped
    <3>2. DirSet(gone.s) = DirSet(disk) \ T
      <4>1. DirSet(gone.s) = DirSet(disk) \ {t}
        BY <1>1, <2>6, DroppedDirs
      <4>2. T = {t}
        BY <1>1, <2>2, <2>5
      <4>3. QED BY <4>1, <4>2
    <3>3. QED BY <1>4, <2>6, <2>7, <3>1, <3>2 DEF TargetGone, Dropped
  <2>9. QED BY <2>8
<1>5. QED BY <1>3, <1>4

\* '..', and the counts of both parents, after a directory moved from p to q.
ParentChanged(x, V, W, p, q, i, src, z) ==
    /\ z \in Opened /\ Base(z, V, W) /\ z.iused = x.iused /\ At(z, src, i)
    /\ Kind(z) = Kind(x)
    /\ \A j \in Inodes : LinkOf(z)[j] =
          LinkOf(x)[j] - (IF j = p THEN 1 ELSE 0) + (IF j = q THEN 1 ELSE 0)

LEMMA ReparentedBase ==
    ASSUME NEW x \in Opened, NEW V, NEW U, Base(x, V, U),
           NEW p \in x.iused, NEW q \in x.iused, NEW i \in x.iused, IsDir(x, i),
           p # q, i # p, i # q,
           NEW src, At(x, src, i), NEW old, At(x, old, p), NEW new, At(x, new, q),
           NEW W, W = [U EXCEPT ![i] = q]
    PROVE  ParentChanged(x, V, W, p, q, i, src, Reparented(x, src, old, new))
<1>1. p \in Inodes /\ q \in Inodes /\ i \in Inodes /\ new.no = q /\ U \in [Inodes -> Inodes]
  BY DEF Opened, At, Base
<1>2. W \in [Inodes -> Inodes] /\ W[i] = q /\ \A j \in Inodes : j # i => W[j] = U[j]
  BY <1>1
<1>3. PICK z : z = Reparented(x, src, old, new)
  OBVIOUS
<1>4. PICK x1 : x1 = SetDotDot(x, src, q)
  OBVIOUS
<1>5. x1 \in Opened /\ Base(x1, V, W) /\ x1.inode = x.inode /\ x1.iused = x.iused
  <2>1. x \in Opened /\ Base(x, V, U) /\ i \in Inodes /\ IsDir(x, i) /\ At(x, src, i)
        /\ q \in Inodes
    BY <1>1
  <2>2. SetDotDot(x, src, q) \in Opened /\ Base(SetDotDot(x, src, q), V, W)
    BY ONLY <2>1, <1>2, DotDotBase
  <2>3. SetDotDot(x, src, q).inode = x.inode /\ SetDotDot(x, src, q).iused = x.iused
    BY ONLY <2>1, <1>2, DotDotBase
  <2>4. QED BY <1>4, <2>2, <2>3
<1>6. /\ At(x1, src, i) /\ At(x1, old, p) /\ At(x1, new, q)
      /\ Kind(x1) = Kind(x) /\ LinkOf(x1) = LinkOf(x)
  BY <1>5 DEF At, Kind, LinkOf
<1>7. PICK x2 : x2 = WriteInode(x1, Linked(old, -1))
  OBVIOUS
<1>8. PICK h \in Int : h = -1
  OBVIOUS
<1>9. /\ x2 \in Opened /\ Base(x2, V, W) /\ x2.iused = x.iused /\ Kind(x2) = Kind(x)
      /\ \A j \in Inodes : j # p => x2.inode[j] = x1.inode[j]
      /\ \A j \in Inodes : LinkOf(x2)[j] = LinkOf(x)[j] + (IF j = p THEN h ELSE 0)
  <2>1. x2 = WriteInode(x1, Linked(old, h)) /\ p \in x1.iused
    BY <1>5, <1>7, <1>8
  <2>2. x2 \in Opened /\ Base(x2, V, W) /\ x2.iused = x1.iused /\ Kind(x2) = Kind(x1)
    BY <1>5, <1>6, <2>1, CountWritten
  <2>3. \A j \in Inodes : j # p => x2.inode[j] = x1.inode[j]
    BY <1>5, <1>6, <2>1, CountWritten
  <2>4. \A j \in Inodes : LinkOf(x2)[j] = LinkOf(x1)[j] + (IF j = p THEN h ELSE 0)
    BY <1>5, <1>6, <2>1, CountWritten
  <2>5. QED BY <1>5, <1>6, <2>2, <2>3, <2>4
<1>10. At(x2, src, i) /\ At(x2, new, q)
  BY <1>1, <1>6, <1>9 DEF At
<1>11. PICK k \in Int : k = 1
  OBVIOUS
<1>12. /\ z \in Opened /\ Base(z, V, W) /\ z.iused = x.iused /\ Kind(z) = Kind(x)
       /\ \A j \in Inodes : j # q => z.inode[j] = x2.inode[j]
       /\ \A j \in Inodes : LinkOf(z)[j] = LinkOf(x2)[j] + (IF j = q THEN k ELSE 0)
  <2>1. z = WriteInode(x2, Linked(new, k)) /\ q \in x2.iused
    BY <1>1, <1>3, <1>4, <1>7, <1>9, <1>11 DEF Reparented
  <2>2. z \in Opened /\ Base(z, V, W) /\ z.iused = x2.iused /\ Kind(z) = Kind(x2)
    BY <1>9, <1>10, <2>1, CountWritten
  <2>3. \A j \in Inodes : j # q => z.inode[j] = x2.inode[j]
    BY <1>9, <1>10, <2>1, CountWritten
  <2>4. \A j \in Inodes : LinkOf(z)[j] = LinkOf(x2)[j] + (IF j = q THEN k ELSE 0)
    BY <1>9, <1>10, <2>1, CountWritten
  <2>5. QED BY <1>9, <2>2, <2>3, <2>4
<1>13. At(z, src, i)
  BY <1>1, <1>10, <1>12 DEF At
<1>14. \A j \in Inodes : LinkOf(z)[j] =
          LinkOf(x)[j] - (IF j = p THEN 1 ELSE 0) + (IF j = q THEN 1 ELSE 0)
  <2>1. LinkOf(x) \in [Inodes -> Int]
    BY OpenedTyped, SoundParts
  <2>2. QED BY <1>8, <1>9, <1>11, <1>12, <2>1
<1>15. QED BY <1>3, <1>12, <1>13, <1>14 DEF ParentChanged

\* What a rename has read, and the image without its target.
RenameFrom(s, U, X, p, n, q, m, i, T, gone) ==
    /\ Begun(s, U) /\ TargetGone(s, U, X, p, q, m, i, T, gone)
    /\ p \in Inodes /\ q \in Inodes /\ i \in Inodes /\ n \in Names /\ m \in Names
    /\ IsDir(s, p) /\ IsDir(s, q) /\ p \in s.iused /\ q \in s.iused /\ i \in s.iused
    /\ i # p /\ i # q /\ <<p, n, i>> \in expected
    /\ p # q \/ n # m
    /\ IsDir(s, i) => ~HasAncestor(disk, q, i)

\* The moved tree, once the counts of the parents are right.
LEMMA MovedSound ==
    ASSUME NEW s, NEW U, NEW X, NEW p, NEW n, NEW q, NEW m, NEW i, NEW T, NEW gone,
           RenameFrom(s, U, X, p, n, q, m, i, T, gone),
           NEW V, V = (X \ {<<p, n, i>>}) \cup {<<q, m, i>>},
           NEW W \in [Inodes -> Inodes], IsDir(s, i) => W[i] = q,
           \A j \in Inodes : j # i => W[j] = U[j],
           NEW y, Typed(y), Base(y, V, W), Kind(y) = Kind(gone.s),
           \A j \in Inodes : LinkOf(y)[j] = LinkOf(gone.s)[j]
              - (IF j = p /\ IsDir(s, i) THEN 1 ELSE 0) + (IF j = q /\ IsDir(s, i) THEN 1 ELSE 0)
    PROVE  \E Z : Sound(y, V, Z)
<1>1. /\ p \in Inodes /\ q \in Inodes /\ i \in Inodes /\ n \in Names /\ m \in Names
      /\ i # p /\ i # q /\ <<p, n, i>> \in expected /\ (p # q \/ n # m)
      /\ gone.s \in Opened /\ Sound(gone.s, X, U) /\ IsDir(gone.s, q)
      /\ gone.s.inode[i] = s.inode[i]
      /\ \A d \in Inodes, x \in Names, j \in Inodes :
            <<d, x, j>> \in X <=> <<d, x, j>> \in expected /\ ~(d = q /\ x = m)
  BY DEF RenameFrom, TargetGone
<1>2. PICK K : K = Kind(gone.s)
  OBVIOUS
<1>3. PICK C : C = LinkOf(gone.s)
  OBVIOUS
<1>4. PICK D : D = LinkOf(y)
  OBVIOUS
<1>5. TreeOK(X, K, U, C) /\ D \in [Inodes -> Int]
  BY <1>1, <1>2, <1>3, <1>4, OpenedTyped, SoundParts
<1>6. K[q] = "dir" /\ (K[i] = "dir" <=> IsDir(s, i))
  BY <1>1, <1>2 DEF Kind, IsDir
<1>7. <<p, n, i>> \in X /\ \A j \in Inodes : <<q, m, j>> \notin X
  BY <1>1
<1>8. PICK A \in SUBSET Inodes :
         IsDir(s, i) => q \in A /\ i \notin A /\ \A d \in A : d = Root \/ U[d] \in A
  <2>1. CASE IsDir(s, i)
    <3>1. ~HasAncestor(disk, q, i) /\ Base(disk, expected, U)
          /\ TreeOK(expected, Kind(disk), U, LinkOf(disk)) /\ IsDir(disk, q)
      BY <2>1, SoundParts DEF RenameFrom, Begun, IsDir
    <3>2. QED BY <1>1, <3>1, AncestorFacts
  <2>2. CASE ~IsDir(s, i)
    BY <2>2
  <2>3. QED BY <2>1, <2>2
<1>9. \A j \in Inodes : D[j] = C[j] - (IF j = p /\ K[i] = "dir" THEN 1 ELSE 0)
                                    + (IF j = q /\ K[i] = "dir" THEN 1 ELSE 0)
  BY <1>3, <1>4, <1>6
<1>10. Moves(X, K, U, C, p, n, q, m, i, A, D, V)
  BY <1>1, <1>5, <1>6, <1>7, <1>8, <1>9 DEF Moves
<1>11. PICK Z \in [Inodes -> Inodes] :
          /\ TreeOK(V, K, Z, D)
          /\ K[i] = "dir" => Z[i] = q
          /\ \A j \in Inodes : j # i => Z[j] = U[j]
  BY <1>10, TreeMove
<1>12. Base(y, V, Z)
  <2>1. \A d \in Inodes : IsDir(y, d) => Z[d] = W[d]
    <3>1. IsDir(y, i) <=> K[i] = "dir"
      BY <1>1, <1>2 DEF Kind, IsDir
    <3>2. QED BY <1>6, <1>11, <3>1
  <2>2. QED BY <1>11, <2>1, OtherUps
<1>13. QED BY <1>2, <1>4, <1>11, <1>12, SoundParts

\* What it writes: the new name, the loss of the old one, and the inode.
RenameWrites(p, n, q, m, i, X, U, gone, V1, ins, old, src, rem, mov, end, V) ==
    /\ V1 = X \cup {<<q, m, i>>}
    /\ Inserted(gone.s, V1, U, q, gone.node, ins) /\ ins.ok
    /\ At(ins.s, old, p) /\ src = Node(disk, i)
    /\ rem = Remove(ins.s, old, n)
    /\ mov = IF IsDir(disk, i) /\ p # q
             THEN Reparented(rem.s, src, rem.node, ins.node) ELSE rem.s
    /\ end = WriteInode(mov, src)
    /\ V = (X \ {<<p, n, i>>}) \cup {<<q, m, i>>}

\* The image after a rename removed the old name, and what is still to be written.
RenameLeft(x, s, p, n, q, i, U, gone, V1, ins, old, src, rem, V) ==
    /\ x \in Opened /\ Base(x, V, U) /\ x.iused = ins.s.iused /\ rem.node = old
    /\ Kind(x) = Kind(gone.s) /\ LinkOf(x) = LinkOf(gone.s)
    /\ At(x, src, i) /\ At(x, old, p) /\ At(x, ins.node, q)
    /\ p \in x.iused /\ q \in x.iused /\ i \in x.iused
    /\ (IsDir(x, i) <=> IsDir(s, i)) /\ (IsDir(disk, i) <=> IsDir(s, i))
    /\ Base(ins.s, V1, U) /\ IsDir(ins.s, p) /\ IsDir(gone.s, p)
    /\ <<p, n, i>> \in V1 /\ V = V1 \ {<<p, n, i>>}
    /\ \A j \in Inodes : <<p, n, j>> \in V1 => j = i

LEMMA RenameRemoved ==
    ASSUME NEW s, NEW U, NEW X, NEW p, NEW n, NEW q, NEW m, NEW i, NEW T, NEW gone,
           RenameFrom(s, U, X, p, n, q, m, i, T, gone),
           NEW V1, NEW ins, NEW old, NEW src, NEW rem, NEW mov, NEW end, NEW V,
           RenameWrites(p, n, q, m, i, X, U, gone, V1, ins, old, src, rem, mov, end, V)
    PROVE  RenameLeft(rem.s, s, p, n, q, i, U, gone, V1, ins, old, src, rem, V)
<1> USE DEF RenameWrites
<1>1. /\ p \in Inodes /\ q \in Inodes /\ i \in Inodes /\ n \in Names /\ m \in Names
      /\ i # p /\ i # q /\ <<p, n, i>> \in expected /\ (p # q \/ n # m)
      /\ IsDir(s, p) /\ p \in s.iused /\ q \in s.iused /\ i \in s.iused /\ Begun(s, U)
      /\ gone.s \in Opened /\ Sound(gone.s, X, U) /\ Base(gone.s, X, U)
      /\ At(gone.s, gone.node, q) /\ IsDir(gone.s, q)
      /\ X \in SUBSET Edge
      /\ gone.s.inode[i] = s.inode[i] /\ i \in gone.s.iused
      /\ p # q => gone.s.inode[p] = s.inode[p] /\ p \in gone.s.iused
      /\ \A d \in Inodes, x \in Names, j \in Inodes :
            <<d, x, j>> \in X <=> <<d, x, j>> \in expected /\ ~(d = q /\ x = m)
  BY DEF RenameFrom, TargetGone
<1>2. PICK a : a = ins.s
  OBVIOUS
<1>3. /\ a \in Opened /\ Base(a, V1, U) /\ At(a, ins.node, q) /\ a.iused = gone.s.iused
      /\ \A j \in Inodes : j # q => a.inode[j] = gone.s.inode[j]
      /\ a.inode[q].kind = gone.s.inode[q].kind
      /\ Kind(a) = Kind(gone.s) /\ LinkOf(a) = LinkOf(gone.s)
  <2>1. Kind(a) = Kind(gone.s) /\ LinkOf(a) = LinkOf(gone.s)
    BY <1>1, <1>2, InsertedSame
  <2>2. QED BY <1>2, <2>1 DEF Inserted
<1>4. q \in gone.s.iused /\ p \in gone.s.iused /\ IsDir(a, p) /\ IsDir(gone.s, p)
  <2>1. q \in gone.s.iused
    BY <1>1, DirFacts
  <2>2. IsDir(a, q)
    BY <1>1, <1>3 DEF IsDir
  <2>3. CASE p = q
    BY <1>1, <2>1, <2>2, <2>3
  <2>4. CASE p # q
    BY <1>1, <1>3, <2>1, <2>4 DEF IsDir
  <2>5. QED BY <2>3, <2>4
<1>5. /\ <<p, n, i>> \in V1
      /\ \A j \in Inodes : <<p, n, j>> \in V1 => j = i
  <2>1. <<p, n, i>> \in X
    BY <1>1
  <2>2. \A j \in Inodes : <<p, n, j>> \in X => j = i
    BY <1>1, <2>1 DEF Sound, Shape
  <2>3. QED BY <1>1, <2>1, <2>2
<1>6. PICK V2 : V2 = V1 \ {<<p, n, i>>}
  OBVIOUS
<1>7. V2 = V
  BY <1>1, <1>6
<1>8. Removed(a, V, U, p, old, rem)
  BY <1>1, <1>2, <1>3, <1>4, <1>5, <1>6, <1>7, RemoveBase
<1>9. PICK x : x = rem.s
  OBVIOUS
<1>10. /\ x \in Opened /\ Base(x, V, U) /\ x.inode = a.inode /\ x.iused = a.iused
       /\ rem.node = old
       /\ Kind(x) = Kind(gone.s) /\ LinkOf(x) = LinkOf(gone.s)
  BY <1>3, <1>8, <1>9 DEF Removed, Kind, LinkOf
<1>11. /\ At(x, src, i) /\ At(x, old, p) /\ At(x, ins.node, q)
       /\ p \in x.iused /\ q \in x.iused /\ i \in x.iused
       /\ (IsDir(x, i) <=> IsDir(s, i)) /\ (IsDir(disk, i) <=> IsDir(s, i))
  <2>1. At(s, src, i)
    BY <1>1, BegunNode
  <2>2. x.inode[i] = s.inode[i]
    BY <1>1, <1>3, <1>10
  <2>3. At(x, src, i)
    BY <2>1, <2>2 DEF At
  <2>4. At(x, old, p) /\ At(x, ins.node, q)
    BY <1>2, <1>3, <1>10 DEF At
  <2>5. p \in x.iused /\ q \in x.iused /\ i \in x.iused
    BY <1>1, <1>3, <1>4, <1>10
  <2>6. (IsDir(x, i) <=> IsDir(s, i)) /\ (IsDir(disk, i) <=> IsDir(s, i))
    BY <1>1, <2>2 DEF IsDir, Begun
  <2>7. QED BY <2>3, <2>4, <2>5, <2>6
<1>12. QED BY <1>2, <1>3, <1>4, <1>5, <1>6, <1>7, <1>9, <1>10, <1>11 DEF RenameLeft

\* The end of a rename whose parents' nodes agree with the image.
LEMMA RenameMoved ==
    ASSUME NEW s, NEW U, NEW X, NEW p, NEW n, NEW q, NEW m, NEW i, NEW T, NEW gone,
           RenameFrom(s, U, X, p, n, q, m, i, T, gone),
           NEW V1, NEW ins, NEW old, NEW src, NEW rem, NEW mov, NEW end, NEW V,
           RenameWrites(p, n, q, m, i, X, U, gone, V1, ins, old, src, rem, mov, end, V)
    PROVE  end \in Opened /\ Kind(end) = Kind(gone.s) /\ \E Z : Sound(end, V, Z)
<1> USE DEF RenameWrites
<1>1. /\ p \in Inodes /\ q \in Inodes /\ i \in Inodes /\ n \in Names /\ m \in Names
      /\ i # p /\ i # q /\ <<p, n, i>> \in expected /\ (p # q \/ n # m)
      /\ IsDir(s, p) /\ p \in s.iused /\ q \in s.iused /\ i \in s.iused /\ Begun(s, U)
      /\ gone.s \in Opened /\ Sound(gone.s, X, U) /\ Base(gone.s, X, U)
      /\ At(gone.s, gone.node, q) /\ IsDir(gone.s, q)
      /\ X \in SUBSET Edge
      /\ gone.s.inode[i] = s.inode[i] /\ i \in gone.s.iused
      /\ p # q => gone.s.inode[p] = s.inode[p] /\ p \in gone.s.iused
      /\ \A d \in Inodes, x \in Names, j \in Inodes :
            <<d, x, j>> \in X <=> <<d, x, j>> \in expected /\ ~(d = q /\ x = m)
  BY DEF RenameFrom, TargetGone
<1>2. PICK x : x = rem.s
  OBVIOUS
<1>3. RenameLeft(x, s, p, n, q, i, U, gone, V1, ins, old, src, rem, V)
  BY <1>2, RenameRemoved
<1>4. /\ x \in Opened /\ Base(x, V, U) /\ rem.node = old
       /\ Kind(x) = Kind(gone.s) /\ LinkOf(x) = LinkOf(gone.s)
       /\ At(x, src, i) /\ At(x, old, p) /\ At(x, ins.node, q)
       /\ p \in x.iused /\ q \in x.iused /\ i \in x.iused
       /\ (IsDir(x, i) <=> IsDir(s, i)) /\ (IsDir(disk, i) <=> IsDir(s, i))
  BY <1>3 DEF RenameLeft
<1>5. U \in [Inodes -> Inodes] /\ LinkOf(gone.s) \in [Inodes -> Int]
  BY <1>1, OpenedTyped, SoundParts DEF Base
<1>6. CASE IsDir(s, i) /\ p # q
  <2>1. PICK W : W = [U EXCEPT ![i] = q]
    OBVIOUS
  <2>2. mov = Reparented(x, src, old, ins.node)
    BY <1>2, <1>4, <1>6
  <2>3. /\ x \in Opened /\ Base(x, V, U)
         /\ p \in x.iused /\ q \in x.iused /\ i \in x.iused /\ IsDir(x, i)
         /\ p # q /\ i # p /\ i # q
         /\ At(x, src, i) /\ At(x, old, p) /\ At(x, ins.node, q)
    BY <1>1, <1>4, <1>6
  <2>4. ParentChanged(x, V, W, p, q, i, src, Reparented(x, src, old, ins.node))
    BY ONLY <2>1, <2>3, ReparentedBase
  <2>5. /\ mov \in Opened /\ Base(mov, V, W) /\ mov.iused = x.iused /\ At(mov, src, i)
        /\ Kind(mov) = Kind(x)
    BY <2>2, <2>4 DEF ParentChanged
  <2>6. \A j \in Inodes : LinkOf(mov)[j] =
           LinkOf(x)[j] - (IF j = p THEN 1 ELSE 0) + (IF j = q THEN 1 ELSE 0)
    BY <2>2, <2>4 DEF ParentChanged
  <2>7. end \in Opened /\ Base(end, V, W) /\ end.inode = mov.inode
    BY <1>4, <2>5, WrittenBack
  <2>8. Kind(end) = Kind(gone.s) /\ LinkOf(end) = LinkOf(mov)
    <3>1. Kind(end) = Kind(mov) /\ LinkOf(end) = LinkOf(mov)
      BY ONLY <2>7 DEF Kind, LinkOf
    <3>2. QED BY <1>4, <2>5, <3>1
  <2>9. \A j \in Inodes : LinkOf(end)[j] = LinkOf(gone.s)[j]
           - (IF j = p /\ IsDir(s, i) THEN 1 ELSE 0) + (IF j = q /\ IsDir(s, i) THEN 1 ELSE 0)
    BY <1>4, <1>6, <2>6, <2>8
  <2>10. W \in [Inodes -> Inodes] /\ W[i] = q /\ \A j \in Inodes : j # i => W[j] = U[j]
    BY <1>1, <1>5, <2>1
  <2>11. \E Z : Sound(end, V, Z)
    BY <2>7, <2>8, <2>9, <2>10, OpenedTyped, MovedSound
  <2>12. QED BY <2>7, <2>8, <2>11
<1>7. CASE ~(IsDir(s, i) /\ p # q)
  <2>1. mov = x
    BY <1>2, <1>4, <1>7
  <2>2. end \in Opened /\ Base(end, V, U) /\ end.inode = x.inode
    BY <1>4, <2>1, WrittenBack
  <2>3. Kind(end) = Kind(gone.s) /\ LinkOf(end) = LinkOf(gone.s)
    BY <1>4, <2>2 DEF Kind, LinkOf
  <2>4. \A j \in Inodes : LinkOf(end)[j] = LinkOf(gone.s)[j]
           - (IF j = p /\ IsDir(s, i) THEN 1 ELSE 0) + (IF j = q /\ IsDir(s, i) THEN 1 ELSE 0)
    BY <1>5, <1>7, <2>3
  <2>5. IsDir(s, i) => U[i] = q
    <3>1. TreeOK(expected, Kind(s), U, LinkOf(s))
      BY <1>1 DEF Begun
    <3>2. IsDir(s, i) => U[i] = p
      BY <1>1, <3>1 DEF TreeOK, Shape, Kind, IsDir
    <3>3. QED BY <1>7, <3>2
  <2>6. \E Z : Sound(end, V, Z)
    BY <1>5, <2>2, <2>3, <2>4, <2>5, OpenedTyped, MovedSound
  <2>7. QED BY <2>2, <2>3, <2>6
<1>8. QED BY <1>6, <1>7

\* What the call reads and writes, each part by its name.
RenameParts(s, p, n, q, m, i, way, T, old, gone, ins, end, names, told, stale) ==
    /\ T = Lookup(disk, q, m) /\ i \notin T
    /\ \A t \in T : Replaceable(i, t, q)
    /\ IsDir(disk, i) => ~HasAncestor(disk, q, i)
    /\ old = Node(disk, p)
    /\ gone = TargetRemoved(s, Node(disk, q), m, T)
    /\ ins = Insert(gone.s, gone.node, m, i, way)
    /\ end = WriteInode(IF IsDir(disk, i) /\ p # q
                        THEN Reparented(Remove(ins.s, old, n).s, Node(disk, i),
                                        Remove(ins.s, old, n).node, ins.node)
                        ELSE Remove(ins.s, old, n).s, Node(disk, i))
    /\ names = {e \in expected : <<e[1], e[2]>> \in {<<p, n>>, <<q, m>>}}
    /\ told = (expected \ names) \cup {<<q, m, i>>}
    /\ stale = StaleParent(old, ins.node)
    /\ IF ~ins.ok THEN Ends(gone.s, expected, names, {<<p, n, i>>})
       ELSE IF stale = "none" THEN Ends(end, told, names, {<<p, n, i>>, <<q, m, i>>})
            ELSE Leaves(end, told, stale)

LEMMA RenameIs ==
    ASSUME NEW p, NEW n, NEW q, NEW m, NEW way, Rename(p, n, q, m, way),
           NEW s, s = Open(disk)
    PROVE  /\ Undamaged /\ (p # q \/ n # m)
           /\ \E i \in Lookup(disk, p, n) : \E T, old, gone, ins, end, names, told, stale :
                 RenameParts(s, p, n, q, m, i, way, T, old, gone, ins, end, names, told, stale)
<1>1. Undamaged /\ (p # q \/ n # m)
  BY DEF Rename
<1> DEFINE T == Lookup(disk, q, m)
           old == Node(disk, p)
           gone == TargetRemoved(s, Node(disk, q), m, T)
           ins(i) == Insert(gone.s, gone.node, m, i, way)
           rem(i) == Remove(ins(i).s, old, n)
           mov(i) == IF IsDir(disk, i) /\ p # q
                     THEN Reparented(rem(i).s, Node(disk, i), rem(i).node, ins(i).node)
                     ELSE rem(i).s
           end(i) == WriteInode(mov(i), Node(disk, i))
           names == {e \in expected : <<e[1], e[2]>> \in {<<p, n>>, <<q, m>>}}
           told(i) == (expected \ names) \cup {<<q, m, i>>}
           stale(i) == StaleParent(old, ins(i).node)
<1>2. PICK i \in Lookup(disk, p, n) :
         /\ IsDir(disk, i) => ~HasAncestor(disk, q, i)
         /\ i \notin T /\ \A t \in T : Replaceable(i, t, q)
         /\ IF ~ins(i).ok THEN Ends(gone.s, expected, names, {<<p, n, i>>})
            ELSE /\ rem(i).ok
                 /\ IF stale(i) = "none"
                    THEN Ends(end(i), told(i), names, {<<p, n, i>>, <<q, m, i>>})
                    ELSE Leaves(end(i), told(i), stale(i))
  BY DEF Rename
<1>3. RenameParts(s, p, n, q, m, i, way, T, old, gone, ins(i), end(i), names, told(i), stale(i))
  BY <1>2 DEF RenameParts
<1>4. QED BY <1>1, <1>2, <1>3

\* X is T without the name m of q, and told is T with the name n of p, which
\* alone names i there, moved to that place.
Moved(T, X, p, n, q, m, i, told) ==
    /\ T \subseteq Edge /\ X \subseteq Edge
    /\ p \in Inodes /\ n \in Names /\ q \in Inodes /\ m \in Names /\ i \in Inodes
    /\ \A j \in Inodes : <<p, n, j>> \in T => j = i
    /\ \A d \in Inodes, x \in Names, j \in Inodes :
          <<d, x, j>> \in X <=> <<d, x, j>> \in T /\ ~(d = q /\ x = m)
    /\ told = (T \ {e \in T : <<e[1], e[2]>> \in {<<p, n>>, <<q, m>>}}) \cup {<<q, m, i>>}

LEMMA ToldMoved ==
    ASSUME NEW T, NEW X, NEW p, NEW n, NEW q, NEW m, NEW i, NEW told,
           Moved(T, X, p, n, q, m, i, told)
    PROVE  told = (X \ {<<p, n, i>>}) \cup {<<q, m, i>>} /\ told \in SUBSET Edge
<1> USE DEF Moved
<1> DEFINE names == {e \in T : <<e[1], e[2]>> \in {<<p, n>>, <<q, m>>}}
<1>1. ASSUME NEW e \in Edge
      PROVE  e \in T \ names <=> e \in X \ {<<p, n, i>>}
  <2>1. PICK d \in Inodes, x \in Names, j \in Inodes : e = <<d, x, j>>
    BY DEF Edge
  <2>2. e \in names <=> e \in T /\ ((d = p /\ x = n) \/ (d = q /\ x = m))
    BY <2>1
  <2>3. e \in T /\ d = p /\ x = n => e = <<p, n, i>>
    BY <2>1
  <2>4. QED BY <2>1, <2>2, <2>3
<1>2. T \ names = X \ {<<p, n, i>>}
  BY <1>1
<1>3. <<q, m, i>> \in Edge
  BY DEF Edge
<1>4. QED BY <1>2, <1>3

\* What the rest of a rename starts from.
LEMMA RenameBegun ==
    ASSUME IInv, NEW p \in Dirs(disk), NEW n \in Names, NEW q \in Dirs(disk), NEW m \in Names,
           NEW s, NEW U, Begun(s, U), p # q \/ n # m,
           NEW i \in Lookup(disk, p, n), NEW T, T = Lookup(disk, q, m), i \notin T,
           \A t \in T : Replaceable(i, t, q),
           IsDir(disk, i) => ~HasAncestor(disk, q, i),
           NEW gone, gone = TargetRemoved(s, Node(disk, q), m, T)
    PROVE  /\ \E X : RenameFrom(s, U, X, p, n, q, m, i, T, gone)
           /\ At(s, Node(disk, p), p) /\ At(s, Node(disk, i), i)
           /\ \A j \in Inodes : <<p, n, j>> \in expected => j = i
<1>1. PICK V : V = expected \ {<<p, n, i>>}
  OBVIOUS
<1>2. /\ Leaving(s, U, p, n, i, V) /\ At(s, Node(disk, i), i) /\ At(s, Node(disk, p), p)
      /\ \A j \in Inodes : <<p, n, j>> \in expected => j = i
  BY <1>1, LeavingFacts
<1>3. p \in Inodes /\ IsDir(s, p) /\ p \in s.iused /\ i \in Inodes /\ i \in s.iused /\ i # p
      /\ <<p, n, i>> \in expected
  BY <1>2 DEF Leaving
<1>4. q \in Inodes /\ IsDir(s, q) /\ IsDir(disk, q) /\ q \in s.iused
  BY BegunDir
<1>5. Base(disk, expected, U) /\ TreeOK(expected, Kind(disk), U, LinkOf(disk))
  BY SoundParts DEF Begun
<1>6. i # q
  <2>1. CASE IsDir(disk, i)
    <3>1. PICK A \in SUBSET Inodes : q \in A /\ i \notin A
      BY <1>4, <1>5, <2>1, AncestorFacts
    <3>2. QED BY <3>1
  <2>2. CASE ~IsDir(disk, i)
    BY <1>4, <2>2
  <2>3. QED BY <2>1, <2>2
<1>7. PICK X : TargetGone(s, U, X, p, q, m, i, T, gone)
  BY <1>6, TargetRemovedSound
<1>8. IsDir(s, i) => ~HasAncestor(disk, q, i)
  BY DEF Begun, IsDir
<1>9. RenameFrom(s, U, X, p, n, q, m, i, T, gone)
  BY <1>3, <1>4, <1>6, <1>7, <1>8 DEF RenameFrom
<1>10. QED BY <1>2, <1>9

\* The parents' nodes agree with the image unless they are one directory that
\* was changed in between.
LEMMA NotStale ==
    ASSUME NEW s, NEW V, NEW U, NEW p \in Inodes, NEW q \in Inodes, NEW old, At(s, old, p),
           NEW y, NEW new, At(y, new, q), p # q => y.inode[p] = s.inode[p],
           StaleParent(old, new) = "none"
    PROVE  At(y, old, p)
<1>1. CASE p # q
  BY <1>1 DEF At
<1>2. CASE p = q
  <2>1. old.no = new.no
    BY <1>2 DEF At
  <2>2. old = new
    BY <2>1 DEF StaleParent
  <2>3. QED BY <1>2, <2>2
<1>3. QED BY <1>1, <1>2

\* A parent whose node was overtaken: the one directory of both names.
LEMMA Overtaken ==
    ASSUME NEW old, NEW new, StaleParent(old, new) # "none"
    PROVE  /\ StaleParent(old, new) \in {"stale storage", "stale count"}
           /\ old.no = new.no
  BY DEF StaleParent

\* What the callers see of a rename: no change, or i moved over T.
RenameTold(p, n, q, m, i, T) ==
    /\ i \in Lookup(disk, p, n) /\ T = Lookup(disk, q, m) /\ i \notin T
    /\ \A t \in T : Replaceable(i, t, q)
    /\ IsDir(disk, i) => ~HasAncestor(disk, q, i)
    /\ \/ Told(expected, DirSet(disk))
       \/ Told((expected \ {e \in expected : <<e[1], e[2]>> \in {<<p, n>>, <<q, m>>}})
                  \cup {<<q, m, i>>},
               DirSet(disk) \ T)

LEMMA RenameIn ==
    ASSUME IInv, NEW p \in Dirs(disk), NEW n \in Names, NEW q \in Dirs(disk), NEW m \in Names,
           NEW way \in Ways, Rename(p, n, q, m, way)
    PROVE  IInv' /\ \E i, T : RenameTold(p, n, q, m, i, T)
<1>1. Undamaged /\ (p # q \/ n # m)
  BY RenameIs
<1>2. PICK s, U : Begun(s, U)
  BY <1>1, Begin
<1>3. s = Open(disk)
  BY <1>2 DEF Begun
<1>4. PICK i : /\ i \in Lookup(disk, p, n)
               /\ \E T, old, gone, ins, end, names, told, stale :
                     RenameParts(s, p, n, q, m, i, way, T, old, gone, ins, end, names, told, stale)
  BY <1>3, RenameIs
<1>5. PICK T, old, gone, ins, end, names, told, stale :
         RenameParts(s, p, n, q, m, i, way, T, old, gone, ins, end, names, told, stale)
  BY <1>4
<1>6. /\ T = Lookup(disk, q, m) /\ i \notin T /\ \A t \in T : Replaceable(i, t, q)
      /\ IsDir(disk, i) => ~HasAncestor(disk, q, i)
      /\ old = Node(disk, p) /\ gone = TargetRemoved(s, Node(disk, q), m, T)
  BY <1>5 DEF RenameParts
<1>7. /\ \E X : RenameFrom(s, U, X, p, n, q, m, i, T, gone)
      /\ At(s, old, p) /\ At(s, Node(disk, i), i)
      /\ \A j \in Inodes : <<p, n, j>> \in expected => j = i
  BY <1>1, <1>2, <1>4, <1>6, RenameBegun
<1>8. PICK X : RenameFrom(s, U, X, p, n, q, m, i, T, gone)
  BY <1>7
<1>9. /\ p \in Inodes /\ q \in Inodes /\ i \in Inodes /\ IsDir(s, p)
      /\ gone.s \in Opened /\ Sound(gone.s, X, U) /\ Base(gone.s, X, U)
      /\ At(gone.s, gone.node, q) /\ IsDir(gone.s, q) /\ X \in SUBSET Edge
      /\ \A d \in Inodes, x \in Names, j \in Inodes :
            <<d, x, j>> \in X <=> <<d, x, j>> \in expected /\ ~(d = q /\ x = m)
      /\ T # {} => Room(InDir(gone.s, q), gone.s.inode[q].size) # {}
      /\ T = {} => X = expected
      /\ p # q => gone.s.inode[p] = s.inode[p]
      /\ gone.s.inode[i] = s.inode[i]
      /\ DirSet(gone.s) = DirSet(disk) \ T
  BY <1>8 DEF RenameFrom, TargetGone
<1>10. PICK V1 : V1 = X \cup {<<q, m, i>>}
  OBVIOUS
<1>11. Inserted(gone.s, V1, U, q, gone.node, ins)
  <2>1. ins = Insert(gone.s, gone.node, m, i, way)
    BY <1>5 DEF RenameParts
  <2>2. \A j \in Inodes : <<q, m, j>> \notin X
    BY <1>9
  <2>3. QED BY <1>9, <1>10, <2>1, <2>2, InsertBase
<1>12. PICK V : V = (X \ {<<p, n, i>>}) \cup {<<q, m, i>>}
  OBVIOUS
<1>13. told = V /\ told \in SUBSET Edge
  <2>1. told = (expected \ {e \in expected : <<e[1], e[2]>> \in {<<p, n>>, <<q, m>>}})
                  \cup {<<q, m, i>>}
    BY <1>5 DEF RenameParts
  <2>2. Moved(expected, X, p, n, q, m, i, told)
    BY <1>2, <1>7, <1>9, <2>1 DEF Begun, Moved
  <2>3. QED BY <1>12, <2>2, ToldMoved
<1>14. PICK rem : rem = Remove(ins.s, old, n)
  OBVIOUS
<1>15. PICK src : src = Node(disk, i)
  OBVIOUS
<1>16. PICK mov : mov = IF IsDir(disk, i) /\ p # q
                        THEN Reparented(rem.s, src, rem.node, ins.node) ELSE rem.s
  OBVIOUS
<1>17. /\ stale = StaleParent(old, ins.node) /\ end = WriteInode(mov, src)
       /\ IF ~ins.ok THEN Ends(gone.s, expected, names, {<<p, n, i>>})
          ELSE IF stale = "none" THEN Ends(end, told, names, {<<p, n, i>>, <<q, m, i>>})
               ELSE Leaves(end, told, stale)
  BY <1>5, <1>14, <1>15, <1>16 DEF RenameParts
<1>18. {<<p, n, i>>} \in SUBSET Edge /\ {<<p, n, i>>, <<q, m, i>>} \in SUBSET Edge
  BY <1>9 DEF Edge
<1>19. SUFFICES /\ IInv'
                /\ Told(expected, DirSet(disk)) \/ Told(told, DirSet(disk) \ T)
  <2>1. told = (expected \ {e \in expected : <<e[1], e[2]>> \in {<<p, n>>, <<q, m>>}})
                  \cup {<<q, m, i>>}
    BY <1>5 DEF RenameParts
  <2>2. ASSUME Told(expected, DirSet(disk)) \/ Told(told, DirSet(disk) \ T)
        PROVE  RenameTold(p, n, q, m, i, T)
    BY <1>4, <1>6, <2>1, <2>2 DEF RenameTold
  <2>3. QED BY <2>2
<1>20. CASE ~ins.ok
  <2>1. X = expected /\ T = {}
    BY <1>9, <1>11, <1>20 DEF Inserted
  <2>2. Ends(gone.s, X, names, {<<p, n, i>>})
    BY <1>17, <1>20, <2>1
  <2>3. IInv' /\ Told(X, DirSet(gone.s))
    BY <1>1, <1>9, <1>18, <2>2, EndsIn
  <2>4. DirSet(gone.s) = DirSet(disk)
    BY <1>9, <2>1
  <2>5. QED BY <2>1, <2>3, <2>4
<1>21. ASSUME ins.ok PROVE At(ins.s, ins.node, q) /\ (p # q => ins.s.inode[p] = s.inode[p])
  BY <1>9, <1>11, <1>21 DEF Inserted
<1>22. CASE ins.ok /\ stale = "none"
  <2>1. At(ins.s, old, p)
    BY <1>7, <1>9, <1>17, <1>21, <1>22, NotStale
  <2>2. end \in Opened /\ Kind(end) = Kind(gone.s) /\ \E Z : Sound(end, V, Z)
    <3>1. ins.ok /\ end = WriteInode(mov, src)
      BY <1>17, <1>22
    <3>2. RenameWrites(p, n, q, m, i, X, U, gone, V1, ins, old, src, rem, mov, end, V)
      BY <1>10, <1>11, <1>12, <1>14, <1>15, <1>16, <2>1, <3>1 DEF RenameWrites
    <3>3. QED BY <1>8, <3>2, RenameMoved
  <2>3. PICK Z : Sound(end, V, Z)
    BY <2>2
  <2>4. Ends(end, V, names, {<<p, n, i>>, <<q, m, i>>})
    BY <1>13, <1>17, <1>22
  <2>5. IInv' /\ Told(V, DirSet(end))
    BY <1>1, <1>13, <1>18, <2>2, <2>3, <2>4, EndsIn
  <2>6. DirSet(end) = DirSet(gone.s)
    BY <2>2, KindDirs
  <2>7. QED BY <1>9, <1>13, <2>5, <2>6
<1>23. CASE ins.ok /\ stale # "none"
  <2>1. /\ stale \in Damages /\ stale \notin {"none", "cut", "undone"}
        /\ old.no = ins.node.no
    BY <1>17, <1>23, Overtaken DEF Damages
  <2>2. p = q
    BY <1>7, <1>21, <1>23, <2>1 DEF At
  <2>3. ins.s \in Opened
    BY <1>11 DEF Inserted
  <2>4. old \in NodeSet /\ old.ino.run \in Runs
    <3>1. Base(s, expected, U)
      BY <1>2 DEF Begun
    <3>2. s.inode[p].run \in Runs
      BY <1>9, <3>1, DirFacts
    <3>3. QED BY <1>7, <3>2 DEF At
  <2>5. /\ rem.s \in Opened
        /\ rem.s.inode = ins.s.inode \/ rem.s.inode = [ins.s.inode EXCEPT ![old.no] = old.ino]
    BY <1>14, <2>3, <2>4, RemoveTyped
  <2>6. end \in Opened /\ end.inode = [rem.s.inode EXCEPT ![src.no] = src.ino]
    <3>1. src \in NodeSet /\ mov = rem.s
      BY <1>7, <1>15, <1>16, <2>2 DEF At
    <3>2. QED BY <1>17, <2>5, <3>1, WriteInodeEffect
  <2>7. Leaves(end, told, stale)
    BY <1>17, <1>23
  <2>8. IInv' /\ Told(told, DirSet(end))
    BY <1>13, <1>23, <2>1, <2>6, <2>7, LeavesIn
  <2>9. Kind(end) = Kind(gone.s)
    <3>1. /\ old.no = p /\ old.ino = s.inode[p] /\ src.no = i /\ src.ino = s.inode[i]
      BY <1>7, <1>15 DEF At
    <3>2. /\ s.inode[p].kind = "dir" /\ gone.s.inode[p].kind = "dir"
          /\ gone.s.inode[i] = s.inode[i]
      BY <1>9, <2>2 DEF IsDir
    <3>3. Kind(ins.s) = Kind(gone.s)
      BY <1>9, <1>11, <1>23, InsertedSame
    <3>4. \A j \in Inodes : ins.s.inode[j].kind = gone.s.inode[j].kind
      BY <3>3, KindFacts
    <3>5. \A j \in Inodes : rem.s.inode[j].kind = gone.s.inode[j].kind
      <4>1. ins.s.inode \in [Inodes -> Inode]
        BY <2>3 DEF Opened
      <4>2. QED BY <1>9, <2>5, <3>1, <3>2, <3>4, <4>1
    <3>6. \A j \in Inodes : end.inode[j].kind = gone.s.inode[j].kind
      <4>1. rem.s.inode \in [Inodes -> Inode]
        BY <2>5 DEF Opened
      <4>2. QED BY <1>9, <2>6, <3>1, <3>2, <3>5, <4>1
    <3>7. QED BY <3>6 DEF Kind
  <2>10. DirSet(end) = DirSet(gone.s)
    BY <2>9, KindDirs
  <2>11. QED BY <1>9, <2>8, <2>10
<1>24. QED BY <1>20, <1>22, <1>23

-----------------------------------------------------------------------------
(* The invariant and the theorems.                                         *)

LEMMA RootTree ==
    ASSUME NEW K, K = [i \in Inodes |-> IF i = Root THEN "dir" ELSE "free"],
           NEW U, U = [i \in Inodes |-> Root],
           NEW C, C[Root] = 2
    PROVE  Shape({}, K, U) /\ Counts({}, K, C)
<1>1. Root \in Inodes
  BY RootInode
<1>2. \A i \in Inodes : K[i] # "free" => i = Root
  OBVIOUS
<1>3. Rooted(K, U)
  BY <1>2 DEF Rooted
<1>4. K[Root] = "dir" /\ U[Root] = Root
  BY <1>1
<1>5. Shape({}, K, U)
  BY <1>2, <1>3, <1>4 DEF Shape
<1>6. Cardinality(Subdirs({}, K, Root)) = 0
  <2>1. Subdirs({}, K, Root) = {}
    BY DEF Subdirs
  <2>2. QED BY <2>1, FS_EmptySet
<1>7. Counts({}, K, C)
  BY <1>2, <1>4, <1>6 DEF Counts
<1>8. QED BY <1>5, <1>7

LEMMA InitInvariant == Init => IInv
<1>1. SUFFICES ASSUME Init PROVE IInv
  OBVIOUS
<1>2. PICK image \in Images : disk = RootOnly(image, Lowest(image))
  BY <1>1 DEF Init
<1>3. PICK r : r = Lowest(image)
  OBVIOUS
<1>4. r \in Runs /\ r # 0 /\ Root \in Inodes
  <2>1. image \in SUBSET Nat /\ image # {} /\ image \subseteq Runs
    BY NamespaceAssumption
  <2>2. r \in image
    BY <1>3, <2>1, LowestFacts
  <2>3. QED BY <2>1, <2>2, RootInode
<1>5. PICK c : c = NewDir(Root)
  OBVIOUS
<1>6. /\ c \in Content /\ Neat(c, 1) /\ c.dotdot = Root
      /\ \A n \in Names, j \in Inodes : ~Has(c, 1, n, j)
  BY <1>4, <1>5, NewDirFacts
<1>7. PICK o : o = Fresh("dir", 2, 1, r)
  OBVIOUS
<1>8. o \in Inode /\ o.kind = "dir" /\ o.nlink = 2 /\ o.size = 1 /\ o.run = r
  <2>1. 1 \in 0..MaxBlks
    BY NamespaceAssumption
  <2>2. QED BY <1>4, <1>7, <2>1 DEF Fresh, Inode, Kinds
<1>9. Cleared \in Inode /\ Cleared.kind = "free" /\ Cleared.run = 0
  <2>1. 0 \in 0..MaxBlks
    BY NamespaceAssumption
  <2>2. QED BY <2>1 DEF Cleared, Inode, Kinds
<1>10. NoContent \in Content
  <2>1. <<>> \in Seq(Blocks)
    OBVIOUS
  <2>2. QED BY <2>1 DEF NoContent, Content
<1>11. /\ disk.runs = image /\ disk.iused = {Root} /\ disk.rused = {r}
       /\ disk.inode = [i \in Inodes |-> IF i = Root THEN o ELSE Cleared]
       /\ disk.content = [x \in Runs |-> IF x = r THEN c ELSE NoContent]
       /\ disk = [runs |-> image,
                  inode |-> [i \in Inodes |-> IF i = Root THEN o ELSE Cleared],
                  iused |-> {Root},
                  content |-> [x \in Runs |-> IF x = r THEN c ELSE NoContent],
                  rused |-> {r}]
  BY <1>2, <1>3, <1>5, <1>7 DEF RootOnly
<1>12. disk \in Disk /\ Typed(disk)
  <2>1. [i \in Inodes |-> IF i = Root THEN o ELSE Cleared] \in [Inodes -> Inode]
    BY <1>8, <1>9
  <2>2. [x \in Runs |-> IF x = r THEN c ELSE NoContent] \in [Runs -> Content]
    BY <1>6, <1>10
  <2>3. disk \in Disk
    BY <1>4, <1>11, <2>1, <2>2 DEF Disk
  <2>4. QED BY <2>3, DiskTyped
<1>13. /\ disk.inode[Root] = o /\ \A i \in Inodes : i # Root => disk.inode[i] = Cleared
       /\ InDir(disk, Root) = c
  BY <1>4, <1>8, <1>11 DEF InDir
<1>14. \A d \in Inodes : IsDir(disk, d) <=> d = Root
  BY <1>8, <1>9, <1>13 DEF IsDir
<1>15. PICK U : U = [i \in Inodes |-> Root]
  OBVIOUS
<1>16. U \in [Inodes -> Inodes]
  BY <1>4, <1>15
<1>17. Lists(disk, {})
  BY <1>6, <1>8, <1>13, <1>14 DEF Lists
<1>18. Owned(disk)
  <2>1. \A d \in Inodes : IsDir(disk, d) =>
           disk.inode[d].run \in Runs /\ Neat(InDir(disk, d), disk.inode[d].size)
    BY <1>4, <1>6, <1>8, <1>13, <1>14
  <2>2. \A x \in Runs : x \in disk.rused <=> \E i \in Inodes : disk.inode[i].run = x
    BY <1>4, <1>8, <1>9, <1>11, <1>13, RootInode
  <2>3. \A i, j \in Inodes :
           disk.inode[i].run = disk.inode[j].run /\ disk.inode[i].run # 0 => i = j
    BY <1>9, <1>13
  <2>4. /\ \A i \in Inodes : i \notin disk.iused => disk.inode[i] = Cleared
        /\ \A i \in disk.iused : disk.inode[i].kind # "free"
    BY <1>8, <1>11, <1>13
  <2>5. QED BY <2>1, <2>2, <2>3, <2>4 DEF Owned
<1>19. Ups(disk, U)
  BY <1>4, <1>6, <1>13, <1>14, <1>15 DEF Ups
<1>20. Shape({}, Kind(disk), U) /\ Counts({}, Kind(disk), LinkOf(disk))
  <2>1. Kind(disk) = [i \in Inodes |-> IF i = Root THEN "dir" ELSE "free"]
    BY <1>8, <1>9, <1>13 DEF Kind
  <2>2. LinkOf(disk)[Root] = 2
    BY <1>4, <1>8, <1>13 DEF LinkOf
  <2>3. QED BY <1>15, <2>1, <2>2, RootTree
<1>21. Sound(disk, expected, U)
  BY <1>1, <1>16, <1>17, <1>18, <1>19, <1>20 DEF Sound, Init
<1>22. TypeOK
  <2>1. cut \in Cut /\ damage \in Damages /\ expected \in SUBSET Edge
    BY <1>1 DEF Init, NoCut, Cut, Damages
  <2>2. QED BY <1>12, <2>1 DEF TypeOK
<1>23. QED BY <1>16, <1>21, <1>22 DEF IInv

LEMMA NextInvariant == IInv /\ [Next]_vars => IInv'
<1>1. SUFFICES ASSUME IInv, [Next]_vars PROVE IInv'
  OBVIOUS
<1>2. ASSUME NEW p \in Dirs(disk), NEW n \in Names,
             NEW kind \in {"file", "special"}, NEW data \in BOOLEAN, NEW way \in Ways,
             Create(p, n, kind, data, way)
      PROVE  IInv'
  BY <1>1, <1>2, CreateIn
<1>3. ASSUME NEW p \in Dirs(disk), NEW n \in Names, MkdirNoFragment(p, n)
      PROVE  IInv'
  BY <1>1, <1>3, MkdirNoFragmentIn
<1>4. ASSUME NEW p \in Dirs(disk), NEW n \in Names, NEW way \in Ways, Mkdir(p, n, way)
      PROVE  IInv'
  BY <1>1, <1>4, MkdirIn
<1>5. ASSUME NEW p \in Dirs(disk), NEW n \in Names, NEW i \in Lookup(disk, p, n),
             Unlink(p, n, i)
      PROVE  IInv'
  BY <1>1, <1>5, UnlinkIn
<1>6. ASSUME NEW p \in Dirs(disk), NEW n \in Names, NEW i \in Lookup(disk, p, n),
             Rmdir(p, n, i)
      PROVE  IInv'
  BY <1>1, <1>6, RmdirIn
<1>7. ASSUME NEW p \in Dirs(disk), NEW n \in Names, NEW i \in Reachable(disk),
             NEW way \in Ways, Link(p, n, i, way)
      PROVE  IInv'
  BY <1>1, <1>7, LinkIn
<1>8. ASSUME NEW p \in Dirs(disk), NEW n \in Names, NEW q \in Dirs(disk), NEW m \in Names,
             NEW way \in Ways, Rename(p, n, q, m, way)
      PROVE  IInv'
  BY <1>1, <1>8, RenameIn
<1>9. ASSUME NEW i \in Reachable(disk), NEW data \in BOOLEAN, Rewrite(i, data)
      PROVE  IInv'
  BY <1>1, <1>9, RewriteIn
<1>10. CASE UNCHANGED vars
  <2>1. disk' = disk /\ expected' = expected /\ damage' = damage /\ cut' = cut
    BY <1>10 DEF vars
  <2>2. TypeOK'
    BY <1>1, <2>1 DEF IInv, TypeOK
  <2>3. QED BY <1>1, <2>1, <2>2 DEF IInv
<1>11. QED
  BY <1>1, <1>2, <1>3, <1>4, <1>5, <1>6, <1>7, <1>8, <1>9, <1>10 DEF Next

\* Whatever calls of mutate.c are made, and wherever one is cut short or fails
\* in a write, the image has its types; and until a call leaves the image
\* damaged, its directories list just the tree the callers were told of, in
\* blocks that are not overfull, each run has one owner, the '..' entries lead
\* to the root, and the link counts are those of the tree.
THEOREM NamespaceInvariant == Spec => []IInv
<1>1. QED BY InitInvariant, NextInvariant, PTL DEF Spec

\* After every call on an undamaged image, of nextufs_path_mkdir, _create_file,
\* _mknod, _symlink, _link, _unlink, _rmdir, _rename and the rewrites of
\* contents, a walk from the root lists what the callers were told, the names a
\* call was not about included, and every directory but the root has one name,
\* which is where its '..' leads.
THEOREM NamespaceKeepsTree == Spec => []KeepsTree
<1>1. QED BY NamespaceInvariant, InvariantImplies, PTL

\* After every such call, each link count that mutate.c raises and lowers is the
\* number of the inode's names, with '.' and the '..' of its subdirectories for
\* a directory.
THEOREM NamespaceKeepsCounts == Spec => []KeepsCounts
<1>1. QED BY NamespaceInvariant, InvariantImplies, PTL

\* After every such call, no inode is marked used that no path leads to, no
\* fragment is marked used that no inode points at, and none is shared: what
\* nextufs__remove_linked_inode, nextufs__discard_new_inode and a growing
\* directory free is just what is no longer named.
THEOREM NamespaceKeepsStorage == Spec => []KeepsStorage
<1>1. QED BY NamespaceInvariant, InvariantImplies, PTL
=============================================================================
