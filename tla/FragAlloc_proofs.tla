-------------------------- MODULE FragAlloc_proofs --------------------------
(***************************************************************************)
(* The fragment allocator keeps its counters, its map and its holders      *)
(* consistent for every number of groups, every geometry, every metadata   *)
(* layout and any number of failing writes.                                *)
(*                                                                         *)
(* The inductive invariant is Good(cg, held): every group block agrees     *)
(* with its own map, and the free map, the metadata and the held runs      *)
(* partition each block.  It is stated of values rather than of the        *)
(* variables because reallocate_fragment_run makes two updates in a step:  *)
(* it takes and then gives back, and each half preserves Good.             *)
(***************************************************************************)
EXTENDS FragAlloc, FiniteSetTheorems, TLAPS

-----------------------------------------------------------------------------
(* The group updates of CylGroup keep a consistent group block consistent, *)
(* for every geometry.  All counters are cardinalities of sets of pairs    *)
(* (block, offset), and an update touches one block, so everything rests   *)
(* on one counting lemma: two sets of pairs that agree outside column i    *)
(* differ in size by the sizes of that column.                             *)

\* The number of pairs whose first component is i is the size of column i.
LEMMA ColumnSize ==
    ASSUME NEW i, NEW C, IsFiniteSet(C)
    PROVE  IsFiniteSet({i} \X C) /\ Cardinality({i} \X C) = Cardinality(C)
<1>1. IsFiniteSet({i}) /\ Cardinality({i}) = 1
  BY FS_Singleton
<1>2. Cardinality(C) \in Nat
  BY FS_CardinalityType
<1>3. IsFiniteSet({i} \X C) /\ Cardinality({i} \X C) = Cardinality({i}) * Cardinality(C)
  BY <1>1, FS_Product
<1>4. QED BY <1>1, <1>2, <1>3

\* Disjoint sets add up.
LEMMA DisjointSum ==
    ASSUME NEW A, NEW B, IsFiniteSet(A), IsFiniteSet(B), A \cap B = {}
    PROVE  /\ IsFiniteSet(A \cup B)
           /\ Cardinality(A) \in Nat /\ Cardinality(B) \in Nat
           /\ Cardinality(A \cup B) = Cardinality(A) + Cardinality(B)
<1>1. Cardinality(A \cap B) = 0
  BY FS_EmptySet
<1>2. Cardinality(A) \in Nat /\ Cardinality(B) \in Nat
  BY FS_CardinalityType
<1>3. /\ IsFiniteSet(A \cup B)
      /\ Cardinality(A \cup B) = Cardinality(A) + Cardinality(B) - Cardinality(A \cap B)
  BY FS_Union
<1>4. QED BY <1>1, <1>2, <1>3

\* Column i of a set of pairs, and the pairs outside it.
Column(A, T, i) == {t \in T : <<i, t>> \in A}
OffColumn(A, i) == {p \in A : p[1] # i}

\* A set of pairs is its column i and the rest.
LEMMA SplitColumn ==
    ASSUME NEW I, NEW T, IsFiniteSet(I), IsFiniteSet(T), NEW i \in I,
           NEW A \in SUBSET (I \X T)
    PROVE  /\ Cardinality(A) \in Nat
           /\ Cardinality(Column(A, T, i)) \in Nat
           /\ Cardinality(OffColumn(A, i)) \in Nat
           /\ Cardinality(A) = Cardinality(Column(A, T, i)) + Cardinality(OffColumn(A, i))
<1> DEFINE col == Column(A, T, i)
           rest == OffColumn(A, i)
<1>1. IsFiniteSet(I \X T)
  BY FS_Product
<1>2. IsFiniteSet(A)
  BY <1>1, FS_Subset
<1>3. IsFiniteSet(rest)
  BY <1>2, FS_Subset DEF OffColumn
<1>4. IsFiniteSet(col)
  BY FS_Subset DEF Column
<1>5. A = ({i} \X col) \cup rest
  BY DEF Column, OffColumn
<1>6. ({i} \X col) \cap rest = {}
  BY DEF Column, OffColumn
<1> HIDE DEF col, rest
<1>7. /\ IsFiniteSet({i} \X col) /\ Cardinality({i} \X col) = Cardinality(col)
      /\ Cardinality(col) \in Nat
  BY <1>4, ColumnSize, FS_CardinalityType
<1>8. /\ Cardinality(A) = Cardinality({i} \X col) + Cardinality(rest)
      /\ Cardinality(rest) \in Nat
  BY <1>3, <1>5, <1>6, <1>7, DisjointSum
<1>9. QED BY <1>7, <1>8 DEF col, rest

\* Two sets of pairs that agree outside column i differ by their columns i.
LEMMA ColumnChange ==
    ASSUME NEW I, NEW T, IsFiniteSet(I), IsFiniteSet(T), NEW i \in I,
           NEW A \in SUBSET (I \X T), NEW B \in SUBSET (I \X T),
           \A p \in I \X T : p[1] # i => (p \in A <=> p \in B)
    PROVE  /\ Cardinality(A) \in Nat /\ Cardinality(B) \in Nat
           /\ Cardinality(Column(A, T, i)) \in Nat
           /\ Cardinality(Column(B, T, i)) \in Nat
           /\ Cardinality(B) = Cardinality(A) + Cardinality(Column(B, T, i))
                                              - Cardinality(Column(A, T, i))
<1>1. OffColumn(A, i) = OffColumn(B, i)
  BY DEF OffColumn
<1>2. /\ Cardinality(A) \in Nat /\ Cardinality(Column(A, T, i)) \in Nat
      /\ Cardinality(OffColumn(A, i)) \in Nat
      /\ Cardinality(A) = Cardinality(Column(A, T, i)) + Cardinality(OffColumn(A, i))
  BY SplitColumn
<1>3. /\ Cardinality(B) \in Nat /\ Cardinality(Column(B, T, i)) \in Nat
      /\ Cardinality(OffColumn(B, i)) \in Nat
      /\ Cardinality(B) = Cardinality(Column(B, T, i)) + Cardinality(OffColumn(B, i))
  BY SplitColumn
<1>4. QED BY <1>1, <1>2, <1>3

-----------------------------------------------------------------------------
(***************************************************************************)
(* One block of the free map changes.                                      *)
(***************************************************************************)

FreeMaps == [Blocks -> SUBSET Offsets]

\* The free fragments of a block that count as fragments, not as a block.
Loose(map) == IF map = Offsets THEN {} ELSE map

LEMMA GeometryFinite ==
    /\ IsFiniteSet(Offsets) /\ Cardinality(Offsets) = FragsPerBlock
    /\ IsFiniteSet(Blocks)
    /\ FragsPerBlock \in Nat \ {0} /\ BlocksPerGroup \in Nat \ {0}
<1>1. FragsPerBlock \in Nat \ {0} /\ BlocksPerGroup \in Nat \ {0}
  BY GeometryAssumption
<1>2. /\ IsFiniteSet(0..(FragsPerBlock - 1))
      /\ Cardinality(0..(FragsPerBlock - 1)) =
           IF 0 > FragsPerBlock - 1 THEN 0 ELSE FragsPerBlock - 1 - 0 + 1
  BY <1>1, FS_Interval
<1>3. IsFiniteSet(0..(BlocksPerGroup - 1))
  BY <1>1, FS_Interval
<1>4. QED BY <1>1, <1>2, <1>3 DEF Offsets, Blocks

\* A run of n fragments has n fragments.
LEMMA RunSize ==
    ASSUME NEW o \in Nat, NEW n \in Nat \ {0}
    PROVE  IsFiniteSet(Run(o, n)) /\ Cardinality(Run(o, n)) = n
<1>1. /\ IsFiniteSet(o..(o + n - 1))
      /\ Cardinality(o..(o + n - 1)) =
           IF o > o + n - 1 THEN 0 ELSE o + n - 1 - o + 1
  BY FS_Interval
<1>2. QED BY <1>1 DEF Run

\* The loose fragments change by those of the changed block.
LEMMA PartialChange ==
    ASSUME NEW f \in FreeMaps, NEW g \in FreeMaps, NEW b \in Blocks,
           \A x \in Blocks : x # b => g[x] = f[x]
    PROVE  /\ Cardinality(PartialFrags(f)) \in Nat
           /\ Cardinality(PartialFrags(g)) \in Nat
           /\ Cardinality(Loose(f[b])) \in Nat
           /\ Cardinality(Loose(g[b])) \in Nat
           /\ Cardinality(PartialFrags(g)) = Cardinality(PartialFrags(f))
                + Cardinality(Loose(g[b])) - Cardinality(Loose(f[b]))
<1>1. /\ PartialFrags(f) \in SUBSET (Blocks \X Offsets)
      /\ PartialFrags(g) \in SUBSET (Blocks \X Offsets)
  BY DEF PartialFrags
<1>2. \A p \in Blocks \X Offsets :
        p[1] # b => (p \in PartialFrags(f) <=> p \in PartialFrags(g))
  BY DEF PartialFrags
<1>3. Column(PartialFrags(f), Offsets, b) = Loose(f[b])
  BY DEF Column, PartialFrags, Loose, FreeMaps
<1>4. Column(PartialFrags(g), Offsets, b) = Loose(g[b])
  BY DEF Column, PartialFrags, Loose, FreeMaps
<1>5. QED BY <1>1, <1>2, <1>3, <1>4, GeometryFinite, ColumnChange

\* The runs of length k change by those of the changed block.
LEMMA RunStartsChange ==
    ASSUME NEW f \in FreeMaps, NEW g \in FreeMaps, NEW b \in Blocks, NEW k,
           \A x \in Blocks : x # b => g[x] = f[x]
    PROVE  /\ Cardinality(RunStarts(f, k)) \in Nat
           /\ Cardinality(RunStarts(g, k)) \in Nat
           /\ Cardinality(FreeRuns(f[b], k)) \in Nat
           /\ Cardinality(FreeRuns(g[b], k)) \in Nat
           /\ Cardinality(RunStarts(g, k)) = Cardinality(RunStarts(f, k))
                + Cardinality(FreeRuns(g[b], k)) - Cardinality(FreeRuns(f[b], k))
<1>1. /\ RunStarts(f, k) \in SUBSET (Blocks \X Offsets)
      /\ RunStarts(g, k) \in SUBSET (Blocks \X Offsets)
  BY DEF RunStarts
<1>2. \A p \in Blocks \X Offsets :
        p[1] # b => (p \in RunStarts(f, k) <=> p \in RunStarts(g, k))
  BY DEF RunStarts
<1>3. \A m : FreeRuns(m, k) \subseteq Offsets
  BY DEF FreeRuns
<1>4. Column(RunStarts(f, k), Offsets, b) = FreeRuns(f[b], k)
  BY <1>3 DEF Column, RunStarts
<1>5. Column(RunStarts(g, k), Offsets, b) = FreeRuns(g[b], k)
  BY <1>3 DEF Column, RunStarts
<1>6. QED BY <1>1, <1>2, <1>4, <1>5, GeometryFinite, ColumnChange

\* Only the changed block can become whole or stop being whole.
LEMMA WholeChange ==
    ASSUME NEW f \in FreeMaps, NEW g \in FreeMaps, NEW b \in Blocks,
           \A x \in Blocks : x # b => g[x] = f[x]
    PROVE  /\ f[b] # Offsets /\ g[b] # Offsets => WholeBlocks(g) = WholeBlocks(f)
           /\ f[b] = Offsets /\ g[b] # Offsets =>
                b \in WholeBlocks(f) /\ WholeBlocks(g) = WholeBlocks(f) \ {b}
           /\ f[b] # Offsets /\ g[b] = Offsets =>
                b \notin WholeBlocks(f) /\ WholeBlocks(g) = WholeBlocks(f) \cup {b}
BY DEF WholeBlocks

LEMMA WholeFinite ==
    ASSUME NEW f
    PROVE  IsFiniteSet(WholeBlocks(f)) /\ Cardinality(WholeBlocks(f)) \in Nat
<1>1. WholeBlocks(f) \in SUBSET Blocks
  BY DEF WholeBlocks
<1>2. IsFiniteSet(WholeBlocks(f))
  BY <1>1, GeometryFinite, FS_Subset
<1>3. QED BY <1>2, FS_CardinalityType

\* A whole block has no run shorter than itself.
LEMMA RunsOfWhole ==
    ASSUME NEW k \in RunLens
    PROVE  FreeRuns(Offsets, k) = {}
BY GeometryFinite DEF FreeRuns, Offsets, Run, RunLens

\* What remains of a whole block after its first n fragments is one run.
LEMMA RunsOfTail ==
    ASSUME NEW n \in 1..FragsPerBlock, NEW k \in RunLens
    PROVE  FreeRuns(Offsets \ Run(0, n), k) = IF k = FragsPerBlock - n THEN {n} ELSE {}
<1> DEFINE map == Offsets \ Run(0, n)
<1>1. \A x : x \in map <=> x \in n..(FragsPerBlock - 1)
  BY GeometryFinite DEF Offsets, Run
<1>2. ASSUME NEW o \in FreeRuns(map, k)
      PROVE  o = n /\ k = FragsPerBlock - n
  <2>1. o \in Offsets /\ o \in Run(o, k) /\ o + k - 1 \in Run(o, k)
    BY <1>2, GeometryFinite DEF FreeRuns, Run, Offsets, RunLens
  <2>2. o \in map /\ o + k - 1 \in map
    BY <1>2, <2>1 DEF FreeRuns
  <2>3. o - 1 \notin map /\ o + k \notin map
    BY <1>2 DEF FreeRuns
  <2> HIDE DEF map
  <2>4. QED BY <1>1, <2>1, <2>2, <2>3, GeometryFinite DEF Offsets, RunLens
<1>3. ASSUME k = FragsPerBlock - n
      PROVE  n \in FreeRuns(map, k)
  <2>1. n \in Offsets
    BY <1>3, GeometryFinite DEF Offsets, RunLens
  <2>2. Run(n, k) \subseteq map
    BY <1>1, <1>3, GeometryFinite DEF Run, RunLens
  <2>3. n - 1 \notin map /\ n + k \notin map
    BY <1>1, <1>3, GeometryFinite DEF RunLens
  <2>4. QED BY <2>1, <2>2, <2>3 DEF FreeRuns
<1>4. QED BY <1>2, <1>3

\* Whole blocks by cylinder.
WholeIn(f, y) == {b \in WholeBlocks(f) : CylOf[b] = y}

LEMMA WholeInFinite ==
    ASSUME NEW f, NEW y
    PROVE  IsFiniteSet(WholeIn(f, y)) /\ Cardinality(WholeIn(f, y)) \in Nat
<1>1. WholeIn(f, y) \in SUBSET WholeBlocks(f)
  BY DEF WholeIn
<1>2. IsFiniteSet(WholeIn(f, y))
  BY <1>1, WholeFinite, FS_Subset
<1>3. QED BY <1>2, FS_CardinalityType

\* A record of the group's shape whose counters are right is a group record.
LEMMA GroupOkTyped ==
    ASSUME NEW free \in FreeMaps, NEW nb, NEW nf, NEW fr, NEW bt,
           fr = [k \in RunLens |-> fr[k]], bt = [y \in Cyls |-> bt[y]],
           GroupOk([free |-> free, nbfree |-> nb, nffree |-> nf, frsum |-> fr, btot |-> bt])
    PROVE  [free |-> free, nbfree |-> nb, nffree |-> nf, frsum |-> fr, btot |-> bt]
             \in GroupRecord
<1>1. nb \in Nat
  BY WholeFinite DEF GroupOk
<1>2. PICK b \in Blocks : TRUE
  BY GeometryFinite DEF Blocks
<1>3. nf \in Nat
  BY <1>2, PartialChange DEF GroupOk
<1>4. fr \in [RunLens -> Nat]
  BY <1>2, RunStartsChange DEF GroupOk
<1>5. \A y \in Cyls : bt[y] \in Nat
  <2>1. \A y \in Cyls : bt[y] = Cardinality(WholeIn(free, y))
    BY DEF GroupOk, WholeIn
  <2>2. QED BY <2>1, WholeInFinite
<1>6. bt \in [Cyls -> Nat]
  BY <1>5
<1>7. QED BY <1>1, <1>3, <1>4, <1>6 DEF GroupRecord, FreeMaps

-----------------------------------------------------------------------------
(***************************************************************************)
(* The three updates keep a group block consistent.                        *)
(***************************************************************************)

\* FrsumDelta keeps the histogram right when block b goes from f[b] to g[b].
LEMMA FrsumDeltaOk ==
    ASSUME NEW f \in FreeMaps, NEW g \in FreeMaps, NEW b \in Blocks,
           \A x \in Blocks : x # b => g[x] = f[x],
           NEW frsum, \A k \in RunLens : frsum[k] = Cardinality(RunStarts(f, k))
    PROVE  \A k \in RunLens :
             FrsumDelta(frsum, f[b], g[b])[k] = Cardinality(RunStarts(g, k))
BY RunStartsChange DEF FrsumDelta

\* Taking a run out of a block that is already broken up.
LEMMA TakePartialOk ==
    ASSUME NEW c \in GroupRecord, GroupOk(c), NEW b \in Blocks,
           NEW o \in Offsets, NEW n \in Nat \ {0},
           Run(o, n) \subseteq c.free[b], c.free[b] # Offsets
    PROVE  /\ TakePartial(c, b, o, n) \in GroupRecord
           /\ GroupOk(TakePartial(c, b, o, n))
<1> DEFINE f == c.free
           after == f[b] \ Run(o, n)
           g == [f EXCEPT ![b] = after]
           d == TakePartial(c, b, o, n)
<1>1. f \in FreeMaps /\ c.frsum \in [RunLens -> Nat] /\ c.btot \in [Cyls -> Nat]
      /\ c.nbfree \in Nat /\ c.nffree \in Nat
  BY DEF GroupRecord, FreeMaps
<1>2. g \in FreeMaps /\ g[b] = after /\ \A x \in Blocks : x # b => g[x] = f[x]
  BY <1>1 DEF FreeMaps
<1>3. f[b] \subseteq Offsets /\ after # Offsets
  <2>1. f[b] \subseteq Offsets
    BY <1>1 DEF FreeMaps
  <2>2. QED BY <2>1
<1>4. Cardinality(after) = Cardinality(f[b]) - n /\ Cardinality(f[b]) \in Nat
  <2>1. IsFiniteSet(f[b])
    BY <1>3, GeometryFinite, FS_Subset
  <2>2. f[b] \cap Run(o, n) = Run(o, n)
    OBVIOUS
  <2>3. Cardinality(Run(o, n)) = n
    BY RunSize, GeometryFinite DEF Offsets
  <2>4. Cardinality(f[b] \ Run(o, n)) = Cardinality(f[b]) - Cardinality(f[b] \cap Run(o, n))
    BY <2>1, FS_Difference
  <2>5. Cardinality(f[b]) \in Nat
    BY <2>1, FS_CardinalityType
  <2>6. QED BY <2>2, <2>3, <2>4, <2>5
<1>5. Cardinality(PartialFrags(g)) = Cardinality(PartialFrags(f)) - n
  <2>1. Loose(f[b]) = f[b] /\ Loose(g[b]) = after
    BY <1>2, <1>3 DEF Loose
  <2> HIDE DEF f, g, after
  <2>2. QED BY <1>1, <1>2, <1>4, <2>1, PartialChange
<1>6. WholeBlocks(g) = WholeBlocks(f)
  <2> HIDE DEF f, g, after
  <2>1. f[b] # Offsets
    BY DEF f
  <2>2. QED BY <1>1, <1>2, <1>3, <2>1, WholeChange
<1>7. d = [free |-> g, nbfree |-> c.nbfree, nffree |-> c.nffree - n,
           frsum |-> FrsumDelta(c.frsum, f[b], after), btot |-> c.btot]
  BY DEF TakePartial
<1>8. \A k \in RunLens :
        FrsumDelta(c.frsum, f[b], after)[k] = Cardinality(RunStarts(g, k))
  <2>1. \A k \in RunLens : c.frsum[k] = Cardinality(RunStarts(f, k))
    BY DEF GroupOk
  <2> HIDE DEF f, g, after
  <2>2. QED BY <1>1, <1>2, <2>1, FrsumDeltaOk
<1>9. GroupOk(d)
  <2>1. /\ c.nbfree = Cardinality(WholeBlocks(f))
        /\ c.nffree = Cardinality(PartialFrags(f))
        /\ \A y \in Cyls : c.btot[y] = Cardinality({x \in WholeBlocks(f) : CylOf[x] = y})
    BY DEF GroupOk
  <2> HIDE DEF f, g, after
  <2>2. QED BY <1>5, <1>6, <1>7, <1>8, <2>1 DEF GroupOk
<1>10. d \in GroupRecord
  <2>1. FrsumDelta(c.frsum, f[b], after)
          = [k \in RunLens |-> FrsumDelta(c.frsum, f[b], after)[k]]
    BY DEF FrsumDelta
  <2>2. c.btot = [y \in Cyls |-> c.btot[y]]
    BY <1>1
  <2> HIDE DEF f, g, after
  <2>3. QED BY <1>1, <1>2, <1>7, <1>9, <2>1, <2>2, GroupOkTyped
<1>11. QED BY <1>9, <1>10

\* Splitting a wholly free block.
LEMMA TakeWholeOk ==
    ASSUME NEW c \in GroupRecord, GroupOk(c), NEW b \in Blocks,
           NEW n \in 1..FragsPerBlock, c.free[b] = Offsets
    PROVE  /\ TakeWhole(c, b, n) \in GroupRecord
           /\ GroupOk(TakeWhole(c, b, n))
<1> DEFINE f == c.free
           after == Offsets \ Run(0, n)
           g == [f EXCEPT ![b] = after]
           rest == FragsPerBlock - n
           fr == [k \in RunLens |-> IF k = rest THEN c.frsum[k] + 1 ELSE c.frsum[k]]
           bt == [c.btot EXCEPT ![CylOf[b]] = c.btot[CylOf[b]] - 1]
           d == TakeWhole(c, b, n)
<1>1. f \in FreeMaps /\ c.frsum \in [RunLens -> Nat] /\ c.btot \in [Cyls -> Nat]
      /\ c.nbfree \in Nat /\ c.nffree \in Nat
  BY DEF GroupRecord, FreeMaps
<1>2. g \in FreeMaps /\ g[b] = after /\ \A x \in Blocks : x # b => g[x] = f[x]
  BY <1>1 DEF FreeMaps
<1>3. f[b] = Offsets /\ after # Offsets
  <2>1. 0 \in Offsets /\ 0 \in Run(0, n)
    BY GeometryFinite DEF Offsets, Run
  <2>2. QED BY <2>1
<1>4. d = [free |-> g, nbfree |-> c.nbfree - 1, nffree |-> c.nffree + rest,
           frsum |-> fr, btot |-> bt]
  BY DEF TakeWhole
<1>5. /\ c.nbfree = Cardinality(WholeBlocks(f))
      /\ c.nffree = Cardinality(PartialFrags(f))
      /\ \A k \in RunLens : c.frsum[k] = Cardinality(RunStarts(f, k))
      /\ \A y \in Cyls : c.btot[y] = Cardinality(WholeIn(f, y))
  BY DEF GroupOk, WholeIn
<1>6. Cardinality(after) = rest
  <2>1. after = n..(FragsPerBlock - 1)
    BY GeometryFinite DEF Offsets, Run
  <2>2. Cardinality(n..(FragsPerBlock - 1)) =
          IF n > FragsPerBlock - 1 THEN 0 ELSE FragsPerBlock - 1 - n + 1
    <3>1. n \in Int /\ FragsPerBlock - 1 \in Int
      BY GeometryFinite
    <3>2. QED BY <3>1, FS_Interval
  <2> HIDE DEF after
  <2>3. QED BY <2>1, <2>2, GeometryFinite
<1>7. Cardinality(Loose(f[b])) = 0 /\ Cardinality(Loose(g[b])) = rest
  BY <1>2, <1>3, <1>6, FS_EmptySet DEF Loose
<1>8. \A k \in RunLens : /\ Cardinality(FreeRuns(f[b], k)) = 0
                         /\ Cardinality(FreeRuns(g[b], k)) = IF k = rest THEN 1 ELSE 0
  <2> TAKE k \in RunLens
  <2>1. FreeRuns(f[b], k) = {}
    BY <1>3, RunsOfWhole
  <2>2. FreeRuns(g[b], k) = IF k = rest THEN {n} ELSE {}
    BY <1>2, RunsOfTail
  <2>3. Cardinality({}) = 0 /\ Cardinality({n}) = 1
    BY FS_EmptySet, FS_Singleton
  <2>4. QED BY <2>1, <2>2, <2>3
<1>9. rest \in Nat /\ CylOf[b] \in Cyls
  BY GeometryAssumption, GeometryFinite DEF Blocks
<1> HIDE DEF f, g, after, rest
<1>10. Cardinality(PartialFrags(g)) = c.nffree + rest
  BY <1>1, <1>2, <1>5, <1>7, <1>9, PartialChange
<1>11. \A k \in RunLens : fr[k] = Cardinality(RunStarts(g, k))
  BY <1>1, <1>2, <1>5, <1>8, RunStartsChange
<1>12. b \in WholeBlocks(f) /\ WholeBlocks(g) = WholeBlocks(f) \ {b}
  BY <1>1, <1>2, <1>3, WholeChange
<1>13. Cardinality(WholeBlocks(g)) = c.nbfree - 1
  BY <1>5, <1>12, WholeFinite, FS_RemoveElement
<1>14. \A y \in Cyls : bt[y] = Cardinality(WholeIn(g, y))
  <2> TAKE y \in Cyls
  <2>1. CASE y = CylOf[b]
    <3>1. b \in WholeIn(f, y) /\ WholeIn(g, y) = WholeIn(f, y) \ {b}
      BY <1>12, <2>1 DEF WholeIn
    <3>2. Cardinality(WholeIn(g, y)) = Cardinality(WholeIn(f, y)) - 1
      <4>1. IsFiniteSet(WholeIn(f, y))
        BY WholeInFinite
      <4>2. Cardinality(WholeIn(f, y) \ {b}) = Cardinality(WholeIn(f, y)) - 1
        BY ONLY <3>1, <4>1, FS_RemoveElement
      <4>3. QED BY ONLY <3>1, <4>2
    <3>3. QED BY <1>1, <1>5, <1>9, <2>1, <3>2
  <2>2. CASE y # CylOf[b]
    <3>1. WholeIn(g, y) = WholeIn(f, y)
      BY <1>12, <2>2 DEF WholeIn
    <3>2. QED BY <1>1, <1>5, <2>2, <3>1
  <2>3. QED BY <2>1, <2>2
<1>15. fr = [k \in RunLens |-> fr[k]] /\ bt = [y \in Cyls |-> bt[y]]
  BY <1>1
<1> HIDE DEF fr, bt
<1>16. GroupOk(d)
  BY <1>4, <1>10, <1>11, <1>13, <1>14 DEF GroupOk, WholeIn
<1>17. d \in GroupRecord
  BY <1>2, <1>4, <1>15, <1>16, GroupOkTyped
<1>18. QED BY <1>16, <1>17

\* Giving a run back, which may make its block whole again.
LEMMA GiveBackOk ==
    ASSUME NEW c \in GroupRecord, GroupOk(c), NEW b \in Blocks,
           NEW o \in Offsets, NEW n \in Nat \ {0}, o + n <= FragsPerBlock,
           Run(o, n) \cap c.free[b] = {}
    PROVE  /\ GiveBack(c, b, o, n) \in GroupRecord
           /\ GroupOk(GiveBack(c, b, o, n))
<1> DEFINE f == c.free
           after == f[b] \cup Run(o, n)
           g == [f EXCEPT ![b] = after]
           fr == FrsumDelta(c.frsum, f[b], after)
           bt == [c.btot EXCEPT ![CylOf[b]] = c.btot[CylOf[b]] + 1]
           d == GiveBack(c, b, o, n)
<1>1. f \in FreeMaps /\ c.frsum \in [RunLens -> Nat] /\ c.btot \in [Cyls -> Nat]
      /\ c.nbfree \in Nat /\ c.nffree \in Nat
  BY DEF GroupRecord, FreeMaps
<1>2. Run(o, n) \subseteq Offsets /\ o \in Run(o, n) /\ f[b] \subseteq Offsets
  BY <1>1, GeometryFinite DEF Run, Offsets, FreeMaps
<1>3. g \in FreeMaps /\ g[b] = after /\ \A x \in Blocks : x # b => g[x] = f[x]
  BY <1>1, <1>2 DEF FreeMaps
<1>4. f[b] # Offsets
  BY <1>2
<1>5. /\ c.nbfree = Cardinality(WholeBlocks(f))
      /\ c.nffree = Cardinality(PartialFrags(f))
      /\ \A k \in RunLens : c.frsum[k] = Cardinality(RunStarts(f, k))
      /\ \A y \in Cyls : c.btot[y] = Cardinality(WholeIn(f, y))
  BY DEF GroupOk, WholeIn
<1>6. Cardinality(after) = Cardinality(f[b]) + n /\ Cardinality(f[b]) \in Nat
  <2>1. IsFiniteSet(f[b])
    BY <1>2, GeometryFinite, FS_Subset
  <2>2. IsFiniteSet(Run(o, n)) /\ Cardinality(Run(o, n)) = n
    BY RunSize, GeometryFinite DEF Offsets
  <2>3. f[b] \cap Run(o, n) = {}
    OBVIOUS
  <2>4. QED BY <2>1, <2>2, <2>3, DisjointSum
<1>7. Loose(f[b]) = f[b] /\ CylOf[b] \in Cyls
  BY <1>4, GeometryAssumption DEF Loose, Blocks
<1>8. d = [free |-> g,
           nbfree |-> IF after = Offsets THEN c.nbfree + 1 ELSE c.nbfree,
           nffree |-> IF after = Offsets THEN c.nffree + n - FragsPerBlock
                                         ELSE c.nffree + n,
           frsum |-> fr,
           btot |-> IF after = Offsets THEN bt ELSE c.btot]
  BY DEF GiveBack
<1> HIDE DEF f, g, after
<1>9. \A k \in RunLens : fr[k] = Cardinality(RunStarts(g, k))
  BY <1>1, <1>3, <1>5, FrsumDeltaOk
<1>10. /\ fr = [k \in RunLens |-> fr[k]] /\ bt = [y \in Cyls |-> bt[y]]
       /\ c.btot = [y \in Cyls |-> c.btot[y]]
  BY <1>1 DEF FrsumDelta
<1>11. CASE after = Offsets
  <2>1. Cardinality(PartialFrags(g)) = c.nffree + n - FragsPerBlock
    <3>1. Cardinality(Loose(g[b])) = 0
      BY <1>3, <1>11, FS_EmptySet DEF Loose
    <3>2. Cardinality(PartialFrags(g)) = c.nffree - Cardinality(f[b])
      BY <1>1, <1>3, <1>5, <1>6, <1>7, <3>1, PartialChange
    <3>3. Cardinality(f[b]) + n = FragsPerBlock
      BY <1>6, <1>11, GeometryFinite
    <3>4. QED BY <1>1, <1>6, <3>2, <3>3, GeometryFinite
  <2>2. b \notin WholeBlocks(f) /\ WholeBlocks(g) = WholeBlocks(f) \cup {b}
    BY <1>1, <1>3, <1>4, <1>11, WholeChange
  <2>3. Cardinality(WholeBlocks(g)) = c.nbfree + 1
    BY <1>5, <2>2, WholeFinite, FS_AddElement
  <2>4. \A y \in Cyls : bt[y] = Cardinality(WholeIn(g, y))
    <3> TAKE y \in Cyls
    <3>1. CASE y = CylOf[b]
      <4>1. b \notin WholeIn(f, y) /\ WholeIn(g, y) = WholeIn(f, y) \cup {b}
        BY <2>2, <3>1 DEF WholeIn
      <4>2. Cardinality(WholeIn(g, y)) = Cardinality(WholeIn(f, y)) + 1
        BY <4>1, WholeInFinite, FS_AddElement
      <4>3. QED BY <1>1, <1>5, <1>7, <3>1, <4>2
    <3>2. CASE y # CylOf[b]
      <4>1. WholeIn(g, y) = WholeIn(f, y)
        BY <2>2, <3>2 DEF WholeIn
      <4>2. QED BY <1>1, <1>5, <3>2, <4>1
    <3>3. QED BY <3>1, <3>2
  <2> HIDE DEF fr, bt
  <2>5. GroupOk(d)
    <3>1. d = [free |-> g, nbfree |-> c.nbfree + 1,
               nffree |-> c.nffree + n - FragsPerBlock, frsum |-> fr, btot |-> bt]
      BY <1>8, <1>11
    <3> HIDE DEF d
    <3>2. QED BY <1>9, <2>1, <2>3, <2>4, <3>1 DEF GroupOk, WholeIn
  <2>6. d \in GroupRecord
    BY <1>3, <1>8, <1>10, <1>11, <2>5, GroupOkTyped
  <2>7. QED BY <2>5, <2>6
<1>12. CASE after # Offsets
  <2>1. Cardinality(PartialFrags(g)) = c.nffree + n
    <3>1. Loose(g[b]) = after
      BY <1>3, <1>12 DEF Loose
    <3>2. QED BY <1>1, <1>3, <1>5, <1>6, <1>7, <3>1, PartialChange
  <2>2. WholeBlocks(g) = WholeBlocks(f)
    BY <1>1, <1>3, <1>4, <1>12, WholeChange
  <2> HIDE DEF fr, bt
  <2>3. GroupOk(d)
    BY <1>5, <1>8, <1>9, <1>12, <2>1, <2>2 DEF GroupOk, WholeIn
  <2>4. d \in GroupRecord
    BY <1>3, <1>8, <1>10, <1>12, <2>3, GroupOkTyped
  <2>5. QED BY <2>3, <2>4
<1>13. QED BY <1>11, <1>12

-----------------------------------------------------------------------------
(* The allocator.                                                          *)

Here(r, g, b) == r.cg = g /\ r.blk = b

\* The groups are typed and their counters are right.
GroupsGood(cgf) ==
    /\ cgf \in [Groups -> GroupRecord]
    /\ \A g \in Groups : GroupOk(cgf[g])

\* Held runs are disjoint from each other, the free map and the metadata.
HeldApart(cgf, held) ==
    /\ \A r, s \in held :
         r # s /\ Here(r, s.cg, s.blk) => RunFrags(r) \cap RunFrags(s) = {}
    /\ \A r \in held :
         RunFrags(r) \cap (cgf[r.cg].free[r.blk] \cup Meta[r.cg][r.blk]) = {}
    /\ \A g \in Groups, b \in Blocks : cgf[g].free[b] \cap Meta[g][b] = {}

\* Together they are the whole block.
Covered(cgf, held) ==
    \A g \in Groups, b \in Blocks : \A x :
        x \in Run(0, BlockLen(g, b)) <=>
            \/ x \in cgf[g].free[b]
            \/ x \in Meta[g][b]
            \/ \E r \in held : Here(r, g, b) /\ x \in RunFrags(r)

Good(cgf, held) ==
    /\ held \subseteq RunRecord
    /\ GroupsGood(cgf)
    /\ HeldApart(cgf, held)
    /\ Covered(cgf, held)

LEMMA RunRecordTypes ==
    ASSUME NEW r \in RunRecord
    PROVE  /\ r.cg \in Groups /\ r.blk \in Blocks
           /\ r.start \in Offsets /\ r.start \in Nat
           /\ r.len \in 1..FragsPerBlock /\ r.len \in Nat \ {0}
           /\ r.start \in RunFrags(r) /\ r.start + r.len - 1 \in RunFrags(r)
BY GeometryFinite DEF RunRecord, RunFrags, Run, Offsets

LEMMA BlockLenType ==
    ASSUME NEW g \in Groups, NEW b \in Blocks
    PROVE  BlockLen(g, b) \in 0..FragsPerBlock
<1>1. NdBlk[g] \in Nat /\ b \in Nat
  BY GroupsAssumption, GeometryFinite DEF Blocks
<1>2. b * FragsPerBlock \in Nat
  BY <1>1, GeometryFinite
<1>3. QED BY <1>1, <1>2, GeometryFinite DEF BlockLen

\* A held run lies inside its block.
LEMMA HeldFits ==
    ASSUME NEW cgf, NEW held, Good(cgf, held), NEW r \in held
    PROVE  r.start + r.len <= FragsPerBlock
<1>1. r \in RunRecord
  BY DEF Good
<1>2. r.start + r.len - 1 \in Run(0, BlockLen(r.cg, r.blk))
  BY <1>1, RunRecordTypes DEF Good, Covered, Here
<1>3. QED BY <1>1, <1>2, RunRecordTypes, BlockLenType, GeometryFinite DEF Run

\* Moving free fragments to a new holder.
LEMMA TakeGood ==
    ASSUME NEW cgf, NEW held, Good(cgf, held), NEW s \in RunRecord,
           NEW c \in GroupRecord, GroupOk(c),
           c.free = [cgf[s.cg].free EXCEPT ![s.blk] = cgf[s.cg].free[s.blk] \ RunFrags(s)],
           RunFrags(s) \subseteq cgf[s.cg].free[s.blk]
    PROVE  Good([cgf EXCEPT ![s.cg] = c], held \cup {s}) /\ s \notin held
<1> DEFINE new == [cgf EXCEPT ![s.cg] = c]
<1>1. /\ s.cg \in Groups /\ s.blk \in Blocks /\ s.start \in RunFrags(s)
      /\ held \subseteq RunRecord
      /\ GroupsGood(cgf) /\ HeldApart(cgf, held) /\ Covered(cgf, held)
  BY RunRecordTypes DEF Good
<1>2. GroupsGood(new)
  BY <1>1 DEF GroupsGood
<1>3. s \notin held
  BY <1>1 DEF HeldApart
<1>4. \A g \in Groups, b \in Blocks : \A x :
        x \in new[g].free[b] <=>
            x \in cgf[g].free[b] /\ ~(Here(s, g, b) /\ x \in RunFrags(s))
  BY <1>1 DEF GroupsGood, GroupRecord, Here
<1>5. \A r \in held : r.cg \in Groups /\ r.blk \in Blocks
  BY <1>1, RunRecordTypes
<1> HIDE DEF new
<1>6. HeldApart(new, held \cup {s})
  <2>1. ASSUME NEW r \in held, Here(r, s.cg, s.blk)
        PROVE  RunFrags(r) \cap RunFrags(s) = {}
    BY <1>1, <2>1 DEF HeldApart, Here
  <2>2. RunFrags(s) \cap Meta[s.cg][s.blk] = {}
    BY <1>1 DEF HeldApart
  <2>3. \A r, t \in held \cup {s} :
          r # t /\ Here(r, t.cg, t.blk) => RunFrags(r) \cap RunFrags(t) = {}
    BY <1>1, <2>1 DEF HeldApart, Here
  <2>4. \A r \in held \cup {s} :
          RunFrags(r) \cap (new[r.cg].free[r.blk] \cup Meta[r.cg][r.blk]) = {}
    <3>1. ASSUME NEW r \in held
          PROVE  RunFrags(r) \cap (new[r.cg].free[r.blk] \cup Meta[r.cg][r.blk]) = {}
      <4>1. RunFrags(r) \cap (cgf[r.cg].free[r.blk] \cup Meta[r.cg][r.blk]) = {}
        BY <1>1 DEF HeldApart
      <4>2. new[r.cg].free[r.blk] \subseteq cgf[r.cg].free[r.blk]
        BY <1>4, <1>5
      <4>3. QED BY <4>1, <4>2
    <3>2. RunFrags(s) \cap new[s.cg].free[s.blk] = {}
      BY <1>1, <1>4 DEF Here
    <3>3. QED BY <2>2, <3>1, <3>2
  <2>5. \A g \in Groups, b \in Blocks : new[g].free[b] \cap Meta[g][b] = {}
    <3> TAKE g \in Groups, b \in Blocks
    <3>1. cgf[g].free[b] \cap Meta[g][b] = {}
      BY <1>1 DEF HeldApart
    <3>2. QED BY <1>4, <3>1
  <2>6. QED BY <2>3, <2>4, <2>5 DEF HeldApart
<1>7. Covered(new, held \cup {s})
  <2> SUFFICES ASSUME NEW g \in Groups, NEW b \in Blocks, NEW x
               PROVE  x \in Run(0, BlockLen(g, b)) <=>
                        \/ x \in new[g].free[b]
                        \/ x \in Meta[g][b]
                        \/ \E r \in held \cup {s} : Here(r, g, b) /\ x \in RunFrags(r)
    BY DEF Covered
  <2>1. x \in Run(0, BlockLen(g, b)) <=>
          \/ x \in cgf[g].free[b]
          \/ x \in Meta[g][b]
          \/ \E r \in held : Here(r, g, b) /\ x \in RunFrags(r)
    BY <1>1 DEF Covered
  <2>2. Here(s, g, b) /\ x \in RunFrags(s) => x \in cgf[g].free[b]
    BY DEF Here
  <2>3. x \in new[g].free[b] <=>
          x \in cgf[g].free[b] /\ ~(Here(s, g, b) /\ x \in RunFrags(s))
    BY <1>4
  <2>4. QED BY <2>1, <2>2, <2>3
<1>8. QED BY <1>1, <1>2, <1>3, <1>6, <1>7 DEF Good, new

\* Moving the fragments of a holder back to the free map.
LEMMA ReturnGood ==
    ASSUME NEW cgf, NEW held, Good(cgf, held), NEW r \in held,
           NEW c \in GroupRecord, GroupOk(c),
           c.free = [cgf[r.cg].free EXCEPT ![r.blk] = cgf[r.cg].free[r.blk] \cup RunFrags(r)]
    PROVE  Good([cgf EXCEPT ![r.cg] = c], held \ {r})
<1> DEFINE new == [cgf EXCEPT ![r.cg] = c]
<1>1. /\ r.cg \in Groups /\ r.blk \in Blocks
      /\ held \subseteq RunRecord
      /\ GroupsGood(cgf) /\ HeldApart(cgf, held) /\ Covered(cgf, held)
  BY RunRecordTypes DEF Good
<1>2. GroupsGood(new)
  BY <1>1 DEF GroupsGood
<1>3. \A g \in Groups, b \in Blocks : \A x :
        x \in new[g].free[b] <=>
            x \in cgf[g].free[b] \/ (Here(r, g, b) /\ x \in RunFrags(r))
  BY <1>1, SMTT(30) DEF GroupsGood, GroupRecord, Here
<1>4. \A s \in held : s.cg \in Groups /\ s.blk \in Blocks
  BY <1>1, RunRecordTypes
<1> HIDE DEF new
<1>5. HeldApart(new, held \ {r})
  <2>1. \A s, t \in held \ {r} :
          s # t /\ Here(s, t.cg, t.blk) => RunFrags(s) \cap RunFrags(t) = {}
    BY <1>1 DEF HeldApart
  <2>2. \A s \in held \ {r} :
          RunFrags(s) \cap (new[s.cg].free[s.blk] \cup Meta[s.cg][s.blk]) = {}
    <3> TAKE s \in held \ {r}
    <3>1. RunFrags(s) \cap (cgf[s.cg].free[s.blk] \cup Meta[s.cg][s.blk]) = {}
      BY <1>1 DEF HeldApart
    <3>2. Here(r, s.cg, s.blk) => RunFrags(r) \cap RunFrags(s) = {}
      BY <1>1 DEF HeldApart
    <3>3. QED BY <1>3, <1>4, <3>1, <3>2
  <2>3. \A g \in Groups, b \in Blocks : new[g].free[b] \cap Meta[g][b] = {}
    <3> TAKE g \in Groups, b \in Blocks
    <3>1. cgf[g].free[b] \cap Meta[g][b] = {}
      BY <1>1 DEF HeldApart
    <3>2. Here(r, g, b) => RunFrags(r) \cap Meta[g][b] = {}
      BY <1>1 DEF HeldApart, Here
    <3>3. QED BY <1>3, <3>1, <3>2
  <2>4. QED BY <2>1, <2>2, <2>3 DEF HeldApart
<1>6. Covered(new, held \ {r})
  <2> SUFFICES ASSUME NEW g \in Groups, NEW b \in Blocks, NEW x
               PROVE  x \in Run(0, BlockLen(g, b)) <=>
                        \/ x \in new[g].free[b]
                        \/ x \in Meta[g][b]
                        \/ \E s \in held \ {r} : Here(s, g, b) /\ x \in RunFrags(s)
    BY DEF Covered
  <2>1. x \in Run(0, BlockLen(g, b)) <=>
          \/ x \in cgf[g].free[b]
          \/ x \in Meta[g][b]
          \/ \E s \in held : Here(s, g, b) /\ x \in RunFrags(s)
    BY <1>1 DEF Covered
  <2>2. x \in new[g].free[b] <=>
          x \in cgf[g].free[b] \/ (Here(r, g, b) /\ x \in RunFrags(r))
    BY <1>3
  <2>3. QED BY <2>1, <2>2
<1>7. QED BY <1>1, <1>2, <1>5, <1>6 DEF Good, new

\* Joining a run and the run right behind it.
LEMMA MergeGood ==
    ASSUME NEW cgf, NEW held, Good(cgf, held), NEW r \in held, NEW a \in held,
           NEW e \in RunRecord, r # a, Here(a, r.cg, r.blk), Here(e, r.cg, r.blk),
           RunFrags(e) = RunFrags(r) \cup RunFrags(a)
    PROVE  Good(cgf, (held \ {r, a}) \cup {e}) /\ e \notin held \ {r, a}
<1>1. /\ r.cg \in Groups /\ r.blk \in Blocks /\ r.start \in RunFrags(r)
      /\ held \subseteq RunRecord
      /\ GroupsGood(cgf) /\ HeldApart(cgf, held) /\ Covered(cgf, held)
  BY RunRecordTypes DEF Good
<1>2. ASSUME NEW s \in held \ {r, a}, Here(s, r.cg, r.blk)
      PROVE  RunFrags(s) \cap RunFrags(e) = {}
  BY <1>1, <1>2 DEF HeldApart, Here
<1>3. e \notin held \ {r, a}
  BY <1>1, <1>2
<1>4. HeldApart(cgf, (held \ {r, a}) \cup {e})
  <2>1. \A s, t \in (held \ {r, a}) \cup {e} :
          s # t /\ Here(s, t.cg, t.blk) => RunFrags(s) \cap RunFrags(t) = {}
    BY <1>1, <1>2 DEF HeldApart, Here
  <2>2. \A s \in (held \ {r, a}) \cup {e} :
          RunFrags(s) \cap (cgf[s.cg].free[s.blk] \cup Meta[s.cg][s.blk]) = {}
    BY <1>1 DEF HeldApart, Here
  <2>3. QED BY <1>1, <2>1, <2>2 DEF HeldApart
<1>5. Covered(cgf, (held \ {r, a}) \cup {e})
  <2> SUFFICES ASSUME NEW g \in Groups, NEW b \in Blocks, NEW x
               PROVE  (\E s \in held : Here(s, g, b) /\ x \in RunFrags(s)) <=>
                      (\E s \in (held \ {r, a}) \cup {e} : Here(s, g, b) /\ x \in RunFrags(s))
    BY <1>1 DEF Covered
  <2>1. QED BY DEF Here
<1>6. QED BY <1>1, <1>3, <1>4, <1>5 DEF Good

-----------------------------------------------------------------------------
(***************************************************************************)
(* The halves of the handlers.                                             *)
(***************************************************************************)

\* What allocate_frags_anycg finds is free, and the group block it writes is
\* consistent again.
LEMMA FoundOk ==
    ASSUME NEW held, Good(cg, held), NEW pref, NEW n, NEW s \in RunRecord, Found(pref, n, s)
    PROVE  /\ Taken(s) \in GroupRecord
           /\ GroupOk(Taken(s))
           /\ RunFrags(s) \subseteq cg[s.cg].free[s.blk]
           /\ Taken(s).free = [cg[s.cg].free EXCEPT
                                 ![s.blk] = cg[s.cg].free[s.blk] \ RunFrags(s)]
<1> DEFINE c == cg[s.cg]
<1>1. /\ s.cg \in Groups /\ s.blk \in Blocks /\ s.start \in Offsets
      /\ s.len \in 1..FragsPerBlock /\ s.len \in Nat \ {0}
      /\ c \in GroupRecord /\ GroupOk(c) /\ n = s.len
  BY RunRecordTypes DEF Good, GroupsGood, Found
<1>2. CASE FirstPartial(s.cg, n, s.blk, s.start)
  <2>1. Run(s.start, s.len) \subseteq c.free[s.blk] /\ c.free[s.blk] # Offsets
    BY <1>1, <1>2 DEF FirstPartial, PartialSpot
  <2>2. Taken(s) = TakePartial(c, s.blk, s.start, s.len)
    BY <2>1 DEF Taken, Splits
  <2>3. Taken(s) \in GroupRecord /\ GroupOk(Taken(s))
    BY <1>1, <2>1, <2>2, TakePartialOk
  <2>4. Taken(s).free = [c.free EXCEPT ![s.blk] = c.free[s.blk] \ Run(s.start, s.len)]
    BY <2>2 DEF TakePartial
  <2>5. QED BY <2>1, <2>3, <2>4 DEF RunFrags
<1>3. CASE FirstWhole(s.cg, n, s.blk) /\ s.start = 0
  <2>1. c.free[s.blk] = Offsets
    BY <1>3 DEF FirstWhole, WholeSpot
  <2>2. Taken(s) = TakeWhole(c, s.blk, s.len)
    BY <2>1 DEF Taken, Splits
  <2>3. Taken(s) \in GroupRecord /\ GroupOk(Taken(s))
    BY <1>1, <2>1, <2>2, TakeWholeOk
  <2>4. Taken(s).free = [c.free EXCEPT ![s.blk] = c.free[s.blk] \ Run(0, s.len)]
    BY <2>2 DEF TakeWhole
  <2>5. Run(0, s.len) \subseteq Offsets
    BY <1>1, GeometryFinite DEF Run, Offsets
  <2>6. QED BY <1>3, <2>1, <2>3, <2>4, <2>5 DEF RunFrags
<1>4. QED BY <1>2, <1>3 DEF Found

\* Taking a found run.
LEMMA TakeStep ==
    ASSUME NEW held, Good(cg, held), NEW pref, NEW n, NEW s \in RunRecord, Found(pref, n, s)
    PROVE  Good([cg EXCEPT ![s.cg] = Taken(s)], held \cup {s}) /\ s \notin held
BY FoundOk, TakeGood

\* Giving back a held run.
LEMMA ReturnStep ==
    ASSUME NEW cgf, NEW held, Good(cgf, held), NEW r \in held
    PROVE  Good([cgf EXCEPT ![r.cg] = Returned(cgf[r.cg], r)], held \ {r})
<1> DEFINE c == cgf[r.cg]
<1>1. r \in RunRecord /\ GroupsGood(cgf)
  BY DEF Good
<1>2. /\ r.cg \in Groups /\ r.blk \in Blocks /\ r.start \in Offsets /\ r.len \in Nat \ {0}
      /\ c \in GroupRecord /\ GroupOk(c)
  BY <1>1, RunRecordTypes DEF GroupsGood
<1>3. r.start + r.len <= FragsPerBlock
  BY HeldFits
<1>4. Run(r.start, r.len) \cap c.free[r.blk] = {}
  BY DEF Good, HeldApart, RunFrags
<1>5. Returned(c, r) \in GroupRecord /\ GroupOk(Returned(c, r))
  BY <1>2, <1>3, <1>4, GiveBackOk DEF Returned
<1>6. Returned(c, r).free = [c.free EXCEPT ![r.blk] = c.free[r.blk] \cup RunFrags(r)]
  BY DEF Returned, GiveBack, RunFrags
<1>7. QED BY <1>5, <1>6, ReturnGood

\* Taking the fragments behind a held run.
LEMMA ExtendStep ==
    ASSUME NEW held, Good(cg, held), NEW r \in held, NEW new \in 1..FragsPerBlock,
           new > r.len, CanExtend(r, new)
    PROVE  LET a == Added(r, new)
               after == [cg EXCEPT ![r.cg] = TakePartial(cg[r.cg], r.blk, a.start, a.len)]
               e == Extended(r, new)
           IN  /\ a \in RunRecord /\ e \in RunRecord
               /\ a \notin held /\ e \notin held \ {r}
               /\ Good(after, held \cup {a})
               /\ Good(after, (held \ {r}) \cup {e})
<1> DEFINE a == Added(r, new)
           c == cg[r.cg]
           after == [cg EXCEPT ![r.cg] = TakePartial(c, r.blk, a.start, a.len)]
           e == Extended(r, new)
<1>1. r \in RunRecord /\ GroupsGood(cg)
  BY DEF Good
<1>2. /\ r.cg \in Groups /\ r.blk \in Blocks /\ r.start \in Nat /\ r.len \in Nat \ {0}
      /\ c \in GroupRecord /\ GroupOk(c) /\ r.start \in RunFrags(r) /\ r.start \in Offsets
  BY <1>1, RunRecordTypes DEF GroupsGood
<1>3. /\ r.start + new <= FragsPerBlock
      /\ Run(r.start + r.len, new - r.len) \subseteq c.free[r.blk]
  BY DEF CanExtend
<1>4. /\ a \in RunRecord /\ a.cg = r.cg /\ a.blk = r.blk
      /\ a.start = r.start + r.len /\ a.len = new - r.len
      /\ a.start \in Offsets /\ a.len \in Nat \ {0}
  BY <1>1, <1>2, <1>3, GeometryFinite DEF Added, RunRecord, Offsets
<1>5. e \in RunRecord /\ e.cg = r.cg /\ e.blk = r.blk /\ e.start = r.start /\ e.len = new
  BY <1>1, <1>2 DEF Extended, RunRecord
<1>6. RunFrags(e) = RunFrags(r) \cup RunFrags(a)
  BY <1>2, <1>4, <1>5 DEF RunFrags, Run
<1>7. RunFrags(a) \subseteq c.free[r.blk] /\ a.start \in RunFrags(a)
  BY <1>3, <1>4, RunRecordTypes DEF RunFrags
<1>8. c.free[r.blk] # Offsets
  BY <1>2 DEF Good, HeldApart
<1> HIDE DEF a, c, e
<1>9. /\ TakePartial(c, r.blk, a.start, a.len) \in GroupRecord
      /\ GroupOk(TakePartial(c, r.blk, a.start, a.len))
  BY <1>2, <1>4, <1>7, <1>8, TakePartialOk DEF RunFrags
<1>10. TakePartial(c, r.blk, a.start, a.len).free
         = [c.free EXCEPT ![r.blk] = c.free[r.blk] \ RunFrags(a)]
  BY DEF TakePartial, RunFrags
<1>11. Good(after, held \cup {a}) /\ a \notin held
  <2> DEFINE t == TakePartial(c, r.blk, a.start, a.len)
  <2>1. after = [cg EXCEPT ![a.cg] = t]
    BY <1>4
  <2>2. /\ t \in GroupRecord /\ GroupOk(t)
        /\ RunFrags(a) \subseteq cg[a.cg].free[a.blk]
        /\ t.free = [cg[a.cg].free EXCEPT ![a.blk] = cg[a.cg].free[a.blk] \ RunFrags(a)]
    BY <1>4, <1>7, <1>9, <1>10 DEF c
  <2> HIDE DEF after, t
  <2>3. QED BY <1>4, <2>1, <2>2, TakeGood
<1> HIDE DEF after
<1>12. /\ Good(after, ((held \cup {a}) \ {r, a}) \cup {e})
       /\ e \notin (held \cup {a}) \ {r, a}
  BY <1>4, <1>5, <1>6, <1>11, MergeGood DEF Here
<1>13. (held \cup {a}) \ {r, a} = held \ {r}
  BY <1>11
<1>14. QED BY <1>4, <1>5, <1>11, <1>12, <1>13 DEF a, c, e, after

-----------------------------------------------------------------------------
(***************************************************************************)
(* The invariant.                                                          *)
(***************************************************************************)

\* A run goes stale only when a write fails, and it was a held one.
StaleGood ==
    /\ IsFiniteSet(stale) /\ Cardinality(stale) <= errors
    /\ \A t \in stale : RunFrags(t) \cap Meta[t.cg][t.blk] = {}

\* The inductive invariant of the allocator.
FragInv ==
    /\ TypeOK
    /\ runs \cap lost = {}
    /\ Good(cg, runs \cup lost)
    /\ StaleGood

\* It says what the checked invariants say together.
LEMMA FragInvMeans ==
    FragInv => GroupsConsistent /\ NoDoubleAllocation /\ NothingUnaccounted
<1> SUFFICES ASSUME FragInv PROVE GroupsConsistent /\ NoDoubleAllocation /\ NothingUnaccounted
  OBVIOUS
<1>1. GroupsConsistent
  BY DEF FragInv, Good, GroupsGood, GroupsConsistent
<1>2. NoDoubleAllocation
  BY DEF FragInv, Good, HeldApart, Here, StaleGood, NoDoubleAllocation
<1>3. NothingUnaccounted
  <2> SUFFICES ASSUME NEW g \in Groups, NEW b \in Blocks, NEW x
               PROVE  x \in Run(0, BlockLen(g, b)) <=>
                        x \in cg[g].free[b] \cup Meta[g][b]
                          \cup UNION {RunFrags(r) : r \in {q \in runs \cup lost : q.cg = g /\ q.blk = b}}
    BY DEF NothingUnaccounted
  <2>1. x \in Run(0, BlockLen(g, b)) <=>
          \/ x \in cg[g].free[b]
          \/ x \in Meta[g][b]
          \/ \E r \in runs \cup lost : Here(r, g, b) /\ x \in RunFrags(r)
    BY DEF FragInv, Good, Covered
  <2>2. QED BY <2>1 DEF Here
<1>4. QED BY <1>1, <1>2, <1>3

LEMMA FreshGroupOk ==
    ASSUME NEW free \in FreeMaps
    PROVE  FreshGroup(free) \in GroupRecord /\ GroupOk(FreshGroup(free))
<1>1. GroupOk(FreshGroup(free))
  BY DEF GroupOk, FreshGroup
<1>2. FreshGroup(free) \in GroupRecord
  <2> DEFINE fr == [k \in RunLens |-> Cardinality(RunStarts(free, k))]
             bt == [y \in Cyls |-> Cardinality({b \in WholeBlocks(free) : CylOf[b] = y})]
             nb == Cardinality(WholeBlocks(free))
             nf == Cardinality(PartialFrags(free))
  <2>1. FreshGroup(free)
          = [free |-> free, nbfree |-> nb, nffree |-> nf, frsum |-> fr, btot |-> bt]
    BY DEF FreshGroup
  <2>2. fr = [k \in RunLens |-> fr[k]] /\ bt = [y \in Cyls |-> bt[y]]
    OBVIOUS
  <2> HIDE DEF fr, bt, nb, nf
  <2>3. QED BY <1>1, <2>1, <2>2, GroupOkTyped
<1>3. QED BY <1>1, <1>2

LEMMA FreshMapType ==
    ASSUME NEW g \in Groups
    PROVE  FreshMap(g) \in FreeMaps
<1>1. \A b \in Blocks : Run(0, BlockLen(g, b)) \subseteq Offsets
  BY BlockLenType, GeometryFinite DEF Run, Offsets
<1>2. QED BY <1>1 DEF FreshMap, FreeMaps

\* The image mkimg wrote satisfies it.
LEMMA InitInv == Init => FragInv
<1> SUFFICES ASSUME Init PROVE FragInv
  OBVIOUS
<1>1. \A g \in Groups : cg[g] \in GroupRecord /\ GroupOk(cg[g]) /\ cg[g].free = FreshMap(g)
  BY FreshMapType, FreshGroupOk DEF Init, FreshGroup
<1>2. cg \in [Groups -> GroupRecord]
  <2>1. cg = [g \in Groups |-> FreshGroup(FreshMap(g))]
    BY DEF Init
  <2>2. QED BY <1>1, <2>1
<1>3. csum \in [Groups -> Counts]
  <2>1. \A g \in Groups : cg[g].nbfree \in Nat /\ cg[g].nffree \in Nat
    BY <1>1 DEF GroupRecord
  <2>2. QED BY <2>1 DEF Init, Counts
<1>4. sb \in Counts
  <2>1. IsFiniteSet(Groups)
    BY GroupsAssumption, FS_Interval DEF Groups
  <2>2. IsFiniteSet(Groups \X Blocks) /\ IsFiniteSet(Groups \X (Blocks \X Offsets))
    BY <2>1, GeometryFinite, FS_Product
  <2>3. TotalWhole \in SUBSET (Groups \X Blocks)
        /\ TotalPartial \in SUBSET (Groups \X (Blocks \X Offsets))
    BY DEF TotalWhole, TotalPartial
  <2>4. Cardinality(TotalWhole) \in Nat /\ Cardinality(TotalPartial) \in Nat
    BY <2>2, <2>3, FS_Subset, FS_CardinalityType
  <2>5. QED BY <2>4 DEF Init, Counts
<1>5. TypeOK
  BY <1>2, <1>3, <1>4, GroupsAssumption DEF Init, TypeOK
<1>6. HeldApart(cg, {})
  BY <1>1 DEF HeldApart, FreshMap
<1>7. Covered(cg, {})
  <2> SUFFICES ASSUME NEW g \in Groups, NEW b \in Blocks
               PROVE  Run(0, BlockLen(g, b)) = cg[g].free[b] \cup Meta[g][b]
    BY DEF Covered
  <2>1. Meta[g][b] \subseteq Run(0, BlockLen(g, b))
    BY GroupsAssumption
  <2>2. cg[g].free[b] = Run(0, BlockLen(g, b)) \ Meta[g][b]
    BY <1>1 DEF FreshMap
  <2>3. QED BY <2>1, <2>2
<1>8. Good(cg, {})
  BY <1>1, <1>2, <1>6, <1>7 DEF Good, GroupsGood
<1>9. runs = {} /\ lost = {}
  BY DEF Init
<1>10. StaleGood
  BY FS_EmptySet DEF Init, StaleGood
<1>11. QED BY <1>5, <1>8, <1>9, <1>10 DEF FragInv

LEMMA DeltaTypes ==
    ASSUME NEW r \in RunRecord, NEW c
    PROVE  TakenDelta(r) \in Counts /\ ReturnedDelta(c, r) \in Counts
BY RunRecordTypes, GeometryFinite DEF TakenDelta, ReturnedDelta, Counts

LEMMA AddCountsType ==
    ASSUME NEW x \in Counts, NEW d \in Counts
    PROVE  AddCounts(x, d) \in Counts
BY DEF AddCounts, Counts

\* The summary writes keep their types.
LEMMA UpdateSummaryTypes ==
    ASSUME TypeOK, NEW g \in Groups, NEW d \in Counts, NEW io, UpdateSummary(g, d, io)
    PROVE  csum' \in [Groups -> Counts] /\ sb' \in Counts /\ errors' \in 0..MaxErrors
<1>1. AddCounts(sb, d) \in Counts /\ AddCounts(csum[g], d) \in Counts
  BY AddCountsType DEF TypeOK
<1>2. QED BY <1>1, GroupsAssumption DEF TypeOK, UpdateSummary

\* Summary writes that fail are counted.
LEMMA ErrorsCounted ==
    ASSUME TypeOK, NEW g, NEW d, NEW io, UpdateSummary(g, d, io)
    PROVE  errors' >= errors /\ (io # "ok" => errors' = errors + 1)
BY GroupsAssumption DEF TypeOK, UpdateSummary

\* A call that leaves the stale runs alone.
LEMMA StaleKept ==
    ASSUME FragInv, stale' = stale, errors' >= errors, errors' \in Nat
    PROVE  StaleGood'
BY FS_CardinalityType, GroupsAssumption DEF FragInv, TypeOK, StaleGood

\* A held run whose giving back fails behind the map goes stale.
LEMMA StaleAdded ==
    ASSUME FragInv, NEW r \in runs, stale' = stale \cup {r}, errors' = errors + 1
    PROVE  StaleGood' /\ stale' \subseteq RunRecord
<1>1. /\ IsFiniteSet(stale) /\ Cardinality(stale) \in Nat /\ Cardinality(stale) <= errors
      /\ errors \in Nat /\ r \in RunRecord /\ stale \subseteq RunRecord
  BY FS_CardinalityType, GroupsAssumption DEF FragInv, TypeOK, StaleGood
<1>2. /\ IsFiniteSet(stale')
      /\ Cardinality(stale') = IF r \in stale THEN Cardinality(stale) ELSE Cardinality(stale) + 1
  BY <1>1, FS_AddElement
<1>3. RunFrags(r) \cap Meta[r.cg][r.blk] = {}
  BY DEF FragInv, Good, HeldApart
<1>4. QED BY <1>1, <1>2, <1>3 DEF FragInv, StaleGood

\* Each action preserves the invariant.
LEMMA AllocateInv ==
    ASSUME FragInv, NEW pref \in Groups, NEW n \in 1..FragsPerBlock, NEW io \in IO,
           AllocateFrags(pref, n, io)
    PROVE  FragInv'
<1> DEFINE held == runs \cup lost
<1>1. PICK r \in RunRecord :
        /\ Found(pref, n, r)
        /\ cg' = [cg EXCEPT ![r.cg] = Taken(r)]
        /\ UpdateSummary(r.cg, TakenDelta(r), io)
        /\ IF io = "ok" THEN runs' = runs \cup {r} /\ UNCHANGED lost
                        ELSE lost' = lost \cup {r} /\ UNCHANGED runs
        /\ stale' = stale
  BY DEF AllocateFrags
<1>2. Good(cg, held) /\ runs \cap lost = {} /\ TypeOK
  BY DEF FragInv
<1>3. Good(cg', held \cup {r}) /\ r \notin held
  BY <1>1, <1>2, TakeStep
<1>4. runs' \cup lost' = held \cup {r} /\ runs' \cap lost' = {}
  BY <1>1, <1>2, <1>3
<1>5. csum' \in [Groups -> Counts] /\ sb' \in Counts /\ errors' \in 0..MaxErrors
  BY <1>1, <1>2, UpdateSummaryTypes, DeltaTypes, RunRecordTypes
<1>6. TypeOK'
  BY <1>1, <1>2, <1>3, <1>5 DEF TypeOK, Good, GroupsGood
<1>7. StaleGood'
  BY <1>1, <1>2, <1>5, ErrorsCounted, StaleKept, GroupsAssumption
<1>8. QED BY <1>3, <1>4, <1>6, <1>7 DEF FragInv

LEMMA ExtendInv ==
    ASSUME FragInv, NEW r \in runs, NEW new \in 1..FragsPerBlock, NEW io \in IO,
           ExtendFragmentRun(r, new, io)
    PROVE  FragInv'
<1> DEFINE held == runs \cup lost
           a == Added(r, new)
           e == Extended(r, new)
           d == [nbfree |-> 0, nffree |-> -a.len]
<1>1. /\ new > r.len /\ CanExtend(r, new)
      /\ cg' = [cg EXCEPT ![r.cg] = TakePartial(cg[r.cg], r.blk, a.start, a.len)]
      /\ UpdateSummary(r.cg, d, io)
      /\ IF io = "ok" THEN runs' = (runs \ {r}) \cup {e} /\ UNCHANGED lost
                      ELSE lost' = lost \cup {a} /\ UNCHANGED runs
      /\ stale' = stale
  BY DEF ExtendFragmentRun
<1>2. Good(cg, held) /\ runs \cap lost = {} /\ TypeOK
  BY DEF FragInv
<1>3. r \in held /\ r.cg \in Groups
  BY <1>2, RunRecordTypes DEF TypeOK
<1>4. /\ a \in RunRecord /\ e \in RunRecord /\ a \notin held /\ e \notin held \ {r}
      /\ Good(cg', held \cup {a}) /\ Good(cg', (held \ {r}) \cup {e})
  BY <1>1, <1>2, <1>3, ExtendStep
<1>5. csum' \in [Groups -> Counts] /\ sb' \in Counts /\ errors' \in 0..MaxErrors
  <2>1. d \in Counts
    BY <1>4, RunRecordTypes DEF Counts
  <2> HIDE DEF d
  <2>2. QED BY <1>1, <1>2, <1>3, <2>1, UpdateSummaryTypes
<1> HIDE DEF a, e, d
<1>6. StaleGood'
  BY <1>1, <1>2, <1>5, ErrorsCounted, StaleKept, GroupsAssumption
<1>7. CASE io = "ok"
  <2>1. /\ runs' \cup lost' = (held \ {r}) \cup {e}
        /\ runs' \cap lost' = {}
    BY <1>1, <1>2, <1>4, <1>7
  <2>2. TypeOK'
    BY <1>1, <1>2, <1>4, <1>5, <1>7 DEF TypeOK, Good, GroupsGood
  <2>3. QED BY <1>4, <1>6, <2>1, <2>2 DEF FragInv
<1>8. CASE io # "ok"
  <2>1. runs' \cup lost' = held \cup {a} /\ runs' \cap lost' = {}
    BY <1>1, <1>2, <1>4, <1>8
  <2>2. TypeOK'
    BY <1>1, <1>2, <1>4, <1>5, <1>8 DEF TypeOK, Good, GroupsGood
  <2>3. QED BY <1>4, <1>6, <2>1, <2>2 DEF FragInv
<1>9. QED BY <1>7, <1>8

LEMMA FreeInv ==
    ASSUME FragInv, NEW r \in runs, NEW io \in IO, FreeFragmentRun(r, io)
    PROVE  FragInv'
<1> DEFINE held == runs \cup lost
<1>1. /\ cg' = [cg EXCEPT ![r.cg] = Returned(cg[r.cg], r)]
      /\ UpdateSummary(r.cg, ReturnedDelta(cg[r.cg], r), io)
      /\ runs' = runs \ {r} /\ lost' = lost
      /\ stale' = stale \/ (io # "ok" /\ stale' = stale \cup {r})
  BY DEF FreeFragmentRun
<1>2. Good(cg, held) /\ runs \cap lost = {} /\ TypeOK
  BY DEF FragInv
<1>3. r \in held /\ r \in RunRecord /\ r.cg \in Groups
  BY <1>2, RunRecordTypes DEF TypeOK
<1>4. Good(cg', held \ {r})
  BY <1>1, <1>2, <1>3, ReturnStep
<1>5. runs' \cup lost' = held \ {r} /\ runs' \cap lost' = {}
  BY <1>1, <1>2
<1>6. csum' \in [Groups -> Counts] /\ sb' \in Counts /\ errors' \in 0..MaxErrors
  BY <1>1, <1>2, <1>3, UpdateSummaryTypes, DeltaTypes
<1>7. StaleGood' /\ stale' \subseteq RunRecord
  <2>1. errors' >= errors /\ (io # "ok" => errors' = errors + 1) /\ errors' \in Nat
    BY <1>1, <1>2, <1>6, ErrorsCounted, GroupsAssumption
  <2>2. CASE stale' = stale
    BY <1>2, <2>1, <2>2, StaleKept DEF TypeOK
  <2>3. CASE io # "ok" /\ stale' = stale \cup {r}
    BY <2>1, <2>3, StaleAdded
  <2>4. QED BY <1>1, <2>2, <2>3
<1>8. TypeOK'
  BY <1>1, <1>2, <1>4, <1>6, <1>7 DEF TypeOK, Good, GroupsGood
<1>9. QED BY <1>4, <1>5, <1>7, <1>8 DEF FragInv

LEMMA ReallocateInv ==
    ASSUME FragInv, NEW r \in runs, NEW new \in 1..FragsPerBlock, NEW pref \in Groups,
           NEW io \in IO \cup {"data"}, ReallocateFragmentRun(r, new, pref, io)
    PROVE  FragInv'
<1> DEFINE held == runs \cup lost
           taken(s) == [cg EXCEPT ![s.cg] = Taken(s)]
           back(s) == ReturnedDelta(taken(s)[r.cg], r)
           sb1(s) == AddCounts(sb, TakenDelta(s))
           csum1(s) == [csum EXCEPT ![s.cg] = AddCounts(csum[s.cg], TakenDelta(s))]
<1>1. PICK s \in RunRecord :
        /\ Found(pref, new, s)
        /\ cg' = IF io = "data" THEN taken(s)
                 ELSE [taken(s) EXCEPT ![r.cg] = Returned(taken(s)[r.cg], r)]
        /\ sb' = IF io \in {"data", "sb"} THEN sb1(s) ELSE AddCounts(sb1(s), back(s))
        /\ csum' = IF io # "ok" THEN csum1(s)
                   ELSE [csum1(s) EXCEPT ![r.cg] = AddCounts(csum1(s)[r.cg], back(s))]
        /\ runs' = CASE io = "ok"   -> (runs \ {r}) \cup {s}
                     [] io = "data" -> runs
                     [] OTHER       -> runs \ {r}
        /\ IF io = "ok" THEN UNCHANGED lost ELSE lost' = lost \cup {s}
        /\ stale' = IF io \in {"sb", "csum"} THEN stale \cup {r} ELSE stale
  BY DEF ReallocateFragmentRun
<1>2. /\ errors' \in 0..MaxErrors
      /\ errors' = IF io = "ok" THEN errors ELSE errors + 1
      /\ errors \in Nat /\ errors' >= errors /\ errors' \in Nat
  BY GroupsAssumption DEF ReallocateFragmentRun, FragInv, TypeOK
<1>3. Good(cg, held) /\ runs \cap lost = {} /\ TypeOK
  BY DEF FragInv
<1>4. r \in held /\ r \in RunRecord /\ r.cg \in Groups /\ s.cg \in Groups
  BY <1>3, RunRecordTypes DEF TypeOK
<1>5. Good(taken(s), held \cup {s}) /\ s \notin held
  BY <1>1, <1>3, TakeStep
<1>6. Good([taken(s) EXCEPT ![r.cg] = Returned(taken(s)[r.cg], r)], (held \cup {s}) \ {r})
  <2> HIDE DEF taken
  <2>1. QED BY <1>4, <1>5, ReturnStep
<1>7. csum' \in [Groups -> Counts] /\ sb' \in Counts
  <2>1. TakenDelta(s) \in Counts /\ back(s) \in Counts
    BY <1>4, DeltaTypes
  <2>2. sb1(s) \in Counts /\ csum1(s) \in [Groups -> Counts]
    BY <1>3, <1>4, <2>1, AddCountsType DEF TypeOK
  <2> HIDE DEF back, sb1, csum1
  <2>3. AddCounts(sb1(s), back(s)) \in Counts /\ AddCounts(csum1(s)[r.cg], back(s)) \in Counts
    BY <1>4, <2>1, <2>2, AddCountsType
  <2>4. QED BY <1>1, <2>2, <2>3
<1>8. StaleGood' /\ stale' \subseteq RunRecord
  <2>1. CASE stale' = stale
    BY <1>2, <1>3, <2>1, StaleKept DEF TypeOK
  <2>2. CASE io # "ok" /\ stale' = stale \cup {r}
    BY <1>2, <2>2, StaleAdded
  <2>3. QED BY <1>1, <2>1, <2>2
<1> HIDE DEF taken, back, sb1, csum1
<1>9. CASE io = "data"
  <2>1. cg' = taken(s) /\ runs' = runs /\ lost' = lost \cup {s}
    BY <1>1, <1>9
  <2>2. runs' \cup lost' = held \cup {s} /\ runs' \cap lost' = {}
    BY <1>3, <1>5, <2>1
  <2>3. TypeOK'
    BY <1>2, <1>3, <1>5, <1>7, <1>8, <2>1 DEF TypeOK, Good, GroupsGood
  <2>4. QED BY <1>5, <1>8, <2>1, <2>2, <2>3 DEF FragInv
<1>10. CASE io # "data"
  <2>1. Good(cg', (held \cup {s}) \ {r})
    BY <1>1, <1>6, <1>10
  <2>2. /\ runs' \subseteq RunRecord /\ lost' \subseteq RunRecord
        /\ runs' \cup lost' = (held \cup {s}) \ {r} /\ runs' \cap lost' = {}
    BY <1>1, <1>3, <1>5, <1>10 DEF TypeOK
  <2>3. TypeOK'
    BY <1>2, <1>7, <1>8, <2>1, <2>2 DEF TypeOK, Good, GroupsGood
  <2>4. QED BY <1>8, <2>1, <2>2, <2>3 DEF FragInv
<1>11. QED BY <1>9, <1>10

\* Every step preserves it.
LEMMA NextInv == FragInv /\ [Next]_vars => FragInv'
<1> SUFFICES ASSUME FragInv, [Next]_vars PROVE FragInv'
  OBVIOUS
<1>1. ASSUME NEW pref \in Groups, NEW n \in 1..FragsPerBlock, NEW io \in IO,
             AllocateFrags(pref, n, io)
      PROVE  FragInv'
  BY <1>1, AllocateInv
<1>2. ASSUME NEW r \in runs, NEW new \in 1..FragsPerBlock, NEW io \in IO,
             ExtendFragmentRun(r, new, io)
      PROVE  FragInv'
  BY <1>2, ExtendInv
<1>3. ASSUME NEW r \in runs, NEW io \in IO, FreeFragmentRun(r, io)
      PROVE  FragInv'
  BY <1>3, FreeInv
<1>4. ASSUME NEW r \in runs, NEW new \in 1..FragsPerBlock, NEW pref \in Groups,
             NEW io \in IO \cup {"data"}, ReallocateFragmentRun(r, new, pref, io)
      PROVE  FragInv'
  BY <1>4, ReallocateInv
<1>5. CASE UNCHANGED vars
  BY <1>5 DEF vars, FragInv, TypeOK, Good, GroupsGood, HeldApart, Covered, StaleGood
<1>6. QED BY <1>1, <1>2, <1>3, <1>4, <1>5 DEF Next

-----------------------------------------------------------------------------
(***************************************************************************)
(* The theorems.                                                           *)
(***************************************************************************)

THEOREM SpecInv == Spec => []FragInv
BY InitInv, NextInv, PTL DEF Spec

\* No counter of a group block ever wraps below zero, and no handler records a
\* run outside the group's blocks (alloc.c updates unsigned words by deltas).
THEOREM Typed == Spec => []TypeOK
<1>1. FragInv => TypeOK
  BY DEF FragInv
<1>2. QED BY <1>1, SpecInv, PTL

\* The counters of every group agree with its free map after any sequence of
\* allocate, extend, free and reallocate calls, failing writes included.
THEOREM CountersAgree == Spec => []GroupsConsistent
BY FragInvMeans, SpecInv, PTL

\* No fragment is handed to two callers, or to a caller while it is free or
\* metadata.  The runs excepted are the stale ones: at most one for each failed
\* write, given back by the call that failed and still named by its inode
\* (dir_mutate.c:91, mutate.c:186).
THEOREM OneHolder == Spec => []NoDoubleAllocation
BY FragInvMeans, SpecInv, PTL

\* No fragment disappears: it is free, metadata, held, or lost to a named
\* failing call.
THEOREM Accounted == Spec => []NothingUnaccounted
BY FragInvMeans, SpecInv, PTL

-----------------------------------------------------------------------------
(***************************************************************************)
(* ENOSPC is truthful.                                                     *)
(***************************************************************************)

\* Free fragments of a broken block are counted by cs_nffree.
LEMMA LooseCounted ==
    ASSUME NEW c \in GroupRecord, GroupOk(c), NEW b \in Blocks, NEW o \in Offsets,
           NEW n \in Nat \ {0}, Run(o, n) \subseteq c.free[b], c.free[b] # Offsets
    PROVE  c.nffree >= n
<1>1. {b} \X Run(o, n) \in SUBSET PartialFrags(c.free)
  <2>1. c.free[b] \subseteq Offsets
    BY DEF GroupRecord
  <2>2. QED BY <2>1 DEF PartialFrags
<1>2. IsFiniteSet(PartialFrags(c.free))
  <2>1. PartialFrags(c.free) \in SUBSET (Blocks \X Offsets)
    BY DEF PartialFrags
  <2>2. QED BY <2>1, GeometryFinite, FS_Product, FS_Subset
<1>3. Cardinality({b} \X Run(o, n)) = n
  <2>1. IsFiniteSet(Run(o, n)) /\ Cardinality(Run(o, n)) = n
    BY RunSize, GeometryFinite DEF Offsets
  <2>2. Cardinality({b} \X Run(o, n)) = Cardinality(Run(o, n))
    BY <2>1, ColumnSize
  <2>3. QED BY <2>1, <2>2
<1>4. Cardinality({b} \X Run(o, n)) <= Cardinality(PartialFrags(c.free))
  BY <1>1, <1>2, FS_Subset
<1>5. QED BY <1>3, <1>4 DEF GroupOk

\* A whole block is counted by cs_nbfree.
LEMMA WholeCounted ==
    ASSUME NEW c \in GroupRecord, GroupOk(c), NEW b \in Blocks, c.free[b] = Offsets
    PROVE  c.nbfree # 0
<1>1. b \in WholeBlocks(c.free)
  BY DEF WholeBlocks
<1>2. Cardinality(WholeBlocks(c.free)) # 0
  BY <1>1, WholeFinite, FS_EmptySet
<1>3. QED BY <1>2 DEF GroupOk

\* A wholly free block lies wholly inside its group.
LEMMA WholeInside ==
    ASSUME FragInv, NEW g \in Groups, NEW b \in Blocks, cg[g].free[b] = Offsets
    PROVE  BlockLen(g, b) = FragsPerBlock
<1>1. FragsPerBlock - 1 \in Run(0, BlockLen(g, b))
  BY GeometryFinite DEF FragInv, Good, Covered, Offsets
<1>2. QED BY <1>1, BlockLenType, GeometryFinite DEF Run

\* A free run in a broken block is found by the first loop.
LEMMA SpotIfFree ==
    ASSUME FragInv, NEW n \in 1..FragsPerBlock, NEW g \in Groups, NEW b \in Blocks,
           NEW o \in Offsets, Run(o, n) \subseteq cg[g].free[b], cg[g].free[b] # Offsets
    PROVE  PartialSpot(g, n, b, o)
<1>1. cg[g] \in GroupRecord /\ GroupOk(cg[g])
  BY DEF FragInv, Good, GroupsGood
<1>2. cg[g].nffree >= n
  BY <1>1, LooseCounted
<1>3. o + n <= BlockLen(g, b) /\ o \in Nat
  <2>1. o + n - 1 \in Run(o, n) /\ o \in Nat
    BY GeometryFinite DEF Run, Offsets
  <2>2. o + n - 1 \in Run(0, BlockLen(g, b))
    BY <2>1 DEF FragInv, Good, Covered
  <2>3. QED BY <2>1, <2>2, BlockLenType, GeometryFinite DEF Run
<1>4. n < FragsPerBlock
  <2>1. SUFFICES ASSUME n = FragsPerBlock PROVE FALSE
    BY GeometryFinite
  <2>2. BlockLen(g, b) \in 0..FragsPerBlock
    BY BlockLenType
  <2>3. o = 0
    BY <1>3, <2>1, <2>2, GeometryFinite
  <2>4. Run(o, n) = Offsets
    BY <2>1, <2>3, GeometryFinite DEF Run, Offsets
  <2>5. cg[g].free[b] \subseteq Offsets
    BY <1>1 DEF GroupRecord
  <2>6. QED BY <2>4, <2>5
<1>5. QED BY <1>2, <1>3, <1>4 DEF PartialSpot

LEMMA InvENOSPC == FragInv => NoFalseENOSPC
<1> SUFFICES ASSUME FragInv, NEW n \in 1..FragsPerBlock
             PROVE  (\E g \in Groups : HasRoom(g, n)) <=>
                    \E g \in Groups, b \in Blocks, o \in Offsets : Run(o, n) \subseteq cg[g].free[b]
  BY DEF NoFalseENOSPC
<1>1. \A g \in Groups : cg[g] \in GroupRecord /\ GroupOk(cg[g])
  BY DEF FragInv, Good, GroupsGood
<1>2. ASSUME NEW g \in Groups, HasRoom(g, n)
      PROVE  \E b \in Blocks, o \in Offsets : Run(o, n) \subseteq cg[g].free[b]
  <2>1. CASE HasPartial(g, n)
    BY <2>1 DEF HasPartial, PartialSpot
  <2>2. CASE HasWhole(g)
    <3>1. PICK b \in Blocks : cg[g].free[b] = Offsets
      BY <2>2 DEF HasWhole, WholeSpot
    <3>2. 0 \in Offsets /\ Run(0, n) \subseteq Offsets
      BY GeometryFinite DEF Offsets, Run
    <3>3. QED BY <3>1, <3>2
  <2>3. QED BY <1>2, <2>1, <2>2 DEF HasRoom
<1>3. ASSUME NEW g \in Groups, NEW b \in Blocks, NEW o \in Offsets,
             Run(o, n) \subseteq cg[g].free[b]
      PROVE  HasRoom(g, n)
  <2>1. CASE cg[g].free[b] = Offsets
    <3>1. WholeSpot(g, b)
      BY <1>1, <2>1, WholeCounted, WholeInside DEF WholeSpot
    <3>2. QED BY <3>1 DEF HasRoom, HasWhole
  <2>2. CASE cg[g].free[b] # Offsets
    BY <1>3, <2>2, SpotIfFree DEF HasRoom, HasPartial
  <2>3. QED BY <2>1, <2>2
<1>4. QED BY <1>2, <1>3

\* A request is refused only when no group has a long enough free run in a
\* block, also when cs_nbfree is zero (alloc.c:250-294).
THEOREM TruthfulENOSPC == Spec => []NoFalseENOSPC
BY InvENOSPC, SpecInv, PTL

-----------------------------------------------------------------------------
(***************************************************************************)
(* The summaries follow the groups while every write succeeds.             *)
(***************************************************************************)

WholeOf(cgf) == {p \in Groups \X Blocks : p[2] \in WholeBlocks(cgf[p[1]].free)}
PartialOf(cgf) ==
    {p \in Groups \X (Blocks \X Offsets) : p[2] \in PartialFrags(cgf[p[1]].free)}

\* The summary table cs and the totals s are those of the groups cgf.
SumGood(cgf, cs, s) ==
    /\ \A g \in Groups : cs[g].nbfree = cgf[g].nbfree /\ cs[g].nffree = cgf[g].nffree
    /\ s.nbfree = Cardinality(WholeOf(cgf))
    /\ s.nffree = Cardinality(PartialOf(cgf))

\* The totals change by what one group's counters change by.
LEMMA TotalsChange ==
    ASSUME NEW cgf, GroupsGood(cgf), NEW g \in Groups, NEW c \in GroupRecord, GroupOk(c)
    PROVE  LET new == [cgf EXCEPT ![g] = c]
           IN  /\ Cardinality(WholeOf(new)) =
                    Cardinality(WholeOf(cgf)) + c.nbfree - cgf[g].nbfree
               /\ Cardinality(PartialOf(new)) =
                    Cardinality(PartialOf(cgf)) + c.nffree - cgf[g].nffree
<1> DEFINE new == [cgf EXCEPT ![g] = c]
           BO == Blocks \X Offsets
<1>1. IsFiniteSet(Groups) /\ IsFiniteSet(Blocks) /\ IsFiniteSet(BO)
  <2>1. IsFiniteSet(Groups)
    BY GroupsAssumption, FS_Interval DEF Groups
  <2>2. QED BY <2>1, GeometryFinite, FS_Product
<1>2. /\ cgf \in [Groups -> GroupRecord] /\ GroupOk(cgf[g]) /\ cgf[g] \in GroupRecord
      /\ new[g] = c /\ \A h \in Groups : h # g => new[h] = cgf[h]
  BY DEF GroupsGood
<1>3. \A f : WholeBlocks(f) \subseteq Blocks /\ PartialFrags(f) \subseteq BO
  BY DEF WholeBlocks, PartialFrags
<1> HIDE DEF new, BO
<1>4. /\ WholeOf(cgf) \in SUBSET (Groups \X Blocks)
      /\ WholeOf(new) \in SUBSET (Groups \X Blocks)
      /\ PartialOf(cgf) \in SUBSET (Groups \X BO)
      /\ PartialOf(new) \in SUBSET (Groups \X BO)
  BY DEF WholeOf, PartialOf, BO
<1>5. \A p \in Groups \X Blocks : p[1] # g => (p \in WholeOf(cgf) <=> p \in WholeOf(new))
  BY <1>2 DEF WholeOf
<1>6. \A p \in Groups \X BO : p[1] # g => (p \in PartialOf(cgf) <=> p \in PartialOf(new))
  BY <1>2 DEF PartialOf, BO
<1>7. /\ Column(WholeOf(cgf), Blocks, g) = WholeBlocks(cgf[g].free)
      /\ Column(WholeOf(new), Blocks, g) = WholeBlocks(c.free)
  BY <1>2, <1>3 DEF Column, WholeOf
<1>8. /\ Column(PartialOf(cgf), BO, g) = PartialFrags(cgf[g].free)
      /\ Column(PartialOf(new), BO, g) = PartialFrags(c.free)
  BY <1>2, <1>3 DEF Column, PartialOf, BO
<1>9. Cardinality(WholeOf(new)) = Cardinality(WholeOf(cgf)) + c.nbfree - cgf[g].nbfree
  BY <1>1, <1>2, <1>4, <1>5, <1>7, ColumnChange DEF GroupOk
<1>10. Cardinality(PartialOf(new)) = Cardinality(PartialOf(cgf)) + c.nffree - cgf[g].nffree
  BY <1>1, <1>2, <1>4, <1>6, <1>8, ColumnChange DEF GroupOk
<1>11. QED BY <1>9, <1>10 DEF new

\* One group and the summaries move by the same delta.
LEMMA SumStep ==
    ASSUME NEW cgf, GroupsGood(cgf), NEW cs \in [Groups -> Counts], NEW s \in Counts,
           SumGood(cgf, cs, s),
           NEW g \in Groups, NEW c \in GroupRecord, GroupOk(c), NEW d \in Counts,
           c.nbfree = cgf[g].nbfree + d.nbfree, c.nffree = cgf[g].nffree + d.nffree
    PROVE  SumGood([cgf EXCEPT ![g] = c], [cs EXCEPT ![g] = AddCounts(cs[g], d)],
                   AddCounts(s, d))
<1> DEFINE new == [cgf EXCEPT ![g] = c]
           cs2 == [cs EXCEPT ![g] = AddCounts(cs[g], d)]
<1>1. /\ cgf \in [Groups -> GroupRecord] /\ cgf[g] \in GroupRecord
      /\ cgf[g].nbfree \in Nat /\ cgf[g].nffree \in Nat
      /\ d.nbfree \in Int /\ d.nffree \in Int
      /\ s.nbfree \in Int /\ s.nffree \in Int
  BY DEF GroupsGood, GroupRecord, Counts
<1>2. /\ Cardinality(WholeOf(new)) = Cardinality(WholeOf(cgf)) + c.nbfree - cgf[g].nbfree
      /\ Cardinality(PartialOf(new)) = Cardinality(PartialOf(cgf)) + c.nffree - cgf[g].nffree
  BY TotalsChange
<1>3. /\ AddCounts(s, d).nbfree = Cardinality(WholeOf(new))
      /\ AddCounts(s, d).nffree = Cardinality(PartialOf(new))
  <2>1. s.nbfree = Cardinality(WholeOf(cgf)) /\ s.nffree = Cardinality(PartialOf(cgf))
    BY DEF SumGood
  <2> HIDE DEF new
  <2>2. QED BY <1>1, <1>2, <2>1 DEF AddCounts
<1>4. ASSUME NEW h \in Groups
      PROVE  cs2[h].nbfree = new[h].nbfree /\ cs2[h].nffree = new[h].nffree
  BY <1>1 DEF SumGood, AddCounts
<1>5. QED BY <1>3, <1>4 DEF SumGood

\* The deltas the handlers report are those of the group block.
LEMMA TakenDeltaOk ==
    ASSUME NEW s \in RunRecord, cg[s.cg] \in GroupRecord
    PROVE  /\ Taken(s).nbfree = cg[s.cg].nbfree + TakenDelta(s).nbfree
           /\ Taken(s).nffree = cg[s.cg].nffree + TakenDelta(s).nffree
<1>1. /\ cg[s.cg].nbfree \in Nat /\ cg[s.cg].nffree \in Nat /\ s.len \in Nat
      /\ FragsPerBlock \in Nat
  BY RunRecordTypes, GeometryFinite DEF GroupRecord
<1>2. QED BY <1>1 DEF Taken, TakenDelta, Splits, TakeWhole, TakePartial

LEMMA ReturnedDeltaOk ==
    ASSUME NEW r \in RunRecord, NEW c \in GroupRecord
    PROVE  /\ Returned(c, r).nbfree = c.nbfree + ReturnedDelta(c, r).nbfree
           /\ Returned(c, r).nffree = c.nffree + ReturnedDelta(c, r).nffree
<1>1. /\ c.nbfree \in Nat /\ c.nffree \in Nat /\ r.len \in Nat /\ FragsPerBlock \in Nat
  BY RunRecordTypes, GeometryFinite DEF GroupRecord
<1>2. QED BY <1>1 DEF Returned, ReturnedDelta, GiveBack, RunFrags

\* While no write has failed the summaries are right and nothing is lost.
SumInv == FragInv /\ (errors = 0 => SumGood(cg, csum, sb) /\ lost = {})

LEMMA SumInit == Init => SumInv
<1> SUFFICES ASSUME Init PROVE SumGood(cg, csum, sb) /\ lost = {}
  BY InitInv DEF SumInv
<1>1. \A g \in Groups : csum[g].nbfree = cg[g].nbfree /\ csum[g].nffree = cg[g].nffree
  BY DEF Init
<1>2. sb.nbfree = Cardinality(WholeOf(cg)) /\ sb.nffree = Cardinality(PartialOf(cg))
  BY DEF Init, TotalWhole, TotalPartial, WholeOf, PartialOf
<1>3. lost = {}
  BY DEF Init
<1>4. QED BY <1>1, <1>2, <1>3 DEF SumGood

\* A handler with one update reports the delta it made.
LEMMA SumUpdate ==
    ASSUME FragInv, SumGood(cg, csum, sb), NEW g \in Groups, NEW c \in GroupRecord, GroupOk(c),
           cg' = [cg EXCEPT ![g] = c], NEW d \in Counts, UpdateSummary(g, d, "ok"),
           c.nbfree = cg[g].nbfree + d.nbfree, c.nffree = cg[g].nffree + d.nffree
    PROVE  SumGood(cg', csum', sb')
<1>1. GroupsGood(cg) /\ csum \in [Groups -> Counts] /\ sb \in Counts
  BY DEF FragInv, Good, TypeOK
<1>2. sb' = AddCounts(sb, d) /\ csum' = [csum EXCEPT ![g] = AddCounts(csum[g], d)]
  BY DEF UpdateSummary
<1>3. SumGood([cg EXCEPT ![g] = c], [csum EXCEPT ![g] = AddCounts(csum[g], d)], AddCounts(sb, d))
  BY <1>1, SumStep
<1>4. QED BY <1>2, <1>3

\* A failing write is counted, so nothing failed before or in this step.
LEMMA NoError ==
    ASSUME TypeOK, NEW g, NEW d, NEW io, UpdateSummary(g, d, io), errors' = 0
    PROVE  errors = 0 /\ io = "ok"
BY GroupsAssumption DEF TypeOK, UpdateSummary

LEMMA SumNext == SumInv /\ [Next]_vars => SumInv'
<1> SUFFICES ASSUME SumInv, [Next]_vars, errors' = 0
             PROVE  SumGood(cg, csum, sb)' /\ lost' = {}
  BY NextInv DEF SumInv
<1> DEFINE held == runs \cup lost
<1>1. /\ FragInv /\ TypeOK /\ GroupsGood(cg) /\ runs \subseteq RunRecord
      /\ Good(cg, held) /\ \A g \in Groups : cg[g] \in GroupRecord
      /\ csum \in [Groups -> Counts] /\ sb \in Counts /\ errors \in Nat
      /\ FragInv'
  BY NextInv, GroupsAssumption DEF SumInv, FragInv, TypeOK, Good, GroupsGood
<1>2. errors = 0 => SumGood(cg, csum, sb) /\ lost = {}
  BY DEF SumInv
<1>3. ASSUME NEW pref \in Groups, NEW n \in 1..FragsPerBlock, NEW io \in IO,
             AllocateFrags(pref, n, io)
      PROVE  SumGood(cg, csum, sb)' /\ lost' = {}
  <2>1. PICK r \in RunRecord :
          /\ Found(pref, n, r)
          /\ cg' = [cg EXCEPT ![r.cg] = Taken(r)]
          /\ UpdateSummary(r.cg, TakenDelta(r), io)
          /\ io = "ok" => UNCHANGED lost
    BY <1>3 DEF AllocateFrags
  <2>2. errors = 0 /\ io = "ok"
    BY <1>1, <2>1, NoError
  <2>3. r.cg \in Groups /\ Taken(r) \in GroupRecord /\ GroupOk(Taken(r)) /\ TakenDelta(r) \in Counts
    BY <1>1, <2>1, FoundOk, RunRecordTypes, DeltaTypes
  <2>4. SumGood(cg', csum', sb')
    BY <1>1, <1>2, <2>1, <2>2, <2>3, TakenDeltaOk, SumUpdate
  <2>5. QED BY <1>2, <2>1, <2>2, <2>4
<1>4. ASSUME NEW r \in runs, NEW new \in 1..FragsPerBlock, NEW io \in IO,
             ExtendFragmentRun(r, new, io)
      PROVE  SumGood(cg, csum, sb)' /\ lost' = {}
  <2> DEFINE a == Added(r, new)
             d == [nbfree |-> 0, nffree |-> -a.len]
             c == TakePartial(cg[r.cg], r.blk, a.start, a.len)
  <2>1. /\ new > r.len /\ CanExtend(r, new)
        /\ cg' = [cg EXCEPT ![r.cg] = c]
        /\ UpdateSummary(r.cg, d, io)
        /\ io = "ok" => UNCHANGED lost
    BY <1>4 DEF ExtendFragmentRun
  <2>2. errors = 0 /\ io = "ok"
    BY <1>1, <2>1, NoError
  <2>3. r \in held /\ r.cg \in Groups
    BY <1>1, RunRecordTypes
  <2>4. c = cg'[r.cg] /\ c \in GroupRecord /\ GroupOk(c)
    <3>1. GroupsGood(cg')
      BY <1>1 DEF FragInv, Good
    <3>2. c = cg'[r.cg]
      BY <1>1, <2>1, <2>3 DEF GroupsGood
    <3> HIDE DEF c
    <3>3. QED BY <2>3, <3>1, <3>2 DEF GroupsGood
  <2>5. d \in Counts /\ a.len \in Nat
    <3>1. a \in RunRecord
      BY <1>1, <2>1, <2>3, ExtendStep
    <3>2. a.len \in Nat
      BY <3>1, RunRecordTypes
    <3> HIDE DEF a
    <3>3. QED BY <3>2 DEF Counts
  <2>6. c.nbfree = cg[r.cg].nbfree + d.nbfree /\ c.nffree = cg[r.cg].nffree + d.nffree
    <3>1. cg[r.cg].nbfree \in Nat /\ cg[r.cg].nffree \in Nat
      BY <1>1, <2>3 DEF GroupRecord
    <3> HIDE DEF a
    <3>2. QED BY <2>5, <3>1 DEF TakePartial
  <2> HIDE DEF c, d
  <2>7. SumGood(cg', csum', sb')
    BY <1>1, <1>2, <2>1, <2>2, <2>3, <2>4, <2>5, <2>6, SumUpdate
  <2>8. QED BY <1>2, <2>1, <2>2, <2>7
<1>5. ASSUME NEW r \in runs, NEW io \in IO, FreeFragmentRun(r, io)
      PROVE  SumGood(cg, csum, sb)' /\ lost' = {}
  <2> DEFINE c == Returned(cg[r.cg], r)
             d == ReturnedDelta(cg[r.cg], r)
  <2>1. /\ cg' = [cg EXCEPT ![r.cg] = c]
        /\ UpdateSummary(r.cg, d, io)
        /\ UNCHANGED lost
    BY <1>5 DEF FreeFragmentRun
  <2>2. errors = 0 /\ io = "ok"
    BY <1>1, <2>1, NoError
  <2>3. r \in RunRecord /\ r.cg \in Groups /\ d \in Counts
    BY <1>1, RunRecordTypes, DeltaTypes
  <2>4. c = cg'[r.cg] /\ c \in GroupRecord /\ GroupOk(c)
    <3>1. GroupsGood(cg')
      BY <1>1 DEF FragInv, Good
    <3>2. c = cg'[r.cg]
      BY <1>1, <2>1, <2>3 DEF GroupsGood
    <3> HIDE DEF c
    <3>3. QED BY <2>3, <3>1, <3>2 DEF GroupsGood
  <2>5. c.nbfree = cg[r.cg].nbfree + d.nbfree /\ c.nffree = cg[r.cg].nffree + d.nffree
    BY <1>1, <2>3, ReturnedDeltaOk
  <2> HIDE DEF c, d
  <2>6. SumGood(cg', csum', sb')
    BY <1>1, <1>2, <2>1, <2>2, <2>3, <2>4, <2>5, SumUpdate
  <2>7. QED BY <1>2, <2>1, <2>2, <2>6
<1>6. ASSUME NEW r \in runs, NEW new \in 1..FragsPerBlock, NEW pref \in Groups,
             NEW io \in IO \cup {"data"}, ReallocateFragmentRun(r, new, pref, io)
      PROVE  SumGood(cg, csum, sb)' /\ lost' = {}
  <2>1. errors = 0 /\ io = "ok"
    BY <1>1, <1>6 DEF ReallocateFragmentRun
  <2> DEFINE taken(s) == [cg EXCEPT ![s.cg] = Taken(s)]
             d(s) == TakenDelta(s)
             back(s) == ReturnedDelta(taken(s)[r.cg], r)
             sb1(s) == AddCounts(sb, d(s))
             csum1(s) == [csum EXCEPT ![s.cg] = AddCounts(csum[s.cg], d(s))]
             ret(s) == Returned(taken(s)[r.cg], r)
  <2>2. PICK s \in RunRecord :
          /\ Found(pref, new, s)
          /\ cg' = [taken(s) EXCEPT ![r.cg] = ret(s)]
          /\ sb' = AddCounts(sb1(s), back(s))
          /\ csum' = [csum1(s) EXCEPT ![r.cg] = AddCounts(csum1(s)[r.cg], back(s))]
          /\ UNCHANGED lost
    BY <1>6, <2>1 DEF ReallocateFragmentRun
  <2>3. /\ r \in RunRecord /\ r.cg \in Groups /\ s.cg \in Groups /\ r \in held
        /\ Taken(s) \in GroupRecord /\ GroupOk(Taken(s))
        /\ d(s) \in Counts /\ back(s) \in Counts
    BY <1>1, <2>2, FoundOk, RunRecordTypes, DeltaTypes
  <2>4. GroupsGood(taken(s)) /\ taken(s)[r.cg] \in GroupRecord
    <3>1. Good(taken(s), held \cup {s})
      BY <1>1, <2>2, TakeStep
    <3>2. GroupsGood(taken(s))
      BY <3>1 DEF Good
    <3> HIDE DEF taken
    <3>3. QED BY <2>3, <3>2 DEF GroupsGood
  <2>5. SumGood(taken(s), csum1(s), sb1(s))
    BY <1>1, <1>2, <2>1, <2>3, TakenDeltaOk, SumStep
  <2>6. csum1(s) \in [Groups -> Counts] /\ sb1(s) \in Counts
    BY <1>1, <2>3, AddCountsType
  <2>7. /\ ret(s).nbfree = taken(s)[r.cg].nbfree + back(s).nbfree
        /\ ret(s).nffree = taken(s)[r.cg].nffree + back(s).nffree
    <3> HIDE DEF taken
    <3>1. QED BY <2>3, <2>4, ReturnedDeltaOk
  <2>8. ret(s) = cg'[r.cg] /\ ret(s) \in GroupRecord /\ GroupOk(ret(s))
    <3>1. GroupsGood(cg')
      BY <1>1 DEF FragInv, Good
    <3> HIDE DEF taken, ret
    <3>2. ret(s) = cg'[r.cg]
      BY <2>2, <2>3, <2>4 DEF GroupsGood
    <3>3. QED BY <2>3, <3>1, <3>2 DEF GroupsGood
  <2> HIDE DEF taken, back, sb1, csum1, ret
  <2>9. SumGood(cg', csum', sb')
    BY <2>2, <2>3, <2>4, <2>5, <2>6, <2>7, <2>8, SumStep
  <2>10. QED BY <1>2, <2>1, <2>2, <2>9
<1>7. CASE UNCHANGED vars
  BY <1>2, <1>7 DEF vars
<1>8. QED BY <1>3, <1>4, <1>5, <1>6, <1>7 DEF Next

LEMMA SpecSumInv == Spec => []SumInv
BY SumInit, SumNext, PTL DEF Spec

\* While no write has failed the superblock totals and the summary table agree
\* with the groups: update_summary_counts is told what the group block changed by.
THEOREM SummariesFollow == Spec => []SummariesConsistent
<1>1. SumInv => SummariesConsistent
  BY DEF SumInv, SumGood, SummariesConsistent, TotalWhole, TotalPartial, WholeOf, PartialOf
<1>2. QED BY <1>1, SpecSumInv, PTL

\* When every run has come back and no write failed, the groups and their
\* summary entries are those of the fresh image: no counter drifts.
THEOREM NoDrift == Spec => []FreeingAllRestores
<1>1. SumInv => FreeingAllRestores
  <2> SUFFICES ASSUME SumInv, runs = {}, errors = 0, NEW g \in Groups
               PROVE  /\ cg[g] = FreshGroup(FreshMap(g))
                      /\ csum[g] = [nbfree |-> cg[g].nbfree, nffree |-> cg[g].nffree]
    BY DEF FreeingAllRestores
  <2>1. /\ SumGood(cg, csum, sb) /\ Good(cg, {}) /\ csum[g] \in Counts
        /\ cg[g] \in GroupRecord /\ GroupOk(cg[g])
    BY DEF SumInv, FragInv, Good, GroupsGood, TypeOK
  <2>2. cg[g].free = FreshMap(g)
    <3>1. ASSUME NEW b \in Blocks
          PROVE  cg[g].free[b] = Run(0, BlockLen(g, b)) \ Meta[g][b]
      <4>1. \A x : x \in Run(0, BlockLen(g, b)) <=> x \in cg[g].free[b] \/ x \in Meta[g][b]
        BY <2>1 DEF Good, Covered
      <4>2. cg[g].free[b] \cap Meta[g][b] = {}
        BY <2>1 DEF Good, HeldApart
      <4>3. QED BY <4>1, <4>2
    <3>2. QED BY <2>1, <3>1 DEF FreshMap, GroupRecord
  <2>3. cg[g] = FreshGroup(cg[g].free)
    <3> DEFINE c == cg[g]
               f == c.free
    <3>1. c = [free |-> c.free, nbfree |-> c.nbfree, nffree |-> c.nffree,
               frsum |-> c.frsum, btot |-> c.btot]
      BY <2>1 DEF GroupRecord
    <3>2. c.frsum = [k \in RunLens |-> Cardinality(RunStarts(f, k))]
      BY <2>1 DEF GroupRecord, GroupOk
    <3>3. c.btot = [y \in Cyls |-> Cardinality({b \in WholeBlocks(f) : CylOf[b] = y})]
      BY <2>1 DEF GroupRecord, GroupOk
    <3>4. c.nbfree = Cardinality(WholeBlocks(f)) /\ c.nffree = Cardinality(PartialFrags(f))
      BY <2>1 DEF GroupOk
    <3> HIDE DEF c
    <3>5. QED BY <3>1, <3>2, <3>3, <3>4 DEF FreshGroup, c
  <2>4. csum[g] = [nbfree |-> cg[g].nbfree, nffree |-> cg[g].nffree]
    BY <2>1 DEF SumGood, Counts
  <2>5. QED BY <2>2, <2>3, <2>4
<1>2. QED BY <1>1, SpecSumInv, PTL

\* A whole block is split for a short run only when no broken block of that
\* group has room for it (alloc.c:250).
THEOREM PartialFirst == Spec => PartialBeforeSplit
<1> DEFINE Wants(g, b, r) ==
             /\ r.cg = g /\ r.blk = b /\ cg[g].free[b] = Offsets /\ r.len < FragsPerBlock
           NoSpot(g, r) ==
             \A b2 \in Blocks, o \in Offsets :
                cg[g].free[b2] # Offsets => ~(Run(o, r.len) \subseteq cg[g].free[b2])
<1>1. FragInv /\ [Next]_vars => [SplitOnlyWhenNeeded]_vars
  <2> SUFFICES ASSUME FragInv, Next, NEW g \in Groups, NEW b \in Blocks,
                      NEW r \in runs' \ runs, Wants(g, b, r)
               PROVE  NoSpot(g, r)
    BY DEF SplitOnlyWhenNeeded
  <2>1. ASSUME NEW pref, NEW n \in 1..FragsPerBlock, r \in RunRecord, Found(pref, n, r)
        PROVE  NoSpot(g, r)
    <3>1. FirstWhole(g, n, b) /\ r.len = n
      BY <2>1 DEF Found, FirstPartial, PartialSpot
    <3>2. ~HasPartial(g, n)
      BY <3>1 DEF FirstWhole
    <3>3. QED BY <3>1, <3>2, SpotIfFree DEF HasPartial
  <2>2. ASSUME NEW pref \in Groups, NEW n \in 1..FragsPerBlock, NEW io \in IO,
               AllocateFrags(pref, n, io)
        PROVE  NoSpot(g, r)
    <3>1. PICK s \in RunRecord : Found(pref, n, s) /\ (runs' = runs \cup {s} \/ runs' = runs)
      BY <2>2 DEF AllocateFrags
    <3>2. r = s
      BY <3>1
    <3> HIDE DEF NoSpot
    <3>3. QED BY <2>1, <3>1, <3>2
  <2>3. ASSUME NEW q \in runs, NEW new \in 1..FragsPerBlock, NEW io \in IO,
               ExtendFragmentRun(q, new, io)
        PROVE  NoSpot(g, r)
    <3>1. r = Extended(q, new)
      BY <2>3 DEF ExtendFragmentRun
    <3>2. q \in RunRecord /\ RunFrags(q) \cap cg[g].free[b] = {}
      BY <3>1 DEF FragInv, Good, HeldApart, TypeOK, Extended
    <3>3. q.start \in RunFrags(q) /\ q.start \in Offsets
      BY <3>2, RunRecordTypes
    <3>4. QED BY <3>2, <3>3
  <2>4. ASSUME NEW q \in runs, NEW io \in IO, FreeFragmentRun(q, io)
        PROVE  NoSpot(g, r)
    BY <2>4 DEF FreeFragmentRun
  <2>5. ASSUME NEW q \in runs, NEW new \in 1..FragsPerBlock, NEW pref \in Groups,
               NEW io \in IO \cup {"data"}, ReallocateFragmentRun(q, new, pref, io)
        PROVE  NoSpot(g, r)
    <3>1. PICK s \in RunRecord :
            /\ Found(pref, new, s)
            /\ runs' = CASE io = "ok"   -> (runs \ {q}) \cup {s}
                         [] io = "data" -> runs
                         [] OTHER       -> runs \ {q}
      BY <2>5 DEF ReallocateFragmentRun
    <3>2. r = s
      BY <3>1
    <3> HIDE DEF NoSpot
    <3>3. QED BY <2>1, <3>1, <3>2
  <2> HIDE DEF NoSpot
  <2>6. QED BY <2>2, <2>3, <2>4, <2>5 DEF Next
<1>2. QED BY <1>1, SpecInv, PTL DEF Spec, PartialBeforeSplit
=============================================================================
