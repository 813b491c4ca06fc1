------------------------- MODULE InodeAlloc_proofs -------------------------
(***************************************************************************)
(* The inode allocator keeps its map, its counters and its holders         *)
(* consistent for every number of groups and inodes and any number of      *)
(* failing summary writes.                                                 *)
(***************************************************************************)
EXTENDS InodeAlloc, FiniteSetTheorems, TLAPS

Held == inodes \cup lost
DirsIn(S, g) == {i \in S : i.cg = g /\ i.dir}
LocalsIn(S, g) == {i.local : i \in InGroup(S, g)}

\* The map and the holders.
Holders ==
    /\ inodes \cap lost = {}
    /\ \A i, j \in Held : i.cg = j.cg /\ i.local = j.local => i = j
    /\ \A g \in Groups : /\ Reserved(g) \cap LocalsIn(Held, g) = {}
                         /\ iused[g] = Reserved(g) \cup LocalsIn(Held, g)

\* The counters.
Counted ==
    \A g \in Groups :
        /\ cnt[g].nifree = InodesPerGroup - Cardinality(iused[g])
        /\ cnt[g].ndir = Cardinality(DirsIn(Held, g))

\* The copies, while no write has failed.
Copied ==
    errors = 0 =>
        /\ csum = cnt
        /\ lost = {}
        /\ sb.ndir = Cardinality({i \in inodes : i.dir})
        /\ sb.nifree = NumGroups * InodesPerGroup - 2 - Cardinality(inodes)

\* TypeOK without the signs of the counters, which follow from Counted.
Shapes ==
    /\ iused \in [Groups -> SUBSET Locals]
    /\ irotor \in [Groups -> Locals]
    /\ cnt \in [Groups -> Counts]
    /\ csum \in [Groups -> Counts]
    /\ sb \in Counts
    /\ inodes \subseteq InodeRecord
    /\ lost \subseteq InodeRecord
    /\ errors \in 0..MaxErrors
    /\ IsFiniteSet(inodes) /\ IsFiniteSet(lost)

InodeInv == Shapes /\ Holders /\ Counted /\ Copied

LEMMA LocalsFinite ==
    /\ InodesPerGroup \in Nat
    /\ NumGroups * InodesPerGroup \in Nat
    /\ IsFiniteSet(Locals) /\ Cardinality(Locals) = InodesPerGroup
<1>1. InodesPerGroup \in Nat /\ InodesPerGroup >= 4 /\ NumGroups \in Nat
  BY InodesAssumption
<1>2. /\ IsFiniteSet(0..(InodesPerGroup - 1))
      /\ Cardinality(0..(InodesPerGroup - 1)) =
           IF 0 > InodesPerGroup - 1 THEN 0 ELSE InodesPerGroup - 1 - 0 + 1
  <2>1. 0 \in Int /\ InodesPerGroup - 1 \in Int
    BY <1>1
  <2>2. QED BY <2>1, FS_Interval
<1>3. NumGroups * InodesPerGroup \in Nat
  BY <1>1
<1>4. QED BY <1>1, <1>2, <1>3 DEF Locals

\* The invariant gives the checked properties.
LEMMA InvGives == InodeInv => TypeOK /\ CountersMatch /\ SummariesConsistent /\ OneHolder
<1> SUFFICES ASSUME InodeInv
             PROVE  TypeOK /\ CountersMatch /\ SummariesConsistent /\ OneHolder
  OBVIOUS
<1>1. ASSUME NEW g \in Groups
      PROVE  cnt[g] \in [ndir : Nat, nifree : Nat]
  <2>1. IsFiniteSet(iused[g]) /\ Cardinality(iused[g]) <= InodesPerGroup
        /\ Cardinality(iused[g]) \in Nat
    <3>1. iused[g] \in SUBSET Locals
      BY DEF InodeInv, Shapes
    <3>2. QED BY <3>1, LocalsFinite, FS_Subset, FS_CardinalityType
  <2>2. Cardinality(DirsIn(Held, g)) \in Nat
    <3>1. IsFiniteSet(Held)
      BY FS_Union DEF InodeInv, Shapes, Held
    <3>2. DirsIn(Held, g) \in SUBSET Held
      BY DEF DirsIn
    <3>3. QED BY <3>1, <3>2, FS_Subset, FS_CardinalityType
  <2>3. cnt[g].nifree \in Nat /\ cnt[g].ndir \in Nat
    BY <2>1, <2>2, LocalsFinite DEF InodeInv, Counted
  <2>4. cnt[g] \in Counts
    BY DEF InodeInv, Shapes
  <2>5. QED BY <2>3, <2>4 DEF Counts
<1>2. TypeOK
  BY <1>1 DEF InodeInv, Shapes, TypeOK
<1>3. CountersMatch
  BY DEF InodeInv, Counted, CountersMatch, DirsIn, Held
<1>4. SummariesConsistent
  BY DEF InodeInv, Copied, SummariesConsistent
<1>5. OneHolder
  BY DEF InodeInv, Holders, OneHolder, LocalsIn, Held
<1>6. QED BY <1>2, <1>3, <1>4, <1>5

LEMMA CountsAdd ==
    ASSUME NEW x \in Counts, NEW d \in Counts
    PROVE  /\ AddCounts(x, d) \in Counts
           /\ AddCounts(x, d).ndir = x.ndir + d.ndir
           /\ AddCounts(x, d).nifree = x.nifree + d.nifree
BY DEF AddCounts, Counts

LEMMA UpdateTypes ==
    ASSUME Shapes, NEW g \in Groups, NEW d \in Counts, NEW io, UpdateSummary(g, d, io)
    PROVE  /\ csum' \in [Groups -> Counts] /\ sb' \in Counts /\ errors' \in 0..MaxErrors
           /\ errors' = 0 => errors = 0 /\ io = "ok"
<1>1. AddCounts(sb, d) \in Counts /\ AddCounts(csum[g], d) \in Counts
  BY CountsAdd DEF Shapes
<1>2. QED BY <1>1, InodesAssumption DEF Shapes, UpdateSummary

LEMMA DeltaCounts ==
    ASSUME NEW dir \in BOOLEAN
    PROVE  /\ AllocDelta(dir) \in Counts /\ FreeDelta(dir) \in Counts
           /\ AllocDelta(dir).nifree = -1 /\ FreeDelta(dir).nifree = 1
           /\ AllocDelta(dir).ndir = IF dir THEN 1 ELSE 0
           /\ FreeDelta(dir).ndir = IF dir THEN -1 ELSE 0
BY DEF AllocDelta, FreeDelta, Dirs, Counts

LEMMA HeldFinite ==
    ASSUME Shapes
    PROVE  /\ IsFiniteSet(Held) /\ Held \subseteq InodeRecord
           /\ \A g : IsFiniteSet(DirsIn(Held, g))
           /\ \A g \in Groups : IsFiniteSet(iused[g])
           /\ IsFiniteSet({i \in inodes : i.dir})
<1>1. IsFiniteSet(Held) /\ Held \subseteq InodeRecord
  BY FS_Union DEF Shapes, Held
<1>2. ASSUME NEW g PROVE IsFiniteSet(DirsIn(Held, g))
  <2>1. DirsIn(Held, g) \in SUBSET Held
    BY DEF DirsIn
  <2>2. QED BY <1>1, <2>1, FS_Subset
<1>3. ASSUME NEW g \in Groups PROVE IsFiniteSet(iused[g])
  <2>1. iused[g] \in SUBSET Locals
    BY DEF Shapes
  <2>2. QED BY <2>1, LocalsFinite, FS_Subset
<1>4. IsFiniteSet({i \in inodes : i.dir})
  <2>1. {i \in inodes : i.dir} \in SUBSET inodes /\ IsFiniteSet(inodes)
    BY DEF Shapes
  <2>2. QED BY <2>1, FS_Subset
<1>5. QED BY <1>1, <1>2, <1>3, <1>4

\* An unused inode gets its first holder.
LEMMA AllocatePreserves ==
    ASSUME InodeInv, NEW g \in Groups, NEW dir \in BOOLEAN, NEW io \in IO,
           AllocateInode(g, dir, io)
    PROVE  InodeInv'
<1>1. PICK i \in Candidates(g) :
        LET ino == [cg |-> g, local |-> i, dir |-> dir]
        IN  /\ iused' = [iused EXCEPT ![g] = iused[g] \cup {i}]
            /\ irotor' = [irotor EXCEPT ![g] = i]
            /\ cnt' = [cnt EXCEPT ![g] = AddCounts(cnt[g], AllocDelta(dir))]
            /\ UpdateSummary(g, AllocDelta(dir), io)
            /\ IF io = "ok" THEN inodes' = inodes \cup {ino} /\ UNCHANGED lost
                            ELSE lost' = lost \cup {ino} /\ UNCHANGED inodes
  BY DEF AllocateInode
<1> DEFINE ino == [cg |-> g, local |-> i, dir |-> dir]
           d == AllocDelta(dir)
<1>2. Shapes /\ Holders /\ Counted /\ Copied
  BY DEF InodeInv
<1>3. /\ i \in Locals /\ i \notin iused[g] /\ ino \in InodeRecord
      /\ ino.cg = g /\ ino.local = i /\ ino.dir = dir
  BY DEF Candidates, InodeRecord
<1>4. d \in Counts /\ d.nifree = -1 /\ d.ndir = IF dir THEN 1 ELSE 0
  BY DeltaCounts
<1>5. /\ csum' \in [Groups -> Counts] /\ sb' \in Counts /\ errors' \in 0..MaxErrors
      /\ errors' = 0 => errors = 0 /\ io = "ok"
  BY <1>1, <1>2, <1>4, UpdateTypes
<1>6. ino \notin Held /\ Held' = Held \cup {ino} /\ inodes' \cap lost' = {}
  <2>1. ino \notin Held
    BY <1>2, <1>3 DEF Holders, LocalsIn, InGroup
  <2> HIDE DEF ino
  <2>2. QED BY <1>1, <1>2, <2>1 DEF Held, Holders, ino
<1> HIDE DEF ino, d
<1>7. Shapes'
  <2>1. IsFiniteSet(inodes \cup {ino}) /\ IsFiniteSet(lost \cup {ino})
    BY <1>2, FS_AddElement DEF Shapes
  <2>2. AddCounts(cnt[g], d) \in Counts
    BY <1>2, <1>4, CountsAdd DEF Shapes
  <2>3. iused' \in [Groups -> SUBSET Locals] /\ irotor' \in [Groups -> Locals]
        /\ cnt' \in [Groups -> Counts]
    BY <1>1, <1>2, <1>3, <2>2 DEF Shapes, d
  <2>4. /\ inodes' \subseteq InodeRecord /\ lost' \subseteq InodeRecord
        /\ IsFiniteSet(inodes') /\ IsFiniteSet(lost')
    BY <1>1, <1>2, <1>3, <2>1 DEF Shapes, ino
  <2>5. QED BY <1>5, <2>3, <2>4 DEF Shapes
<1>8. Holders'
  <2>1. \A a, b \in Held' : a.cg = b.cg /\ a.local = b.local => a = b
    <3>1. \A a \in Held : ~(a.cg = ino.cg /\ a.local = ino.local)
      BY <1>2, <1>3, HeldFinite DEF Holders, LocalsIn, InGroup, InodeRecord
    <3>2. QED BY <1>2, <1>6, <3>1 DEF Holders
  <2>2. ASSUME NEW h \in Groups
        PROVE  /\ Reserved(h) \cap LocalsIn(Held', h) = {}
               /\ iused'[h] = Reserved(h) \cup LocalsIn(Held', h)
    <3>1. LocalsIn(Held', h) = IF h = g THEN LocalsIn(Held, h) \cup {i} ELSE LocalsIn(Held, h)
      BY <1>3, <1>6 DEF LocalsIn, InGroup
    <3>2. iused'[h] = IF h = g THEN iused[h] \cup {i} ELSE iused[h]
      BY <1>1, <1>2 DEF Shapes
    <3>3. /\ Reserved(h) \cap LocalsIn(Held, h) = {}
          /\ iused[h] = Reserved(h) \cup LocalsIn(Held, h)
      BY <1>2 DEF Holders
    <3>4. QED BY <1>3, <3>1, <3>2, <3>3
  <2>3. QED BY <1>6, <2>1, <2>2 DEF Holders, LocalsIn
<1>9. Counted'
  <2> SUFFICES ASSUME NEW h \in Groups
               PROVE  /\ cnt'[h].nifree = InodesPerGroup - Cardinality(iused'[h])
                      /\ cnt'[h].ndir = Cardinality(DirsIn(Held', h))
    BY DEF Counted, DirsIn
  <2>1. CASE h # g
    <3>1. iused'[h] = iused[h] /\ cnt'[h] = cnt[h]
      BY <1>1, <1>2, <2>1 DEF Shapes
    <3>2. DirsIn(Held', h) = DirsIn(Held, h)
      BY <1>3, <1>6, <2>1 DEF DirsIn
    <3>3. QED BY <1>2, <3>1, <3>2 DEF Counted
  <2>2. CASE h = g
    <3>1. Cardinality(iused'[g]) = Cardinality(iused[g]) + 1 /\ Cardinality(iused[g]) \in Nat
      <4>1. iused'[g] = iused[g] \cup {i}
        BY <1>1, <1>2 DEF Shapes
      <4>2. IsFiniteSet(iused[g])
        BY <1>2, HeldFinite
      <4>3. QED BY <1>3, <4>1, <4>2, FS_AddElement, FS_CardinalityType
    <3>2. Cardinality(DirsIn(Held', g)) = Cardinality(DirsIn(Held, g)) + IF dir THEN 1 ELSE 0
      <4>1. DirsIn(Held', g) = IF dir THEN DirsIn(Held, g) \cup {ino} ELSE DirsIn(Held, g)
        BY <1>3, <1>6 DEF DirsIn
      <4>2. ino \notin DirsIn(Held, g) /\ IsFiniteSet(DirsIn(Held, g))
        BY <1>2, <1>6, HeldFinite DEF DirsIn
      <4> DEFINE D == DirsIn(Held, g)
      <4>3. ino \notin D /\ IsFiniteSet(D)
        BY <4>2
      <4> HIDE DEF D
      <4>4. Cardinality(D \cup {ino}) = Cardinality(D) + 1 /\ Cardinality(D) \in Nat
        BY <4>3, FS_AddElement, FS_CardinalityType
      <4>5. Cardinality(IF dir THEN D \cup {ino} ELSE D) = Cardinality(D) + IF dir THEN 1 ELSE 0
        BY <4>4
      <4>6. QED BY <4>1, <4>5 DEF D
    <3>3. cnt'[g].ndir = cnt[g].ndir + d.ndir /\ cnt'[g].nifree = cnt[g].nifree + d.nifree
      <4>1. cnt'[g] = AddCounts(cnt[g], d) /\ cnt[g] \in Counts
        BY <1>1, <1>2 DEF Shapes, d
      <4>2. QED BY <1>4, <4>1, CountsAdd
    <3>4. QED BY <1>2, <1>4, <2>2, <3>1, <3>2, <3>3, LocalsFinite DEF Counted
  <2>3. QED BY <2>1, <2>2
<1>10. Copied'
  <2> SUFFICES ASSUME errors' = 0
               PROVE  /\ csum' = cnt' /\ lost' = {}
                      /\ sb'.ndir = Cardinality({k \in inodes' : k.dir})
                      /\ sb'.nifree = NumGroups * InodesPerGroup - 2 - Cardinality(inodes')
    BY DEF Copied
  <2>1. errors = 0 /\ io = "ok" /\ inodes' = inodes \cup {ino} /\ lost' = lost
    BY <1>1, <1>5 DEF ino
  <2>2. csum' = [csum EXCEPT ![g] = AddCounts(csum[g], d)] /\ sb' = AddCounts(sb, d)
    BY <1>1, <2>1 DEF UpdateSummary, d
  <2>3. csum = cnt /\ lost = {}
    BY <1>2, <2>1 DEF Copied
  <2>4. csum' = cnt'
    BY <1>1, <2>2, <2>3 DEF d
  <2>5. Cardinality(inodes') = Cardinality(inodes) + 1 /\ Cardinality(inodes) \in Nat
    BY <1>2, <1>6, <2>1, FS_AddElement, FS_CardinalityType DEF Shapes, Held
  <2>6. Cardinality({k \in inodes' : k.dir}) =
          Cardinality({k \in inodes : k.dir}) + IF dir THEN 1 ELSE 0
    <3> DEFINE D == {k \in inodes : k.dir}
    <3>1. {k \in inodes' : k.dir} = IF dir THEN D \cup {ino} ELSE D
      BY <1>3, <2>1
    <3>2. ino \notin D /\ IsFiniteSet(D)
      BY <1>2, <1>6, HeldFinite DEF Held
    <3> HIDE DEF D
    <3>3. Cardinality(IF dir THEN D \cup {ino} ELSE D) = Cardinality(D) + IF dir THEN 1 ELSE 0
      BY <3>2, FS_AddElement, FS_CardinalityType
    <3>4. QED BY <3>1, <3>3 DEF D
  <2>7. sb'.ndir = sb.ndir + d.ndir /\ sb'.nifree = sb.nifree + d.nifree
        /\ sb.ndir \in Int /\ sb.nifree \in Int
    BY <1>2, <1>4, <2>2, CountsAdd DEF Shapes, Counts
  <2>8. QED BY <1>2, <1>4, <2>1, <2>3, <2>4, <2>5, <2>6, <2>7, LocalsFinite DEF Copied
<1>11. QED BY <1>7, <1>8, <1>9, <1>10 DEF InodeInv

\* A held inode loses its holder.
LEMMA FreePreserves ==
    ASSUME InodeInv, NEW ino \in inodes, NEW io \in IO, FreeInode(ino, io)
    PROVE  InodeInv'
<1> DEFINE g == ino.cg
           d == FreeDelta(ino.dir)
<1>1. /\ iused' = [iused EXCEPT ![g] = iused[g] \ {ino.local}]
      /\ cnt' = [cnt EXCEPT ![g] = AddCounts(cnt[g], d)]
      /\ UpdateSummary(g, d, io)
      /\ inodes' = inodes \ {ino}
      /\ irotor' = irotor /\ lost' = lost
  BY DEF FreeInode
<1>2. Shapes /\ Holders /\ Counted /\ Copied
  BY DEF InodeInv
<1>3. /\ ino \in InodeRecord /\ g \in Groups /\ ino.local \in Locals /\ ino.dir \in BOOLEAN
      /\ ino \in Held /\ ino.local \in iused[g]
  BY <1>2 DEF Shapes, InodeRecord, Held, FreeInode
<1>4. d \in Counts /\ d.nifree = 1 /\ d.ndir = IF ino.dir THEN -1 ELSE 0
  BY <1>3, DeltaCounts
<1> HIDE DEF d
<1>5. /\ csum' \in [Groups -> Counts] /\ sb' \in Counts /\ errors' \in 0..MaxErrors
      /\ errors' = 0 => errors = 0 /\ io = "ok"
  BY <1>1, <1>2, <1>3, <1>4, UpdateTypes
<1>6. Held' = Held \ {ino} /\ inodes' \cap lost' = {}
  BY <1>1, <1>2, <1>3 DEF Held, Holders
<1>7. Shapes'
  <2>1. AddCounts(cnt[g], d) \in Counts
    BY <1>2, <1>3, <1>4, CountsAdd DEF Shapes
  <2>2. IsFiniteSet(inodes \ {ino})
    BY <1>2, FS_RemoveElement DEF Shapes
  <2>3. QED BY <1>1, <1>2, <1>5, <2>1, <2>2 DEF Shapes
<1>8. Holders'
  <2>1. \A a, b \in Held' : a.cg = b.cg /\ a.local = b.local => a = b
    BY <1>2, <1>6 DEF Holders
  <2>2. ASSUME NEW h \in Groups
        PROVE  /\ Reserved(h) \cap LocalsIn(Held', h) = {}
               /\ iused'[h] = Reserved(h) \cup LocalsIn(Held', h)
    <3>1. /\ Reserved(h) \cap LocalsIn(Held, h) = {}
          /\ iused[h] = Reserved(h) \cup LocalsIn(Held, h)
      BY <1>2 DEF Holders
    <3>2. LocalsIn(Held', h) = IF h = g THEN LocalsIn(Held, h) \ {ino.local} ELSE LocalsIn(Held, h)
      BY <1>2, <1>3, <1>6 DEF LocalsIn, InGroup, Holders
    <3>3. iused'[h] = IF h = g THEN iused[h] \ {ino.local} ELSE iused[h]
      BY <1>1, <1>2 DEF Shapes
    <3>4. h = g => ino.local \notin Reserved(h)
      BY <1>3, <3>1 DEF LocalsIn, InGroup
    <3>5. QED BY <3>1, <3>2, <3>3, <3>4
  <2>3. QED BY <1>6, <2>1, <2>2 DEF Holders, LocalsIn
<1>9. Counted'
  <2> SUFFICES ASSUME NEW h \in Groups
               PROVE  /\ cnt'[h].nifree = InodesPerGroup - Cardinality(iused'[h])
                      /\ cnt'[h].ndir = Cardinality(DirsIn(Held', h))
    BY DEF Counted, DirsIn
  <2>1. CASE h # g
    <3>1. iused'[h] = iused[h] /\ cnt'[h] = cnt[h]
      BY <1>1, <1>2, <2>1 DEF Shapes
    <3>2. DirsIn(Held', h) = DirsIn(Held, h)
      BY <1>3, <1>6, <2>1 DEF DirsIn
    <3>3. QED BY <1>2, <3>1, <3>2 DEF Counted
  <2>2. CASE h = g
    <3>1. Cardinality(iused'[g]) = Cardinality(iused[g]) - 1 /\ Cardinality(iused[g]) \in Nat
      <4>1. iused'[g] = iused[g] \ {ino.local}
        BY <1>1, <1>2, <1>3 DEF Shapes
      <4>2. IsFiniteSet(iused[g])
        BY <1>2, <1>3, HeldFinite
      <4> DEFINE U == iused[g]
                 x == ino.local
      <4>3. IsFiniteSet(U) /\ x \in U
        BY <1>3, <4>2
      <4> HIDE DEF U, x
      <4>4. Cardinality(U \ {x}) = Cardinality(U) - 1 /\ Cardinality(U) \in Nat
        BY <4>3, FS_RemoveElement, FS_CardinalityType
      <4>5. QED BY <4>1, <4>4 DEF U, x
    <3>2. /\ Cardinality(DirsIn(Held', g)) = Cardinality(DirsIn(Held, g)) - IF ino.dir THEN 1 ELSE 0
          /\ Cardinality(DirsIn(Held, g)) \in Nat
      <4> DEFINE D == DirsIn(Held, g)
      <4>1. DirsIn(Held', g) = D \ {ino}
        BY <1>6 DEF DirsIn
      <4>2. (ino \in D <=> ino.dir) /\ IsFiniteSet(D)
        BY <1>2, <1>3, HeldFinite DEF DirsIn
      <4> HIDE DEF D
      <4>3. /\ Cardinality(D \ {ino}) = IF ino \in D THEN Cardinality(D) - 1 ELSE Cardinality(D)
            /\ Cardinality(D) \in Nat
        BY <4>2, FS_RemoveElement, FS_CardinalityType
      <4>4. QED BY <4>1, <4>2, <4>3 DEF D
    <3>3. cnt'[g].ndir = cnt[g].ndir + d.ndir /\ cnt'[g].nifree = cnt[g].nifree + d.nifree
      <4>1. cnt'[g] = AddCounts(cnt[g], d) /\ cnt[g] \in Counts
        BY <1>1, <1>2, <1>3 DEF Shapes
      <4>2. QED BY <1>4, <4>1, CountsAdd
    <3>4. QED BY <1>2, <1>3, <1>4, <2>2, <3>1, <3>2, <3>3, LocalsFinite DEF Counted
  <2>3. QED BY <2>1, <2>2
<1>10. Copied'
  <2> SUFFICES ASSUME errors' = 0
               PROVE  /\ csum' = cnt' /\ lost' = {}
                      /\ sb'.ndir = Cardinality({k \in inodes' : k.dir})
                      /\ sb'.nifree = NumGroups * InodesPerGroup - 2 - Cardinality(inodes')
    BY DEF Copied
  <2>1. errors = 0 /\ io = "ok"
    BY <1>5
  <2>2. csum' = [csum EXCEPT ![g] = AddCounts(csum[g], d)] /\ sb' = AddCounts(sb, d)
    BY <1>1, <2>1 DEF UpdateSummary
  <2>3. csum = cnt /\ lost = {}
    BY <1>2, <2>1 DEF Copied
  <2>4. csum' = cnt'
    BY <1>1, <2>2, <2>3
  <2>5. Cardinality(inodes') = Cardinality(inodes) - 1 /\ Cardinality(inodes) \in Nat
    BY <1>1, <1>2, FS_RemoveElement, FS_CardinalityType DEF Shapes
  <2>6. /\ Cardinality({k \in inodes' : k.dir}) =
             Cardinality({k \in inodes : k.dir}) - IF ino.dir THEN 1 ELSE 0
        /\ Cardinality({k \in inodes : k.dir}) \in Nat
    <3> DEFINE D == {k \in inodes : k.dir}
    <3>1. {k \in inodes' : k.dir} = D \ {ino}
      BY <1>1
    <3>2. (ino \in D <=> ino.dir) /\ IsFiniteSet(D)
      BY <1>2, HeldFinite
    <3> HIDE DEF D
    <3>3. /\ Cardinality(D \ {ino}) = IF ino \in D THEN Cardinality(D) - 1 ELSE Cardinality(D)
          /\ Cardinality(D) \in Nat
      BY <3>2, FS_RemoveElement, FS_CardinalityType
    <3>4. QED BY <3>1, <3>2, <3>3 DEF D
  <2>7. sb'.ndir = sb.ndir + d.ndir /\ sb'.nifree = sb.nifree + d.nifree
        /\ sb.ndir \in Int /\ sb.nifree \in Int
    BY <1>2, <1>4, <2>2, CountsAdd DEF Shapes, Counts
  <2>8. /\ sb.ndir = Cardinality({k \in inodes : k.dir})
        /\ sb.nifree = NumGroups * InodesPerGroup - 2 - Cardinality(inodes)
    BY <1>2, <2>1 DEF Copied
  <2>9. sb'.ndir = Cardinality({k \in inodes' : k.dir})
    BY <1>3, <1>4, <2>6, <2>7, <2>8
  <2>10. sb'.nifree = NumGroups * InodesPerGroup - 2 - Cardinality(inodes')
    BY <1>4, <2>5, <2>7, <2>8, LocalsFinite
  <2>11. QED BY <1>1, <2>3, <2>4, <2>9, <2>10
<1>11. QED BY <1>7, <1>8, <1>9, <1>10 DEF InodeInv

\* mkimg's image.
LEMMA InitInv == Init => InodeInv
<1> SUFFICES ASSUME Init PROVE InodeInv
  OBVIOUS
<1>1. /\ inodes = {Root, LostFound} /\ lost = {} /\ errors = 0
      /\ Held = {Root, LostFound}
  BY DEF Init, Held
<1>2. /\ 0 \in Groups /\ 0 \in Locals /\ 1 \in Locals /\ 2 \in Locals /\ 3 \in Locals
      /\ Root \in InodeRecord /\ LostFound \in InodeRecord /\ Root # LostFound
      /\ NumGroups \in Nat \ {0} /\ InodesPerGroup \in Nat
  BY InodesAssumption DEF Groups, Locals, Root, LostFound, InodeRecord
<1>3. IsFiniteSet(inodes) /\ IsFiniteSet(lost) /\ Cardinality(inodes) = 2
  <2>1. IsFiniteSet({Root}) /\ Cardinality({Root}) = 1
    BY FS_Singleton
  <2>2. IsFiniteSet({Root} \cup {LostFound}) /\ Cardinality({Root} \cup {LostFound}) = 2
    <3>1. LostFound \notin {Root}
      BY <1>2
    <3> HIDE DEF Root, LostFound
    <3>2. QED BY <2>1, <3>1, FS_AddElement
  <2>3. inodes = {Root} \cup {LostFound}
    BY <1>1
  <2>4. QED BY <1>1, <2>2, <2>3, FS_EmptySet
<1>4. iused = [g \in Groups |-> Reserved(g) \cup LocalsIn(Held, g)]
  BY <1>1 DEF Init, LocalsIn
<1>5. ASSUME NEW g \in Groups
      PROVE  /\ LocalsIn(Held, g) = IF g = 0 THEN {2, 3} ELSE {}
             /\ DirsIn(Held, g) = IF g = 0 THEN inodes ELSE {}
  <2>1. /\ Root.cg = 0 /\ Root.local = 2 /\ Root.dir
        /\ LostFound.cg = 0 /\ LostFound.local = 3 /\ LostFound.dir
    BY DEF Root, LostFound
  <2>2. InGroup(Held, g) = IF g = 0 THEN {Root, LostFound} ELSE {}
    BY <1>1, <2>1 DEF InGroup
  <2>3. LocalsIn(Held, g) = IF g = 0 THEN {2, 3} ELSE {}
    BY <2>1, <2>2 DEF LocalsIn
  <2>4. DirsIn(Held, g) = IF g = 0 THEN inodes ELSE {}
    BY <1>1, <2>1 DEF DirsIn
  <2>5. QED BY <2>3, <2>4
<1>6. Holders
  BY <1>1, <1>4, <1>5 DEF Holders, Reserved, Root, LostFound
<1>7. iused \in [Groups -> SUBSET Locals]
  BY <1>2, <1>4, <1>5 DEF Reserved
<1>8. \A g \in Groups : cnt[g] = [ndir |-> IF g = 0 THEN 2 ELSE 0,
                                  nifree |-> InodesPerGroup - Cardinality(iused[g])]
  BY DEF Init
<1>9. \A g \in Groups : Cardinality(iused[g]) \in Nat
  BY <1>7, LocalsFinite, FS_Subset, FS_CardinalityType
<1>10. Counted
  <2> SUFFICES ASSUME NEW g \in Groups
               PROVE  /\ cnt[g].nifree = InodesPerGroup - Cardinality(iused[g])
                      /\ cnt[g].ndir = Cardinality(DirsIn(Held, g))
    BY DEF Counted
  <2>1. /\ cnt[g].ndir = IF g = 0 THEN 2 ELSE 0
        /\ cnt[g].nifree = InodesPerGroup - Cardinality(iused[g])
    <3>1. cnt[g] = [ndir |-> IF g = 0 THEN 2 ELSE 0,
                    nifree |-> InodesPerGroup - Cardinality(iused[g])]
      BY <1>8
    <3>2. QED BY ONLY <3>1
  <2>2. CASE g = 0
    <3>1. DirsIn(Held, g) = inodes
      BY <1>5, <2>2
    <3>2. QED BY ONLY <1>3, <2>1, <2>2, <3>1
  <2>3. CASE g # 0
    <3>1. DirsIn(Held, g) = {}
      BY <1>5, <2>3
    <3>2. QED BY ONLY <2>1, <2>3, <3>1, FS_EmptySet
  <2>4. QED BY <2>2, <2>3
<1>11. Shapes
  <2>1. cnt \in [Groups -> Counts]
    <3>1. ASSUME NEW g \in Groups PROVE cnt[g] \in Counts
      <4>1. cnt[g] = [ndir |-> IF g = 0 THEN 2 ELSE 0,
                      nifree |-> InodesPerGroup - Cardinality(iused[g])]
        BY <1>8
      <4>2. InodesPerGroup - Cardinality(iused[g]) \in Int
        BY <1>2, <1>9
      <4>3. (IF g = 0 THEN 2 ELSE 0) \in Int
        OBVIOUS
      <4>4. QED BY ONLY <4>1, <4>2, <4>3 DEF Counts
    <3>2. cnt = [g \in Groups |-> cnt[g]]
      BY DEF Init
    <3>3. QED BY <3>1, <3>2
  <2>2. sb \in Counts /\ errors \in 0..MaxErrors
    BY <1>2, LocalsFinite, InodesAssumption DEF Init, Counts
  <2>3. irotor \in [Groups -> Locals]
    BY <1>2 DEF Init
  <2>4. csum = cnt /\ inodes \subseteq InodeRecord /\ lost \subseteq InodeRecord
    BY <1>1, <1>2 DEF Init
  <2>5. QED BY <1>3, <1>7, <2>1, <2>2, <2>3, <2>4 DEF Shapes
<1>12. Copied
  <2>1. {i \in inodes : i.dir} = inodes
    BY <1>1 DEF Root, LostFound
  <2>2. /\ csum = cnt /\ sb.ndir = 2
        /\ sb.nifree = NumGroups * InodesPerGroup - 4
    BY DEF Init
  <2>3. NumGroups * InodesPerGroup - 4 = NumGroups * InodesPerGroup - 2 - Cardinality(inodes)
    BY <1>3, LocalsFinite
  <2>4. QED BY <1>1, <1>3, <2>1, <2>2, <2>3 DEF Copied
<1>13. QED BY <1>6, <1>10, <1>11, <1>12 DEF InodeInv

LEMMA NextInv == InodeInv /\ [Next]_vars => InodeInv'
<1> SUFFICES ASSUME InodeInv, [Next]_vars PROVE InodeInv'
  OBVIOUS
<1>1. CASE \E g \in Groups, dir \in BOOLEAN, io \in IO : AllocateInode(g, dir, io)
  BY <1>1, AllocatePreserves
<1>2. CASE \E ino \in inodes \ {Root, LostFound}, io \in IO : FreeInode(ino, io)
  BY <1>2, FreePreserves
<1>3. CASE UNCHANGED vars
  BY <1>3 DEF vars, InodeInv, Shapes, Holders, Counted, Copied, Held
<1>4. QED BY <1>1, <1>2, <1>3 DEF Next

THEOREM SpecInv == Spec => []InodeInv
BY InitInv, NextInv, PTL DEF Spec

\* No inode or directory counter of a group ever wraps below zero.
THEOREM Typed == Spec => []TypeOK
BY InvGives, SpecInv, PTL

\* cs_nifree and cs_ndir agree with the used map and the inodes handed out.
THEOREM CountersAgree == Spec => []CountersMatch
BY InvGives, SpecInv, PTL

\* The summary table and the totals follow while every write succeeds.
THEOREM SummariesFollow == Spec => []SummariesConsistent
BY InvGives, SpecInv, PTL

\* An inode is handed to one caller at a time and the used map marks exactly
\* what is reserved, held or lost.
THEOREM SingleHolder == Spec => []OneHolder
BY InvGives, SpecInv, PTL

\* A group refuses only when it is full: the counter the refusal is based on
\* is zero exactly when the map is full (alloc.c:49-71).
THEOREM TruthfulENOSPC == Spec => []NoFalseENOSPC
<1>1. InodeInv => NoFalseENOSPC
  <2> SUFFICES ASSUME InodeInv, NEW g \in Groups
               PROVE  CanAllocate(g) <=> iused[g] # Locals
    BY DEF NoFalseENOSPC
  <2>1. iused[g] \in SUBSET Locals /\ cnt[g].nifree = InodesPerGroup - Cardinality(iused[g])
    BY DEF InodeInv, Shapes, Counted
  <2>2. /\ Cardinality(iused[g]) <= InodesPerGroup /\ Cardinality(iused[g]) \in Nat
        /\ Cardinality(iused[g]) = InodesPerGroup => iused[g] = Locals
    BY <2>1, LocalsFinite, FS_Subset, FS_CardinalityType
  <2>3. iused[g] = Locals => cnt[g].nifree = 0
    BY <2>1, LocalsFinite
  <2>4. cnt[g].nifree = 0 => iused[g] = Locals
    BY <2>1, <2>2, LocalsFinite
  <2>5. Candidates(g) # {} <=> iused[g] # Locals
    BY <2>1 DEF Candidates
  <2>6. QED BY <2>3, <2>4, <2>5 DEF CanAllocate
<1>2. QED BY <1>1, SpecInv, PTL
=============================================================================
