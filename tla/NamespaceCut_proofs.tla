------------------------ MODULE NamespaceCut_proofs ------------------------
(***************************************************************************)
(* What a call that is cut short leaves behind.  A call of Namespace writes *)
(* the image some ten times; CutLosesNoName speaks of the image after any  *)
(* of these writes.  Each such image is described by a tree of its own:    *)
(* its entries T and its directories D, which a walk from the root finds   *)
(* whatever is written where the walk does not come.                       *)
(***************************************************************************)
EXTENDS Namespace_proofs

-----------------------------------------------------------------------------
(* An image and the tree a walk finds on it.                               *)

Leads(T) == {e[3] : e \in T}
Met(T)   == {e[3] : e \in T} \cup {Root}

\* The entries T lead from the root to each of the directories D.
Led(T, D) ==
    \A S \in SUBSET Inodes :
        /\ Root \in S
        /\ \A d \in D, n \in Names, i \in Inodes : d \in S /\ <<d, n, i>> \in T => i \in S
        => D \subseteq S

Plan(T, D) ==
    /\ T \subseteq Edge /\ D \subseteq Inodes /\ Root \in D /\ D \subseteq Met(T)
    /\ \A d \in Inodes, n \in Names, i \in Inodes : <<d, n, i>> \in T => d \in D
    /\ Led(T, D)

\* The directories D of the image x list T.
Shows(x, T, D) ==
    \A d \in D :
        /\ \A e \in ListOf(x, x.inode[d]) : e = <<e[1], e[2]>> /\ <<d, e[1], e[2]>> \in T
        /\ \A n \in Names, i \in Inodes : <<d, n, i>> \in T => <<n, i>> \in ListOf(x, x.inode[d])

\* What the walk meets has storage of its own, marked used but for that of g.
Apart(x, T, g) ==
    /\ \A i \in Met(T) : i # g /\ x.inode[i].run # 0 => x.inode[i].run \in x.rused
    /\ \A i, j \in Met(T) :
          x.inode[i].run = x.inode[j].run /\ x.inode[i].run # 0 => i = j

\* A walk finds the tree.
Stands(x, T, D, g) ==
    /\ Typed(x) /\ Stored(x)
    /\ \A i \in Met(T) : IsDir(x, i) <=> i \in D
    /\ Shows(x, T, D) /\ Apart(x, T, g)

\* What is watched for during a call: that each image after the first so many
\* (from) is one of the trees, whose files all but the late ones have a link
\* for each name, and which leave alone the inode that is new.
NoNode == [no |-> 0, ino |-> Cleared]

\* What the walk meets is in use, and all files but the late have a link for
\* each name.
Used(x, w, T) ==
    \A i \in Met(T) :
        /\ i \in x.iused /\ x.inode[i].kind # "free"
        /\ IsDir(x, i) \/ i \in w.late \/ x.inode[i].nlink >= Cardinality(NamesOf(T, i))

\* The new inode is as it was written, and its storage is no one else's.
Beside(x, w, T) ==
    w.new.no \in Inodes =>
        /\ x.inode[w.new.no] = w.new.ino
        /\ \A i \in Met(T) : i # w.new.no /\ x.inode[i].run = w.new.ino.run => x.inode[i].run = 0

Fit(x, w, T, D) ==
    Plan(T, D) /\ Used(x, w, T) /\ Beside(x, w, T) /\ \E g \in Inodes : Stands(x, T, D, g)

LEMMA MetIn ==
    ASSUME NEW T, T \subseteq Edge
    PROVE  /\ Met(T) \subseteq Inodes /\ Root \in Met(T) /\ Leads(T) \subseteq Met(T)
           /\ \A i \in Met(T) : i # Root => i \in Leads(T)
           /\ \A i \in Leads(T) : \E d \in Inodes, n \in Names : <<d, n, i>> \in T
           /\ \A d \in Inodes, n \in Names, i \in Inodes :
                 <<d, n, i>> \in T => i \in Leads(T) /\ i \in Met(T)
<1>1. ASSUME NEW i \in Leads(T) PROVE \E d \in Inodes, n \in Names : <<d, n, i>> \in T
  <2>1. PICK e \in T : i = e[3]
    BY DEF Leads
  <2>2. e = <<e[1], e[2], e[3]>> /\ e[1] \in Inodes /\ e[2] \in Names
    BY Triple
  <2>3. QED BY <2>1, <2>2
<1>2. Leads(T) \subseteq Inodes
  BY Triple DEF Leads
<1>3. ASSUME NEW d \in Inodes, NEW n \in Names, NEW i \in Inodes, <<d, n, i>> \in T
      PROVE  i \in Leads(T)
  <2>1. <<d, n, i>>[3] = i
    OBVIOUS
  <2>2. QED BY <1>3, <2>1 DEF Leads
<1>4. Met(T) = Leads(T) \cup {Root}
  BY DEF Met, Leads
<1>5. QED BY <1>1, <1>2, <1>3, <1>4, RootInode

LEMMA StandsWalk ==
    ASSUME NEW x, NEW T, NEW D, NEW g, Plan(T, D), Stands(x, T, D, g)
    PROVE  Tree(x) = T /\ Dirs(x) = D
<1>1. PICK R : R = Reachable(x)
  OBVIOUS
<1>2. /\ R \in SUBSET Inodes /\ Root \in R /\ Closed(x, R)
      /\ \A S : Root \in S /\ Closed(x, S) => R \subseteq S
  BY <1>1, ReachableFacts DEF Stands
<1>3. T \subseteq Edge /\ D \subseteq Inodes /\ D \subseteq Met(T)
  BY DEF Plan
<1>4. R \subseteq Met(T)
  <2>1. ASSUME NEW d \in Met(T), IsDir(x, d), NEW e \in ListOf(x, x.inode[d])
        PROVE  e[2] \in Met(T)
    <3>1. <<d, e[1], e[2]>> \in T
      BY <2>1 DEF Stands, Shows
    <3>2. <<d, e[1], e[2]>>[3] = e[2]
      OBVIOUS
    <3>3. QED BY <3>1, <3>2 DEF Met
  <2>2. QED BY <1>2, <1>3, <2>1, MetIn DEF Closed
<1>5. ASSUME NEW d \in D, d \in R, NEW n \in Names, NEW i \in Inodes, <<d, n, i>> \in T
      PROVE  i \in R
  <2>1. IsDir(x, d) /\ <<n, i>> \in ListOf(x, x.inode[d])
    BY <1>3, <1>5 DEF Stands, Shows
  <2>2. <<n, i>>[2] \in R
    BY <1>2, <1>5, <2>1 DEF Closed
  <2>3. QED BY <2>2
<1>6. D \subseteq R
  BY <1>2, <1>5 DEF Plan, Led
<1>7. Dirs(x) = D
  BY <1>1, <1>3, <1>4, <1>6 DEF Dirs, Stands
<1>8. ASSUME NEW e \in Tree(x) PROVE e \in T
  <2>1. PICK d \in D : e \in EdgesOf(x, d)
    BY <1>7 DEF Tree
  <2>2. PICK f \in ListOf(x, x.inode[d]) : e = <<d, f[1], f[2]>>
    BY <2>1 DEF EdgesOf
  <2>3. QED BY <2>2 DEF Stands, Shows
<1>9. ASSUME NEW e \in T PROVE e \in Tree(x)
  <2>1. e = <<e[1], e[2], e[3]>> /\ e[1] \in Inodes /\ e[2] \in Names /\ e[3] \in Inodes
    BY <1>3, Triple
  <2>2. e[1] \in D
    BY <2>1 DEF Plan
  <2>3. <<e[2], e[3]>> \in ListOf(x, x.inode[e[1]])
    BY <2>1, <2>2 DEF Stands, Shows
  <2>4. <<e[1], e[2], e[3]>> \in EdgesOf(x, e[1])
    <3>1. PICK f : f = <<e[2], e[3]>>
      OBVIOUS
    <3>2. f[1] = e[2] /\ f[2] = e[3] /\ f \in ListOf(x, x.inode[e[1]])
      BY <2>3, <3>1
    <3>3. <<e[1], f[1], f[2]>> \in EdgesOf(x, e[1])
      BY <3>2 DEF EdgesOf
    <3>4. QED BY <3>2, <3>3
  <2>5. QED BY <1>7, <2>1, <2>2, <2>4 DEF Tree
<1>10. QED BY <1>7, <1>8, <1>9

-----------------------------------------------------------------------------
(* The property of one image.                                              *)

\* What CutLosesNoName asks of an image with the tree and the directories dirs.
Kept(x, tree, dirs, c, how) ==
    LET named == {e[3] : e \in tree}
        runs  == {x.inode[i].run : i \in named} \ {0}
    IN  /\ c.spared \subseteq tree
        /\ c.either # {} => c.either \cap tree # {}
        /\ \A d \in c.dirs : d \in dirs \/ d \notin named
        /\ Cardinality(runs \ x.rused) <= 1
        /\ \A i, j \in named \cup {Root} :
              x.inode[i].run = x.inode[j].run /\ i # j => x.inode[i].run = 0
        /\ how = "cut" =>
              \A i \in named :
                  /\ i \in x.iused /\ x.inode[i].kind # "free"
                  /\ ~IsDir(x, i) => \/ x.inode[i].nlink >= Cardinality(NamesOf(tree, i))
                                     \/ i \in {e[3] : e \in c.either}
Fine(x, c, how) == Kept(x, Tree(x), Dirs(x), c, how)

Harmless(x, c, how) ==
    how \in {"cut", "undone"} =>
        LET sound == WithoutLast(x, c.unwritten)
        IN  Fine(sound, c, how) /\ Tree(sound) \subseteq Tree(x)

LEMMA CutIs ==
    /\ CutLosesNoName <=> Harmless(disk, cut, damage)
    /\ CutLosesNoName' <=> Harmless(disk', cut', damage')
<1>1. CutLosesNoName <=> Harmless(disk, cut, damage)
  BY DEF CutLosesNoName, Harmless, Fine, Kept, NamesOf
<1>2. CutLosesNoName' <=> Harmless(disk', cut', damage')
  BY DEF CutLosesNoName, Harmless, Fine, Kept, NamesOf
<1>3. QED BY <1>1, <1>2

\* What a block that was not written lists hides nothing.
LEMMA ListsGrow ==
    ASSUME NEW x, NEW y, Typed(x), Stored(x), Typed(y), Stored(y), x.inode = y.inode,
           \A d \in Inodes : IsDir(y, d) => ListOf(y, y.inode[d]) \subseteq ListOf(x, x.inode[d])
    PROVE  Tree(y) \subseteq Tree(x)
<1>1. \A d \in Inodes : IsDir(x, d) <=> IsDir(y, d)
  BY DEF IsDir
<1>2. /\ Reachable(y) \in SUBSET Inodes
      /\ \A S : Root \in S /\ Closed(y, S) => Reachable(y) \subseteq S
  BY ReachableFacts
<1>3. Reachable(x) \in SUBSET Inodes /\ Root \in Reachable(x) /\ Closed(x, Reachable(x))
  BY ReachableFacts
<1>4. Closed(y, Reachable(x))
  BY <1>1, <1>3 DEF Closed
<1>5. Reachable(y) \subseteq Reachable(x)
  BY <1>2, <1>3, <1>4
<1>6. ASSUME NEW e \in Tree(y) PROVE e \in Tree(x)
  <2>1. PICK d \in Dirs(y) : e \in EdgesOf(y, d)
    BY <1>6 DEF Tree
  <2>2. d \in Inodes /\ d \in Dirs(x) /\ IsDir(y, d)
    BY <1>1, <1>2, <1>5 DEF Dirs
  <2>3. EdgesOf(y, d) \subseteq EdgesOf(x, d)
    BY <2>2 DEF EdgesOf
  <2>4. QED BY <2>1, <2>2, <2>3 DEF Tree
<1>7. QED BY <1>6

\* The image a call leaves is fine when what was written of it is.
LEMMA LeftCut ==
    ASSUME NEW z, Typed(z), Stored(z), NEW spared, NEW either, LeftAs(z, spared, either),
           Fine(Settled(z), cut', damage')
    PROVE  CutLosesNoName'
<1>1. PICK y \in Disk : y = Settled(z)
  BY SettledTyped
<1>2. PICK stale \in Stale(y) : disk' = Exposed(y, stale)
  BY <1>1 DEF LeftAs
<1>3. PICK x \in Disk :
         /\ x = disk' /\ x.inode = y.inode /\ WithoutLast(x, Unwritten(y)) = y
         /\ \A r \in Runs : /\ DOMAIN y.content[r].blocks \subseteq DOMAIN x.content[r].blocks
                            /\ \A k \in DOMAIN y.content[r].blocks :
                                  x.content[r].blocks[k] = y.content[r].blocks[k]
  BY <1>2, ExposedIs
<1>4. cut'.unwritten = Unwritten(y)
  BY <1>1 DEF LeftAs
<1>5. Typed(x) /\ Typed(y) /\ Stored(y)
  <2>1. y.inode = z.inode
    BY <1>1 DEF Settled
  <2>2. QED BY <2>1, DiskTyped DEF Stored, IsDir
<1>6. Stored(x)
  BY <1>3, <1>5 DEF Stored, IsDir
<1>7. ASSUME NEW d \in Inodes, IsDir(y, d)
      PROVE  ListOf(y, y.inode[d]) \subseteq ListOf(x, x.inode[d])
  <2>1. PICK b, c : b = y.content[y.inode[d].run].blocks /\ c = x.content[x.inode[d].run].blocks
    OBVIOUS
  <2>2. DOMAIN b \subseteq DOMAIN c /\ \A k \in DOMAIN b : c[k] = b[k]
    BY <1>3, <1>5, <1>7, <2>1 DEF Stored
  <2>3. ASSUME NEW e \in ListOf(y, y.inode[d]) PROVE e \in ListOf(x, x.inode[d])
    <3>0. ListOf(y, y.inode[d])
            = UNION {{<<n, b[l][n]>> : n \in DOMAIN b[l]} : l \in 1..y.inode[d].size \cap DOMAIN b}
      BY ONLY <2>1 DEF ListOf
    <3>1. PICK k \in 1..y.inode[d].size \cap DOMAIN b : e \in {<<n, b[k][n]>> : n \in DOMAIN b[k]}
      BY ONLY <2>3, <3>0
    <3>2. k \in 1..x.inode[d].size \cap DOMAIN c /\ e \in {<<n, c[k][n]>> : n \in DOMAIN c[k]}
      BY <1>3, <2>2, <3>1
    <3>3. ListOf(x, x.inode[d])
            = UNION {{<<n, c[l][n]>> : n \in DOMAIN c[l]} : l \in 1..x.inode[d].size \cap DOMAIN c}
      BY ONLY <2>1 DEF ListOf
    <3>4. QED BY ONLY <3>2, <3>3
  <2>4. QED BY <2>3
<1>8. Tree(y) \subseteq Tree(x)
  BY <1>3, <1>5, <1>6, <1>7, ListsGrow
<1>9. QED BY <1>1, <1>3, <1>4, <1>8, CutIs DEF Harmless

\* The tree T with the directories D has what the call c may not lose.
Suits(T, D, c) ==
    /\ c.spared \subseteq T
    /\ c.either # {} => c.either \cap T # {}
    /\ \A d \in c.dirs : d \in D \/ d \notin Leads(T)

LEMMA FineOf ==
    ASSUME NEW x, NEW T, NEW D, NEW g \in Inodes, Plan(T, D), Stands(x, T, D, g),
           NEW c, Suits(T, D, c), NEW how, NEW w,
           how = "cut" => w.late = Leads(c.either) /\ Used(x, w, T)
    PROVE  Fine(x, c, how)
<1>1. Tree(x) = T /\ Dirs(x) = D
  BY StandsWalk
<1>2. Leads(T) \subseteq Met(T) /\ Root \in Met(T)
  BY MetIn DEF Plan
<1> DEFINE runs == {x.inode[i].run : i \in Leads(T)} \ {0}
<1>3. Cardinality(runs \ x.rused) <= 1
  <2>1. runs \ x.rused \subseteq {x.inode[g].run}
    BY <1>2 DEF Stands, Apart
  <2> HIDE DEF runs
  <2>2. IsFiniteSet({x.inode[g].run}) /\ Cardinality({x.inode[g].run}) = 1
    BY FS_Singleton
  <2>3. Cardinality(runs \ x.rused) <= Cardinality({x.inode[g].run})
    BY <2>1, <2>2, FS_Subset
  <2>4. QED BY <2>2, <2>3
<1>4. \A i, j \in Leads(T) \cup {Root} :
         x.inode[i].run = x.inode[j].run /\ i # j => x.inode[i].run = 0
  BY <1>2 DEF Stands, Apart
<1>5. how = "cut" =>
         \A i \in Leads(T) :
             /\ i \in x.iused /\ x.inode[i].kind # "free"
             /\ ~IsDir(x, i) => \/ x.inode[i].nlink >= Cardinality(NamesOf(T, i))
                                \/ i \in Leads(c.either)
  BY <1>2 DEF Used
<1>6. Kept(x, T, D, c, how)
  BY <1>3, <1>4, <1>5 DEF Kept, Suits, Leads
<1>7. QED BY <1>1, <1>6 DEF Fine

-----------------------------------------------------------------------------
(* Writes where the walk does not come.                                    *)

\* What the walk meets and lists is the same in x and y.
Alike(x, y, T, D) ==
    /\ \A i \in Met(T) :
          /\ y.inode[i].kind = x.inode[i].kind /\ (i \in x.iused => i \in y.iused)
          /\ IsDir(x, i) \/ y.inode[i].nlink >= x.inode[i].nlink
    /\ \A d \in D : ListOf(y, y.inode[d]) = ListOf(x, x.inode[d])

\* So is its storage.
Held(x, y, T) ==
    \A i \in Met(T) :
        /\ y.inode[i].run = x.inode[i].run
        /\ x.inode[i].run # 0 /\ x.inode[i].run \in x.rused => x.inode[i].run \in y.rused

LEMMA SameList ==
    ASSUME NEW x, NEW y, NEW ino, y.content[ino.run] = x.content[ino.run]
    PROVE  ListOf(y, ino) = ListOf(x, ino)
<1>1. PICK c : c = x.content[ino.run]
  OBVIOUS
<1>2. y.content[ino.run] = c
  BY <1>1
<1>3. QED BY ONLY <1>1, <1>2 DEF ListOf

LEMMA AlikeStands ==
    ASSUME NEW x, NEW T, NEW D, NEW g, Plan(T, D), Stands(x, T, D, g),
           NEW y, Typed(y), Stored(y), Alike(x, y, T, D), NEW h, Apart(y, T, h)
    PROVE  Stands(y, T, D, h)
<1>1. \A i \in Met(T) : IsDir(y, i) <=> i \in D
  BY DEF Alike, Stands, IsDir
<1>2. Shows(y, T, D)
  BY DEF Alike, Stands, Shows
<1>3. QED BY <1>1, <1>2 DEF Stands

LEMMA HeldApart ==
    ASSUME NEW x, NEW T, NEW g, Apart(x, T, g), NEW y, Held(x, y, T)
    PROVE  Apart(y, T, g)
  BY DEF Apart, Held

LEMMA AlikeUsed ==
    ASSUME NEW x, NEW w, NEW T, NEW D, T \subseteq Edge, Typed(x), Used(x, w, T),
           NEW y, Typed(y), Alike(x, y, T, D)
    PROVE  Used(y, w, T)
<1>1. ASSUME NEW i \in Met(T)
      PROVE  /\ i \in y.iused /\ y.inode[i].kind # "free"
             /\ IsDir(y, i) \/ i \in w.late \/ y.inode[i].nlink >= Cardinality(NamesOf(T, i))
  <2>1. i \in Inodes
    BY MetIn
  <2>2. x.inode[i].nlink \in Int /\ y.inode[i].nlink \in Int
    BY <2>1, InodeTyped
  <2>3. IsFiniteSet(NamesOf(T, i)) /\ Cardinality(NamesOf(T, i)) \in Nat
    <3>1. NamesOf(T, i) \subseteq Edge
      BY DEF NamesOf
    <3>2. QED BY <3>1, EdgeFinite, FS_CardinalityType
  <2>4. PICK a, b, c : a = x.inode[i].nlink /\ b = y.inode[i].nlink /\ c = Cardinality(NamesOf(T, i))
    OBVIOUS
  <2>5. a \in Int /\ b \in Int /\ c \in Int
    BY <2>2, <2>3, <2>4
  <2>6. /\ i \in y.iused /\ y.inode[i].kind # "free" /\ (IsDir(y, i) <=> IsDir(x, i))
        /\ IsDir(x, i) \/ b >= a
        /\ IsDir(x, i) \/ i \in w.late \/ a >= c
    BY <2>4 DEF Alike, Used, IsDir
  <2>7. b >= a /\ a >= c => b >= c
    BY <2>5
  <2>8. QED BY <2>4, <2>6, <2>7 DEF Alike, Used, IsDir
<1>2. QED BY <1>1 DEF Used

LEMMA AlikeFit ==
    ASSUME NEW x, NEW w, NEW T, NEW D, Fit(x, w, T, D),
           NEW y, Typed(y), Stored(y), Alike(x, y, T, D), Held(x, y, T), Beside(y, w, T)
    PROVE  Fit(y, w, T, D)
<1>1. Plan(T, D) /\ Used(x, w, T) /\ T \subseteq Edge
  BY DEF Fit, Plan
<1>2. PICK g \in Inodes : Stands(x, T, D, g)
  BY DEF Fit
<1>3. Apart(y, T, g)
  BY <1>2, HeldApart DEF Stands
<1>4. Stands(y, T, D, g)
  BY <1>1, <1>2, <1>3, AlikeStands
<1>5. Used(y, w, T)
  BY <1>1, <1>2, AlikeUsed DEF Stands
<1>6. QED BY <1>1, <1>4, <1>5 DEF Fit

LEMMA Settles ==
    ASSUME NEW x, NEW T, NEW D, NEW g, Plan(T, D), Stands(x, T, D, g)
    PROVE  Stands(Settled(x), T, D, g) /\ \A w : Used(x, w, T) => Used(Settled(x), w, T)
<1>1. PICK y : y = Settled(x)
  OBVIOUS
<1>2. Typed(x) /\ Stored(x) /\ Apart(x, T, g)
  BY DEF Stands
<1>3. Typed(y)
  BY <1>1, <1>2, SettledTyped, DiskTyped
<1>4. y.inode = x.inode /\ y.iused = x.iused /\ y.rused = x.rused
  BY <1>1 DEF Settled
<1>5. Stored(y) /\ Apart(y, T, g)
  BY <1>2, <1>4 DEF Stored, IsDir, Apart
<1>6. ASSUME NEW d \in D PROVE ListOf(y, y.inode[d]) = ListOf(x, x.inode[d])
  <2>1. d \in Inodes /\ IsDir(x, d)
    BY DEF Plan, Stands
  <2>2. x.inode[d].run \in Runs
    BY <1>2, <2>1 DEF Stored
  <2>3. y.content[x.inode[d].run] = x.content[x.inode[d].run]
    BY <1>1, <2>1, <2>2 DEF Settled
  <2>4. QED BY <1>4, <2>3 DEF ListOf
<1>7. T \subseteq Edge /\ \A i \in Met(T) : x.inode[i].nlink \in Int
  BY <1>2, MetIn, InodeTyped DEF Plan
<1>8. Alike(x, y, T, D)
  BY <1>4, <1>6, <1>7 DEF Alike
<1>9. QED BY <1>1, <1>2, <1>3, <1>5, <1>7, <1>8, AlikeStands, AlikeUsed

\* An image that fits a tree the call may leave is as the property asks.
LEMMA SettledFine ==
    ASSUME NEW x, NEW w, NEW T, NEW D, Fit(x, w, T, D),
           NEW c, Suits(T, D, c), w.late = Leads(c.either), NEW how
    PROVE  Fine(Settled(x), c, how)
<1>1. Plan(T, D) /\ Used(x, w, T)
  BY DEF Fit
<1>2. PICK g \in Inodes : Stands(x, T, D, g)
  BY DEF Fit
<1>3. Stands(Settled(x), T, D, g) /\ Used(Settled(x), w, T)
  BY <1>1, <1>2, Settles
<1>4. QED BY <1>1, <1>3, FineOf

\* So is one a walk finds the tree on, when the call was undone.
LEMMA SettledUndone ==
    ASSUME NEW x, NEW T, NEW D, NEW g \in Inodes, Plan(T, D), Stands(x, T, D, g),
           NEW c, Suits(T, D, c)
    PROVE  Fine(Settled(x), c, "undone")
<1>1. Stands(Settled(x), T, D, g)
  BY Settles
<1>2. QED BY <1>1, FineOf

-----------------------------------------------------------------------------
(* A call on its way: the images it went over, and the one it came to.     *)

\* The images that are watched fit one of the trees.
Passes(s, w) ==
    \A j \in (w.from + 1)..Len(s.past) : \E t \in w.trees : Fit(s.past[j], w, t[1], t[2])

Going(s, w, T, D) ==
    /\ s \in Opened /\ w.from \in Nat /\ Passes(s, w)
    /\ <<T, D>> \in w.trees /\ Fit(s, w, T, D)

\* y is s after one write.
OneWrite(s, y) == y.past = Append(s.past, Image(s))

LEMMA PutIsWrite ==
    ASSUME NEW s \in Opened, NEW t, DOMAIN t = DOMAIN s
    PROVE  OneWrite(s, Put(s, t))
<1>1. "past" \in DOMAIN t
  BY DEF Opened
<1>2. QED BY <1>1 DEF Put, OneWrite

LEMMA PrimitiveWrites ==
    ASSUME NEW s \in Opened
    PROVE  /\ \A node : OneWrite(s, WriteInode(s, node))
           /\ \A i : OneWrite(s, ClearInode(s, i)) /\ OneWrite(s, AllocInode(s, i))
           /\ \A i : OneWrite(s, FreeInode(s, i))
           /\ \A r : OneWrite(s, AllocRun(s, r)) /\ OneWrite(s, FreeRun(s, r))
           /\ \A r, c : OneWrite(s, Fill(s, r, c))
           /\ \A r, k, f : OneWrite(s, PutBlock(s, r, k, f))
<1>1. ASSUME NEW node PROVE OneWrite(s, WriteInode(s, node))
  BY PutIsWrite DEF WriteInode
<1>2. ASSUME NEW i PROVE OneWrite(s, ClearInode(s, i)) /\ OneWrite(s, AllocInode(s, i))
  BY PutIsWrite DEF ClearInode, AllocInode
<1>3. ASSUME NEW i PROVE OneWrite(s, FreeInode(s, i))
  BY PutIsWrite DEF FreeInode
<1>4. ASSUME NEW r PROVE OneWrite(s, AllocRun(s, r)) /\ OneWrite(s, FreeRun(s, r))
  BY PutIsWrite DEF AllocRun, FreeRun
<1>5. ASSUME NEW r, NEW c PROVE OneWrite(s, Fill(s, r, c))
  BY PutIsWrite DEF Fill
<1>6. ASSUME NEW r, NEW k, NEW f PROVE OneWrite(s, PutBlock(s, r, k, f))
  BY PutIsWrite DEF PutBlock
<1>7. QED BY <1>1, <1>2, <1>3, <1>4, <1>5, <1>6

LEMMA SameFit ==
    ASSUME NEW x, NEW w, NEW T, NEW D, Fit(x, w, T, D), NEW y, Typed(y),
           y.inode = x.inode, y.iused = x.iused, y.rused = x.rused, y.content = x.content
    PROVE  Fit(y, w, T, D)
<1>1. Typed(x) /\ Stored(x) /\ T \subseteq Edge
  BY DEF Fit, Stands, Plan
<1>2. Stored(y)
  BY <1>1 DEF Stored, IsDir
<1>3. \A i \in Met(T) : x.inode[i].nlink \in Int
  BY <1>1, MetIn, InodeTyped
<1>4. Alike(x, y, T, D) /\ Held(x, y, T)
  BY <1>3 DEF Alike, Held, ListOf
<1>5. Beside(y, w, T)
  BY DEF Fit, Beside
<1>6. QED BY <1>2, <1>4, <1>5, AlikeFit

LEMMA ImageFit ==
    ASSUME NEW s \in Opened, NEW w, NEW T, NEW D, Fit(s, w, T, D)
    PROVE  Fit(Image(s), w, T, D)
<1>1. PICK y : y = Image(s)
  OBVIOUS
<1>2. y \in Disk /\ y.inode = s.inode /\ y.iused = s.iused /\ y.rused = s.rused
      /\ y.content = s.content
  BY <1>1 DEF Image, Opened, Disk
<1>3. Typed(y)
  BY <1>2, DiskTyped
<1>4. QED BY <1>1, <1>2, <1>3, SameFit

\* One more write.
LEMMA GoOn ==
    ASSUME NEW s, NEW w, NEW T, NEW D, Going(s, w, T, D),
           NEW y \in Opened, OneWrite(s, y), NEW V, NEW E, <<V, E>> \in w.trees, Fit(y, w, V, E)
    PROVE  Going(y, w, V, E)
<1>1. s \in Opened /\ Passes(s, w) /\ <<T, D>> \in w.trees /\ Fit(s, w, T, D) /\ w.from \in Nat
  BY DEF Going
<1>2. s.past \in Seq(Disk) /\ Len(s.past) \in Nat /\ Image(s) \in Disk
  BY <1>1 DEF Opened, Image, Disk
<1>3. /\ Len(y.past) = Len(s.past) + 1 /\ y.past[Len(s.past) + 1] = Image(s)
      /\ \A j \in 1..Len(s.past) : y.past[j] = s.past[j]
  BY <1>2, AppendProperties DEF OneWrite
<1>4. ASSUME NEW j \in (w.from + 1)..Len(y.past)
      PROVE  \E t \in w.trees : Fit(y.past[j], w, t[1], t[2])
  <2>1. CASE j = Len(s.past) + 1
    <3>1. Fit(y.past[j], w, T, D)
      BY <1>1, <1>3, <2>1, ImageFit
    <3>2. <<T, D>>[1] = T /\ <<T, D>>[2] = D
      OBVIOUS
    <3>3. QED BY <1>1, <3>1, <3>2
  <2>2. CASE j # Len(s.past) + 1
    <3>1. j \in (w.from + 1)..Len(s.past)
      BY <1>1, <1>2, <1>3, <2>2
    <3>2. j \in 1..Len(s.past)
      BY <1>1, <1>2, <3>1
    <3>3. QED BY <1>1, <1>3, <3>1, <3>2 DEF Passes
  <2>3. QED BY <2>1, <2>2
<1>5. QED BY <1>1, <1>4 DEF Going, Passes

\* A write where the walk does not come.
LEMMA Quiet ==
    ASSUME NEW s, NEW w, NEW T, NEW D, Going(s, w, T, D),
           NEW y \in Opened, OneWrite(s, y), Stored(y), Alike(s, y, T, D), Held(s, y, T),
           Beside(y, w, T)
    PROVE  Going(y, w, T, D)
<1>1. Fit(s, w, T, D) /\ <<T, D>> \in w.trees
  BY DEF Going
<1>2. Typed(y)
  BY OpenedTyped
<1>3. Fit(y, w, T, D)
  BY <1>1, <1>2, AlikeFit
<1>4. QED BY <1>1, <1>3, GoOn

\* A write of the maps, or of a run that holds no directory of the walk.
LEMMA QuietOutside ==
    ASSUME NEW s, NEW w, NEW T, NEW D, Going(s, w, T, D),
           NEW y \in Opened, OneWrite(s, y), y.inode = s.inode,
           \A i \in Met(T) : i \in s.iused => i \in y.iused,
           \A i \in Met(T) : s.inode[i].run # 0 /\ s.inode[i].run \in s.rused
                                => s.inode[i].run \in y.rused,
           \A d \in D : y.content[s.inode[d].run] = s.content[s.inode[d].run]
    PROVE  Going(y, w, T, D)
<1>1. Typed(s) /\ Stored(s) /\ T \subseteq Edge /\ Beside(s, w, T)
  BY DEF Going, Fit, Stands, Plan
<1>2. Stored(y) /\ Beside(y, w, T)
  BY <1>1 DEF Stored, IsDir, Beside
<1>3. \A i \in Met(T) : s.inode[i].nlink \in Int
  BY <1>1, MetIn, InodeTyped
<1>4. Alike(s, y, T, D)
  <2>1. \A d \in D : ListOf(y, y.inode[d]) = ListOf(s, s.inode[d])
    BY SameList
  <2>2. \A i \in Met(T) : y.inode[i].nlink >= s.inode[i].nlink
    BY <1>3
  <2>3. QED BY <2>1, <2>2 DEF Alike
<1>5. Held(s, y, T)
  BY DEF Held
<1>6. Going(s, w, T, D) /\ y \in Opened /\ OneWrite(s, y)
  OBVIOUS
<1>7. Going(y, w, T, D)
  BY ONLY <1>2, <1>4, <1>5, <1>6, Quiet
<1>8. QED BY <1>7

LEMMA QuietAllocs ==
    ASSUME NEW s, NEW w, NEW T, NEW D, Going(s, w, T, D)
    PROVE  /\ \A i \in Inodes : Going(AllocInode(s, i), w, T, D)
           /\ \A r \in Runs : Going(AllocRun(s, r), w, T, D)
<1>1. s \in Opened
  BY DEF Going
<1>2. ASSUME NEW i \in Inodes PROVE Going(AllocInode(s, i), w, T, D)
  BY <1>1, InodeMapEffect, PrimitiveWrites, QuietOutside
<1>3. ASSUME NEW r \in Runs PROVE Going(AllocRun(s, r), w, T, D)
  BY <1>1, RunMapEffect, PrimitiveWrites, QuietOutside
<1>4. QED BY <1>2, <1>3

LEMMA QuietFill ==
    ASSUME NEW s, NEW w, NEW T, NEW D, Going(s, w, T, D),
           NEW r \in Runs, NEW c \in Content, \A d \in D : s.inode[d].run # r
    PROVE  Going(Fill(s, r, c), w, T, D)
<1>1. s \in Opened /\ Typed(s) /\ Stored(s) /\ D \subseteq Inodes /\ \A d \in D : IsDir(s, d)
  BY DEF Going, Fit, Stands, Plan
<1>2. \A d \in D : s.inode[d].run \in Runs
  BY <1>1 DEF Stored
<1>3. PICK y : y = Fill(s, r, c)
  OBVIOUS
<1>4. /\ y \in Opened /\ y.content = [s.content EXCEPT ![r] = c]
      /\ y.inode = s.inode /\ y.iused = s.iused /\ y.rused = s.rused /\ OneWrite(s, y)
  BY <1>1, <1>3, FillEffect, PrimitiveWrites
<1>5. \A d \in D : y.content[s.inode[d].run] = s.content[s.inode[d].run]
  BY <1>1, <1>2, <1>4 DEF Typed
<1>6. Going(y, w, T, D)
  <2>1. Going(s, w, T, D)
    OBVIOUS
  <2>2. /\ y \in Opened /\ OneWrite(s, y) /\ y.inode = s.inode
        /\ \A i \in Met(T) : i \in s.iused => i \in y.iused
        /\ \A i \in Met(T) : s.inode[i].run # 0 /\ s.inode[i].run \in s.rused
                                => s.inode[i].run \in y.rused
    BY <1>4
  <2>3. QED BY ONLY <1>5, <2>1, <2>2, QuietOutside
<1>7. QED BY <1>3, <1>6

\* What the walk does not meet goes, and its storage.
LEMMA QuietFrees ==
    ASSUME NEW s, NEW w, NEW T, NEW D, Going(s, w, T, D)
    PROVE  /\ \A i \in Inodes : i \notin Met(T) => Going(FreeInode(s, i), w, T, D)
           /\ \A r \in Runs :
                 (\A i \in Met(T) : s.inode[i].run # r) => Going(FreeRun(s, r), w, T, D)
<1>1. s \in Opened
  BY DEF Going
<1>2. ASSUME NEW i \in Inodes, i \notin Met(T) PROVE Going(FreeInode(s, i), w, T, D)
  BY <1>1, <1>2, InodeMapEffect, PrimitiveWrites, QuietOutside
<1>3. ASSUME NEW r \in Runs, \A i \in Met(T) : s.inode[i].run # r
      PROVE  Going(FreeRun(s, r), w, T, D)
  BY <1>1, <1>3, RunMapEffect, PrimitiveWrites, QuietOutside
<1>4. QED BY <1>2, <1>3

\* An inode the walk does not meet is written.
LEMMA QuietInode ==
    ASSUME NEW s, NEW w, NEW T, NEW D, Going(s, w, T, D),
           NEW i \in Inodes, i \notin Met(T), NEW ino \in Inode,
           ino.kind = "dir" => ino.run \in Runs, w.new.no # i,
           NEW y \in Opened, OneWrite(s, y), y.inode = [s.inode EXCEPT ![i] = ino],
           y.iused = s.iused, y.rused = s.rused, y.content = s.content
    PROVE  Going(y, w, T, D)
<1>1. Typed(s) /\ Stored(s) /\ T \subseteq Edge /\ Beside(s, w, T) /\ D \subseteq Met(T)
  BY DEF Going, Fit, Stands, Plan
<1>2. y.inode[i] = ino /\ \A j \in Inodes : j # i => y.inode[j] = s.inode[j]
  BY <1>1 DEF Typed
<1>3. \A j \in Met(T) : j \in Inodes /\ y.inode[j] = s.inode[j] /\ s.inode[j].nlink \in Int
  BY <1>1, <1>2, MetIn, InodeTyped
<1>4. Stored(y)
  BY <1>1, <1>2 DEF Stored, IsDir
<1>5. Beside(y, w, T)
  BY <1>1, <1>2, <1>3 DEF Beside
<1>6. Alike(s, y, T, D)
  <2>1. \A d \in D : ListOf(y, y.inode[d]) = ListOf(s, s.inode[d])
    BY <1>1, <1>3, SameList
  <2>2. \A j \in Met(T) : y.inode[j].nlink >= s.inode[j].nlink
    BY <1>3
  <2>3. QED BY <1>3, <2>1, <2>2 DEF Alike
<1>7. Held(s, y, T)
  BY <1>3 DEF Held
<1>8. Going(s, w, T, D) /\ y \in Opened /\ OneWrite(s, y)
  OBVIOUS
<1>9. Going(y, w, T, D)
  BY ONLY <1>4, <1>5, <1>6, <1>7, <1>8, Quiet
<1>10. QED BY <1>9

-----------------------------------------------------------------------------
(* Images the invariant of the calls describes.                            *)

\* What is met is in use, the directories are as the tree has them, and files
\* have their links.
Counted(s, w, T, D) ==
    \A i \in Met(T) :
        /\ IsDir(s, i) <=> i \in D
        /\ i \in s.iused
        /\ IsDir(s, i) \/ i \in w.late \/ s.inode[i].nlink >= Cardinality(NamesOf(T, i))

LEMMA BaseStands ==
    ASSUME NEW s, NEW T, NEW U, Base(s, T, U), NEW D, Plan(T, D),
           \A i \in Met(T) : IsDir(s, i) <=> i \in D, NEW g
    PROVE  Stands(s, T, D, g)
<1>1. Typed(s) /\ Stored(s) /\ T \subseteq Edge /\ D \subseteq Inodes /\ D \subseteq Met(T)
  BY OwnedStored DEF Base, Plan
<1>2. Met(T) \subseteq Inodes
  BY <1>1, MetIn
<1>3. Shows(s, T, D)
  <2>1. ASSUME NEW d \in D
        PROVE  /\ \A e \in ListOf(s, s.inode[d]) : e = <<e[1], e[2]>> /\ <<d, e[1], e[2]>> \in T
               /\ \A n \in Names, i \in Inodes :
                     <<d, n, i>> \in T => <<n, i>> \in ListOf(s, s.inode[d])
    BY <1>1, ListedFacts DEF Base
  <2>2. QED BY <2>1 DEF Shows
<1>4. \A i \in Inodes : s.inode[i].run # 0 => s.inode[i].run \in s.rused
  BY <1>1, InodeTyped DEF Base, Owned
<1>5. \A i, j \in Inodes : s.inode[i].run = s.inode[j].run /\ s.inode[i].run # 0 => i = j
  BY DEF Base, Owned
<1>6. Apart(s, T, g)
  BY <1>2, <1>4, <1>5 DEF Apart
<1>7. QED BY <1>1, <1>3, <1>6 DEF Stands

LEMMA BaseFit ==
    ASSUME NEW s, NEW w, NEW T, NEW U, Base(s, T, U), NEW D, Plan(T, D), Counted(s, w, T, D),
           Beside(s, w, T)
    PROVE  Fit(s, w, T, D)
<1>1. Stands(s, T, D, Root)
  BY BaseStands DEF Counted
<1>2. \A i \in Met(T) : s.inode[i].kind # "free"
  BY DEF Base, Owned, Counted
<1>3. Used(s, w, T)
  BY <1>2 DEF Used, Counted
<1>4. QED BY <1>1, <1>3, RootInode DEF Fit

LEMMA BesideBase ==
    ASSUME NEW s, NEW w, NEW T, NEW U, Base(s, T, U),
           w.new.no \in Inodes => s.inode[w.new.no] = w.new.ino, NEW V, V \subseteq Edge
    PROVE  Beside(s, w, V)
<1>1. Met(V) \subseteq Inodes
  BY MetIn
<1>2. \A i, j \in Inodes : s.inode[i].run = s.inode[j].run /\ s.inode[i].run # 0 => i = j
  BY DEF Base, Owned
<1>3. QED BY <1>1, <1>2 DEF Beside

LEMMA PlanOf ==
    ASSUME NEW T, NEW K, NEW U, NEW C, TreeOK(T, K, U, C), NEW D, D = {d \in Inodes : K[d] = "dir"}
    PROVE  Plan(T, D)
<1>1. /\ T \subseteq Edge /\ D \subseteq Inodes /\ Root \in D /\ U \in [Inodes -> Inodes]
      /\ \A d \in Inodes, n \in Names, i \in Inodes : <<d, n, i>> \in T => d \in D
  BY RootInode DEF TreeOK, Shape
<1>2. ASSUME NEW d \in D, d # Root PROVE d \in Met(T)
  <2>1. d \in Inodes /\ K[d] = "dir"
    BY <1>2
  <2>2. PICK n \in Names : <<U[d], n, d>> \in T /\ U[d] \in Inodes
    BY <1>2, <2>1, ParentFacts
  <2>3. QED BY <1>1, <2>1, <2>2, MetIn
<1>3. D \subseteq Met(T)
  BY <1>1, <1>2, MetIn
<1>4. ASSUME NEW S \in SUBSET Inodes, Root \in S,
             \A d \in D, n \in Names, i \in Inodes : d \in S /\ <<d, n, i>> \in T => i \in S
      PROVE  D \subseteq S
  <2>1. ASSUME NEW d \in D \ S PROVE K[d] = "dir" /\ d # Root /\ U[d] \in D \ S
    <3>1. d \in Inodes /\ K[d] = "dir" /\ d # Root
      BY <1>4
    <3>2. PICK n \in Names : <<U[d], n, d>> \in T /\ U[d] \in Inodes /\ K[U[d]] = "dir"
      BY <3>1, ParentFacts
    <3>3. U[d] \notin S
      BY <1>4, <3>1, <3>2
    <3>4. QED BY <3>1, <3>2, <3>3
  <2>2. D \ S \in SUBSET Inodes
    BY <1>1
  <2>3. D \ S = {}
    BY <2>1, <2>2 DEF TreeOK, Shape, Rooted
  <2>4. QED BY <2>3
<1>5. QED BY <1>1, <1>3, <1>4 DEF Plan, Led

\* A sound image is a tree.
LEMMA SoundPlan ==
    ASSUME NEW s, Typed(s), NEW T, NEW U, Sound(s, T, U), NEW w
    PROVE  Plan(T, DirSet(s)) /\ Counted(s, w, T, DirSet(s))
<1>1. Base(s, T, U) /\ TreeOK(T, Kind(s), U, LinkOf(s)) /\ T \subseteq Edge
  BY SoundParts DEF TreeOK
<1>2. DirSet(s) = {d \in Inodes : Kind(s)[d] = "dir"}
  BY KindFacts DEF DirSet, IsDir
<1>3. Plan(T, DirSet(s))
  BY <1>1, <1>2, PlanOf
<1>4. ASSUME NEW i \in Met(T)
      PROVE  /\ IsDir(s, i) <=> i \in DirSet(s)
             /\ i \in s.iused
             /\ IsDir(s, i) \/ i \in w.late \/ s.inode[i].nlink >= Cardinality(NamesOf(T, i))
  <2>1. i \in Inodes
    BY <1>1, MetIn
  <2>2. s.inode[i].kind # "free"
    <3>1. CASE i = Root
      BY <1>1, <2>1, <3>1, KindFacts DEF TreeOK, Shape
    <3>2. CASE i # Root
      <4>1. PICK d \in Inodes, n \in Names : <<d, n, i>> \in T
        BY <1>1, <3>2, MetIn
      <4>2. QED BY <1>1, <2>1, <4>1, KindFacts DEF TreeOK, Shape
    <3>3. QED BY <3>1, <3>2
  <2>3. i \in s.iused
    BY <1>1, <2>1, <2>2 DEF Base, Owned, Cleared
  <2>4. ~IsDir(s, i) => s.inode[i].nlink = Cardinality(NamesOf(T, i))
    <3>1. Kind(s)[i] = s.inode[i].kind /\ LinkOf(s)[i] = s.inode[i].nlink
      BY <2>1 DEF Kind, LinkOf
    <3>2. QED BY <1>1, <2>1, <2>2, <3>1 DEF TreeOK, Counts, IsDir
  <2>5. s.inode[i].nlink \in Int
    BY <1>1, <2>1, InodeTyped
  <2>6. QED BY <2>1, <2>3, <2>4, <2>5 DEF DirSet
<1>5. QED BY <1>3, <1>4 DEF Counted

\* A new name.
NewName(V, T, p, n, i) == V = T \cup {<<p, n, i>>}

LEMMA PlanName ==
    ASSUME NEW T, NEW D, Plan(T, D), NEW p, p \in D, NEW n, n \in Names, NEW i, i \in Inodes,
           NEW V, NewName(V, T, p, n, i), NEW E, E = D \/ E = D \cup {i}
    PROVE  Plan(V, E) /\ Met(V) = Met(T) \cup {i}
<1>1. T \subseteq Edge /\ D \subseteq Inodes /\ Root \in D /\ D \subseteq Met(T) /\ p \in Inodes
  BY DEF Plan
<1>2. V = T \cup {<<p, n, i>>} /\ V \subseteq Edge
  BY <1>1 DEF Edge, NewName
<1>3. Met(V) = Met(T) \cup {i}
  <2>1. <<p, n, i>>[3] = i
    OBVIOUS
  <2>2. PICK e : e = <<p, n, i>>
    OBVIOUS
  <2>3. e[3] = i /\ V = T \cup {e}
    BY <1>2, <2>1, <2>2
  <2>4. QED BY <2>3 DEF Met
<1>4. \A d \in Inodes, m \in Names, j \in Inodes :
         <<d, m, j>> \in V => d \in D /\ (<<d, m, j>> \in T \/ (d = p /\ m = n /\ j = i))
  BY <1>2 DEF Plan
<1>5. ASSUME NEW S \in SUBSET Inodes, Root \in S,
             \A d \in E, m \in Names, j \in Inodes : d \in S /\ <<d, m, j>> \in V => j \in S
      PROVE  E \subseteq S
  <2>1. \A d \in D, m \in Names, j \in Inodes : d \in S /\ <<d, m, j>> \in T => j \in S
    BY <1>2, <1>5
  <2>2. D \subseteq S
    BY <1>5, <2>1 DEF Plan, Led
  <2>3. i \in S
    BY <1>2, <1>5, <2>2
  <2>4. QED BY <1>5, <2>2, <2>3
<1>6. Led(V, E)
  BY <1>5 DEF Led
<1>7. QED BY <1>1, <1>2, <1>3, <1>4, <1>6 DEF Plan

-----------------------------------------------------------------------------
(* The parts of the calls.                                                 *)

\* No inode holds a run that is free.
LEMMA FreeRunApart ==
    ASSUME NEW s, NEW T, NEW U, Base(s, T, U), NEW r \in Runs, r \notin s.rused
    PROVE  \A i \in Inodes : s.inode[i].run # r
  BY DEF Base, Owned

\* A new inode is made where the walk does not come.
LEMMA MakeGoing ==
    ASSUME NEW s, NEW w, NEW T, NEW D, Going(s, w, T, D), NEW U, Base(s, T, U),
           NEW i \in Inodes, i \notin Met(T), w.new.no # i,
           NEW data \in BOOLEAN, NEW r, data => r \in Runs /\ r \notin s.rused, NEW c \in Content,
           NEW new \in NodeSet, new.no = i, new.ino.kind = "dir" => new.ino.run \in Runs
    PROVE  Going(MakeInode(s, i, data, r, c, new), w, T, D)
<1>1. s \in Opened /\ D \subseteq Inodes
  BY DEF Going, Fit, Plan
<1>2. PICK s1 : s1 = AllocInode(s, i)
  OBVIOUS
<1>3. Going(s1, w, T, D) /\ s1 \in Opened /\ s1.inode = s.inode
  BY <1>1, <1>2, InodeMapEffect, QuietAllocs
<1>4. PICK s2 : s2 = IF data THEN Fill(AllocRun(s1, r), r, c) ELSE s1
  OBVIOUS
<1>5. Going(s2, w, T, D) /\ s2 \in Opened
  <2>1. CASE ~data
    BY <1>3, <1>4, <2>1
  <2>2. CASE data
    <3>1. PICK y : y = AllocRun(s1, r)
      OBVIOUS
    <3>2. Going(y, w, T, D) /\ y.inode = s.inode /\ y \in Opened
      BY <1>3, <2>2, <3>1, RunMapEffect, QuietAllocs
    <3>3. \A d \in D : y.inode[d].run # r
      BY <1>1, <2>2, <3>2, FreeRunApart
    <3>4. s2 = Fill(y, r, c)
      BY <1>4, <2>2, <3>1
    <3>5. QED BY <2>2, <3>2, <3>3, <3>4, QuietFill, FillEffect
  <2>3. QED BY <2>1, <2>2
<1>6. PICK y : y = WriteInode(s2, new)
  OBVIOUS
<1>7. /\ y \in Opened /\ y.inode = [s2.inode EXCEPT ![i] = new.ino]
      /\ y.iused = s2.iused /\ y.content = s2.content /\ y.rused = s2.rused /\ OneWrite(s2, y)
  BY <1>5, <1>6, WriteInodeEffect, PrimitiveWrites
<1>8. new.ino \in Inode
  BY DEF NodeSet
<1>9. Going(y, w, T, D)
  BY <1>5, <1>7, <1>8, QuietInode
<1>10. MakeInode(s, i, data, r, c, new) = y
  BY <1>2, <1>4, <1>6 DEF MakeInode
<1>11. QED BY <1>9, <1>10

\* An inode the walk does not meet goes.
LEMMA DiscardGoing ==
    ASSUME NEW s, NEW w, NEW T, NEW D, Going(s, w, T, D), NEW node \in NodeSet,
           NEW i \in Inodes, node.no = i, i \notin Met(T), w.new.no # i,
           \A j \in Met(T) : s.inode[j].run = node.ino.run => node.ino.run = 0
    PROVE  Going(Discard(s, node), w, T, D)
<1>1. s \in Opened /\ node.ino \in Inode /\ node.ino.run \in Runs \cup {0}
  BY DEF Going, NodeSet, Inode
<1>2. PICK s1 : s1 = FreeStorage(s, node.ino)
  OBVIOUS
<1>3. Going(s1, w, T, D) /\ s1 \in Opened
  <2>1. CASE node.ino.run = 0
    BY <1>1, <1>2, <2>1 DEF FreeStorage
  <2>2. CASE node.ino.run # 0
    <3>1. s1 = FreeRun(s, node.ino.run) /\ node.ino.run \in Runs
      BY <1>1, <1>2, <2>2 DEF FreeStorage
    <3>2. \A j \in Met(T) : s.inode[j].run # node.ino.run
      BY <2>2
    <3>3. QED BY <1>1, <3>1, <3>2, QuietFrees, RunMapEffect
  <2>3. QED BY <2>1, <2>2
<1>4. PICK s2 : s2 = ClearInode(s1, i)
  OBVIOUS
<1>5. /\ s2 \in Opened /\ s2.inode = [s1.inode EXCEPT ![i] = Cleared]
      /\ s2.iused = s1.iused /\ s2.content = s1.content /\ s2.rused = s1.rused /\ OneWrite(s1, s2)
  BY <1>3, <1>4, ClearInodeEffect, PrimitiveWrites
<1>6. Cleared.kind # "dir"
  BY DEF Cleared
<1>7. Going(s2, w, T, D)
  BY <1>3, <1>5, <1>6, ClearedTyped, QuietInode
<1>8. Discard(s, node) = FreeInode(s2, i)
  BY <1>2, <1>4 DEF Discard
<1>9. QED BY <1>7, <1>8, QuietFrees

\* A write that leaves the image as the invariant of the calls has it.
LEMMA BaseGoing ==
    ASSUME NEW s, NEW w, NEW T, NEW D, Going(s, w, T, D),
           NEW y \in Opened, OneWrite(s, y), NEW V, NEW E, <<V, E>> \in w.trees,
           Plan(V, E), NEW U, Base(y, V, U), Counted(y, w, V, E),
           w.new.no \in Inodes => y.inode[w.new.no] = w.new.ino
    PROVE  Going(y, w, V, E)
<1>1. V \subseteq Edge
  BY DEF Plan
<1>2. Beside(y, w, V)
  BY <1>1, BesideBase
<1>3. Fit(y, w, V, E)
  BY <1>2, BaseFit
<1>4. QED BY <1>3, GoOn

\* Two writes, the second of what was there.
LEMMA BaseGoingTwice ==
    ASSUME NEW s, NEW w, NEW T, NEW D, Going(s, w, T, D),
           NEW x \in Opened, OneWrite(s, x), NEW y \in Opened, OneWrite(x, y),
           x.inode = y.inode, x.iused = y.iused, x.rused = y.rused, x.content = y.content,
           NEW V, NEW E, <<V, E>> \in w.trees,
           Plan(V, E), NEW U, Base(y, V, U), Counted(y, w, V, E),
           w.new.no \in Inodes => y.inode[w.new.no] = w.new.ino
    PROVE  Going(y, w, V, E)
<1>1. V \subseteq Edge
  BY DEF Plan
<1>2. Fit(y, w, V, E)
  BY <1>1, BesideBase, BaseFit
<1>3. Fit(x, w, V, E)
  BY <1>2, OpenedTyped, SameFit
<1>4. Going(x, w, V, E)
  BY <1>3, GoOn
<1>5. QED BY <1>2, <1>4, GoOn

-----------------------------------------------------------------------------
(* nextufs__insert_dirent and nextufs__remove_dirent on their way.         *)

\* The image s gets the name n for i in p: from the tree T to V.
Inserting(s, w, T, U, D, p, node, n, i, V, E) ==
    /\ Going(s, w, T, D) /\ Base(s, T, U) /\ p \in D /\ At(s, node, p)
    /\ n \in Names /\ i \in Inodes /\ NoEntry(T, p, n) /\ V = T \cup {<<p, n, i>>}
    /\ <<V, E>> \in w.trees /\ Plan(V, E) /\ Counted(s, w, V, E) /\ w.new.no # p

LEMMA InsertingFacts ==
    ASSUME NEW s, NEW w, NEW T, NEW U, NEW D, NEW p, NEW node, NEW n, NEW i, NEW V, NEW E,
           Inserting(s, w, T, U, D, p, node, n, i, V, E)
    PROVE  /\ s \in Opened /\ Typed(s) /\ p \in Inodes /\ IsDir(s, p) /\ Plan(T, D)
           /\ T \subseteq Edge /\ V \subseteq Edge /\ D \subseteq Met(T) /\ Met(T) \subseteq Inodes
           /\ \A g : Stands(s, T, D, g)
           /\ \A j \in Inodes : <<p, n, j>> \notin T
           /\ w.new.no \in Inodes => s.inode[w.new.no] = w.new.ino
<1>1. /\ s \in Opened /\ Plan(T, D) /\ T \subseteq Edge /\ V \subseteq Edge /\ D \subseteq Met(T)
      /\ p \in Inodes /\ Fit(s, w, T, D)
  BY DEF Inserting, Going, Fit, Plan
<1>2. \A j \in Met(T) : IsDir(s, j) <=> j \in D
  BY <1>1 DEF Fit, Stands
<1>3. \A g : Stands(s, T, D, g)
  BY <1>1, <1>2, BaseStands DEF Inserting
<1>4. IsDir(s, p)
  BY <1>1, <1>2 DEF Inserting
<1>5. Typed(s) /\ Met(T) \subseteq Inodes
  BY <1>1, OpenedTyped, MetIn
<1>6. w.new.no \in Inodes => s.inode[w.new.no] = w.new.ino
  BY <1>1 DEF Fit, Beside
<1>7. QED BY <1>1, <1>3, <1>4, <1>5, <1>6 DEF Inserting, NoEntry

\* The image with the new name is as counted.
LEMMA InsertedCounted ==
    ASSUME NEW s, NEW w, NEW V, NEW E, Counted(s, w, V, E), V \subseteq Edge, NEW p \in Inodes,
           NEW U, NEW node, NEW ins, Inserted(s, V, U, p, node, ins), ins.ok, w.new.no # p,
           w.new.no \in Inodes => s.inode[w.new.no] = w.new.ino
    PROVE  /\ Counted(ins.s, w, V, E)
           /\ w.new.no \in Inodes => ins.s.inode[w.new.no] = w.new.ino
<1>1. Met(V) \subseteq Inodes
  BY MetIn
<1>2. /\ ins.s.iused = s.iused
      /\ \A j \in Inodes : /\ ins.s.inode[j].kind = s.inode[j].kind
                           /\ ins.s.inode[j].nlink = s.inode[j].nlink
      /\ \A j \in Inodes : j # p => ins.s.inode[j] = s.inode[j]
  BY DEF Inserted
<1>3. Counted(ins.s, w, V, E)
  BY <1>1, <1>2 DEF Counted, IsDir
<1>4. QED BY <1>2, <1>3

LEMMA InsertInRoom ==
    ASSUME NEW s, NEW w, NEW T, NEW U, NEW D, NEW p, NEW node, NEW n, NEW i, NEW V, NEW E,
           Inserting(s, w, T, U, D, p, node, n, i, V, E), NEW way \in Ways,
           Room(InDir(s, p), s.inode[p].size) # {},
           NEW ins, ins = Insert(s, node, n, i, way), Inserted(s, V, U, p, node, ins)
    PROVE  Going(ins.s, w, V, E)
<1> DEFINE run == s.inode[p].run
           c == InDir(s, p)
           sz == s.inode[p].size
<1>1. /\ s \in Opened /\ Typed(s) /\ p \in Inodes /\ IsDir(s, p) /\ V \subseteq Edge
      /\ \A j \in Inodes : <<p, n, j>> \notin T
      /\ w.new.no \in Inodes => s.inode[w.new.no] = w.new.ino
  BY InsertingFacts
<1>2. n \in Names /\ i \in Inodes /\ Base(s, T, U) /\ At(s, node, p) /\ w.new.no # p
      /\ Going(s, w, T, D) /\ Plan(V, E) /\ <<V, E>> \in w.trees /\ Counted(s, w, V, E)
  BY DEF Inserting
<1>3. /\ run \in Runs /\ c \in Content /\ Neat(c, sz)
      /\ sz \in 0..Len(c.blocks) /\ Len(c.blocks) \in Nat
  BY <1>1, <1>2, DirFacts
<1>4. node \in NodeSet /\ node.no = p /\ node.ino = s.inode[p] /\ node.ino.run = run
      /\ node.ino.size = sz /\ c = s.content[run]
  BY <1>2 DEF At, InDir
<1>5. \A j \in Inodes : ~Has(c, sz, n, j)
  BY <1>1, <1>2 DEF Base, Lists
<1>6. PICK k : k = Lowest(Room(c, sz))
  OBVIOUS
<1>7. PICK to, moved :
         /\ to = IF way = "moved" THEN Lowest(FreeRuns(s)) ELSE run
         /\ moved = IF way = "moved"
                    THEN FreeRun(Fill(AllocRun(s, to), to, Longer(c, sz, <<>>)), run) ELSE s
  OBVIOUS
<1>8. InsertIs(s, node, n, i, way, run, c, sz, k, to, moved)
  <2> HIDE DEF c, sz, run
  <2>1. QED BY <1>4, <1>6, <1>7, InsertParts
<1>9. k \in 1..sz /\ Cardinality(DOMAIN c.blocks[k]) < BlkNames
  <2>1. Room(c, sz) \in SUBSET Nat
    BY <1>3 DEF Room
  <2>2. Lowest(Room(c, sz)) \in Room(c, sz)
    BY <2>1, LowestFacts
  <2>3. QED BY <1>6, <2>2 DEF Room
<1>10. PICK f : f = With(c.blocks[k], n, i)
  OBVIOUS
<1>11. PICK s1 : s1 = PutBlock(s, run, k, f)
  OBVIOUS
<1>12. PICK t : t = WriteInode(s1, node)
  OBVIOUS
<1>13. ins.ok /\ ins.s = t
  <2>1. ins = [ok |-> TRUE, node |-> node, s |-> t]
    <3>1. Room(c, sz) # {}
      OBVIOUS
    <3> HIDE DEF c, sz, run
    <3>2. QED BY <1>8, <1>10, <1>11, <1>12, <3>1 DEF InsertIs
  <2>2. QED BY <2>1
<1>14. f \in Blocks
  <2> HIDE DEF c, sz
  <2>1. QED BY <1>2, <1>3, <1>5, <1>9, <1>10, TookInRoom
<1>15. k \in 1..Len(s.content[run].blocks)
  BY <1>3, <1>4, <1>9
<1>16. s1 \in Opened /\ s1.inode = s.inode /\ OneWrite(s, s1)
  <2>1. /\ s1 \in Opened /\ s1.content = [s.content EXCEPT ![run] = Replaced(s.content[run], k, f)]
        /\ s1.inode = s.inode
    <3> HIDE DEF run
    <3>1. QED BY <1>1, <1>3, <1>11, <1>14, <1>15, PutBlockEffect
  <2>2. OneWrite(s, PutBlock(s, run, k, f))
    <3> HIDE DEF run
    <3>1. QED BY <1>1, PutIsWrite DEF PutBlock
  <2>3. QED BY <1>11, <2>1, <2>2
<1>17. /\ t \in Opened /\ t.inode = [s1.inode EXCEPT ![p] = node.ino] /\ OneWrite(s1, t)
       /\ t.iused = s1.iused /\ t.content = s1.content /\ t.rused = s1.rused
  BY <1>4, <1>12, <1>16, WriteInodeEffect, PrimitiveWrites
<1>18. t.inode = s1.inode
  BY <1>1, <1>4, <1>16, <1>17 DEF Typed
<1>19. Base(t, V, U) /\ Counted(t, w, V, E) /\ (w.new.no \in Inodes => t.inode[w.new.no] = w.new.ino)
  <2>1. Base(ins.s, V, U)
    BY <1>13 DEF Inserted
  <2>2. Counted(ins.s, w, V, E) /\ (w.new.no \in Inodes => ins.s.inode[w.new.no] = w.new.ino)
    BY <1>1, <1>2, <1>13, InsertedCounted
  <2>3. QED BY <1>13, <2>1, <2>2
<1>20. Going(t, w, V, E)
  BY <1>2, <1>16, <1>17, <1>18, <1>19, BaseGoingTwice
<1>21. QED BY <1>13, <1>20

\* A directory written with its new size before the new block is lists what it
\* did: of the blocks that are written the last is one without names.
LEMMA GrownList ==
    ASSUME NEW c \in Content, NEW sz, sz = Len(c.blocks), NEW s, NEW y, NEW ino, NEW new,
           ino.size = sz, s.content[ino.run] = c, NEW x \in {c, Longer(c, sz, <<>>)},
           new.size = sz + 1, y.content[new.run] = x
    PROVE  ListOf(y, new) = ListOf(s, ino)
<1>1. sz \in Nat /\ DOMAIN c.blocks = 1..sz /\ sz \in 0..Len(c.blocks)
  BY ContentTyped
<1>2. CASE x = c
  <2>1. 1..(sz + 1) \cap DOMAIN c.blocks = 1..sz \cap DOMAIN c.blocks
    BY <1>1
  <2>2. QED BY <1>2, <2>1 DEF ListOf
<1>3. CASE x = Longer(c, sz, <<>>)
  <2>1. /\ x \in Content /\ Len(x.blocks) = sz + 1 /\ x.blocks[sz + 1] = <<>>
        /\ \A l \in 1..sz : x.blocks[l] = c.blocks[l]
    BY <1>1, <1>3, LongerIs, EmptyBlock
  <2>2. DOMAIN x.blocks = 1..(sz + 1)
    BY <2>1, ContentTyped
  <2>3. ListOf(y, new) =
          UNION {{<<n, x.blocks[k][n]>> : n \in DOMAIN x.blocks[k]} : k \in 1..(sz + 1)}
    BY <2>2 DEF ListOf
  <2>4. ListOf(s, ino) =
          UNION {{<<n, c.blocks[k][n]>> : n \in DOMAIN c.blocks[k]} : k \in 1..sz}
    BY <1>1 DEF ListOf
  <2>5. 1..(sz + 1) = 1..sz \cup {sz + 1} /\ DOMAIN x.blocks[sz + 1] = {}
    BY <1>1, <2>1
  <2>6. ASSUME NEW e PROVE e \in ListOf(y, new) <=> e \in ListOf(s, ino)
    <3>1. e \in ListOf(y, new) <=>
             \E k \in 1..(sz + 1) : \E n \in DOMAIN x.blocks[k] : e = <<n, x.blocks[k][n]>>
      BY <2>3
    <3>2. e \in ListOf(s, ino) <=>
             \E k \in 1..sz : \E n \in DOMAIN c.blocks[k] : e = <<n, c.blocks[k][n]>>
      BY <2>4
    <3>3. \A k \in 1..sz : x.blocks[k] = c.blocks[k]
      BY <2>1
    <3>4. e \in ListOf(y, new) <=>
             \E k \in 1..sz : \E n \in DOMAIN x.blocks[k] : e = <<n, x.blocks[k][n]>>
      BY ONLY <2>5, <3>1
    <3>5. QED BY ONLY <3>2, <3>3, <3>4
  <2>7. QED BY <2>6
<1>4. QED BY <1>2, <1>3

\* A directory's run is moved: its new one is written before the old is freed.
LEMMA MovedGoing ==
    ASSUME NEW s, NEW w, NEW T, NEW U, NEW D, NEW p, NEW node, NEW n, NEW i, NEW V, NEW E,
           Inserting(s, w, T, U, D, p, node, n, i, V, E),
           NEW run, run = s.inode[p].run, NEW c \in Content,
           NEW to \in Runs, to \notin s.rused,
           NEW y, y = FreeRun(Fill(AllocRun(s, to), to, c), run)
    PROVE  /\ Going(y, w, T, D) /\ y \in Opened
           /\ y.inode = s.inode /\ y.iused = s.iused
           /\ y.rused = (s.rused \cup {to}) \ {run} /\ y.content = [s.content EXCEPT ![to] = c]
<1>1. /\ s \in Opened /\ Typed(s) /\ p \in Inodes /\ IsDir(s, p) /\ Plan(T, D) /\ T \subseteq Edge
      /\ D \subseteq Met(T) /\ Met(T) \subseteq Inodes /\ Stands(s, T, D, p)
  BY InsertingFacts
<1>2. Going(s, w, T, D) /\ Base(s, T, U) /\ <<T, D>> \in w.trees /\ Fit(s, w, T, D)
  BY DEF Inserting, Going
<1>3. run \in Runs
  BY <1>1, <1>2, DirFacts
<1>4. PICK m1 : m1 = AllocRun(s, to)
  OBVIOUS
<1>5. /\ m1 \in Opened /\ m1.rused = s.rused \cup {to} /\ m1.inode = s.inode
      /\ m1.content = s.content /\ m1.iused = s.iused /\ Going(m1, w, T, D)
  BY <1>1, <1>2, <1>4, RunMapEffect, QuietAllocs
<1>6. PICK m2 : m2 = Fill(m1, to, c)
  OBVIOUS
<1>7. \A d \in D : m1.inode[d].run # to
  BY <1>1, <1>2, <1>5, FreeRunApart
<1>8. /\ m2 \in Opened /\ m2.rused = s.rused \cup {to} /\ m2.inode = s.inode
      /\ m2.content = [s.content EXCEPT ![to] = c] /\ m2.iused = s.iused /\ Going(m2, w, T, D)
  BY <1>3, <1>5, <1>6, <1>7, FillEffect, QuietFill
<1>9. /\ y \in Opened /\ y.rused = (s.rused \cup {to}) \ {run} /\ y.inode = s.inode
      /\ y.content = m2.content /\ y.iused = s.iused /\ OneWrite(m2, y)
  <2>1. y = FreeRun(m2, run)
    BY <1>4, <1>6
  <2>2. /\ y \in Opened /\ y.rused = m2.rused \ {run} /\ y.inode = m2.inode
        /\ y.content = m2.content /\ y.iused = m2.iused
    <3>1. m2 \in Opened /\ run \in Runs
      BY <1>3, <1>8
    <3>2. QED BY ONLY <2>1, <3>1, RunMapEffect
  <2>3. OneWrite(m2, y)
    BY <1>8, <2>1, PrimitiveWrites
  <2>4. QED BY <1>8, <2>2, <2>3
<1>10. Typed(y) /\ Stored(y) /\ Stored(s)
  BY <1>1, <1>9, OpenedTyped DEF Stored, IsDir, Stands
<1>11. ASSUME NEW d \in D PROVE ListOf(y, y.inode[d]) = ListOf(s, s.inode[d])
  <2>1. s.inode[d].run \in Runs
    BY <1>1, <1>10 DEF Stands, Stored
  <2>2. s.inode[d].run # to
    BY <1>5, <1>7
  <2>3. y.content[s.inode[d].run] = s.content[s.inode[d].run]
    BY <1>1, <1>8, <1>9, <2>1, <2>2 DEF Typed
  <2>4. QED BY <1>9, <2>3 DEF ListOf
<1>12. \A j \in Met(T) : s.inode[j].nlink \in Int
  BY <1>1, InodeTyped
<1>13. Alike(s, y, T, D)
  BY <1>9, <1>11, <1>12 DEF Alike
<1>14. Apart(y, T, p)
  <2>1. Apart(s, T, p)
    BY <1>1 DEF Stands
  <2>2. \A j \in Met(T) : j # p => s.inode[j].run # run
    <3>1. \A j, k \in Inodes : s.inode[j].run = s.inode[k].run /\ s.inode[j].run # 0 => j = k
      BY <1>2 DEF Base, Owned
    <3>2. run # 0
      BY <1>3, RootInode
    <3>3. QED BY <1>1, <3>1, <3>2
  <2>3. QED BY <1>9, <2>1, <2>2 DEF Apart
<1>15. Stands(y, T, D, p)
  BY <1>1, <1>10, <1>13, <1>14, AlikeStands
<1>16. Used(y, w, T)
  BY <1>1, <1>2, <1>10, <1>13, AlikeUsed DEF Fit
<1>17. Beside(y, w, T)
  BY <1>2, <1>9 DEF Fit, Beside
<1>18. Fit(y, w, T, D)
  BY <1>1, <1>15, <1>16, <1>17 DEF Fit
<1>19. Going(y, w, T, D)
  BY <1>2, <1>8, <1>9, <1>18, GoOn
<1>20. QED BY <1>8, <1>9, <1>19

\* A directory is written with one more block than there is yet.
LEMMA GrownGoing ==
    ASSUME NEW s, NEW w, NEW T, NEW U, NEW D, NEW p, NEW node, NEW n, NEW i, NEW V, NEW E,
           Inserting(s, w, T, U, D, p, node, n, i, V, E),
           NEW run, run = s.inode[p].run, NEW c, c = InDir(s, p),
           NEW to \in Runs, to = run \/ to \notin s.rused,
           NEW m \in Opened, Going(m, w, T, D), m.inode = s.inode, m.iused = s.iused,
           \A r \in Runs : r \in m.rused <=> (r \in s.rused /\ r # run) \/ r = to,
           NEW x \in {c, Longer(c, s.inode[p].size, <<>>)}, m.content[to] = x,
           \A r \in Runs : r # to => m.content[r] = s.content[r],
           s.inode[p].size + 1 \in 0..MaxBlks, NEW y, y = WriteInode(m, Grown(node, to))
    PROVE  Going(y, w, T, D) /\ y \in Opened
<1> DEFINE sz == s.inode[p].size
           g == Grown(node, to)
<1>1. /\ s \in Opened /\ Typed(s) /\ p \in Inodes /\ IsDir(s, p) /\ Plan(T, D) /\ T \subseteq Edge
      /\ D \subseteq Met(T) /\ Met(T) \subseteq Inodes /\ Stands(s, T, D, p)
      /\ (w.new.no \in Inodes => s.inode[w.new.no] = w.new.ino)
  BY InsertingFacts
<1>2. /\ Base(s, T, U) /\ Fit(s, w, T, D) /\ w.new.no # p /\ <<T, D>> \in w.trees
      /\ node \in NodeSet /\ node.no = p /\ node.ino = s.inode[p]
  BY DEF Inserting, Going, At
<1>3. run \in Runs /\ run \in s.rused /\ c \in Content /\ sz = Len(c.blocks)
  BY <1>1, <1>2, DirFacts DEF Neat
<1>4. /\ g \in NodeSet /\ g.no = p /\ g.ino.size = sz + 1 /\ g.ino.run = to
      /\ g.ino.kind = "dir" /\ g.ino.nlink = s.inode[p].nlink
  <2>1. node.ino.size + 1 \in 0..MaxBlks
    BY <1>2
  <2>2. QED BY <1>1, <1>2, <2>1, GrownFacts DEF IsDir
<1> HIDE DEF g
<1>5. /\ y \in Opened /\ y.inode = [s.inode EXCEPT ![p] = g.ino] /\ y.iused = s.iused
      /\ y.content = m.content /\ y.rused = m.rused /\ OneWrite(m, y)
  BY <1>4, WriteInodeEffect, PrimitiveWrites DEF g
<1>6. y.inode[p] = g.ino /\ \A j \in Inodes : j # p => y.inode[j] = s.inode[j]
  BY <1>1, <1>5 DEF Typed
<1>7. Typed(y) /\ Stored(y) /\ Stored(s)
  <2>1. Stored(s)
    BY <1>1 DEF Stands
  <2>2. QED BY <1>4, <1>5, <1>6, <2>1, OpenedTyped DEF Stored, IsDir
<1>8. \A j \in Inodes : j # p => s.inode[j].run # to
  <2>1. \A j, k \in Inodes : s.inode[j].run = s.inode[k].run /\ s.inode[j].run # 0 => j = k
    BY <1>2 DEF Base, Owned
  <2>2. \A r \in Runs : r \in s.rused <=> \E j \in Inodes : s.inode[j].run = r
    BY <1>2 DEF Base, Owned
  <2>3. run # 0
    BY <1>3, RootInode
  <2>4. QED BY <1>1, <2>1, <2>2, <2>3
<1>9. ASSUME NEW d \in D PROVE ListOf(y, y.inode[d]) = ListOf(s, s.inode[d])
  <2>1. CASE d = p
    <3>1. s.content[s.inode[p].run] = c /\ y.content[g.ino.run] = x
      BY <1>4, <1>5 DEF InDir
    <3>2. ListOf(y, g.ino) = ListOf(s, s.inode[p])
      BY <1>3, <1>4, <3>1, GrownList
    <3>3. QED BY <1>6, <2>1, <3>2
  <2>2. CASE d # p
    <3>1. s.inode[d].run \in Runs /\ d \in Inodes
      BY <1>1, <1>7 DEF Stands, Stored
    <3>2. y.content[s.inode[d].run] = s.content[s.inode[d].run]
      BY <1>5, <1>8, <2>2, <3>1
    <3>3. PICK ino : ino = s.inode[d]
      OBVIOUS
    <3>4. y.inode[d] = ino
      BY <1>6, <2>2, <3>1, <3>3
    <3>5. ListOf(y, ino) = ListOf(s, ino)
      BY <3>2, <3>3, SameList
    <3>6. QED BY <3>3, <3>4, <3>5
  <2>3. QED BY <2>1, <2>2
<1>10. \A j \in Met(T) : s.inode[j].nlink \in Int
  BY <1>1, InodeTyped
<1>11. Alike(s, y, T, D)
  <2>1. \A j \in Met(T) : /\ y.inode[j].kind = s.inode[j].kind
                          /\ y.inode[j].nlink = s.inode[j].nlink
    BY <1>1, <1>4, <1>6 DEF IsDir
  <2>2. QED BY <1>5, <1>9, <1>10, <2>1 DEF Alike
<1>12. Apart(y, T, p)
  <2>1. Apart(s, T, p)
    BY <1>1 DEF Stands
  <2>2. \A j, k \in Inodes : s.inode[j].run = s.inode[k].run /\ s.inode[j].run # 0 => j = k
    BY <1>2 DEF Base, Owned
  <2>3. ASSUME NEW j \in Met(T), j # p, y.inode[j].run # 0 PROVE y.inode[j].run \in y.rused
    <3>1. y.inode[j].run = s.inode[j].run /\ s.inode[j].run \in s.rused /\ s.inode[j].run # run
      BY <1>1, <1>6, <2>1, <2>2, <2>3 DEF Apart
    <3>2. s.inode[j].run \in Runs
      BY <1>1, <3>1 DEF Typed
    <3>3. QED BY <1>5, <3>1, <3>2
  <2>4. ASSUME NEW j \in Met(T), NEW k \in Met(T),
               y.inode[j].run = y.inode[k].run, y.inode[j].run # 0
        PROVE  j = k
    BY <1>1, <1>4, <1>6, <1>8, <2>2, <2>4
  <2>5. QED BY <2>3, <2>4 DEF Apart
<1>13. Stands(y, T, D, p)
  BY <1>1, <1>7, <1>11, <1>12, AlikeStands
<1>14. Used(y, w, T)
  BY <1>1, <1>2, <1>7, <1>11, AlikeUsed DEF Fit
<1>15. Beside(y, w, T)
  <2>1. ASSUME w.new.no \in Inodes
        PROVE  /\ y.inode[w.new.no] = w.new.ino
               /\ \A j \in Met(T) :
                     j # w.new.no /\ y.inode[j].run = w.new.ino.run => y.inode[j].run = 0
    <3>1. y.inode[w.new.no] = w.new.ino /\ s.inode[w.new.no] = w.new.ino
      BY <1>1, <1>2, <1>6, <2>1
    <3>2. \A j \in Met(T) : j # w.new.no /\ s.inode[j].run = w.new.ino.run => s.inode[j].run = 0
      BY <1>2, <2>1 DEF Fit, Beside
    <3>3. w.new.ino.run # to
      BY <1>2, <1>8, <2>1, <3>1
    <3>4. QED BY <1>1, <1>4, <1>6, <3>1, <3>2, <3>3
  <2>2. QED BY <2>1 DEF Beside
<1>16. Fit(y, w, T, D)
  BY <1>1, <1>13, <1>14, <1>15 DEF Fit
<1>17. QED BY <1>2, <1>5, <1>16, GoOn

\* A name is inserted: every image on the way lists the entries T, or V.
LEMMA InsertGoing ==
    ASSUME NEW s, NEW w, NEW T, NEW U, NEW D, NEW p, NEW node, NEW n, NEW i, NEW V, NEW E,
           Inserting(s, w, T, U, D, p, node, n, i, V, E), NEW way \in Ways,
           NEW ins, ins = Insert(s, node, n, i, way), ins.ok
    PROVE  Going(ins.s, w, V, E) /\ Inserted(s, V, U, p, node, ins)
<1>1. /\ s \in Opened /\ Typed(s) /\ p \in Inodes /\ IsDir(s, p) /\ V \subseteq Edge
      /\ \A j \in Inodes : <<p, n, j>> \notin T
      /\ w.new.no \in Inodes => s.inode[w.new.no] = w.new.ino
  BY InsertingFacts
<1>2. /\ n \in Names /\ i \in Inodes /\ Base(s, T, U) /\ At(s, node, p) /\ w.new.no # p
      /\ Going(s, w, T, D) /\ Plan(V, E) /\ <<V, E>> \in w.trees /\ Counted(s, w, V, E)
      /\ V = T \cup {<<p, n, i>>}
  BY DEF Inserting
<1>3. Inserted(s, V, U, p, node, ins)
  BY <1>1, <1>2, InsertBase
<1>4. CASE Room(InDir(s, p), s.inode[p].size) # {}
  BY <1>3, <1>4, InsertInRoom
<1>5. CASE Room(InDir(s, p), s.inode[p].size) = {}
  <2> DEFINE sz == s.inode[p].size
  <2>1. PICK run, c : run = s.inode[p].run /\ c = InDir(s, p)
    OBVIOUS
  <2>2. run \in Runs /\ run \in s.rused /\ c \in Content /\ sz \in 0..MaxBlks
    BY <1>1, <1>2, <2>1, DirFacts
  <2>3. node \in NodeSet /\ node.ino.run = run /\ node.ino.size = sz /\ c = s.content[run]
    BY <1>2, <2>1 DEF At, InDir
  <2>4. PICK k : k = Lowest(Room(c, sz))
    OBVIOUS
  <2>5. PICK to : to = IF way = "moved" THEN Lowest(FreeRuns(s)) ELSE run
    OBVIOUS
  <2>22. PICK l : l = Longer(c, sz, <<>>)
    OBVIOUS
  <2>6. PICK m : m = IF way = "moved" THEN FreeRun(Fill(AllocRun(s, to), to, l), run) ELSE s
    OBVIOUS
  <2>7. InsertIs(s, node, n, i, way, run, c, sz, k, to, m)
    <3> HIDE DEF sz
    <3>1. QED BY <2>3, <2>4, <2>5, <2>6, <2>22, InsertParts
  <2>8. Room(c, sz) = {}
    BY <1>5, <2>1
  <2> HIDE DEF sz
  <2>9. CanGrow(s, node, way)
    <3>1. ASSUME ~CanGrow(s, node, way) PROVE FALSE
      <4>1. ins = [ok |-> FALSE, node |-> node, s |-> s]
        BY <2>7, <2>8, <3>1 DEF InsertIs
      <4>2. ~ins.ok
        BY <4>1
      <4>3. QED BY <4>2
    <3>2. QED BY <3>1
  <2>10. PICK y : y = WriteInode(m, Grown(node, to))
    OBVIOUS
  <2>11. PICK x : x = Longer(c, sz, With(<<>>, n, i))
    OBVIOUS
  <2>12. ins.s = Fill(y, to, x)
    <3>1. ins = [ok |-> TRUE, node |-> Grown(node, to), s |-> Fill(y, to, x)]
      BY <2>7, <2>8, <2>9, <2>10, <2>11 DEF InsertIs
    <3>2. QED BY <3>1
  <2>13. sz + 1 \in 0..MaxBlks /\ (way = "moved" => FreeRuns(s) # {})
    BY <2>2, <2>3, <2>9, NamespaceAssumption DEF CanGrow
  <2>14. to \in Runs /\ (way = "moved" => to \notin s.rused) /\ (way # "moved" => to = run)
    BY <1>1, <2>2, <2>5, <2>13, FreeRunFacts
  <2>15. /\ m \in Opened /\ Going(m, w, T, D) /\ m.inode = s.inode /\ m.iused = s.iused
         /\ \A r \in Runs : r \in m.rused <=> (r \in s.rused /\ r # run) \/ r = to
         /\ m.content[to] \in {c, l} /\ \A r \in Runs : r # to => m.content[r] = s.content[r]
    <3>1. CASE way # "moved"
      <4>1. m = s /\ to = run
        BY <2>6, <2>14, <3>1
      <4>2. QED BY <1>1, <1>2, <2>2, <2>3, <4>1
    <3>2. CASE way = "moved"
      <4>1. m = FreeRun(Fill(AllocRun(s, to), to, l), run) /\ to \in Runs /\ to \notin s.rused
        BY <2>6, <2>14, <3>2
      <4>5. l \in Content
        <5>1. sz \in 0..Len(c.blocks)
          BY <1>1, <1>2, <2>1, DirFacts DEF sz
        <5>2. QED BY <2>2, <2>22, <5>1, LongerIs, EmptyBlock
      <4>2. /\ Going(m, w, T, D) /\ m \in Opened /\ m.inode = s.inode /\ m.iused = s.iused
            /\ m.rused = (s.rused \cup {to}) \ {run} /\ m.content = [s.content EXCEPT ![to] = l]
        BY <2>1, <4>1, <4>5, MovedGoing
      <4>3. to # run
        BY <2>2, <4>1
      <4>4. QED BY <1>1, <4>1, <4>2, <4>3 DEF Typed
    <3>3. QED BY <3>1, <3>2
  <2>16. Going(y, w, T, D) /\ y \in Opened
    <3>1. to = run \/ to \notin s.rused
      BY <2>14
    <3>2. s.inode[p].size + 1 \in 0..MaxBlks
      BY <2>13 DEF sz
    <3>3. PICK o : o = m.content[to]
      OBVIOUS
    <3>4. o \in {c, Longer(c, s.inode[p].size, <<>>)}
      BY <2>15, <2>22, <3>3 DEF sz
    <3>5. QED BY <2>1, <2>10, <2>14, <2>15, <3>1, <3>2, <3>3, <3>4, GrownGoing
  <2>17. Base(ins.s, V, U) /\ ins.s \in Opened
    BY <1>3 DEF Inserted
  <2>18. OneWrite(y, ins.s)
    BY <2>12, <2>16, PrimitiveWrites
  <2>19. Counted(ins.s, w, V, E) /\ (w.new.no \in Inodes => ins.s.inode[w.new.no] = w.new.ino)
    BY <1>1, <1>2, <1>3, InsertedCounted
  <2>20. Going(ins.s, w, V, E)
    BY <1>2, <2>16, <2>17, <2>18, <2>19, BaseGoing
  <2>21. QED BY <1>3, <2>20
<1>6. QED BY <1>4, <1>5

\* A name is removed.
LEMMA RemoveGoing ==
    ASSUME NEW s, NEW w, NEW T, NEW D, Going(s, w, T, D), NEW U, Base(s, T, U),
           NEW p \in D, NEW node, At(s, node, p), NEW n \in Names, NEW i \in Inodes,
           <<p, n, i>> \in T, \A j \in Inodes : <<p, n, j>> \in T => j = i,
           NEW V, V = T \ {<<p, n, i>>}, NEW E, <<V, E>> \in w.trees, Plan(V, E),
           Counted(s, w, V, E), NEW rem, rem = Remove(s, node, n)
    PROVE  Going(rem.s, w, V, E) /\ Removed(s, V, U, p, node, rem)
<1> DEFINE sz == s.inode[p].size
<1>1. s \in Opened /\ Typed(s) /\ p \in Inodes /\ IsDir(s, p) /\ V \subseteq Edge /\ Fit(s, w, T, D)
  BY OpenedTyped DEF Going, Fit, Plan, Stands
<1>2. Removed(s, V, U, p, node, rem)
  BY <1>1, RemoveBase
<1>3. PICK run, c : run = s.inode[p].run /\ c = InDir(s, p)
  OBVIOUS
<1>4. run \in Runs /\ c \in Content /\ sz \in 0..Len(c.blocks) /\ Len(c.blocks) \in Nat
  BY <1>1, <1>3, DirFacts
<1>5. /\ node \in NodeSet /\ node.no = p /\ node.ino = s.inode[p] /\ node.ino.run = run
      /\ node.ino.size = sz /\ c = s.content[run]
  BY <1>3 DEF At, InDir
<1> HIDE DEF sz
<1>6. PICK k : k = Lowest(Naming(c, sz, n))
  OBVIOUS
<1>7. RemoveIs(s, node, n, run, c, sz, k)
  BY <1>5, <1>6, RemoveParts
<1>8. Naming(c, sz, n) # {}
  <2>1. ASSUME Naming(c, sz, n) = {} PROVE FALSE
    <3>1. rem = [ok |-> FALSE, node |-> node, s |-> s]
      BY <1>7, <2>1 DEF RemoveIs
    <3>2. ~rem.ok
      BY <3>1
    <3>3. QED BY <1>2, <3>2 DEF Removed
  <2>2. QED BY <2>1
<1>9. k \in 1..sz /\ n \in DOMAIN c.blocks[k]
  <2>1. Naming(c, sz, n) \in SUBSET Nat
    BY <1>4 DEF Naming
  <2>2. Lowest(Naming(c, sz, n)) \in Naming(c, sz, n)
    BY <1>8, <2>1, LowestFacts
  <2>3. QED BY <1>6, <2>2 DEF Naming
<1>10. PICK f : f = Without(c.blocks[k], n)
  OBVIOUS
<1>11. f \in Blocks
  <2>1. Neat(c, sz)
    BY <1>1, <1>3, DirFacts DEF sz
  <2>2. QED BY <1>4, <1>9, <1>10, <2>1, LostFrom
<1>12. PICK s1 : s1 = PutBlock(s, run, k, f)
  OBVIOUS
<1>13. rem.s = WriteInode(s1, node)
  <2>1. rem = [ok |-> TRUE, node |-> node, s |-> WriteInode(s1, node)]
    BY <1>7, <1>8, <1>10, <1>12 DEF RemoveIs
  <2>2. QED BY <2>1
<1>14. k \in 1..Len(s.content[run].blocks)
  BY <1>4, <1>5, <1>9
<1>15. /\ s1 \in Opened /\ s1.content = [s.content EXCEPT ![run] = Replaced(s.content[run], k, f)]
       /\ s1.inode = s.inode
  BY <1>1, <1>4, <1>11, <1>12, <1>14, PutBlockEffect
<1>16. OneWrite(s, s1)
  BY <1>1, <1>12, PutIsWrite DEF PutBlock
<1>17. /\ rem.s \in Opened /\ rem.s.inode = [s1.inode EXCEPT ![p] = node.ino] /\ OneWrite(s1, rem.s)
       /\ rem.s.iused = s1.iused /\ rem.s.content = s1.content /\ rem.s.rused = s1.rused
  BY <1>5, <1>13, <1>15, WriteInodeEffect, PrimitiveWrites
<1>18. rem.s.inode = s.inode /\ rem.s.iused = s.iused /\ Base(rem.s, V, U)
  BY <1>2 DEF Removed
<1>19. Counted(rem.s, w, V, E)
  BY <1>18 DEF Counted, IsDir
<1>20. w.new.no \in Inodes => rem.s.inode[w.new.no] = w.new.ino
  BY <1>1, <1>18 DEF Fit, Beside
<1>21. Going(rem.s, w, V, E)
  BY <1>15, <1>16, <1>17, <1>18, <1>19, <1>20, BaseGoingTwice
<1>22. QED BY <1>2, <1>21

-----------------------------------------------------------------------------
(* How a call starts, is cut short, and is undone.                         *)

LEMMA OpenGoing ==
    ASSUME NEW s, NEW U, Begun(s, U), NEW w, w.from = 0, w.new = NoNode,
           NEW D, D = DirSet(disk), <<expected, D>> \in w.trees
    PROVE  /\ Going(s, w, expected, D) /\ Plan(expected, D) /\ Counted(s, w, expected, D)
           /\ Dirs(disk) = D /\ D \subseteq Inodes /\ \A i \in Inodes : i \in D <=> IsDir(s, i)
<1>1. /\ s = Open(disk) /\ s \in Opened /\ Base(s, expected, U) /\ Typed(disk)
      /\ Sound(disk, expected, U) /\ s.inode = disk.inode /\ s.iused = disk.iused
  BY DEF Begun
<1>2. Plan(expected, D) /\ Counted(disk, w, expected, D)
  BY <1>1, SoundPlan
<1>3. Counted(s, w, expected, D)
  BY <1>1, <1>2 DEF Counted, IsDir
<1>4. w.new.no \notin Inodes
  BY RootInode DEF NoNode
<1>5. Fit(s, w, expected, D)
  BY <1>1, <1>2, <1>3, <1>4, BaseFit DEF Beside
<1>6. s.past = <<>>
  BY <1>1 DEF Open
<1>7. Passes(s, w)
  <2>1. (w.from + 1)..Len(s.past) = {}
    BY <1>6
  <2>2. QED BY <2>1 DEF Passes
<1>8. Dirs(disk) = D
  BY <1>1, WalkFacts DEF DirSet
<1>9. \A i \in Inodes : i \in D <=> IsDir(s, i)
  BY <1>1 DEF DirSet, IsDir
<1>10. QED BY <1>1, <1>2, <1>3, <1>5, <1>7, <1>8, <1>9 DEF Going, DirSet

\* What a call that was cut short may not have lost.
Pledge(names, either) == [dirs |-> Dirs(disk), spared |-> expected \ names, either |-> either]

LEMMA PledgeKept ==
    ASSUME NEW z, NEW names, NEW either, LeftAs(z, expected \ names, either)
    PROVE  /\ cut'.either = either
           /\ \A T, D : Suits(T, D, Pledge(names, either)) => Suits(T, D, cut')
  BY DEF LeftAs, Pledge, Suits

LEMMA EndsCut ==
    ASSUME NEW s, NEW w, NEW T, NEW D, Going(s, w, T, D), w.from = 0,
           NEW told, NEW names, NEW either, Ends(s, told, names, either),
           w.late = Leads(either), \A t \in w.trees : Suits(t[1], t[2], Pledge(names, either))
    PROVE  CutLosesNoName'
<1>1. CASE damage' = "none"
  BY <1>1, CutIs DEF Harmless
<1>2. CASE \E x \in Between(s, 1) : LeftAs(x, expected \ names, either) /\ damage' = "cut"
  <2>1. PICK j \in 2..Len(s.past) : LeftAs(s.past[j], expected \ names, either)
    BY <1>2 DEF Between
  <2>2. Len(s.past) \in Nat /\ Passes(s, w)
    BY DEF Going, Opened
  <2>3. j \in (w.from + 1)..Len(s.past)
    BY <2>1, <2>2
  <2>4. PICK t \in w.trees : Fit(s.past[j], w, t[1], t[2])
    BY <2>2, <2>3 DEF Passes
  <2>5. PICK z, T1, D1, how : z = s.past[j] /\ T1 = t[1] /\ D1 = t[2] /\ how = damage'
    OBVIOUS
  <2>6. Fine(Settled(z), cut', how)
    <3>1. PICK c : c = cut'
      OBVIOUS
    <3>2. c.either = either /\ Suits(T1, D1, c)
      BY <2>1, <2>4, <2>5, <3>1, PledgeKept
    <3>3. QED BY <2>4, <2>5, <3>1, <3>2, SettledFine
  <2>7. Typed(z) /\ Stored(z)
    BY <2>4, <2>5 DEF Fit, Stands
  <2>8. QED BY <2>1, <2>5, <2>6, <2>7, LeftCut
<1>3. QED BY <1>1, <1>2 DEF Ends

\* An inode is discarded that the walk may still come to.
LEMMA DiscardStands ==
    ASSUME NEW x \in Disk, NEW w, NEW T, NEW D, Fit(x, w, T, D),
           NEW i \in Inodes, NEW node \in NodeSet, node.no = i, w.new = node, i # Root,
           Plan(T, D \ {i}), NEW y, y = Discard(Open(x), node)
    PROVE  \E g \in Inodes : Stands(y, T, D \ {i}, g)
<1>1. PICK g \in Inodes : Stands(x, T, D, g)
  BY DEF Fit
<1>2. /\ y \in Opened /\ y.inode = [x.inode EXCEPT ![i] = Cleared]
      /\ y.rused = x.rused \ {node.ino.run} /\ y.content = x.content
  <2>1. PICK o : o = Open(x)
    OBVIOUS
  <2>2. o \in Opened /\ o.inode = x.inode /\ o.rused = x.rused /\ o.content = x.content
    BY <2>1, OpenEffect
  <2>3. y = Discard(o, node)
    BY <2>1
  <2>4. QED BY <2>2, <2>3, DiscardEffect
<1>3. Typed(y) /\ Typed(x) /\ Stored(x) /\ T \subseteq Edge /\ D \subseteq Inodes
  BY <1>1, <1>2, OpenedTyped DEF Stands, Fit, Plan
<1>4. y.inode[i] = Cleared /\ \A j \in Inodes : j # i => y.inode[j] = x.inode[j]
  BY <1>2, <1>3 DEF Typed
<1>5. Cleared.kind # "dir" /\ Cleared.run = 0
  BY DEF Cleared
<1>6. Stored(y)
  BY <1>3, <1>4, <1>5 DEF Stored, IsDir
<1>7. Met(T) \subseteq Inodes
  BY <1>3, MetIn
<1>8. \A j \in Met(T) : IsDir(y, j) <=> j \in D \ {i}
  BY <1>1, <1>4, <1>5, <1>7 DEF Stands, IsDir
<1>9. Shows(y, T, D \ {i})
  <2>1. ASSUME NEW d \in D \ {i} PROVE ListOf(y, y.inode[d]) = ListOf(x, x.inode[d])
    <3>1. y.inode[d] = x.inode[d]
      BY <1>3, <1>4
    <3>2. ListOf(y, x.inode[d]) = ListOf(x, x.inode[d])
      BY <1>2, SameList
    <3>3. QED BY <3>1, <3>2
  <2>2. QED BY <1>1, <2>1 DEF Stands, Shows
<1>10. Apart(y, T, g)
  <2>1. Apart(x, T, g)
    BY <1>1 DEF Stands
  <2>2. \A j \in Met(T) : j # i /\ x.inode[j].run = node.ino.run => x.inode[j].run = 0
    BY DEF Fit, Beside
  <2>3. ASSUME NEW j \in Met(T), j # g, y.inode[j].run # 0 PROVE y.inode[j].run \in y.rused
    <3>1. j # i /\ y.inode[j] = x.inode[j]
      BY <1>4, <1>5, <1>7, <2>3
    <3>2. x.inode[j].run \in x.rused
      BY <2>1, <2>3, <3>1 DEF Apart
    <3>3. x.inode[j].run # node.ino.run
      BY <2>2, <2>3, <3>1
    <3>4. QED BY <1>2, <3>1, <3>2, <3>3
  <2>4. ASSUME NEW j \in Met(T), NEW k \in Met(T),
               y.inode[j].run = y.inode[k].run, y.inode[j].run # 0
        PROVE  j = k
    <3>1. j # i /\ k # i /\ y.inode[j] = x.inode[j] /\ y.inode[k] = x.inode[k]
      BY <1>4, <1>5, <1>7, <2>4
    <3>2. QED BY <2>1, <2>4, <3>1 DEF Apart
  <2>5. QED BY <2>3, <2>4 DEF Apart
<1>11. QED BY <1>3, <1>6, <1>8, <1>9, <1>10 DEF Stands

\* nextufs__insert_dirent fails on its way, and the new inode is discarded.
LEMMA UndoneCut ==
    ASSUME NEW s, NEW ins, NEW node \in NodeSet, Undone(s, ins, node),
           NEW w, NEW V, NEW E, Going(ins.s, w, V, E),
           w.from = Len(s.past), w.new = node, NEW i \in Inodes, node.no = i, i # Root,
           \A t \in w.trees : Plan(t[1], t[2] \ {i}) /\ Suits(t[1], t[2] \ {i}, Pledge({}, {}))
    PROVE  CutLosesNoName'
<1>1. PICK j \in (Len(s.past) + 1)..Len(ins.s.past) :
         LeftAs(Discard(Open(ins.s.past[j]), node), expected, {}) /\ damage' = "undone"
  BY DEF Undone, Between
<1>2. ins.s.past \in Seq(Disk) /\ Len(ins.s.past) \in Nat /\ w.from \in Nat /\ Passes(ins.s, w)
  BY DEF Going, Opened
<1>3. PICK x : x = ins.s.past[j]
  OBVIOUS
<1>4. x \in Disk
  BY <1>1, <1>2, <1>3
<1>5. PICK t \in w.trees : Fit(x, w, t[1], t[2])
  BY <1>1, <1>2, <1>3 DEF Passes
<1>6. PICK y : y = Discard(Open(x), node)
  OBVIOUS
<1>7. PICK g \in Inodes : Stands(y, t[1], t[2] \ {i}, g)
  BY <1>4, <1>5, <1>6, DiscardStands
<1>8. LeftAs(y, expected \ {}, {})
  BY <1>1, <1>3, <1>6
<1>9. PICK c, how : c = cut' /\ how = damage'
  OBVIOUS
<1>10. Fine(Settled(y), c, how)
  <2>1. Suits(t[1], t[2] \ {i}, c) /\ how = "undone"
    BY <1>1, <1>5, <1>8, <1>9, PledgeKept
  <2>2. QED BY <1>5, <1>7, <2>1, SettledUndone
<1>11. Typed(y) /\ Stored(y)
  BY <1>7 DEF Stands
<1>12. QED BY <1>8, <1>9, <1>10, <1>11, LeftCut

LEMMA NoLeads == Leads({}) = {}
  BY DEF Leads

\* Kinds and the links of files are the same.
LEMMA CountedSame ==
    ASSUME NEW s, NEW w, NEW T, NEW D, T \subseteq Edge, Counted(s, w, T, D), NEW y,
           y.iused = s.iused, Kind(y) = Kind(s),
           \A j \in Inodes : IsDir(s, j) \/ y.inode[j].nlink = s.inode[j].nlink
    PROVE  Counted(y, w, T, D)
<1>1. Met(T) \subseteq Inodes
  BY MetIn
<1>2. \A j \in Inodes : y.inode[j].kind = s.inode[j].kind
  BY KindFacts
<1>3. QED BY <1>1, <1>2 DEF Counted, IsDir

\* What a write of a directory's count leaves as it was.
LEMMA CountWrittenFit ==
    ASSUME NEW s, NEW w, NEW V, NEW E, Going(s, w, V, E), NEW U, Base(s, V, U),
           Counted(s, w, V, E), NEW p \in s.iused, IsDir(s, p), NEW node, At(s, node, p),
           NEW k \in Int, NEW y, y = WriteInode(s, Linked(node, k)), w.new = NoNode
    PROVE  /\ Going(y, w, V, E) /\ Base(y, V, U) /\ Counted(y, w, V, E) /\ y \in Opened
           /\ \A j \in Inodes : j # p => y.inode[j] = s.inode[j]
           /\ Kind(y) = Kind(s) /\ y.iused = s.iused /\ At(y, Linked(node, k), p)
<1>1. s \in Opened /\ Typed(s) /\ <<V, E>> \in w.trees /\ Plan(V, E) /\ V \subseteq Edge
  BY OpenedTyped DEF Going, Fit, Plan
<1>2. /\ y \in Opened /\ Base(y, V, U) /\ y.iused = s.iused /\ Kind(y) = Kind(s)
      /\ At(y, Linked(node, k), p)
      /\ \A j \in Inodes : j # p => y.inode[j] = s.inode[j]
  BY <1>1, CountWritten
<1>3. Counted(y, w, V, E)
  BY <1>1, <1>2, CountedSame
<1>4. OneWrite(s, y)
  BY <1>1, PrimitiveWrites
<1>5. w.new.no \notin Inodes
  BY RootInode DEF NoNode
<1>6. QED BY <1>1, <1>2, <1>3, <1>4, <1>5, BaseGoing

-----------------------------------------------------------------------------
(* The calls that make an inode.                                           *)

\* The new inode and its name.
LEMMA MakingCounted ==
    ASSUME NEW s, NEW U, NEW W, NEW p, NEW n, NEW i, NEW new, NEW data, NEW r, NEW c, NEW x,
           NEW V, NEW way, NEW ins, Making(s, U, W, p, n, i, new, data, r, c, x, V, way, ins),
           NEW D, D = DirSet(disk), NEW E, E = IF new.ino.kind = "dir" THEN D \cup {i} ELSE D,
           NEW w
    PROVE  /\ i \notin Met(expected) /\ i # Root /\ i \notin D /\ D \subseteq Inodes
           /\ Plan(expected, D) /\ Plan(V, E) /\ Plan(V, D) /\ E \ {i} = D
           /\ Counted(x, w, expected, D) /\ Counted(x, w, V, E)
           /\ Base(x, expected, W) /\ x \in Opened
           /\ x.inode[i] = new.ino /\ \A j \in Inodes : j # i => x.inode[j] = s.inode[j]
<1>1. /\ Begun(s, U) /\ p \in Inodes /\ IsDir(s, p) /\ n \in Names /\ NoEntry(expected, p, n)
      /\ i \in Inodes /\ i \notin s.iused /\ new \in NodeSet /\ new.no = i
      /\ new.ino.nlink = (IF new.ino.kind = "dir" THEN 2 ELSE 1)
      /\ Made(s, expected, W, new, x) /\ V = expected \cup {<<p, n, i>>}
  BY DEF Making, NewAt
<1>2. /\ s \in Opened /\ Typed(disk) /\ Sound(disk, expected, U)
      /\ s.inode = disk.inode /\ s.iused = disk.iused
  BY <1>1 DEF Begun
<1>3. Plan(expected, D) /\ Counted(disk, w, expected, D)
  BY <1>2, SoundPlan
<1>4. Counted(s, w, expected, D)
  BY <1>2, <1>3 DEF Counted, IsDir
<1>5. /\ expected \subseteq Edge /\ D \subseteq Inodes /\ D \subseteq Met(expected)
      /\ Met(expected) \subseteq Inodes /\ Root \in Met(expected)
  BY <1>3, MetIn DEF Plan
<1>6. i \notin Met(expected) /\ i # Root /\ i \notin D
  BY <1>1, <1>4, <1>5 DEF Counted
<1>7. p \in D
  BY <1>1, <1>2 DEF DirSet, IsDir
<1>8. Plan(V, E) /\ Plan(V, D) /\ Met(V) = Met(expected) \cup {i}
  <2>1. i \in Inodes /\ n \in Names /\ Plan(expected, D)
    BY <1>1, <1>3
  <2>2. NewName(V, expected, p, n, i)
    BY <1>1 DEF NewName
  <2>3. Plan(V, D) /\ Met(V) = Met(expected) \cup {i}
    BY ONLY <1>7, <2>1, <2>2, PlanName
  <2>4. E = D \/ E = D \cup {i}
    OBVIOUS
  <2>5. Plan(V, E) /\ Met(V) = Met(expected) \cup {i}
    BY ONLY <1>7, <2>1, <2>2, <2>4, PlanName
  <2>6. QED BY <2>3, <2>5
<1>9. /\ x \in Opened /\ Base(x, expected, W) /\ x.iused = s.iused \cup {i}
      /\ x.inode = [s.inode EXCEPT ![i] = new.ino]
  BY <1>1 DEF Made
<1>10. x.inode[i] = new.ino /\ \A j \in Inodes : j # i => x.inode[j] = s.inode[j]
  <2>1. s.inode \in [Inodes -> Inode]
    BY <1>2, OpenedTyped DEF Typed
  <2>2. QED BY <1>1, <1>9, <2>1
<1>11. Counted(x, w, expected, D)
  BY <1>4, <1>5, <1>6, <1>9, <1>10 DEF Counted, IsDir
<1>12. NamesOf(V, i) = {<<p, n, i>>} /\ \A j \in Inodes : j # i => NamesOf(V, j) = NamesOf(expected, j)
  <2>1. PICK e : e = <<p, n, i>>
    OBVIOUS
  <2>2. e[3] = i /\ V = expected \cup {e}
    BY <1>1, <2>1
  <2>3. \A f \in expected : f[3] # i
    BY <1>6 DEF Met
  <2>4. NamesOf(V, i) = {e}
    BY <2>2, <2>3 DEF NamesOf
  <2>5. \A j \in Inodes : j # i => NamesOf(V, j) = NamesOf(expected, j)
    BY <2>2 DEF NamesOf
  <2>6. QED BY <2>1, <2>4, <2>5
<1>13. ASSUME NEW j \in Met(V)
       PROVE  /\ IsDir(x, j) <=> j \in E
              /\ j \in x.iused
              /\ IsDir(x, j) \/ j \in w.late \/ x.inode[j].nlink >= Cardinality(NamesOf(V, j))
  <2>1. CASE j = i
    <3>1. Cardinality(NamesOf(V, j)) = 1
      BY <1>12, <2>1, FS_Singleton
    <3>2. QED BY <1>1, <1>6, <1>9, <1>10, <2>1, <3>1 DEF IsDir
  <2>2. CASE j # i
    <3>1. j \in Met(expected) /\ j \in Inodes
      BY <1>5, <1>8, <2>2
    <3>2. NamesOf(V, j) = NamesOf(expected, j)
      BY <1>12, <2>2, <3>1
    <3>3. j \in E <=> j \in D
      BY <2>2
    <3>4. QED BY <1>11, <3>1, <3>2, <3>3 DEF Counted
  <2>3. QED BY <2>1, <2>2
<1>14. Counted(x, w, V, E)
  BY <1>13 DEF Counted
<1>15. QED BY <1>3, <1>5, <1>6, <1>8, <1>9, <1>10, <1>11, <1>14

\* What is watched for in a call that goes from one tree to another.
Watch(T, D, V, E, late) ==
    [from |-> 0, trees |-> {<<T, D>>, <<V, E>>}, late |-> late, new |-> NoNode]

LEMMA WatchFacts ==
    ASSUME NEW T, NEW D, NEW V, NEW E, NEW late, NEW w, w = Watch(T, D, V, E, late)
    PROVE  /\ w.from = 0 /\ w.from \in Nat /\ w.late = late /\ w.new = NoNode
           /\ w.new.no = 0 /\ w.new.no \notin Inodes
           /\ <<T, D>> \in w.trees /\ <<V, E>> \in w.trees
           /\ \A t \in w.trees : (t[1] = T /\ t[2] = D) \/ (t[1] = V /\ t[2] = E)
<1>1. PICK a, b : a = <<T, D>> /\ b = <<V, E>>
  OBVIOUS
<1>2. a[1] = T /\ a[2] = D /\ b[1] = V /\ b[2] = E
  BY <1>1
<1>3. /\ w.from = 0 /\ w.trees = {a, b} /\ w.late = late /\ w.new = NoNode
  BY <1>1 DEF Watch
<1>4. NoNode.no = 0
  BY DEF NoNode
<1>5. 0 \notin Inodes
  BY RootInode
<1>6. w.new.no = 0 /\ w.from \in Nat /\ w.new.no \notin Inodes
  BY <1>3, <1>4, <1>5
<1>7. <<T, D>> \in w.trees /\ <<V, E>> \in w.trees
  BY ONLY <1>1, <1>3
<1>8. ASSUME NEW t \in w.trees PROVE (t[1] = T /\ t[2] = D) \/ (t[1] = V /\ t[2] = E)
  <2>1. t = a \/ t = b
    BY ONLY <1>3, t \in w.trees
  <2>2. QED BY ONLY <1>2, <2>1
<1>9. QED BY ONLY <1>3, <1>6, <1>7, <1>8

\* nextufs_path_create_file, _mknod, _symlink and _mkdir, cut short, and undone.
LEMMA MakingCut ==
    ASSUME NEW s, NEW U, NEW W, NEW p, NEW n, NEW i, NEW new, NEW data, NEW r, NEW c, NEW x,
           NEW V, NEW way, NEW ins, Making(s, U, W, p, n, i, new, data, r, c, x, V, way, ins),
           NEW last, last = IF new.ino.kind = "dir"
                            THEN WriteInode(ins.s, Linked(ins.node, 1)) ELSE ins.s,
           \/ ins.ok /\ Ends(last, V, {}, {})
           \/ ~ins.ok /\ Ends(Discard(x, new), expected, {}, {})
           \/ ins.ok /\ Undone(x, ins, new)
    PROVE  CutLosesNoName'
<1>1. PICK D, E : D = DirSet(disk) /\ E = IF new.ino.kind = "dir" THEN D \cup {i} ELSE D
  OBVIOUS
<1>2. PICK w : w = Watch(expected, D, V, E, {})
  OBVIOUS
<1>3. /\ w.from = 0 /\ w.from \in Nat /\ w.late = {} /\ w.new = NoNode
      /\ w.new.no = 0 /\ w.new.no \notin Inodes
      /\ <<expected, D>> \in w.trees /\ <<V, E>> \in w.trees
      /\ \A t \in w.trees : (t[1] = expected /\ t[2] = D) \/ (t[1] = V /\ t[2] = E)
  BY <1>2, WatchFacts
<1>4. PICK u : u = [from |-> Len(x.past), trees |-> w.trees, late |-> {}, new |-> new]
  OBVIOUS
<1>5. u.from = Len(x.past) /\ u.late = {} /\ u.new = new /\ u.trees = w.trees
  BY <1>4
<1>6. /\ Begun(s, U) /\ p \in Inodes /\ IsDir(s, p) /\ n \in Names /\ NoEntry(expected, p, n)
      /\ i \in Inodes /\ i \notin s.iused /\ i # p /\ new \in NodeSet /\ new.no = i
      /\ V = expected \cup {<<p, n, i>>}
      /\ data \in BOOLEAN /\ (data => r \in Runs /\ r \notin s.rused) /\ c \in Content
      /\ x = MakeInode(s, i, data, r, c, new)
      /\ (new.ino.kind = "dir" => new.ino.run \in Runs)
      /\ way \in Ways /\ ins = Insert(x, Node(disk, p), n, i, way)
  BY DEF Making, NewAt
<1>7. /\ i \notin Met(expected) /\ i # Root /\ i \notin D /\ D \subseteq Inodes
      /\ Plan(expected, D) /\ Plan(V, E) /\ Plan(V, D) /\ E \ {i} = D
      /\ Base(x, expected, W) /\ x \in Opened
      /\ x.inode[i] = new.ino /\ \A j \in Inodes : j # i => x.inode[j] = s.inode[j]
  BY <1>1, MakingCounted
<1>8. /\ Counted(x, w, expected, D) /\ Counted(x, w, V, E)
      /\ Counted(x, u, expected, D) /\ Counted(x, u, V, E)
  BY <1>1, MakingCounted
<1>9. Dirs(disk) = D /\ p \in D /\ Going(s, w, expected, D) /\ Base(s, expected, U)
  <2>1. Base(s, expected, U)
    BY <1>6 DEF Begun
  <2>2. Going(s, w, expected, D) /\ Dirs(disk) = D /\ \A j \in Inodes : j \in D <=> IsDir(s, j)
    BY <1>1, <1>3, <1>6, OpenGoing
  <2>3. QED BY <1>6, <2>1, <2>2
<1>10. expected \subseteq Edge /\ V \subseteq Edge /\ E \subseteq Inodes
  BY <1>7 DEF Plan
<1>11. Going(x, w, expected, D)
  BY <1>3, <1>6, <1>7, <1>9, RootInode, MakeGoing
<1>12. Going(x, u, expected, D)
  <2>1. Beside(x, u, expected)
    BY <1>5, <1>6, <1>7, <1>10, BesideBase
  <2>2. Fit(x, u, expected, D)
    BY <1>7, <1>8, <2>1, BaseFit
  <2>3. Len(x.past) \in Nat
    BY <1>7 DEF Opened
  <2>4. Passes(x, u)
    <3>1. (u.from + 1)..Len(x.past) = {}
      BY <1>5, <2>3
    <3>2. QED BY <3>1 DEF Passes
  <2>5. QED BY <1>3, <1>5, <1>7, <2>2, <2>3, <2>4 DEF Going
<1>13. At(x, Node(disk, p), p)
  <2>1. At(s, Node(disk, p), p)
    BY <1>6, BegunNode
  <2>2. x.inode[p] = s.inode[p]
    BY <1>6, <1>7
  <2>3. QED BY <2>1, <2>2 DEF At
<1>14. /\ Inserting(x, w, expected, W, D, p, Node(disk, p), n, i, V, E)
       /\ Inserting(x, u, expected, W, D, p, Node(disk, p), n, i, V, E)
  <2>1. w.new.no # p /\ u.new.no # p
    BY <1>3, <1>5, <1>6
  <2>2. QED BY <1>3, <1>5, <1>6, <1>7, <1>8, <1>9, <1>11, <1>12, <1>13, <2>1 DEF Inserting
<1>15. /\ Suits(expected, D, Pledge({}, {})) /\ Suits(V, D, Pledge({}, {}))
       /\ Suits(V, E, Pledge({}, {}))
  BY <1>1, <1>6, <1>9 DEF Suits, Pledge
<1>16. \A t \in w.trees : Suits(t[1], t[2], Pledge({}, {}))
  BY <1>3, <1>15
<1>17. w.late = Leads({})
  BY <1>3, NoLeads
<1>18. CASE ins.ok /\ Ends(last, V, {}, {})
  <2>1. Going(ins.s, w, V, E) /\ Inserted(x, V, W, p, Node(disk, p), ins)
    BY <1>6, <1>14, <1>18, InsertGoing
  <2>2. Going(last, w, V, E)
    <3>1. CASE new.ino.kind # "dir"
      BY <2>1, <3>1
    <3>2. CASE new.ino.kind = "dir"
      <4>1. /\ Base(ins.s, V, W) /\ At(ins.s, ins.node, p) /\ ins.s.iused = x.iused
            /\ ins.s.inode[p].kind = x.inode[p].kind
        BY <1>18, <2>1 DEF Inserted
      <4>2. p \in ins.s.iused /\ IsDir(ins.s, p)
        <5>1. IsDir(x, p)
          BY <1>6, <1>7 DEF IsDir
        <5>2. p \in x.iused
          BY <1>6, <1>7, <5>1, DirFacts
        <5>3. QED BY <4>1, <5>1, <5>2 DEF IsDir
      <4>3. Counted(ins.s, w, V, E)
        BY <1>3, <1>6, <1>8, <1>10, <1>18, <2>1, InsertedCounted
      <4>4. PICK k \in Int : k = 1
        OBVIOUS
      <4>5. last = WriteInode(ins.s, Linked(ins.node, k))
        BY <3>2, <4>4
      <4>6. QED BY <1>3, <2>1, <4>1, <4>2, <4>3, <4>5, CountWrittenFit
    <3>3. QED BY <3>1, <3>2
  <2>3. QED BY <1>3, <1>16, <1>17, <1>18, <2>2, EndsCut
<1>19. CASE ~ins.ok /\ Ends(Discard(x, new), expected, {}, {})
  <2>1. \A j \in Met(expected) : x.inode[j].run = new.ino.run => new.ino.run = 0
    <3>1. \A j, k \in Inodes : x.inode[j].run = x.inode[k].run /\ x.inode[j].run # 0 => j = k
      BY <1>7 DEF Base, Owned
    <3>2. Met(expected) \subseteq Inodes
      BY <1>10, MetIn
    <3>3. QED BY <1>6, <1>7, <3>1, <3>2
  <2>2. w.new.no # i
    BY <1>3, <1>6
  <2>3. Going(Discard(x, new), w, expected, D)
    BY <1>6, <1>7, <1>11, <2>1, <2>2, DiscardGoing, SMTT(30)
  <2>4. QED BY <1>3, <1>16, <1>17, <1>19, <2>3, EndsCut
<1>20. CASE ins.ok /\ Undone(x, ins, new)
  <2>1. Going(ins.s, u, V, E)
    BY <1>6, <1>14, <1>20, InsertGoing
  <2>2. D \ {i} = D
    BY <1>7
  <2>3. \A t \in u.trees : Plan(t[1], t[2] \ {i}) /\ Suits(t[1], t[2] \ {i}, Pledge({}, {}))
    <3>1. u.trees = w.trees /\ E \ {i} = D /\ Plan(expected, D) /\ Plan(V, D)
      BY <1>5, <1>7
    <3>2. ASSUME NEW t \in u.trees PROVE t[2] \ {i} = D /\ t[1] \in {expected, V}
      BY ONLY <1>3, <2>2, <3>1, <3>2
    <3>3. QED BY ONLY <1>15, <3>1, <3>2, ZenonT(30)
  <2>4. /\ Undone(x, ins, new) /\ u.from = Len(x.past) /\ u.new = new
        /\ i \in Inodes /\ new \in NodeSet /\ new.no = i /\ i # Root
    BY <1>5, <1>6, <1>7, <1>20
  <2>5. QED BY ONLY <2>1, <2>3, <2>4, UndoneCut
<1>21. QED BY <1>18, <1>19, <1>20

LEMMA CreateCut ==
    ASSUME IInv, NEW p \in Dirs(disk), NEW n \in Names, NEW kind \in {"file", "special"},
           NEW data \in BOOLEAN, NEW way \in Ways, Create(p, n, kind, data, way)
    PROVE  CutLosesNoName'
<1>1. PICK s, U, W, i, new, r, c, x, V, ins :
         /\ Making(s, U, W, p, n, i, new, data, r, c, x, V, way, ins)
         /\ new.ino.kind # "dir"
         /\ \/ ins.ok /\ Ends(ins.s, V, {}, {})
            \/ ~ins.ok /\ Ends(Discard(x, new), expected, {}, {})
            \/ ins.ok /\ Undone(x, ins, new)
  BY CreateMakes
<1>2. PICK last : last = IF new.ino.kind = "dir"
                         THEN WriteInode(ins.s, Linked(ins.node, 1)) ELSE ins.s
  OBVIOUS
<1>3. last = ins.s
  BY <1>1, <1>2
<1>4. \/ ins.ok /\ Ends(last, V, {}, {})
      \/ ~ins.ok /\ Ends(Discard(x, new), expected, {}, {})
      \/ ins.ok /\ Undone(x, ins, new)
  BY <1>1, <1>3
<1>5. QED BY ONLY <1>1, <1>2, <1>4, MakingCut

LEMMA MkdirCut ==
    ASSUME IInv, NEW p \in Dirs(disk), NEW n \in Names, NEW way \in Ways, Mkdir(p, n, way)
    PROVE  CutLosesNoName'
<1>1. PICK s, U, W, i, new, r, c, x, V, ins :
         /\ Making(s, U, W, p, n, i, new, TRUE, r, c, x, V, way, ins)
         /\ new.ino.kind = "dir"
         /\ \/ ins.ok /\ Ends(WriteInode(ins.s, Linked(ins.node, 1)), V, {}, {})
            \/ ~ins.ok /\ Ends(Discard(x, new), expected, {}, {})
            \/ ins.ok /\ Undone(x, ins, new)
  BY MkdirMakes
<1>2. PICK last : last = IF new.ino.kind = "dir"
                         THEN WriteInode(ins.s, Linked(ins.node, 1)) ELSE ins.s
  OBVIOUS
<1>3. last = WriteInode(ins.s, Linked(ins.node, 1))
  BY <1>1, <1>2
<1>4. \/ ins.ok /\ Ends(last, V, {}, {})
      \/ ~ins.ok /\ Ends(Discard(x, new), expected, {}, {})
      \/ ins.ok /\ Undone(x, ins, new)
  BY <1>1, <1>3
<1>5. QED BY ONLY <1>1, <1>2, <1>4, MakingCut

-----------------------------------------------------------------------------
(* The calls that take a name away.                                        *)

\* With fewer names the links still suffice.
LEMMA CountedLess ==
    ASSUME NEW s, Typed(s), NEW w, NEW T, T \subseteq Edge, NEW D, Counted(s, w, T, D),
           NEW V, V \subseteq T, NEW E, \A j \in Met(V) : j \in E <=> j \in D
    PROVE  Counted(s, w, V, E)
<1>1. Met(V) \subseteq Met(T) /\ Met(T) \subseteq Inodes
  BY MetIn DEF Met
<1>2. ASSUME NEW j \in Inodes
      PROVE  /\ Cardinality(NamesOf(V, j)) <= Cardinality(NamesOf(T, j))
             /\ Cardinality(NamesOf(V, j)) \in Nat /\ Cardinality(NamesOf(T, j)) \in Nat
             /\ s.inode[j].nlink \in Int
  <2>1. PICK A, B : A = NamesOf(V, j) /\ B = NamesOf(T, j)
    OBVIOUS
  <2>2. A \subseteq B /\ B \subseteq Edge
    BY <2>1 DEF NamesOf
  <2>3. IsFiniteSet(B) /\ IsFiniteSet(A)
    BY <2>2, EdgeFinite, FS_Subset
  <2>4. Cardinality(A) <= Cardinality(B) /\ Cardinality(A) \in Nat /\ Cardinality(B) \in Nat
    BY <2>2, <2>3, FS_Subset, FS_CardinalityType
  <2>5. s.inode[j].nlink \in Int
    BY InodeTyped
  <2>6. QED BY <2>1, <2>4, <2>5
<1>3. ASSUME NEW j \in Met(V)
      PROVE  /\ IsDir(s, j) <=> j \in E
             /\ j \in s.iused
             /\ IsDir(s, j) \/ j \in w.late \/ s.inode[j].nlink >= Cardinality(NamesOf(V, j))
  <2>1. j \in Met(T) /\ j \in Inodes /\ (j \in E <=> j \in D)
    BY <1>1, <1>3
  <2>2. /\ IsDir(s, j) <=> j \in D
        /\ j \in s.iused
        /\ IsDir(s, j) \/ j \in w.late \/ s.inode[j].nlink >= Cardinality(NamesOf(T, j))
    BY <2>1 DEF Counted
  <2>3. QED BY <1>2, <2>1, <2>2
<1>4. QED BY <1>3 DEF Counted

\* A directory that is not listed by another name.
LEMMA DirMetOnce ==
    ASSUME NEW T, NEW K, NEW U, NEW C, TreeOK(T, K, U, C), NEW p \in Inodes, NEW n \in Names,
           NEW i \in Inodes, <<p, n, i>> \in T, K[i] = "dir", NEW V, V = T \ {<<p, n, i>>}
    PROVE  i \notin Met(V) /\ i # Root
<1>1. T \subseteq Edge /\ Shape(T, K, U)
  BY DEF TreeOK
<1>2. i # Root
  BY <1>1 DEF Shape
<1>3. \A d \in Inodes, m \in Names : <<d, m, i>> \in T => d = p /\ m = n
  BY <1>1 DEF Shape
<1>4. i \notin Leads(V)
  <2>1. SUFFICES ASSUME i \in Leads(V) PROVE FALSE
    OBVIOUS
  <2>2. V \subseteq Edge
    BY <1>1
  <2>3. PICK d \in Inodes, m \in Names : <<d, m, i>> \in V
    BY <2>1, <2>2, MetIn
  <2>4. QED BY <1>3, <2>3
<1>5. QED BY <1>2, <1>4 DEF Met, Leads

\* A name is being removed, and what it named may go with it.
Taking(s, U, p, n, i, w, D, V, E) ==
    /\ Begun(s, U) /\ p \in Dirs(disk) /\ n \in Names /\ i \in Lookup(disk, p, n)
    /\ w.from = 0 /\ w.new = NoNode /\ D = DirSet(disk) /\ E = D \ {i}
    /\ V = expected \ {<<p, n, i>>}
    /\ <<expected, D>> \in w.trees /\ <<V, E>> \in w.trees

\* The entry is gone; the inode is not yet.
LEMMA TakingGoing ==
    ASSUME NEW s, NEW U, NEW p, NEW n, NEW i, NEW w, NEW D, NEW V, NEW E,
           Taking(s, U, p, n, i, w, D, V, E),
           NEW node, NEW y, Dropped(s, U, V, p, i, node, y),
           NEW rem, rem = Remove(s, Node(disk, p), n)
    PROVE  /\ Plan(V, E) /\ Counted(y, w, V, E) /\ Base(y, V, U) /\ y \in Opened
           /\ w.new.no \notin Inodes /\ i \in Inodes /\ p \in Inodes
           /\ At(s, Node(disk, i), i) /\ At(s, Node(disk, p), p)
           /\ Going(rem.s, w, V, E) /\ Removed(s, V, U, p, Node(disk, p), rem)
           /\ \A j \in Met(V) : s.inode[j].run = s.inode[i].run /\ j # i => s.inode[i].run = 0
<1>1. /\ Begun(s, U) /\ p \in Dirs(disk) /\ n \in Names /\ i \in Lookup(disk, p, n)
      /\ w.from = 0 /\ w.new = NoNode /\ D = DirSet(disk) /\ E = D \ {i}
      /\ V = expected \ {<<p, n, i>>}
      /\ <<expected, D>> \in w.trees /\ <<V, E>> \in w.trees
  BY DEF Taking
<1>2. /\ Leaving(s, U, p, n, i, V) /\ At(s, Node(disk, i), i) /\ At(s, Node(disk, p), p)
      /\ \A j \in Inodes : <<p, n, j>> \in expected => j = i
  BY <1>1, LeavingFacts
<1>3. /\ s \in Opened /\ Base(s, expected, U) /\ TreeOK(expected, Kind(s), U, LinkOf(s))
      /\ p \in Inodes /\ IsDir(s, p) /\ i \in Inodes /\ <<p, n, i>> \in expected
      /\ expected \subseteq Edge /\ V \subseteq expected /\ Typed(s)
  BY <1>1, <1>2, OpenedTyped DEF Leaving, Begun
<1>4. /\ Going(s, w, expected, D) /\ Counted(s, w, expected, D)
      /\ D \subseteq Inodes /\ \A j \in Inodes : j \in D <=> IsDir(s, j)
  BY <1>1, OpenGoing
<1>5. y \in Opened /\ Sound(y, V, U) /\ Base(y, V, U) /\ Typed(y)
  BY OpenedTyped DEF Dropped
<1>6. DirSet(y) = E
  BY <1>1, <1>3, DroppedDirs
<1>7. Plan(V, E) /\ Counted(y, w, V, E)
  BY <1>5, <1>6, SoundPlan
<1>8. Counted(s, w, V, E)
  <2>1. \A j \in Met(V) : j \in E <=> j \in D
    <3>1. CASE i \in D
      <4>1. Kind(s)[i] = "dir"
        BY <1>3, <1>4, <3>1 DEF Kind, IsDir
      <4>2. i \notin Met(V)
        BY <1>1, <1>3, <4>1, DirMetOnce
      <4>3. QED BY <1>1, <4>2
    <3>2. CASE i \notin D
      BY <1>1, <3>2
    <3>3. QED BY <3>1, <3>2
  <2>2. QED BY <1>3, <1>4, <2>1, CountedLess
<1>9. Going(rem.s, w, V, E) /\ Removed(s, V, U, p, Node(disk, p), rem)
  <2>1. p \in D
    BY <1>3, <1>4
  <2>2. Base(s, expected, U) /\ Going(s, w, expected, D)
    BY <1>3, <1>4
  <2>3. At(s, Node(disk, p), p) /\ n \in Names /\ i \in Inodes /\ <<p, n, i>> \in expected
    BY <1>1, <1>2, <1>3
  <2>4. \A j \in Inodes : <<p, n, j>> \in expected => j = i
    BY <1>2
  <2>5. V = expected \ {<<p, n, i>>} /\ <<V, E>> \in w.trees
    BY <1>1
  <2>6. QED BY ONLY <1>7, <1>8, <2>1, <2>2, <2>3, <2>4, <2>5, rem = Remove(s, Node(disk, p), n),
               RemoveGoing
<1>10. w.new.no \notin Inodes
  BY <1>1, RootInode DEF NoNode
<1>11. \A j \in Met(V) : s.inode[j].run = s.inode[i].run /\ j # i => s.inode[i].run = 0
  <2>1. Met(V) \subseteq Inodes
    BY <1>3, MetIn
  <2>2. \A j, k \in Inodes : s.inode[j].run = s.inode[k].run /\ s.inode[j].run # 0 => j = k
    BY <1>3 DEF Base, Owned
  <2>3. QED BY <1>3, <2>1, <2>2
<1>12. QED BY <1>2, <1>3, <1>5, <1>7, <1>9, <1>10, <1>11

\* The inode whose name is gone goes.
LEMMA TakenDiscard ==
    ASSUME NEW s, NEW U, NEW p, NEW V, NEW node, NEW rem, Removed(s, V, U, p, node, rem),
           NEW w, NEW E, Going(rem.s, w, V, E), w.new.no \notin Inodes, NEW i \in Inodes,
           NEW t, At(s, t, i), i \notin Met(V),
           \A j \in Met(V) : s.inode[j].run = s.inode[i].run /\ j # i => s.inode[i].run = 0
    PROVE  Going(Discard(rem.s, t), w, V, E)
<1>1. rem.s.inode = s.inode
  BY DEF Removed
<1>2. t \in NodeSet /\ t.no = i /\ t.ino = s.inode[i] /\ w.new.no # i
  BY DEF At
<1>3. \A j \in Met(V) : rem.s.inode[j].run = t.ino.run => t.ino.run = 0
  BY <1>1, <1>2
<1>4. QED BY <1>2, <1>3, DiscardGoing

\* nextufs__remove_linked_inode behind nextufs__remove_dirent.
LEMMA UnlinkGoing ==
    ASSUME NEW s, NEW U, NEW p, NEW n, NEW i, NEW w, NEW D, NEW V, NEW E,
           Taking(s, U, p, n, i, w, D, V, E), ~IsDir(disk, i),
           NEW rem, rem = Remove(s, Node(disk, p), n),
           NEW y, y = RemoveLinked(rem.s, Node(disk, i))
    PROVE  Going(y, w, V, E) /\ Plan(V, E) /\ Counted(y, w, V, E)
<1>1. PICK t, up : t = Node(disk, i) /\ up = Node(disk, p)
  OBVIOUS
<1>2. Dropped(s, U, V, p, i, rem.node, y)
  BY UnlinkedSound DEF Taking
<1>3. /\ Plan(V, E) /\ Counted(y, w, V, E) /\ Base(y, V, U) /\ y \in Opened
      /\ w.new.no \notin Inodes /\ i \in Inodes /\ p \in Inodes
      /\ At(s, t, i) /\ At(s, up, p)
      /\ Going(rem.s, w, V, E) /\ Removed(s, V, U, p, up, rem)
      /\ \A j \in Met(V) : s.inode[j].run = s.inode[i].run /\ j # i => s.inode[i].run = 0
  BY <1>1, <1>2, TakingGoing
<1>4. PICK fewer : fewer = Linked(t, -1)
  OBVIOUS
<1>5. y = IF fewer.ino.nlink > 0 THEN WriteInode(rem.s, fewer) ELSE Discard(rem.s, t)
  BY <1>1, <1>4 DEF RemoveLinked, Discard
<1>6. rem.s \in Opened
  BY <1>3 DEF Going
<1>7. CASE fewer.ino.nlink > 0
  <2>1. OneWrite(rem.s, y)
    BY <1>5, <1>6, <1>7, PrimitiveWrites
  <2>2. <<V, E>> \in w.trees
    BY DEF Taking
  <2>3. Going(y, w, V, E)
    BY <1>3, <2>1, <2>2, BaseGoing
  <2>4. QED BY <1>3, <2>3
<1>8. CASE ~(fewer.ino.nlink > 0)
  <2>1. y = Discard(rem.s, t) /\ t \in NodeSet /\ t.no = i
    BY <1>3, <1>5, <1>8 DEF At
  <2>2. i \notin y.iused
    BY <1>6, <2>1, DiscardEffect
  <2>3. i \notin Met(V)
    BY <1>3, <2>2 DEF Counted
  <2>4. Going(y, w, V, E)
    BY <1>3, <2>1, <2>3, TakenDiscard
  <2>5. QED BY <1>3, <2>4
<1>9. QED BY <1>7, <1>8

\* nextufs__remove_dir_inode behind nextufs__remove_dirent.
LEMMA RmdirGoing ==
    ASSUME NEW s, NEW U, NEW p, NEW n, NEW i, NEW w, NEW D, NEW V, NEW E,
           Taking(s, U, p, n, i, w, D, V, E), IsDir(disk, i), EmptyDir(disk, i, p),
           NEW rem, rem = Remove(s, Node(disk, p), n),
           NEW dir, dir = RemoveDir(rem.s, rem.node, Node(disk, i))
    PROVE  Going(dir.s, w, V, E) /\ Plan(V, E) /\ Counted(dir.s, w, V, E)
<1>1. PICK t, up, y : t = Node(disk, i) /\ up = Node(disk, p) /\ y = dir.s
  OBVIOUS
<1>2. rem.node = up /\ Dropped(s, U, V, p, i, dir.node, y)
  BY <1>1, RmdirSound DEF Taking
<1>3. /\ Plan(V, E) /\ Counted(y, w, V, E) /\ Base(y, V, U) /\ y \in Opened
      /\ w.new.no \notin Inodes /\ i \in Inodes /\ p \in Inodes
      /\ At(s, t, i) /\ At(s, up, p)
      /\ Going(rem.s, w, V, E) /\ Removed(s, V, U, p, up, rem)
      /\ \A j \in Met(V) : s.inode[j].run = s.inode[i].run /\ j # i => s.inode[i].run = 0
  BY <1>1, <1>2, TakingGoing
<1>4. PICK z : z = Discard(rem.s, t)
  OBVIOUS
<1>5. y = WriteInode(z, Linked(up, -1))
  <2>1. dir = [node |-> Linked(up, -1), s |-> WriteInode(z, Linked(up, -1))]
    BY <1>1, <1>2, <1>4 DEF RemoveDir, Discard
  <2>2. QED BY <1>1, <2>1
<1>6. i \notin Met(V)
  <2>1. /\ TreeOK(expected, Kind(s), U, LinkOf(s)) /\ <<p, n, i>> \in expected /\ n \in Names
        /\ V = expected \ {<<p, n, i>>} /\ Kind(s)[i] = "dir"
    <3>1. Begun(s, U) /\ n \in Names /\ V = expected \ {<<p, n, i>>}
      BY DEF Taking
    <3>2. <<p, n, i>> \in expected
      BY <1>3, <3>1, BegunDir DEF Taking
    <3>3. Kind(s)[i] = "dir"
      BY <1>3, <3>1 DEF Begun, Kind, IsDir
    <3>4. QED BY <3>1, <3>2, <3>3 DEF Begun
  <2>2. QED BY <1>3, <2>1, DirMetOnce
<1>7. Going(z, w, V, E)
  BY <1>3, <1>4, <1>6, TakenDiscard
<1>8. OneWrite(z, y)
  BY <1>5, <1>7, PrimitiveWrites DEF Going
<1>9. <<V, E>> \in w.trees
  BY DEF Taking
<1>10. Going(y, w, V, E)
  BY <1>3, <1>7, <1>8, <1>9, BaseGoing
<1>11. QED BY <1>1, <1>3, <1>10

\* What may go, and goes: the name, and a directory with it.
LEMMA TakingSuits ==
    ASSUME NEW s, NEW U, NEW p, NEW n, NEW i, NEW w, NEW D, NEW V, NEW E,
           Taking(s, U, p, n, i, w, D, V, E), IsDir(disk, i) \/ i \notin D
    PROVE  /\ Suits(expected, D, Pledge({<<p, n, i>>}, {}))
           /\ Suits(V, E, Pledge({<<p, n, i>>}, {}))
<1>1. /\ Begun(s, U) /\ p \in Dirs(disk) /\ n \in Names /\ i \in Lookup(disk, p, n)
      /\ D = DirSet(disk) /\ E = D \ {i} /\ V = expected \ {<<p, n, i>>}
  BY DEF Taking
<1>2. Dirs(disk) = D
  BY <1>1, WalkFacts DEF Begun, DirSet
<1>3. /\ TreeOK(expected, Kind(s), U, LinkOf(s)) /\ p \in Inodes /\ i \in Inodes
      /\ <<p, n, i>> \in expected
  BY <1>1, LeavingFacts DEF Leaving, Begun
<1>4. i \in D => i \notin Leads(V)
  <2>1. SUFFICES ASSUME i \in D PROVE i \notin Leads(V)
    OBVIOUS
  <2>2. Kind(s)[i] = "dir"
    BY <1>1, <1>3, <2>1 DEF Begun, Kind, IsDir, DirSet
  <2>3. i \notin Met(V)
    BY <1>1, <1>3, <2>2, DirMetOnce
  <2>4. QED BY <2>3 DEF Met, Leads
<1>5. PICK c : c = Pledge({<<p, n, i>>}, {})
  OBVIOUS
<1>6. c.dirs = D /\ c.spared = V /\ c.either = {}
  BY <1>1, <1>2, <1>5 DEF Pledge
<1>7. Suits(expected, D, c) /\ Suits(V, E, c)
  BY <1>1, <1>4, <1>6 DEF Suits
<1>8. QED BY <1>5, <1>7

LEMMA UnlinkCut ==
    ASSUME IInv, NEW p \in Dirs(disk), NEW n \in Names, NEW i \in Lookup(disk, p, n),
           Unlink(p, n, i)
    PROVE  CutLosesNoName'
<1>1. PICK s, U : Begun(s, U)
  BY Begin DEF Unlink
<1>2. PICK rem : rem = Remove(s, Node(disk, p), n)
  OBVIOUS
<1>3. PICK y : y = RemoveLinked(rem.s, Node(disk, i))
  OBVIOUS
<1>4. PICK V, names : V = expected \ {<<p, n, i>>} /\ names = {<<p, n, i>>}
  OBVIOUS
<1>5. PICK D, E : D = DirSet(disk) /\ E = D \ {i}
  OBVIOUS
<1>6. PICK w : w = Watch(expected, D, V, E, {})
  OBVIOUS
<1>7. /\ w.from = 0 /\ w.late = {} /\ w.new = NoNode
      /\ <<expected, D>> \in w.trees /\ <<V, E>> \in w.trees
      /\ \A t \in w.trees : (t[1] = expected /\ t[2] = D) \/ (t[1] = V /\ t[2] = E)
  BY <1>6, WatchFacts
<1>8. ~IsDir(disk, i)
  BY DEF Unlink
<1>9. Ends(y, V, names, {})
  <2>1. s = Open(disk)
    BY <1>1 DEF Begun
  <2>2. PICK un : un = Unlinked(p, n, i)
    OBVIOUS
  <2>3. Ends(un.s, V, names, {})
    BY <1>4, <2>2 DEF Unlink
  <2>4. un = [rem EXCEPT !.s = y]
    BY <1>2, <1>3, <2>1, <2>2 DEF Unlinked
  <2>5. Remove(s, Node(disk, p), n) = [ok |-> rem.ok, node |-> rem.node, s |-> rem.s]
    BY <1>2 DEF Remove
  <2>6. rem = [ok |-> rem.ok, node |-> rem.node, s |-> rem.s]
    BY <1>2, <2>5
  <2>7. un.s = y
    BY <2>4, <2>6
  <2>8. QED BY <2>3, <2>7
<1>10. Taking(s, U, p, n, i, w, D, V, E)
  BY <1>1, <1>4, <1>5, <1>7 DEF Taking
<1>11. Going(y, w, V, E)
  BY <1>2, <1>3, <1>8, <1>10, UnlinkGoing
<1>12. i \notin D
  BY <1>5, <1>8 DEF DirSet
<1>13. Suits(expected, D, Pledge(names, {})) /\ Suits(V, E, Pledge(names, {}))
  BY <1>4, <1>10, <1>12, TakingSuits
<1>14. \A t \in w.trees : Suits(t[1], t[2], Pledge(names, {}))
  BY <1>7, <1>13
<1>15. w.late = Leads({})
  BY <1>7, NoLeads
<1>16. QED BY <1>7, <1>9, <1>11, <1>14, <1>15, EndsCut

LEMMA RmdirCut ==
    ASSUME IInv, NEW p \in Dirs(disk), NEW n \in Names, NEW i \in Lookup(disk, p, n),
           Rmdir(p, n, i)
    PROVE  CutLosesNoName'
<1>1. PICK s, U : Begun(s, U)
  BY Begin DEF Rmdir
<1>2. PICK rem : rem = Remove(s, Node(disk, p), n)
  OBVIOUS
<1>3. PICK dir : dir = RemoveDir(rem.s, rem.node, Node(disk, i))
  OBVIOUS
<1>4. PICK V, names : V = expected \ {<<p, n, i>>} /\ names = {<<p, n, i>>}
  OBVIOUS
<1>5. PICK D, E : D = DirSet(disk) /\ E = D \ {i}
  OBVIOUS
<1>6. PICK w : w = Watch(expected, D, V, E, {})
  OBVIOUS
<1>7. /\ w.from = 0 /\ w.late = {} /\ w.new = NoNode
      /\ <<expected, D>> \in w.trees /\ <<V, E>> \in w.trees
      /\ \A t \in w.trees : (t[1] = expected /\ t[2] = D) \/ (t[1] = V /\ t[2] = E)
  BY <1>6, WatchFacts
<1>8. IsDir(disk, i) /\ EmptyDir(disk, i, p) /\ Ends(dir.s, V, names, {})
  <2>1. s = Open(disk)
    BY <1>1 DEF Begun
  <2>2. QED BY <1>2, <1>3, <1>4, <2>1 DEF Rmdir
<1>9. Taking(s, U, p, n, i, w, D, V, E)
  BY <1>1, <1>4, <1>5, <1>7 DEF Taking
<1>10. Going(dir.s, w, V, E)
  BY <1>2, <1>3, <1>8, <1>9, RmdirGoing
<1>11. Suits(expected, D, Pledge(names, {})) /\ Suits(V, E, Pledge(names, {}))
  BY <1>4, <1>8, <1>9, TakingSuits
<1>12. \A t \in w.trees : Suits(t[1], t[2], Pledge(names, {}))
  BY <1>7, <1>11
<1>13. w.late = Leads({})
  BY <1>7, NoLeads
<1>14. QED BY <1>7, <1>8, <1>10, <1>12, <1>13, EndsCut

-----------------------------------------------------------------------------
(* Another name for a file, and new contents.                              *)

\* A call that only adds to a tree.
LEMMA AddingSuits ==
    ASSUME NEW s, NEW U, Begun(s, U), NEW D, D = DirSet(disk), NEW V, expected \subseteq V
    PROVE  Suits(V, D, Pledge({}, {}))
<1>1. Dirs(disk) = D
  BY WalkFacts DEF Begun, DirSet
<1>2. PICK c : c = Pledge({}, {})
  OBVIOUS
<1>3. c.dirs = D /\ c.spared = expected /\ c.either = {}
  BY <1>1, <1>2 DEF Pledge
<1>4. Suits(V, D, c)
  BY <1>3 DEF Suits
<1>5. QED BY <1>2, <1>4

LEMMA LinkCut ==
    ASSUME IInv, NEW p \in Dirs(disk), NEW n \in Names, NEW i \in Reachable(disk),
           NEW way \in Ways, Link(p, n, i, way)
    PROVE  CutLosesNoName'
<1>1. ~IsDir(disk, i) /\ Absent(p, n)
  BY DEF Link
<1>2. PICK s, U : Begun(s, U)
  BY Begin DEF Link
<1>3. PICK t : t = Node(disk, i)
  OBVIOUS
<1>4. PICK x : x = WriteInode(s, Linked(t, 1))
  OBVIOUS
<1>5. PICK ins : ins = Insert(x, Node(disk, p), n, i, way)
  OBVIOUS
<1>6. PICK V : V = expected \cup {<<p, n, i>>}
  OBVIOUS
<1>7. IF ins.ok THEN Ends(ins.s, V, {}, {}) ELSE Leaves(ins.s, expected, "link count kept")
  <2>1. s = Open(disk)
    BY <1>2 DEF Begun
  <2>2. QED BY <1>3, <1>4, <1>5, <1>6, <2>1 DEF Link
<1>8. CASE ~ins.ok
  <2>1. damage' = "link count kept"
    BY <1>7, <1>8 DEF Leaves
  <2>2. QED BY <2>1, CutIs DEF Harmless
<1>9. CASE ins.ok
  <2>1. PICK D, w : D = DirSet(disk) /\ w = Watch(expected, D, V, D, {})
    OBVIOUS
  <2>2. /\ w.from = 0 /\ w.late = {} /\ w.new = NoNode /\ w.new.no \notin Inodes
        /\ <<expected, D>> \in w.trees /\ <<V, D>> \in w.trees
        /\ \A u \in w.trees : (u[1] = expected /\ u[2] = D) \/ (u[1] = V /\ u[2] = D)
    BY <2>1, WatchFacts
  <2>3. /\ Going(s, w, expected, D) /\ Plan(expected, D) /\ Counted(s, w, expected, D)
        /\ D \subseteq Inodes /\ \A j \in Inodes : j \in D <=> IsDir(s, j)
    BY <1>2, <2>1, <2>2, OpenGoing
  <2>4. /\ p \in Inodes /\ IsDir(s, p) /\ At(s, Node(disk, p), p) /\ p \in D
        /\ \A j \in Inodes : <<p, n, j>> \notin expected
    BY <1>1, <1>2, <2>3, BegunDir DEF Absent
  <2>5. i \in Inodes /\ i \in s.iused /\ At(s, t, i)
    BY <1>2, <1>3, BegunUsed
  <2>6. /\ s \in Opened /\ Typed(s) /\ Base(s, expected, U) /\ expected \subseteq Edge
        /\ TreeOK(expected, Kind(s), U, LinkOf(s)) /\ ~IsDir(s, i)
    BY <1>1, <1>2, OpenedTyped DEF Begun, IsDir
  <2>7. i # p
    BY <2>4, <2>6
  <2>8. PICK k \in Int : k = 1
    OBVIOUS
  <2>9. /\ x \in Opened /\ Base(x, expected, U) /\ x.iused = s.iused /\ Kind(x) = Kind(s)
        /\ \A j \in Inodes : j # i => x.inode[j] = s.inode[j]
        /\ x.inode[i].nlink = s.inode[i].nlink + 1
    <3>1. x = WriteInode(s, Linked(t, k))
      BY <1>4, <2>8
    <3>2. /\ x \in Opened /\ Base(x, expected, U) /\ x.iused = s.iused /\ Kind(x) = Kind(s)
          /\ \A j \in Inodes : j # i => x.inode[j] = s.inode[j]
      BY <2>5, <2>6, <3>1, CountWritten
    <3>3. LinkOf(x)[i] = LinkOf(s)[i] + k
      BY <2>5, <2>6, <3>1, CountWritten
    <3>4. x.inode[i].nlink = s.inode[i].nlink + 1
      BY <2>5, <2>8, <3>3 DEF LinkOf
    <3>5. QED BY <3>2, <3>4
  <2>10. Plan(V, D) /\ Met(V) = Met(expected) \cup {i}
    <3>1. NewName(V, expected, p, n, i)
      BY <1>6 DEF NewName
    <3>2. Plan(expected, D) /\ p \in D /\ i \in Inodes
      BY <2>3, <2>4, <2>5
    <3>3. QED BY ONLY <3>1, <3>2, n \in Names, PlanName
  <2>11. OneMore(expected, V, Kind(s), p, i)
    BY <1>6, <2>4, <2>5, <2>6, CountOneMore
  <2>12. ASSUME NEW j \in Met(V)
         PROVE  /\ IsDir(x, j) <=> j \in D
                /\ j \in x.iused
                /\ IsDir(x, j) \/ x.inode[j].nlink >= Cardinality(NamesOf(V, j))
                /\ IsDir(x, j) \/ x.inode[j].nlink >= Cardinality(NamesOf(expected, j))
    <3>1. /\ Cardinality(NamesOf(V, j)) =
                Cardinality(NamesOf(expected, j)) + (IF j = i THEN 1 ELSE 0)
          /\ Cardinality(NamesOf(expected, j)) \in Nat
      BY <2>11 DEF OneMore
    <3>2. j \in Inodes
      BY <2>5, <2>6, <2>10, MetIn
    <3>3. IsDir(x, j) <=> IsDir(s, j)
      BY <2>9, <3>2, KindFacts DEF IsDir
    <3>4. CASE j = i
      <4>1. Kind(s)[i] = s.inode[i].kind /\ LinkOf(s)[i] = s.inode[i].nlink
        BY <2>5 DEF Kind, LinkOf
      <4>2. s.inode[i].kind # "free" /\ s.inode[i].kind # "dir"
        BY <2>5, <2>6 DEF Base, Owned, IsDir
      <4>3. s.inode[i].nlink = Cardinality(NamesOf(expected, i))
        BY <2>5, <2>6, <4>1, <4>2 DEF TreeOK, Counts
      <4>4. QED BY <2>3, <2>5, <2>9, <3>1, <3>3, <3>4, <4>3
    <3>5. CASE j # i
      <4>1. j \in Met(expected)
        BY <2>10, <3>5
      <4>2. x.inode[j] = s.inode[j]
        BY <2>9, <3>2, <3>5
      <4>3. /\ j \in s.iused
            /\ IsDir(s, j) \/ s.inode[j].nlink >= Cardinality(NamesOf(expected, j))
        BY <2>2, <2>3, <4>1 DEF Counted
      <4>4. QED BY <2>3, <2>9, <3>1, <3>2, <3>3, <3>5, <4>2, <4>3
    <3>6. QED BY <3>4, <3>5
  <2>13. Counted(x, w, V, D) /\ Counted(x, w, expected, D)
    BY <2>10, <2>12 DEF Counted
  <2>14. Going(x, w, expected, D)
    <3>1. OneWrite(s, x)
      BY <1>4, <2>6, PrimitiveWrites
    <3>2. QED BY <2>2, <2>3, <2>9, <2>13, <3>1, BaseGoing
  <2>15. At(x, Node(disk, p), p)
    BY <2>4, <2>7, <2>9 DEF At
  <2>16. Inserting(x, w, expected, U, D, p, Node(disk, p), n, i, V, D)
    <3>1. NoEntry(expected, p, n)
      BY <2>4 DEF NoEntry
    <3>2. w.new.no # p
      BY <2>2, <2>4
    <3>3. QED BY <1>6, <2>2, <2>4, <2>5, <2>9, <2>10, <2>13, <2>14, <2>15, <3>1, <3>2 DEF Inserting
  <2>17. Going(ins.s, w, V, D)
    BY <1>5, <1>9, <2>16, InsertGoing
  <2>18. Suits(expected, D, Pledge({}, {})) /\ Suits(V, D, Pledge({}, {}))
    BY <1>2, <1>6, <2>1, AddingSuits
  <2>19. \A u \in w.trees : Suits(u[1], u[2], Pledge({}, {}))
    BY <2>2, <2>18
  <2>20. w.late = Leads({})
    BY <2>2, NoLeads
  <2>21. Ends(ins.s, V, {}, {})
    BY <1>7, <1>9
  <2>22. QED BY <2>2, <2>17, <2>19, <2>20, <2>21, EndsCut
<1>10. QED BY <1>8, <1>9

\* An inode that is no directory is written with storage no other inode has.
LEMMA RewrittenFit ==
    ASSUME NEW s, NEW w, NEW T, NEW D, Fit(s, w, T, D), NEW U, Base(s, T, U), w.new.no \notin Inodes,
           NEW i \in Inodes, ~IsDir(s, i), NEW r \in Runs \cup {0}, NEW ino \in Inode,
           ino.kind = s.inode[i].kind, ino.nlink = s.inode[i].nlink, ino.run = r,
           \A j \in Inodes : s.inode[j].run = r => r = 0,
           NEW z, Typed(z), z.inode = [s.inode EXCEPT ![i] = ino], z.iused = s.iused,
           r # 0 => r \in z.rused,
           \A y \in s.rused : y \in z.rused /\ z.content[y] = s.content[y]
    PROVE  Fit(z, w, T, D)
<1>1. /\ Typed(s) /\ Stored(s) /\ T \subseteq Edge /\ Plan(T, D) /\ Used(s, w, T)
      /\ D \subseteq Inodes /\ D \subseteq Met(T) /\ Met(T) \subseteq Inodes
  BY MetIn DEF Fit, Stands, Plan
<1>2. PICK g \in Inodes : Stands(s, T, D, g)
  BY DEF Fit
<1>3. z.inode[i] = ino /\ \A j \in Inodes : j # i => z.inode[j] = s.inode[j]
  BY <1>1 DEF Typed
<1>4. Stored(z)
  BY <1>1, <1>3 DEF Stored, IsDir
<1>5. \A y \in Runs : (\E j \in Inodes : s.inode[j].run = y) => y \in s.rused
  BY DEF Base, Owned
<1>6. ASSUME NEW d \in D PROVE ListOf(z, z.inode[d]) = ListOf(s, s.inode[d])
  <2>1. d \in Inodes /\ IsDir(s, d)
    BY <1>1, <1>2 DEF Stands
  <2>2. z.inode[d] = s.inode[d]
    BY <1>3, <2>1
  <2>3. s.inode[d].run \in s.rused
    BY <1>1, <1>5, <2>1 DEF Stored
  <2>4. z.content[s.inode[d].run] = s.content[s.inode[d].run]
    BY <2>3
  <2>5. ListOf(z, s.inode[d]) = ListOf(s, s.inode[d])
    BY <2>4, SameList
  <2>6. QED BY <2>2, <2>5
<1>7. \A j \in Inodes : /\ z.inode[j].kind = s.inode[j].kind /\ z.inode[j].nlink = s.inode[j].nlink
                        /\ s.inode[j].nlink \in Int
  BY <1>1, <1>3, InodeTyped
<1>8. Alike(s, z, T, D)
  BY <1>1, <1>6, <1>7 DEF Alike
<1>9. Apart(z, T, Root)
  <2>1. ASSUME NEW j \in Inodes, z.inode[j].run # 0 PROVE z.inode[j].run \in z.rused
    <3>1. CASE j = i
      BY <1>3, <2>1, <3>1
    <3>2. CASE j # i
      <4>1. s.inode[j].run \in Runs
        BY <1>1, <1>3, <2>1, <3>2, InodeTyped
      <4>2. QED BY <1>3, <1>5, <3>2, <4>1
    <3>3. QED BY <3>1, <3>2
  <2>2. ASSUME NEW j \in Inodes, NEW k \in Inodes, z.inode[j].run = z.inode[k].run,
               z.inode[j].run # 0
        PROVE  j = k
    <3>1. \A a, b \in Inodes : s.inode[a].run = s.inode[b].run /\ s.inode[a].run # 0 => a = b
      BY DEF Base, Owned
    <3>2. CASE j = i \/ k = i
      BY <1>3, <2>2, <3>2
    <3>3. CASE j # i /\ k # i
      BY <1>3, <2>2, <3>1, <3>3
    <3>4. QED BY <3>2, <3>3
  <2>3. QED BY <1>1, <2>1, <2>2 DEF Apart
<1>10. Stands(z, T, D, Root)
  BY <1>1, <1>2, <1>4, <1>8, <1>9, AlikeStands
<1>11. Used(z, w, T)
  BY <1>1, <1>8, AlikeUsed
<1>12. QED BY <1>1, <1>10, <1>11, RootInode DEF Fit, Beside

LEMMA RewriteCut ==
    ASSUME IInv, NEW i \in Reachable(disk), NEW data \in BOOLEAN, Rewrite(i, data)
    PROVE  CutLosesNoName'
<1>1. disk.inode[i].kind = "file" /\ (data => FreeRuns(disk) # {})
  BY DEF Rewrite
<1>2. PICK s, U : Begun(s, U)
  BY Begin DEF Rewrite
<1>3. PICK r : r = IF data THEN Lowest(FreeRuns(disk)) ELSE 0
  OBVIOUS
<1>4. PICK new : new = [no |-> i, ino |-> [disk.inode[i] EXCEPT !.run = r]]
  OBVIOUS
<1>5. PICK s1 : s1 = IF data THEN Fill(AllocRun(s, r), r, NoContent) ELSE s
  OBVIOUS
<1>6. PICK z : z = WriteInode(s1, new)
  OBVIOUS
<1>7. PICK y : y = FreeStorage(z, disk.inode[i])
  OBVIOUS
<1>8. Ends(y, expected, {}, {})
  <2>1. s = Open(disk)
    BY <1>2 DEF Begun
  <2>2. QED BY <1>3, <1>4, <1>5, <1>6, <1>7, <2>1 DEF Rewrite
<1>9. i \in Inodes /\ i \in s.iused
  BY <1>2, BegunUsed
<1>10. /\ s \in Opened /\ Typed(s) /\ Base(s, expected, U) /\ expected \subseteq Edge
       /\ s.inode = disk.inode /\ FreeRuns(s) = FreeRuns(disk)
  BY <1>2, BegunFree, OpenedTyped DEF Begun
<1>11. r = (IF data THEN Lowest(FreeRuns(s)) ELSE 0) /\ (data => FreeRuns(s) # {})
  BY <1>1, <1>3, <1>10
<1>12. r \in Runs \cup {0} /\ (data => r \in Runs /\ r \notin s.rused) /\ (~data => r = 0)
  BY <1>10, <1>11, FreeRunFacts
<1>13. /\ new \in NodeSet /\ new.no = i /\ new.ino \in Inode
       /\ new.ino.kind = "file" /\ new.ino.run = r /\ new.ino.nlink = s.inode[i].nlink
  <2>1. disk.inode[i] \in Inode
    BY <1>9, <1>10, InodeTyped
  <2>2. QED BY <1>1, <1>4, <1>9, <1>10, <1>12, <2>1 DEF NodeSet, Inode
<1>14. s.inode[i].kind = "file" /\ ~IsDir(s, i) /\ y = FreeStorage(z, s.inode[i])
  BY <1>1, <1>7, <1>10 DEF IsDir
<1>15. PICK D, w : D = DirSet(disk) /\ w = Watch(expected, D, expected, D, {})
  OBVIOUS
<1>16. /\ w.from = 0 /\ w.late = {} /\ w.new = NoNode /\ w.new.no \notin Inodes
       /\ <<expected, D>> \in w.trees
       /\ \A u \in w.trees : u[1] = expected /\ u[2] = D
  BY <1>15, WatchFacts
<1>17. /\ Going(s, w, expected, D) /\ Plan(expected, D) /\ Counted(s, w, expected, D)
       /\ D \subseteq Inodes
  BY <1>2, <1>15, <1>16, OpenGoing
<1>18. NoContent \in Content
  <2>1. <<>> \in Seq(Blocks)
    OBVIOUS
  <2>2. QED BY <2>1 DEF NoContent, Content
<1>19. /\ Going(s1, w, expected, D) /\ s1 \in Opened /\ s1.inode = s.inode /\ s1.iused = s.iused
       /\ r # 0 => r \in s1.rused
       /\ \A x \in s.rused : x \in s1.rused /\ s1.content[x] = s.content[x]
  <2>1. CASE ~data
    BY <1>5, <1>10, <1>12, <1>17, <2>1
  <2>2. CASE data
    <3>1. PICK s2 : s2 = AllocRun(s, r)
      OBVIOUS
    <3>2. /\ s2 \in Opened /\ s2.rused = s.rused \cup {r} /\ s2.inode = s.inode
          /\ s2.content = s.content /\ s2.iused = s.iused /\ Going(s2, w, expected, D)
      BY <1>10, <1>12, <1>17, <2>2, <3>1, RunMapEffect, QuietAllocs
    <3>3. s1 = Fill(s2, r, NoContent)
      BY <1>5, <2>2, <3>1
    <3>4. /\ s1 \in Opened /\ s1.rused = s2.rused /\ s1.inode = s.inode
          /\ s1.content = [s.content EXCEPT ![r] = NoContent] /\ s1.iused = s.iused
      BY <1>12, <1>18, <2>2, <3>2, <3>3, FillEffect
    <3>5. \A d \in D : s2.inode[d].run # r
      BY <1>10, <1>12, <1>17, <2>2, <3>2, FreeRunApart
    <3>6. Going(s1, w, expected, D)
      BY <1>12, <1>18, <2>2, <3>2, <3>3, <3>5, QuietFill
    <3>7. \A x \in s.rused : x \in s1.rused /\ s1.content[x] = s.content[x]
      BY <1>10, <1>12, <2>2, <3>2, <3>4 DEF Typed
    <3>8. QED BY <3>2, <3>4, <3>6, <3>7
  <2>3. QED BY <2>1, <2>2
<1>20. /\ z \in Opened /\ z.inode = [s.inode EXCEPT ![i] = new.ino] /\ z.iused = s.iused
       /\ z.rused = s1.rused /\ z.content = s1.content /\ OneWrite(s1, z) /\ Typed(z)
  BY <1>6, <1>13, <1>19, WriteInodeEffect, PrimitiveWrites, OpenedTyped
<1>21. \A j \in Inodes : s.inode[j].run = r => r = 0
  BY <1>10, <1>12, FreeRunApart
<1>22. Fit(z, w, expected, D)
  <2>1. Fit(s, w, expected, D)
    BY <1>17 DEF Going
  <2>2. \A x \in s.rused : x \in z.rused /\ z.content[x] = s.content[x]
    BY <1>19, <1>20
  <2>3. (r # 0 => r \in z.rused) /\ new.ino.kind = s.inode[i].kind
    BY <1>13, <1>14, <1>19, <1>20
  <2>4. QED BY <1>9, <1>10, <1>12, <1>13, <1>14, <1>16, <1>20, <1>21, <2>1, <2>2, <2>3, RewrittenFit
<1>23. Going(z, w, expected, D)
  BY <1>16, <1>19, <1>20, <1>22, GoOn
<1>24. Going(y, w, expected, D)
  <2>1. CASE s.inode[i].run = 0
    <3>1. y = z
      BY <1>14, <2>1 DEF FreeStorage
    <3>2. QED BY <1>23, <3>1
  <2>2. CASE s.inode[i].run # 0
    <3>1. y = FreeRun(z, s.inode[i].run)
      BY <1>14, <2>2 DEF FreeStorage
    <3>2. OneWrite(z, y)
      BY <1>20, <3>1, PrimitiveWrites
    <3>3. /\ y \in Opened /\ Base(y, expected, U) /\ y.inode = [s.inode EXCEPT ![i] = new.ino]
          /\ y.iused = s.iused
      <4>1. y = FreeStorage(WriteInode(s1, new), s.inode[i])
        BY <1>6, <1>14
      <4>2. QED BY <1>5, <1>9, <1>10, <1>11, <1>13, <1>14, <4>1, RewriteBase
    <3>4. y.inode[i] = new.ino /\ \A j \in Inodes : j # i => y.inode[j] = s.inode[j]
      BY <1>9, <1>10, <3>3 DEF Typed
    <3>5. Kind(y) = Kind(s)
      BY <1>13, <1>14, <3>4 DEF Kind
    <3>6. Counted(y, w, expected, D)
      <4>1. \A j \in Inodes : y.inode[j].nlink = s.inode[j].nlink
        BY <1>13, <3>4
      <4>2. QED BY <1>10, <1>17, <3>3, <3>5, <4>1, CountedSame
    <3>7. QED BY <1>16, <1>17, <1>23, <3>2, <3>3, <3>6, BaseGoing
  <2>3. QED BY <2>1, <2>2
<1>25. Suits(expected, D, Pledge({}, {}))
  BY <1>2, <1>15, AddingSuits
<1>26. \A u \in w.trees : Suits(u[1], u[2], Pledge({}, {}))
  BY <1>16, <1>25
<1>27. w.late = Leads({})
  BY <1>16, NoLeads
<1>28. QED BY <1>8, <1>16, <1>24, <1>26, <1>27, EndsCut

-----------------------------------------------------------------------------
(* nextufs_path_rename.                                                    *)

\* What is watched for in a rename: the tree as it was, without the entry in
\* the way, with both names, and with the new one alone.
Moving(w, D, E, X, V1, V, i) ==
    /\ w.from = 0 /\ w.late = {i} /\ w.new = NoNode
    /\ <<expected, D>> \in w.trees /\ <<X, E>> \in w.trees
    /\ <<V1, E>> \in w.trees /\ <<V, E>> \in w.trees
    /\ \A t \in w.trees : \/ t[1] = expected /\ t[2] = D
                          \/ (t[1] = X \/ t[1] = V1 \/ t[1] = V) /\ t[2] = E

LEMMA MovingExists ==
    ASSUME NEW D, NEW E, NEW X, NEW V1, NEW V, NEW i
    PROVE  \E w : Moving(w, D, E, X, V1, V, i)
<1>1. PICK a, b, c, d : a = <<expected, D>> /\ b = <<X, E>> /\ c = <<V1, E>> /\ d = <<V, E>>
  OBVIOUS
<1>2. /\ a[1] = expected /\ a[2] = D /\ b[1] = X /\ b[2] = E
      /\ c[1] = V1 /\ c[2] = E /\ d[1] = V /\ d[2] = E
  BY <1>1
<1>3. PICK w : w = [from |-> 0, trees |-> {a, b, c, d}, late |-> {i}, new |-> NoNode]
  OBVIOUS
<1>4. w.from = 0 /\ w.trees = {a, b, c, d} /\ w.late = {i} /\ w.new = NoNode
  BY <1>3
<1>5. /\ <<expected, D>> \in w.trees /\ <<X, E>> \in w.trees
      /\ <<V1, E>> \in w.trees /\ <<V, E>> \in w.trees
  BY ONLY <1>1, <1>4
<1>6. ASSUME NEW t \in w.trees
      PROVE  \/ t[1] = expected /\ t[2] = D
             \/ (t[1] = X \/ t[1] = V1 \/ t[1] = V) /\ t[2] = E
  <2>1. t = a \/ t = b \/ t = c \/ t = d
    BY ONLY <1>4, t \in w.trees
  <2>2. QED BY ONLY <1>2, <2>1
<1>7. Moving(w, D, E, X, V1, V, i)
  BY <1>4, <1>5, <1>6 DEF Moving
<1>8. QED BY <1>7

\* The entry in the way and its inode go first.
LEMMA GoneGoing ==
    ASSUME NEW s, NEW U, NEW X, NEW p, NEW n, NEW q \in Dirs(disk), NEW m \in Names, NEW i,
           NEW T, NEW gone, RenameFrom(s, U, X, p, n, q, m, i, T, gone),
           T = Lookup(disk, q, m), \A t \in T : Replaceable(i, t, q),
           gone = TargetRemoved(s, Node(disk, q), m, T),
           NEW D, D = DirSet(disk), NEW E, E = D \ T, NEW V1, NEW V,
           NEW w, Moving(w, D, E, X, V1, V, i)
    PROVE  Going(gone.s, w, X, E) /\ Plan(X, E) /\ Counted(gone.s, w, X, E) /\ E = DirSet(gone.s)
<1>1. Begun(s, U) /\ TargetGone(s, U, X, p, q, m, i, T, gone) /\ q \in Inodes
  BY DEF RenameFrom
<1>2. /\ gone.s \in Opened /\ Sound(gone.s, X, U) /\ Typed(gone.s) /\ DirSet(gone.s) = E
      /\ X \subseteq Edge /\ (T = {} => X = expected)
      /\ \A d \in Inodes, x \in Names, j \in Inodes :
            <<d, x, j>> \in X <=> <<d, x, j>> \in expected /\ ~(d = q /\ x = m)
  BY <1>1, OpenedTyped DEF TargetGone
<1>3. Plan(X, E) /\ Counted(gone.s, w, X, E)
  BY <1>2, SoundPlan
<1>4. /\ w.from = 0 /\ w.new = NoNode
      /\ <<expected, D>> \in w.trees /\ <<X, E>> \in w.trees
  BY DEF Moving
<1>5. CASE T = {}
  <2>1. gone.s = s /\ E = D /\ X = expected
    BY <1>2, <1>5 DEF TargetRemoved
  <2>2. Going(s, w, expected, D)
    BY <1>1, <1>4, OpenGoing
  <2>3. QED BY <1>2, <1>3, <2>1, <2>2
<1>6. CASE T # {}
  <2>1. PICK t : t = CHOOSE x \in T : TRUE
    OBVIOUS
  <2>2. t \in T /\ t \in Lookup(disk, q, m) /\ t \in Inodes
    BY <1>1, <1>6, <2>1, BegunDir
  <2>3. PICK rem : rem = Remove(s, Node(disk, q), m)
    OBVIOUS
  <2>4. PICK Y : Y = expected \ {<<q, m, t>>}
    OBVIOUS
  <2>5. /\ \A j \in Inodes : <<q, m, j>> \in expected => j = t
        /\ expected \subseteq Edge /\ <<q, m, t>> \in expected
    <3>1. Leaving(s, U, q, m, t, Y) /\ \A j \in Inodes : <<q, m, j>> \in expected => j = t
      BY <1>1, <2>2, <2>4, LeavingFacts
    <3>2. expected \subseteq Edge /\ <<q, m, t>> \in expected
      BY <1>1, <2>2, BegunDir DEF Begun
    <3>3. QED BY <3>1, <3>2
  <2>6. T = {t}
    BY <1>1, <2>2, <2>5, BegunDir
  <2>7. X = Y
    <3>1. ASSUME NEW e \in Edge PROVE e \in X <=> e \in Y
      <4>1. PICK d \in Inodes, x \in Names, j \in Inodes : e = <<d, x, j>>
        BY DEF Edge
      <4>2. e \in Y <=> e \in expected /\ e # <<q, m, t>>
        BY <2>4
      <4>3. e # <<q, m, t>> <=> ~(d = q /\ x = m /\ j = t)
        BY <4>1
      <4>4. QED BY <1>2, <2>5, <4>1, <4>2, <4>3
    <3>2. Y \subseteq Edge
      BY <2>4, <2>5
    <3>3. QED BY <1>2, <3>1, <3>2
  <2>8. Taking(s, U, q, m, t, w, D, X, E)
    BY <1>1, <1>4, <2>2, <2>4, <2>6, <2>7 DEF Taking
  <2>9. Going(gone.s, w, X, E)
    <3>1. CASE IsDir(disk, t)
      <4>1. EmptyDir(disk, t, q)
        BY <2>2, <3>1 DEF Replaceable
      <4>2. gone = RemoveDir(rem.s, rem.node, Node(disk, t))
        BY <1>6, <2>1, <2>3, <3>1 DEF TargetRemoved
      <4>3. QED BY <2>3, <2>8, <3>1, <4>1, <4>2, RmdirGoing
    <3>2. CASE ~IsDir(disk, t)
      <4>1. PICK y : y = RemoveLinked(rem.s, Node(disk, t))
        OBVIOUS
      <4>2. gone = [node |-> rem.node, s |-> y]
        BY <1>6, <2>1, <2>3, <3>2, <4>1 DEF TargetRemoved
      <4>3. Going(y, w, X, E) /\ Plan(X, E) /\ Counted(y, w, X, E)
        BY <2>3, <2>8, <3>2, <4>1, UnlinkGoing
      <4>4. gone.s = y
        BY <4>2
      <4>5. QED BY <4>3, <4>4
    <3>3. QED BY <3>1, <3>2
  <2>10. QED BY <1>2, <1>3, <2>9
<1>7. QED BY <1>5, <1>6

\* The new name is entered, over the old one.
LEMMA RenameInserting ==
    ASSUME NEW s, NEW U, NEW X, NEW p, NEW n, NEW q, NEW m, NEW i, NEW T, NEW gone,
           RenameFrom(s, U, X, p, n, q, m, i, T, gone),
           NEW D, NEW E, E = DirSet(gone.s), NEW V1, V1 = X \cup {<<q, m, i>>}, NEW V,
           NEW w, Moving(w, D, E, X, V1, V, i),
           Going(gone.s, w, X, E), Plan(X, E), Counted(gone.s, w, X, E)
    PROVE  /\ Inserting(gone.s, w, X, U, E, q, gone.node, m, i, V1, E)
           /\ w.new.no \notin Inodes /\ V1 \subseteq Edge
<1>1. /\ p \in Inodes /\ q \in Inodes /\ i \in Inodes /\ n \in Names /\ m \in Names
      /\ (p # q \/ n # m) /\ <<p, n, i>> \in expected
      /\ Base(gone.s, X, U) /\ At(gone.s, gone.node, q) /\ IsDir(gone.s, q) /\ X \subseteq Edge
      /\ \A d \in Inodes, x \in Names, j \in Inodes :
            <<d, x, j>> \in X <=> <<d, x, j>> \in expected /\ ~(d = q /\ x = m)
  BY DEF RenameFrom, TargetGone
<1>2. w.late = {i} /\ w.new = NoNode /\ <<V1, E>> \in w.trees
  BY DEF Moving
<1>3. w.new.no \notin Inodes
  BY <1>2, RootInode DEF NoNode
<1>4. q \in E
  BY <1>1 DEF DirSet
<1>5. Plan(V1, E) /\ Met(V1) = Met(X) \cup {i}
  <2>1. NewName(V1, X, q, m, i)
    BY DEF NewName
  <2>2. i \in Inodes /\ m \in Names /\ Plan(X, E)
    BY <1>1
  <2>3. Plan(V1, E) /\ Met(V1) = Met(X) \cup {i}
    BY ONLY <1>4, <2>1, <2>2, PlanName
  <2>4. QED BY <2>3
<1>6. i \in Met(X)
  <2>1. <<p, n, i>> \in X
    BY <1>1
  <2>2. QED BY <1>1, <2>1, MetIn
<1>7. \A j \in Inodes : j # i => NamesOf(V1, j) = NamesOf(X, j)
  <2>1. PICK e : e = <<q, m, i>>
    OBVIOUS
  <2>2. e[3] = i /\ V1 = X \cup {e}
    BY <2>1
  <2>3. QED BY <2>2 DEF NamesOf
<1>8. Counted(gone.s, w, V1, E)
  <2>1. Met(X) \subseteq Inodes
    BY <1>1, MetIn
  <2>2. QED BY <1>2, <1>5, <1>6, <1>7, <2>1 DEF Counted
<1>9. NoEntry(X, q, m) /\ w.new.no # q
  BY <1>1, <1>3 DEF NoEntry
<1>10. Inserting(gone.s, w, X, U, E, q, gone.node, m, i, V1, E)
  BY <1>1, <1>2, <1>4, <1>5, <1>8, <1>9 DEF Inserting
<1>11. V1 \subseteq Edge
  BY <1>5 DEF Plan
<1>12. QED BY <1>3, <1>10, <1>11

\* The directory i has the parent q, and the others those they had.
Turned(W, U, i, q) ==
    W \in [Inodes -> Inodes] /\ W[i] = q /\ \A j \in Inodes : j # i => W[j] = U[j]

\* A directory's '..' is written, then its inode.
LEMMA DotDotGoing ==
    ASSUME NEW x, NEW w, NEW V, NEW E, Going(x, w, V, E), NEW U, Base(x, V, U),
           Counted(x, w, V, E), w.new = NoNode, NEW i \in x.iused, IsDir(x, i),
           NEW src, At(x, src, i), NEW q \in Inodes, NEW W, Turned(W, U, i, q),
           NEW y, y = SetDotDot(x, src, q)
    PROVE  /\ Going(y, w, V, E) /\ Base(y, V, W) /\ Counted(y, w, V, E) /\ y \in Opened
           /\ y.inode = x.inode /\ y.iused = x.iused
<1>1. x \in Opened /\ Typed(x) /\ i \in Inodes /\ <<V, E>> \in w.trees /\ Plan(V, E)
  BY OpenedTyped DEF Going, Fit, Typed
<1>2. W \in [Inodes -> Inodes] /\ W[i] = q /\ \A j \in Inodes : j # i => W[j] = U[j]
  BY DEF Turned
<1>3. y \in Opened /\ Base(y, V, W) /\ y.inode = x.inode /\ y.iused = x.iused
  <2>1. x \in Opened /\ Base(x, V, U) /\ i \in Inodes /\ IsDir(x, i) /\ At(x, src, i)
        /\ q \in Inodes
    BY <1>1
  <2>2. SetDotDot(x, src, q) \in Opened /\ Base(SetDotDot(x, src, q), V, W)
    BY ONLY <1>2, <2>1, DotDotBase
  <2>3. SetDotDot(x, src, q).inode = x.inode /\ SetDotDot(x, src, q).iused = x.iused
    BY ONLY <1>2, <2>1, DotDotBase
  <2>4. QED BY <2>2, <2>3
<1>4. PICK run, c : run = x.inode[i].run /\ c = Reparent(InDir(x, i), q)
  OBVIOUS
<1>5. PICK t : t = Put(x, [x EXCEPT !.content[src.ino.run].dotdot = q])
  OBVIOUS
<1>6. src \in NodeSet /\ src.no = i /\ src.ino = x.inode[i]
  BY DEF At
<1>7. run \in Runs /\ c \in Content
  <2>1. run \in Runs /\ InDir(x, i) \in Content
    BY <1>1, <1>4, DirFacts
  <2>2. QED BY <1>4, <2>1 DEF Content, Reparent
<1>8. t = Fill(x, run, c)
  <2>1. [x EXCEPT !.content[run].dotdot = q] = [x EXCEPT !.content[run] = c]
    BY <1>4 DEF InDir, Reparent
  <2>2. QED BY <1>4, <1>5, <1>6, <2>1 DEF Fill
<1>9. /\ t \in Opened /\ t.inode = x.inode /\ t.iused = x.iused /\ t.rused = x.rused
      /\ OneWrite(x, t)
  BY <1>1, <1>7, <1>8, FillEffect, PrimitiveWrites
<1>10. y = WriteInode(t, src)
  BY <1>5 DEF SetDotDot
<1>11. y.rused = t.rused /\ y.content = t.content /\ OneWrite(t, y)
  <2>1. t \in Opened /\ src \in NodeSet
    BY <1>6, <1>9
  <2>2. /\ WriteInode(t, src).content = t.content /\ WriteInode(t, src).rused = t.rused
    BY ONLY <2>1, WriteInodeEffect
  <2>3. OneWrite(t, WriteInode(t, src))
    BY ONLY <2>1, PrimitiveWrites
  <2>4. QED BY <1>10, <2>2, <2>3
<1>12. Counted(y, w, V, E)
  BY <1>3 DEF Counted, IsDir
<1>13. w.new.no \notin Inodes
  BY RootInode DEF NoNode
<1>14. t.inode = y.inode /\ t.iused = y.iused
  BY <1>3, <1>9
<1>15. Going(y, w, V, E)
  BY <1>1, <1>3, <1>9, <1>11, <1>12, <1>13, <1>14, BaseGoingTwice
<1>16. QED BY <1>3, <1>12, <1>15

\* The parents' counts follow.
LEMMA ReparentedGoing ==
    ASSUME NEW x, NEW w, NEW V, NEW E, Going(x, w, V, E), NEW U, Base(x, V, U),
           Counted(x, w, V, E), w.new = NoNode,
           NEW p \in x.iused, NEW q \in x.iused, NEW i \in x.iused,
           IsDir(x, p), IsDir(x, q), IsDir(x, i), p # q, i # p, i # q,
           NEW src, At(x, src, i), NEW old, At(x, old, p), NEW new, At(x, new, q),
           NEW W, Turned(W, U, i, q), NEW z, z = Reparented(x, src, old, new)
    PROVE  /\ Going(z, w, V, E) /\ Base(z, V, W) /\ Counted(z, w, V, E) /\ z \in Opened
           /\ At(z, src, i) /\ z.iused = x.iused
<1>1. p \in Inodes /\ q \in Inodes /\ i \in Inodes /\ new.no = q
  BY DEF Going, Opened, At
<1>2. PICK y : y = SetDotDot(x, src, q)
  OBVIOUS
<1>3. /\ Going(y, w, V, E) /\ Base(y, V, W) /\ Counted(y, w, V, E) /\ y \in Opened
      /\ y.inode = x.inode /\ y.iused = x.iused
  BY <1>1, <1>2, DotDotGoing
<1>4. At(y, src, i) /\ At(y, old, p) /\ At(y, new, q) /\ IsDir(y, p) /\ IsDir(y, q)
  BY <1>3 DEF At, IsDir
<1>5. PICK h \in Int, k \in Int : h = -1 /\ k = 1
  OBVIOUS
<1>6. PICK u : u = WriteInode(y, Linked(old, h))
  OBVIOUS
<1>7. /\ Going(u, w, V, E) /\ Base(u, V, W) /\ Counted(u, w, V, E)
      /\ \A j \in Inodes : j # p => u.inode[j] = y.inode[j]
      /\ u.iused = y.iused
  BY <1>3, <1>4, <1>6, CountWrittenFit
<1>8. At(u, src, i) /\ At(u, new, q) /\ IsDir(u, q) /\ q \in u.iused
  BY <1>1, <1>3, <1>4, <1>7 DEF At, IsDir
<1>9. z = WriteInode(u, Linked(new, k))
  BY <1>1, <1>2, <1>5, <1>6 DEF Reparented
<1>10. /\ Going(z, w, V, E) /\ Base(z, V, W) /\ Counted(z, w, V, E) /\ z \in Opened
       /\ \A j \in Inodes : j # q => z.inode[j] = u.inode[j]
       /\ z.iused = u.iused
  BY <1>7, <1>8, <1>9, CountWrittenFit
<1>11. At(z, src, i)
  BY <1>1, <1>8, <1>10 DEF At
<1>12. QED BY <1>3, <1>7, <1>10, <1>11

\* The old name goes, and what is left is written.
LEMMA RenamedGoing ==
    ASSUME NEW s, NEW U, NEW X, NEW p, NEW n, NEW q, NEW m, NEW i, NEW T, NEW gone,
           RenameFrom(s, U, X, p, n, q, m, i, T, gone),
           NEW V1, NEW ins, NEW old, NEW src, NEW rem, NEW mov, NEW end, NEW V,
           RenameWrites(p, n, q, m, i, X, U, gone, V1, ins, old, src, rem, mov, end, V),
           NEW way \in Ways, ins = Insert(gone.s, gone.node, m, i, way),
           NEW D, NEW E, E = DirSet(gone.s), NEW w, Moving(w, D, E, X, V1, V, i),
           Going(gone.s, w, X, E), Plan(X, E), Counted(gone.s, w, X, E)
    PROVE  Going(end, w, V, E)
<1>1. /\ p \in Inodes /\ q \in Inodes /\ i \in Inodes /\ n \in Names
      /\ i # p /\ i # q /\ IsDir(gone.s, q)
  BY DEF RenameFrom, TargetGone
<1>2. /\ V1 = X \cup {<<q, m, i>>} /\ ins.ok /\ At(ins.s, old, p) /\ rem = Remove(ins.s, old, n)
      /\ mov = (IF IsDir(disk, i) /\ p # q
                THEN Reparented(rem.s, src, rem.node, ins.node) ELSE rem.s)
      /\ end = WriteInode(mov, src)
  BY DEF RenameWrites
<1>3. w.new = NoNode /\ <<V, E>> \in w.trees
  BY DEF Moving
<1>4. /\ Inserting(gone.s, w, X, U, E, q, gone.node, m, i, V1, E)
      /\ w.new.no \notin Inodes /\ V1 \subseteq Edge
  <2>1. /\ RenameFrom(s, U, X, p, n, q, m, i, T, gone) /\ E = DirSet(gone.s)
        /\ V1 = X \cup {<<q, m, i>>} /\ Moving(w, D, E, X, V1, V, i)
        /\ Going(gone.s, w, X, E) /\ Plan(X, E) /\ Counted(gone.s, w, X, E)
    BY <1>2
  <2>2. /\ Inserting(gone.s, w, X, U, E, q, gone.node, m, i, V1, E)
        /\ w.new.no \notin Inodes /\ V1 \subseteq Edge
    BY ONLY <2>1, RenameInserting
  <2>3. QED BY <2>2
<1>5. Going(ins.s, w, V1, E) /\ Inserted(gone.s, V1, U, q, gone.node, ins)
  BY <1>2, <1>4, InsertGoing
<1>6. Counted(ins.s, w, V1, E)
  <2>1. Counted(gone.s, w, V1, E) /\ w.new.no # q
    BY <1>1, <1>4 DEF Inserting
  <2>2. QED BY <1>1, <1>2, <1>4, <1>5, <2>1, InsertedCounted
<1>7. RenameLeft(rem.s, s, p, n, q, i, U, gone, V1, ins, old, src, rem, V)
  BY RenameRemoved
<1>8. /\ Base(ins.s, V1, U) /\ IsDir(gone.s, p)
      /\ <<p, n, i>> \in V1 /\ V = V1 \ {<<p, n, i>>}
      /\ \A j \in Inodes : <<p, n, j>> \in V1 => j = i
  BY <1>7 DEF RenameLeft
<1>9. /\ rem.s \in Opened /\ Base(rem.s, V, U) /\ rem.node = old /\ Kind(rem.s) = Kind(gone.s)
      /\ At(rem.s, src, i) /\ At(rem.s, old, p) /\ At(rem.s, ins.node, q)
      /\ p \in rem.s.iused /\ q \in rem.s.iused /\ i \in rem.s.iused
      /\ (IsDir(rem.s, i) <=> IsDir(s, i)) /\ (IsDir(disk, i) <=> IsDir(s, i))
  BY <1>7 DEF RenameLeft
<1>10. Plan(V, E)
  <2>1. end \in Opened /\ Kind(end) = Kind(gone.s) /\ \E Z : Sound(end, V, Z)
    BY RenameMoved
  <2>2. PICK Z : Sound(end, V, Z)
    BY <2>1
  <2>3. DirSet(end) = E
    BY <2>1, KindDirs
  <2>4. QED BY <2>1, <2>2, <2>3, OpenedTyped, SoundPlan
<1>11. Counted(ins.s, w, V, E)
  <2>1. Typed(ins.s)
    BY <1>5, OpenedTyped DEF Inserted
  <2>2. V \subseteq V1
    BY <1>8
  <2>3. QED BY <1>4, <1>6, <2>1, <2>2, CountedLess
<1>12. Going(rem.s, w, V, E) /\ Removed(ins.s, V, U, p, old, rem)
  <2>1. p \in E
    BY <1>1, <1>8 DEF DirSet
  <2>2. Going(ins.s, w, V1, E) /\ Base(ins.s, V1, U)
    BY <1>5, <1>8
  <2>3. At(ins.s, old, p) /\ n \in Names /\ i \in Inodes /\ <<p, n, i>> \in V1
    BY <1>1, <1>2, <1>8
  <2>4. \A j \in Inodes : <<p, n, j>> \in V1 => j = i
    BY <1>8
  <2>5. V = V1 \ {<<p, n, i>>} /\ <<V, E>> \in w.trees /\ rem = Remove(ins.s, old, n)
    BY <1>2, <1>3, <1>8
  <2>6. QED BY ONLY <1>10, <1>11, <2>1, <2>2, <2>3, <2>4, <2>5, RemoveGoing
<1>13. Counted(rem.s, w, V, E)
  BY <1>11, <1>12 DEF Removed, Counted, IsDir
<1>14. /\ Going(mov, w, V, E) /\ Counted(mov, w, V, E) /\ mov \in Opened
       /\ At(mov, src, i) /\ i \in mov.iused /\ \E W : Base(mov, V, W)
  <2>1. CASE ~(IsDir(disk, i) /\ p # q)
    <3>1. mov = rem.s
      BY <1>2, <2>1
    <3>2. QED BY <1>9, <1>12, <1>13, <3>1
  <2>2. CASE IsDir(disk, i) /\ p # q
    <3>1. PICK W : W = [U EXCEPT ![i] = q]
      OBVIOUS
    <3>2. Turned(W, U, i, q)
      <4>1. U \in [Inodes -> Inodes]
        BY <1>9 DEF Base
      <4>2. QED BY <1>1, <3>1, <4>1 DEF Turned
    <3>3. IsDir(rem.s, p) /\ IsDir(rem.s, q) /\ IsDir(rem.s, i)
      BY <1>1, <1>8, <1>9, <2>2, KindFacts DEF IsDir
    <3>4. mov = Reparented(rem.s, src, old, ins.node)
      BY <1>2, <1>9, <2>2
    <3>5. Going(rem.s, w, V, E) /\ Base(rem.s, V, U) /\ Counted(rem.s, w, V, E) /\ w.new = NoNode
      BY <1>3, <1>9, <1>12, <1>13
    <3>6. /\ p \in rem.s.iused /\ q \in rem.s.iused /\ i \in rem.s.iused
          /\ p # q /\ i # p /\ i # q
          /\ At(rem.s, src, i) /\ At(rem.s, old, p) /\ At(rem.s, ins.node, q)
      BY <1>1, <1>9, <2>2
    <3>7. /\ Going(mov, w, V, E) /\ Base(mov, V, W) /\ Counted(mov, w, V, E) /\ mov \in Opened
          /\ At(mov, src, i) /\ mov.iused = rem.s.iused
      BY ONLY <3>2, <3>3, <3>4, <3>5, <3>6, ReparentedGoing
    <3>8. QED BY <3>6, <3>7
  <2>3. QED BY <2>1, <2>2
<1>15. PICK W : Base(mov, V, W)
  BY <1>14
<1>16. /\ end \in Opened /\ Base(end, V, W) /\ end.inode = mov.inode /\ end.iused = mov.iused
       /\ OneWrite(mov, end)
  <2>1. mov \in Opened /\ Base(mov, V, W) /\ i \in mov.iused /\ At(mov, src, i)
    BY <1>14, <1>15
  <2>2. end = WriteInode(mov, src)
    BY <1>2
  <2>3. /\ end \in Opened /\ Base(end, V, W) /\ end.inode = mov.inode
        /\ end.iused = mov.iused
    BY ONLY <2>1, <2>2, WrittenBack
  <2>4. OneWrite(mov, end)
    BY <2>1, <2>2, PrimitiveWrites DEF At
  <2>5. QED BY <2>3, <2>4
<1>17. Counted(end, w, V, E)
  BY <1>14, <1>16 DEF Counted, IsDir
<1>18. QED BY <1>3, <1>4, <1>10, <1>14, <1>16, <1>17, BaseGoing

\* The entries of the two names of a rename.
About(p, n, q, m) == {e \in expected : <<e[1], e[2]>> \in {<<p, n>>, <<q, m>>}}

\* What a rename keeps of the names and directories there were.
LEMMA RenameSpares ==
    ASSUME NEW s, NEW U, NEW X, NEW p, NEW n, NEW q \in Dirs(disk), NEW m, NEW i, NEW T, NEW gone,
           RenameFrom(s, U, X, p, n, q, m, i, T, gone), T = Lookup(disk, q, m), i \notin T,
           NEW D, D = DirSet(disk), NEW E, E = D \ T,
           NEW names, names = About(p, n, q, m)
    PROVE  /\ expected \ names \subseteq X /\ <<p, n, i>> \notin expected \ names
           /\ <<p, n, i>> \in X
           /\ \A d \in D : d \in E \/ (d \notin Leads(X) /\ d # i)
<1>1. /\ Begun(s, U) /\ p \in Inodes /\ q \in Inodes /\ i \in Inodes /\ n \in Names /\ m \in Names
      /\ <<p, n, i>> \in expected /\ (p # q \/ n # m) /\ X \subseteq Edge
      /\ \A d \in Inodes, x \in Names, j \in Inodes :
            <<d, x, j>> \in X <=> <<d, x, j>> \in expected /\ ~(d = q /\ x = m)
  BY DEF RenameFrom, TargetGone
<1>2. TreeOK(expected, Kind(s), U, LinkOf(s)) /\ expected \subseteq Edge /\ s.inode = disk.inode
  BY <1>1 DEF Begun
<1> USE DEF About
<1>3. ASSUME NEW e \in expected \ names PROVE e \in X
  <2>1. PICK d \in Inodes, x \in Names, j \in Inodes : e = <<d, x, j>>
    BY <1>2, <1>3 DEF Edge
  <2>2. e[1] = d /\ e[2] = x
    BY <2>1
  <2>3. <<d, x>> # <<q, m>>
    BY <1>3, <2>2
  <2>4. ~(d = q /\ x = m)
    BY <2>3
  <2>5. QED BY <1>1, <1>3, <2>1, <2>4
<1>4. <<p, n, i>> \in names /\ <<p, n, i>> \in X
  <2>1. PICK e : e = <<p, n, i>>
    OBVIOUS
  <2>2. e[1] = p /\ e[2] = n /\ e \in expected
    BY <1>1, <2>1
  <2>3. e \in names
    BY <2>2
  <2>4. QED BY <1>1, <2>1, <2>3
<1>5. ASSUME NEW d \in D, d \notin E PROVE d \notin Leads(X) /\ d # i
  <2>1. d \in T /\ d \in Inodes /\ IsDir(disk, d)
    BY <1>5 DEF DirSet
  <2>2. <<q, m, d>> \in expected
    BY <1>1, <2>1, BegunDir
  <2>3. Kind(s)[d] = "dir"
    BY <1>2, <2>1 DEF Kind, IsDir
  <2>4. PICK Y : Y = expected \ {<<q, m, d>>}
    OBVIOUS
  <2>5. d \notin Met(Y)
    BY <1>1, <1>2, <2>1, <2>2, <2>3, <2>4, DirMetOnce
  <2>6. ASSUME d \in Leads(X) PROVE FALSE
    <3>1. PICK e \in X : d = e[3]
      BY <2>6 DEF Leads
    <3>2. PICK a \in Inodes, x \in Names, j \in Inodes : e = <<a, x, j>>
      BY <1>1, <3>1 DEF Edge
    <3>3. e \in expected /\ ~(a = q /\ x = m)
      BY <1>1, <3>1, <3>2
    <3>4. e # <<q, m, d>>
      BY <3>2, <3>3
    <3>5. e \in Y
      BY <2>4, <3>3, <3>4
    <3>6. QED BY <2>5, <3>1, <3>5 DEF Met
  <2>7. QED BY <2>1, <2>6
<1>6. QED BY <1>3, <1>4, <1>5

\* What is watched for keeps the pledge.
Suited(w, c) == w.late = Leads(c.either) /\ \A t \in w.trees : Suits(t[1], t[2], c)

\* The trees with both names and with the new one, and the two names.
MovedOver(X, V1, V, either, p, n, q, m, i) ==
    /\ V1 = X \cup {<<q, m, i>>} /\ V = (X \ {<<p, n, i>>}) \cup {<<q, m, i>>}
    /\ either = {<<p, n, i>>, <<q, m, i>>}

LEMMA MovingSuits ==
    ASSUME NEW s, NEW U, NEW X, NEW p, NEW n, NEW q \in Dirs(disk), NEW m, NEW i, NEW T, NEW gone,
           RenameFrom(s, U, X, p, n, q, m, i, T, gone), T = Lookup(disk, q, m), i \notin T,
           NEW D, D = DirSet(disk), NEW E, E = D \ T,
           NEW names, names = About(p, n, q, m),
           NEW V1, NEW V, NEW either, MovedOver(X, V1, V, either, p, n, q, m, i),
           NEW w, Moving(w, D, E, X, V1, V, i)
    PROVE  Suited(w, Pledge(names, either))
<1>1. /\ expected \ names \subseteq X /\ <<p, n, i>> \notin expected \ names
      /\ <<p, n, i>> \in X
      /\ \A d \in D : d \in E \/ (d \notin Leads(X) /\ d # i)
  <2>1. RenameFrom(s, U, X, p, n, q, m, i, T, gone) /\ T = Lookup(disk, q, m) /\ i \notin T
    OBVIOUS
  <2>2. D = DirSet(disk) /\ E = D \ T
    OBVIOUS
  <2>3. names = About(p, n, q, m)
    OBVIOUS
  <2>4. q \in Dirs(disk)
    OBVIOUS
  <2>5. QED BY ONLY <2>1, <2>2, <2>3, <2>4, RenameSpares
<1>2. Begun(s, U) /\ <<p, n, i>> \in expected
  BY DEF RenameFrom
<1>3. Dirs(disk) = D
  BY <1>2, WalkFacts DEF Begun, DirSet
<1>4. PICK a, b : a = <<p, n, i>> /\ b = <<q, m, i>>
  OBVIOUS
<1>5. a[3] = i /\ b[3] = i
  BY <1>4
<1>6. either = {a, b} /\ V1 = X \cup {b} /\ V = (X \ {a}) \cup {b} /\ a \in X /\ a \in expected
      /\ a \notin expected \ names
  BY <1>1, <1>2, <1>4 DEF MovedOver
<1>7. Leads(either) = {i}
  BY <1>5, <1>6 DEF Leads
<1>8. \A d \in D : d \in E \/ (d \notin Leads(X) /\ d \notin Leads(V1) /\ d \notin Leads(V))
  BY <1>1, <1>5, <1>6 DEF Leads
<1>9. PICK c : c = Pledge(names, either)
  OBVIOUS
<1>10. c.dirs = D /\ c.spared = expected \ names /\ c.either = {a, b}
  BY <1>3, <1>6, <1>9 DEF Pledge
<1>11. Suits(expected, D, c) /\ Suits(X, E, c) /\ Suits(V1, E, c) /\ Suits(V, E, c)
  BY <1>1, <1>6, <1>8, <1>10 DEF Suits
<1>12. w.late = Leads(c.either)
  BY <1>6, <1>7, <1>10 DEF Moving
<1>13. \A t \in w.trees : Suits(t[1], t[2], c)
  BY <1>11 DEF Moving
<1>14. QED BY <1>9, <1>12, <1>13 DEF Suited

\* A rename whose new name finds no room changes nothing.
LEMMA RenameFullCut ==
    ASSUME NEW s, NEW U, NEW X, NEW p, NEW n, NEW q \in Dirs(disk), NEW m, NEW i, NEW T, NEW gone,
           RenameFrom(s, U, X, p, n, q, m, i, T, gone), T = {},
           gone = TargetRemoved(s, Node(disk, q), m, T),
           NEW names, Ends(gone.s, expected, names, {<<p, n, i>>})
    PROVE  CutLosesNoName'
<1>1. PICK D, w : D = DirSet(disk) /\ w = Watch(expected, D, expected, D, {i})
  OBVIOUS
<1>2. /\ w.from = 0 /\ w.late = {i} /\ w.new = NoNode /\ <<expected, D>> \in w.trees
      /\ \A u \in w.trees : u[1] = expected /\ u[2] = D
  BY <1>1, WatchFacts
<1>3. Begun(s, U) /\ <<p, n, i>> \in expected
  BY DEF RenameFrom
<1>4. Going(s, w, expected, D) /\ Dirs(disk) = D
  BY <1>1, <1>2, <1>3, OpenGoing
<1>5. gone.s = s
  BY DEF TargetRemoved
<1>6. PICK e, either : e = <<p, n, i>> /\ either = {e}
  OBVIOUS
<1>7. e[3] = i /\ e \in expected
  BY <1>3, <1>6
<1>8. w.late = Leads(either)
  BY <1>2, <1>6, <1>7 DEF Leads
<1>9. PICK c : c = Pledge(names, either)
  OBVIOUS
<1>10. c.dirs = D /\ c.spared = expected \ names /\ c.either = {e}
  BY <1>4, <1>6, <1>9 DEF Pledge
<1>11. Suits(expected, D, c)
  BY <1>7, <1>10 DEF Suits
<1>12. \A u \in w.trees : Suits(u[1], u[2], Pledge(names, either))
  BY <1>2, <1>9, <1>11
<1>13. Ends(s, expected, names, either)
  BY <1>5, <1>6
<1>14. QED BY <1>2, <1>4, <1>8, <1>12, <1>13, EndsCut

LEMMA RenameCut ==
    ASSUME IInv, NEW p \in Dirs(disk), NEW n \in Names, NEW q \in Dirs(disk), NEW m \in Names,
           NEW way \in Ways, Rename(p, n, q, m, way)
    PROVE  CutLosesNoName'
<1>1. Undamaged /\ (p # q \/ n # m)
  BY RenameIs
<1>2. PICK s, U : Begun(s, U)
  BY <1>1, Begin
<1>3. s = Open(disk)
  BY <1>2 DEF Begun
<1>4. PICK i : /\ i \in Lookup(disk, p, n)
               /\ \E T, old, gone, ins, end, names, told, stale :
                     RenameParts(s, p, n, q, m, i, way, T, old, gone, ins, end, names, told, stale)
  BY <1>3, RenameIs
<1>5. PICK T, old, gone, ins, end, names, told, stale :
         RenameParts(s, p, n, q, m, i, way, T, old, gone, ins, end, names, told, stale)
  BY <1>4
<1>6. /\ T = Lookup(disk, q, m) /\ i \notin T /\ \A t \in T : Replaceable(i, t, q)
      /\ IsDir(disk, i) => ~HasAncestor(disk, q, i)
      /\ old = Node(disk, p) /\ gone = TargetRemoved(s, Node(disk, q), m, T)
      /\ ins = Insert(gone.s, gone.node, m, i, way)
      /\ names = About(p, n, q, m) /\ told = (expected \ names) \cup {<<q, m, i>>}
  BY <1>5 DEF RenameParts, About
<1>7. (\E X : RenameFrom(s, U, X, p, n, q, m, i, T, gone)) /\ At(s, old, p)
      /\ \A j \in Inodes : <<p, n, j>> \in expected => j = i
  BY <1>1, <1>2, <1>4, <1>6, RenameBegun
<1>8. PICK X : RenameFrom(s, U, X, p, n, q, m, i, T, gone)
  BY <1>7
<1>9. /\ p \in Inodes /\ q \in Inodes /\ i \in Inodes
      /\ gone.s \in Opened /\ Base(gone.s, X, U)
      /\ At(gone.s, gone.node, q) /\ IsDir(gone.s, q) /\ X \in SUBSET Edge
      /\ \A d \in Inodes, x \in Names, j \in Inodes :
            <<d, x, j>> \in X <=> <<d, x, j>> \in expected /\ ~(d = q /\ x = m)
      /\ T # {} => Room(InDir(gone.s, q), gone.s.inode[q].size) # {}
      /\ T = {} => X = expected
      /\ p # q => gone.s.inode[p] = s.inode[p]
      /\ DirSet(gone.s) = DirSet(disk) \ T
  BY <1>8 DEF RenameFrom, TargetGone
<1>10. PICK V1 : V1 = X \cup {<<q, m, i>>}
  OBVIOUS
<1>11. Inserted(gone.s, V1, U, q, gone.node, ins)
  <2>1. \A j \in Inodes : <<q, m, j>> \notin X
    BY <1>9
  <2>2. QED BY <1>6, <1>9, <1>10, <2>1, InsertBase
<1>12. PICK V : V = (X \ {<<p, n, i>>}) \cup {<<q, m, i>>}
  OBVIOUS
<1>13. told = V
  <2>1. Moved(expected, X, p, n, q, m, i, told)
    <3>1. told = (expected \ {e \in expected : <<e[1], e[2]>> \in {<<p, n>>, <<q, m>>}})
                    \cup {<<q, m, i>>}
      BY <1>6 DEF About
    <3>2. \A j \in Inodes : <<p, n, j>> \in expected => j = i
      BY <1>7
    <3>3. QED BY <1>2, <1>9, <3>1, <3>2 DEF Begun, Moved
  <2>2. QED BY <1>12, <2>1, ToldMoved
<1>14. PICK rem, src : rem = Remove(ins.s, old, n) /\ src = Node(disk, i)
  OBVIOUS
<1>15. PICK mov : mov = IF IsDir(disk, i) /\ p # q
                        THEN Reparented(rem.s, src, rem.node, ins.node) ELSE rem.s
  OBVIOUS
<1>16. /\ stale = StaleParent(old, ins.node) /\ end = WriteInode(mov, src)
       /\ IF ~ins.ok THEN Ends(gone.s, expected, names, {<<p, n, i>>})
          ELSE IF stale = "none" THEN Ends(end, told, names, {<<p, n, i>>, <<q, m, i>>})
               ELSE Leaves(end, told, stale)
  BY <1>5, <1>14, <1>15 DEF RenameParts
<1>17. CASE ~ins.ok
  <2>1. T = {}
    BY <1>9, <1>11, <1>17 DEF Inserted
  <2>2. Ends(gone.s, expected, names, {<<p, n, i>>})
    BY <1>16, <1>17
  <2>3. QED BY <1>6, <1>8, <2>1, <2>2, RenameFullCut
<1>18. CASE ins.ok /\ stale = "none"
  <2>1. At(ins.s, old, p)
    <3>1. At(ins.s, ins.node, q) /\ (p # q => ins.s.inode[p] = s.inode[p])
      BY <1>9, <1>11, <1>18 DEF Inserted
    <3>2. QED BY <1>7, <1>9, <1>16, <1>18, <3>1, NotStale
  <2>2. RenameWrites(p, n, q, m, i, X, U, gone, V1, ins, old, src, rem, mov, end, V)
    BY <1>10, <1>11, <1>12, <1>14, <1>15, <1>16, <1>18, <2>1 DEF RenameWrites
  <2>3. PICK D, E : D = DirSet(disk) /\ E = D \ T
    OBVIOUS
  <2>4. PICK w : Moving(w, D, E, X, V1, V, i)
    BY MovingExists
  <2>5. Going(gone.s, w, X, E) /\ Plan(X, E) /\ Counted(gone.s, w, X, E) /\ E = DirSet(gone.s)
    BY <1>6, <1>8, <2>3, <2>4, GoneGoing
  <2>6. Going(end, w, V, E)
    BY <1>6, <1>8, <2>2, <2>4, <2>5, RenamedGoing
  <2>7. PICK either : either = {<<p, n, i>>, <<q, m, i>>}
    OBVIOUS
  <2>8. Suited(w, Pledge(names, either))
    <3>1. RenameFrom(s, U, X, p, n, q, m, i, T, gone) /\ T = Lookup(disk, q, m) /\ i \notin T
      BY <1>6, <1>8
    <3>2. names = About(p, n, q, m) /\ q \in Dirs(disk)
      BY <1>6
    <3>3. MovedOver(X, V1, V, either, p, n, q, m, i)
      BY <1>10, <1>12, <2>7 DEF MovedOver
    <3>4. QED BY ONLY <2>3, <2>4, <3>1, <3>2, <3>3, MovingSuits
  <2>9. Ends(end, told, names, either)
    BY <1>16, <1>18, <2>7
  <2>10. w.from = 0
    BY <2>4 DEF Moving
  <2>11. w.late = Leads(either) /\ \A t \in w.trees : Suits(t[1], t[2], Pledge(names, either))
    BY <2>8 DEF Suited, Pledge
  <2>12. QED BY <2>6, <2>9, <2>10, <2>11, EndsCut
<1>19. CASE ins.ok /\ stale # "none"
  <2>1. Leaves(end, told, stale) /\ stale \in {"stale storage", "stale count"}
    BY <1>16, <1>19, Overtaken
  <2>2. QED BY <2>1, CutIs DEF Harmless, Leaves
<1>20. QED BY <1>17, <1>18, <1>19

-----------------------------------------------------------------------------
(* The theorem.                                                            *)

LEMMA MkdirNoFragmentCut ==
    ASSUME NEW p, NEW n, MkdirNoFragment(p, n)
    PROVE  CutLosesNoName'
<1>1. damage' = "inode leaked"
  BY DEF MkdirNoFragment, Leaves
<1>2. QED BY <1>1, CutIs DEF Harmless

LEMMA NextCut == IInv /\ CutLosesNoName /\ [Next]_vars => CutLosesNoName'
<1>1. SUFFICES ASSUME IInv, CutLosesNoName, [Next]_vars PROVE CutLosesNoName'
  OBVIOUS
<1>2. ASSUME NEW p \in Dirs(disk), NEW n \in Names,
             NEW kind \in {"file", "special"}, NEW data \in BOOLEAN, NEW way \in Ways,
             Create(p, n, kind, data, way)
      PROVE  CutLosesNoName'
  BY <1>1, <1>2, CreateCut
<1>3. ASSUME NEW p \in Dirs(disk), NEW n \in Names, MkdirNoFragment(p, n)
      PROVE  CutLosesNoName'
  BY <1>3, MkdirNoFragmentCut
<1>4. ASSUME NEW p \in Dirs(disk), NEW n \in Names, NEW way \in Ways, Mkdir(p, n, way)
      PROVE  CutLosesNoName'
  BY <1>1, <1>4, MkdirCut
<1>5. ASSUME NEW p \in Dirs(disk), NEW n \in Names, NEW i \in Lookup(disk, p, n),
             Unlink(p, n, i)
      PROVE  CutLosesNoName'
  BY <1>1, <1>5, UnlinkCut
<1>6. ASSUME NEW p \in Dirs(disk), NEW n \in Names, NEW i \in Lookup(disk, p, n),
             Rmdir(p, n, i)
      PROVE  CutLosesNoName'
  BY <1>1, <1>6, RmdirCut
<1>7. ASSUME NEW p \in Dirs(disk), NEW n \in Names, NEW i \in Reachable(disk),
             NEW way \in Ways, Link(p, n, i, way)
      PROVE  CutLosesNoName'
  BY <1>1, <1>7, LinkCut
<1>8. ASSUME NEW p \in Dirs(disk), NEW n \in Names, NEW q \in Dirs(disk), NEW m \in Names,
             NEW way \in Ways, Rename(p, n, q, m, way)
      PROVE  CutLosesNoName'
  BY <1>1, <1>8, RenameCut
<1>9. ASSUME NEW i \in Reachable(disk), NEW data \in BOOLEAN, Rewrite(i, data)
      PROVE  CutLosesNoName'
  BY <1>1, <1>9, RewriteCut
<1>10. CASE UNCHANGED vars
  <2>1. disk' = disk /\ expected' = expected /\ damage' = damage /\ cut' = cut
    BY <1>10 DEF vars
  <2>2. Harmless(disk, cut, damage) <=> Harmless(disk', cut', damage')
    BY <2>1
  <2>3. QED BY <1>1, <2>2, CutIs
<1>11. QED
  BY <1>1, <1>2, <1>3, <1>4, <1>5, <1>6, <1>7, <1>8, <1>9, <1>10 DEF Next

\* A process that ends between two of the writes a call of mutate.c makes, and
\* a write that fails, cost no name the call was not about; a rename keeps the
\* old name or the new one.  A directory caught between its larger inode and
\* its new block lists whatever is there, which hides no other name; but for
\* that block no name leads to a free inode unless the call was undone, no two
\* to storage that is shared, and no file but the one renamed has fewer links
\* than names.
THEOREM NamespaceCutLosesNoName == Spec => []CutLosesNoName
<1>1. Init => CutLosesNoName
  BY DEF Init, CutLosesNoName
<1>2. QED BY <1>1, NextCut, NamespaceInvariant, PTL DEF Spec

=============================================================================
