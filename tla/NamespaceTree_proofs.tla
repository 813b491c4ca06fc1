------------------------ MODULE NamespaceTree_proofs ------------------------
(***************************************************************************)
(* Namespace implements DirTree: every call, of however many writes, is    *)
(* one step of the tree of names the callers are promised, or none.        *)
(***************************************************************************)
EXTENDS Namespace_proofs

\* The tree and its directories as the callers see them: what Namespace gives
\* DirTree for its variables.
Shown == IF damage = "none" THEN Tree(disk) ELSE expected
Folders == CASE damage = "none" -> Dirs(disk)
             [] damage \in {"cut", "undone"} -> cut.dirs
             [] OTHER -> {Root} \cup {i \in {e[3] : e \in expected} : IsDir(disk, i)}

-----------------------------------------------------------------------------
(* The steps of the tree, in these terms.                                  *)

Above(E, d) ==
    LET up[k \in 0..Cardinality(Inodes)] ==
            IF k = 0 THEN {d} ELSE up[k - 1] \cup {e[1] : e \in {x \in E : x[3] \in up[k - 1]}}
    IN  up[Cardinality(Inodes)]

LEMMA AddIs ==
    ASSUME NEW d, NEW n, NEW o, NEW isDir,
           d \in Folders, n \in Names, \A e \in Shown : ~(e[1] = d /\ e[2] = n),
           o \in Inodes, o # Root, \A e \in Shown : e[3] # o,
           Shown' = Shown \cup {<<d, n, o>>},
           Folders' = IF isDir THEN Folders \cup {o} ELSE Folders
    PROVE  Promise!Add(d, n, o, isDir)
<1>1. Promise!Named(d, n) = {}
  BY DEF Promise!Named, Shown
<1>2. o \notin Promise!Present
  BY DEF Promise!Present, Shown
<1>3. QED BY <1>1, <1>2 DEF Promise!Add, Shown, Folders

LEMMA NextAdd ==
    ASSUME NEW d, NEW n, NEW o, NEW isDir \in BOOLEAN, Promise!Add(d, n, o, isDir),
           <<d, n, o>> \in Shown' \ Shown
    PROVE  Promise!Next
  BY DEF Promise!Next, Shown

LEMMA SameCardinality == \A S : Promise!Cardinality(S) = Cardinality(S)
  BY DEF Promise!Cardinality, Cardinality

LEMMA AboveIs == \A d : Promise!Above(d) = Above(Shown, d)
  BY SameCardinality DEF Promise!Above, Above, Shown

LEMMA LinkIs ==
    ASSUME NEW d, NEW n, NEW o,
           d \in Folders, n \in Names, \A e \in Shown : ~(e[1] = d /\ e[2] = n),
           \E e \in Shown : e[3] = o, o \notin Folders,
           Shown' = Shown \cup {<<d, n, o>>}, Folders' = Folders
    PROVE  Promise!Link(d, n, o)
<1>1. Promise!Named(d, n) = {}
  BY DEF Promise!Named, Shown
<1>2. o \in Promise!Present
  BY DEF Promise!Present, Shown
<1>3. QED BY <1>1, <1>2 DEF Promise!Link, Shown, Folders

LEMMA TakeIs ==
    ASSUME NEW d, NEW n, NEW o, <<d, n, o>> \in Shown,
           o \in Folders => \A e \in Shown : e[1] # o,
           Shown' = Shown \ {<<d, n, o>>}, Folders' = Folders \ {o}
    PROVE  Promise!Remove(d, n, o)
<1>1. o \in Promise!Named(d, n)
  BY DEF Promise!Named, Shown
<1>2. o \in Folders => Promise!Empty(o)
  BY DEF Promise!Empty, Shown
<1>3. QED BY <1>1, <1>2 DEF Promise!Remove, Shown, Folders

LEMMA MoveIs ==
    ASSUME NEW d, NEW n, NEW e, NEW m, NEW o, NEW T,
           \A t : t \in T <=> \E x \in Shown : x[1] = e /\ x[2] = m /\ x[3] = t,
           <<d, n, o>> \in Shown, o \notin T, e \in Folders, m \in Names,
           o \in Folders => o \notin Above(Shown, e),
           \A t \in T : /\ t \in Folders <=> o \in Folders
                        /\ t \in Folders => \A x \in Shown : x[1] # t,
           Shown' = (Shown \ ({<<d, n, o>>} \cup {<<e, m, t>> : t \in T})) \cup {<<e, m, o>>},
           Folders' = Folders \ T
    PROVE  Promise!Rename(d, n, e, m, o)
<1>1. o \in Promise!Named(d, n)
  BY DEF Promise!Named, Shown
<1>2. T = Promise!Named(e, m)
  BY DEF Promise!Named, Shown
<1>3. o \in Folders => o \notin Promise!Above(e)
  BY AboveIs
<1>4. \A t \in T : (t \in Folders) = (o \in Folders) /\ (t \in Folders => Promise!Empty(t))
  BY DEF Promise!Empty, Shown
<1>5. QED BY <1>1, <1>2, <1>3, <1>4 DEF Promise!Rename, Shown, Folders

\* A step is one of the tree when it shows in the entries.
LEMMA NextLink ==
    ASSUME NEW d, NEW n, NEW o, Promise!Link(d, n, o), <<d, n, o>> \in Shown' \ Shown
    PROVE  Promise!Next
  BY DEF Promise!Next, Shown

LEMMA NextRemove ==
    ASSUME NEW d, NEW n, NEW o, Promise!Remove(d, n, o), <<d, n, o>> \in Shown \ Shown'
    PROVE  Promise!Next
  BY DEF Promise!Next, Shown

LEMMA NextMove ==
    ASSUME NEW d, NEW n, NEW e, NEW m, NEW o, Promise!Rename(d, n, e, m, o),
           <<d, n, o>> \in Shown \ Shown', <<e, m, o>> \in Shown' \ Shown
    PROVE  Promise!Next
  BY DEF Promise!Next, Shown

TreeStep == Promise!Next \/ UNCHANGED Promise!vars

LEMMA NoStep == Shown' = Shown /\ Folders' = Folders => TreeStep
  BY DEF TreeStep, Promise!vars, Shown, Folders

-----------------------------------------------------------------------------
(* What a call shows.                                                      *)

\* Entries whose directories are D, all of them named but the root.
Tidy(T, D) ==
    /\ T \subseteq Edge /\ D \subseteq Inodes /\ Root \in D
    /\ \A e \in T : e[1] \in D /\ e[3] # Root
    /\ \A d \in D : d = Root \/ \E e \in T : e[3] = d

LEMMA FoldersCases ==
    /\ damage = "none" => Folders = Dirs(disk)
    /\ damage \in {"cut", "undone"} => Folders = cut.dirs
    /\ damage \notin {"none", "cut", "undone"} =>
          Folders = {Root} \cup {i \in {e[3] : e \in expected} : IsDir(disk, i)}
<1>1. CASE damage = "none"
  BY <1>1 DEF Folders
<1>2. CASE damage \in {"cut", "undone"}
  BY <1>2 DEF Folders
<1>3. CASE damage \notin {"none", "cut", "undone"}
  BY <1>3 DEF Folders
<1>4. QED BY <1>1, <1>2, <1>3

LEMMA ShownNow ==
    ASSUME NEW s, NEW U, Begun(s, U), Undamaged
    PROVE  /\ Shown = expected /\ Folders = DirSet(disk) /\ Dirs(disk) = DirSet(disk)
           /\ Tidy(expected, DirSet(disk))
           /\ Reachable(disk) = disk.iused
           /\ \A i \in Inodes : i \notin disk.iused <=> disk.inode[i].kind = "free"
           /\ \A i \in disk.iused : i = Root \/ \E e \in expected : e[3] = i
           /\ \A d \in Inodes, n \in Names, i, j \in Inodes :
                 <<d, n, i>> \in expected /\ <<d, n, j>> \in expected => i = j
<1>1. Typed(disk) /\ Sound(disk, expected, U) /\ expected \subseteq Edge
  BY DEF Begun
<1>2. Reachable(disk) = disk.iused /\ Dirs(disk) = DirSet(disk) /\ Tree(disk) = expected
  BY <1>1, WalkFacts DEF DirSet
<1>3. Shown = expected
  BY <1>2 DEF Shown, Undamaged
<1>4. Folders = DirSet(disk)
  BY <1>2, FoldersCases DEF Undamaged
<1>5. Shape(expected, Kind(disk), U) /\ Owned(disk)
  BY <1>1 DEF Sound
<1>6. \A i \in Inodes : i \notin disk.iused <=> disk.inode[i].kind = "free"
  BY <1>5 DEF Owned, Cleared
<1>7. \A i \in Inodes : disk.inode[i].kind # "free" /\ i # Root =>
         \E d \in Inodes, n \in Names : <<d, n, i>> \in expected
  BY <1>5, KindFacts DEF Shape
<1>8. \A i \in Inodes : i = Root \/ disk.inode[i].kind = "free" \/ \E e \in expected : e[3] = i
  <2>1. SUFFICES ASSUME NEW i \in Inodes, i # Root, disk.inode[i].kind # "free"
                 PROVE  \E e \in expected : e[3] = i
    OBVIOUS
  <2>2. PICK d \in Inodes, n \in Names : <<d, n, i>> \in expected
    BY <1>7, <2>1
  <2>3. <<d, n, i>>[3] = i
    OBVIOUS
  <2>4. QED BY <2>2, <2>3
<1>9. disk.iused \subseteq Inodes
  BY <1>1 DEF Typed
<1>10. \A i \in disk.iused : i = Root \/ \E e \in expected : e[3] = i
  BY <1>6, <1>8, <1>9
<1>11. Root \in Inodes /\ IsDir(disk, Root)
  BY <1>5, RootInode, KindFacts DEF Shape, IsDir
<1>12. ASSUME NEW e \in expected PROVE e[1] \in DirSet(disk) /\ e[3] # Root
  <2>1. e = <<e[1], e[2], e[3]>> /\ e[1] \in Inodes /\ e[2] \in Names /\ e[3] \in Inodes
    BY <1>1, Triple
  <2>2. Kind(disk)[e[1]] = "dir" /\ e[3] # Root
    BY <1>5, <2>1 DEF Shape
  <2>3. QED BY <2>1, <2>2, KindFacts DEF DirSet, IsDir
<1>13. \A d \in DirSet(disk) : d = Root \/ \E e \in expected : e[3] = d
  BY <1>8 DEF DirSet, IsDir
<1>14. Tidy(expected, DirSet(disk))
  BY <1>1, <1>11, <1>12, <1>13 DEF Tidy, DirSet
<1>15. \A d \in Inodes, n \in Names, i, j \in Inodes :
          <<d, n, i>> \in expected /\ <<d, n, j>> \in expected => i = j
  BY <1>5 DEF Shape
<1>16. QED BY <1>2, <1>3, <1>4, <1>6, <1>10, <1>14, <1>15

\* The callers are shown what they were told, or what was there before.
LEMMA ToldShown ==
    ASSUME IInv', Undamaged, NEW s, NEW U, Begun(s, U),
           NEW T, NEW D, Told(T, D), Tidy(T, D)
    PROVE  \/ Shown' = T /\ Folders' = D
           \/ Shown' = Shown /\ Folders' = Folders
<1>1. Shown = expected /\ Folders = Dirs(disk)
  BY ShownNow
<1>2. CASE damage' = "none"
  <2>1. expected' = T /\ DirSet(disk') = D
    BY <1>2 DEF Told
  <2>2. PICK W : Sound(disk', expected', W)
    BY <1>2 DEF IInv
  <2>3. Typed(disk')
    BY DiskTyped DEF IInv, TypeOK
  <2>4. Dirs(disk') = DirSet(disk') /\ Tree(disk') = expected'
    BY <2>2, <2>3, WalkFacts DEF DirSet
  <2>5. Shown' = expected'
    BY <1>2, <2>4 DEF Shown
  <2>6. Folders' = Dirs(disk')
    BY <1>2 DEF Folders
  <2>7. QED BY <2>1, <2>4, <2>5, <2>6
<1>3. CASE damage' \in {"cut", "undone"}
  <2>1. expected' = expected /\ cut'.dirs = Dirs(disk)
    BY <1>3 DEF Told
  <2>2. Shown' = expected'
    BY <1>3 DEF Shown
  <2>3. Folders' = cut'.dirs
    BY <1>3 DEF Folders
  <2>4. QED BY <1>1, <2>1, <2>2, <2>3
<1>4. CASE damage' \notin {"none", "cut", "undone"}
  <2>1. expected' = T /\ DirSet(disk') = D
    BY <1>4 DEF Told
  <2>2. Shown' = expected'
    BY <1>4 DEF Shown
  <2>3. Folders' = {Root} \cup {i \in {e[3] : e \in expected'} : IsDir(disk', i)}
    BY <1>4 DEF Folders
  <2>4. \A i : i \in D <=> i \in Inodes /\ IsDir(disk', i)
    BY <2>1 DEF DirSet
  <2>5. \A e \in T : e[3] \in Inodes
    BY Triple DEF Tidy
  <2>6. \A i : i \in Folders' <=> i \in D
    BY <2>1, <2>3, <2>4, <2>5 DEF Tidy
  <2>7. QED BY <2>1, <2>2, <2>6
<1>5. QED BY <1>2, <1>3, <1>4

LEMMA SameShown ==
    ASSUME IInv', Undamaged, NEW s, NEW U, Begun(s, U), Told(expected, DirSet(disk))
    PROVE  TreeStep
<1>1. Shown = expected /\ Folders = DirSet(disk) /\ Tidy(expected, DirSet(disk))
  BY ShownNow
<1>2. Shown' = Shown /\ Folders' = Folders
  BY <1>1, ToldShown
<1>3. QED BY <1>2, NoStep

LEMMA TidyMore ==
    ASSUME NEW T, NEW D, Tidy(T, D), NEW p \in D, NEW n \in Names, NEW i \in Inodes, i # Root
    PROVE  Tidy(T \cup {<<p, n, i>>}, D) /\ Tidy(T \cup {<<p, n, i>>}, D \cup {i})
<1>1. <<p, n, i>> \in Edge /\ <<p, n, i>>[1] = p /\ <<p, n, i>>[3] = i
  BY DEF Edge, Tidy
<1>2. QED BY <1>1 DEF Tidy

\* What no entry is of.
LEMMA FreeName ==
    ASSUME NEW s, NEW U, Begun(s, U), NEW p \in Dirs(disk), NEW n \in Names, Absent(p, n)
    PROVE  \A e \in expected : ~(e[1] = p /\ e[2] = n)
<1>1. \A i \in Inodes : <<p, n, i>> \notin expected
  BY BegunDir DEF Absent
<1>2. \A e \in expected : e = <<e[1], e[2], e[3]>> /\ e[3] \in Inodes
  BY Triple DEF Begun
<1>3. QED BY <1>1, <1>2

\* A name is new, for an inode nothing named.
LEMMA NewStep ==
    ASSUME IInv', Undamaged, NEW s, NEW U, Begun(s, U), NEW p \in Dirs(disk),
           NEW n \in Names, Absent(p, n), NEW i \in Inodes, i \notin disk.iused,
           NEW isDir \in BOOLEAN,
           Told(expected \cup {<<p, n, i>>}, IF isDir THEN DirSet(disk) \cup {i} ELSE DirSet(disk))
    PROVE  TreeStep
<1>1. /\ Shown = expected /\ Folders = DirSet(disk) /\ Dirs(disk) = DirSet(disk)
      /\ Tidy(expected, DirSet(disk))
      /\ \A j \in Inodes : j \notin disk.iused <=> disk.inode[j].kind = "free"
  BY ShownNow
<1>2. PICK T : T = expected \cup {<<p, n, i>>}
  OBVIOUS
<1>3. PICK D : D = IF isDir THEN DirSet(disk) \cup {i} ELSE DirSet(disk)
  OBVIOUS
<1>4. i # Root /\ \A e \in expected : e[3] # i
  <2>1. disk.inode[i].kind = "free"
    BY <1>1
  <2>2. Shape(expected, Kind(disk), U) /\ expected \subseteq Edge
    BY DEF Begun, Sound
  <2>3. Kind(disk)[i] = "free"
    BY <2>1, KindFacts
  <2>4. i # Root
    BY <2>2, <2>3 DEF Shape
  <2>5. \A e \in expected : e = <<e[1], e[2], e[3]>> /\ e[1] \in Inodes /\ e[2] \in Names
    BY <2>2, Triple
  <2>6. QED BY <2>2, <2>3, <2>4, <2>5 DEF Shape
<1>5. Tidy(T, D)
  BY <1>1, <1>2, <1>3, <1>4, TidyMore
<1>6. CASE Shown' = T /\ Folders' = D
  <2>1. \A e \in expected : ~(e[1] = p /\ e[2] = n)
    BY FreeName
  <2>2. Folders' = IF isDir THEN Folders \cup {i} ELSE Folders
    BY <1>1, <1>3, <1>6
  <2>3. Promise!Add(p, n, i, isDir)
    BY <1>1, <1>2, <1>4, <1>6, <2>1, <2>2, AddIs
  <2>4. <<p, n, i>> \in Shown' \ Shown
    BY <1>1, <1>2, <1>4, <1>6
  <2>5. QED BY <2>3, <2>4, NextAdd DEF TreeStep
<1>7. CASE Shown' = Shown /\ Folders' = Folders
  BY <1>7, NoStep
<1>8. Told(T, D)
  BY <1>2, <1>3
<1>9. QED BY <1>5, <1>6, <1>7, <1>8, ToldShown

LEMMA CreateStep ==
    ASSUME IInv, NEW p \in Dirs(disk), NEW n \in Names, NEW kind \in {"file", "special"},
           NEW data \in BOOLEAN, NEW way \in Ways, Create(p, n, kind, data, way)
    PROVE  TreeStep
<1>1. Undamaged /\ Absent(p, n)
  BY DEF Create
<1>2. PICK s, U : Begun(s, U)
  BY <1>1, Begin
<1>3. /\ IInv'
      /\ \/ Told(expected, DirSet(disk))
         \/ \E i \in Inodes :
               /\ i \notin disk.iused
               /\ Told(expected \cup {<<p, n, i>>}, DirSet(disk))
  BY CreateIn
<1>4. CASE Told(expected, DirSet(disk))
  BY <1>1, <1>2, <1>3, <1>4, SameShown
<1>5. ASSUME NEW i \in Inodes, i \notin disk.iused,
             Told(expected \cup {<<p, n, i>>}, DirSet(disk))
      PROVE  TreeStep
  <2>1. Told(expected \cup {<<p, n, i>>},
             IF FALSE THEN DirSet(disk) \cup {i} ELSE DirSet(disk))
    BY <1>5
  <2>2. QED BY <1>1, <1>2, <1>3, <1>5, <2>1, NewStep
<1>6. QED BY <1>3, <1>4, <1>5

LEMMA MkdirStep ==
    ASSUME IInv, NEW p \in Dirs(disk), NEW n \in Names, NEW way \in Ways, Mkdir(p, n, way)
    PROVE  TreeStep
<1>1. Undamaged /\ Absent(p, n)
  BY DEF Mkdir
<1>2. PICK s, U : Begun(s, U)
  BY <1>1, Begin
<1>3. /\ IInv'
      /\ \/ Told(expected, DirSet(disk))
         \/ \E i \in Inodes :
               /\ i \notin disk.iused
               /\ Told(expected \cup {<<p, n, i>>}, DirSet(disk) \cup {i})
  BY MkdirIn
<1>4. CASE Told(expected, DirSet(disk))
  BY <1>1, <1>2, <1>3, <1>4, SameShown
<1>5. ASSUME NEW i \in Inodes, i \notin disk.iused,
             Told(expected \cup {<<p, n, i>>}, DirSet(disk) \cup {i})
      PROVE  TreeStep
  <2>1. Told(expected \cup {<<p, n, i>>},
             IF TRUE THEN DirSet(disk) \cup {i} ELSE DirSet(disk))
    BY <1>5
  <2>2. QED BY <1>1, <1>2, <1>3, <1>5, <2>1, NewStep
<1>6. QED BY <1>3, <1>4, <1>5

LEMMA LinkStep ==
    ASSUME IInv, NEW p \in Dirs(disk), NEW n \in Names, NEW i \in Reachable(disk),
           NEW way \in Ways, Link(p, n, i, way)
    PROVE  TreeStep
<1>1. Undamaged /\ Absent(p, n) /\ ~IsDir(disk, i)
  BY DEF Link
<1>2. PICK s, U : Begun(s, U)
  BY <1>1, Begin
<1>3. /\ IInv'
      /\ \/ Told(expected, DirSet(disk))
         \/ Told(expected \cup {<<p, n, i>>}, DirSet(disk))
  BY LinkIn
<1>4. /\ Shown = expected /\ Folders = DirSet(disk) /\ Dirs(disk) = DirSet(disk)
      /\ Tidy(expected, DirSet(disk)) /\ Reachable(disk) = disk.iused
      /\ \A j \in disk.iused : j = Root \/ \E e \in expected : e[3] = j
  BY <1>1, <1>2, ShownNow
<1>5. CASE Told(expected, DirSet(disk))
  BY <1>1, <1>2, <1>3, <1>5, SameShown
<1>6. CASE Told(expected \cup {<<p, n, i>>}, DirSet(disk))
  <2>1. i \notin DirSet(disk) /\ i # Root /\ \E e \in expected : e[3] = i
    BY <1>1, <1>4 DEF DirSet, Tidy
  <2>2. i \in Inodes
    BY <2>1, <1>4, Triple DEF Tidy
  <2>3. PICK T : T = expected \cup {<<p, n, i>>}
    OBVIOUS
  <2>4. Tidy(T, DirSet(disk))
    BY <1>4, <2>1, <2>2, <2>3, TidyMore
  <2>5. CASE Shown' = T /\ Folders' = DirSet(disk)
    <3>1. \A e \in expected : ~(e[1] = p /\ e[2] = n)
      BY <1>1, <1>2, FreeName
    <3>2. Promise!Link(p, n, i)
      BY <1>4, <2>1, <2>3, <2>5, <3>1, LinkIs
    <3>3. <<p, n, i>> \in Shown' \ Shown
      BY <1>4, <2>3, <2>5, <3>1
    <3>4. QED BY <3>2, <3>3, NextLink DEF TreeStep
  <2>6. CASE Shown' = Shown /\ Folders' = Folders
    BY <2>6, NoStep
  <2>7. Told(T, DirSet(disk))
    BY <1>6, <2>3
  <2>8. QED BY <1>1, <1>2, <1>3, <2>4, <2>5, <2>6, <2>7, ToldShown
<1>7. QED BY <1>3, <1>5, <1>6

\* The entry n of p goes, with the directory it named.
LEMMA GoneStep ==
    ASSUME IInv', Undamaged, NEW s, NEW U, Begun(s, U), NEW p \in Dirs(disk),
           NEW n \in Names, NEW i \in Lookup(disk, p, n),
           i \in DirSet(disk) => \A e \in expected : e[1] # i,
           Told(expected \ {<<p, n, i>>}, DirSet(disk) \ {i})
    PROVE  TreeStep
<1>1. /\ Shown = expected /\ Folders = DirSet(disk) /\ Dirs(disk) = DirSet(disk)
      /\ Tidy(expected, DirSet(disk))
  BY ShownNow
<1>2. /\ <<p, n, i>> \in expected /\ <<p, n, i>>[3] = i
  BY BegunDir
<1>3. PICK T : T = expected \ {<<p, n, i>>}
  OBVIOUS
<1>4. PICK D : D = DirSet(disk) \ {i}
  OBVIOUS
<1>5. Tidy(T, D)
  <2>1. \A e \in T : e \in expected
    BY <1>3
  <2>2. \A e \in T : e[1] \in D /\ e[3] # Root
    BY <1>1, <1>4, <2>1 DEF Tidy
  <2>3. Root \in D
    BY <1>1, <1>2, <1>4 DEF Tidy
  <2>4. ASSUME NEW d \in D, d # Root PROVE \E e \in T : e[3] = d
    <3>1. PICK e \in expected : e[3] = d
      BY <1>1, <1>4, <2>4 DEF Tidy
    <3>2. e \in T
      BY <1>2, <1>3, <1>4, <2>4, <3>1
    <3>3. QED BY <3>1, <3>2
  <2>5. QED BY <1>1, <1>3, <1>4, <2>1, <2>2, <2>3, <2>4 DEF Tidy
<1>6. CASE Shown' = T /\ Folders' = D
  <2>1. Promise!Remove(p, n, i)
    BY <1>1, <1>2, <1>3, <1>4, <1>6, TakeIs
  <2>2. <<p, n, i>> \in Shown \ Shown'
    BY <1>1, <1>2, <1>3, <1>6
  <2>3. QED BY <2>1, <2>2, NextRemove DEF TreeStep
<1>7. CASE Shown' = Shown /\ Folders' = Folders
  BY <1>7, NoStep
<1>8. Told(T, D)
  BY <1>3, <1>4
<1>9. QED BY <1>5, <1>6, <1>7, <1>8, ToldShown

LEMMA UnlinkStep ==
    ASSUME IInv, NEW p \in Dirs(disk), NEW n \in Names, NEW i \in Lookup(disk, p, n),
           Unlink(p, n, i)
    PROVE  TreeStep
<1>1. Undamaged /\ ~IsDir(disk, i)
  BY DEF Unlink
<1>2. PICK s, U : Begun(s, U)
  BY <1>1, Begin
<1>3. IInv' /\ Told(expected \ {<<p, n, i>>}, DirSet(disk) \ {i})
  BY UnlinkIn
<1>4. i \notin DirSet(disk)
  BY <1>1 DEF DirSet
<1>5. QED BY <1>1, <1>2, <1>3, <1>4, GoneStep

LEMMA RmdirStep ==
    ASSUME IInv, NEW p \in Dirs(disk), NEW n \in Names, NEW i \in Lookup(disk, p, n),
           Rmdir(p, n, i)
    PROVE  TreeStep
<1>1. Undamaged
  BY DEF Rmdir
<1>2. PICK s, U : Begun(s, U)
  BY <1>1, Begin
<1>3. /\ IInv' /\ Told(expected \ {<<p, n, i>>}, DirSet(disk) \ {i})
      /\ \A m \in Names, j \in Inodes : <<i, m, j>> \notin expected
  BY RmdirIn
<1>4. \A e \in expected : e[1] # i
  <2>1. \A e \in expected : e = <<e[1], e[2], e[3]>> /\ e[2] \in Names /\ e[3] \in Inodes
    BY <1>2, Triple DEF Begun
  <2>2. QED BY <1>3, <2>1
<1>5. QED BY <1>1, <1>2, <1>3, <1>4, GoneStep

-----------------------------------------------------------------------------
(* nextufs_path_rename.                                                    *)

\* What is closed under going up holds all that is above.
LEMMA AboveIn ==
    ASSUME NEW E, E \subseteq Edge, NEW q \in Inodes, NEW A, q \in A,
           \A e \in E : e[3] \in A => e[1] \in A
    PROVE  Above(E, q) \subseteq A
<1> DEFINE n == Cardinality(Inodes)
           up(S) == {e[1] : e \in {x \in E : x[3] \in S}}
           step == [S \in SUBSET Inodes |-> S \cup up(S)]
           Is(f) == f = [k \in 0..n |-> IF k = 0 THEN {q} ELSE f[k - 1] \cup up(f[k - 1])]
<1>1. n \in Nat
  BY NamespaceAssumption, FS_CardinalityType
<1>2. \A S \in SUBSET Inodes : step[S] \in SUBSET Inodes
  <2>1. \A e \in E : e[1] \in Inodes
    BY Triple
  <2>2. QED BY <2>1
<1>3. \E f : Is(f)
  <2>1. PICK f : IsIteration(f, n, {q}, step)
    <3> HIDE DEF step, n
    <3>1. QED BY <1>1, IterationExists
  <2> DEFINE P == SUBSET Inodes
  <2>2. {q} \in P /\ \A S \in P : step[S] \in P
    BY <1>2
  <2>3. \A k \in 0..n : f[k] \in P
    <3> HIDE DEF P, step, n
    <3>1. QED BY <1>1, <2>1, <2>2, IterationIn
  <2>4. ASSUME NEW k \in 0..n
        PROVE  f[k] = IF k = 0 THEN {q} ELSE f[k - 1] \cup up(f[k - 1])
    <3>1. k # 0 => k - 1 \in 0..n
      BY <1>1
    <3>2. k # 0 => step[f[k - 1]] = f[k - 1] \cup up(f[k - 1])
      BY <2>3, <3>1
    <3>3. f[k] = IF k = 0 THEN {q} ELSE step[f[k - 1]]
      BY <2>1 DEF IsIteration
    <3>4. QED BY <3>2, <3>3
  <2>5. Is(f)
    <3>1. f = [k \in 0..n |-> IF k = 0 THEN {q} ELSE step[f[k - 1]]]
      BY <2>1 DEF IsIteration
    <3>2. f = [k \in 0..n |-> f[k]]
      BY <3>1
    <3>3. QED BY <2>4, <3>2
  <2>6. QED BY <2>5
<1>4. Above(E, q) = (CHOOSE f : Is(f))[n]
  BY DEF Above
<1>5. PICK f : Is(f) /\ Above(E, q) = f[n]
  <2> HIDE DEF Is
  <2>1. Is(CHOOSE f : Is(f))
    BY <1>3
  <2>2. QED BY <1>4, <2>1
<1>6. 0..n \subseteq {k \in 0..n : f[k] \subseteq A}
  <2> DEFINE G == {k \in 0..n : f[k] \subseteq A}
  <2>1. 0 \in G
    BY <1>1, <1>5
  <2>2. ASSUME NEW k \in 0..(n - 1), k \in G PROVE k + 1 \in G
    <3>1. k + 1 \in 0..n /\ k + 1 # 0 /\ (k + 1) - 1 = k
      BY <1>1
    <3>2. f[k + 1] = f[k] \cup up(f[k])
      <4>1. f[k + 1] = IF k + 1 = 0 THEN {q} ELSE f[(k + 1) - 1] \cup up(f[(k + 1) - 1])
        BY <1>5, <3>1
      <4>2. QED BY <3>1, <4>1
    <3>3. up(f[k]) \subseteq A
      BY <2>2
    <3>4. QED BY <2>2, <3>1, <3>2, <3>3
  <2> HIDE DEF G, n
  <2>3. 0..n \subseteq G
    BY <1>1, <2>1, <2>2, Upward
  <2>4. QED BY <2>3 DEF G
<1>7. QED BY <1>1, <1>5, <1>6

\* A directory does not move below itself.
LEMMA NotAbove ==
    ASSUME NEW s, NEW U, Begun(s, U), NEW q \in Inodes, IsDir(disk, q), NEW i,
           ~HasAncestor(disk, q, i)
    PROVE  i \notin Above(expected, q)
<1>1. /\ Base(disk, expected, U) /\ TreeOK(expected, Kind(disk), U, LinkOf(disk))
      /\ Shape(expected, Kind(disk), U) /\ expected \subseteq Edge
  BY SoundParts DEF Begun, Sound
<1>2. PICK A \in SUBSET Inodes :
         /\ q \in A /\ i \notin A
         /\ \A d \in A : IsDir(disk, d) /\ (d = Root \/ U[d] \in A)
  BY <1>1, AncestorFacts
<1>3. ASSUME NEW e \in expected, e[3] \in A PROVE e[1] \in A
  <2>1. e = <<e[1], e[2], e[3]>> /\ e[1] \in Inodes /\ e[2] \in Names /\ e[3] \in Inodes
    BY <1>1, Triple
  <2>2. Kind(disk)[e[3]] = "dir" /\ Root \in Inodes
    BY <1>2, <1>3, <2>1, KindFacts, RootInode DEF IsDir
  <2>3. e[3] # Root
    BY <1>1, <2>1 DEF Shape
  <2>4. e[1] = U[e[3]]
    BY <1>1, <2>1, <2>2 DEF Shape
  <2>5. QED BY <1>2, <1>3, <2>3, <2>4
<1>4. QED BY <1>1, <1>2, <1>3, AboveIn

LEMMA EmptyNames ==
    ASSUME NEW s, NEW U, Begun(s, U), NEW d \in Inodes, IsDir(disk, d), NEW up,
           EmptyDir(disk, d, up)
    PROVE  \A e \in expected : e[1] # d
<1>1. Typed(disk) /\ Lists(disk, expected) /\ Owned(disk) /\ expected \subseteq Edge
  BY DEF Begun, Sound
<1>2. ASSUME NEW n \in Names, NEW j \in Inodes PROVE <<d, n, j>> \notin expected
  <2>1. ListOf(disk, disk.inode[d]) = {}
    BY DEF EmptyDir
  <2>2. QED BY <1>1, <2>1, ListedFacts
<1>3. QED BY <1>1, <1>2, Triple

LEMMA RenameStep ==
    ASSUME IInv, NEW p \in Dirs(disk), NEW n \in Names, NEW q \in Dirs(disk), NEW m \in Names,
           NEW way \in Ways, Rename(p, n, q, m, way)
    PROVE  TreeStep
<1>1. Undamaged /\ (p # q \/ n # m)
  BY DEF Rename
<1>2. PICK s, U : Begun(s, U)
  BY <1>1, Begin
<1>3. IInv' /\ \E i, T : RenameTold(p, n, q, m, i, T)
  BY RenameIn
<1>4. PICK i, T : RenameTold(p, n, q, m, i, T)
  BY <1>3
<1>5. PICK names : names = {e \in expected : <<e[1], e[2]>> \in {<<p, n>>, <<q, m>>}}
  OBVIOUS
<1>6. PICK V : V = (expected \ names) \cup {<<q, m, i>>}
  OBVIOUS
<1>7. PICK D : D = DirSet(disk) \ T
  OBVIOUS
<1>8. /\ i \in Lookup(disk, p, n) /\ T = Lookup(disk, q, m) /\ i \notin T
      /\ \A t \in T : Replaceable(i, t, q)
      /\ IsDir(disk, i) => ~HasAncestor(disk, q, i)
      /\ Told(expected, DirSet(disk)) \/ Told(V, D)
  BY <1>4, <1>5, <1>6, <1>7 DEF RenameTold
<1>9. /\ Shown = expected /\ Folders = DirSet(disk) /\ Dirs(disk) = DirSet(disk)
      /\ Tidy(expected, DirSet(disk))
      /\ \A d \in Inodes, x \in Names, j, k \in Inodes :
            <<d, x, j>> \in expected /\ <<d, x, k>> \in expected => j = k
  BY <1>1, <1>2, ShownNow
<1>10. /\ p \in Inodes /\ q \in Inodes /\ IsDir(disk, q) /\ i \in Inodes
       /\ <<p, n, i>> \in expected
       /\ T \in SUBSET Inodes /\ \A j \in Inodes : j \in T <=> <<q, m, j>> \in expected
  BY <1>2, <1>8, BegunDir
<1>11. \A e \in expected : /\ e = <<e[1], e[2], e[3]>>
                           /\ e[1] \in Inodes /\ e[2] \in Names /\ e[3] \in Inodes
  BY <1>2, Triple DEF Begun
<1>12. \A e \in expected : e \in names <=> e = <<p, n, i>> \/ \E t \in T : e = <<q, m, t>>
  <2>1. SUFFICES ASSUME NEW e \in expected
                 PROVE  e \in names <=> e = <<p, n, i>> \/ \E t \in T : e = <<q, m, t>>
    OBVIOUS
  <2>2. e \in names <=> (e[1] = p /\ e[2] = n) \/ (e[1] = q /\ e[2] = m)
    BY <1>5
  <2>3. e[1] = p /\ e[2] = n <=> e = <<p, n, i>>
    BY <1>9, <1>10, <1>11
  <2>4. e[1] = q /\ e[2] = m <=> \E t \in T : e = <<q, m, t>>
    BY <1>10, <1>11
  <2>5. QED BY <2>2, <2>3, <2>4
<1>13. V = (expected \ ({<<p, n, i>>} \cup {<<q, m, t>> : t \in T})) \cup {<<q, m, i>>}
  BY <1>6, <1>12
<1>14. <<p, n, i>> # <<q, m, i>> /\ <<q, m, i>> \notin expected
  BY <1>1, <1>8, <1>10
<1>15. ASSUME NEW d \in DirSet(disk), NEW x \in expected, x[1] = d PROVE d \notin T
  <2>1. SUFFICES ASSUME d \in T PROVE FALSE
    OBVIOUS
  <2>2. EmptyDir(disk, d, q) /\ IsDir(disk, d) /\ d \in Inodes
    BY <1>8, <2>1 DEF Replaceable, DirSet
  <2>3. QED BY <1>2, <1>15, <2>2, EmptyNames
<1>16. Tidy(V, D)
  <2>1. V \subseteq Edge /\ D \subseteq Inodes
    BY <1>6, <1>7, <1>9, <1>10 DEF Tidy, Edge, DirSet
  <2>2. Root \in D
    <3>1. \A t \in T : <<q, m, t>> \in expected /\ <<q, m, t>>[3] = t
      BY <1>10
    <3>2. QED BY <1>7, <1>9, <3>1 DEF Tidy
  <2>3. ASSUME NEW e \in V PROVE e[1] \in D /\ e[3] # Root
    <3>2. CASE e \in expected
      <4>1. e[1] \in DirSet(disk) /\ e[3] # Root
        BY <1>9, <3>2 DEF Tidy
      <4>2. QED BY <1>7, <1>15, <3>2, <4>1
    <3>3. CASE e = <<q, m, i>>
      <4>1. i # Root
        BY <1>9, <1>10 DEF Tidy
      <4>2. q \notin T
        <5>1. <<q, m, q>> \in expected => q \notin T
          <6>1. <<q, m, q>>[1] = q /\ q \in DirSet(disk)
            BY <1>9
          <6>2. QED BY <1>15, <6>1
        <5>2. QED BY <1>10, <5>1
      <4>3. QED BY <1>7, <1>9, <3>3, <4>1, <4>2
    <3>4. QED BY <1>6, <3>2, <3>3
  <2>4. ASSUME NEW d \in D, d # Root PROVE \E e \in V : e[3] = d
    <3>1. PICK e \in expected : e[3] = d
      BY <1>7, <1>9, <2>4 DEF Tidy
    <3>2. CASE e \in names
      <4>1. ~\E t \in T : e = <<q, m, t>>
        BY <1>7, <2>4, <3>1
      <4>2. e = <<p, n, i>>
        BY <1>12, <3>2, <4>1
      <4>3. <<q, m, i>> \in V /\ <<q, m, i>>[3] = d
        BY <1>6, <3>1, <4>2
      <4>4. QED BY <4>3
    <3>3. CASE e \notin names
      BY <1>6, <3>1, <3>3
    <3>4. QED BY <3>2, <3>3
  <2>5. QED BY <2>1, <2>2, <2>3, <2>4 DEF Tidy
<1>17. Told(V, D) => (Shown' = V /\ Folders' = D) \/ (Shown' = Shown /\ Folders' = Folders)
  BY <1>1, <1>2, <1>3, <1>16, ToldShown
<1>18. CASE Shown' = V /\ Folders' = D
  <2>1. i \in Folders => i \notin Above(Shown, q)
    BY <1>2, <1>8, <1>9, <1>10, NotAbove DEF DirSet
  <2>2. \A t : t \in T <=> \E x \in Shown : x[1] = q /\ x[2] = m /\ x[3] = t
    <3>1. ASSUME NEW t \in T PROVE \E x \in expected : x[1] = q /\ x[2] = m /\ x[3] = t
      <4>1. <<q, m, t>> \in expected
        BY <1>10
      <4>2. <<q, m, t>>[1] = q /\ <<q, m, t>>[2] = m /\ <<q, m, t>>[3] = t
        OBVIOUS
      <4>3. QED BY <4>1, <4>2
    <3>2. ASSUME NEW x \in expected, x[1] = q, x[2] = m PROVE x[3] \in T
      BY <1>10, <1>11, <3>2
    <3>3. QED BY <1>9, <3>1, <3>2
  <2>3. \A t \in T : /\ t \in Folders <=> i \in Folders
                     /\ t \in Folders => \A x \in Shown : x[1] # t
    <3>1. \A t \in T : IsDir(disk, i) <=> IsDir(disk, t)
      BY <1>8 DEF Replaceable, IsDir
    <3>2. QED BY <1>9, <1>10, <1>15, <3>1 DEF DirSet
  <2>4. Shown' = (Shown \ ({<<p, n, i>>} \cup {<<q, m, t>> : t \in T})) \cup {<<q, m, i>>}
    BY <1>9, <1>13, <1>18
  <2>5. Folders' = Folders \ T /\ q \in Folders /\ <<p, n, i>> \in Shown
    BY <1>7, <1>9, <1>10, <1>18
  <2>6. Promise!Rename(p, n, q, m, i)
    BY <1>8, <2>1, <2>2, <2>3, <2>4, <2>5, MoveIs
  <2>7. <<p, n, i>> \in Shown \ Shown' /\ <<q, m, i>> \in Shown' \ Shown
    BY <1>9, <1>14, <2>4, <2>5
  <2>8. QED BY <2>6, <2>7, NextMove DEF TreeStep
<1>19. CASE Shown' = Shown /\ Folders' = Folders
  BY <1>19, NoStep
<1>20. CASE Told(expected, DirSet(disk))
  BY <1>1, <1>2, <1>3, <1>20, SameShown
<1>21. QED BY <1>8, <1>17, <1>18, <1>19, <1>20

-----------------------------------------------------------------------------
(* The theorem.                                                            *)

LEMMA InitShown == Init => Promise!Init
<1>1. SUFFICES ASSUME Init PROVE Promise!Init
  OBVIOUS
<1>2. IInv /\ Undamaged /\ expected = {}
  BY <1>1, InitInvariant DEF Init, Undamaged
<1>3. PICK s, U : Begun(s, U)
  BY <1>2, Begin
<1>4. Shown = {} /\ Folders = {Root}
  BY <1>2, <1>3, ShownNow DEF Tidy
<1>5. QED BY <1>4 DEF Promise!Init, Shown, Folders

LEMMA StepShown == IInv /\ [Next]_vars => [Promise!Next]_(Promise!vars)
<1>1. SUFFICES ASSUME IInv, [Next]_vars PROVE TreeStep
  BY DEF TreeStep
<1>2. ASSUME NEW p \in Dirs(disk), NEW n \in Names,
             NEW kind \in {"file", "special"}, NEW data \in BOOLEAN, NEW way \in Ways,
             Create(p, n, kind, data, way)
      PROVE  TreeStep
  BY <1>1, <1>2, CreateStep
<1>3. ASSUME NEW p \in Dirs(disk), NEW n \in Names, MkdirNoFragment(p, n)
      PROVE  TreeStep
  <2>1. Undamaged
    BY <1>3 DEF MkdirNoFragment
  <2>2. PICK s, U : Begun(s, U)
    BY <1>1, <2>1, Begin
  <2>3. QED BY <1>1, <1>3, <2>1, <2>2, MkdirNoFragmentIn, SameShown
<1>4. ASSUME NEW p \in Dirs(disk), NEW n \in Names, NEW way \in Ways, Mkdir(p, n, way)
      PROVE  TreeStep
  BY <1>1, <1>4, MkdirStep
<1>5. ASSUME NEW p \in Dirs(disk), NEW n \in Names, NEW i \in Lookup(disk, p, n),
             Unlink(p, n, i)
      PROVE  TreeStep
  BY <1>1, <1>5, UnlinkStep
<1>6. ASSUME NEW p \in Dirs(disk), NEW n \in Names, NEW i \in Lookup(disk, p, n),
             Rmdir(p, n, i)
      PROVE  TreeStep
  BY <1>1, <1>6, RmdirStep
<1>7. ASSUME NEW p \in Dirs(disk), NEW n \in Names, NEW i \in Reachable(disk),
             NEW way \in Ways, Link(p, n, i, way)
      PROVE  TreeStep
  BY <1>1, <1>7, LinkStep
<1>8. ASSUME NEW p \in Dirs(disk), NEW n \in Names, NEW q \in Dirs(disk), NEW m \in Names,
             NEW way \in Ways, Rename(p, n, q, m, way)
      PROVE  TreeStep
  BY <1>1, <1>8, RenameStep
<1>9. ASSUME NEW i \in Reachable(disk), NEW data \in BOOLEAN, Rewrite(i, data)
      PROVE  TreeStep
  <2>1. Undamaged
    BY <1>9 DEF Rewrite
  <2>2. PICK s, U : Begun(s, U)
    BY <1>1, <2>1, Begin
  <2>3. QED BY <1>1, <1>9, <2>1, <2>2, RewriteIn, SameShown
<1>10. CASE UNCHANGED vars
  <2>1. disk' = disk /\ expected' = expected /\ damage' = damage /\ cut' = cut
    BY <1>10 DEF vars
  <2>2. Shown' = Shown
    BY <2>1 DEF Shown
  <2>3. Folders' = Folders
    BY <2>1 DEF Folders
  <2>4. QED BY <2>2, <2>3, NoStep
<1>11. QED
  BY <1>1, <1>2, <1>3, <1>4, <1>5, <1>6, <1>7, <1>8, <1>9, <1>10 DEF Next

\* Every call of mutate.c on names is one step of the tree its callers are
\* promised, or none: the writes nextufs_path_rename makes to two parents, the
\* target and the inode show as one move, which never puts a directory below
\* itself nor replaces one that has entries, and a call that is refused, fails
\* or is cut short tells of no change.
THEOREM NamespaceImplementsTree == Spec => ImplementsTree
<1>1. QED
  BY InitShown, StepShown, NamespaceInvariant, PTL DEF Spec, ImplementsTree, Promise!Spec
=============================================================================
