----------------------------- MODULE Namespace -----------------------------
(***************************************************************************)
(* The operations of src/mutate/mutate.c on names, link counts and         *)
(* storage.  Each call opens the image, reads the inodes it works on into  *)
(* memory (a node), and writes them back whole, some of them several       *)
(* times: what a node no longer agrees with on disk is overwritten.        *)
(*                                                                         *)
(* An inode's storage is one run; a directory's run holds blocks of at     *)
(* most BlkNames entries (DirBlk models their bytes).  A call is one step: *)
(* one command runs at a time.  It writes the image in the order of the    *)
(* code, and its process may end, or a write fail, after any of the        *)
(* writes; the image is followed no further then.  The other errors are    *)
(* those of an image that is full, and the refusals, which change nothing  *)
(* and are no steps.  Permission checks and attributes are left out.       *)
(***************************************************************************)
EXTENDS Integers, Sequences, FiniteSets

CONSTANTS
    Inodes,    \* inode numbers, the root included
    Runs,      \* runs of fragments
    Images,    \* the sets of runs an image may consist of
    Names,
    Root,
    BlkNames,  \* names that fit one directory block
    MaxBlks,   \* blocks a directory can have (twelve file-system blocks)
    CutNames   \* bound: calls are cut short on trees of at most so many names

ASSUME NamespaceAssumption ==
    /\ Inodes \subseteq Nat \ {0} /\ Root \in Inodes
    /\ IsFiniteSet(Inodes) /\ IsFiniteSet(Names)
    /\ Runs \subseteq Nat \ {0} /\ Images \subseteq (SUBSET Runs) \ {{}}
    /\ BlkNames \in Nat \ {0} /\ MaxBlks \in Nat \ {0} /\ CutNames \in Nat

VARIABLES
    disk,      \* the image, see Disk below
    expected,  \* <<directory, name, inode>>: the tree the callers were told of
    damage,    \* how a call left the image unlike what it told, or "none"
    cut        \* what a call that was cut short may not have lost, see Cut

vars == <<disk, expected, damage, cut>>

Kinds   == {"free", "dir", "file", "special"}
Blocks  == UNION {[D -> Inodes] : D \in SUBSET Names}
Inode   == [kind : Kinds, nlink : Int, size : 0..MaxBlks, run : Runs \cup {0}]
Content == [dotdot : Inodes \cup {0}, blocks : Seq(Blocks)]
Disk    == [runs    : Images,                 \* the runs the image has
            inode   : [Inodes -> Inode],      \* the inode table
            iused   : SUBSET Inodes,          \* the inode maps
            content : [Runs -> Content],      \* what directories wrote to a run
            rused   : SUBSET Runs]            \* the fragment maps
Edge    == Inodes \X Names \X Inodes
Damages == {"none", "stale storage", "stale count", "link count kept", "inode leaked",
            "cut", "undone"}
\* The directories there were, the names the call is not about, those of which
\* one must be left, and the directories it left with a block not written.
Cut     == [dirs : SUBSET Inodes, spared : SUBSET Edge, either : SUBSET Edge,
            unwritten : SUBSET Inodes]
NoCut   == [dirs |-> {}, spared |-> {}, either |-> {}, unwritten |-> {}]

TypeOK ==
    /\ disk \in Disk
    /\ expected \in SUBSET Edge
    /\ damage \in Damages
    /\ cut \in Cut

-----------------------------------------------------------------------------
Cleared   == [kind |-> "free", nlink |-> 0, size |-> 0, run |-> 0]
NoContent == [dotdot |-> 0, blocks |-> <<>>]
NewDir(up) == [dotdot |-> up, blocks |-> <<<<>>>>]

Lowest(S) == CHOOSE x \in S : \A y \in S : x <= y
FreeRuns(s)   == s.runs \ s.rused
FreeInodes(s) == Inodes \ s.iused

IsDir(s, i) == s.inode[i].kind = "dir"
ListOf(s, ino) ==
    UNION {{<<n, s.content[ino.run].blocks[k][n]>> : n \in DOMAIN s.content[ino.run].blocks[k]} :
              k \in 1..ino.size \cap DOMAIN s.content[ino.run].blocks}

\* What a walk from the root lists: nextufs_directory_iterate all the way down.
EdgesOf(s, d) == {<<d, e[1], e[2]>> : e \in ListOf(s, s.inode[d])}
Reachable(s) ==
    LET upto[k \in 0..Cardinality(Inodes)] ==
            IF k = 0 THEN {Root}
            ELSE upto[k - 1] \cup
                 {e[3] : e \in UNION {EdgesOf(s, d) : d \in {x \in upto[k - 1] : IsDir(s, x)}}}
    IN  upto[Cardinality(Inodes)]
Dirs(s) == {d \in Reachable(s) : IsDir(s, d)}
Tree(s) == UNION {EdgesOf(s, d) : d \in Dirs(s)}

Lookup(s, d, n) == {e[2] : e \in {x \in ListOf(s, s.inode[d]) : x[1] = n}}

-----------------------------------------------------------------------------
(***************************************************************************)
(* The steps the calls are made of.  A call works on an open image, which  *)
(* keeps what it was before each write: where the process may have ended.  *)
(* A node is an inode read into memory.                                    *)
(***************************************************************************)
Image(s) == [runs |-> s.runs, inode |-> s.inode, iused |-> s.iused,
             content |-> s.content, rused |-> s.rused]
Open(image) == [runs |-> image.runs, inode |-> image.inode, iused |-> image.iused,
                content |-> image.content, rused |-> image.rused, past |-> <<>>]
Put(s, t) == [t EXCEPT !.past = Append(s.past, Image(s))]

Node(s, i) == [no |-> i, ino |-> s.inode[i]]
WriteInode(s, node) == Put(s, [s EXCEPT !.inode[node.no] = node.ino])
ClearInode(s, i)    == Put(s, [s EXCEPT !.inode[i] = Cleared])

AllocInode(s, i) == Put(s, [s EXCEPT !.iused = s.iused \cup {i}])
FreeInode(s, i)  == Put(s, [s EXCEPT !.iused = s.iused \ {i}])
AllocRun(s, r)   == Put(s, [s EXCEPT !.rused = s.rused \cup {r}])
FreeRun(s, r)    == Put(s, [s EXCEPT !.rused = s.rused \ {r}])
Fill(s, r, c)    == Put(s, [s EXCEPT !.content[r] = c])
FreeStorage(s, ino) == IF ino.run = 0 THEN s ELSE FreeRun(s, ino.run)

Linked(node, d) == [node EXCEPT !.ino.nlink = @ + d]

\* How growing a directory ends: in place, by moving its run, or ENOSPC.
Ways == {"in place", "moved", "full"}

\* Mutant: a directory grows past its direct blocks.
CanGrowUnbounded(s, node, way) ==
    way # "full" /\ (way = "moved" => FreeRuns(s) # {})
CanGrow(s, node, way) ==
    way # "full" /\ node.ino.size < MaxBlks /\ (way = "moved" => FreeRuns(s) # {})

\* nextufs__insert_dirent with nextufs__grow_directory_by_dirblk: a directory
\* that grows is written with its new size before the new block is.  A run that
\* is moved is copied with zeroes behind it, a block without entries.
Insert(s, node, n, i, way) ==
    LET run    == node.ino.run
        blocks == s.content[run].blocks
        room   == {k \in 1..node.ino.size : Cardinality(DOMAIN blocks[k]) < BlkNames}
        add(f) == [x \in DOMAIN f \cup {n} |-> IF x = n THEN i ELSE f[x]]
        to     == IF way = "moved" THEN Lowest(FreeRuns(s)) ELSE run
        grown  == [node EXCEPT !.ino.size = @ + 1, !.ino.run = to]
        with(f) == [s.content[run] EXCEPT !.blocks = SubSeq(@, 1, node.ino.size) \o <<f>>]
        \* nextufs__reallocate_fragment_run
        moved  == IF way = "moved"
                  THEN FreeRun(Fill(AllocRun(s, to), to, with(<<>>)), run) ELSE s
    IN  IF room # {}
        THEN [ok |-> TRUE, node |-> node,
              s  |-> WriteInode(Put(s, [s EXCEPT !.content[run].blocks[Lowest(room)] = add(@)]),
                                node)]
        ELSE IF CanGrow(s, node, way)
        THEN [ok |-> TRUE, node |-> grown, s |-> Fill(WriteInode(moved, grown), to, with(add(<<>>)))]
        ELSE [ok |-> FALSE, node |-> node, s |-> s]

\* nextufs__remove_dirent; ENOENT when the node's blocks do not name n.
Remove(s, node, n) ==
    LET run    == node.ino.run
        blocks == s.content[run].blocks
        at     == {k \in 1..node.ino.size : n \in DOMAIN blocks[k]}
        less(f) == [x \in DOMAIN f \ {n} |-> f[x]]
    IN  IF at = {} THEN [ok |-> FALSE, node |-> node, s |-> s]
        ELSE [ok |-> TRUE, node |-> node,
              s  |-> WriteInode(Put(s, [s EXCEPT !.content[run].blocks[Lowest(at)] = less(@)]),
                                node)]

\* nextufs__remove_linked_inode.  Mutant: the storage is freed whatever the
\* count.
RemoveLinkedFrees(s, t) ==
    LET fewer == Linked(t, -1)
    IN  IF fewer.ino.nlink > 0 THEN FreeStorage(WriteInode(s, fewer), t.ino)
        ELSE FreeInode(ClearInode(FreeStorage(s, t.ino), t.no), t.no)
RemoveLinked(s, t) ==
    LET fewer == Linked(t, -1)
    IN  IF fewer.ino.nlink > 0 THEN WriteInode(s, fewer)
        ELSE FreeInode(ClearInode(FreeStorage(s, t.ino), t.no), t.no)

\* nextufs__remove_dir_inode; the parent loses the link of '..'.
\* Mutant: the parent keeps it.
RemoveDirKeepsLink(s, up, t) ==
    [node |-> up, s |-> FreeInode(ClearInode(FreeStorage(s, t.ino), t.no), t.no)]
RemoveDir(s, up, t) ==
    LET fewer == Linked(up, -1)
    IN  [node |-> fewer,
         s |-> WriteInode(FreeInode(ClearInode(FreeStorage(s, t.ino), t.no), t.no), fewer)]

\* nextufs__directory_is_empty.  Mutant: one block is looked at.
EmptyDirFirstBlock(s, t, up) ==
    /\ ListOf(s, [s.inode[t] EXCEPT !.size = 1]) = {}
    /\ s.content[s.inode[t].run].dotdot = up
EmptyDir(s, t, up) ==
    ListOf(s, s.inode[t]) = {} /\ s.content[s.inode[t].run].dotdot = up

\* nextufs__directory_has_ancestor follows '..' to the root.
\* Mutant: only the directory itself is compared.
HasAncestorSelf(s, d, a) == d = a
HasAncestor(s, d, a) ==
    LET up[k \in 0..Cardinality(Inodes)] ==
            IF k = 0 THEN d
            ELSE IF up[k - 1] = Root THEN Root
            ELSE s.content[s.inode[up[k - 1]].run].dotdot
    IN  \E k \in DOMAIN up : up[k] = a

\* nextufs__update_directory_parent_inode: '..' and the times.
\* Mutant: '..' keeps naming the old parent.
SetDotDotSkipped(s, node, up) == WriteInode(s, node)
SetDotDot(s, node, up) ==
    WriteInode(Put(s, [s EXCEPT !.content[node.ino.run].dotdot = up]), node)

\* nextufs__discard_new_inode.  Mutant: the inode stays marked used.
DiscardKeepsInode(s, node) == ClearInode(FreeStorage(s, node.ino), node.no)
Discard(s, node) == FreeInode(ClearInode(FreeStorage(s, node.ino), node.no), node.no)

-----------------------------------------------------------------------------
(***************************************************************************)
(* The calls.                                                              *)
(***************************************************************************)
Fresh(kind, nlink, size, run) ==
    [kind |-> kind, nlink |-> nlink, size |-> size, run |-> run]

\* The bytes of a run no inode points at are not kept in the state: where they
\* can be seen again they are any, see Stale.
Settled(s) ==
    [runs |-> s.runs, inode |-> s.inode, iused |-> s.iused, rused |-> s.rused,
     content |-> [r \in Runs |->
        IF \E i \in Inodes : s.inode[i].run = r THEN s.content[r] ELSE NoContent]]

\* The directories whose size counts a block that is not written yet.
Unwritten(s) ==
    {i \in Inodes : IsDir(s, i) /\ s.inode[i].size > Len(s.content[s.inode[i].run].blocks)}
HeldBy(s, r, S) == \E i \in S : s.inode[i].run = r

\* What such a block reads as is what its fragment held before, the entries of
\* a directory long removed among them.
Stale(s) ==
    IF Unwritten(s) = {} THEN {<<>>} ELSE {f \in Blocks : Cardinality(DOMAIN f) <= BlkNames}
Exposed(s, stale) ==
    [s EXCEPT !.content = [r \in Runs |->
        IF HeldBy(s, r, Unwritten(s))
        THEN [s.content[r] EXCEPT !.blocks = Append(@, stale)] ELSE s.content[r]]]

\* The image without the block those directories end in.
WithoutLast(s, S) ==
    [s EXCEPT !.content = [r \in Runs |->
        IF HeldBy(s, r, S)
        THEN [s.content[r] EXCEPT !.blocks = SubSeq(@, 1, Len(@) - 1)] ELSE s.content[r]]]

\* A call is followed only on an image no earlier one has damaged.
Undamaged == damage = "none"

\* The images a process that ends, or a call that returns, after the first n
\* writes of a call and before the last leaves behind.
Between(s, n) ==
    IF Cardinality(expected) <= CutNames THEN {s.past[j] : j \in (n + 1)..Len(s.past)} ELSE {}

\* The image s is left, with the names spared and one of the others.
LeftAs(s, spared, either) ==
    /\ \E stale \in Stale(Settled(s)) : disk' = Exposed(Settled(s), stale)
    /\ cut' = [dirs |-> Dirs(disk), spared |-> spared, either |-> either,
               unwritten |-> Unwritten(Settled(s))]
    /\ UNCHANGED expected

\* A call goes through with s and tells of the tree told, or is cut short; it
\* is about the names given.
Ends(s, told, names, either) ==
    \/ disk' = Settled(s) /\ expected' = told /\ damage' = "none" /\ cut' = NoCut
    \/ \E x \in Between(s, 1) : LeftAs(x, expected \ names, either) /\ damage' = "cut"

\* nextufs__insert_dirent fails in a write, and what went before it is undone.
Undone(s, ins, node) ==
    \E x \in Between(ins.s, Len(s.past)) :
        LeftAs(Discard(Open(x), node), expected, {}) /\ damage' = "undone"

\* A call that leaves the image damaged in the way it says.
Leaves(s, told, how) ==
    disk' = Settled(s) /\ expected' = told /\ damage' = how /\ cut' = NoCut

\* A name a call may create.  In the calls p and q are directories a path
\* leads to.
Absent(p, n) == Lookup(disk, p, n) = {}

\* nextufs_path_create_file, nextufs_path_mknod and nextufs_path_symlink: data
\* says whether the new inode has storage.
Create(p, n, kind, data, way) ==
    /\ Undamaged /\ Absent(p, n)
    /\ FreeInodes(disk) # {} /\ (data => kind = "file" /\ FreeRuns(disk) # {})
    /\ LET i   == Lowest(FreeInodes(disk))
           r   == IF data THEN Lowest(FreeRuns(disk)) ELSE 0
           new == [no |-> i, ino |-> Fresh(kind, 1, 0, r)]
           s1  == AllocInode(Open(disk), i)
           s2  == IF data THEN Fill(AllocRun(s1, r), r, NoContent) ELSE s1
           s3  == WriteInode(s2, new)
           ins == Insert(s3, Node(disk, p), n, i, way)
       IN  \/ /\ ins.ok /\ Ends(ins.s, expected \cup {<<p, n, i>>}, {}, {})
           \/ /\ ~ins.ok /\ Ends(Discard(s3, new), expected, {}, {})
           \/ ins.ok /\ Undone(s3, ins, new)

\* nextufs_path_mkdir.  No fragment for the new directory: the inode taken
\* before is not given back.
MkdirNoFragment(p, n) ==
    /\ Undamaged /\ Absent(p, n)
    /\ FreeInodes(disk) # {} /\ FreeRuns(disk) = {}
    /\ Leaves(AllocInode(Open(disk), Lowest(FreeInodes(disk))), expected, "inode leaked")

Mkdir(p, n, way) ==
    /\ Undamaged /\ Absent(p, n)
    /\ FreeInodes(disk) # {} /\ FreeRuns(disk) # {}
    /\ LET i   == Lowest(FreeInodes(disk))
           r   == Lowest(FreeRuns(disk))
           new == [no |-> i, ino |-> Fresh("dir", 2, 1, r)]
           s1  == Fill(AllocRun(AllocInode(Open(disk), i), r), r, NewDir(p))
           s2  == WriteInode(s1, new)
           ins == Insert(s2, Node(disk, p), n, i, way)
       IN  \/ /\ ins.ok
              /\ Ends(WriteInode(ins.s, Linked(ins.node, 1)), expected \cup {<<p, n, i>>}, {}, {})
           \/ /\ ~ins.ok /\ Ends(Discard(s2, new), expected, {}, {})
           \/ ins.ok /\ Undone(s2, ins, new)

\* nextufs_path_unlink.  Mutant: the inode goes before the name.
UnlinkedInodeFirst(p, n, i) ==
    Remove(RemoveLinked(Open(disk), Node(disk, i)), Node(disk, p), n)
Unlinked(p, n, i) ==
    LET rem == Remove(Open(disk), Node(disk, p), n)
    IN  [rem EXCEPT !.s = RemoveLinked(rem.s, Node(disk, i))]

Unlink(p, n, i) ==
    /\ Undamaged /\ ~IsDir(disk, i)
    /\ LET rem == Unlinked(p, n, i)
       IN  rem.ok /\ Ends(rem.s, expected \ {<<p, n, i>>}, {<<p, n, i>>}, {})

\* nextufs_path_rmdir.
Rmdir(p, n, i) ==
    /\ Undamaged /\ IsDir(disk, i)
    /\ disk.inode[i].nlink = 2 /\ EmptyDir(disk, i, p)
    /\ LET rem == Remove(Open(disk), Node(disk, p), n)
       IN  /\ rem.ok
           /\ Ends(RemoveDir(rem.s, rem.node, Node(disk, i)).s, expected \ {<<p, n, i>>},
                   {<<p, n, i>>}, {})

\* nextufs_path_link writes the higher count first.
Link(p, n, i, way) ==
    /\ Undamaged /\ Absent(p, n)
    /\ ~IsDir(disk, i)
    /\ LET s1  == WriteInode(Open(disk), Linked(Node(disk, i), 1))
           ins == Insert(s1, Node(disk, p), n, i, way)
       IN  IF ins.ok THEN Ends(ins.s, expected \cup {<<p, n, i>>}, {}, {})
           ELSE Leaves(ins.s, expected, "link count kept")

\* overwrite, append, truncate and pwrite: nextufs__rewrite_inode_contents
\* stores the new contents before it frees the old.
Rewrite(i, data) ==
    /\ Undamaged /\ disk.inode[i].kind = "file"
    /\ data => FreeRuns(disk) # {}
    /\ LET r   == IF data THEN Lowest(FreeRuns(disk)) ELSE 0
           old == disk.inode[i]
           s1  == IF data THEN Fill(AllocRun(Open(disk), r), r, NoContent) ELSE Open(disk)
           s2  == WriteInode(s1, [no |-> i, ino |-> [old EXCEPT !.run = r]])
       IN  Ends(FreeStorage(s2, old), expected, {}, {})

-----------------------------------------------------------------------------
(***************************************************************************)
(* nextufs_path_rename.  Both parents are read into nodes of their own     *)
(* before anything is written, also when they are one directory.           *)
(***************************************************************************)

\* What may be renamed over t: the same kind, and an empty directory.
Replaceable(i, t, q) ==
    /\ IsDir(disk, i) = IsDir(disk, t)
    /\ IsDir(disk, t) => disk.inode[t].nlink <= 2 /\ EmptyDir(disk, t, q)

\* The target entry and its inode are removed first.
TargetRemoved(s, new, m, T) ==
    IF T = {} THEN [node |-> new, s |-> s]
    ELSE LET t   == CHOOSE x \in T : TRUE
             rem == Remove(s, new, m)
         IN  IF IsDir(disk, t) THEN RemoveDir(rem.s, rem.node, Node(disk, t))
             ELSE [node |-> rem.node, s |-> RemoveLinked(rem.s, Node(disk, t))]

\* A directory that changes its parent.
Reparented(s, src, old, new) ==
    WriteInode(WriteInode(SetDotDot(s, src, new.no), Linked(old, -1)), Linked(new, 1))

\* What the old parent's node no longer knows when it is written back.
StaleParent(old, new) ==
    IF old.no # new.no THEN "none"
    ELSE IF [old EXCEPT !.ino.nlink = 0] # [new EXCEPT !.ino.nlink = 0] THEN "stale storage"
    ELSE IF old # new THEN "stale count" ELSE "none"

Rename(p, n, q, m, way) ==
    /\ Undamaged /\ <<p, n>> # <<q, m>>
    /\ \E i \in Lookup(disk, p, n) :
         LET T    == Lookup(disk, q, m)
             src  == Node(disk, i)
             old  == Node(disk, p)
             gone == TargetRemoved(Open(disk), Node(disk, q), m, T)
             ins  == Insert(gone.s, gone.node, m, i, way)
             rem  == Remove(ins.s, old, n)
             mov  == IF IsDir(disk, i) /\ p # q
                     THEN Reparented(rem.s, src, rem.node, ins.node) ELSE rem.s
             end  == WriteInode(mov, src)
             names == {e \in expected : <<e[1], e[2]>> \in {<<p, n>>, <<q, m>>}}
             told  == (expected \ names) \cup {<<q, m, i>>}
             stale == StaleParent(old, ins.node)
         IN  /\ IsDir(disk, i) => ~HasAncestor(disk, q, i)
             /\ i \notin T /\ \A t \in T : Replaceable(i, t, q)
             /\ IF ~ins.ok THEN Ends(gone.s, expected, names, {<<p, n, i>>})
                ELSE /\ rem.ok
                     /\ IF stale = "none"
                        THEN Ends(end, told, names, {<<p, n, i>>, <<q, m, i>>})
                        ELSE Leaves(end, told, stale)

-----------------------------------------------------------------------------
RootOnly(image, r) ==
    [runs    |-> image,
     inode   |-> [i \in Inodes |-> IF i = Root THEN Fresh("dir", 2, 1, r) ELSE Cleared],
     iused   |-> {Root},
     content |-> [x \in Runs |-> IF x = r THEN NewDir(Root) ELSE NoContent],
     rused   |-> {r}]

\* mkimg's image without its lost+found, which is a directory like any other.
Init ==
    /\ \E image \in Images : disk = RootOnly(image, Lowest(image))
    /\ expected = {}
    /\ damage = "none"
    /\ cut = NoCut

Next ==
    \/ \E p \in Dirs(disk), n \in Names :
         \/ \E kind \in {"file", "special"}, data \in BOOLEAN, way \in Ways :
              Create(p, n, kind, data, way)
         \/ MkdirNoFragment(p, n)
         \/ \E way \in Ways : Mkdir(p, n, way)
         \/ \E i \in Lookup(disk, p, n) : Unlink(p, n, i) \/ Rmdir(p, n, i)
         \/ \E i \in Reachable(disk), way \in Ways : Link(p, n, i, way)
         \/ \E q \in Dirs(disk), m \in Names, way \in Ways : Rename(p, n, q, m, way)
    \/ \E i \in Reachable(disk), data \in BOOLEAN : Rewrite(i, data)

Spec == Init /\ [][Next]_vars

-----------------------------------------------------------------------------
\* The walk lists the tree the callers were told of: what a call that succeeded
\* made of it, untouched by one that failed (validate_tree in stress.c).
TreeAsExpected == Tree(disk) = expected

\* Every link count is the number of names, with '.' and the '..' of the
\* subdirectories for a directory.
CountsMatch ==
    LET tree == Tree(disk)
        Subdirs(d) == {e \in tree : e[1] = d /\ IsDir(disk, e[3])}
        NamesOf(i) == {e \in tree : e[3] = i}
    IN  \A i \in disk.iused :
            disk.inode[i].nlink = IF IsDir(disk, i) THEN 2 + Cardinality(Subdirs(i))
                                  ELSE Cardinality(NamesOf(i))

\* A directory other than the root has one name, and its '..' is where that
\* name is; the root has none.
OneParent ==
    LET tree == Tree(disk)
        DotDot(d) == disk.content[disk.inode[d].run].dotdot
        NamesOf(d) == {e \in tree : e[3] = d}
    IN  \A d \in Dirs(disk) :
            IF d = Root THEN NamesOf(d) = {} /\ DotDot(d) = Root
            ELSE \E n \in Names : NamesOf(d) = {<<DotDot(d), n, d>>}

\* The inodes marked used are those a path leads to.
NoOrphans == disk.iused = Reachable(disk)

\* Storage has one owner: every fragment marked used belongs to one inode, and
\* none that an inode points at is free.
StorageOwned ==
    LET Holders == {i \in Inodes : disk.inode[i].run # 0}
    IN  /\ disk.rused = {disk.inode[i].run : i \in Holders}
        /\ \A i, j \in Holders : disk.inode[i].run = disk.inode[j].run => i = j
        /\ \A i \in Dirs(disk) : i \in Holders

\* The types hold, and until a call leaves the image damaged in one of the ways
\* the model names, each of these holds after every call.
KeepsTree    == TypeOK /\ (damage = "none" => TreeAsExpected /\ OneParent)
KeepsCounts  == damage = "none" => CountsMatch
KeepsStorage == damage = "none" => NoOrphans /\ StorageOwned

\* A process that ends between two writes of a call, and a write that fails,
\* cost no name the call was not about, and a rename leaves the old name or the
\* new one, or both.  A directory that was growing may be left with a block not
\* written, which lists whatever its fragment held: such names hide no other,
\* and the rest is said of the image without that block.  No name there leads
\* to an inode that may be given out again and no file has fewer links than
\* names, but for the file renamed: a later unlink of one of its two names
\* would free it.  Storage that is reached is its owner's alone, but for a
\* directory caught between two places.  A call undone behind a failed write
\* may have left its name.
CutLosesNoName ==
    damage \in {"cut", "undone"} =>
        LET sound == WithoutLast(disk, cut.unwritten)
            tree  == Tree(sound)
            named == {e[3] : e \in tree}
            runs  == {sound.inode[i].run : i \in named} \ {0}
            NamesOf(i) == {e \in tree : e[3] = i}
        IN  /\ cut.spared \subseteq tree /\ tree \subseteq Tree(disk)
            /\ cut.either # {} => cut.either \cap tree # {}
            /\ \A d \in cut.dirs : d \in Dirs(sound) \/ d \notin named
            /\ Cardinality(runs \ sound.rused) <= 1
            /\ \A i, j \in named \cup {Root} :
                  sound.inode[i].run = sound.inode[j].run /\ i # j => sound.inode[i].run = 0
            /\ damage = "cut" =>
                  \A i \in named :
                      /\ i \in sound.iused /\ sound.inode[i].kind # "free"
                      /\ ~IsDir(sound, i) =>
                            \/ sound.inode[i].nlink >= Cardinality(NamesOf(i))
                            \/ i \in {e[3] : e \in cut.either}

\* Every call is one step of the tree the callers are promised, or none: the
\* many writes of a rename show as one move.  (The image of a call that left
\* damage stands for the tree it told of.)
Promise == INSTANCE DirTree WITH
    Objects <- Inodes,
    edges   <- IF damage = "none" THEN Tree(disk) ELSE expected,
    dirs    <- CASE damage = "none" -> Dirs(disk)
                 [] damage \in {"cut", "undone"} -> cut.dirs
                 [] OTHER -> {Root} \cup {i \in {e[3] : e \in expected} : IsDir(disk, i)}
ImplementsTree == Promise!Spec

-----------------------------------------------------------------------------
(***************************************************************************)
(* What the tests ask of the calls the model found wanting.                *)
(***************************************************************************)

\* A rename within one directory, over an empty one too, leaves the tree
\* validate_tree expects, storage with one owner and counts fsck -n accepts.
RenameKeepsTree ==
    damage \in {"stale storage", "stale count"} => TreeAsExpected /\ StorageOwned /\ CountsMatch

\* A link or a mkdir that fails leaves everything as it was (assert_failed_op).
FailedCallKeepsAll ==
    damage \in {"link count kept", "inode leaked"} => CountsMatch /\ NoOrphans
=============================================================================
