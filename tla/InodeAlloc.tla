----------------------------- MODULE InodeAlloc -----------------------------
(***************************************************************************)
(* The inode half of the cylinder groups (src/core/alloc.c): the used map, *)
(* the rotor and the counters of each group block, with the copies         *)
(* update_summary_counts keeps in the summary table and the superblock.    *)
(*                                                                         *)
(* An inode number is a pair (cg, local).  The callers are create, mkdir,  *)
(* symlink and mknod, which ask the parent directory's group only, and the *)
(* paths that release an inode, which pass the mode read from it.          *)
(***************************************************************************)
EXTENDS Integers, FiniteSets

CONSTANTS
    NumGroups,       \* fs_ncg
    InodesPerGroup,  \* fs_ipg
    MaxErrors        \* bound on failing summary writes

Groups == 0..(NumGroups - 1)
Locals == 0..(InodesPerGroup - 1)

\* Inodes 0 and 1 of group 0 are never handed out; 2 is the root directory
\* and 3 is lost+found.
Reserved(g) == IF g = 0 THEN {0, 1} ELSE {}
Root      == [cg |-> 0, local |-> 2, dir |-> TRUE]
LostFound == [cg |-> 0, local |-> 3, dir |-> TRUE]

ASSUME InodesAssumption ==
    /\ NumGroups \in Nat \ {0}
    /\ InodesPerGroup \in Nat /\ InodesPerGroup >= 4
    /\ MaxErrors \in Nat

VARIABLES
    iused,    \* iused[g]: cg_iused
    irotor,   \* irotor[g]: cg_irotor
    cnt,      \* cnt[g]: cg_cs.cs_ndir and cg_cs.cs_nifree
    csum,     \* csum[g]: the group's summary entry
    sb,       \* fs_cstotal in the superblock
    inodes,   \* the inodes the callers hold
    lost,     \* inodes marked used that no caller was told of
    errors    \* summary writes that failed so far

vars == <<iused, irotor, cnt, csum, sb, inodes, lost, errors>>

InodeRecord == [cg : Groups, local : Locals, dir : BOOLEAN]
Counts == [ndir : Int, nifree : Int]

TypeOK ==
    /\ iused \in [Groups -> SUBSET Locals]
    /\ irotor \in [Groups -> Locals]
    /\ cnt \in [Groups -> [ndir : Nat, nifree : Nat]]
    /\ csum \in [Groups -> Counts]
    /\ sb \in Counts
    /\ inodes \subseteq InodeRecord
    /\ lost \subseteq InodeRecord
    /\ errors \in 0..MaxErrors

InGroup(S, g) == {i \in S : i.cg = g}

\* mkimg's image: initcg reserves, fsinit puts the two directories.
Init ==
    /\ inodes = {Root, LostFound}
    /\ iused = [g \in Groups |-> Reserved(g) \cup {i.local : i \in InGroup(inodes, g)}]
    /\ irotor = [g \in Groups |-> 0]
    /\ cnt = [g \in Groups |-> [ndir   |-> IF g = 0 THEN 2 ELSE 0,
                                nifree |-> InodesPerGroup - Cardinality(iused[g])]]
    /\ csum = cnt
    /\ sb = [ndir |-> 2, nifree |-> NumGroups * InodesPerGroup - 4]
    /\ lost = {}
    /\ errors = 0

-----------------------------------------------------------------------------
AddCounts(x, d) == [ndir |-> x.ndir + d.ndir, nifree |-> x.nifree + d.nifree]

IO == {"ok", "sb", "csum"}

\* Mutant: the superblock's directory count is not moved.
UpdateSummaryNoDir(g, d, io) ==
    /\ io # "ok" => errors < MaxErrors
    /\ sb' = IF io = "sb" THEN sb ELSE AddCounts(sb, [d EXCEPT !.ndir = 0])
    /\ csum' = IF io = "ok" THEN [csum EXCEPT ![g] = AddCounts(csum[g], d)] ELSE csum
    /\ errors' = IF io = "ok" THEN errors ELSE errors + 1

\* nextufs__update_summary_counts, called after the group block is written; io
\* names the write that fails, if any.
UpdateSummary(g, d, io) ==
    /\ io # "ok" => errors < MaxErrors
    /\ sb' = IF io = "sb" THEN sb ELSE AddCounts(sb, d)
    /\ csum' = IF io = "ok" THEN [csum EXCEPT ![g] = AddCounts(csum[g], d)] ELSE csum
    /\ errors' = IF io = "ok" THEN errors ELSE errors + 1

Dirs(dir) == IF dir THEN 1 ELSE 0

\* The distance at which the scan that starts at the rotor looks at inode i.
Distance(g, i) == (i - irotor[g]) % InodesPerGroup

\* Mutant: the scan stops at the end of the map instead of wrapping around.
CandidatesNoWrap(g) == {i \in Locals \ iused[g] : i >= irotor[g]}
\* Mutant: the map is not looked at.
CandidatesUsedToo(g) == Locals
Candidates(g) == Locals \ iused[g]

\* nextufs__allocate_inode_in_group: ENOSPC when the counter is zero or the
\* scan finds nothing.
CanAllocate(g) == cnt[g].nifree # 0 /\ Candidates(g) # {}

\* Mutant: the directory count is not kept.
AllocDeltaNoDir(dir) == [ndir |-> 0, nifree |-> -1]
AllocDelta(dir) == [ndir |-> Dirs(dir), nifree |-> -1]
\* Mutant: the directory count is not lowered.
FreeDeltaNoDir(dir) == [ndir |-> 0, nifree |-> 1]
FreeDelta(dir) == [ndir |-> -Dirs(dir), nifree |-> 1]

AllocateInode(g, dir, io) ==
    /\ CanAllocate(g)
    /\ \E i \in Candidates(g) :
         LET ino == [cg |-> g, local |-> i, dir |-> dir]
         IN  /\ \A j \in Candidates(g) : Distance(g, i) <= Distance(g, j)
             /\ iused' = [iused EXCEPT ![g] = iused[g] \cup {i}]
             /\ irotor' = [irotor EXCEPT ![g] = i]
             /\ cnt' = [cnt EXCEPT ![g] = AddCounts(cnt[g], AllocDelta(dir))]
             /\ UpdateSummary(g, AllocDelta(dir), io)
             /\ IF io = "ok"
                THEN inodes' = inodes \cup {ino} /\ UNCHANGED lost
                ELSE lost' = lost \cup {ino} /\ UNCHANGED inodes

\* nextufs__free_inode_in_group refuses (EINVAL) an inode that is not in use.
FreeInode(ino, io) ==
    /\ ino.local \in iused[ino.cg]
    /\ iused' = [iused EXCEPT ![ino.cg] = iused[ino.cg] \ {ino.local}]
    /\ cnt' = [cnt EXCEPT ![ino.cg] = AddCounts(cnt[ino.cg], FreeDelta(ino.dir))]
    /\ UpdateSummary(ino.cg, FreeDelta(ino.dir), io)
    /\ inodes' = inodes \ {ino}
    /\ UNCHANGED <<irotor, lost>>

Next ==
    \/ \E g \in Groups, dir \in BOOLEAN, io \in IO : AllocateInode(g, dir, io)
    \/ \E ino \in inodes \ {Root, LostFound}, io \in IO : FreeInode(ino, io)

Spec == Init /\ [][Next]_vars

-----------------------------------------------------------------------------
\* Every counter of a group equals what its map and its inodes say, whatever
\* calls and failing summary writes led here.
CountersMatch ==
    \A g \in Groups :
        /\ cnt[g].nifree = InodesPerGroup - Cardinality(iused[g])
        /\ cnt[g].ndir = Cardinality({i \in inodes \cup lost : i.cg = g /\ i.dir})

\* While no write has failed the summary table equals the groups and the
\* superblock totals equal the image's directories and free inodes.
SummariesConsistent ==
    errors = 0 =>
        /\ csum = cnt
        /\ sb.ndir = Cardinality({i \in inodes : i.dir})
        /\ sb.nifree = NumGroups * InodesPerGroup - 2 - Cardinality(inodes)

\* An inode has one holder, and the used map marks exactly the reserved, the
\* held and the lost inodes.
OneHolder ==
    /\ \A i, j \in inodes \cup lost : i.cg = j.cg /\ i.local = j.local => i = j
    /\ inodes \cap lost = {}
    /\ \A g \in Groups :
         /\ Reserved(g) \cap {i.local : i \in InGroup(inodes \cup lost, g)} = {}
         /\ iused[g] = Reserved(g) \cup {i.local : i \in InGroup(inodes \cup lost, g)}

\* A group answers ENOSPC only when every inode of it is in use, wherever the
\* rotor stands.
NoFalseENOSPC == \A g \in Groups : CanAllocate(g) <=> iused[g] # Locals
=============================================================================
