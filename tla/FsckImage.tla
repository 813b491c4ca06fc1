------------------------------ MODULE FsckImage ------------------------------
(***************************************************************************)
(* The image as src/fsck sees it: inodes, the fragments they name, one     *)
(* cylinder group, its summary entry and the superblock, and what the      *)
(* helpers of inode_scan.c, dir_scan.c, alloc_map.c and inode_ops.c        *)
(* compute from them.                                                      *)
(*                                                                         *)
(* A fragment is one directory block (DIRBLKSIZ), as mkimg makes it.  A    *)
(* directory block is a row of units, the room of a short entry; a record  *)
(* starts at a unit and covers `room` of them, and the units a record has  *)
(* swallowed keep what was there.  Sizes are in thirds of a fragment: one  *)
(* third is less than a "." and a "..", two are not a multiple of          *)
(* DIRBLKSIZ.                                                              *)
(***************************************************************************)
EXTENDS Integers, Sequences, FiniteSets, FiniteSetsExt

CONSTANTS
    NFrags,    \* fs_size, fmax
    Frag,      \* fs_frag
    SbNo,      \* cgsblock of the group
    DMin,      \* cgdmin of the group
    CsFrags,   \* fragments of the summary area behind it
    IMax,      \* inodes of the image
    Direct,    \* NDADDR
    Entries,   \* NINDIR
    Units      \* units of a directory block

ASSUME FsckAssumption ==
    /\ {NFrags, Frag, IMax, Direct, Entries, Units, DMin} \subseteq Nat \ {0}
    /\ {SbNo, CsFrags} \subseteq Nat /\ SbNo < DMin /\ DMin + CsFrags < NFrags

Root   == 2
Inos   == Root..(IMax - 1)
Frags  == 0..(NFrags - 1)
Third  == 3                        \* thirds of a fragment
Block  == Frag * Third             \* fs_bsize

\* set in the block map before any inode is looked at
Reserved == 0..(DMin + CsFrags - 1)

ZeroIno == [mode |-> "none", nlink |-> 0, size |-> 0, db |-> [k \in 1..Direct |-> 0],
            ib |-> 0, blocks |-> 0, fast |-> FALSE]

Rec(i, n, r) == [ino |-> i, name |-> n, room |-> r]
Free(r)      == Rec(0, "", r)
EmptyDir     == [kind |-> "dir", at |-> [u \in 1..Units |-> Free(IF u = 1 THEN Units ELSE 0)]]
DirHead(dot, dotdot) ==
    [kind |-> "dir", at |-> [u \in 1..Units |->
        CASE u = 1 -> Rec(dot, ".", 1) [] u = 2 -> Rec(dotdot, "..", Units - 1) [] OTHER -> Free(0)]]

Ceil(n, d) == (n + d - 1) \div d

-----------------------------------------------------------------------------
(* What an inode names.                                                    *)

OutRange(b, n) == b + n > NFrags \/ (b < DMin /\ b + n > SbNo)

\* Fragments ckinode asks for at direct slot k: only the last block may be short.
NumFrags(size, k) ==
    IF k = Ceil(size, Block) /\ size % Block # 0 THEN Ceil(size % Block, Third) ELSE Frag

\* Entries of the indirect block that lie inside the file: one more than are
\* needed when the size ends on a block.
InFile(size) ==
    LET over == size - Block * Direct
    IN  IF over >= 0 THEN over \div Block + 1 ELSE 1 - ((-over) \div Block)

IndirectOf(d, frag) ==
    IF d.ib = 0 \/ OutRange(d.ib, Frag) THEN {}
    ELSE IF frag[d.ib].kind # "ind" THEN {}
    ELSE {e \in 1..Entries : frag[d.ib].addr[e] # 0}

\* The runs ckinode visits, each with its slot so that two alike stay two.
Visits(d, frag) ==
    {<<k, d.db[k], NumFrags(d.size, k)>> : k \in {j \in 1..Direct : d.db[j] # 0}}
    \cup (IF d.ib = 0 THEN {} ELSE {<<0, d.ib, Frag>>})
    \cup {<<Direct + e, frag[d.ib].addr[e], Frag>> : e \in {x \in IndirectOf(d, frag) : x <= InFile(d.size)}}

Covers(v)        == v[2]..(v[2] + v[3] - 1)
BadVisits(vs)    == {v \in vs : OutRange(v[2], v[3])}
\* The fragments of a run that pass the check one by one.
GoodFrags(v)     == IF OutRange(v[2], v[3]) THEN {f \in Covers(v) : ~OutRange(f, 1)} ELSE Covers(v)
Claimed(vs)      == UNION {GoodFrags(v) : v \in vs}
Times(vs, f)     == Cardinality({v \in vs : f \in GoodFrags(v)})
CountFrags(vs)   == MapThenSumSet(LAMBDA v : v[3], vs)

\* Addresses where the size leaves none: they make the inode unreadable.
StrayAddresses(d) ==
    \/ \E k \in 1..Direct : k > Ceil(d.size, Block) /\ d.db[k] # 0
    \/ d.ib # 0 /\ Ceil(d.size, Block) <= Direct

TypeKnown(d) == d.mode \in {"dir", "file", "link"}

-----------------------------------------------------------------------------
(* Directory blocks.                                                       *)

\* dircheck: what begins at unit u is a record.
DirCheck(c, u) ==
    /\ c.kind = "dir"
    /\ LET r == c.at[u]
       IN  /\ r.ino < IMax /\ r.room > 0 /\ u + r.room - 1 <= Units
           /\ r.ino = 0 \/ r.name # "junk"

\* A block that does not begin with a record becomes one free record.
Salvaged(c) ==
    [kind |-> "dir", at |-> [u \in 1..Units |->
        IF u = 1 THEN Free(Units) ELSE IF c.kind = "dir" THEN c.at[u] ELSE Rec(0, "junk", 0)]]

\* The units where the records of a block begin, if it can be walked.
RECURSIVE Walk(_, _)
Walk(c, u) == IF u > Units THEN {} ELSE {u} \cup Walk(c, u + c.at[u].room)
RECURSIVE Walks(_, _)
Walks(c, u) == u > Units \/ (DirCheck(c, u) /\ Walks(c, u + c.at[u].room))

\* The fragments of a directory, in order.
DirFrags(d) ==
    LET f[k \in 0..Direct] ==
            IF k = 0 THEN <<>>
            ELSE f[k - 1] \o (IF d.db[k] = 0 \/ k > Ceil(d.size, Block) THEN <<>>
                              ELSE [j \in 1..NumFrags(d.size, k) |-> d.db[k] + j - 1])
    IN  f[Direct]

-----------------------------------------------------------------------------
(* The group and its summaries.                                            *)

Whole(free) == {b \in 0..((NFrags \div Frag) - 1) : {f \in Frags : f \div Frag = b} \subseteq free}

\* What pass 5 counts; the counters by run length and by cylinder go the way
\* of the four it sums.
Sums(free, used, dirs) ==
    LET whole == Whole(free)
    IN  [nbfree |-> Cardinality(whole), nffree |-> Cardinality(free) - Frag * Cardinality(whole),
         nifree |-> IMax - Cardinality(used), ndir |-> Cardinality(dirs)]

\* allocblk: the lowest free run inside one block, the last block left alone.
AllocRuns(bm, n) ==
    {f \in Frags : /\ (f \div Frag) * Frag < NFrags - Frag
                   /\ (f % Frag) + n <= Frag
                   /\ (f..(f + n - 1)) \cap bm = {}}
AllocBlk(bm, n) == IF AllocRuns(bm, n) = {} THEN 0 ELSE Min(AllocRuns(bm, n))

-----------------------------------------------------------------------------
(***************************************************************************)
(* A consistent image, said of the image and not of any check.             *)
(***************************************************************************)
Alloc(img)   == {i \in Inos : img.ino[i].mode # "none"}
Dirs(img)    == {i \in Inos : img.ino[i].mode = "dir"}
VisitsOf(img, i) == IF img.ino[i].fast THEN {} ELSE Visits(img.ino[i], img.frag)

\* Every live record: <<directory, place, name, inode>>.
Links(img) ==
    UNION {LET fs == DirFrags(img.ino[d])
           IN  UNION {{<<d, <<j, u>>, img.frag[fs[j]].at[u].name, img.frag[fs[j]].at[u].ino>> :
                          u \in {w \in Walk(img.frag[fs[j]], 1) : img.frag[fs[j]].at[w].ino # 0}} :
                      j \in DOMAIN fs} : d \in Dirs(img)}

InodesOk(img) ==
    /\ \A i \in Inos \ Alloc(img) : img.ino[i] = [ZeroIno EXCEPT !.nlink = img.ino[i].nlink,
                                                                 !.blocks = img.ino[i].blocks,
                                                                 !.fast = img.ino[i].fast]
    /\ \A i \in Alloc(img) :
         LET d == img.ino[i] vs == VisitsOf(img, i)
         IN  /\ TypeKnown(d) /\ (d.fast => d.mode = "link")
             /\ ~d.fast => /\ ~StrayAddresses(d) /\ BadVisits(vs) = {} /\ d.blocks = CountFrags(vs)
                           /\ \A e \in IndirectOf(d, img.frag) : e <= InFile(d.size)

OneOwner(img) ==
    \A f \in Frags :
        LET owners == UNION {{<<i, v>> : v \in {x \in VisitsOf(img, i) : f \in Covers(x)}} : i \in Alloc(img)}
        IN  Cardinality(owners) <= 1 /\ (f \in Reserved => owners = {})

DirsOk(img) ==
    /\ Root \in Dirs(img)
    /\ \A d \in Dirs(img) :
         /\ img.ino[d].size > 0 /\ img.ino[d].size % Third = 0
         /\ LET fs == DirFrags(img.ino[d])
            IN  \A j \in DOMAIN fs : img.frag[fs[j]].kind = "dir" /\ Walks(img.frag[fs[j]], 1)
    /\ LET links == Links(img)
           named == {x \in links : x[3] \notin {".", ".."}}
       IN  /\ \A x \in links : x[4] \in Alloc(img)
           \* reached from the root: any set of others is entered from outside
           /\ \A set \in (SUBSET (Alloc(img) \ {Root})) \ {{}} :
                \E x \in named : x[4] \in set /\ x[1] \notin set
           /\ \A i \in Alloc(img) : img.ino[i].nlink = Cardinality({x \in links : x[4] = i})
           /\ \A d \in Dirs(img) : Cardinality({x \in named : x[4] = d}) = IF d = Root THEN 0 ELSE 1
           \* "." and "..": nothing is asked of a directory that has no block at all
           /\ \A d \in {e \in Dirs(img) : DirFrags(img.ino[e]) # <<>>} :
                /\ {x[4] : x \in {y \in links : y[1] = d /\ y[3] = "."}} = {d}
                /\ \E x \in links : /\ x[1] = d /\ x[3] = ".."
                                    /\ \/ d = Root /\ x[4] = Root
                                       \/ \E y \in named : y[4] = d /\ y[1] = x[4]

MapsOk(img) ==
    LET taken == Reserved \cup UNION {Claimed(VisitsOf(img, i)) : i \in Alloc(img)}
        used  == (0..(Root - 1)) \cup Alloc(img)
    IN  /\ img.cg.free = Frags \ taken
        /\ img.cg.used = used
        /\ img.cg.sum = Sums(Frags \ taken, used, Dirs(img))
        /\ img.cs = img.cg.sum /\ img.sb.tot = img.cg.sum

Consistent(img) == InodesOk(img) /\ OneOwner(img) /\ DirsOk(img) /\ MapsOk(img) /\ img.sb.minfree
=============================================================================
