------------------------------- MODULE Format -------------------------------
(***************************************************************************)
(* What mkimg writes (src/mkimg_format): the geometry nextufs_format works *)
(* out from the requested size, the cylinder groups initcg makes of it and *)
(* the two directories fsinit puts into the first one.  resize grow        *)
(* (module Lifecycle) keeps the same layout, so it uses these operators.   *)
(*                                                                         *)
(* The unit of the disk options is the 1K sector (DEV_BSIZE).  One         *)
(* instance has one geometry and every size; the constants the source      *)
(* fixes (BBSIZE, MAXIPG, ...) are parameters, so that a group of a few    *)
(* blocks exercises the arithmetic of one of eight megabytes.              *)
(***************************************************************************)
EXTENDS CylGroup, FiniteSetsExt

CONSTANTS
    Nsect, Ntrak,        \* sectors a track, tracks a cylinder
    Bsize, Fsize,        \* fs_bsize, fs_fsize
    CpgOption, Nbpi,     \* opts->cpg (0: work it out), opts->nbpi
    BBSize, SBSize,      \* BBSIZE, SBSIZE
    Inopb, FragBytes,    \* inodes a block; fs_fsize in the unit of nbpi
    CsumsPerFrag,        \* fs_fsize / sizeof(struct csum)
    MaxCpg, MaxIpg, MaxBpg, MaxFrag, DesCpg, MinBsize

HowMany(a, b) == (a + b - 1) \div b
RoundUp(a, b) == HowMany(a, b) * b
PowerOf2(n)   == \E k \in 0..20 : n = 2 ^ k

-----------------------------------------------------------------------------
(***************************************************************************)
(* The part of the layout the size has no say in.                          *)
(***************************************************************************)
Spc      == Ntrak * Nsect
SbNo     == RoundUp(HowMany(BBSize + SBSize, Fsize), FragsPerBlock)
CbNo     == SbNo + RoundUp(HowMany(SBSize, Fsize), FragsPerBlock)
IbNo     == CbNo + FragsPerBlock
CgOffset == RoundUp(HowMany(Nsect, Fsize), FragsPerBlock)
Inopf    == Inopb \div FragsPerBlock

\* ~fs_cgmask + 1: the groups are shifted against each other in turns of the
\* least power of two that is not below the number of tracks.
Stagger  == Min({2 ^ k : k \in {k \in 0..8 : 2 ^ k >= Ntrak}})

\* The cylinders after which block and cylinder boundaries meet again.
Cpc      == Min({Bsize \div (2 ^ k) : k \in {k \in 0..8 : /\ Spc % (2 ^ k) = 0
                                                        /\ 2 ^ k <= Bsize}})
GroupFrags(cpg) == (cpg * Spc) \div Fsize

\* The default is cut down in steps of Cpc until the group block has room for
\* the map; an explicit number is taken as it is.
Cpg == IF CpgOption > 0 THEN CpgOption
       ELSE LET top  == Max({Cpc, DesCpg})
                fits == {c \in 1..top : /\ (top - c) % Cpc = 0
                                        /\ \/ GroupFrags(c) \div FragsPerBlock <= MaxBpg
                                           \/ c <= Cpc}
            IN  Max(fits)
Fpg == GroupFrags(Cpg)

\* What nextufs_format refuses whatever the size.
OptionsAccepted ==
    /\ Ntrak > 0 /\ Nsect > 0
    /\ PowerOf2(Bsize) /\ PowerOf2(Fsize)
    /\ Fsize >= 1 /\ Bsize >= MinBsize /\ Bsize >= Fsize
    /\ Bsize \div Fsize <= MaxFrag
    /\ Cpc <= MaxCpg /\ Cpg \in 1..MaxCpg /\ Cpg % Cpc = 0
    /\ Spc <= MaxBpg * Bsize
    /\ Fpg <= MaxBpg * FragsPerBlock
    /\ (Spc * Cpg) % Fsize = 0

\* The constants of CylGroup are this geometry's.
ASSUME LayoutAssumption ==
    /\ FragsPerBlock = Bsize \div Fsize
    /\ BlocksPerGroup = Fpg \div FragsPerBlock
    /\ \A b \in Blocks : CylOf[b] = (b * FragsPerBlock * Fsize) \div Spc

CgStart(c)  == c * Fpg + CgOffset * (c % Stagger)
DLower(c)   == CgStart(c) + SbNo - c * Fpg          \* local to the group
DUpper(c, ipg) == CgStart(c) + IbNo + ipg \div Inopf - c * Fpg
CsAddr(ipg) == DUpper(0, ipg)

-----------------------------------------------------------------------------
(***************************************************************************)
(* The part that depends on the size, in fragments.                        *)
(***************************************************************************)
Cylinders(size) == HowMany(size * Fsize, Spc)

InodesPerGroup(size, ncg) ==
    LET perGroup == IbNo + MaxIpg \div Inopf
        blocks   == Max({1, (((size - ncg * perGroup) * FragBytes) \div Nbpi) \div Inopb})
    IN  Min({MaxIpg, (blocks \div ncg + 1) * Inopb})

\* A last group that has no room for its own metadata is given up, and the
\* file system ends with the group before it.
LastTooSmall(size, ncg, ipg) ==
    LET left == size - (ncg - 1) * Fpg
    IN  left < Fpg /\ DUpper(ncg - 1, ipg) > left

Plan(sectors) ==
    LET size == sectors \div Fsize
        ncyl == Cylinders(size)
        ncg  == HowMany(ncyl, Cpg)
        ipg  == InodesPerGroup(size, ncg)
        cut  == LastTooSmall(size, ncg, ipg)
        kept == ncyl - (ncyl % Cpg)
    IN  [size |-> IF cut THEN (kept * Spc) \div Fsize ELSE size,
         ncyl |-> IF cut THEN kept ELSE ncyl,
         ncg  |-> IF cut THEN ncg - 1 ELSE ncg,
         ipg  |-> ipg]

\* The sizes nextufs_format formats.  (With no group left, iput finds no
\* cylinder group and aborts.)
PlanAccepted(sectors) ==
    /\ OptionsAccepted
    /\ sectors \div Fsize > 0
    /\ LET first == Plan(sectors)
           last  == Min({Stagger - 1, HowMany(Cylinders(sectors \div Fsize), Cpg) - 1})
       IN  DUpper(last, first.ipg) < Fpg /\ first.ncg > 0

CsFrags(ncg) == HowMany(ncg, CsumsPerFrag)
GroupSize(c, size) == Min({Fpg, size - c * Fpg})

-----------------------------------------------------------------------------
(***************************************************************************)
(* The groups.  A group block on disk holds the fragment half (CylGroup),  *)
(* its size, its cylinders and the inode counters.                         *)
(***************************************************************************)
Bits(frags) == [b \in Blocks |-> {o \in Offsets : b * FragsPerBlock + o \in frags}]

\* Mutant: a full last group gets all its cylinders.
CylinderCountFull(c, ncg, ncyl) ==
    IF c = ncg - 1 /\ ncyl % Cpg # 0 THEN ncyl % Cpg ELSE Cpg

\* cg_ncyl: a full last group gets zero.
CylinderCount(c, ncg, ncyl) == IF c = ncg - 1 THEN ncyl % Cpg ELSE Cpg

\* initcg: whole blocks are freed and counted one by one, then the fragments
\* between the metadata and the first block, then those of a partial tail.
InitCg(p, c) ==
    LET ndblk == GroupSize(c, p.size)
        upper == DUpper(c, p.ipg) + (IF c = 0 THEN CsFrags(p.ncg) ELSE 0)
        first == RoundUp(upper, FragsPerBlock)
        tail  == Max({first, ndblk - (ndblk % FragsPerBlock)})
        low   == IF c = 0 THEN {} ELSE 0..(DLower(c) \div FragsPerBlock - 1)
        whole == low \cup {b \in Blocks : /\ b * FragsPerBlock >= first
                                          /\ (b + 1) * FragsPerBlock <= ndblk}
        rest  == IF ndblk > tail THEN ndblk - tail ELSE 0
        part  == upper..(first - 1) \cup tail..(tail + rest - 1)
    IN  [frags |->
           [free   |-> [b \in Blocks |-> IF b \in whole THEN Offsets
                                         ELSE Bits(part)[b]],
            nbfree |-> Cardinality(whole),
            nffree |-> (first - upper) + rest,
            frsum  |-> [k \in RunLens |-> (IF k = first - upper THEN 1 ELSE 0)
                                        + (IF k = rest THEN 1 ELSE 0)],
            btot   |-> [y \in Cyls |-> Cardinality({b \in whole : CylOf[b] = y})]],
         ndblk  |-> ndblk,
         ncyl   |-> CylinderCount(c, p.ncg, p.ncyl),
         nifree |-> IF c = 0 THEN p.ipg - 2 ELSE p.ipg,
         ndir   |-> 0]

\* alloc and iput: a directory of n fragments at the first whole block of
\* group 0.  The rest of the block becomes free fragments.
FirstWholeBlock(gr) == Min(WholeBlocks(gr.frags.free))
MakeDir(gr, n) ==
    [gr EXCEPT !.frags  = TakeWhole(gr.frags, FirstWholeBlock(gr), n),
               !.ndir   = gr.ndir + 1,
               !.nifree = gr.nifree - 1]

\* fsinit: lost+found takes a block, the root directory a fragment.
LostFound == 3
Root      == 2
AfterLostFound(p) == MakeDir(InitCg(p, 0), FragsPerBlock)
FirstGroup(p)     == MakeDir(AfterLostFound(p), 1)
Directories(p) ==
    [ino \in {LostFound, Root} |->
       IF ino = LostFound
       THEN <<FirstWholeBlock(InitCg(p, 0)) * FragsPerBlock, FragsPerBlock>>
       ELSE <<FirstWholeBlock(AfterLostFound(p)) * FragsPerBlock, 1>>]

Formatted(p) ==
    [c \in 0..(p.ncg - 1) |-> IF c = 0 THEN FirstGroup(p) ELSE InitCg(p, c)]

\* Room for both directories.  Without it alloc answers 0 and fsinit does not
\* look: the directories are written over the boot block.
RoomForDirectories(p) == InitCg(p, 0).frags.nbfree >= 2

\* The fragments that are not metadata, fs_dsize.
DataFrags(p) ==
    MapThenSumSet(LAMBDA c : IF c = 0
                             THEN GroupSize(0, p.size) - DUpper(0, p.ipg) - CsFrags(p.ncg)
                             ELSE DLower(c) + GroupSize(c, p.size) - DUpper(c, p.ipg),
                  0..(p.ncg - 1))
=============================================================================
