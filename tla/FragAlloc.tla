----------------------------- MODULE FragAlloc -----------------------------
(***************************************************************************)
(* The fragment allocator of src/core/alloc.c over all cylinder groups,    *)
(* with the copies of the counters that update_summary_counts              *)
(* (src/core/layout.c) keeps in the superblock and in the summary table.   *)
(*                                                                         *)
(* A handler reads one group block, changes it and writes it back, then    *)
(* writes the superblock totals, then the group's summary entry.  Each of  *)
(* the last two writes can fail; the handler returns the error at once and *)
(* leaves what it already wrote.  (A failing read, or a failing write of   *)
(* the group block itself, leaves the image as it was: no step here.)      *)
(*                                                                         *)
(* The callers (files, directories, indirect blocks, resize) are seen      *)
(* through the set of runs they hold: they extend, move and free only runs *)
(* they were given.  A run that is free again although its holder goes on  *)
(* naming it is stale; what a later call makes of that holder is not       *)
(* followed, everyone else's calls are.                                    *)
(***************************************************************************)
EXTENDS CylGroup

CONSTANTS
    NumGroups,   \* fs_ncg
    NdBlk,       \* NdBlk[g]: cg_ndblk, the fragments group g really has
    Meta,        \* Meta[g][b]: offsets mkimg reserves for metadata
    MaxErrors    \* bound on failing writes

Groups == 0..(NumGroups - 1)

\* The number of fragments of block b that exist (end - local_frag in the
\* code): the last group may end partway through a block.
BlockLen(g, b) ==
    LET left == NdBlk[g] - b * FragsPerBlock
    IN  IF left >= FragsPerBlock THEN FragsPerBlock
        ELSE IF left > 0 THEN left ELSE 0

ASSUME GroupsAssumption ==
    /\ NumGroups \in Nat \ {0}
    /\ NdBlk \in [Groups -> Nat]
    /\ Meta \in [Groups -> [Blocks -> SUBSET Offsets]]
    /\ \A g \in Groups, b \in Blocks : Meta[g][b] \subseteq Run(0, BlockLen(g, b))
    /\ MaxErrors \in Nat

VARIABLES
    cg,       \* cg[g]: the group block on disk
    csum,     \* csum[g]: entry g of the summary table
    sb,       \* fs_cstotal in the superblock
    runs,     \* the runs the callers hold
    lost,     \* runs taken from the free map that no caller was told of
    stale,    \* runs given back that an inode goes on naming
    errors    \* writes that failed so far

vars == <<cg, csum, sb, runs, lost, stale, errors>>

RunRecord == [cg : Groups, blk : Blocks, start : Offsets, len : 1..FragsPerBlock]
Counts == [nbfree : Int, nffree : Int]

RunFrags(r) == Run(r.start, r.len)

TypeOK ==
    /\ cg \in [Groups -> GroupRecord]
    /\ csum \in [Groups -> Counts]
    /\ sb \in Counts
    /\ runs \subseteq RunRecord
    /\ lost \subseteq RunRecord
    /\ stale \subseteq RunRecord
    /\ errors \in 0..MaxErrors

\* The image mkimg wrote: everything but the metadata is free.
FreshMap(g) == [b \in Blocks |-> Run(0, BlockLen(g, b)) \ Meta[g][b]]

TotalWhole == {p \in Groups \X Blocks : p[2] \in WholeBlocks(cg[p[1]].free)}
TotalPartial ==
    {p \in Groups \X (Blocks \X Offsets) : p[2] \in PartialFrags(cg[p[1]].free)}

Init ==
    /\ cg = [g \in Groups |-> FreshGroup(FreshMap(g))]
    /\ csum = [g \in Groups |-> [nbfree |-> cg[g].nbfree, nffree |-> cg[g].nffree]]
    /\ sb = [nbfree |-> Cardinality(TotalWhole), nffree |-> Cardinality(TotalPartial)]
    /\ runs = {}
    /\ lost = {}
    /\ stale = {}
    /\ errors = 0

-----------------------------------------------------------------------------
(***************************************************************************)
(* Where a run of n fragments is taken from.                               *)
(***************************************************************************)

\* Mutant: fragments are only looked for while a whole block is free.
PartialSpotNeedsBlock(g, n, b, o) ==
    /\ n < FragsPerBlock
    /\ cg[g].nbfree # 0
    /\ cg[g].nffree >= n
    /\ cg[g].free[b] # Offsets
    /\ o + n <= BlockLen(g, b)
    /\ Run(o, n) \subseteq cg[g].free[b]

\* First loop of allocate_frags_in_group, entered on the strength of nffree.
PartialSpot(g, n, b, o) ==
    /\ n < FragsPerBlock
    /\ cg[g].nffree >= n
    /\ cg[g].free[b] # Offsets
    /\ o + n <= BlockLen(g, b)
    /\ Run(o, n) \subseteq cg[g].free[b]

\* Second loop, entered on the strength of nbfree.
WholeSpot(g, b) ==
    /\ cg[g].nbfree # 0
    /\ BlockLen(g, b) = FragsPerBlock
    /\ cg[g].free[b] = Offsets

HasPartial(g, n) == \E b \in Blocks, o \in Offsets : PartialSpot(g, n, b, o)
HasWhole(g)      == \E b \in Blocks : WholeSpot(g, b)
HasRoom(g, n)    == HasPartial(g, n) \/ HasWhole(g)

\* allocate_frags_anycg visits the groups cyclically from the preferred one
\* and stops at the first that does not answer ENOSPC.
Visits(pref, g) == (g - pref) % NumGroups
PickedGroup(pref, n, g) ==
    /\ HasRoom(g, n)
    /\ \A h \in Groups : HasRoom(h, n) => Visits(pref, g) <= Visits(pref, h)

\* allocate_frags_in_group scans upwards and takes the first run that fits.
FirstPartial(g, n, b, o) ==
    /\ PartialSpot(g, n, b, o)
    /\ \A b2 \in Blocks, o2 \in Offsets :
         PartialSpot(g, n, b2, o2) => b < b2 \/ (b = b2 /\ o <= o2)
\* Mutant: a whole block is split although a broken one would do.
FirstWholeEager(g, n, b) ==
    /\ WholeSpot(g, b)
    /\ \A b2 \in Blocks : WholeSpot(g, b2) => b <= b2
FirstWhole(g, n, b) ==
    /\ ~HasPartial(g, n)
    /\ WholeSpot(g, b)
    /\ \A b2 \in Blocks : WholeSpot(g, b2) => b <= b2

\* The run allocate_frags_anycg finds, how the group block is rewritten for it
\* and by how much the summary counts change.
Found(pref, n, r) ==
    /\ r.len = n
    /\ PickedGroup(pref, n, r.cg)
    /\ \/ FirstPartial(r.cg, n, r.blk, r.start)
       \/ FirstWhole(r.cg, n, r.blk) /\ r.start = 0
Splits(r) == cg[r.cg].free[r.blk] = Offsets
Taken(r) == IF Splits(r) THEN TakeWhole(cg[r.cg], r.blk, r.len)
                         ELSE TakePartial(cg[r.cg], r.blk, r.start, r.len)
TakenDelta(r) == IF Splits(r) THEN [nbfree |-> -1, nffree |-> FragsPerBlock - r.len]
                              ELSE [nbfree |-> 0, nffree |-> -r.len]

\* The same for giving a run back to the group record c.
Returned(c, r) == GiveBack(c, r.blk, r.start, r.len)
\* Mutant: the summaries are not told that the block became whole.
ReturnedDeltaNoFold(c, r) == [nbfree |-> 0, nffree |-> r.len]
ReturnedDelta(c, r) ==
    IF c.free[r.blk] \cup RunFrags(r) = Offsets
    THEN [nbfree |-> 1, nffree |-> r.len - FragsPerBlock]
    ELSE [nbfree |-> 0, nffree |-> r.len]

-----------------------------------------------------------------------------
(***************************************************************************)
(* Writing: io names the summary write that fails, if any.                 *)
(***************************************************************************)
IO == {"ok", "sb", "csum"}

AddCounts(x, d) == [nbfree |-> x.nbfree + d.nbfree, nffree |-> x.nffree + d.nffree]

\* nextufs__update_summary_counts: superblock totals first, then the entry.
UpdateSummary(g, d, io) ==
    /\ io # "ok" => errors < MaxErrors
    /\ sb' = IF io = "sb" THEN sb ELSE AddCounts(sb, d)
    /\ csum' = IF io = "ok" THEN [csum EXCEPT ![g] = AddCounts(csum[g], d)] ELSE csum
    /\ errors' = IF io = "ok" THEN errors ELSE errors + 1

\* nextufs__allocate_frags_anycg, allocate_full_block_anycg.  With no room in
\* any group the answer is ENOSPC and nothing is written.
AllocateFrags(pref, n, io) ==
    \E r \in RunRecord :
        /\ Found(pref, n, r)
        /\ cg' = [cg EXCEPT ![r.cg] = Taken(r)]
        /\ UpdateSummary(r.cg, TakenDelta(r), io)
        /\ IF io = "ok"
           THEN runs' = runs \cup {r} /\ UNCHANGED lost
           ELSE lost' = lost \cup {r} /\ UNCHANGED runs
        /\ UNCHANGED stale

\* Mutant: the fragments behind the run are taken without looking at the map.
CanExtendBlindly(r, new) == r.start + new <= FragsPerBlock

\* nextufs__extend_fragment_run succeeds in place when the run stays in its
\* block and the fragments behind it are free; otherwise ENOSPC.
CanExtend(r, new) ==
    /\ r.start + new <= FragsPerBlock
    /\ Run(r.start + r.len, new - r.len) \subseteq cg[r.cg].free[r.blk]

\* The fragments an extension adds, and the extended run.
Added(r, new) ==
    [cg |-> r.cg, blk |-> r.blk, start |-> r.start + r.len, len |-> new - r.len]
Extended(r, new) == [cg |-> r.cg, blk |-> r.blk, start |-> r.start, len |-> new]

ExtendFragmentRun(r, new, io) ==
    LET a == Added(r, new)
    IN  /\ new > r.len
        /\ CanExtend(r, new)
        /\ cg' = [cg EXCEPT ![r.cg] = TakePartial(cg[r.cg], r.blk, a.start, a.len)]
        /\ UpdateSummary(r.cg, [nbfree |-> 0, nffree |-> -a.len], io)
        /\ IF io = "ok"
           THEN runs' = (runs \ {r}) \cup {Extended(r, new)} /\ UNCHANGED lost
           ELSE lost' = lost \cup {a} /\ UNCHANGED runs
        /\ UNCHANGED stale

\* nextufs__free_fragment_run refuses (EINVAL) a run with a bit already free.
\* When a summary write fails the run is free and the caller is told it is not:
\* the new contents of a file or a moved run are in the inode by then, but an
\* inode that is being removed keeps naming the run (free_file_storage returns
\* before it is cleared).
FreeFragmentRun(r, io) ==
    /\ RunFrags(r) \cap cg[r.cg].free[r.blk] = {}
    /\ cg' = [cg EXCEPT ![r.cg] = Returned(cg[r.cg], r)]
    /\ UpdateSummary(r.cg, ReturnedDelta(cg[r.cg], r), io)
    /\ runs' = runs \ {r}
    /\ stale' = stale \/ (io # "ok" /\ stale' = stale \cup {r})
    /\ UNCHANGED lost

\* nextufs__reallocate_fragment_run, called when extending answered ENOSPC:
\* take a longer run, copy, then give the old one back.  When the first half
\* fails this is AllocateFrags with a failing write.  "data": the copy or the
\* old run's group block is not written; the caller keeps the old run and never
\* learns the new address.  "sb", "csum": the old run is free again, but the
\* new address is not returned either, and grow_directory_by_dirblk leaves the
\* old one in the directory.
ReallocateFragmentRun(r, new, pref, io) ==
    /\ new > r.len
    /\ ~CanExtend(r, new)
    /\ RunFrags(r) \cap cg[r.cg].free[r.blk] = {}
    /\ io # "ok" => errors < MaxErrors
    /\ errors' = IF io = "ok" THEN errors ELSE errors + 1
    /\ \E s \in RunRecord :
         LET taken == [cg EXCEPT ![s.cg] = Taken(s)]
             sb1   == AddCounts(sb, TakenDelta(s))
             csum1 == [csum EXCEPT ![s.cg] = AddCounts(csum[s.cg], TakenDelta(s))]
             back  == ReturnedDelta(taken[r.cg], r)
         IN  /\ Found(pref, new, s)
             /\ cg' = IF io = "data" THEN taken
                      ELSE [taken EXCEPT ![r.cg] = Returned(taken[r.cg], r)]
             /\ sb' = IF io \in {"data", "sb"} THEN sb1 ELSE AddCounts(sb1, back)
             /\ csum' = IF io # "ok" THEN csum1
                        ELSE [csum1 EXCEPT ![r.cg] = AddCounts(csum1[r.cg], back)]
             /\ runs' = CASE io = "ok"   -> (runs \ {r}) \cup {s}
                          [] io = "data" -> runs
                          [] OTHER       -> runs \ {r}
             /\ stale' = IF io \in {"sb", "csum"} THEN stale \cup {r} ELSE stale
             /\ IF io = "ok" THEN UNCHANGED lost ELSE lost' = lost \cup {s}

Next ==
    \/ \E pref \in Groups, n \in 1..FragsPerBlock, io \in IO : AllocateFrags(pref, n, io)
    \/ \E r \in runs, new \in 1..FragsPerBlock, io \in IO : ExtendFragmentRun(r, new, io)
    \/ \E r \in runs, io \in IO : FreeFragmentRun(r, io)
    \/ \E r \in runs, new \in 1..FragsPerBlock, pref \in Groups, io \in IO \cup {"data"} :
          ReallocateFragmentRun(r, new, pref, io)

Spec == Init /\ [][Next]_vars

-----------------------------------------------------------------------------
(***************************************************************************)
(* Properties.                                                             *)
(***************************************************************************)

\* In every group block the free-block and free-fragment counts, the histogram
\* of free runs and the per-cylinder counts agree with the free map, whatever
\* sequence of allocate, extend, free and reallocate calls led here and
\* whichever summary writes failed (alloc.c updates all of them by deltas).
GroupsConsistent == \A g \in Groups : GroupOk(cg[g])

\* As long as no write has failed, the summary table and the
\* superblock totals agree with the group blocks: update_summary_counts is
\* given the same deltas as the group block.
SummariesConsistent ==
    errors = 0 =>
        /\ \A g \in Groups : /\ csum[g].nbfree = cg[g].nbfree
                             /\ csum[g].nffree = cg[g].nffree
        /\ sb.nbfree = Cardinality(TotalWhole)
        /\ sb.nffree = Cardinality(TotalPartial)

\* A fragment has one holder: no two runs overlap, and none overlaps the free
\* map, the metadata or the fragments a failed call lost.  The exception is a
\* run given back by a call that then failed to write a summary, whose holder
\* goes on naming it (dir_mutate.c:91, mutate.c:186): its fragments are free or
\* another's.  It takes a failed write for each of them, and none is metadata.
NoDoubleAllocation ==
    /\ runs \cap lost = {}
    /\ \A r, s \in runs \cup lost :
         r # s /\ r.cg = s.cg /\ r.blk = s.blk => RunFrags(r) \cap RunFrags(s) = {}
    /\ \A r \in runs \cup lost :
         RunFrags(r) \cap (cg[r.cg].free[r.blk] \cup Meta[r.cg][r.blk]) = {}
    /\ \A g \in Groups, b \in Blocks : cg[g].free[b] \cap Meta[g][b] = {}
    /\ Cardinality(stale) <= errors
    /\ \A t \in stale : RunFrags(t) \cap Meta[t.cg][t.blk] = {}

\* Every fragment of the group is accounted for: what is neither free nor
\* metadata is held by a caller or was lost by a call that failed.
NothingUnaccounted ==
    \A g \in Groups, b \in Blocks :
        Run(0, BlockLen(g, b)) =
            cg[g].free[b] \cup Meta[g][b]
              \cup UNION {RunFrags(r) : r \in {q \in runs \cup lost : q.cg = g /\ q.blk = b}}

\* ENOSPC is truthful: a request fails exactly when no block of any group has
\* n free fragments in a row.  The search trusts cs_nffree and cs_nbfree before
\* it looks at the map, so a wrong counter would hide space (alloc.c:250).
NoFalseENOSPC ==
    \A n \in 1..FragsPerBlock :
        (\E g \in Groups : HasRoom(g, n))
          <=> \E g \in Groups, b \in Blocks, o \in Offsets : Run(o, n) \subseteq cg[g].free[b]

\* When every caller has given its runs back the groups and the summaries are
\* what mkimg wrote, as the fragment test expects after unlinking every file.
FreeingAllRestores ==
    runs = {} /\ errors = 0 =>
        \A g \in Groups : /\ cg[g] = FreshGroup(FreshMap(g))
                          /\ csum[g] = [nbfree |-> cg[g].nbfree, nffree |-> cg[g].nffree]

\* A whole block is broken up for a short run only when no block that is
\* already broken up in that group could hold the run (alloc.c:250).
SplitOnlyWhenNeeded ==
    \A g \in Groups, b \in Blocks : \A r \in runs' \ runs :
        (/\ r.cg = g /\ r.blk = b
         /\ cg[g].free[b] = Offsets
         /\ r.len < FragsPerBlock)
        => \A b2 \in Blocks, o \in Offsets :
             cg[g].free[b2] # Offsets => ~(Run(o, r.len) \subseteq cg[g].free[b2])
PartialBeforeSplit == [][SplitOnlyWhenNeeded]_vars
=============================================================================
