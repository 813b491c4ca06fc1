------------------------------ MODULE CylGroup ------------------------------
(***************************************************************************)
(* The fragment half of one cylinder group block, as src/core/alloc.c      *)
(* reads and rewrites it: the free map and the counters kept beside it.    *)
(*                                                                         *)
(* A fragment number is local to the group and is written as a pair        *)
(* (block, offset): local_frag = block * FragsPerBlock + offset.  Every    *)
(* run the allocator hands out lies inside one block, so the pair is all   *)
(* the arithmetic the code does with the number.                           *)
(*                                                                         *)
(* The operators are pure: each takes the group record the code has read   *)
(* into its buffer and yields the one it writes back.                      *)
(***************************************************************************)
EXTENDS Integers, FiniteSets

CONSTANTS
    FragsPerBlock,   \* fs_frag
    BlocksPerGroup,  \* fs_fpg / fs_frag
    Cyls,            \* cylinders of a group, the index of cg_btot
    CylOf            \* CylOf[b]: the cylinder block b starts in

\* fs_frag is at most 8: the run counters are arrays of nine (alloc.c:258).
ASSUME GeometryAssumption ==
    /\ FragsPerBlock \in 1..8
    /\ BlocksPerGroup \in Nat \ {0}
    /\ CylOf \in [0..(BlocksPerGroup - 1) -> Cyls]

Offsets == 0..(FragsPerBlock - 1)
Blocks  == 0..(BlocksPerGroup - 1)
RunLens == 1..(FragsPerBlock - 1)    \* the lengths cg_frsum counts

\* The fragments of a run of n starting at offset o.
Run(o, n) == o..(o + n - 1)

\* nextufs__count_free_runs_in_block: where the maximal free runs of length k
\* of one block begin (counts[k] is how many there are).
FreeRuns(map, k) ==
    {o \in Offsets : /\ Run(o, k) \subseteq map
                     /\ o - 1 \notin map
                     /\ o + k \notin map}

\* What one group block holds.  The counters are unsigned words the code adds
\* signed deltas to; that they stay naturals is that none ever wraps.
GroupRecord == [free   : [Blocks -> SUBSET Offsets],  \* cg_free, a set bit is free
                nbfree : Nat,                         \* cg_cs.cs_nbfree
                nffree : Nat,                         \* cg_cs.cs_nffree
                frsum  : [RunLens -> Nat],            \* cg_frsum
                btot   : [Cyls -> Nat]]               \* cg_btot

-----------------------------------------------------------------------------
(***************************************************************************)
(* The updates.                                                            *)
(***************************************************************************)

\* Mutant: the runs that were there before are not subtracted.
FrsumOnlyAdded(frsum, before, after) ==
    [k \in RunLens |-> frsum[k] + Cardinality(FreeRuns(after, k))]

\* nextufs__apply_cg_frsum_delta: the block's free map goes from before to after.
FrsumDelta(frsum, before, after) ==
    [k \in RunLens |-> frsum[k] + Cardinality(FreeRuns(after, k))
                                - Cardinality(FreeRuns(before, k))]

\* Mutant: one fragment more than asked for is marked used.
TakePartialOneMore(c, b, o, n) ==
    LET after == c.free[b] \ Run(o, n + 1)
    IN  [free   |-> [c.free EXCEPT ![b] = after],
         nbfree |-> c.nbfree,
         nffree |-> c.nffree - n,
         frsum  |-> FrsumDelta(c.frsum, c.free[b], after),
         btot   |-> c.btot]

\* Take n fragments at offset o out of a block that is already broken up
\* (the first loop of allocate_frags_in_group, and extend_fragment_run).
TakePartial(c, b, o, n) ==
    LET after == c.free[b] \ Run(o, n)
    IN  [free   |-> [c.free EXCEPT ![b] = after],
         nbfree |-> c.nbfree,
         nffree |-> c.nffree - n,
         frsum  |-> FrsumDelta(c.frsum, c.free[b], after),
         btot   |-> c.btot]

\* Mutant: the rest of the split block is not added to the free fragments.
TakeWholeForgetsRest(c, b, n) ==
    [free   |-> [c.free EXCEPT ![b] = c.free[b] \ Run(0, n)],
     nbfree |-> c.nbfree - 1,
     nffree |-> c.nffree,
     frsum  |-> [k \in RunLens |-> IF k = FragsPerBlock - n THEN c.frsum[k] + 1
                                                            ELSE c.frsum[k]],
     btot   |-> [c.btot EXCEPT ![CylOf[b]] = c.btot[CylOf[b]] - 1]]

\* Take the first n fragments of a wholly free block; the rest becomes one
\* free run (the second loop of allocate_frags_in_group).  cg_bpos is cg_btot
\* by rotational position and moves with it; cg_rotor is written, never read.
\* The code counts at most 32 cylinders, all that a group of mkimg's has.
TakeWhole(c, b, n) ==
    LET rest == FragsPerBlock - n
    IN  [free   |-> [c.free EXCEPT ![b] = c.free[b] \ Run(0, n)],
         nbfree |-> c.nbfree - 1,
         nffree |-> c.nffree + rest,
         frsum  |-> [k \in RunLens |-> IF k = rest THEN c.frsum[k] + 1
                                                   ELSE c.frsum[k]],
         btot   |-> [c.btot EXCEPT ![CylOf[b]] = c.btot[CylOf[b]] - 1]]

\* Mutant: a block that has become whole is still counted as fragments.
GiveBackNeverFolds(c, b, o, n) ==
    LET after == c.free[b] \cup Run(o, n)
    IN  [free   |-> [c.free EXCEPT ![b] = after],
         nbfree |-> c.nbfree,
         nffree |-> c.nffree + n,
         frsum  |-> FrsumDelta(c.frsum, c.free[b], after),
         btot   |-> c.btot]

\* free_fragment_run: give n fragments back, folding a block that has become
\* wholly free into the block counters.
GiveBack(c, b, o, n) ==
    LET after == c.free[b] \cup Run(o, n)
        whole == after = Offsets
    IN  [free   |-> [c.free EXCEPT ![b] = after],
         nbfree |-> IF whole THEN c.nbfree + 1 ELSE c.nbfree,
         nffree |-> IF whole THEN c.nffree + n - FragsPerBlock ELSE c.nffree + n,
         frsum  |-> FrsumDelta(c.frsum, c.free[b], after),
         btot   |-> IF whole
                    THEN [c.btot EXCEPT ![CylOf[b]] = c.btot[CylOf[b]] + 1]
                    ELSE c.btot]

-----------------------------------------------------------------------------
(***************************************************************************)
(* What the counters stand for, computed from the free map alone.          *)
(***************************************************************************)

WholeBlocks(free) == {b \in Blocks : free[b] = Offsets}

PartialFrags(free) ==
    {p \in Blocks \X Offsets : p[2] \in free[p[1]] /\ free[p[1]] # Offsets}

RunStarts(free, k) == {p \in Blocks \X Offsets : p[2] \in FreeRuns(free[p[1]], k)}

\* Every counter of the group equals what its free map says: the comparison
\* fsck makes in pass 5.
GroupOk(c) ==
    /\ c.nbfree = Cardinality(WholeBlocks(c.free))
    /\ c.nffree = Cardinality(PartialFrags(c.free))
    /\ \A k \in RunLens : c.frsum[k] = Cardinality(RunStarts(c.free, k))
    /\ \A y \in Cyls :
         c.btot[y] = Cardinality({b \in WholeBlocks(c.free) : CylOf[b] = y})

\* The group record a freshly written free map has.
FreshGroup(free) ==
    [free   |-> free,
     nbfree |-> Cardinality(WholeBlocks(free)),
     nffree |-> Cardinality(PartialFrags(free)),
     frsum  |-> [k \in RunLens |-> Cardinality(RunStarts(free, k))],
     btot   |-> [y \in Cyls |->
                   Cardinality({b \in WholeBlocks(free) : CylOf[b] = y})]]
=============================================================================
