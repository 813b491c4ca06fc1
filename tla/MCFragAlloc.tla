---------------------------- MODULE MCFragAlloc ----------------------------
(***************************************************************************)
(* Instances of FragAlloc for TLC: two groups of two blocks, metadata at   *)
(* the front of each group, the last group ending partway through a block. *)
(***************************************************************************)
EXTENDS FragAlloc

MCCyls == {0, 1}
MCCylOf == [b \in 0..(BlocksPerGroup - 1) |-> IF b = 0 THEN 0 ELSE 1]

\* The last group ends one fragment short of its last block's end.
MCNdBlk ==
    [g \in 0..(NumGroups - 1) |-> IF g = NumGroups - 1
                                  THEN BlocksPerGroup * FragsPerBlock - 1
                                  ELSE BlocksPerGroup * FragsPerBlock]

\* Group 0 keeps its first block for metadata but for one fragment; the other
\* groups keep one fragment.
MCMeta ==
    [g \in 0..(NumGroups - 1) |->
       [b \in 0..(BlocksPerGroup - 1) |->
          IF b # 0 THEN {} ELSE IF g = 0 THEN 0..(FragsPerBlock - 2) ELSE {0}]]
=============================================================================
