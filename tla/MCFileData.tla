----------------------------- MODULE MCFileData -----------------------------
(* FileData for TLC: a write over the end of small files that leaves a gap   *)
(* behind the smallest, and lies inside the largest.  No file is special.     *)
EXTENDS FileData
MCWrites == {<<2, 15>>}
MCSymmetry == Permutations(Files)
=============================================================================
