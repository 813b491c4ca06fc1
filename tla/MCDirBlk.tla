----------------------------- MODULE MCDirBlk -----------------------------
(* Blocks of 72 bytes: two names of 24 bytes fill what the dots leave of   *)
(* the first, three fill the second, and the short name fits where a long  *)
(* one left a hole.                                                        *)
EXTENDS DirBlk

MCNames == {"a", "b", "c", "d", "e"}
MCNameLen == [n \in MCNames |-> IF n = "e" THEN 3 ELSE 15]
=============================================================================
