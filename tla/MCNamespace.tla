---------------------------- MODULE MCNamespace ----------------------------
(* A directory block holds one name, so the second name of a directory     *)
(* makes it grow.  The large image has fragments for every inode and one   *)
(* to move a directory to, the small one for two owners only.  No call     *)
(* depends on what a name is: images alike up to their names are one.      *)
EXTENDS Namespace, TLC

MCInodes == 2..4
MCRuns == 1..4
MCImages == {1..2, 1..4}
Alike == Permutations(Names)
=============================================================================
