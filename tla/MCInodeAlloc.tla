---------------------------- MODULE MCInodeAlloc ----------------------------
(* InodeAlloc for TLC: the constants are given in the configuration files. *)
EXTENDS InodeAlloc
=============================================================================
