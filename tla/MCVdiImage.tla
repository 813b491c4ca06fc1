----------------------------- MODULE MCVdiImage -----------------------------
(* VdiImage for TLC: the constants are given in the configuration files.    *)
EXTENDS VdiImage
=============================================================================
