------------------------------- MODULE MCFsck -------------------------------
(***************************************************************************)
(* Fsck on an image of the size of the corpus' seed (tests/fsck/README.md) *)
(* a root, a lost+found, a file alpha, a directory and a file in it that   *)
(* reaches an indirect block, damaged once or twice.                       *)
(***************************************************************************)
EXTENDS Fsck

MCNFrags == 24
MCDirect == 3

LfIno == 3
DirIno == 4
Alpha == 5
File == 6

Ino(mode, nlink, size, db, ib, blocks) ==
    [mode |-> mode, nlink |-> nlink, size |-> size, db |-> db, ib |-> ib, blocks |-> blocks, fast |-> FALSE]
Dir3(a, b, c) == [kind |-> "dir", at |-> <<a, b, c>>]
Data(i, k)    == [kind |-> "data", of |-> <<i, k>>]
Zero          == [kind |-> "zero"]

SeedIno == [i \in Inos |->
    CASE i = Root   -> Ino("dir", 4, Block, <<6, 0, 0>>, 0, 2)
      [] i = LfIno  -> Ino("dir", 2, Block, <<8, 0, 0>>, 0, 2)
      [] i = DirIno -> Ino("dir", 2, Third, <<10, 0, 0>>, 0, 1)
      [] i = Alpha  -> Ino("file", 1, Third, <<12, 0, 0>>, 0, 1)
      [] i = File   -> Ino("file", 1, 3 * Block + Third, <<0, 14, 0>>, 16, 6)
      [] OTHER      -> ZeroIno]

SeedFrag == [f \in Frags |->
    CASE f = 6  -> Dir3(Rec(Root, ".", 1), Rec(Root, "..", 1), Rec(LfIno, "lost+found", 1))
      [] f = 7  -> Dir3(Rec(Alpha, "alpha", 1), Rec(DirIno, "dir", 2), Free(0))
      [] f = 8  -> DirHead(LfIno, Root)
      [] f = 9  -> EmptyDir
      [] f = 10 -> Dir3(Rec(DirIno, ".", 1), Rec(Root, "..", 1), Rec(File, "file", 1))
      [] f = 12 -> Data(Alpha, 1)
      [] f \in {14, 15} -> Data(File, f)
      [] f = 16 -> [kind |-> "ind", addr |-> <<18, 0>>]
      [] f \in {18, 19} -> Data(File, f)
      [] OTHER -> Zero]

SeedTaken == Reserved \cup {6, 7, 8, 9, 10, 12} \cup (14..19)
SeedUsed  == 0..File
SeedSums  == Sums(Frags \ SeedTaken, SeedUsed, {Root, LfIno, DirIno})
Seed == [ino |-> SeedIno, frag |-> SeedFrag, cs |-> SeedSums,
         cg |-> [free |-> Frags \ SeedTaken, used |-> SeedUsed, sum |-> SeedSums],
         sb |-> [tot |-> SeedSums, clean |-> TRUE, minfree |-> TRUE]]

\* The corpus' cases and a few of their kind.
Damage(c, g) ==
    CASE c = "none"                 -> g
      [] c = "bad-block-count"      -> [g EXCEPT !.ino[Alpha].blocks = 7]
      [] c = "bad-dot-inode"        -> [g EXCEPT !.frag[10].at[1].ino = Alpha]
      [] c = "bad-dotdot-inode"     -> [g EXCEPT !.frag[10].at[2].ino = LfIno]
      [] c = "bad-file-type"        -> [g EXCEPT !.ino[Alpha].mode = "odd"]
      [] c = "mode-ifmt"            -> [g EXCEPT !.ino[Alpha].mode = "fmt"]
      [] c = "cg-bitmap-bad"        -> [g EXCEPT !.cg.free = @ \cup {12}]
      [] c = "cg-summary-bad"       -> [g EXCEPT !.cg.sum.nbfree = @ + 1]
      [] c = "super-cstotal-bad"    -> [g EXCEPT !.sb.tot.nffree = @ + 1]
      [] c = "super-free-counts"    -> [g EXCEPT !.cs.ndir = @ + 1]
      [] c = "super-minfree"        -> [g EXCEPT !.sb.minfree = FALSE]
      [] c = "not-clean"            -> [g EXCEPT !.sb.clean = FALSE]
      [] c = "out-of-range-block"   -> [g EXCEPT !.ino[Alpha].db[1] = MCNFrags + 3]
      [] c = "stray-address"        -> [g EXCEPT !.ino[Alpha].db[3] = 14]
      [] c = "dir-entry-unallocated"-> [g EXCEPT !.ino[File] = ZeroIno]
      [] c = "dup-block"            -> [g EXCEPT !.ino[File].db[2] = 12]
      [] c = "extra-dot"            -> [g EXCEPT !.frag[7].at[1].name = "."]
      [] c = "extra-dotdot"         -> [g EXCEPT !.frag[7].at[1].name = ".."]
      [] c = "extraneous-dir-link"  -> [g EXCEPT !.frag[7].at[1].ino = DirIno]
      [] c = "invalid-dir-inode"    -> [g EXCEPT !.frag[10].at[3].ino = IMax + 1]
      [] c = "lostfound-missing"    -> [g EXCEPT !.frag[6].at[3].ino = 0]
      [] c = "lostfound-not-dir"    -> [g EXCEPT !.ino[LfIno].mode = "file"]
      [] c = "missing-dot"          -> [g EXCEPT !.frag[10].at[1].ino = 0]
      [] c = "missing-dotdot"       -> [g EXCEPT !.frag[10].at[2].ino = 0]
      [] c = "junk-dotdot"          -> [g EXCEPT !.frag[10].at[2].name = "junk"]
      [] c = "junk-block"           -> [g EXCEPT !.frag[10] = Zero]
      [] c = "junk-entry"           -> [g EXCEPT !.frag[7].at[2].name = "junk"]
      [] c = "misaligned-dir-size"  -> [g EXCEPT !.ino[DirIno].size = 2]
      [] c = "short-dir"            -> [g EXCEPT !.ino[DirIno].size = 1]
      [] c = "zero-length-dir"      -> [g EXCEPT !.ino[DirIno].size = 0, !.ino[DirIno].db[1] = 0]
      [] c = "zero-length-root"     -> [g EXCEPT !.ino[Root].size = 0, !.ino[Root].db[1] = 0]
      [] c = "partial-indirect"     -> [g EXCEPT !.frag[16].addr = <<18, 20>>]
      [] c = "partially-allocated"  -> [g EXCEPT !.ino[7].size = Third]
      [] c = "root-not-dir"         -> [g EXCEPT !.ino[Root].mode = "file"]
      [] c = "root-unallocated"     -> [g EXCEPT !.ino[Root] = ZeroIno]
      [] c = "unreferenced-alpha"   -> [g EXCEPT !.frag[7].at[1].ino = 0]
      [] c = "unreferenced-dir"     -> [g EXCEPT !.frag[7].at[2].ino = 0]
      [] c = "link-count"           -> [g EXCEPT !.ino[Alpha].nlink = 2]
      [] c = "no-links"             -> [g EXCEPT !.ino[Alpha].nlink = 0]
      [] c = "fast-file"            -> [g EXCEPT !.ino[Alpha].fast = TRUE]

Cases == {
    "none", "bad-block-count", "bad-dot-inode", "bad-dotdot-inode", "bad-file-type", "mode-ifmt",
    "cg-bitmap-bad", "cg-summary-bad", "super-cstotal-bad", "super-free-counts", "super-minfree",
    "not-clean", "out-of-range-block", "stray-address", "dir-entry-unallocated", "dup-block",
    "extra-dot", "extra-dotdot", "extraneous-dir-link", "invalid-dir-inode", "lostfound-missing",
    "lostfound-not-dir", "missing-dot", "missing-dotdot", "junk-dotdot", "junk-block", "junk-entry",
    "misaligned-dir-size", "short-dir", "zero-length-dir", "zero-length-root", "partial-indirect",
    "partially-allocated", "root-not-dir", "root-unallocated", "unreferenced-alpha",
    "unreferenced-dir", "link-count", "no-links", "fast-file"}

\* The damage that moves inodes and names about, for two at a time.
Grave == {
    "bad-dotdot-inode", "dup-block", "extraneous-dir-link", "lostfound-missing", "lostfound-not-dir",
    "missing-dot", "junk-dotdot", "junk-block", "junk-entry", "short-dir", "zero-length-dir",
    "root-not-dir", "root-unallocated", "unreferenced-alpha", "unreferenced-dir", "link-count",
    "no-links", "partial-indirect"}

Found(img, mode, n) == [img |-> img, mode |-> mode, cuts |-> n]
Once  == {Found(Damage(c, Seed), mode, 0) : c \in Cases, mode \in Modes}
Twice == {Found(Damage(c, Damage(d, Seed)), "y", 0) : c \in Grave, d \in Grave}
Cut   == {Found(Damage(c, Seed), "y", 1) : c \in Cases}
MCSeeds == Once \cup Twice \cup Cut

\* FairSpec without ENABLED: Work can be taken until the run is quiet (the model
\* does not deadlock before), and is what leaves `cuts` alone.
MCFairSpec == Spec /\ ([]<>(pc = "quiet") \/ []<><<cuts' = cuts>>_vars)
=============================================================================
