----------------------------- MODULE Lifecycle -----------------------------
(***************************************************************************)
(* An image from mkimg to resize grow: src/commands/mkimg.c with the       *)
(* formatter (module Format), files that come and go between the commands, *)
(* and src/commands/resize.c, write by write.  A command can be cut short  *)
(* before any of its writes: the process is killed, or the write fails and *)
(* the command gives up; what was written stays.                           *)
(*                                                                         *)
(* A block address is a fragment number; (cg, blk, start) names the same   *)
(* fragment inside its group (module CylGroup).                            *)
(***************************************************************************)
EXTENDS Format, SequencesExt

CONSTANTS
    Sizes,        \* the sizes mkimg is asked for, in sectors
    Targets,      \* the sizes resize grow is asked for
    MaxGroups,    \* no size has more groups
    LabelCopies,  \* LABEL_COPY_COUNT
    Files,        \* inode numbers of the files
    Shapes,       \* the files that are made: [runs, far] lengths
    MaxCalls, MaxGrows, MaxCuts

VARIABLES
    disk,     \* what the image file holds
    run,      \* the command at work and what it has in memory
    past      \* how many commands ran, and how the last one ended

vars == <<disk, run, past>>

Groups == 0..(MaxGroups - 1)
None   == 0..-1

\* No magic number: zero groups, zero fragments in the group.
BlankSb == [size |-> 0, ncg |-> 0, ncyl |-> 0, ipg |-> 0, cs |-> 0, dsize |-> 0,
            nbfree |-> 0, nffree |-> 0, nifree |-> 0, ndir |-> 0]
BlankGroup ==
    [frags |-> FreshGroup([b \in Blocks |-> {}]), ndblk |-> 0, ncyl |-> 0,
     nifree |-> 0, ndir |-> 0]
BlankEntry == [nbfree |-> 0, nffree |-> 0, nifree |-> 0, ndir |-> 0]
Entry(gr) == [nbfree |-> gr.frags.nbfree, nffree |-> gr.frags.nffree,
              nifree |-> gr.nifree, ndir |-> gr.ndir]

\* A file: its direct runs <<fragment, length>>, the blocks its indirect roots
\* occupy, and the blocks only the indirect roots lead to.
Node == [runs : Seq(Nat \X (1..FragsPerBlock)), roots : Seq(Nat), far : Seq(Nat)]
RunFrags(r) == r[1]..(r[1] + r[2] - 1)
SeqRange(s) == {s[i] : i \in DOMAIN s}
OwnedBy(n) == UNION ({RunFrags(r) : r \in SeqRange(n.runs)}
                     \cup {RunFrags(<<b, FragsPerBlock>>) : b \in SeqRange(n.roots \o n.far)})

\* A fresh image file: mkimg creates it empty and extends it to its size.
BlankDisk == [len |-> 0, labels |-> <<>>, sb |-> BlankSb,
              copies |-> [c \in Groups |-> BlankSb],
              cg |-> [c \in Groups |-> BlankGroup],
              entries |-> [c \in Groups |-> BlankEntry],
              inodes |-> {},          \* groups whose inodes have been written
              node |-> [i \in None |-> 0],
              text |-> [x \in None |-> 0]]  \* what a fragment of a file holds

Idle == [pc |-> "idle"]
Init == /\ disk = BlankDisk
        /\ run = [pc |-> "blank"]
        /\ past = [calls |-> 0, grows |-> 0, cuts |-> 0, torn |-> FALSE,
                  last |-> "none"]

\* The frags of one group, and the block address of a place in it.
GroupOf(x) == x \div Fpg
Local(x)   == x % Fpg
Blk(x)     == Local(x) \div FragsPerBlock
Off(x)     == Local(x) % FragsPerBlock

-----------------------------------------------------------------------------
(***************************************************************************)
(* mkimg.                                                                  *)
(***************************************************************************)
\* nextufs_label_write_path: every copy describes one slice of this size.
Labels(size, labeled) == IF labeled THEN [i \in 1..LabelCopies |-> size] ELSE <<>>

\* The label is written before the file system.  Each group's inodes go
\* before its block; the superblock waits for the directories.
Mkimg(sectors, labeled) ==
    /\ run.pc = "blank"
    /\ PlanAccepted(sectors)
    /\ RoomForDirectories(Plan(sectors))
    /\ disk' = [BlankDisk EXCEPT
                  !.len = sectors \div Fsize,
                  !.labels = Labels(sectors \div Fsize, labeled)]
    /\ run' = [pc |-> "initcg", plan |-> Plan(sectors), c |-> 0]
    /\ past' = [past EXCEPT !.torn = FALSE]

InitGroup ==
    /\ run.pc = "initcg"
    /\ disk' = [disk EXCEPT !.inodes = @ \cup {run.c},
                            !.cg[run.c] = InitCg(run.plan, run.c)]
    /\ run' = IF run.c + 1 < run.plan.ncg THEN [run EXCEPT !.c = @ + 1]
                                          ELSE [run EXCEPT !.pc = "fsinit"]
    /\ UNCHANGED past

FsInit ==
    /\ run.pc = "fsinit"
    /\ LET dirs == Directories(run.plan)
       IN  disk' = [disk EXCEPT
                      !.cg[0] = FirstGroup(run.plan),
                      !.node = [i \in DOMAIN dirs |->
                                  [runs |-> <<dirs[i]>>, roots |-> <<>>, far |-> <<>>]],
                      !.text = [x \in UNION {RunFrags(dirs[i]) : i \in DOMAIN dirs} |->
                                  LET i == CHOOSE i \in DOMAIN dirs : x \in RunFrags(dirs[i])
                                  IN  <<i, 1, x - dirs[i][1]>>]]
    /\ run' = [run EXCEPT !.pc = "mksuper"]
    /\ UNCHANGED past

\* sblock as the formatter leaves it: initcg and fsinit raise the totals by
\* what they put into the groups.
FormattedSb(p, groups) ==
    LET sum(F(_)) == MapThenSumSet(F, 0..(p.ncg - 1))
    IN  [size |-> p.size, ncg |-> p.ncg, ncyl |-> p.ncyl, ipg |-> p.ipg,
         cs |-> CsFrags(p.ncg), dsize |-> DataFrags(p),
         nbfree |-> sum(LAMBDA c : groups[c].frags.nbfree),
         nffree |-> sum(LAMBDA c : groups[c].frags.nffree),
         nifree |-> sum(LAMBDA c : groups[c].nifree),
         ndir   |-> sum(LAMBDA c : groups[c].ndir)]

MkSuper ==
    /\ run.pc = "mksuper"
    /\ disk' = [disk EXCEPT !.sb = FormattedSb(run.plan, disk.cg)]
    /\ run' = [run EXCEPT !.pc = "mkentries"]
    /\ UNCHANGED past

MkEntries ==
    /\ run.pc = "mkentries"
    /\ disk' = [disk EXCEPT !.entries =
                  [c \in Groups |-> IF c < run.plan.ncg THEN Entry(disk.cg[c])
                                                        ELSE BlankEntry]]
    /\ run' = [run EXCEPT !.pc = "mkcopies"]
    /\ UNCHANGED past

MkCopies ==
    /\ run.pc = "mkcopies"
    /\ disk' = [disk EXCEPT !.copies =
                  [c \in Groups |-> IF c < run.plan.ncg THEN disk.sb ELSE BlankSb]]
    /\ run' = Idle
    /\ past' = [past EXCEPT !.last = "made"]

-----------------------------------------------------------------------------
(***************************************************************************)
(* The allocator, as the commands between see it (module FragAlloc has     *)
(* its writes one by one): the group block, the superblock totals and the  *)
(* summary entry change together here.                                     *)
(***************************************************************************)

\* Mutant: cg_ndblk is not compared with the superblock's size.
GroupReadableAnySize(d, c) == d.cg[c].ndblk > 0

\* allocate_frags_in_group takes a group block for what it is only if it has
\* its magic number and ends inside the file system.
GroupReadable(d, c) ==
    d.cg[c].ndblk > 0 /\ c * Fpg + d.cg[c].ndblk <= d.sb.size

PartialSpots(gr, n) ==
    {p \in Blocks \X Offsets :
        /\ n < FragsPerBlock /\ gr.nffree >= n
        /\ gr.free[p[1]] # Offsets
        /\ p[2] + n <= FragsPerBlock
        /\ Run(p[2], n) \subseteq gr.free[p[1]]}
WholeSpots(gr) == {<<b, 0>> : b \in {b \in WholeBlocks(gr.free) : gr.nbfree # 0}}
Address(c, p) == c * Fpg + p[1] * FragsPerBlock + p[2]
Spots(d, c, n) ==
    LET gr == d.cg[c].frags
        partial == PartialSpots(gr, n)
    IN  {Address(c, p) : p \in IF partial # {} THEN partial ELSE WholeSpots(gr)}

\* allocate_frags_anycg: the groups in turn from pref on, the first answer
\* other than ENOSPC being the answer.  None stands for any error.
AllocateAny(d, pref, n) ==
    LET at(i) == (pref + i) % d.sb.ncg
        tries == {i \in 0..(d.sb.ncg - 1) :
                    ~GroupReadable(d, at(i)) \/ Spots(d, at(i), n) # {}}
        c     == at(Min(tries))
    IN  IF tries = {} \/ ~GroupReadable(d, c) THEN None ELSE {Min(Spots(d, c, n))}

\* The image after the group block of c has become gr.
Rewritten(d, c, gr) ==
    LET dnb == gr.nbfree - d.cg[c].frags.nbfree
        dnf == gr.nffree - d.cg[c].frags.nffree
    IN  [d EXCEPT !.cg[c].frags = gr,
                  !.sb.nbfree = @ + dnb, !.sb.nffree = @ + dnf,
                  !.entries[c].nbfree = @ + dnb, !.entries[c].nffree = @ + dnf]
Take(d, x, n) ==
    LET gr == d.cg[GroupOf(x)].frags
    IN  Rewritten(d, GroupOf(x), IF gr.free[Blk(x)] = Offsets
                                 THEN TakeWhole(gr, Blk(x), n)
                                 ELSE TakePartial(gr, Blk(x), Off(x), n))
Give(d, x, n) ==
    Rewritten(d, GroupOf(x), GiveBack(d.cg[GroupOf(x)].frags, Blk(x), Off(x), n))

\* An inode of group 0 taken (di < 0) or given back, and a directory with it.
Inodes(d, di, dd) ==
    [d EXCEPT !.cg[0].nifree = @ + di, !.sb.nifree = @ + di, !.entries[0].nifree = @ + di,
              !.cg[0].ndir = @ + dd,   !.sb.ndir = @ + dd,   !.entries[0].ndir = @ + dd]

\* The contents of the i-th run of a file.
Write(d, ino, i, x, n) ==
    [d EXCEPT !.text = [y \in DOMAIN d.text \cup RunFrags(<<x, n>>) |->
                          IF y \in RunFrags(<<x, n>>) THEN <<ino, i, y - x>>
                                                      ELSE d.text[y]]]

-----------------------------------------------------------------------------
(***************************************************************************)
(* Files come and go.                                                      *)
(***************************************************************************)
Opens(d) == d.sb.ncg > 0

\* The image and the file after one more run of n fragments for it.
AddRun(acc, n, pref, ino) ==
    LET x == AllocateAny(acc.d, pref, n)
    IN  IF ~acc.ok \/ x = None THEN [acc EXCEPT !.ok = FALSE]
        ELSE [ok |-> TRUE,
              d  |-> Write(Take(acc.d, Min(x), n), ino, Len(acc.got) + 1, Min(x), n),
              got |-> Append(acc.got, <<Min(x), n>>)]

\* A new file of a given shape: direct runs, then a block behind an indirect
\* root and the root (one step of FileData's writes; a file that does not fit
\* is not made).  allocate_inode_in_group takes the inode in the group of the
\* directory, and mkimg's directories are in group 0, so every inode is.
AddFile(ino, shape) ==
    /\ run.pc = "idle" /\ Opens(disk) /\ past.calls < MaxCalls
    /\ ino \notin DOMAIN disk.node /\ ino < disk.sb.ipg
    /\ LET tries == FoldLeft(LAMBDA acc, n : AddRun(acc, n, ino \div disk.sb.ipg, ino),
                             [ok |-> TRUE, d |-> disk, got |-> <<>>],
                             shape.runs \o [i \in 1..(2 * shape.far) |-> FragsPerBlock])
           direct == Len(shape.runs)
           new == [runs  |-> SubSeq(tries.got, 1, direct),
                   far   |-> IF shape.far = 0 THEN <<>> ELSE <<tries.got[direct + 1][1]>>,
                   roots |-> IF shape.far = 0 THEN <<>> ELSE <<tries.got[direct + 2][1]>>]
       IN  /\ tries.ok
           /\ disk' = [Inodes(tries.d, -1, 0) EXCEPT
                         !.node = [i \in DOMAIN disk.node \cup {ino} |->
                                     IF i = ino THEN new ELSE disk.node[i]]]
    /\ past' = [past EXCEPT !.calls = @ + 1, !.last = "call"]
    /\ UNCHANGED run

\* unlink, or rmdir of lost+found: everything the inode holds is given back.
RemoveFile(ino) ==
    /\ run.pc = "idle" /\ past.calls < MaxCalls
    /\ ino \in DOMAIN disk.node \ {Root}
    /\ LET n     == disk.node[ino]
           held  == n.runs \o [i \in DOMAIN (n.roots \o n.far) |->
                                 <<(n.roots \o n.far)[i], FragsPerBlock>>]
           freed == FoldLeft(LAMBDA d, r : Give(d, r[1], r[2]), disk, held)
       IN  disk' = [Inodes(freed, 1, IF ino = LostFound THEN -1 ELSE 0) EXCEPT
                      !.node = [i \in DOMAIN disk.node \ {ino} |-> disk.node[i]],
                      !.text = [x \in DOMAIN disk.text \ OwnedBy(n) |-> disk.text[x]]]
    /\ past' = [past EXCEPT !.calls = @ + 1, !.last = "call"]
    /\ UNCHANGED run

-----------------------------------------------------------------------------
(***************************************************************************)
(* resize grow: opening, and the checks that come before any write.        *)
(***************************************************************************)

\* The slice the opened image covers: the first label that fits the file, or
\* the whole file when none does.
LabelFits(d, i) == d.labels[i] > 0 /\ d.labels[i] <= d.len
SliceSize(d) ==
    LET fits == {i \in DOMAIN d.labels : LabelFits(d, i)}
    IN  IF fits = {} THEN d.len ELSE d.labels[Min(fits)]

\* The file system resize makes of the target size.
Grown(sb, target) ==
    [size |-> target, ncg |-> HowMany(target, Fpg), ncyl |-> HowMany(target * Cpg, Fpg),
     ipg  |-> sb.ipg]
TargetAccepted(d, sectors) ==
    LET target == sectors \div Fsize
        new    == Grown(d.sb, target)
    IN  /\ sectors % Fsize = 0
        /\ target > SliceSize(d)
        /\ new.ncg >= d.sb.ncg
        /\ \A c \in d.sb.ncg..(new.ncg - 1) : GroupSize(c, target) >= DUpper(c, d.sb.ipg)

\* The fragments the longer summary table will need.
Extension(sb, new) ==
    CsAddr(sb.ipg) + sb.cs .. CsAddr(sb.ipg) + CsFrags(new.ncg) - 1
ExtensionFits(sb, new) == CsAddr(sb.ipg) + CsFrags(new.ncg) <= Fpg

\* What the process keeps: the superblock read at the start and the totals it
\* will add to it.
Process(d, target) ==
    [pc |-> "evacuate", img |-> d.sb, new |-> Grown(d.sb, target),
     labeled |-> \E i \in DOMAIN d.labels : LabelFits(d, i),
     c |-> 0, from |-> <<>>, to |-> 0, moves |-> 0,
     nbfree |-> 0, nffree |-> 0, nifree |-> 0, dsize |-> d.sb.dsize]

Grow(sectors) ==
    /\ run.pc = "idle" /\ Opens(disk) /\ past.grows < MaxGrows
    /\ TargetAccepted(disk, sectors)
    /\ run' = Process(disk, sectors \div Fsize)
    /\ past' = [past EXCEPT !.grows = @ + 1, !.last = "grow"]
    /\ UNCHANGED disk

Refuse ==
    /\ run' = Idle
    /\ past' = [past EXCEPT !.last = "refused"]

-----------------------------------------------------------------------------
(***************************************************************************)
(* Moving files out of the way of the summary table.                       *)
(***************************************************************************)

Protected == Extension(run.img, run.new)
Overlaps(x, n) == RunFrags(<<x, n>>) \cap Protected # {}

InTheWay(n) == {i \in DOMAIN n.runs : Overlaps(n.runs[i][1], n.runs[i][2])}
RootInTheWay(n) == \E i \in DOMAIN n.roots : Overlaps(n.roots[i], FragsPerBlock)

\* evacuate_summary_extension_range goes through the inodes in order.
Troubled == {i \in DOMAIN disk.node : /\ i >= run.c
                                      /\ \/ RootInTheWay(disk.node[i])
                                         \/ InTheWay(disk.node[i]) # {}}

\* Nothing (more) is in the way.  After a move the command starts afresh from
\* the image it has changed.
Clear ==
    /\ run.pc = "evacuate"
    /\ ExtensionFits(run.img, run.new)
    /\ Troubled = {}
    /\ run' = IF run.moves > 0 THEN Process(disk, run.new.size)
                               ELSE [run EXCEPT !.pc = "truncate"]
    /\ UNCHANGED <<disk, past>>

\* move_direct_fragment_run looks for the new place in the next group, and
\* gives up when that place is in the range too; an indirect root is never
\* moved, and neither is a file whose table would not fit group 0.
MoveRun ==
    /\ run.pc = "evacuate" /\ (Troubled # {} \/ ~ExtensionFits(run.img, run.new))
    /\ LET ino  == Min(Troubled)
           i    == Min(InTheWay(disk.node[ino]))
           r    == disk.node[ino].runs[i]
           x    == AllocateAny(disk, (GroupOf(r[1]) + 1) % run.img.ncg, r[2])
       IN  IF \/ ~ExtensionFits(run.img, run.new) \/ RootInTheWay(disk.node[ino])
              \/ x = None \/ Overlaps(Min(x), r[2])
           THEN Refuse /\ UNCHANGED disk
           ELSE /\ disk' = Take(disk, Min(x), r[2])
                /\ run' = [run EXCEPT !.pc = "copy", !.c = ino, !.from = <<i, r>>,
                                      !.to = Min(x)]
                /\ UNCHANGED past

CopyRun ==
    /\ run.pc = "copy"
    /\ LET len == run.from[2][2]
           old == run.from[2][1]
       IN  disk' = [disk EXCEPT
                      !.text = [y \in DOMAIN disk.text \cup RunFrags(<<run.to, len>>) |->
                                  IF y \in RunFrags(<<run.to, len>>)
                                  THEN disk.text[old + (y - run.to)] ELSE disk.text[y]]]
    /\ run' = [run EXCEPT !.pc = "point"]
    /\ UNCHANGED past

\* The new run is given back when its data cannot be written.
CopyFails ==
    /\ run.pc = "copy" /\ past.cuts < MaxCuts
    /\ disk' = Give(disk, run.to, run.from[2][2])
    /\ run' = Idle
    /\ past' = [past EXCEPT !.cuts = @ + 1, !.last = "refused"]

PointToCopy ==
    /\ run.pc = "point"
    /\ disk' = [disk EXCEPT !.node[run.c].runs[run.from[1]] = <<run.to, run.from[2][2]>>]
    /\ run' = [run EXCEPT !.pc = "drop"]
    /\ UNCHANGED past

DropOld ==
    /\ run.pc = "drop"
    /\ LET old == run.from[2]
           freed == Give(disk, old[1], old[2])
       IN  disk' = [freed EXCEPT
                      !.text = [x \in DOMAIN disk.text \ RunFrags(old) |-> disk.text[x]]]
    /\ run' = [run EXCEPT !.pc = "evacuate", !.moves = @ + 1]
    /\ UNCHANGED past

-----------------------------------------------------------------------------
(***************************************************************************)
(* The writes that make the file system larger.                            *)
(***************************************************************************)
Stays == UNCHANGED past

\* Whatever a file had in these fragments is overwritten.
Without(text, frags) == [x \in DOMAIN text \ frags |-> text[x]]

\* The grow reports an error after it has changed the image.
GiveUp ==
    /\ run' = Idle
    /\ past' = [past EXCEPT !.last = "failed", !.torn = TRUE]
    /\ UNCHANGED disk

Truncate ==
    /\ run.pc = "truncate"
    /\ disk' = [disk EXCEPT !.len = run.new.size]
    /\ run' = [run EXCEPT !.pc = IF run.labeled THEN "label" ELSE "expand", !.c = 1]
    /\ Stays

PatchLabel ==
    /\ run.pc = "label"
    /\ disk' = [disk EXCEPT !.labels[run.c] = run.new.size]
    /\ run' = IF run.c < LabelCopies THEN [run EXCEPT !.c = @ + 1]
                                     ELSE [run EXCEPT !.pc = "expand"]
    /\ Stays

\* add_free_frag_range: a stretch of used fragments becomes free, block by
\* block.  It is an error if one of them is free already.
AddFree(gr, start, end) ==
    LET touched == {b \in Blocks : /\ b * FragsPerBlock < end
                                   /\ (b + 1) * FragsPerBlock > start}
        lo(b)   == Max({start, b * FragsPerBlock})
        hi(b)   == Min({end, (b + 1) * FragsPerBlock})
    IN  FoldSet(LAMBDA b, g : IF lo(b) < hi(b)
                              THEN GiveBack(g, b, lo(b) % FragsPerBlock, hi(b) - lo(b))
                              ELSE g,
                gr, touched)
AnyFree(gr, start, end) ==
    \E x \in start..(end - 1) : Off(x) \in gr.free[Blk(x)]

LastOld == run.img.ncg - 1
Gained(r, gr, old, dsize) ==
    [r EXCEPT !.nbfree = @ + gr.nbfree - old.nbfree,
              !.nffree = @ + gr.nffree - old.nffree,
              !.dsize  = @ + dsize]

\* expand_old_last_cg: the last group takes what the file system had left of
\* its place.
ExpandGroup ==
    /\ run.pc = "expand"
    /\ LET old   == disk.cg[LastOld].frags
           start == run.img.size - LastOld * Fpg
           end   == GroupSize(LastOld, run.new.size)
           gr    == AddFree(old, start, end)
       IN  IF AnyFree(old, start, end) THEN GiveUp
           ELSE /\ disk' = [disk EXCEPT
                              !.cg[LastOld].frags = gr,
                              !.cg[LastOld].ndblk = end,
                              !.cg[LastOld].ncyl  =
                                  CylinderCount(LastOld, run.new.ncg, run.new.ncyl)]
                /\ run' = [Gained(run, gr, old, end - start) EXCEPT !.pc = "expanded"]
                /\ Stays

\* Where the grow goes once the old groups are done.
NewGroups == IF run.img.ncg < run.new.ncg THEN "inodes" ELSE "primary"

ExpandEntry ==
    /\ run.pc = "expanded"
    /\ disk' = [disk EXCEPT !.entries[LastOld] = Entry(disk.cg[LastOld])]
    /\ run' = [run EXCEPT !.c  = run.img.ncg,
                          !.pc = IF Protected # {} THEN "reserve" ELSE NewGroups]
    /\ Stays

\* reserve_summary_extension: every fragment of the extension must be free.
Reserved(gr) ==
    LET touched == {b \in Blocks : Protected \cap RunFrags(<<b * FragsPerBlock, FragsPerBlock>>) # {}}
        offs(b) == {Off(x) : x \in {x \in Protected : Blk(x) = b}}
    IN  FoldSet(LAMBDA b, g : IF g.free[b] = Offsets
                              THEN TakeWhole(g, b, Cardinality(offs(b)))
                              ELSE TakePartial(g, b, Min(offs(b)), Cardinality(offs(b))),
                gr, touched)

\* Mutant: the fragments are taken without a look at the map.
ReservableUnchecked(gr) == TRUE

Reservable(gr) == \A x \in Protected : Off(x) \in gr.free[Blk(x)]

Reserve ==
    /\ run.pc = "reserve"
    /\ LET old == disk.cg[0].frags
           gr  == Reserved(old)
       IN  IF ~Reservable(old) THEN GiveUp
           ELSE /\ disk' = [disk EXCEPT !.cg[0].frags = gr]
                /\ run' = [Gained(run, gr, old, -Cardinality(Protected))
                              EXCEPT !.pc = "reserved"]
                /\ Stays

ReserveEntry ==
    /\ run.pc = "reserved"
    /\ disk' = [disk EXCEPT !.entries[0] = Entry(disk.cg[0])]
    /\ run' = [run EXCEPT !.pc = "clear"]
    /\ Stays

ClearExtension ==
    /\ run.pc = "clear"
    /\ disk' = [disk EXCEPT !.text = Without(@, Protected)]
    /\ run' = [run EXCEPT !.pc = NewGroups]
    /\ Stays

\* A new group: its inodes, its block, its summary entry.
ZeroInodes ==
    /\ run.pc = "inodes"
    /\ disk' = [disk EXCEPT
                   !.inodes = @ \cup {run.c},
                   !.text = Without(@, CgStart(run.c) + IbNo
                                       .. run.c * Fpg + DUpper(run.c, run.img.ipg) - 1)]
    /\ run' = [run EXCEPT !.pc = "group"]
    /\ Stays

\* Mutant: the fragments before the group's metadata are left used.
NewGroupUpperOnly(c, new) ==
    LET size == GroupSize(c, new.size)
    IN  [frags  |-> AddFree(BlankGroup.frags, DUpper(c, new.ipg), size),
         ndblk  |-> size,
         ncyl   |-> CylinderCount(c, new.ncg, new.ncyl),
         nifree |-> new.ipg,
         ndir   |-> 0]

\* build_new_cg
NewGroup(c, new) ==
    LET size == GroupSize(c, new.size)
    IN  [frags  |-> AddFree(AddFree(BlankGroup.frags, 0, DLower(c)), DUpper(c, new.ipg), size),
         ndblk  |-> size,
         ncyl   |-> CylinderCount(c, new.ncg, new.ncyl),
         nifree |-> new.ipg,
         ndir   |-> 0]

WriteGroup ==
    /\ run.pc = "group"
    /\ LET gr == NewGroup(run.c, run.new)
       IN  /\ disk' = [disk EXCEPT !.cg[run.c] = gr,
                                   !.text = Without(@, RunFrags(<<CgStart(run.c) + CbNo,
                                                                  FragsPerBlock>>))]
           /\ run' = [Gained(run, gr.frags, BlankGroup.frags,
                             DLower(run.c) + gr.ndblk - DUpper(run.c, run.img.ipg))
                         EXCEPT !.pc = "entry", !.nifree = @ + gr.nifree]
    /\ Stays

\* Mutant: the last new group is left out.
MoreGroupsButLast(c) == c + 2 < run.new.ncg

MoreGroups(c) == c + 1 < run.new.ncg

WriteEntry ==
    /\ run.pc = "entry"
    /\ disk' = [disk EXCEPT !.entries[run.c] = Entry(disk.cg[run.c])]
    /\ run' = IF MoreGroups(run.c) THEN [run EXCEPT !.pc = "inodes", !.c = @ + 1]
                                   ELSE [run EXCEPT !.pc = "primary"]
    /\ Stays

\* patch_and_write_superblocks: the totals are those read at the start and
\* what the grow has added; then a copy for every group.
WritePrimary ==
    /\ run.pc = "primary"
    /\ disk' = [disk EXCEPT
                   !.sb = [run.new @@ run.img EXCEPT
                             !.cs     = Max({@, CsFrags(run.new.ncg)}),
                             !.dsize  = run.dsize,
                             !.nbfree = @ + run.nbfree,
                             !.nffree = @ + run.nffree,
                             !.nifree = @ + run.nifree]]
    /\ run' = [run EXCEPT !.pc = "copies"]
    /\ Stays

WriteCopies ==
    /\ run.pc = "copies"
    /\ disk' = [disk EXCEPT
                   !.copies = [c \in Groups |-> IF c < run.new.ncg THEN disk.sb ELSE @[c]],
                   !.text = Without(@, UNION {RunFrags(<<CgStart(c) + SbNo, FragsPerBlock>>) :
                                                c \in 0..(run.new.ncg - 1)})]
    /\ run' = Idle
    /\ past' = [past EXCEPT !.last = "grown"]

\* The command is killed, or a write fails and it gives up.  Without a
\* superblock the file is no file system, and mkimg may be run again.
Cut ==
    /\ run.pc \notin {"idle", "blank"} /\ past.cuts < MaxCuts
    /\ run' = IF disk.sb.ncg = 0 THEN [pc |-> "blank"] ELSE Idle
    /\ past' = [past EXCEPT !.cuts = @ + 1, !.last = "cut", !.torn = TRUE]
    /\ UNCHANGED disk

Make   == \/ \E s \in Sizes, l \in BOOLEAN : Mkimg(s, l)
          \/ InitGroup \/ FsInit \/ MkSuper \/ MkEntries \/ MkCopies
Use    == \/ \E ino \in Files, f \in Shapes : AddFile(ino, f)
          \/ \E ino \in Files \cup {LostFound} : RemoveFile(ino)
Evacuate == Clear \/ MoveRun \/ CopyRun \/ CopyFails \/ PointToCopy \/ DropOld
Extend == \/ Truncate \/ PatchLabel \/ ExpandGroup \/ ExpandEntry
          \/ Reserve \/ ReserveEntry \/ ClearExtension
          \/ ZeroInodes \/ WriteGroup \/ WriteEntry
          \/ WritePrimary \/ WriteCopies
Next == Make \/ Use \/ (\E s \in Targets : Grow(s)) \/ Evacuate \/ Extend \/ Cut
Spec == Init /\ [][Next]_vars

-----------------------------------------------------------------------------
(***************************************************************************)
(* What a stopped image must be: fsck's comparisons, from the layout, the  *)
(* files and the superblock alone.                                         *)
(***************************************************************************)
LiveGroups(d) == 0..(d.sb.ncg - 1)
Summary(d)    == CsAddr(d.sb.ipg) .. CsAddr(d.sb.ipg) + d.sb.cs - 1
Metadata(d, c) ==
    IF c = 0 THEN 0..(DUpper(0, d.sb.ipg) - 1)
    ELSE c * Fpg + DLower(c) .. c * Fpg + DUpper(c, d.sb.ipg) - 1
Reserved0(d) == Summary(d) \cup UNION {Metadata(d, c) : c \in LiveGroups(d)}
FreeFrags(d) ==
    UNION {{Address(c, <<b, o>>) : o \in d.cg[c].frags.free[b]} :
             c \in LiveGroups(d), b \in Blocks}
OwnedFrags(d) == UNION {OwnedBy(d.node[i]) : i \in DOMAIN d.node}
Total(d, F(_)) == MapThenSumSet(F, LiveGroups(d))
Lasting(sb) == [size |-> sb.size, ncg |-> sb.ncg, ncyl |-> sb.ncyl, ipg |-> sb.ipg,
                cs |-> sb.cs, dsize |-> sb.dsize]

\* A full last group has zero cylinders (test_resize.sh:44, pass 5 of fsck).
GroupsSound(d) ==
    \A c \in LiveGroups(d) :
        /\ GroupOk(d.cg[c].frags)
        /\ d.cg[c].ndblk = Min({Fpg, d.sb.size - c * Fpg})
        /\ d.cg[c].ncyl = IF c = d.sb.ncg - 1 THEN d.sb.ncyl % Cpg ELSE Cpg
        /\ d.entries[c] = Entry(d.cg[c])
MapSound(d) == FreeFrags(d) = (0..(d.sb.size - 1)) \ (Reserved0(d) \cup OwnedFrags(d))
TotalsSound(d) ==
    /\ d.sb.nbfree = Total(d, LAMBDA c : d.cg[c].frags.nbfree)
    /\ d.sb.nffree = Total(d, LAMBDA c : d.cg[c].frags.nffree)
    /\ d.sb.nifree = Total(d, LAMBDA c : d.cg[c].nifree)
    /\ d.sb.ndir   = Total(d, LAMBDA c : d.cg[c].ndir)
    /\ d.sb.dsize  = d.sb.size - Cardinality(Reserved0(d))
    /\ d.sb.cs * CsumsPerFrag >= d.sb.ncg
Sound(d) ==
    /\ GroupsSound(d) /\ MapSound(d) /\ TotalsSound(d)
    /\ \A c \in LiveGroups(d) : Lasting(d.copies[c]) = Lasting(d.sb)
    /\ d.sb.size <= d.len

TypeOK ==
    /\ disk.len \in Nat
    /\ disk.labels \in Seq(Nat)
    /\ \A c \in Groups : disk.cg[c].frags \in GroupRecord
    /\ DOMAIN disk.node \subseteq Files \cup {LostFound, Root}
    /\ \A i \in DOMAIN disk.node : disk.node[i] \in Node
    /\ past.torn \in BOOLEAN

\* Whatever mkimg, the files and any number of grows did, an image no command
\* was cut short on passes every comparison of fsck: groups, map, summary
\* table, totals, superblock copies.
StoppedSound == run.pc = "idle" /\ ~past.torn => TypeOK /\ Sound(disk)

\* At every moment, interrupted grows and their successors included, every
\* file still has its text, in fragments that are inside the file system,
\* not free, not metadata and no other file's.
FilesKept ==
    disk.sb.ncg > 0 =>
        /\ \A i \in DOMAIN disk.node :
             /\ \A k \in DOMAIN disk.node[i].runs :
                  LET r == disk.node[i].runs[k]
                  IN  \A x \in RunFrags(r) : /\ x \in DOMAIN disk.text
                                             /\ disk.text[x] = <<i, k, x - r[1]>>
             /\ \A b \in SeqRange(disk.node[i].roots \o disk.node[i].far) :
                  \A x \in RunFrags(<<b, FragsPerBlock>>) :
                      x \in DOMAIN disk.text /\ disk.text[x][1] = i
             /\ OwnedBy(disk.node[i]) \cap FreeFrags(disk) = {}
             /\ \A j \in DOMAIN disk.node \ {i} :
                  OwnedBy(disk.node[i]) \cap OwnedBy(disk.node[j]) = {}
        /\ OwnedFrags(disk) \subseteq (0..(disk.sb.size - 1)) \ Reserved0(disk)

\* At every moment every group the superblock counts has its block and its
\* inodes, and the file and the label reach to the end of the file system.
GroupsBehindSuperblock ==
    disk.sb.ncg > 0 =>
        /\ \A c \in LiveGroups(disk) :
             /\ c \in disk.inodes
             /\ disk.cg[c].ndblk >= GroupSize(c, disk.sb.size)
             /\ disk.cg[c].frags.frsum \in [RunLens -> Nat]
        /\ disk.sb.size <= disk.len
        /\ \A i \in DOMAIN disk.labels : disk.labels[i] \in disk.sb.size..disk.len

\* An image nothing was done to, whose directories did not have to move, is
\* after any number of grows what mkimg would have made at the new size.
GrowsLikeNew ==
    LET p == Plan(disk.sb.size)
    IN  /\ run.pc = "idle" /\ past.last = "grown" /\ past.calls = 0 /\ ~past.torn
        /\ PlanAccepted(disk.sb.size) /\ RoomForDirectories(p)
        /\ p.size = disk.sb.size /\ p.ipg = disk.sb.ipg
        /\ \A i \in DOMAIN Directories(p) : disk.node[i].runs = <<Directories(p)[i]>>
        => LET groups == Formatted(p)
           IN  /\ \A c \in LiveGroups(disk) : disk.cg[c] = groups[c]
               /\ disk.sb = FormattedSb(p, groups)
               /\ DOMAIN groups = LiveGroups(disk)

\* "summary extension range is clear" (resize.c:911): when the grow comes to
\* take the range, having changed the length, the label and the last group,
\* every fragment of it is free.
ClearMeansClear ==
    run.pc = "reserve" /\ past.cuts = 0 => Reservable(disk.cg[0].frags)
=============================================================================
