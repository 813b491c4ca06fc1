# nextufs-offline in TLA+

A verification project for `nextufs`, the offline tool that formats, browses,
modifies, checks, resizes and mounts NEXTSTEP UFS images.  Paths below are
relative to the repository.

## The system

| Component | Code | State | Operations |
|---|---|---|---|
| Fragment allocator | `src/core/alloc.c` 141-568, `src/core/layout.c` 252-297 | per group: free map, free-block and free-fragment counts, run histogram, per-cylinder counts; copies in the summary table and the superblock | allocate, extend, reallocate, free a run |
| Inode allocator | `src/core/alloc.c` 22-139 | per group: used map, rotor, free-inode and directory counts; the same copies | allocate in a group, free |
| File data | `src/core/alloc.c` 570-926 | an inode's twelve direct and three indirect pointers | store a file's contents, free it |
| Directory bytes | `src/mutate/dir_mutate.c`, `src/core/directory.c` | records tiling blocks of 1024 bytes | insert, remove, grow, is-empty, read and write `..`, iterate |
| Namespace operations | `src/mutate/mutate.c` | inodes, link counts, the tree | create, mkdir, symlink, mknod, link, unlink, rmdir, rename, truncate, pwrite, chmod, chown, utimes |
| Path lookup | `src/core/path.c`, `src/core/node.c` | none | walk a path, follow symbolic links, check access |
| Image sources | `src/core/image.c`, `src/core/source.c` | file, slice; for VDI the block map and the parent | read, write, materialise a block, fsync |
| Formatter | `src/commands/mkimg.c`, `src/mkimg_format/` | the whole image | lay out groups, root and lost+found |
| Resize | `src/commands/resize.c` | the image's size, groups and summary area | grow, evacuate, label |
| Mount | `src/commands/mount.c` | one global open image | the FUSE handlers |
| fsck | `src/fsck/` | tables of blocks, inode states and link counts | five passes, repairs by the operator's answers |
| Disk label, info, browse, mkfile, main, report | `src/core/label.c`, `src/commands/` | none | parsing and printing |
| stress, tests | `src/commands/stress.c`, `tests/` | an expected tree | compare it with the image, run `fsck -n` |

A mutating command opens the image, looks the paths up, changes the inode
maps, the fragment maps, directories and inodes with separate writes, calls
fsync once, and closes.  There is no log and no ordering but program order.
Inodes that an operation works on are read into memory and written back whole,
some of them several times.  The mount calls the same operations and reopens
its global image after each that succeeded.

What is hard to test here:

* counters moved by deltas at many places, which must still agree with the
  maps after any sequence of calls (fsck's pass 5 compares them);
* directory records that are split, merged and turned into holes;
* calls that undo themselves when the image is full half way through;
* one inode held in memory twice (rename within a directory);
* a crash or a failing write between two of the writes of a call, of a grow, or
  of fsck itself;
* repairs that depend on each other over five passes, refused or half written;
* a grow that moves files and groups about while the image stays an image;
* handlers of the mount that interleave.

`PROJECT.json` lists each hazard at its line with the properties that watch it.

## Modules

| Module | Models |
|---|---|
| `CylGroup` | one group block's fragment half: the pure updates of map and counters |
| `FragAlloc` | the fragment allocator over all groups, with failing summary writes |
| `InodeAlloc` | the inode allocator, with failing summary writes |
| `DirBlk` | the bytes of one directory |
| `DirTree` | the abstract tree the namespace operations promise |
| `Namespace` | the namespace operations over inodes, directory blocks and storage; implements `DirTree` |
| `FileData` | files' contents through direct and indirect blocks, access by access |
| `VdiImage` | the block map of a VDI image, its parent, interrupted writes, a stale reader |
| `Format` | the geometry `nextufs_format` works out, the groups `initcg` makes, the directories of `fsinit` |
| `Lifecycle` | an image from mkimg through file calls to `resize grow`, write by write; uses `Format` and `CylGroup` |
| `FsckImage`, `Fsck` | the image as fsck sees it; the process with its buffers, tables, passes and repairs, run after run |
| `MC*` | instances of these for TLC |
| `FragAlloc_proofs` (with `CylGroup`'s), `InodeAlloc_proofs`, `DirBlk_proofs`, `Namespace_proofs`, `NamespaceTree_proofs`, `NamespaceCut_proofs`, `FileData_proofs`, `VdiImage_proofs` | theorems |

### CylGroup and FragAlloc

A fragment is a pair (block, offset): a run the allocator hands out always
lies in one block.  `cg[g]` is the group block on disk, `csum` and `sb` the
copies `update_summary_counts` keeps, `runs` what the callers hold, and `lost`
what a call took and then failed to return.  One action is one call of
`allocate_frags_anycg`, `extend_fragment_run`, `free_fragment_run` or
`reallocate_fragment_run`, with a parameter that says which of its writes
fails.  A free that fails behind the group block (`src/core/alloc.c` 524-528)
frees the run and tells its caller otherwise: a directory that was being moved
keeps its pointer (`src/mutate/dir_mutate.c` 87-92), and so does an inode whose
removal stops there.  Such runs are kept in `stale`.  `NoDoubleAllocation` makes
them its exception, one failed write each: their fragments are handed out again
while the inode names them.  What a later call does to such a run through its
old holder is not followed; the calls of everyone else are.  `cg_bpos` moves with `cg_btot` and is left out; `cg_rotor` is only
written.  A block whose bits read free but that lies at the end of the last
group has fewer fragments: `BlockLen`.

### InodeAlloc

One action per call of `allocate_inode_in_group` and `free_inode_in_group`.
The scan starts at the rotor; `Distance` orders the candidates as the scan
meets them.

### DirBlk

`heads` holds every record header in the bytes, those a walk no longer reaches
included, so that a record grown or shrunk by mistake exposes what really is
behind it.  `write_dirent_raw` clears the bytes it writes.  Record lengths are
the code's: eight bytes of header, the name with its zero, padded to four.
`merged` becomes true when `remove_dirent` merges a record into a live one that
does not touch it.  From there the directory is corrupt (the `dirblk_hole` run)
and is not followed, so that the other properties say what holds before.

### DirTree and Namespace

`Namespace` uses the lower components through what the modules above show of
them: an inode or a run is free or has one owner, a block lists the entries
put in it.  A directory keeps its blocks and which of them an entry is in,
because an inode whose stale size is written back hides the last block.
Growing a directory happens in place, moves its run, or fails: which of them
depends on the neighbouring fragments and is a choice (`Ways`).  One action is
one call; the writes inside it are applied in the code's order, each to the
node (the in-memory inode) the code uses, which is where the stale-node
faults come from.  `expected` is the tree the callers were told of, as the
stress command keeps it.  `damage` names the known ways in which a call leaves
the image unlike what it told; an image is not followed past that.

An open image keeps what it was before each of the call's writes (`past`).
`Ends` lets the call go through or leaves any of those images behind: the
process was killed there, or the write failed and the call returned.  `Undone`
is the one place where a failed write is followed by more writes that matter:
create, mknod, symlink and mkdir discard the new inode when `insert_dirent`
fails, also when it failed behind the entry.  `cut` keeps what such an image is
held to (`CutLosesNoName`).  What the property does not promise is as telling:
a rename cut short leaves two names and one link, and a directory that was being
moved points at its old, already free run until its inode is written.

A directory that grows has its larger size written (`src/mutate/dir_mutate.c`
100-102) before the new block (199), and nobody zeroes the fragment: cut short
there, the directory (`Unwritten`) ends in whatever the fragment held, entries
of a directory long removed among them, and these may lead to inodes since
freed.  The state does not keep what free runs hold (`Settled`); the block reads
as any block of entries instead (`Stale`, `Exposed`).  A run that is moved is
copied with zeroes behind it (`src/core/alloc.c` 544-559), so its new block is
empty there.  `CutLosesNoName` promises nothing of the names in such a block but
that they hide none; what else it says is said of the image without it
(`WithoutLast`).  Bytes that are no inode number of the image are left out:
looking up another name goes past them, and a listing fails on them behind the
names before.

The write of a bitmap with its summary copies is one write here (`FragAlloc`,
`InodeAlloc` have them apart).  A rename that the stale node spoils is followed
to its end only.

Left out: permission checks, chmod, chown and utimes (they change attributes
that no property reads), and the contents of files (`FileData`).

### FileData

`disk[f]` is the inode as written, `used` and `bytes` the blocks it is stored
in, `call` the call in progress: its step (`pc`), the inode it builds in
memory, the run in hand, the indirect block it stands at, the runs it still
has to free.  One action is one access to the image of
`allocate_data_for_inode`, `free_file_storage` or their callers, and each may
fail; what then happens is the code's undo, `free_file_storage` of the inode as
far as it was built.  Because every intermediate state is a state, what is said
of the image in every state is said of a crash in it.  `free_file_storage`
reads the trees while it frees; nothing else writes then, so the list of runs
(`RunsOf`) is made when it begins.  A second call of it (create's discard after
a failed undo) sees what the first left in the inode (`LeftOf`).

A run has a block of its own here; which fragments the allocator picks is
`FragAlloc`.  Contents are the number of the call that stored them.  The inode
number given to a new file is fixed (`Files`), and taking and clearing its bit
is `InodeAlloc`.

An access of the allocator that fails may fail before the group block is written
or behind it, at the superblock or the summary entry.  Behind it an allocation
has taken a run nobody learns of (`TakenForNobody`), and a free has freed the
run it reports as not freed.  `lost` holds the blocks no one will give back:
those, the run in hand when giving it back fails, what a failed free left of the
list, and what `rewrite_inode_contents` stored before it could not write the
inode (`Abandoned`).  `NothingLost` says that they and the named files' blocks
are all that is allocated between calls, and that no file reaches one of them.

### VdiImage

`map`, `data` and `count` are the image file, `wr` a writing command's copies of
map and count, `guest` the disk as the writes made it.  One action is one of the writes of `nextufs_vdi_backend_write` and
`nextufs_vdi_materialize_block`: block, map entry, count, chunk; each may fail,
and the process may end before it.  A second handle (`rd`), opened at any time, reads
with the map it loaded, as a mount does until it reopens.  `cut` says that a
call ended between map entry and count, `reused` that a slot has since been
given out twice.

The parent's content is constant and may end inside a block.  Such a block can
be read but not written: materialising reads the whole of it from the parent,
which refuses (`src/core/image.c` 359-365), and `RoomForAll` leaves it out.
Finding the parent, and the slice inside a labeled disk, are not modelled.

### Format and Lifecycle

`Format` has the arithmetic of `nextufs_format` (cylinders to a group, inodes
to a group, offsets of the metadata, the last group that is given up when its
metadata does not fit) with the source's limits as parameters, and makes the
record of each group with `CylGroup`'s operators, so that "formatted" and "what
the allocator keeps" speak of the same fields.

`Lifecycle` runs commands one after the other on one image file.  `disk` has
its length, the copies of the label, the superblock and its copies, the groups,
the summary entries, which groups' inodes were written, the files' inodes and
what each fragment holds; `run` is the command at work, and one action is one of
its writes: mkimg's groups, directories and superblocks; for `resize grow` the
check of the target, the move of each run that lies where the longer summary
table will be (copy, inode, old run) with the restart behind it, the truncate,
each label copy, the old last group and its entry, the summary extension, each
new group's inodes, block and entry, and the superblocks.  Between any two the
process may be killed or the write fail (`Cut`).  Between commands files are
made and removed with `allocate_frags_in_group`'s search (`Spots`), which
trusts the superblock's and the group's counts as the code does.  Files have
direct runs, or (`far`) a block behind an indirect root.

`StoppedSound` is what fsck's pass 5 compares; it, and `TypeOK` with it, is
asked of images no command was torn in.  `FilesKept` is asked of every state,
`GroupsBehindSuperblock` says that whatever a superblock on disk counts exists,
and `GrowsLikeNew` that an image grown without moving a directory is the image
mkimg makes at that size.  Not followed: a grow that fails after the truncate,
or is killed behind it, leaves an image no later grow accepts (the label is
patched, or the old last group's bits are free already); `fsck -y` restores it.
All inodes `nextufs` itself allocates come from the parent directory's group,
which is group 0 on an image of mkimg's, so the inodes of new groups are
formatted and compared, and not allocated.  The images on which a block behind
an indirect root comes early are those NEXTSTEP wrote with a sparse file.
The copies of the superblock are written in one step, by mkimg and by resize,
and a stop between two of them is left out: no command but `fsck -b` and the
comparison with the last copy reads one, and neither is modelled.
VDI containers are refused by resize.  mkimg of a few blocks' size writes its
first directory over block 0 (`format_fsinit.c` 188) and says nothing;
`RoomForDirectories` keeps such sizes out.

### FsckImage and Fsck

`FsckImage` holds the image and what the helpers compute of it: a directory
block is a row of units in which records with lengths lie, swallowed ones
included; sizes come in thirds of a fragment, so that a directory can be too
short for `.` and `..` and not a multiple of a block.  `Consistent` is written
independently of the passes: reachability, exact counts, exact maps.

`Fsck` is the process.  `w` is the disk, the four one-block buffers (inodes,
file block, superblock with summaries, group) and the tables (`st`, `ln`, `bm`,
`dups`, `zln`); `stk` holds the calls under way, because `descend`, `linkup`
and `adjust` nest in the walk of a directory.  One action is one inode of pass
1, one record of pass 2, one call or return of a repair, one write at the end.
Each prompt is answered by the mode: yes, no, or either (`ask`).  Between any
two actions the process may be killed, which loses the buffers, or interrupted,
which writes them (`catch`).  A run that said anything is followed by another
one, as `session.c` 131 ("Run fsck again to clean.") asks.

The seed image and the damages are those of `tests/fsck/cases`, and a few of
their kind, every one in every mode, every one cut short once under `-y`, and
eighteen of them by twos.  `Converges` needs a free inode or two: when the only
free inode goes to a new lost+found and the process is interrupted, `allocdir`
gives inode 0 and every later run ends in `ginode` (`dir_repair.c` 288).
`MapsExact` leaves out what the operator asks for himself in `ask` mode by
clearing an inode in pass 4 whose type pass 1 did not know: that frees
fragments the block map never had.  A directory whose blocks are all holes has
no record to look at and passes silently; `Consistent` leaves it out.  The
check `d_ino > imax` of `pass2check` is never reached: `dircheck` refuses the
record first, so `tests/fsck/cases/invalid-dir-inode.txt` is repaired as a
corrupted block.  Left out: `-p` and `-b`, the comparison with the last
superblock copy, `MAXBAD` and `MAXDUP`, failing reads and writes, special
inodes, byte order, the loop over `fstab`, and the walk by which `getpathname`
finds the two names it prints for an extraneous hard link to a directory
(`pass2.c` 227), with what it leaves in the buffers.  All nine inodes lie in one
block of inodes, so none is read twice with another between.

## Runs

Twelve runs; the MC modules and the cfg files give the constants.

| Run | Shows | Bounds |
|---|---|---|
| `frag_alloc` | counters, map, summaries and holders agree; ENOSPC is truthful; everything freed gives the fresh image; blocks are split last | two groups of two blocks of three fragments, metadata in each, the last group one fragment short, one failing write |
| `inode_alloc` | maps, counters, summaries and holders agree; ENOSPC is truthful at each rotor | two groups of four inodes, one failing write |
| `dirblk` | the listing is the entries, records tile, removal frees room for its name, is-empty and `..` are right | two blocks of 72 bytes, four long names and a short one: a block is filled exactly, a short name fits a long one's hole |
| `dirblk_hole` | finding | the same |
| `namespace` | tree, parents, counts, inode map and storage are right after each call; each call is one step of `DirTree`; a call cut short after any of its writes, or undone behind a failed one, costs no other name, whatever a block not yet written reads as | three inodes, three names (`CutNames` 4: calls are cut on trees of at most four entries), one name to a block, two blocks to a directory; images of two and of four runs; images alike up to their names are one (`SYMMETRY`) |
| `file_data` | a named file reads as before or as after at every step of every call, its blocks are its own, `di_blocks` is right, what is allocated besides is what a failed access left, behind the group block or before it | two files, three calls, two failing accesses; two direct blocks and two entries to an indirect block, files up to nine blocks: all three trees; twenty blocks, so the large file fits once; the two files are interchangeable (`SYMMETRY`) |
| `vdi` | reads give the last write, a reopened or stale handle too; slots are counted and unshared unless a call was cut short between map entry and count | two blocks of two cells, a parent of none, three or all of them, two values |
| `fsck` | fsck is silent on exactly the consistent images; its block map is exact; a refused repair changes nothing; sound files keep their blocks; run after run comes to an end | an image of twenty-four fragments and nine inodes, forty damages, pairs of eighteen, one kill or interrupt; 249,057 states |
| `lifecycle` | stopped images pass fsck's comparisons; files keep their contents through grows, kills and failing writes; a superblock never counts what is not there; a grown image is the one mkimg makes | groups of eight blocks of four fragments, sizes of one group (with and without one given up) and of four, growth inside a group, by one group and to five groups with a longer summary table, raw and labelled; two file calls, two grows, one cut; 60,009 states |
| `rename_tree`, `failed_call`, `grow_not_clear` | findings | `namespace` with whole calls only; `lifecycle` with one grow and no cut |

Three fragments to a block give every shape of free run next to a held one and
two runs of one length in a block; two groups make the search leave the
preferred one.  Two blocks suffice for a directory because every loop treats
the second as any later one.  Three inodes allow a directory inside another, a
file in either, and a rename over each kind of target; the small image makes
data allocation, mkdir and growth fail.  Two entries make a path of every
shape through one, two and three levels, and a file of nine blocks ends in the
first leaf of the third tree.  Three calls suffice to reuse what a rewrite
freed.  Two grows reach a grow of a grown image, and a grow behind one that was
cut; with one summary entry to a fragment the fifth group needs a longer table,
whose fragments are the first data fragments, lost+found's among them.

`CHECK_DEADLOCK FALSE` stands where the program may stop for good: when the
bound on calls is spent, or the image is not followed further.  `fsck` checks
for deadlock: a quiet run repeats itself.

A type invariant has no place of its own in the runs: those of `FragAlloc`,
`InodeAlloc` and `VdiImage` are proved apart, those of `DirBlk`, `Namespace`
and `FileData` are proved as conjuncts of `Tiled`, `KeepsTree` and
`BlocksCounted`, and the last is a conjunct of `StoppedSound`.

Liveness and fairness.  `Converges` is the one liveness property: fsck, run
again as often as it asks, ends on an image it is silent on, unless the
operator is asked (his answers need not lead anywhere).  It assumes weak
fairness of `Work`, the steps of the process and the next run: one process
that waits for nobody takes its next step as long as it lives, and kills and
interrupts are bounded by `cuts`.  `MCFairSpec` states `WF_vars(Work)` without
ENABLED.  The other specifications state no fairness: a command runs to its end
or returns an error, with no loop that waits.

## Findings

* `dirblk_hole`: `remove_dirent` (`src/mutate/dir_mutate.c` 263-274) adds the
  removed record's length to the last *live* record, although a hole may lie
  between them.
* `rename_tree`: a rename within one directory whose new entry makes the
  directory grow writes the old inode back afterwards; both names are gone, and
  if the directory moved it points at freed fragments.  By the same stale node
  a rename of a directory over an empty one in the same parent leaves the
  parent's link count one too high.
* `failed_call`: a mkdir that finds no fragment keeps its inode; a link that
  fails keeps the raised count.
* `grow_not_clear`: `resize grow` prints "summary extension range is clear"
  when no direct run and no indirect root lies where the summary table will
  grow; a block behind the root may, and then the grow fails after the file was
  extended.

The first two were reproduced with a build of the repository: `fsck -n` reports
the resulting images.

## Proofs

`FragAlloc_proofs` begins with the operators of `CylGroup`: for every geometry
each update of a group record keeps `GroupOk` (counters equal what the map
says), by lemmas on how the sets of whole blocks, of fragments of broken blocks
and of run starts change when one block does.  It then proves `Spec => []IInv`
of the allocator.  The counters alone are not
inductive: that a subtraction does not wrap needs that the run being freed is
held and not free, that a block's free fragments exist, and that holders do not
overlap; so `IInv` is type correctness, `GroupOk` of every group, disjoint
holders, full accounting, at most one stale run to a failed write, and, while no
write has failed, the summaries.  From
it follow `TypeOK`, `GroupsConsistent`, `NoDoubleAllocation`,
`NothingUnaccounted`, `NoFalseENOSPC`, `SummariesConsistent`,
`FreeingAllRestores`, and the action property `PartialBeforeSplit`.

`InodeAlloc_proofs` proves the inode allocator's five properties in the same
way.  They assume only the named assumptions on the constants
(`GeometryAssumption`, `GroupsAssumption`, `InodesAssumption`): positive
numbers of groups, blocks and inodes, at most eight fragments to a block,
metadata inside its group.

`VdiImage_proofs` proves, for every number of blocks, size of block and parent,
that a reader of the file gets every cell as written last, that the writing
handle does, that a stale handle gets each cell old or new, that slots are
counted and unshared, and that reuse follows only from a cut.  The invariant
splits where the promises end: while no slot was reused the file is faithful
(every materialised block is in a slot no other block has, and holds what was
written), while nothing was cut the slots are counted, and reuse implies a cut.
`RoomForAll` needs a count besides: the slots in use are as many as the blocks
that have one, so the others fit behind them.

`DirBlk_proofs` proves the five properties of `DirBlk` for every size of block,
number of blocks and set of names.  The listing alone is not inductive:
which record a removal grows, and which one an insertion splits, depends on
lengths a listing does not show.  The invariant (`IInv`) therefore speaks of
the offsets a walk visits (`Visited`): they tile the bytes without gap or
overlap (`Tiles`), each block begins with one (`Starts`), each record is long
enough for its name, the first two are the dots, and the other live ones are
the entries, once each (`Holds`).  It holds until `merged`.  The walk is a
recursive function of the offset; `ChainFacts` characterises it by the set it
visits.

`Namespace_proofs` proves `Spec => []IInv` for every finite set of inodes and
of names, every set of runs, and every size of block and directory, and from it
`KeepsTree`, `KeepsCounts` and `KeepsStorage`.  These speak of what a walk from
the root reaches, which no single write of a call preserves.  `IInv` says the
same without a walk, in layers:

* `Lists`: the entries of the directories are the tree told of;
* `Owned`: a directory has its run, its blocks are not overfull and name
  nothing twice, a run in use has one owner, an inode is cleared when it is free;
* `Ups`: the `..` of each directory;
* `Shape`: entries, kinds and `..` make a tree: one entry to a name, every inode
  named, a directory by one entry and under its `..`, and no cycle of
  directories (`Rooted`, a statement about all sets of directories);
* `Counts`: the link counts of that tree.

The first three (`Base`) are kept by every write of a call, with the tree as it
is in the middle of it (`InsertBase`, `RemoveBase`, `RecountBase`,
`DiscardBase`, `DotDotBase`); the last two are facts about trees alone
(`TreeNewObject`, `TreeNewName`, `TreeLessName`, `TreeLessObject`, `TreeMove`)
and hold again when the call ends.  That a rename makes no cycle rests on
`AncestorFacts`: the climb of `directory_has_ancestor` meets every directory
above the target.  The last step, from `IInv` to the walk, is `WalkFacts`.  A
rename that a stale node spoils needs the types only (`RemoveTyped`): the
invariant, like the properties, ends where `damage` begins.

`NamespaceTree_proofs` proves that `Namespace` implements `DirTree`
(`Spec => ImplementsTree`).  With `IInv` the mapped variables are the tree told
of and the directories of the inode table (`ShownNow`), and the lemma of each
call in `Namespace_proofs` says besides `IInv'` what the callers are told
(`Told`): a tree and its directories, or nothing when the call is cut short.
`ToldShown` turns that into the mapped variables of the next state, also where
the image no longer agrees with what was told.  What remains is that the guards
of the code give those of the abstract steps: a free inode is one no entry
names, an empty directory one that has no entries, and `directory_has_ancestor`
denies only what `DirTree`'s `Above`, which follows the entries upward from the
new parent, does not hold (`NotAbove`).

`NamespaceCut_proofs` proves `Spec => []CutLosesNoName`: wherever a call stops,
no name it was not about is lost.  The images in the middle of a call satisfy
no invariant of `Namespace_proofs`: an entry may lead to an inode whose count
is not raised yet, and a directory being moved lies in a run already marked
free.  What holds of each of them is that a walk finds some known tree.

* `Fit` says that an image shows a tree: its entries reach each of its
  directories (`Plan`, a fact about the tree alone), the directories list them,
  what they lead to is in use with links enough (`Used`), and storage is
  unshared and marked, but for one run (`Stands`).  `StandsWalk` is the step to
  the walk, and `FineOf` the one to the property.
* A call is watched for a few trees given beforehand (`w.trees`): the one
  before and the one after, and for a rename also the one without the entry in
  the way and the one with both names.  `Going` says that every image the call
  has left behind so far, and the one at hand, fits one of them; `GoOn` adds a
  write.
* A write where the walk does not come leaves what it finds alone (`Quiet`,
  `AlikeFit`); the writes that change it are the block with the new entry
  (`InsertGoing`), the block without the old (`RemoveGoing`), and the inode of
  a directory that grew or was moved (`GrownGoing`, `MovedGoing`).
* When the call ends, or is cut short, the images are among those kept, and each
  of the trees has what the property asks (`Suits`, `EndsCut`).  A call that
  discards its inode behind a failed write is `UndoneCut`.

The block a directory was growing by comes in at the end.  `Exposed` appends it,
`WithoutLast` takes it off again, and what is left lists what the image without
it lists (`LeftCut`); the walk of the whole image only finds more (`ListsGrow`),
so the names there were are still found, and the argument above is that of the
image without the block.

Where links are concerned each call has its reason: the count goes up before
the name appears (`LinkCut`) and down after it is gone (`UnlinkGoing`), and the
file of a rename is the one exception the property makes (`w.late`).

`FileData_proofs` proves `ReadsOldOrNew`, `NamedFilesBacked`, `NothingLost` and
`BlocksCounted` for every number of files, blocks, direct blocks and entries, every size and
every number of failed accesses.  What reads and frees a file follows pointers;
the invariant says where they lead.  `IInv` holds when there are disjoint sets of
blocks, `H[f]` for each file with a name and `C` for the call, and for each
block a place, a level `lev[b]` and a logical block `took[b]` on the way to
which it lies, so that

* `Shape`: the inode and the entries of a set's blocks lead to blocks of the
  set, each at the place it is named for.  The entries of a way are the digits
  of the logical block (`WayGives`), so two ways never meet;
* `Stands`: each block of the set is found at its place.  With `Shape` this
  gives what `free_file_storage` lists: every block once, with the fragments
  that are allocated (`RunsFree`, over the recursion of `Tree`: `PostFacts`);
* `Built`: the file being stored is one that stands, up to block `k`, but for a
  run in hand that nothing names (`Unlinked`); blocks linked on the way to `k`
  leave the ways there were (`Wider`, `LinkBuilt`), and the data up to `k` is
  that of the buffer (`Done`);
* `ToFree`: no run still to be freed is a named file's, each is allocated as
  listed or was freed already, and until an access fails it is allocated, which
  is why `free_fragment_run` refuses none;
* `Undoing`: when undoing a create stops half way, the inode still names
  all that is allocated, because data is freed before the trees (`LeftStands`,
  `LeftFree`);
* `Accounted`: what is allocated is in one of these sets, on the list, or lost,
  and the lost blocks are in none of the sets, which is what makes the two sides
  of `NothingLost` apart.

`H`, `C`, `lev` and `took` are bound in the invariant and are no variables: a
step says which of them go on and which grow by the block taken (`Grows`).

`BlocksCounted` relates a counter that `allocate_data_for_inode` raises a run at
a time to a sum over the runs `free_file_storage` would free.  A second
invariant, `CInv`, is inductive beside `IInv`: while a call stores, what it has
counted is `Charge`, the fragments of the logical blocks it has come past (less
what the last one lacks of a block, `Gap`) and a block for each member of
`Trees`, the blocks on the way to data; and every file with a name is `Counted`
so and has no hole.  The steps to see are those that link a block: `Trees` gains
that block and no other (`TreesGrafted`), and the entries of the lowest level
change nothing in it (`TreesKept`).  That the charge is the sum rests on counting
the runs (`RunCount`: as many as logical blocks and tree blocks), on all of them
being whole but the last of the data (`RunsSum`), and on `SumIs`, which computes
such a sum by induction on the number of its terms.  The bounds of `TypeOK`,
that no block has more fragments allocated than it has among them, are `BInv`,
with a lemma for each of its parts.

What the theorems assume of the constants is named where they are declared:
positive sizes, `DIRBLKSIZ` at least 24 with room for each name, inode numbers
that are not 0, finite sets of inodes and names.  The format fixes all of them.

Recursion appears in what is proved only as recursive functions, whose facts
follow by induction from `LeastNatural` and `Upward`: a set of naturals with
the least counterexample.  A fold over a set is one, of its subsets.

Model-checked only: all of `Fsck` and `Lifecycle`, because their invariants speak
of many more states of a process than those above and are not written down yet.
`Converges` is liveness and out of the prover's reach, as ENABLED is.

## Not modelled, and plan

* `src/commands/mount.c`.  Its handlers look paths up on one global image, call
  the operations above on an image of their own, and reopen the global one
  (`nextufs_refresh_image`, whose stale reader `VdiImage` has).  One at a time
  they are the calls of `Namespace` and `FileData`.  `fuse_main` is called
  without `-s` and no handler takes a lock, so a multi-threaded mount lets two
  of them read and write the same group block, and one close the image another
  reads; the code orders nothing there that a property could rest on.  The
  hazard is listed at its line.
* Symbolic links and permission bits of path lookup (`path.c`, `node.c`).
* In `image.c`, finding a VDI's parent by its UUID and the slice inside a
  labelled disk; in `label.c` all but the slice size of each copy.
* Argument parsing and printing (`info`, `browse`, `mkfile`, `main`, `report`,
  `tools/vdi_chain.py`), and the tests with `stress.c`, which are read as the
  statement of what the program promises.
* A VDI block the parent ends in, which can be read and never written, a link
  count past sixteen bits, the exhaustion of inodes in fsck and mkimg's smallest
  sizes: hazards with a note and no property.
* Directories whose blocks are all holes, which fsck passes silently, and a
  chain of VDI parents that comes back to itself (`image.c` 646).

Theorems planned next: that formatting establishes `CylGroup`'s `GroupOk` and a
grow keeps it.
