------------------------------ MODULE FileData ------------------------------
(***************************************************************************)
(* The contents of files: allocate_data_for_inode and free_file_storage of *)
(* src/core/alloc.c, the reader of src/core/image.c, and the calls of      *)
(* src/mutate/mutate.c that store contents anew.                           *)
(*                                                                         *)
(* An inode names its first Direct blocks itself and the rest through      *)
(* trees of one, two and three levels of indirect blocks.  To change a     *)
(* file its whole contents are stored in fresh blocks, then the inode is   *)
(* written, then the old blocks are freed.  Each access to the image is a  *)
(* step; it may fail, and the process may end before any of them, so that  *)
(* what holds of the image in every state holds after a crash.             *)
(*                                                                         *)
(* Sizes and contents are counted in fragments.  What a call stores is its *)
(* number, zero what the code fills with.  A run is given a block of its   *)
(* own, the lowest that is free: which run the allocator picks is          *)
(* FragAlloc's matter.                                                     *)
(***************************************************************************)
EXTENDS Integers, Sequences, SequencesExt, FiniteSets, FiniteSetsExt

CONSTANTS
    Files,
    NBlocks,         \* blocks of the image, numbered from one; zero names none
    FragsPerBlock,   \* fs_frag
    Direct,          \* the twelve of db
    Entries,         \* entries of an indirect block, at least two
    Sizes,           \* sizes given to the calls, in fragments
    Writes,          \* pairs of offset and length given to pwrite
    MaxCalls,        \* bound: calls of one behaviour
    MaxErrors        \* bound: accesses that fail

ASSUME FileDataAssumption ==
    /\ {NBlocks, FragsPerBlock, Direct, Entries} \subseteq Nat \ {0}
    /\ Sizes \subseteq Nat /\ Writes \subseteq Nat \X (Nat \ {0})
    /\ {MaxCalls, MaxErrors} \subseteq Nat

VARIABLES
    used,      \* used[b]: fragments of block b that are allocated
    bytes,     \* bytes[b]: block b read as data (val) and as entries (ent)
    disk,      \* the inodes of the files as written
    call,      \* the call in progress
    live,      \* the files that have a name
    contents,  \* contents[f]: what the calls on f stored last
    calls,     \* calls begun
    errors,    \* accesses that failed
    lost       \* blocks a call that failed left allocated for nobody

vars == <<used, bytes, disk, call, live, contents, calls, errors, lost>>

Blocks == 1..NBlocks
Slots  == 0..2                  \* the trees of ib
Index  == 0..(Entries - 1)
Empty  == [size |-> 0, db |-> [i \in 0..(Direct - 1) |-> 0], ib |-> [s \in Slots |-> 0], blocks |-> 0]
Idle   == [pc |-> "idle"]
NoEntries == [i \in Index |-> 0]

-----------------------------------------------------------------------------
(* Where a logical block lies.                                             *)
Ceil(n) == (n + FragsPerBlock - 1) \div FragsPerBlock

\* Fragments of logical block k of a file of that size: frags_needed.
FragsOf(k, size) ==
    IF k >= Direct THEN FragsPerBlock ELSE Min({size - k * FragsPerBlock, FragsPerBlock})

\* The logical blocks behind one entry of a block of that level.
Span[level \in 1..4] == IF level = 1 THEN 1 ELSE Entries * Span[level - 1]

\* Base[s]: the first logical block of slot s's tree.
Base[s \in 0..3] == IF s = 0 THEN Direct ELSE Base[s - 1] + Span[s + 1]

\* The tree of each logical block behind the direct ones.
SlotOf == [k \in Direct..(Base[3] - 1) |-> CHOOSE s \in Slots : Base[s] <= k /\ k < Base[s + 1]]

\* No file is too big (EFBIG): with the code's 2048 entries the trees name more
\* blocks than there are fragment numbers of 32 bits.
Fits(size) == Ceil(size) <= Base[3]

\* The way from the tree's root: the entry of each level.
\* Mutant: the span of the level above.
EntryAtAbove(ix, level) == (ix \div Span[level + 1]) % Entries
EntryAt(ix, level) == (ix \div Span[level]) % Entries

\* resolve_inode_data_block and resolve_file_block_frag: 0 is a hole.
Resolve(ino, k) ==
    IF k < Direct THEN ino.db[k]
    ELSE LET s  == SlotOf[k]
             ix == k - Base[s]
             down[level \in 0..(s + 1)] ==
                 IF level = s + 1 THEN ino.ib[s]
                 ELSE LET b == down[level + 1]
                      IN  IF b = 0 THEN 0 ELSE bytes[b].ent[EntryAt(ix, level + 1)]
         IN  down[0]

\* The blocks of the tree of that many levels at b, children first.
Tree(b, levels) ==
    LET post[l \in 1..levels] ==
            [x \in 0..NBlocks |->
                IF x = 0 THEN <<>>
                ELSE (IF l = 1 THEN <<>>
                      ELSE FlattenSeq([i \in 1..Entries |-> post[l - 1][bytes[x].ent[i - 1]]]))
                     \o <<x>>]
    IN  post[levels][b]

\* The runs free_file_storage frees, in its order, each of the data or of a tree.
NoSlot == -1
DataRuns(ino) ==
    FlattenSeq([i \in 1..Ceil(ino.size) |->
        LET b == Resolve(ino, i - 1)
        IN  IF b = 0 THEN <<>>
            ELSE <<[block |-> b, frags |-> FragsOf(i - 1, ino.size), slot |-> NoSlot]>>])
TreeRuns(ino) ==
    LET runs(s) == LET t == Tree(ino.ib[s], s + 1)
                   IN  [i \in DOMAIN t |-> [block |-> t[i], frags |-> FragsPerBlock, slot |-> s]]
    IN  runs(0) \o runs(1) \o runs(2)
RunsOf(ino) == DataRuns(ino) \o TreeRuns(ino)

\* nextufs_inode_read_data of one fragment.  A hole reads as zeros, but where
\* resolve_inode_data_block finds one the reader refuses a tree without a root
\* (EINVAL): the read fails.
Refused == -1
ReadFrag(ino, n) ==
    LET k == n \div FragsPerBlock
    IN  IF k >= Direct /\ ino.ib[SlotOf[k]] = 0 THEN Refused
        ELSE LET b == Resolve(ino, k) IN IF b = 0 THEN 0 ELSE bytes[b].val[n % FragsPerBlock]
ReadFile(ino) == [i \in 1..ino.size |-> ReadFrag(ino, i - 1)]
Readable(ino) == \A i \in 1..ino.size : ReadFrag(ino, i - 1) # Refused

-----------------------------------------------------------------------------
(* The allocator.                                                          *)
FreeBlocks == {b \in Blocks : used[b] = 0}
Taken(b, frags) == [used EXCEPT ![b] = frags]
\* Mutant: a whole block whatever the run was.
FreedWhole(b, frags) == [used EXCEPT ![b] = @ - FragsPerBlock]
Freed(b, frags) == [used EXCEPT ![b] = @ - frags]

\* What a free block holds is anything: whoever allocates it writes all of it
\* before reading.  As entries data would name any block.
NotEntries == [i \in Index |-> 1]
Zeros == [j \in 0..(FragsPerBlock - 1) |-> 0]
Junk == [val |-> Zeros, ent |-> NotEntries]

Fail == errors < MaxErrors /\ errors' = errors + 1
Fine == UNCHANGED errors

Init ==
    /\ used = [b \in Blocks |-> 0]
    /\ bytes = [b \in Blocks |-> Junk]
    /\ disk = [f \in Files |-> Empty]
    /\ call = Idle
    /\ live = {}
    /\ contents = [f \in Files |-> <<>>]
    /\ calls = 0 /\ errors = 0 /\ lost = {}

-----------------------------------------------------------------------------
(* The calls.  Each begins a store of buf in an empty inode, or the freeing *)
(* of a file's storage.                                                    *)
Storing(kind, f, ino, size, buf) ==
    [pc |-> "alloc", kind |-> kind, file |-> f, ino |-> ino, frags |-> 0, size |-> size,
     buf |-> buf, k |-> 0, hand |-> 0, at |-> 0, level |-> 0, todo |-> <<>>, old |-> disk[f]]

\* What the free blocks held is forgotten.
Begin ==
    /\ call = Idle /\ calls < MaxCalls /\ calls' = calls + 1
    /\ bytes' = [b \in Blocks |-> IF used[b] = 0 THEN Junk ELSE bytes[b]]

\* nextufs_path_create_file sets the size before anything is stored.
Stamp == calls + 1
Create(f, size) ==
    /\ Begin /\ f \notin live /\ disk[f] = Empty /\ Fits(size)
    /\ call' = Storing("create", f, [Empty EXCEPT !.size = size], size, [i \in 1..size |-> Stamp])
    /\ UNCHANGED <<used, disk, live, contents, errors, lost>>

\* rewrite_inode_contents stores buf in place of what f holds.
Rewrite(f, buf) ==
    /\ Begin /\ f \in live /\ Fits(Len(buf))
    /\ call' = Storing("rewrite", f, Empty, Len(buf), buf)
    /\ UNCHANGED <<used, disk, live, contents, errors, lost>>

\* nextufs_path_overwrite_file and nextufs_path_append_file.
Overwrite(f, size) == Rewrite(f, [i \in 1..size |-> Stamp])
AppendTo(f, size) ==
    Readable(disk[f]) /\ Rewrite(f, ReadFile(disk[f]) \o [i \in 1..size |-> Stamp])

\* nextufs_path_truncate: what is read, cut or filled with zeros.
Truncate(f, size) ==
    /\ Readable(disk[f])
    /\ LET read == ReadFile(disk[f])
       IN  Rewrite(f, [i \in 1..size |-> IF i <= Len(read) THEN read[i] ELSE 0])

\* nextufs_path_pwrite; a gap behind the old end is filled with zeros.
Pwrite(f, offset, length) ==
    /\ Readable(disk[f])
    /\ LET read == ReadFile(disk[f])
       IN  Rewrite(f, [i \in 1..Max({Len(read), offset + length}) |->
                         IF i \in (offset + 1)..(offset + length) THEN Stamp
                         ELSE IF i <= Len(read) THEN read[i] ELSE 0])

\* nextufs_path_unlink: the name goes, then the storage, then the inode.
Unlink(f) ==
    /\ Begin /\ f \in live
    /\ live' = live \ {f}
    /\ contents' = [contents EXCEPT ![f] = <<>>]
    /\ call' = [Storing("unlink", f, disk[f], 0, <<>>) EXCEPT !.pc = "unlink", !.todo = RunsOf(disk[f])]
    /\ UNCHANGED <<used, disk, errors, lost>>

-----------------------------------------------------------------------------
(* allocate_data_for_inode.                                                *)

\* Its failure frees what was stored: free_file_storage of the inode as it is.
\* Mutant: of the data only.
UndoDataOnly == call' = [call EXCEPT !.pc = "undo", !.todo = DataRuns(call.ino)]
Undo == call' = [call EXCEPT !.pc = "undo", !.todo = RunsOf(call.ino)]

NothingLeft == call.k = Ceil(call.size)

\* The allocator fails before it has written the group block, or behind it when
\* a summary is not written: then the run is taken and nobody learns of it.
TakenForNobody(b, frags) ==
    /\ FreeBlocks # {} /\ Fail
    /\ used' = Taken(b, frags) /\ lost' = lost \cup {b}

AllocRun ==
    LET frags == FragsOf(call.k, call.size)
        b     == Min(FreeBlocks)
    IN  /\ call.pc = "alloc" /\ ~NothingLeft
        /\ \/ /\ FreeBlocks # {} /\ Fine
              /\ used' = Taken(b, frags)
              /\ call' = [call EXCEPT !.pc = "set", !.hand = b]
              /\ UNCHANGED lost
           \/ FreeBlocks = {} /\ Fine /\ Undo /\ UNCHANGED <<used, lost>>
           \/ Fail /\ Undo /\ UNCHANGED <<used, lost>>
           \/ TakenForNobody(b, frags) /\ Undo
        /\ UNCHANGED <<bytes, disk, live, contents, calls>>

\* set_inode_data_block failed: the run in hand is given back before the rest
\* is, and nobody looks whether that fails.  Behind the group block it fails
\* with the run given back.
PutBack == call' = [call EXCEPT !.pc = "putback"]
GiveBack ==
    /\ call.pc = "putback" /\ Undo
    /\ \/ /\ Fine \/ Fail
          /\ used' = Freed(call.hand, FragsOf(call.k, call.size)) /\ UNCHANGED lost
       \/ Fail /\ lost' = lost \cup {call.hand} /\ UNCHANGED used
    /\ UNCHANGED <<bytes, disk, live, contents, calls>>

\* set_inode_data_block: a direct block, or the root of a tree.
SetDirect ==
    /\ call.pc = "set" /\ call.k < Direct
    /\ call' = [call EXCEPT !.pc = "fill", !.ino.db[call.k] = call.hand]
    /\ UNCHANGED <<used, bytes, disk, live, contents, calls, errors, lost>>

SetRoot ==
    LET s == SlotOf[call.k]
    IN  /\ call.pc = "set" /\ call.k >= Direct /\ call.ino.ib[s] # 0
        /\ call' = [call EXCEPT !.pc = "walk", !.at = call.ino.ib[s], !.level = s + 1]
        /\ UNCHANGED <<used, bytes, disk, live, contents, calls, errors, lost>>

\* allocate_zeroed_full_block, for a root or for an entry: link is the call
\* with the new block in its place.
\* Mutant: the block is not zeroed.
ZeroedNot(b) == bytes
Zeroed(b) == [bytes EXCEPT ![b] = [val |-> Zeros, ent |-> NoEntries]]

\* The new block, when its allocation fails behind the group block.  The zeros
\* or the entry not written and the block then not given back is the same with
\* one failed access more.
BlockLost(b) == TakenForNobody(b, FragsPerBlock) /\ PutBack /\ UNCHANGED bytes

NewRoot ==
    LET s == SlotOf[call.k]
        b == Min(FreeBlocks)
    IN  /\ call.pc = "set" /\ call.k >= Direct /\ call.ino.ib[s] = 0
        /\ \/ /\ FreeBlocks # {} /\ Fine
              /\ used' = Taken(b, FragsPerBlock) /\ bytes' = Zeroed(b)
              /\ call' = [call EXCEPT !.ino.ib[s] = b, !.frags = @ + FragsPerBlock]
              /\ UNCHANGED lost
           \/ FreeBlocks = {} /\ Fine /\ PutBack /\ UNCHANGED <<used, bytes, lost>>
           \/ Fail /\ PutBack /\ UNCHANGED <<used, bytes, lost>>
           \/ BlockLost(b)
        /\ UNCHANGED <<disk, live, contents, calls>>

\* set_indirect_data_block at the block call.at of that level.
Here == EntryAt(call.k - Base[SlotOf[call.k]], call.level)
Child == bytes[call.at].ent[Here]
Linked(x) == [bytes EXCEPT ![call.at].ent[Here] = x]

\* A write to the entry that fails gives the new block back as well.
Descend ==
    /\ call.pc = "walk" /\ call.level > 1 /\ Child # 0
    /\ \/ Fine /\ call' = [call EXCEPT !.at = Child, !.level = @ - 1]
       \/ Fail /\ PutBack
    /\ UNCHANGED <<used, bytes, disk, live, contents, calls, lost>>

NewChild ==
    LET b == Min(FreeBlocks)
    IN  /\ call.pc = "walk" /\ call.level > 1 /\ Child = 0
        /\ \/ /\ FreeBlocks # {} /\ Fine
              /\ used' = Taken(b, FragsPerBlock)
              /\ bytes' = [Zeroed(b) EXCEPT ![call.at].ent[Here] = b]
              /\ call' = [call EXCEPT !.at = b, !.level = @ - 1, !.frags = @ + FragsPerBlock]
              /\ UNCHANGED lost
           \/ FreeBlocks = {} /\ Fine /\ PutBack /\ UNCHANGED <<used, bytes, lost>>
           \/ Fail /\ PutBack /\ UNCHANGED <<used, bytes, lost>>
           \/ BlockLost(b)
        /\ UNCHANGED <<disk, live, contents, calls>>

WriteEntry ==
    /\ call.pc = "walk" /\ call.level = 1
    /\ \/ Fine /\ bytes' = Linked(call.hand) /\ call' = [call EXCEPT !.pc = "fill"]
       \/ Fail /\ PutBack /\ UNCHANGED bytes
    /\ UNCHANGED <<used, disk, live, contents, calls, lost>>

\* The inode's size and block count, then the data.
\* Mutant: the tail is counted as a whole block.
GrownWhole ==
    LET frags == call.frags + FragsPerBlock
    IN  [call EXCEPT !.frags = frags, !.ino.blocks = frags,
                     !.ino.size = Min({call.size, (call.k + 1) * FragsPerBlock})]
Grown ==
    LET frags == call.frags + FragsOf(call.k, call.size)
    IN  [call EXCEPT !.frags = frags, !.ino.blocks = frags,
                     !.ino.size = Min({call.size, (call.k + 1) * FragsPerBlock})]
\* The part of buf that block k gets, zeros behind it.
Chunk ==
    [j \in 0..(FragsPerBlock - 1) |->
        LET n == call.k * FragsPerBlock + j IN IF n < call.size THEN call.buf[n + 1] ELSE 0]
Fill ==
    /\ call.pc = "fill"
    /\ \/ /\ Fine
          /\ bytes' = [bytes EXCEPT ![call.hand] = [val |-> Chunk, ent |-> NotEntries]]
          /\ call' = [Grown EXCEPT !.pc = "alloc", !.k = @ + 1, !.hand = 0]
       \/ /\ Fail /\ UNCHANGED bytes
          /\ call' = [Grown EXCEPT !.pc = "undo", !.todo = RunsOf(Grown.ino)]
    /\ UNCHANGED <<used, disk, live, contents, calls, lost>>

Stored ==
    /\ call.pc = "alloc" /\ NothingLeft
    /\ call' = [call EXCEPT !.pc = "inode", !.ino.size = call.size, !.ino.blocks = call.frags]
    /\ UNCHANGED <<used, bytes, disk, live, contents, calls, errors, lost>>

-----------------------------------------------------------------------------
(* The callers.                                                            *)
\* discard_new_inode of the inode as it is.
Discard(ino) == call' = [call EXCEPT !.pc = "discard", !.ino = ino, !.todo = RunsOf(ino)]

\* What free_file_storage leaves in the inode when it fails before the runs of
\* todo are freed: the direct blocks are struck out behind the data, each tree
\* behind its last block, the size at the end.
LeftOf(ino, todo) ==
    LET slots == {todo[i].slot : i \in DOMAIN todo}
    IN  [ino EXCEPT !.db = IF NoSlot \in slots THEN @ ELSE Empty.db,
                    !.ib = [s \in Slots |-> IF s \in slots THEN @[s] ELSE 0]]

\* The inode rewrite_inode_contents frees.
\* Mutant: the one it has just stored.
ReplacedNew == call.ino
Replaced == call.old

\* The blocks of the runs that are still allocated.
Abandoned(runs, u) == {b \in {runs[i].block : i \in DOMAIN runs} : u[b] > 0}

\* write_inode_raw: in create the name follows, in rewrite_inode_contents the
\* old storage is freed.  When it fails the latter leaves the new storage taken.
WriteInode ==
    /\ call.pc = "inode"
    /\ \/ /\ Fine /\ disk' = [disk EXCEPT ![call.file] = call.ino] /\ UNCHANGED lost
          /\ IF call.kind = "create"
             THEN call' = [call EXCEPT !.pc = "name"] /\ UNCHANGED contents
             ELSE /\ call' = [call EXCEPT !.pc = "old", !.todo = RunsOf(Replaced)]
                  /\ contents' = [contents EXCEPT ![call.file] = call.buf]
       \/ /\ Fail /\ UNCHANGED <<disk, contents>>
          /\ IF call.kind = "create" THEN Discard(call.ino) /\ UNCHANGED lost
             ELSE call' = Idle /\ lost' = lost \cup Abandoned(RunsOf(call.ino), used)
    /\ UNCHANGED <<used, bytes, live, calls>>

\* insert_dirent, which may find the directory full.
WriteName ==
    /\ call.pc = "name"
    /\ \/ /\ call' = Idle /\ live' = live \cup {call.file}
          /\ contents' = [contents EXCEPT ![call.file] = call.buf]
       \/ Discard(call.ino) /\ UNCHANGED <<live, contents>>
    /\ UNCHANGED <<used, bytes, disk, calls, errors, lost>>

\* free_file_storage frees the next run.  A run that is not allocated is refused;
\* a summary not written fails behind the group block, the run given back.
Freeing == {"undo", "discard", "old", "unlink"}
FreeRun ==
    LET r == Head(call.todo)
        allocated == used[r.block] >= r.frags
    IN  /\ call.pc \in Freeing /\ call.todo # <<>>
        /\ \/ /\ Fine /\ allocated
              /\ used' = Freed(r.block, r.frags)
              /\ call' = [call EXCEPT !.todo = Tail(@)]
              /\ UNCHANGED lost
           \/ /\ \/ Fail /\ allocated /\ used' = Freed(r.block, r.frags)
                 \/ (IF allocated THEN Fail ELSE Fine) /\ UNCHANGED used
              /\ IF call.pc = "undo" /\ call.kind = "create"
                 THEN Discard(LeftOf(call.ino, call.todo)) /\ UNCHANGED lost
                 ELSE call' = Idle /\ lost' = lost \cup Abandoned(call.todo, used')
        /\ UNCHANGED <<bytes, disk, live, contents, calls>>

AllFreed ==
    /\ call.pc \in Freeing /\ call.todo = <<>>
    /\ call' = IF call.kind = "rewrite" THEN Idle ELSE [call EXCEPT !.pc = "clear"]
    /\ UNCHANGED <<used, bytes, disk, live, contents, calls, errors, lost>>

\* The inode is cleared and given back.
Clear ==
    /\ call.pc = "clear"
    /\ \/ Fine /\ disk' = [disk EXCEPT ![call.file] = Empty]
       \/ Fail /\ UNCHANGED disk
    /\ call' = Idle
    /\ UNCHANGED <<used, bytes, live, contents, calls, lost>>

Next ==
    \/ \E f \in Files, size \in Sizes : Create(f, size)
    \/ \E f \in Files, size \in Sizes : Overwrite(f, size)
    \/ \E f \in Files, size \in Sizes : AppendTo(f, size)
    \/ \E f \in Files, size \in Sizes : Truncate(f, size)
    \/ \E f \in Files, w \in Writes : Pwrite(f, w[1], w[2])
    \/ \E f \in Files : Unlink(f)
    \/ AllocRun \/ GiveBack \/ SetDirect \/ SetRoot \/ NewRoot
    \/ Descend \/ NewChild \/ WriteEntry \/ Fill \/ Stored
    \/ WriteInode \/ WriteName \/ FreeRun \/ AllFreed \/ Clear

Spec == Init /\ [][Next]_vars

-----------------------------------------------------------------------------
TypeOK ==
    /\ used \in [Blocks -> 0..FragsPerBlock]
    /\ bytes \in [Blocks -> [val : [0..(FragsPerBlock - 1) -> 0..MaxCalls], ent : [Index -> 0..NBlocks]]]
    /\ \A f \in Files : LET ino == disk[f] IN
         /\ ino.size \in Nat /\ ino.blocks \in Nat
         /\ ino.db \in [0..(Direct - 1) -> 0..NBlocks] /\ ino.ib \in [Slots -> 0..NBlocks]
    /\ call # Idle => call.file \in Files /\ call.hand \in 0..NBlocks /\ call.at \in 0..NBlocks
    /\ live \subseteq Files /\ calls \in 0..MaxCalls /\ errors \in 0..MaxErrors /\ lost \subseteq Blocks

\* In every state, and so after a crash in any of them, a file with a name
\* reads as the last call that wrote its inode left it: rewrite_inode_contents
\* stores in fresh blocks and frees the old ones after the inode.
ReadsOldOrNew == \A f \in live : ReadFile(disk[f]) = contents[f]

\* What the inodes of the files with a name reach: <<file, place, run>>.
Reached ==
    UNION {LET runs == RunsOf(disk[f])
           IN  {<<f, i, runs[i]>> : i \in DOMAIN runs} : f \in live}

\* It is allocated run by run and reached once, by one file: at every step of
\* every call of mutate.c, whatever failed before.
NamedFilesBacked ==
    LET reached == Reached
    IN  /\ \A x \in reached : used[x[3].block] = x[3].frags
        /\ Cardinality({x[3].block : x \in reached}) = Cardinality(reached)

\* Between calls exactly those blocks are allocated and the lost ones, which no
\* named file reaches.  A call that finds the disk full gives back all it took,
\* trees half built included; so does one that fails to write, unless what
\* failed is an allocation behind its group block, the giving back, or the inode
\* of rewrite_inode_contents.  Nothing is lost while no access has failed:
\* free_fragment_run refuses no run of its own accord.
NothingLost ==
    LET reached == {x[3].block : x \in Reached}
    IN  /\ call = Idle => {b \in Blocks : used[b] > 0} = reached \cup lost
        /\ lost \cap reached = {}
        /\ lost # {} => errors > 0

\* di_blocks, summed as allocate_data_for_inode goes, counts the fragments of
\* the data and of the trees: what fsck pass 1 compares it with.
BlocksCounted ==
    /\ TypeOK
    /\ \A f \in live :
           LET runs == RunsOf(disk[f])
           IN  disk[f].blocks = MapThenSumSet(LAMBDA i : runs[i].frags, DOMAIN runs)
=============================================================================
