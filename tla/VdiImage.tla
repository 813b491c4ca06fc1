------------------------------ MODULE VdiImage ------------------------------
(***************************************************************************)
(* The VDI backend of src/core/image.c: a guest disk kept as blocks, each  *)
(* in a slot of the file that the block map names, or not yet anywhere:    *)
(* then it reads from the parent image, if there is one, or as zeros.  The *)
(* first write to such a block materialises it in the slot after the last. *)
(*                                                                         *)
(* A handle reads the map and the slot count when it opens the file and    *)
(* goes by its own copies.  One handle writes at a time; beside it another *)
(* reads, as the mount's does, which is reopened only after a command has  *)
(* succeeded.  Each write to the file is a step, and any of them may fail: *)
(* the call ends there and the handle is used on, or, after a crash, gone. *)
(*                                                                         *)
(* The guest disk is counted in cells, a unit that reads and writes keep   *)
(* to.  The parent, read through the same code, is a constant content.     *)
(***************************************************************************)
EXTENDS Integers

CONSTANTS
    BlockCount,   \* block_count
    BlockCells,   \* block_size
    DiskCells,    \* disk_size: the last block may lie partly behind it
    ParentSizes,  \* the sizes of the parent images considered, 0 for none
    Values        \* contents of a cell, zero included

ASSUME VdiAssumption ==
    /\ BlockCount \in Nat \ {0} /\ BlockCells \in Nat \ {0}
    /\ DiskCells \in 1..(BlockCount * BlockCells)
    /\ ParentSizes \subseteq Nat
    /\ 0 \in Values

VARIABLES
    psize,   \* the parent's size
    base,    \* the parent's cells
    map,     \* the block map in the file
    data,    \* data[s]: the cells of slot s in the file
    count,   \* blocks_allocated in the file's header
    wr,      \* the writing handle: its copies of map and count
    call,    \* the write call it is in
    rd,      \* the reading handle's map
    guest,   \* the disk the write calls made, cell by cell
    opened,  \* guest when the reading handle was opened
    cut,     \* a call ended after the map entry and before the count
    reused   \* a block was written to a slot the map already names

file  == <<psize, base, map, data, count>>
ghost == <<guest, opened, cut, reused>>
vars  == <<file, wr, call, rd, ghost>>

Blocks == 0..(BlockCount - 1)
Slots  == 0..(BlockCount - 1)
Disk   == 0..(DiskCells - 1)
Unallocated == -1    \* VDI_MAP_UNALLOCATED
Zero        == -2    \* VDI_MAP_ZERO
Maps  == [Blocks -> Slots \cup {Unallocated, Zero}]
Cells == [0..(BlockCells - 1) -> Values]

Closed == [open |-> FALSE, map |-> [b \in Blocks |-> Unallocated], count |-> 0]
NoCall == [pc |-> "none", from |-> 0, to |-> 0, value |-> 0]

HandleRecord == [open : BOOLEAN, map : Maps, count : 0..BlockCount]
CallRecord ==
    [pc : {"none", "chunk", "data", "map", "count"}, from : Disk, to : Disk, value : Values]

TypeOK ==
    /\ psize \in ParentSizes /\ base \in [0..(psize - 1) -> Values]
    /\ map \in Maps /\ data \in [Slots -> Cells] /\ count \in 0..BlockCount
    /\ wr \in HandleRecord /\ call \in CallRecord /\ rd \in Maps
    /\ guest \in [Disk -> Values] /\ opened \in [Disk -> Values]
    /\ cut \in BOOLEAN /\ reused \in BOOLEAN

-----------------------------------------------------------------------------
BlockOf(c) == c \div BlockCells
InSlot(m, b) == m[b] \notin {Unallocated, Zero}

\* What the parent's cell c reads as: zero behind the parent's end.
Inherited(c) == IF c < psize THEN base[c] ELSE 0

\* nextufs_vdi_backend_read of one cell through a map m.
Read(m, c) ==
    CASE InSlot(m, BlockOf(c))        -> data[m[BlockOf(c)]][c % BlockCells]
      [] m[BlockOf(c)] = Unallocated  -> Inherited(c)
      [] OTHER                        -> 0

\* nextufs_vdi_materialize_block reads the whole block from the parent, which
\* refuses a read that passes its end.
ParentHas(b) == psize > 0 => (b + 1) * BlockCells <= psize
\* Mutant: what the block holds in the parent is not copied.
FirstContentZero(b) == [k \in 0..(BlockCells - 1) |-> 0]
FirstContent(b) ==
    [k \in 0..(BlockCells - 1) |->
        IF wr.map[b] = Unallocated THEN Inherited(b * BlockCells + k) ELSE 0]

\* ENOSPC and EIO of the materialisation.
\* Mutant: one slot fewer is used.
CanMaterializeOneFewer(b) ==
    /\ wr.count + 1 < BlockCount
    /\ wr.map[b] = Unallocated => ParentHas(b)
CanMaterialize(b) ==
    /\ wr.count < BlockCount
    /\ wr.map[b] = Unallocated => ParentHas(b)

OneBlockASlot == \A b, d \in Blocks : InSlot(map, b) /\ map[b] = map[d] => b = d

\* A file as VirtualBox leaves it: the slots in use are the first count ones,
\* each of one block.
Init ==
    /\ psize \in ParentSizes
    /\ base \in [0..(psize - 1) -> Values]
    /\ map \in Maps
    /\ OneBlockASlot
    /\ count \in 0..BlockCount
    /\ {map[b] : b \in {x \in Blocks : InSlot(map, x)}} = 0..(count - 1)
    /\ data \in [Slots -> Cells]
    /\ wr = Closed
    /\ call = NoCall
    /\ rd = map
    /\ guest = [c \in Disk |-> Read(map, c)]
    /\ opened = guest
    /\ cut = FALSE
    /\ reused = FALSE

-----------------------------------------------------------------------------
\* nextufs_init_backend.
Open ==
    /\ ~wr.open
    /\ wr' = [open |-> TRUE, map |-> map, count |-> count]
    /\ UNCHANGED <<file, call, rd, ghost>>

\* nextufs_vdi_backend_close.
Close ==
    /\ wr.open /\ call = NoCall
    /\ wr' = Closed
    /\ UNCHANGED <<file, call, rd, ghost>>

\* nextufs_refresh_image: the mount reopens the image it reads from.
Refresh ==
    /\ rd' = map /\ opened' = guest
    /\ UNCHANGED <<file, wr, call, guest, cut, reused>>

\* nextufs_vdi_backend_write with the cells from..to still to be written: at
\* the chunk if its block has a slot, else at the block's materialisation.  A
\* block that cannot be materialised ends the call with an error.
Continue(from, to, value) ==
    LET b == BlockOf(from)
    IN  IF from > to \/ ~(InSlot(wr.map, b) \/ CanMaterialize(b)) THEN NoCall
        ELSE [pc |-> IF InSlot(wr.map, b) THEN "chunk" ELSE "data",
              from |-> from, to |-> to, value |-> value]

Write(from, to, value) ==
    /\ wr.open /\ call = NoCall /\ from <= to
    /\ call' = Continue(from, to, value)
    /\ UNCHANGED <<file, wr, rd, ghost>>

\* The slot after the last.
\* Mutants: the last slot; slots numbered from one.
NewSlotFromOne == wr.count + 1
NewSlotLast == IF wr.count > 0 THEN wr.count - 1 ELSE 0
NewSlot == wr.count

WriteBlock ==
    LET b == BlockOf(call.from)
    IN  /\ call.pc = "data"
        /\ data' = [data EXCEPT ![NewSlot] = FirstContent(b)]
        /\ reused' = (reused \/ wr.count \in {map[x] : x \in Blocks})
        /\ call' = [call EXCEPT !.pc = "map"]
        /\ UNCHANGED <<psize, base, map, count, wr, rd, guest, opened, cut>>

\* Mutant: the handle keeps the old entry.
WriteMapNotKept ==
    LET b == BlockOf(call.from)
    IN  /\ call.pc = "map"
        /\ map' = [map EXCEPT ![b] = NewSlot]
        /\ wr' = [wr EXCEPT !.count = @ + 1]
        /\ call' = [call EXCEPT !.pc = "count"]
        /\ UNCHANGED <<psize, base, data, count, rd, ghost>>
WriteMap ==
    LET b == BlockOf(call.from)
    IN  /\ call.pc = "map"
        /\ map' = [map EXCEPT ![b] = NewSlot]
        /\ wr' = [wr EXCEPT !.map[b] = NewSlot, !.count = @ + 1]
        /\ call' = [call EXCEPT !.pc = "count"]
        /\ UNCHANGED <<psize, base, data, count, rd, ghost>>

\* Mutant: the header keeps the old count.
WriteCountSkipped ==
    /\ call.pc = "count"
    /\ call' = [call EXCEPT !.pc = "chunk"]
    /\ UNCHANGED <<file, wr, rd, ghost>>
WriteCount ==
    /\ call.pc = "count"
    /\ count' = wr.count
    /\ call' = [call EXCEPT !.pc = "chunk"]
    /\ UNCHANGED <<psize, base, map, data, wr, rd, ghost>>

\* The cells of the current chunk, up to the block's end.
Chunk == {c \in call.from..call.to : BlockOf(c) = BlockOf(call.from)}

\* The cells W of the chunk reach the file.
Store(W) ==
    LET s == wr.map[BlockOf(call.from)]
    IN  /\ data' = [data EXCEPT ![s] = [k \in DOMAIN @ |->
                      IF \E c \in W : c % BlockCells = k THEN call.value ELSE @[k]]]
        /\ guest' = [c \in Disk |-> IF c \in W THEN call.value ELSE guest[c]]

WriteChunk ==
    /\ call.pc = "chunk"
    /\ Store(Chunk)
    /\ call' = Continue((BlockOf(call.from) + 1) * BlockCells, call.to, call.value)
    /\ UNCHANGED <<psize, base, map, count, wr, rd, opened, cut, reused>>

\* The step the call is at fails, or the first cells only of a chunk are
\* written, and the call with it; or the process ends.
CutShort ==
    /\ wr.open
    /\ IF call.pc = "chunk"
       THEN \E last \in {call.from - 1} \cup Chunk : Store({c \in Chunk : c <= last})
       ELSE UNCHANGED <<data, guest>>
    /\ cut' = (cut \/ call.pc = "count")
    /\ wr' \in {wr, Closed}
    /\ call' = NoCall
    /\ UNCHANGED <<psize, base, map, count, rd, opened, reused>>

Next ==
    \/ Open \/ Close \/ Refresh
    \/ \E from, to \in Disk, value \in Values : Write(from, to, value)
    \/ WriteBlock \/ WriteMap \/ WriteCount \/ WriteChunk
    \/ CutShort

Spec == Init /\ [][Next]_vars

-----------------------------------------------------------------------------
\* Whoever opens the file, whenever, reads every cell as it was written last,
\* or inherited: in the middle of a call and after one that was cut short.
\* (image.c writes the block before the map entry that names it.)
ReadsBack == ~reused => \A c \in Disk : Read(map, c) = guest[c]

\* The writing handle's copies never fall behind the file it writes.
HandleCurrent ==
    ~reused /\ wr.open => \A c \in Disk : Read(wr.map, c) = guest[c]

\* A reading handle that was not reopened sees of each cell what it was when
\* the handle was opened or what it is now, never another block's contents.
StaleReaderOldOrNew ==
    ~reused => \A c \in Disk : Read(rd, c) \in {opened[c], guest[c]}

\* No two blocks share a slot, and none lies behind the count a later command
\* will go by, unless a call was cut short between map entry and count.
SlotsCounted ==
    ~cut =>
        /\ OneBlockASlot
        /\ \A b \in Blocks : InSlot(map, b) =>
             map[b] < count \/ (call.pc = "count" /\ b = BlockOf(call.from))

\* A slot is given twice only after a call was cut short there: the header
\* counts one slot less than the map names.
ReusedOnlyAfterCut == reused => cut

\* There is a slot for every block that has none: ENOSPC never comes early,
\* and a write fails only on a block the parent ends in.
RoomForAll ==
    wr.open => \A b \in Blocks :
        ~InSlot(wr.map, b) /\ (wr.map[b] = Unallocated => ParentHas(b)) => CanMaterialize(b)
=============================================================================
