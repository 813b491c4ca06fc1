--------------------------- MODULE VdiImage_proofs ---------------------------
(***************************************************************************)
(* What the VDI backend writes is what it reads back, for every geometry,  *)
(* every parent and every place a call is cut short, as long as no slot is *)
(* given out twice, and that takes a call cut short between map entry and  *)
(* count.                                                                  *)
(*                                                                         *)
(* The inductive invariant relates the file, both handles and the call in  *)
(* progress: no slot is named twice, the writing handle's map is the       *)
(* file's, the slot about to be named holds the block's old contents, and  *)
(* the reading handle differs from the file only in blocks that had no     *)
(* slot when it was opened.                                                *)
(***************************************************************************)
EXTENDS VdiImage, FiniteSetTheorems, TLAPS

Offsets == 0..(BlockCells - 1)

\* What needs no history: the call belongs to an open handle and is where the
\* block's map entry says.
CallPlaced ==
    /\ call.pc # "none" => wr.open /\ call.from <= call.to
    /\ call.pc \in {"data", "map"} =>
         wr.count < BlockCount /\ ~InSlot(wr.map, BlockOf(call.from))
    /\ call.pc \in {"count", "chunk"} => InSlot(wr.map, BlockOf(call.from))

\* The slot that the next map entry will name is free and holds the block.
Prepared ==
    call.pc = "map" =>
        /\ wr.count \notin {map[x] : x \in Blocks}
        /\ data[wr.count] = FirstContent(BlockOf(call.from))

\* The reading handle knows every slot it names, and sees the others as they were.
ReaderFollows ==
    \A b \in Blocks :
        IF InSlot(rd, b) THEN rd[b] = map[b]
        ELSE \A c \in Disk : BlockOf(c) = b => Read(rd, c) = opened[c]

\* The file reads as it was written.
AsWritten == \A c \in Disk : Read(map, c) = guest[c]

Faithful ==
    /\ AsWritten
    /\ wr.open => wr.map = map
    /\ OneBlockASlot
    /\ Prepared
    /\ ReaderFollows

\* While no call was cut short there, the count is the file's number of slots.
Counted ==
    /\ wr.open => wr.count = IF call.pc = "count" THEN count + 1 ELSE count
    /\ wr.open => wr.map = map
    /\ \A b \in Blocks : InSlot(map, b) =>
         map[b] < count \/ (call.pc = "count" /\ b = BlockOf(call.from) /\ map[b] = count)
    /\ OneBlockASlot

-----------------------------------------------------------------------------
LEMMA ProductMonotone ==
    ASSUME NEW a \in Nat, NEW b \in Nat, NEW n \in Nat, a <= b
    PROVE  a * n <= b * n
<1> DEFINE k == b - a
<1>1. k \in Nat /\ b = a + k
  OBVIOUS
<1>2. k * n \in Nat /\ a * n \in Nat
  BY <1>1
<1>3. (a + k) * n = a * n + k * n
  BY <1>1, SMT
<1>4. QED BY <1>1, <1>2, <1>3

LEMMA Cell ==
    ASSUME NEW c \in Disk
    PROVE  /\ c \in Nat /\ BlockOf(c) \in Blocks /\ c % BlockCells \in Offsets
           /\ c = BlockOf(c) * BlockCells + (c % BlockCells)
<1> DEFINE B == BlockCells  q == c \div BlockCells  r == c % BlockCells
<1>1. B \in Nat /\ B > 0 /\ BlockCount \in Nat /\ BlockCount > 0 /\ DiskCells \in Nat
      /\ DiskCells <= BlockCount * B /\ c \in Nat /\ c < DiskCells
  BY VdiAssumption DEF Disk
<1>2. q \in Nat /\ r \in 0..(B - 1) /\ c = q * B + r
  BY <1>1, SMT
<1>3. q < BlockCount
  <2>1. SUFFICES ASSUME q >= BlockCount PROVE FALSE
    BY <1>1, <1>2
  <2>2. q * B >= BlockCount * B
    BY <1>1, <1>2, <2>1, ProductMonotone
  <2>3. QED BY <1>1, <1>2, <2>2, SMT
<1>4. q \in 0..(BlockCount - 1)
  <2> HIDE DEF q
  <2>1. QED BY <1>1, <1>2, <1>3
<1>5. QED BY <1>1, <1>2, <1>4 DEF BlockOf, Blocks, Offsets

LEMMA SameCell ==
    ASSUME NEW c \in Disk, NEW d \in Disk,
           BlockOf(c) = BlockOf(d), c % BlockCells = d % BlockCells
    PROVE  c = d
<1> DEFINE at(q, r) == q * BlockCells + r
<1>1. c = at(BlockOf(c), c % BlockCells)
  BY Cell
<1>2. d = at(BlockOf(d), d % BlockCells)
  BY Cell
<1> HIDE DEF at
<1>3. QED BY <1>1, <1>2, Zenon
-----------------------------------------------------------------------------
LEMMA FirstCell == 0 \in Disk /\ 0 \in Values /\ NoCall \in CallRecord
BY VdiAssumption DEF Disk, NoCall, CallRecord

LEMMA DiskUpTo ==
    ASSUME NEW from \in Nat, NEW to \in Disk, ~(from > to)
    PROVE  from \in Disk /\ from <= to
<1>1. DiskCells \in Nat
  BY VdiAssumption
<1>2. QED BY <1>1 DEF Disk

\* Where a write call goes on, its record is placed.
LEMMA ContinuePlaced ==
    ASSUME NEW from \in Nat, NEW to \in Disk, NEW value \in Values, NEW k,
           k = Continue(from, to, value)
    PROVE  /\ k \in CallRecord
           /\ k.pc \in {"none", "chunk", "data"}
           /\ k.pc # "none" => k.from <= k.to
           /\ k.pc = "data" => wr.count < BlockCount /\ ~InSlot(wr.map, BlockOf(k.from))
           /\ k.pc = "chunk" => InSlot(wr.map, BlockOf(k.from))
<1> DEFINE stops == from > to \/ ~(InSlot(wr.map, BlockOf(from)) \/ CanMaterialize(BlockOf(from)))
           at(pc) == [pc |-> pc, from |-> from, to |-> to, value |-> value]
<1>1. CASE stops
  <2>1. k = NoCall
    BY <1>1 DEF Continue
  <2>2. QED BY <2>1, FirstCell DEF NoCall
<1>2. CASE ~stops /\ InSlot(wr.map, BlockOf(from))
  <2>1. k = at("chunk")
    BY <1>2 DEF Continue
  <2>2. from \in Disk /\ from <= to
    BY <1>2, DiskUpTo
  <2>3. QED BY <1>2, <2>1, <2>2 DEF CallRecord
<1>3. CASE ~stops /\ ~InSlot(wr.map, BlockOf(from))
  <2>1. k = at("data")
    BY <1>3 DEF Continue
  <2>2. from \in Disk /\ from <= to
    BY <1>3, DiskUpTo
  <2>3. wr.count < BlockCount
    BY <1>3 DEF CanMaterialize
  <2>4. QED BY <1>3, <2>1, <2>2, <2>3 DEF CallRecord
<1>4. QED BY <1>1, <1>2, <1>3

\* The file's contents are values.
Contents ==
    /\ psize \in ParentSizes /\ base \in [0..(psize - 1) -> Values]
    /\ data \in [Slots -> Cells]

LEMMA InheritedType ==
    ASSUME Contents, NEW c \in Nat
    PROVE  Inherited(c) \in Values
BY VdiAssumption DEF Contents, Inherited

LEMMA ReadType ==
    ASSUME Contents, NEW m \in Maps, NEW c \in Disk
    PROVE  Read(m, c) \in Values
<1>1. c \in Nat /\ BlockOf(c) \in Blocks /\ c % BlockCells \in Offsets
  BY Cell
<1>2. Inherited(c) \in Values /\ 0 \in Values
  BY <1>1, InheritedType, FirstCell
<1>3. ASSUME InSlot(m, BlockOf(c))
      PROVE  data[m[BlockOf(c)]][c % BlockCells] \in Values
  <2>1. m[BlockOf(c)] \in Slots
    BY <1>1, <1>3 DEF Maps, InSlot
  <2>2. data[m[BlockOf(c)]] \in [Offsets -> Values]
    BY <2>1 DEF Contents, Cells, Offsets
  <2>3. QED BY <1>1, <2>2
<1>4. QED BY <1>2, <1>3 DEF Read

LEMMA FirstContentType ==
    ASSUME Contents, NEW b \in Blocks
    PROVE  FirstContent(b) \in Cells
<1>1. SUFFICES ASSUME NEW k \in Offsets
              PROVE  (IF wr.map[b] = Unallocated THEN Inherited(b * BlockCells + k) ELSE 0) \in Values
  BY DEF FirstContent, Cells, Offsets
<1>2. b * BlockCells + k \in Nat
  <2>1. b \in Nat /\ k \in Nat /\ BlockCells \in Nat
    BY VdiAssumption DEF Blocks, Offsets
  <2>2. b * BlockCells \in Nat
    BY <2>1
  <2>3. QED BY <2>1, <2>2
<1>3. QED BY <1>2, InheritedType, FirstCell

\* The materialised block holds what was read there before.
LEMMA FirstContentReads ==
    ASSUME NEW c \in Disk, ~InSlot(wr.map, BlockOf(c))
    PROVE  FirstContent(BlockOf(c))[c % BlockCells] = Read(wr.map, c)
<1> DEFINE b == BlockOf(c)  k == c % BlockCells
<1>1. k \in 0..(BlockCells - 1) /\ b * BlockCells + k = c
  BY Cell DEF Offsets
<1>2. FirstContent(b)[k] = IF wr.map[b] = Unallocated THEN Inherited(b * BlockCells + k) ELSE 0
  BY <1>1 DEF FirstContent
<1>3. Read(wr.map, c) = IF wr.map[b] = Unallocated THEN Inherited(c) ELSE 0
  BY DEF Read, InSlot
<1>4. QED BY <1>1, <1>2, <1>3


-----------------------------------------------------------------------------
LEMMA ClosedType == Closed \in HandleRecord /\ Closed.open = FALSE
BY VdiAssumption DEF Closed, HandleRecord, Maps

\* Storing part of a chunk keeps the types.
LEMMA StoreType ==
    ASSUME TypeOK, NEW W, Store(W)
    PROVE  data' \in [Slots -> Cells] /\ guest' \in [Disk -> Values]
<1> DEFINE s == wr.map[BlockOf(call.from)]
           new == [k \in DOMAIN data[s] |->
                      IF \E c \in W : c % BlockCells = k THEN call.value ELSE data[s][k]]
<1>1. call.value \in Values
  BY DEF CallRecord, TypeOK
<1>2. data' = [data EXCEPT ![s] = new] /\ guest' = [c \in Disk |-> IF c \in W THEN call.value ELSE guest[c]]
  BY DEF Store
<1>3. ASSUME s \in Slots PROVE new \in Cells
  <2>1. data[s] \in [Offsets -> Values]
    BY <1>3 DEF Cells, Offsets, TypeOK
  <2> HIDE DEF s
  <2>2. new \in [Offsets -> Values]
    BY <1>1, <2>1
  <2>3. QED BY <2>2 DEF Cells, Offsets
<1>4. data \in [Slots -> Cells] /\ guest \in [Disk -> Values]
  BY DEF TypeOK
<1> HIDE DEF s, new
<1>5. data' \in [Slots -> Cells]
  BY <1>2, <1>3, <1>4
<1>6. guest' \in [Disk -> Values]
  BY <1>1, <1>2, <1>4
<1>7. QED BY <1>5, <1>6

Typed == TypeOK /\ CallPlaced

LEMMA TypedInit == Init => Typed
<1> SUFFICES ASSUME Init PROVE Typed
  OBVIOUS
<1>1. psize \in ParentSizes /\ base \in [0..(psize - 1) -> Values] /\ map \in Maps
      /\ data \in [Slots -> Cells] /\ rd \in Maps /\ cut \in BOOLEAN /\ reused \in BOOLEAN
  BY DEF Init
<1>2. count \in 0..BlockCount
  BY DEF Init
<1>3. wr \in HandleRecord /\ call \in CallRecord /\ call.pc = "none"
  BY ClosedType, FirstCell DEF Init, NoCall
<1>4. guest \in [Disk -> Values] /\ opened \in [Disk -> Values]
  <2>1. ASSUME NEW c \in Disk PROVE Read(map, c) \in Values
    BY <1>1, ReadType DEF Contents
  <2>2. guest = [c \in Disk |-> Read(map, c)] /\ opened = guest
    BY DEF Init
  <2>3. QED BY <2>1, <2>2
<1>5. TypeOK
  BY <1>1, <1>2, <1>3, <1>4 DEF TypeOK
<1>6. QED BY <1>3, <1>5 DEF Typed, CallPlaced

\* Every step keeps the types and the call's place.
LEMMA TypedStep == Typed /\ [Next]_vars => Typed'
<1> SUFFICES ASSUME Typed, [Next]_vars PROVE Typed'
  OBVIOUS
<1> USE DEF file, ghost
<1>t. TypeOK /\ CallPlaced /\ Contents
  BY DEF Typed, TypeOK, Contents
<1>w. wr \in HandleRecord /\ wr.map \in Maps /\ wr.count \in 0..BlockCount
  BY <1>t DEF HandleRecord, TypeOK
<1>c. call \in CallRecord /\ call.from \in Disk /\ call.to \in Disk /\ BlockOf(call.from) \in Blocks
  BY <1>t, Cell DEF CallRecord, TypeOK
<1>1. CASE Open
  <2>1. wr' \in HandleRecord
    BY <1>1, <1>t DEF Open, HandleRecord, TypeOK
  <2>2. TypeOK'
    BY <1>1, <2>1, <1>t DEF Open, TypeOK
  <2>3. call.pc = "none" /\ call' = call
    BY <1>1, <1>t, <1>c DEF Open, CallPlaced, CallRecord
  <2>4. QED BY <2>2, <2>3 DEF Typed, CallPlaced
<1>2. CASE Close
  <2>1. TypeOK'
    BY <1>2, <1>t, ClosedType DEF Close, TypeOK
  <2>2. QED BY <1>2, <2>1 DEF Close, Typed, CallPlaced, NoCall
<1>3. CASE Refresh
  <2>1. TypeOK'
    BY <1>3, <1>t DEF Refresh, TypeOK
  <2>2. QED BY <1>3, <1>t, <2>1 DEF Refresh, Typed, CallPlaced, InSlot
<1>4. ASSUME NEW from \in Disk, NEW to \in Disk, NEW value \in Values, Write(from, to, value)
      PROVE  Typed'
  <2>1. from \in Nat /\ call' = Continue(from, to, value)
    BY <1>4, Cell DEF Write
  <2>2. /\ call' \in CallRecord
        /\ call'.pc \in {"none", "chunk", "data"}
        /\ call'.pc # "none" => call'.from <= call'.to
        /\ call'.pc = "data" => wr.count < BlockCount /\ ~InSlot(wr.map, BlockOf(call'.from))
        /\ call'.pc = "chunk" => InSlot(wr.map, BlockOf(call'.from))
    BY <2>1, ContinuePlaced
  <2>3. TypeOK'
    BY <1>4, <2>2, <1>t DEF Write, TypeOK
  <2>4. QED BY <1>4, <2>2, <2>3 DEF Write, Typed, CallPlaced, InSlot, BlockOf
<1>5. CASE WriteBlock
  <2>1. data' \in [Slots -> Cells] /\ call' \in CallRecord /\ reused' \in BOOLEAN
    <3>1. FirstContent(BlockOf(call.from)) \in Cells
      BY <1>t, <1>c, FirstContentType
    <3>2. data \in [Slots -> Cells] /\ reused \in BOOLEAN
      BY <1>t DEF TypeOK
    <3>3. QED BY <1>5, <3>1, <3>2, <1>c DEF WriteBlock, CallRecord
  <2>2. TypeOK'
    BY <1>5, <2>1, <1>t DEF WriteBlock, TypeOK
  <2>3. call' = [call EXCEPT !.pc = "map"] /\ wr' = wr /\ call.pc = "data"
    BY <1>5 DEF WriteBlock
  <2>4. QED BY <2>2, <2>3, <1>t, <1>c DEF Typed, CallPlaced, InSlot, BlockOf, CallRecord
<1>6. CASE WriteMap
  <2> DEFINE b == BlockOf(call.from)
  <2>1. wr.open /\ wr.count \in Slots /\ wr.count + 1 \in 0..BlockCount
    BY <1>6, <1>t, <1>w, VdiAssumption DEF WriteMap, CallPlaced, Slots
  <2>2. /\ map' = [map EXCEPT ![b] = wr.count]
        /\ wr' = [wr EXCEPT !.map[b] = wr.count, !.count = @ + 1]
        /\ call' = [call EXCEPT !.pc = "count"]
    BY <1>6 DEF WriteMap, NewSlot
  <2>3. map \in Maps
    BY <1>t DEF TypeOK
  <2> HIDE DEF b
  <2>4. map' \in Maps /\ [wr.map EXCEPT ![b] = wr.count] \in Maps
    BY <2>1, <2>2, <2>3, <1>w DEF Maps
  <2>5. wr' \in HandleRecord /\ wr'.map = [wr.map EXCEPT ![b] = wr.count] /\ wr'.open = wr.open
    BY <2>1, <2>2, <2>4, <1>w DEF HandleRecord
  <2>6. call' \in CallRecord /\ call'.pc = "count" /\ call'.from = call.from /\ call'.to = call.to
    BY <2>2, <1>c DEF CallRecord
  <2>7. TypeOK'
    BY <1>6, <2>4, <2>5, <2>6, <1>t DEF WriteMap, TypeOK
  <2>9. wr'.map[b] = wr.count /\ wr.count \notin {Unallocated, Zero}
    BY <2>1, <2>5, <1>w, <1>c DEF Maps, Slots, Unallocated, Zero, b
  <2>10. call.from <= call.to
    BY <1>6, <1>t DEF WriteMap, CallPlaced
  <2>11. QED BY <2>1, <2>5, <2>6, <2>7, <2>9, <2>10 DEF Typed, CallPlaced, InSlot, BlockOf, b
<1>7. CASE WriteCount
  <2>1. call' = [call EXCEPT !.pc = "chunk"] /\ wr' = wr /\ call.pc = "count" /\ count' = wr.count
    BY <1>7 DEF WriteCount
  <2>2. call' \in CallRecord
    BY <2>1, <1>c DEF CallRecord
  <2>3. TypeOK'
    BY <1>7, <2>1, <2>2, <1>w, <1>t DEF WriteCount, TypeOK
  <2>4. QED BY <2>1, <2>3, <1>t, <1>c DEF Typed, CallPlaced, InSlot, BlockOf, CallRecord
<1>8. CASE WriteChunk
  <2> DEFINE from == (BlockOf(call.from) + 1) * BlockCells
  <2>1. from \in Nat /\ call.value \in Values /\ call' = Continue(from, call.to, call.value)
    <3>1. BlockOf(call.from) + 1 \in Nat /\ BlockCells \in Nat
      BY <1>c, VdiAssumption DEF Blocks
    <3>2. QED BY <1>8, <1>c, <3>1 DEF WriteChunk, CallRecord
  <2> HIDE DEF from
  <2>2. /\ call' \in CallRecord
        /\ call'.pc \in {"none", "chunk", "data"}
        /\ call'.pc # "none" => call'.from <= call'.to
        /\ call'.pc = "data" => wr.count < BlockCount /\ ~InSlot(wr.map, BlockOf(call'.from))
        /\ call'.pc = "chunk" => InSlot(wr.map, BlockOf(call'.from))
    BY <2>1, <1>c, ContinuePlaced
  <2>3. data' \in [Slots -> Cells] /\ guest' \in [Disk -> Values]
    BY <1>8, <1>t, StoreType DEF WriteChunk
  <2>4. TypeOK'
    BY <1>8, <2>2, <2>3, <1>t DEF WriteChunk, TypeOK
  <2>5. wr.open /\ wr' = wr
    BY <1>8, <1>t DEF WriteChunk, CallPlaced
  <2>6. QED BY <2>2, <2>4, <2>5 DEF Typed, CallPlaced, InSlot, BlockOf
<1>9. CASE CutShort
  <2>1. data' \in [Slots -> Cells] /\ guest' \in [Disk -> Values]
    BY <1>9, <1>t, StoreType DEF CutShort, TypeOK
  <2>2. wr' \in HandleRecord /\ cut' \in BOOLEAN /\ call' = NoCall
    BY <1>9, <1>t, <1>w, ClosedType DEF CutShort, TypeOK
  <2>3. TypeOK'
    BY <1>9, <2>1, <2>2, <1>t, FirstCell DEF CutShort, TypeOK
  <2>4. QED BY <2>2, <2>3 DEF Typed, CallPlaced, NoCall
<1>10. CASE UNCHANGED vars
  BY <1>10, <1>t DEF vars, Typed, TypeOK, CallPlaced, InSlot, BlockOf
<1>11. QED BY <1>1, <1>2, <1>3, <1>4, <1>5, <1>6, <1>7, <1>8, <1>9, <1>10 DEF Next

-----------------------------------------------------------------------------
\* A block without a slot reads the same whatever the slots hold.
LEMMA ReadUnslotted ==
    ASSUME NEW m, NEW c, ~InSlot(m, BlockOf(c))
    PROVE  Read(m, c) = IF m[BlockOf(c)] = Unallocated THEN Inherited(c) ELSE 0
BY DEF Read, InSlot

\* Cells W of the chunk, stored in the block's slot, are what is read there
\* and nothing else is.
LEMMA StoreReads ==
    ASSUME Typed, Faithful, call.pc = "chunk", NEW W \in SUBSET Chunk, Store(W),
           UNCHANGED <<psize, base, map>>
    PROVE  /\ AsWritten'
           /\ \A m : \A c \in Disk : ~InSlot(m, BlockOf(c)) => Read(m, c)' = Read(m, c)
<1> DEFINE b == BlockOf(call.from)
           s == wr.map[b]
           new == [k \in DOMAIN data[s] |->
                      IF \E c \in W : c % BlockCells = k THEN call.value ELSE data[s][k]]
<1>1. call.from \in Disk /\ b \in Blocks /\ b = BlockOf(call.from)
  BY Cell DEF Typed, TypeOK, CallRecord
<1>2. InSlot(map, b) /\ s = map[b] /\ s \in Slots
  <2>1. InSlot(wr.map, BlockOf(call.from)) /\ wr.open
    BY DEF Typed, CallPlaced
  <2>2. wr.map = map /\ map \in Maps
    BY <2>1 DEF Faithful, Typed, TypeOK
  <2>3. InSlot(map, b) /\ s = map[b]
    BY <2>1, <2>2
  <2>4. QED BY <1>1, <2>2, <2>3 DEF InSlot, Maps
<1>3. data' = [data EXCEPT ![s] = new] /\ guest' = [c \in Disk |-> IF c \in W THEN call.value ELSE guest[c]]
  BY DEF Store
<1>4. data \in [Slots -> Cells] /\ data[s] \in [Offsets -> Values]
  BY <1>2 DEF Typed, TypeOK, Cells, Offsets
<1>5. \A c \in W : c \in Disk /\ BlockOf(c) = b
  <2>1. SUFFICES ASSUME NEW c \in W PROVE c \in Disk /\ BlockOf(c) = b
    OBVIOUS
  <2>2. c \in call.from..call.to /\ BlockOf(c) = b
    BY DEF Chunk
  <2>3. call.from \in 0..(DiskCells - 1) /\ call.to \in 0..(DiskCells - 1) /\ DiskCells \in Nat
    BY VdiAssumption DEF Typed, TypeOK, CallRecord, Disk
  <2>4. QED BY <2>2, <2>3 DEF Disk
<1>6. ASSUME NEW c \in Disk, BlockOf(c) = b PROVE Read(map, c)' = guest'[c]
  <2> DEFINE k == c % BlockCells
  <2>1. k \in Offsets
    BY Cell
  <2>2. Read(map, c)' = data'[s][k]
    BY <1>2, <1>6 DEF Read, InSlot, BlockOf
  <2>3. (\E d \in W : d % BlockCells = k) <=> c \in W
    <3>1. ASSUME NEW d \in W, d % BlockCells = k PROVE d = c
      BY <3>1, <1>5, <1>6, SameCell
    <3>2. QED BY <3>1
  <2>4. data'[s] = new
    BY <1>2, <1>3, <1>4
  <2>5. data'[s][k] = IF \E d \in W : d % BlockCells = k THEN call.value ELSE data[s][k]
    BY <1>4, <2>1, <2>4
  <2>6. guest[c] = data[s][k]
    BY <1>2, <1>6 DEF Read, Faithful, AsWritten, InSlot, Typed
  <2>7. QED BY <1>3, <2>2, <2>3, <2>5, <2>6
<1>7. ASSUME NEW c \in Disk, BlockOf(c) # b PROVE Read(map, c)' = guest'[c]
  <2>1. c \notin W /\ guest'[c] = guest[c]
    BY <1>3, <1>5, <1>7
  <2>2. BlockOf(c) \in Blocks
    BY Cell
  <2>3. InSlot(map, BlockOf(c)) => map[BlockOf(c)] # s
    BY <1>1, <1>2, <1>7, <2>2 DEF Faithful, OneBlockASlot
  <2>4. InSlot(map, BlockOf(c)) => data'[map[BlockOf(c)]] = data[map[BlockOf(c)]]
    <3>1. InSlot(map, BlockOf(c)) => map[BlockOf(c)] \in Slots
      BY <2>2 DEF InSlot, Typed, TypeOK, Maps
    <3> HIDE DEF s, new
    <3>2. QED BY <1>3, <1>4, <2>3, <3>1
  <2>5. Read(map, c)' = Read(map, c)
    BY <2>4 DEF Read, InSlot, BlockOf, Inherited
  <2>6. QED BY <2>1, <2>5 DEF Faithful, AsWritten
<1>8. AsWritten'
  BY <1>6, <1>7 DEF AsWritten
<1>9. ASSUME NEW m, NEW c \in Disk, ~InSlot(m, BlockOf(c)) PROVE Read(m, c)' = Read(m, c)
  BY <1>9 DEF Read, InSlot, BlockOf, Inherited
<1>10. QED BY <1>8, <1>9


LEMMA FaithfulInit == Init => Faithful
<1> SUFFICES ASSUME Init PROVE Faithful
  OBVIOUS
<1>1. AsWritten /\ OneBlockASlot
  BY DEF Init, AsWritten
<1>2. ~wr.open /\ Prepared
  BY DEF Init, Closed, NoCall, Prepared
<1>3. ReaderFollows
  BY DEF Init, ReaderFollows
<1>4. QED BY <1>1, <1>2, <1>3 DEF Faithful

\* Every step that gives out no slot twice keeps what is read faithful.
LEMMA FaithfulStep == Typed /\ Typed' /\ Faithful /\ [Next]_vars /\ ~reused' => Faithful'
<1> SUFFICES ASSUME Typed, Typed', Faithful, [Next]_vars, ~reused' PROVE Faithful'
  OBVIOUS
<1> USE DEF file, ghost
<1>h. wr.open => wr.map = map
  BY DEF Faithful
<1>n. call.pc # "none" => wr.open
  BY DEF Typed, CallPlaced
<1>m. map \in Maps /\ rd \in Maps /\ data \in [Slots -> Cells]
  BY DEF Typed, TypeOK
\* What the steps that leave the file alone keep.
<1>f. ASSUME UNCHANGED <<file, guest>> PROVE AsWritten' /\ OneBlockASlot'
  BY <1>f DEF Faithful, AsWritten, OneBlockASlot, Read, InSlot, BlockOf, Inherited
<1>r. ASSUME UNCHANGED <<file, rd, opened>> PROVE ReaderFollows'
  BY <1>r DEF Faithful, ReaderFollows, Read, InSlot, BlockOf, Inherited
<1>1. CASE Open
  <2>1. Prepared'
    BY <1>1 DEF Typed, CallPlaced, Open, Prepared
  <2>2. wr'.map = map'
    BY <1>1 DEF Open
  <2>3. QED BY <1>1, <1>f, <1>r, <2>1, <2>2 DEF Open, Faithful
<1>2. CASE Close
  <2>1. Prepared' /\ ~wr'.open
    BY <1>2 DEF Close, Prepared, Closed, NoCall
  <2>2. QED BY <1>2, <1>f, <1>r, <2>1 DEF Close, Faithful
<1>3. CASE Refresh
  <2>1. UNCHANGED <<file, guest, wr, call>> /\ rd' = map /\ opened' = guest
    BY <1>3 DEF Refresh
  <2>2. ReaderFollows'
    BY <2>1 DEF Faithful, AsWritten, ReaderFollows, Read, InSlot, BlockOf, Inherited
  <2>3. Prepared'
    BY <2>1 DEF Faithful, Prepared, FirstContent, Inherited, BlockOf
  <2>4. QED BY <2>1, <2>2, <2>3, <1>f, <1>h DEF Faithful
<1>4. ASSUME NEW from \in Disk, NEW to \in Disk, NEW value \in Values, Write(from, to, value)
      PROVE  Faithful'
  <2>1. from \in Nat /\ call' = Continue(from, to, value)
    BY <1>4, Cell DEF Write
  <2>2. call'.pc \in {"none", "chunk", "data"}
    BY <2>1, ContinuePlaced
  <2>3. QED BY <1>4, <2>2, <1>f, <1>r, <1>h DEF Write, Faithful, Prepared
<1>5. CASE WriteBlock
  <2> DEFINE n == wr.count  b == BlockOf(call.from)
  <2>1. /\ call.pc = "data" /\ wr.open /\ wr.map = map
        /\ data' = [data EXCEPT ![n] = FirstContent(b)]
        /\ call' = [call EXCEPT !.pc = "map"]
        /\ UNCHANGED <<psize, base, map, count, wr, rd, guest, opened, cut>>
    BY <1>5, <1>h, <1>n DEF WriteBlock, NewSlot
  <2>2. n \in Slots /\ n \notin {map[x] : x \in Blocks}
    <3>1. n \in 0..BlockCount /\ n < BlockCount /\ BlockCount \in Nat
      BY <2>1, VdiAssumption DEF Typed, TypeOK, HandleRecord, CallPlaced
    <3>2. n \notin {map[x] : x \in Blocks}
      BY <1>5, Zenon DEF WriteBlock
    <3>3. QED BY <3>1, <3>2 DEF Slots
  <2>3. call'.from = call.from
    BY <2>1 DEF Typed, TypeOK, CallRecord
  <2> HIDE DEF n, b
  <2>4. data'[n] = FirstContent(b) /\ \A s \in Slots : s # n => data'[s] = data[s]
    BY <2>1, <2>2, <1>m
  <2>5. \A c \in Disk : Read(map, c)' = Read(map, c)
    <3>1. SUFFICES ASSUME NEW c \in Disk PROVE Read(map, c)' = Read(map, c)
      OBVIOUS
    <3>2. BlockOf(c) \in Blocks
      BY Cell
    <3>3. InSlot(map, BlockOf(c)) => data'[map[BlockOf(c)]] = data[map[BlockOf(c)]]
      BY <3>2, <2>2, <2>4, <1>m DEF InSlot, Maps
    <3>4. QED BY <3>3, <2>1 DEF Read, InSlot, BlockOf, Inherited
  <2>6. AsWritten' /\ OneBlockASlot'
    BY <2>1, <2>5 DEF Faithful, AsWritten, OneBlockASlot, InSlot
  <2>7. ReaderFollows'
    BY <2>1 DEF Faithful, ReaderFollows, Read, InSlot, BlockOf, Inherited
  <2>8. Prepared'
    <3>1. FirstContent(BlockOf(call.from))' = FirstContent(b)
      BY <2>1, <2>3 DEF FirstContent, Inherited, BlockOf, b
    <3>2. data'[wr'.count] = FirstContent(BlockOf(call.from))'
      BY <3>1, <2>1, <2>4 DEF n
    <3>3. wr'.count \notin {map'[x] : x \in Blocks}
      BY <2>1, <2>2 DEF n
    <3>4. QED BY <3>2, <3>3 DEF Prepared
  <2>9. QED BY <2>1, <2>6, <2>7, <2>8 DEF Faithful
<1>6. CASE WriteMap
  <2> DEFINE n == wr.count  b == BlockOf(call.from)
  <2>1. /\ call.pc = "map" /\ wr.open /\ wr.map = map
        /\ map' = [map EXCEPT ![b] = n]
        /\ wr' = [wr EXCEPT !.map[b] = n, !.count = @ + 1]
        /\ call' = [call EXCEPT !.pc = "count"]
        /\ UNCHANGED <<psize, base, data, count, rd, guest, opened, cut, reused>>
    BY <1>6, <1>h, <1>n DEF WriteMap, NewSlot
  <2>2. n \in Slots /\ n \notin {map[x] : x \in Blocks} /\ ~InSlot(map, b)
        /\ data[n] = FirstContent(b) /\ b \in Blocks
    <3>1. n \in 0..BlockCount /\ n < BlockCount /\ BlockCount \in Nat
      BY <2>1, VdiAssumption DEF Typed, TypeOK, HandleRecord, CallPlaced
    <3>2. ~InSlot(map, b)
      BY <2>1 DEF Typed, CallPlaced
    <3>3. call.from \in Disk
      BY DEF Typed, TypeOK, CallRecord
    <3>4. QED BY <3>1, <3>2, <3>3, <2>1, Cell DEF Slots, Faithful, Prepared
  <2>3. wr'.map = map'
    BY <2>1 DEF Typed, TypeOK, HandleRecord
  <2>4. call'.pc = "count"
    BY <2>1 DEF Typed, TypeOK, CallRecord
  <2>5. n \notin {Unallocated, Zero}
    BY <2>2, VdiAssumption DEF Slots, Unallocated, Zero
  <2>6. \A c \in Disk : BlockOf(c) = b => FirstContent(b)[c % BlockCells] = Read(map, c)
    BY <2>1, <2>2, FirstContentReads
  <2> HIDE DEF n, b
  <2>7. map'[b] = n /\ \A x \in Blocks : x # b => map'[x] = map[x]
    BY <2>1, <2>2, <1>m DEF Maps
  <2>8. AsWritten'
    <3>1. SUFFICES ASSUME NEW c \in Disk PROVE Read(map, c)' = guest'[c]
      BY DEF AsWritten
    <3>2. BlockOf(c) \in Blocks /\ Read(map, c) = guest[c] /\ guest' = guest
      BY <2>1, Cell DEF Faithful, AsWritten
    <3>3. CASE BlockOf(c) = b
      <4>1. Read(map, c)' = data[n][c % BlockCells]
        BY <3>3, <2>1, <2>5, <2>7 DEF Read, InSlot, BlockOf
      <4>2. QED BY <4>1, <3>2, <3>3, <2>2, <2>6
    <3>4. CASE BlockOf(c) # b
      <4>1. map'[BlockOf(c)] = map[BlockOf(c)]
        BY <3>2, <3>4, <2>7
      <4>2. QED BY <4>1, <3>2, <2>1 DEF Read, InSlot, BlockOf, Inherited
    <3>5. QED BY <3>3, <3>4
  <2>9. OneBlockASlot'
    BY <2>2, <2>7 DEF Faithful, OneBlockASlot, InSlot
  <2>10. ReaderFollows'
    <3>1. SUFFICES ASSUME NEW x \in Blocks
                   PROVE  IF InSlot(rd, x) THEN rd[x] = map'[x]
                          ELSE \A c \in Disk : BlockOf(c) = x => Read(rd, c)' = opened[c]
      BY <2>1 DEF ReaderFollows, InSlot, BlockOf
    <3>2. CASE InSlot(rd, x)
      <4>1. rd[x] = map[x]
        BY <3>2 DEF Faithful, ReaderFollows
      <4>2. x # b
        BY <4>1, <3>2, <2>2 DEF InSlot
      <4>3. QED BY <4>1, <4>2, <3>2, <2>7
    <3>3. CASE ~InSlot(rd, x)
      <4>1. ASSUME NEW c \in Disk, BlockOf(c) = x PROVE Read(rd, c)' = opened[c]
        <5>1. Read(rd, c) = opened[c]
          BY <3>3, <4>1 DEF Faithful, ReaderFollows
        <5>2. Read(rd, c)' = Read(rd, c)
          BY <2>1 DEF Read, InSlot, BlockOf, Inherited
        <5>3. QED BY <5>1, <5>2
      <4>2. QED BY <3>3, <4>1
    <3>4. QED BY <3>2, <3>3
  <2>11. QED BY <2>3, <2>4, <2>8, <2>9, <2>10 DEF Faithful, Prepared
<1>7. CASE WriteCount
  <2>1. call'.pc = "chunk"
    BY <1>7 DEF WriteCount, Typed, TypeOK, CallRecord
  <2>2. UNCHANGED <<psize, base, map, data, wr, rd, guest, opened>>
    BY <1>7 DEF WriteCount
  <2>3. AsWritten' /\ OneBlockASlot' /\ ReaderFollows'
    BY <2>2 DEF Faithful, AsWritten, OneBlockASlot, ReaderFollows, Read, InSlot, BlockOf, Inherited
  <2>4. QED BY <2>1, <2>2, <2>3, <1>h DEF Faithful, Prepared
\* Storing the chunk or its first cells.
<1>s. ASSUME NEW W \in SUBSET Chunk, Store(W), call.pc = "chunk",
             UNCHANGED <<psize, base, map, rd, opened>>
      PROVE  AsWritten' /\ OneBlockASlot' /\ ReaderFollows'
  <2>1. AsWritten' /\ \A m : \A c \in Disk : ~InSlot(m, BlockOf(c)) => Read(m, c)' = Read(m, c)
    BY <1>s, StoreReads
  <2>2. OneBlockASlot'
    BY <1>s DEF Faithful, OneBlockASlot, InSlot
  <2>3. ReaderFollows'
    <3>1. SUFFICES ASSUME NEW x \in Blocks
                   PROVE  IF InSlot(rd, x) THEN rd[x] = map[x]
                          ELSE \A c \in Disk : BlockOf(c) = x => Read(rd, c)' = opened[c]
      BY <1>s DEF ReaderFollows, InSlot, BlockOf
    <3>2. \A c \in Disk : ~InSlot(rd, BlockOf(c)) => Read(rd, c)' = Read(rd, c)
      BY <1>s, <2>1 DEF Read, InSlot, BlockOf, Inherited
    <3>3. QED BY <3>2 DEF Faithful, ReaderFollows
  <2>4. QED BY <2>1, <2>2, <2>3
<1>8. CASE WriteChunk
  <2>1. AsWritten' /\ OneBlockASlot' /\ ReaderFollows'
    BY <1>8, <1>s DEF WriteChunk
  <2>2. call'.pc \in {"none", "chunk", "data"}
    <3>1. (BlockOf(call.from) + 1) * BlockCells \in Nat /\ call.to \in Disk /\ call.value \in Values
      <4>1. call.from \in Disk /\ call.to \in Disk /\ call.value \in Values
        BY DEF Typed, TypeOK, CallRecord
      <4>2. BlockOf(call.from) + 1 \in Nat /\ BlockCells \in Nat
        BY <4>1, Cell, VdiAssumption DEF Blocks
      <4>3. QED BY <4>1, <4>2
    <3>2. call' = Continue((BlockOf(call.from) + 1) * BlockCells, call.to, call.value)
      BY <1>8 DEF WriteChunk
    <3>3. QED BY <3>1, <3>2, ContinuePlaced
  <2>3. wr' = wr /\ map' = map
    BY <1>8 DEF WriteChunk
  <2>4. QED BY <2>1, <2>2, <2>3, <1>h DEF Faithful, Prepared
<1>9. CASE CutShort
  <2>1. UNCHANGED <<psize, base, map, count, rd, opened, reused>> /\ call' = NoCall /\ wr' \in {wr, Closed}
    BY <1>9 DEF CutShort
  <2>2. AsWritten' /\ OneBlockASlot' /\ ReaderFollows'
    <3>1. CASE call.pc = "chunk"
      <4>1. PICK last : Store({c \in Chunk : c <= last})
        BY <1>9, <3>1 DEF CutShort
      <4>2. {c \in Chunk : c <= last} \in SUBSET Chunk
        OBVIOUS
      <4>3. QED BY <4>1, <4>2, <3>1, <2>1, <1>s
    <3>2. CASE call.pc # "chunk"
      <4>1. UNCHANGED <<data, guest>>
        BY <1>9, <3>2 DEF CutShort
      <4>2. QED BY <4>1, <2>1, <1>f, <1>r
    <3>3. QED BY <3>1, <3>2
  <2>3. Prepared'
    BY <2>1 DEF Prepared, NoCall
  <2>4. wr'.open => wr'.map = map'
    BY <2>1, <1>h, ClosedType
  <2>5. QED BY <2>2, <2>3, <2>4 DEF Faithful
<1>10. CASE UNCHANGED vars
  <2>1. Prepared'
    BY <1>10 DEF vars, Faithful, Prepared, FirstContent, Inherited, BlockOf
  <2>2. QED BY <1>10, <2>1, <1>f, <1>r, <1>h DEF vars, Faithful
<1>11. QED BY <1>1, <1>2, <1>3, <1>4, <1>5, <1>6, <1>7, <1>8, <1>9, <1>10 DEF Next

-----------------------------------------------------------------------------
LEMMA CountedInit == Init => Counted
<1> SUFFICES ASSUME Init PROVE Counted
  OBVIOUS
<1>1. ~wr.open
  BY DEF Init, Closed
<1>2. ASSUME NEW b \in Blocks, InSlot(map, b) PROVE map[b] < count
  <2>1. map[b] \in {map[x] : x \in {y \in Blocks : InSlot(map, y)}}
    BY <1>2
  <2>2. map[b] \in 0..(count - 1)
    BY <2>1 DEF Init
  <2>3. count \in Nat
    BY VdiAssumption DEF Init
  <2>4. QED BY <2>2, <2>3
<1>3. QED BY <1>1, <1>2 DEF Counted, Init

\* Every step that is no cut between map entry and count keeps the count right.
LEMMA CountedStep == Typed /\ Counted /\ [Next]_vars /\ ~cut' => Counted'
<1> SUFFICES ASSUME Typed, Counted, [Next]_vars, ~cut' PROVE Counted'
  OBVIOUS
<1> USE DEF file, ghost
<1>t. /\ map \in Maps /\ wr \in HandleRecord /\ call \in CallRecord
      /\ count \in Nat /\ call.from \in Disk /\ wr.count \in Nat
  BY VdiAssumption DEF Typed, TypeOK, HandleRecord, CallRecord
<1>n. call.pc # "none" => wr.open
  BY DEF Typed, CallPlaced
\* Steps that change neither the map nor the counts, outside "count".
<1>q. ASSUME UNCHANGED <<map, count>>, call.pc # "count", call'.pc # "count",
             wr'.open => wr'.count = count /\ wr'.map = map
      PROVE  Counted'
  BY <1>q DEF Counted, OneBlockASlot, InSlot
<1>1. CASE Open
  <2>1. call.pc = "none" /\ call' = call
    BY <1>1, <1>t DEF Open, Typed, CallPlaced, CallRecord
  <2>2. wr'.count = count /\ wr'.map = map /\ UNCHANGED <<map, count>>
    BY <1>1 DEF Open
  <2>3. QED BY <2>1, <2>2, <1>q
<1>2. CASE Close
  BY <1>2, <1>q, ClosedType DEF Close, NoCall
<1>3. CASE Refresh
  BY <1>3 DEF Refresh, Counted, OneBlockASlot, InSlot, BlockOf
<1>4. ASSUME NEW from \in Disk, NEW to \in Disk, NEW value \in Values, Write(from, to, value)
      PROVE  Counted'
  <2>1. from \in Nat /\ call' = Continue(from, to, value)
    BY <1>4, Cell DEF Write
  <2>2. call'.pc # "count"
    BY <2>1, ContinuePlaced
  <2>3. UNCHANGED <<map, count, wr>> /\ call.pc = "none"
    BY <1>4 DEF Write, NoCall
  <2>4. QED BY <2>2, <2>3, <1>q DEF Counted
<1>5. CASE WriteBlock
  <2>1. UNCHANGED <<map, count, wr>> /\ call.pc = "data" /\ call'.pc = "map"
    BY <1>5, <1>t DEF WriteBlock, CallRecord
  <2>2. QED BY <2>1, <1>q DEF Counted
<1>6. CASE WriteMap
  <2> DEFINE b == BlockOf(call.from)
  <2>1. /\ call.pc = "map" /\ wr.open /\ wr.map = map /\ wr.count = count
        /\ map' = [map EXCEPT ![b] = count]
        /\ wr' = [wr EXCEPT !.map[b] = count, !.count = @ + 1]
        /\ call' = [call EXCEPT !.pc = "count"]
        /\ count' = count
    BY <1>6, <1>n DEF WriteMap, NewSlot, Counted
  <2>2. wr'.count = count + 1 /\ wr'.map = map' /\ call'.pc = "count" /\ call'.from = call.from
    BY <2>1, <1>t DEF HandleRecord, CallRecord
  <2>3. \A x \in Blocks : InSlot(map, x) => map[x] < count
    BY <2>1 DEF Counted
  <2>4. b \in Blocks
    BY <1>t, Cell
  <2>5. count \notin {Unallocated, Zero}
    BY <1>t DEF Unallocated, Zero
  <2> HIDE DEF b
  <2>6. map'[b] = count /\ \A x \in Blocks : x # b => map'[x] = map[x]
    BY <2>1, <2>4, <1>t DEF Maps
  <2>7. ASSUME NEW x \in Blocks, NEW y \in Blocks, InSlot(map', x), map'[x] = map'[y]
        PROVE  x = y
    <3>1. CASE x # b /\ y # b
      BY <3>1, <2>6, <2>7 DEF Counted, OneBlockASlot, InSlot
    <3>2. CASE x = b /\ y # b
      <4>1. map[y] = count /\ InSlot(map, y)
        BY <3>2, <2>5, <2>6, <2>7 DEF InSlot
      <4>2. QED BY <4>1, <2>3, <1>t
    <3>3. CASE x # b /\ y = b
      <4>1. map[x] = count /\ InSlot(map, x)
        BY <3>3, <2>5, <2>6, <2>7 DEF InSlot
      <4>2. QED BY <4>1, <2>3, <1>t
    <3>4. QED BY <3>1, <3>2, <3>3
  <2>8. OneBlockASlot'
    BY <2>7 DEF OneBlockASlot, InSlot
  <2>9. ASSUME NEW x \in Blocks, InSlot(map', x)
        PROVE  map'[x] < count \/ (x = b /\ map'[x] = count)
    BY <2>3, <2>6, <2>9 DEF InSlot
  <2>10. BlockOf(call.from)' = b
    BY <2>2 DEF b, BlockOf
  <2>11. QED BY <2>1, <2>2, <2>8, <2>9, <2>10 DEF Counted, InSlot
<1>7. CASE WriteCount
  <2>1. call.pc = "count" /\ wr.open /\ count' = count + 1 /\ call'.pc = "chunk"
        /\ wr.map = map /\ wr.count = count + 1 /\ UNCHANGED <<map, wr>>
    BY <1>7, <1>n, <1>t DEF WriteCount, Counted, CallRecord
  <2>2. ASSUME NEW x \in Blocks, InSlot(map, x) PROVE map[x] < count + 1
    <3>1. map[x] \in Int
      BY <1>t, <2>2, VdiAssumption DEF Maps, InSlot, Slots
    <3>2. map[x] < count \/ map[x] = count
      BY <2>2 DEF Counted
    <3>3. QED BY <3>1, <3>2, <1>t
  <2>3. QED BY <2>1, <2>2 DEF Counted, OneBlockASlot, InSlot
<1>8. CASE WriteChunk
  <2>1. call'.pc # "count"
    <3>1. call.to \in Disk /\ call.value \in Values /\ BlockOf(call.from) + 1 \in Nat /\ BlockCells \in Nat
      BY <1>t, Cell, VdiAssumption DEF Blocks, CallRecord
    <3>2. (BlockOf(call.from) + 1) * BlockCells \in Nat
      BY <3>1
    <3>3. call' = Continue((BlockOf(call.from) + 1) * BlockCells, call.to, call.value)
      BY <1>8 DEF WriteChunk
    <3>4. QED BY <3>1, <3>2, <3>3, ContinuePlaced
  <2>2. UNCHANGED <<map, count, wr>> /\ call.pc = "chunk"
    BY <1>8 DEF WriteChunk
  <2>3. QED BY <2>1, <2>2, <1>q DEF Counted
<1>9. CASE CutShort
  <2>1. call.pc # "count" /\ call'.pc = "none" /\ UNCHANGED <<map, count>> /\ wr' \in {wr, Closed}
    BY <1>9 DEF CutShort, NoCall
  <2>2. wr'.open => wr'.count = count /\ wr'.map = map
    BY <2>1, ClosedType DEF Counted
  <2>3. QED BY <2>1, <2>2, <1>q
<1>10. CASE UNCHANGED vars
  BY <1>10 DEF vars, Counted, OneBlockASlot, InSlot, BlockOf
<1>11. QED BY <1>1, <1>2, <1>3, <1>4, <1>5, <1>6, <1>7, <1>8, <1>9, <1>10 DEF Next

\* The two ghosts never go back, and while the count is right no slot is
\* given out twice.
LEMMA GhostStep ==
    ASSUME Typed, [Next]_vars, ~cut => Counted, reused => cut
    PROVE  (~reused' => ~reused) /\ (~cut' => ~cut) /\ (reused' => cut')
<1> USE DEF file, ghost
<1>1. CASE WriteBlock
  <2>1. cut' = cut /\ (reused' <=> reused \/ wr.count \in {map[x] : x \in Blocks})
    BY <1>1 DEF WriteBlock
  <2>2. ASSUME ~cut PROVE wr.count \notin {map[x] : x \in Blocks}
    <3>1. call.pc = "data" /\ wr.open /\ wr.count = count /\ count \in Nat
      BY <1>1, <2>2, VdiAssumption DEF WriteBlock, Typed, TypeOK, CallPlaced, Counted
    <3>2. ASSUME NEW x \in Blocks, map[x] = count PROVE FALSE
      <4>1. InSlot(map, x)
        BY <3>1, <3>2 DEF InSlot, Unallocated, Zero
      <4>2. map[x] < count
        BY <2>2, <3>1, <4>1 DEF Counted
      <4>3. QED BY <3>1, <3>2, <4>2
    <3>3. QED BY <3>1, <3>2
  <2>3. QED BY <2>1, <2>2
<1>2. CASE CutShort
  <2>1. reused' = reused /\ (cut' <=> cut \/ call.pc = "count")
    BY <1>2 DEF CutShort
  <2>2. QED BY <2>1
<1>3. CASE ~WriteBlock /\ ~CutShort
  <2>1. UNCHANGED <<reused, cut>>
    BY <1>3 DEF Next, vars, Open, Close, Refresh, Write, WriteMap, WriteCount, WriteChunk
  <2>2. QED BY <2>1
<1>4. QED BY <1>1, <1>2, <1>3

-----------------------------------------------------------------------------
(* Room for all: a count never exceeds the number of blocks that have a    *)
(* slot, whatever was cut short.                                           *)

MappedBlocks(m) == {b \in Blocks : InSlot(m, b)}

Roomy ==
    /\ count <= Cardinality(MappedBlocks(map))
    /\ wr.open => wr.map = map /\ wr.count <= Cardinality(MappedBlocks(map))

LEMMA MappedFinite ==
    ASSUME NEW m
    PROVE  /\ IsFiniteSet(Blocks) /\ Cardinality(Blocks) = BlockCount
           /\ IsFiniteSet(MappedBlocks(m)) /\ Cardinality(MappedBlocks(m)) \in Nat
           /\ MappedBlocks(m) # Blocks => Cardinality(MappedBlocks(m)) < BlockCount
<1>1. IsFiniteSet(Blocks) /\ Cardinality(Blocks) = BlockCount
  <2>1. BlockCount \in Int /\ BlockCount > 0
    BY VdiAssumption
  <2>2. QED BY <2>1, FS_Interval DEF Blocks
<1>2. MappedBlocks(m) \in SUBSET Blocks
  BY DEF MappedBlocks
<1>3. /\ IsFiniteSet(MappedBlocks(m)) /\ Cardinality(MappedBlocks(m)) <= BlockCount
      /\ BlockCount = Cardinality(MappedBlocks(m)) => Blocks = MappedBlocks(m)
  BY <1>1, <1>2, FS_Subset
<1>4. Cardinality(MappedBlocks(m)) \in Nat
  BY <1>3, FS_CardinalityType
<1>5. QED BY <1>1, <1>3, <1>4, VdiAssumption

LEMMA RoomyInit == Init => Roomy
<1> SUFFICES ASSUME Init PROVE Roomy
  OBVIOUS
<1> DEFINE M == MappedBlocks(map)
           f == [b \in M |-> map[b]]
<1>1. ~wr.open
  BY DEF Init, Closed
<1>2. count \in Nat /\ {map[b] : b \in M} = 0..(count - 1)
  BY VdiAssumption DEF Init, MappedBlocks
<1>3. IsFiniteSet(M)
  BY MappedFinite
<1> HIDE DEF M
<1>4. f \in Surjection(M, 0..(count - 1))
  BY <1>2 DEF Surjection
<1>5. Cardinality(0..(count - 1)) <= Cardinality(M)
  BY <1>3, <1>4, FS_Surjection
<1>6. Cardinality(0..(count - 1)) = count
  BY <1>2, FS_Interval
<1>7. QED BY <1>1, <1>5, <1>6 DEF M, Roomy

\* Only a map entry for a block that has none raises a count.
LEMMA RoomyStep == Typed /\ Roomy /\ [Next]_vars => Roomy'
<1> SUFFICES ASSUME Typed, Roomy, [Next]_vars PROVE Roomy'
  OBVIOUS
<1> USE DEF file, ghost
<1>t. /\ map \in Maps /\ wr \in HandleRecord /\ call \in CallRecord
      /\ count \in Nat /\ call.from \in Disk /\ wr.count \in Nat
  BY VdiAssumption DEF Typed, TypeOK, HandleRecord, CallRecord
\* Steps that leave the file's map and count and whoever writes alone.
<1>q. ASSUME UNCHANGED <<map, count>>,
             wr'.open => wr'.map = map /\ wr'.count <= Cardinality(MappedBlocks(map))
      PROVE  Roomy'
  BY <1>q DEF Roomy, MappedBlocks, InSlot
<1>1. CASE Open
  <2>1. UNCHANGED <<map, count>> /\ wr'.map = map /\ wr'.count = count
    BY <1>1 DEF Open
  <2>2. QED BY <2>1, <1>q DEF Roomy
<1>2. CASE Close
  BY <1>2, <1>q, ClosedType DEF Close
<1>3. CASE Refresh \/ WriteBlock \/ WriteChunk \/ UNCHANGED vars
              \/ \E from, to \in Disk, value \in Values : Write(from, to, value)
  <2>1. UNCHANGED <<map, count, wr>>
    BY <1>3 DEF Refresh, WriteBlock, WriteChunk, Write, vars
  <2>2. QED BY <2>1, <1>q DEF Roomy
<1>4. CASE WriteMap
  <2> DEFINE b == BlockOf(call.from)
  <2>1. /\ call.pc = "map" /\ wr.open /\ wr.map = map
        /\ wr.count <= Cardinality(MappedBlocks(map))
        /\ map' = [map EXCEPT ![b] = wr.count] /\ count' = count
        /\ wr' = [wr EXCEPT !.map[b] = wr.count, !.count = @ + 1]
    BY <1>4 DEF WriteMap, NewSlot, Typed, CallPlaced, Roomy
  <2>2. b \in Blocks /\ ~InSlot(map, b)
    BY <1>t, <2>1, Cell DEF Typed, CallPlaced
  <2>3. wr.count \notin {Unallocated, Zero}
    BY <1>t DEF Unallocated, Zero
  <2>4. wr'.map = map' /\ wr'.count = wr.count + 1
    BY <2>1, <1>t DEF HandleRecord
  <2> HIDE DEF b
  <2>5. MappedBlocks(map') = MappedBlocks(map) \cup {b}
    BY <2>1, <2>2, <2>3, <1>t DEF MappedBlocks, InSlot, Maps
  <2>6. b \notin MappedBlocks(map)
    BY <2>2 DEF MappedBlocks
  <2>7. Cardinality(MappedBlocks(map')) = Cardinality(MappedBlocks(map)) + 1
    BY <2>5, <2>6, MappedFinite, FS_AddElement
  <2>8. Cardinality(MappedBlocks(map)) \in Nat
    BY MappedFinite
  <2>9. Cardinality(MappedBlocks(map))' = Cardinality(MappedBlocks(map'))
    BY DEF MappedBlocks, InSlot
  <2>10. QED BY <2>1, <2>4, <2>7, <2>8, <2>9, <1>t DEF Roomy
<1>5. CASE WriteCount
  <2>1. call.pc = "count" /\ wr.open /\ count' = wr.count /\ UNCHANGED <<map, wr>>
    BY <1>5 DEF WriteCount, Typed, CallPlaced
  <2>2. QED BY <2>1 DEF Roomy, MappedBlocks, InSlot
<1>6. CASE CutShort
  <2>1. UNCHANGED <<map, count>> /\ wr' \in {wr, Closed}
    BY <1>6 DEF CutShort
  <2>2. QED BY <2>1, <1>q, ClosedType DEF Roomy
<1>7. QED BY <1>1, <1>2, <1>3, <1>4, <1>5, <1>6 DEF Next

-----------------------------------------------------------------------------
IInv ==
    /\ Typed
    /\ Roomy
    /\ ~reused => Faithful
    /\ ~cut => Counted
    /\ reused => cut

LEMMA SpecInv == Spec => []IInv
<1>1. Init => IInv
  <2>1. Init => ~reused /\ ~cut
    BY DEF Init
  <2>2. QED BY <2>1, TypedInit, RoomyInit, FaithfulInit, CountedInit DEF IInv
<1>2. IInv /\ [Next]_vars => IInv'
  <2>1. SUFFICES ASSUME IInv, [Next]_vars PROVE IInv'
    OBVIOUS
  <2>2. Typed'
    BY <2>1, TypedStep DEF IInv
  <2>3. (~reused' => ~reused) /\ (~cut' => ~cut) /\ (reused' => cut')
    BY <2>1, GhostStep DEF IInv
  <2>4. QED BY <2>1, <2>2, <2>3, RoomyStep, FaithfulStep, CountedStep DEF IInv
<1>3. QED BY <1>1, <1>2, PTL DEF Spec

\* No slot number, count or cell leaves its range.
THEOREM VdiTyped == Spec => []TypeOK
<1>1. IInv => TypeOK
  BY DEF IInv, Typed
<1>2. QED BY <1>1, SpecInv, PTL

\* Whoever opens the file reads every cell as it was written last.
THEOREM VdiReadsBack == Spec => []ReadsBack
<1>1. IInv => ReadsBack
  BY DEF IInv, Faithful, AsWritten, ReadsBack
<1>2. QED BY <1>1, SpecInv, PTL

\* So does the handle that writes.
THEOREM VdiHandleCurrent == Spec => []HandleCurrent
<1>1. IInv => HandleCurrent
  BY DEF IInv, Faithful, AsWritten, HandleCurrent
<1>2. QED BY <1>1, SpecInv, PTL

\* A reading handle that was not reopened sees each cell old or new.
THEOREM VdiStaleReader == Spec => []StaleReaderOldOrNew
<1>1. IInv => StaleReaderOldOrNew
  <2>1. SUFFICES ASSUME Faithful, NEW c \in Disk PROVE Read(rd, c) \in {opened[c], guest[c]}
    BY DEF IInv, StaleReaderOldOrNew
  <2>2. BlockOf(c) \in Blocks
    BY Cell
  <2>3. CASE InSlot(rd, BlockOf(c))
    <3>1. rd[BlockOf(c)] = map[BlockOf(c)]
      BY <2>1, <2>2, <2>3 DEF Faithful, ReaderFollows
    <3>2. Read(rd, c) = Read(map, c)
      BY <2>3, <3>1 DEF Read, InSlot
    <3>3. QED BY <2>1, <3>2 DEF Faithful, AsWritten
  <2>4. CASE ~InSlot(rd, BlockOf(c))
    BY <2>1, <2>2, <2>4 DEF Faithful, ReaderFollows
  <2>5. QED BY <2>3, <2>4
<1>2. QED BY <1>1, SpecInv, PTL

\* Slots are counted while no call was cut short between map entry and count.
THEOREM VdiSlotsCounted == Spec => []SlotsCounted
<1>1. IInv => SlotsCounted
  BY DEF IInv, Counted, SlotsCounted
<1>2. QED BY <1>1, SpecInv, PTL

\* A slot is given out twice only after such a cut.
THEOREM VdiReusedOnlyAfterCut == Spec => []ReusedOnlyAfterCut
<1>1. IInv => ReusedOnlyAfterCut
  BY DEF IInv, ReusedOnlyAfterCut
<1>2. QED BY <1>1, SpecInv, PTL

\* A block without a slot finds one, cuts or no cuts.
THEOREM VdiRoomForAll == Spec => []RoomForAll
<1>1. IInv => RoomForAll
  <2>1. SUFFICES ASSUME Typed, Roomy, wr.open, NEW b \in Blocks, ~InSlot(wr.map, b)
                 PROVE  wr.count < BlockCount
    BY DEF IInv, RoomForAll, CanMaterialize
  <2>2. MappedBlocks(map) # Blocks
    BY <2>1 DEF Roomy, MappedBlocks
  <2>3. wr.count <= Cardinality(MappedBlocks(map)) /\ wr.count \in Nat
    BY <2>1, VdiAssumption DEF Roomy, Typed, TypeOK, HandleRecord
  <2>4. QED BY <2>2, <2>3, MappedFinite, VdiAssumption
<1>2. QED BY <1>1, SpecInv, PTL

=============================================================================
