------------------------------- MODULE DirBlk -------------------------------
(***************************************************************************)
(* The bytes of one directory (src/mutate/dir_mutate.c, src/core/layout.c  *)
(* and src/core/directory.c): records that tile blocks of DIRBLKSIZ bytes, *)
(* inserted by splitting the first record with room, removed by merging    *)
(* into the entry before.                                                  *)
(*                                                                         *)
(* heads holds the record headers that are in the bytes, the stale ones    *)
(* included: one the walk no longer reaches stays until write_dirent_raw   *)
(* clears the bytes it lies in.  The directory fits one file-system block, *)
(* so the loops over blocks run once.                                      *)
(***************************************************************************)
EXTENDS Integers, Sequences, FiniteSets

CONSTANTS
    DirBlkSize,  \* DIRBLKSIZ
    Names,       \* the names callers use
    NameLen,     \* NameLen[n]: bytes of name n
    Inodes,      \* inode numbers entries are given
    Parents,     \* inode numbers of the directories it may hang from
    Self,        \* the directory's own inode number
    MaxBlks      \* bound on the directory's blocks: growth beyond it fails

Dot    == "."
DotDot == ".."

ASSUME DirBlkAssumption ==
    /\ DirBlkSize \in Nat /\ DirBlkSize >= 24
    /\ NameLen \in [Names -> 1..255] /\ \A n \in Names : NameLen[n] + 12 <= DirBlkSize
    /\ {Dot, DotDot} \cap Names = {}
    /\ {0, Self} \cap (Inodes \cup Parents) = {} /\ Parents # {} /\ Self # 0
    /\ MaxBlks \in Nat \ {0}

VARIABLES
    heads,    \* heads[o]: the header at byte o
    size,     \* di_size
    entries,  \* the name-to-inode map the callers built
    parent,   \* the parent the callers recorded last
    merged    \* a removal has merged a record across a hole

vars == <<heads, size, entries, parent, merged>>

Header == [ino : Inodes \cup Parents \cup {0, Self}, reclen : Nat, name : Names \cup {Dot, DotDot}]

TypeOK ==
    /\ DOMAIN heads \subseteq 0..(size - 1) /\ \A o \in DOMAIN heads : heads[o] \in Header
    /\ size \in {k * DirBlkSize : k \in 1..MaxBlks}
    /\ DOMAIN entries \subseteq Names /\ entries \in [DOMAIN entries -> Inodes]
    /\ parent \in Parents
    /\ merged \in BOOLEAN

-----------------------------------------------------------------------------
HeaderBytes == 8

\* nextufs__dirent_size: the name ends with a zero and is padded to a word.
DirentSize(len) == HeaderBytes + 4 * ((len + 4) \div 4)

LenOf(n) == IF n = Dot THEN 1 ELSE IF n = DotDot THEN 2 ELSE NameLen[n]
Need(n)  == DirentSize(LenOf(n))

\* nextufs__read_dirent accepts the record at o of bytes that stop at end.
Readable(h, o, end) ==
    /\ o \in DOMAIN h /\ o + HeaderBytes <= end
    /\ h[o].reclen >= HeaderBytes
    /\ o + h[o].reclen <= end
    /\ o + HeaderBytes + LenOf(h[o].name) <= end

\* The offsets a walk from first to end visits, in order.
Chain(h, first, end) ==
    LET from[o \in first..end] ==
            IF Readable(h, o, end) THEN <<o>> \o from[o + h[o].reclen] ELSE <<>>
    IN  from[first]

ElemsOf(s) == {s[k] : k \in DOMAIN s}
Visited(h, sz) == ElemsOf(Chain(h, 0, sz))
Live(h, o) == h[o].ino # 0

\* nextufs_directory_iterate: the callback is given the live records of the walk.
Entry(h, o) == [name |-> h[o].name, ino |-> h[o].ino]
Listing(h, sz) ==
    LET from[o \in 0..sz] ==
            IF ~Readable(h, o, sz) THEN <<>>
            ELSE (IF Live(h, o) THEN <<Entry(h, o)>> ELSE <<>>) \o from[o + h[o].reclen]
    IN  from[0]

\* nextufs__write_dirent_raw: len bytes at o are cleared and a header written.
WriteDirent(h, o, len, n, ino) ==
    [x \in {y \in DOMAIN h : y < o \/ y >= o + len} \cup {o} |->
        IF x = o THEN [ino |-> ino, reclen |-> len, name |-> n] ELSE h[x]]

SetReclen(h, o, len) == [h EXCEPT ![o] = [@ EXCEPT !.reclen = len]]
SetIno(h, o, ino)    == [h EXCEPT ![o] = [@ EXCEPT !.ino = ino]]

Used(h, o) == IF Live(h, o) THEN Need(h[o].name) ELSE 0
HasRoom(h, o, n) == h[o].reclen - Used(h, o) >= Need(n)

\* Where nextufs__insert_dirent puts a name: the first record with room.
Spots(h, sz, n) == {o \in Visited(h, sz) : HasRoom(h, o, n)}
FirstOf(S) == CHOOSE o \in S : \A p \in S : o <= p

\* Mutant: the record that is split keeps its length.
PlaceKeepsReclen(h, o, n, ino) ==
    IF Live(h, o)
    THEN WriteDirent(h, o + Used(h, o), h[o].reclen - Used(h, o), n, ino)
    ELSE WriteDirent(h, o, h[o].reclen, n, ino)
\* Mutant: a new record takes what it needs of a hole and no more.
PlaceTight(h, o, n, ino) ==
    IF Live(h, o)
    THEN WriteDirent(SetReclen(h, o, Used(h, o)),
                     o + Used(h, o), h[o].reclen - Used(h, o), n, ino)
    ELSE WriteDirent(h, o, Need(n), n, ino)
Place(h, o, n, ino) ==
    IF Live(h, o)
    THEN WriteDirent(SetReclen(h, o, Used(h, o)),
                     o + Used(h, o), h[o].reclen - Used(h, o), n, ino)
    ELSE WriteDirent(h, o, h[o].reclen, n, ino)

\* nextufs__remove_dirent walks each block of DIRBLKSIZ bytes by itself; the
\* live record before o in its block, if any, swallows the record at o.
BlkOf(o) == DirBlkSize * (o \div DirBlkSize)
BlkChain(h, b) == ElemsOf(Chain(h, b, b + DirBlkSize))
LiveBefore(h, o) == {p \in BlkChain(h, BlkOf(o)) : p < o /\ Live(h, p)}
LastOf(S) == CHOOSE o \in S : \A p \in S : o >= p

\* Mutant: the record is unlinked and its bytes forgotten.
EraseInPlace(h, o) == SetIno(SetReclen(h, o, Need(h[o].name)), o, 0)
Erase(h, o) ==
    IF LiveBefore(h, o) # {}
    THEN LET p == LastOf(LiveBefore(h, o)) IN SetReclen(h, p, h[p].reclen + h[o].reclen)
    ELSE SetIno(h, o, 0)

\* The merge is exact only when the record before ends where o begins.
MergesAcrossHole(h, o) ==
    LiveBefore(h, o) # {} /\ LET p == LastOf(LiveBefore(h, o)) IN p + h[p].reclen # o

\* The record remove_dirent finds for n: the first live match.
Matches(h, sz, n) ==
    {o \in UNION {BlkChain(h, k * DirBlkSize) : k \in 0..(sz \div DirBlkSize - 1)} :
        Live(h, o) /\ h[o].name = n}

\* nextufs__directory_is_empty, asked about this directory and a parent.
\* Mutant: a hole counts as an entry.
IsEmptyNoHoles(h, sz, up) ==
    /\ ElemsOf(Listing(h, sz)) = {[name |-> Dot, ino |-> Self], [name |-> DotDot, ino |-> up]}
    /\ Cardinality(Visited(h, sz)) = 2
IsEmpty(h, sz, up) ==
    ElemsOf(Listing(h, sz)) = {[name |-> Dot, ino |-> Self], [name |-> DotDot, ino |-> up]}

\* nextufs__read_directory_parent_inode; 0 for its errors.
ReadParent(h) ==
    IF /\ Readable(h, 0, DirBlkSize) /\ h[0].ino = Self /\ h[0].name = Dot
       /\ Readable(h, h[0].reclen, DirBlkSize) /\ h[h[0].reclen].name = DotDot
    THEN h[h[0].reclen].ino ELSE 0

-----------------------------------------------------------------------------
\* nextufs__write_new_directory_block.
NewBlock(up) ==
    WriteDirent(WriteDirent(<<>>, 0, DirentSize(1), Dot, Self),
                DirentSize(1), DirBlkSize - DirentSize(1), DotDot, up)

Init ==
    /\ \E up \in Parents : heads = NewBlock(up) /\ parent = up
    /\ size = DirBlkSize
    /\ entries = <<>>
    /\ merged = FALSE

\* The callers insert a name they looked up and did not find.  A directory
\* that remove_dirent has corrupted is not followed further.
InsertPlaced(n, ino) ==
    /\ Spots(heads, size, n) # {}
    /\ heads' = Place(heads, FirstOf(Spots(heads, size, n)), n, ino)
    /\ UNCHANGED size

\* Mutant: the size is not moved.
InsertGrowsKeepsSize(n, ino) ==
    /\ Spots(heads, size, n) = {}
    /\ size < MaxBlks * DirBlkSize
    /\ heads' = WriteDirent(heads, size, DirBlkSize, n, ino)
    /\ UNCHANGED size

\* grow_directory_by_dirblk; ENOSPC at the bound.
InsertGrows(n, ino) ==
    /\ Spots(heads, size, n) = {}
    /\ size < MaxBlks * DirBlkSize
    /\ heads' = WriteDirent(heads, size, DirBlkSize, n, ino)
    /\ size' = size + DirBlkSize

InsertDirent(n, ino) ==
    /\ ~merged
    /\ n \notin DOMAIN entries
    /\ InsertPlaced(n, ino) \/ InsertGrows(n, ino)
    /\ entries' = [x \in DOMAIN entries \cup {n} |-> IF x = n THEN ino ELSE entries[x]]
    /\ UNCHANGED <<parent, merged>>

\* The callers remove a name they looked up and found.
RemoveDirent(n) ==
    /\ ~merged
    /\ n \in DOMAIN entries /\ Matches(heads, size, n) # {}
    /\ LET o == FirstOf(Matches(heads, size, n))
       IN  heads' = Erase(heads, o) /\ merged' = MergesAcrossHole(heads, o)
    /\ entries' = [x \in DOMAIN entries \ {n} |-> entries[x]]
    /\ UNCHANGED <<size, parent>>

\* Mutant: the first record is written, not the one after it.
UpdateParentFirst(up) ==
    /\ ~merged
    /\ heads' = SetIno(heads, 0, up)
    /\ parent' = up
    /\ UNCHANGED <<size, entries, merged>>

\* nextufs__update_directory_parent_inode: rename moves the directory.
UpdateParent(up) ==
    /\ ~merged
    /\ LET o == heads[0].reclen
       IN  /\ Readable(heads, 0, DirBlkSize) /\ Readable(heads, o, DirBlkSize)
           /\ heads[o].name = DotDot
           /\ heads' = SetIno(heads, o, up)
    /\ parent' = up
    /\ UNCHANGED <<size, entries, merged>>

Next ==
    \/ \E n \in Names, ino \in Inodes : InsertDirent(n, ino)
    \/ \E n \in Names : RemoveDirent(n)
    \/ \E up \in Parents : UpdateParent(up)

Spec == Init /\ [][Next]_vars

-----------------------------------------------------------------------------
\* A walk lists each entry the callers inserted and did not remove, once, with
\* its inode, and nothing else but the two dots (validate_tree in stress.c).
WalkMatches ==
    LET list == Listing(heads, size)
    IN  /\ ElemsOf(list) = {[name |-> n, ino |-> entries[n]] : n \in DOMAIN entries}
                             \cup {[name |-> Dot, ino |-> Self], [name |-> DotDot, ino |-> parent]}
        /\ Len(list) = Cardinality(DOMAIN entries) + 2

\* remove_dirent breaks a listing only where it merges across a hole.
ListsExactly == ~merged => WalkMatches

\* The types hold; and until a removal merges across a hole, the records of
\* every block tile it, and each is long enough for its name.
Tiled ==
    /\ TypeOK
    /\ ~merged =>
        \A k \in 0..(size \div DirBlkSize - 1) :
            LET b == k * DirBlkSize
                c == Chain(heads, b, b + DirBlkSize)
            IN  /\ c # <<>>
                /\ c[Len(c)] + heads[c[Len(c)]].reclen = b + DirBlkSize
                /\ \A o \in ElemsOf(c) : heads[o].reclen >= Used(heads, o)

\* What a removal frees is found again: the name just removed goes back
\* without growing the directory.  A rename that has removed its target relies
\* on it: the entry it inserts under that name cannot run out of space.
RemovalFreesRoom ==
    ~merged => \A n \in DOMAIN entries :
        Spots(Erase(heads, FirstOf(Matches(heads, size, n))), size, n) # {}

\* rmdir's test says empty exactly when the callers removed every entry,
\* however many blocks and holes are left, and only for the right parent.
EmptyAgrees ==
    ~merged => \A up \in Parents :
        IsEmpty(heads, size, up) <=> entries = <<>> /\ up = parent

\* The dots stay the first two records, where read_directory_parent_inode and
\* update_directory_parent_inode look for them without a search.
ParentReadable == ~merged => ReadParent(heads) = parent
=============================================================================
