-------------------------------- MODULE Fsck --------------------------------
(***************************************************************************)
(* nextufs fsck: one process that reads an image through four one-block    *)
(* buffers, runs its passes, asks before each repair and writes a buffer   *)
(* back when another block takes its place or when it ends.                *)
(*                                                                         *)
(* One action is one inode of pass 1, one record of a directory, one call  *)
(* or return inside the repairs, or one write of the end.  Between any two *)
(* the process may be killed, which loses the buffers, or interrupted,     *)
(* which writes them.  A run that had anything to say is followed by       *)
(* another, as its last line asks.                                         *)
(***************************************************************************)
EXTENDS FsckImage, TLC

CONSTANTS
    Seeds,      \* what may be found: [img, mode, cuts], an image, how the first run is
                \* made ("y" for -y, "n" for -n, "ask") and how often runs are cut short
    LaterMode   \* how the runs behind it are made

Modes == {"y", "n", "ask"}

ASSUME RunAssumption ==
    LaterMode \in Modes /\ \A s \in Seeds : s.mode \in Modes /\ s.cuts \in Nat

VARIABLES
    w,       \* the disk, and the buffers and tables of the process
    pc,      \* where main is
    cur,     \* the inode pass 1, 3 or 4 is at
    stk,     \* the calls under way, the innermost first
    ret,     \* what the last of them to end returned
    sound,   \* ghost: the image was consistent when this run began
    cuts     \* bound: runs that may still be cut short

vars  == <<w, pc, cur, stk, ret, sound, cuts>>
ghost == <<sound, cuts>>

NoBlock == [bno |-> -1, n |-> 0, at |-> [j \in 1..Frag |-> [kind |-> "zero"]], dirty |-> FALSE]

\* A process that has read the superblock and the summaries (setup).
Process(disk, mode) ==
    [disk |-> disk, mode |-> mode,
     ino |-> disk.ino, inoD |-> FALSE, fb |-> NoBlock, sb |-> disk.sb, cs |-> disk.cs,
     sbD |-> FALSE, cg |-> disk.cg, cgD |-> FALSE,
     st |-> [i \in Inos |-> "U"], ln |-> [i \in 0..(IMax - 1) |-> 0], bm |-> Reserved,
     dups |-> [f \in Frags |-> 0], zln |-> {}, lf |-> 0, last |-> 0,
     said |-> {}, agreed |-> FALSE]

-----------------------------------------------------------------------------
(* Replies and messages.                                                   *)

\* reply(): what the operator may answer to the prompts ps of one step.
Answers(ps) == CASE w.mode = "y" -> {[p \in ps |-> TRUE]}
                 [] w.mode = "n" -> {[p \in ps |-> FALSE]}
                 [] OTHER -> [ps -> BOOLEAN]

Note(x, msg)      == [x EXCEPT !.said = @ \cup {msg}]
Ask(x, a, msg, p) == [x EXCEPT !.said = @ \cup {msg}, !.agreed = @ \/ a[p]]

-----------------------------------------------------------------------------
(* Buffers.                                                                *)

\* Mutant: the buffer is written whether it was altered or not.
FlushFileAlways(x) ==
    [x EXCEPT !.fb.dirty = FALSE,
              !.disk.frag = IF x.mode = "n" THEN @
                            ELSE [f \in Frags |-> IF f - x.fb.bno \in 0..(x.fb.n - 1)
                                                  THEN x.fb.at[f - x.fb.bno + 1] ELSE @[f]]]

FlushFile(x) ==
    IF ~x.fb.dirty THEN x
    ELSE LET b == x.fb
         IN  [x EXCEPT !.fb.dirty = FALSE,
                       !.disk.frag = IF x.mode = "n" THEN @
                                     ELSE [f \in Frags |-> IF f - b.bno \in 0..(b.n - 1)
                                                           THEN b.at[f - b.bno + 1] ELSE @[f]]]
FlushSuper(x) == IF x.sbD /\ x.mode # "n" THEN [x EXCEPT !.disk.sb = x.sb, !.disk.cs = x.cs] ELSE x
FlushInodes(x) == IF x.inoD /\ x.mode # "n" THEN [x EXCEPT !.disk.ino = x.ino, !.inoD = FALSE] ELSE x
\* Mutant: the group is not among the buffers written.
FlushGroupNever(x) == x

FlushGroup(x) == IF x.cgD /\ x.mode # "n" THEN [x EXCEPT !.disk.cg = x.cg] ELSE x

\* getblk on the file buffer: a block is known by its number, not its length.
GetBlk(x, b, n) ==
    IF x.fb.bno = b THEN x
    ELSE LET y == FlushFile(x)
         IN  [y EXCEPT !.fb = [bno |-> b, n |-> n, dirty |-> FALSE,
                               at |-> [j \in 1..Frag |-> IF j <= n THEN y.disk.frag[b + j - 1]
                                                         ELSE y.fb.at[j]]]]

-----------------------------------------------------------------------------
(* Inodes and blocks.                                                      *)

SetIno(x, i, d) == [x EXCEPT !.ino[i] = d, !.inoD = TRUE]
VisitsNow(x, i) == Visits(x.ino[i], x.disk.frag)

\* Mutant: a fragment somebody else has too is free, too.
ReleaseAll(x, i) == [x EXCEPT !.bm = @ \ Claimed(VisitsNow(x, i))]

\* pass4check over an inode: a fragment counted twice loses one count only.
Release(x, i) ==
    LET vs == VisitsNow(x, i)
        t  == [f \in Frags |-> Times(vs, f)]
    IN  [x EXCEPT !.bm = {f \in @ : t[f] <= x.dups[f]},
                  !.dups = [f \in Frags |-> IF f \notin x.bm THEN @[f]
                                            ELSE IF t[f] <= @[f] THEN @[f] - t[f] ELSE 0]]

\* freeino, and clri once it is agreed.
FreeIno(x, i) == [SetIno(Release(x, i), i, ZeroIno) EXCEPT !.st[i] = "U"]

\* allocino: an unused inode with a fragment, 0 for none.
AllocIno(x, request) ==
    LET is == {i \in Inos : x.st[i] = "U" /\ (request # 0 => i = request)}
        b  == AllocBlk(x.bm, 1)
        i  == Min(is)
    IN  IF is = {} \/ b = 0 THEN [w |-> x, ino |-> 0]
        ELSE [w |-> [SetIno(x, i, [x.ino[i] EXCEPT !.mode = "dir", !.nlink = 2, !.size = Third,
                                                   !.db[1] = b, !.blocks = 1])
                     EXCEPT !.st[i] = "D", !.bm = @ \cup {b}],
              ino |-> i]

\* allocdir: `ino` is 0 when it gives up.  Without an inode or a fragment it
\* goes on to ask ginode for inode 0, which ends the process (`abort`).
AllocDir(x, parent, request) ==
    LET new == AllocIno(x, request)
        i   == new.ino
        y   == [GetBlk(new.w, new.w.ino[i].db[1], 1) EXCEPT !.fb.at[1] = DirHead(i, parent), !.fb.dirty = TRUE]
        ps  == y.st[parent]
        z   == [y EXCEPT !.st[i] = ps, !.ino[parent].nlink = @ + 1,
                         !.ln = IF ps = "D" THEN [@ EXCEPT ![i] = 2, ![parent] = @ + 1] ELSE @]
    IN  CASE i = 0 -> [w |-> x, ino |-> 0, abort |-> TRUE]
          [] i = Root -> [w |-> [y EXCEPT !.ln[i] = 2], ino |-> i, abort |-> FALSE]
          [] i \notin {0, Root} /\ ps \notin {"D", "FOUND"} ->
                 [w |-> FreeIno(y, i), ino |-> 0, abort |-> FALSE]
          [] OTHER -> [w |-> z, ino |-> i, abort |-> FALSE]

\* expanddir: the last block moves one slot up and a new block takes its place.
ExpandDir(x, a, i) ==
    LET d    == x.ino[i]
        l    == (d.size \div Block) + 1
        new  == AllocBlk(x.bm, Frag)
        tail == Ceil(d.size % Block, Third)
        d1   == [d EXCEPT !.db = [@ EXCEPT ![l + 1] = d.db[l], ![l] = new],
                          !.size = @ + Block, !.blocks = @ + Frag]
        x1   == GetBlk([x EXCEPT !.ino[i] = d1, !.bm = @ \cup new..(new + Frag - 1)], d1.db[l + 1], tail)
        x2   == [GetBlk(x1, new, Frag) EXCEPT
                     !.fb.at = [j \in 1..Frag |-> IF j = 1 THEN x1.fb.at[1] ELSE EmptyDir],
                     !.fb.dirty = TRUE]
        x3   == Ask([GetBlk(x2, d1.db[l + 1], tail) EXCEPT !.fb.at[1] = EmptyDir],
                    a, "NO SPACE LEFT", "EXPAND")
    IN  IF l >= Direct \/ new = 0 THEN [w |-> x, ok |-> FALSE]
        ELSE IF a["EXPAND"] THEN [w |-> [x3 EXCEPT !.fb.dirty = TRUE, !.inoD = TRUE], ok |-> TRUE]
        ELSE [w |-> [x3 EXCEPT !.ino[i] = d, !.bm = @ \ new..(new + Frag - 1)], ok |-> FALSE]

-----------------------------------------------------------------------------
(* Calls.  A frame waits at `at` for the call it made.                     *)

Scan(x, func, dir, parent, name) ==
    [act |-> "scan", func |-> func, dir |-> dir, parent |-> parent, name |-> name,
     fix |-> "?", e |-> 0, k |-> 0, loc |-> 0, left |-> Ceil(x.ino[dir].size, Third) * Units,
     d |-> x.ino[dir], pend |-> {}]
DescendTo(dir, parent)    == [act |-> "descend", dir |-> dir, parent |-> parent]
LinkUp(orphan)            == [act |-> "linkup", at |-> "start", orphan |-> orphan, old |-> 0]
MakeEntry(dir, ino, name) == [act |-> "makeentry", at |-> "start", dir |-> dir, ino |-> ino, name |-> name]
Adjust(i, lcnt)           == [act |-> "adjust", at |-> "start", dir |-> i, lcnt |-> lcnt]
ClimbFrom(i)              == [act |-> "climb", at |-> "start", orphan |-> i, loop |-> 0]

Caller  == Head(stk)
In(act) == pc \in {"pass2", "pass3", "pass4"} /\ stk # <<>> /\ Caller.act = act

\* The innermost call becomes f and makes the calls fs, or ends with v.
Go(f, fs)  == stk' = fs \o <<f>> \o Tail(stk) /\ UNCHANGED <<pc, cur, ret, ghost>>
End(v)     == stk' = Tail(stk) /\ ret' = v /\ UNCHANGED <<pc, cur, ghost>>
\* The process is gone and its buffers with it; the next is not started yet.
Gone(x) == /\ w' = Process(x.disk, LaterMode)
           /\ pc' = "off" /\ cur' = 0 /\ stk' = <<>> /\ ret' = 0 /\ UNCHANGED sound
\* errexit
Abort(x) == Gone(x) /\ UNCHANGED cuts

-----------------------------------------------------------------------------
(***************************************************************************)
(* What is done to one record.  r.at is the copy of its units, r.v the     *)
(* unit looked at, r.e the number of the entry; r.alt says the copy is to  *)
(* be written back, r.do what comes next; r.w is the process meanwhile.    *)
(***************************************************************************)
It(r) == r.at[r.v]
\* The rest of a record from unit v on, zeroed; n is the length put there.
Split(at, v, n, zeroed) ==
    [u \in DOMAIN at |-> IF u = v THEN Rec(0, "", n) ELSE IF u > v /\ zeroed THEN Free(0) ELSE at[u]]

\* pass2check, the first entry.
CheckDot(r, a, f) ==
    LET e    == It(r)
        said == Ask(r.w, a, "MISSING '.'", "FIX")
    IN  IF f.e # 0 THEN r
        ELSE IF e.ino # 0 /\ e.name = "." THEN
            IF e.ino = f.dir THEN r
            ELSE [r EXCEPT !.w = Ask(@, a, "BAD '.'", "FIX"), !.at[r.v].ino = f.dir, !.alt = a["FIX"]]
        ELSE IF e.ino # 0 /\ e.name # ".." THEN [r EXCEPT !.w = Note(@, "MISSING '.'")]
        ELSE IF e.room < 2 THEN
            [r EXCEPT !.w = said, !.at[r.v] = Rec(f.dir, ".", e.room), !.alt = a["FIX"]]
        ELSE [r EXCEPT !.w = [said EXCEPT !.ln[f.dir] = @ - 1], !.v = @ + 1, !.e = 1, !.alt = a["FIX"],
                       !.at = Split([@ EXCEPT ![r.v] = Rec(f.dir, ".", 1)], r.v + 1, e.room - 1, TRUE)]

\* pass2check, the second.  When the first has room for it, it gets the
\* length of ".", and what was behind it stays.
CheckDotDot(q, a, f) ==
    LET r == IF q.e # 0 \/ It(q).room < 2 THEN q
             ELSE [q EXCEPT !.w.ln[It(q).ino] = @ - 1, !.e = 1, !.v = @ + 1,
                            !.at = Split([@ EXCEPT ![q.v].room = 1], q.v + 1, 1, FALSE)]
        e == It(r)
    IN  IF r.e # 1 THEN r
        ELSE IF e.ino # 0 /\ e.name = ".." THEN
            IF e.ino = f.parent THEN r
            ELSE [r EXCEPT !.w = Ask(@, a, "BAD '..'", "FIX2"), !.at[r.v].ino = f.parent,
                           !.alt = @ \/ a["FIX2"]]
        ELSE IF e.ino # 0 /\ e.name # "." THEN [r EXCEPT !.w = Note(@, "MISSING '..'")]
        ELSE [r EXCEPT !.w = Ask(@, a, "MISSING '..'", "FIX2"), !.at[r.v] = Rec(f.parent, "..", e.room),
                       !.alt = @ \/ a["FIX2"]]

Removed(r) == [r EXCEPT !.at[r.v].ino = 0, !.alt = TRUE]
Named(r)   == [r EXCEPT !.w.ln[It(r).ino] = @ - 1]

\* pass2check, what the entry names.  An inode beyond imax never gets here:
\* dircheck has refused the record.
CheckName(r, a, f) ==
    LET i   == It(r).ino
        q   == [r EXCEPT !.e = @ + 1]
        bad == r.w.st[i] \in {"DC", "FC"}
        \* "DUP/BAD" refused: the inode is taken for what its mode says
        x   == [r.w EXCEPT !.st[i] = IF r.w.ino[i].mode = "dir" THEN "D" ELSE "F"]
        t   == IF bad THEN [q EXCEPT !.w = Ask(x, a, "DUP/BAD", "REMOVE")] ELSE q
    IN  IF i = 0 THEN r
        ELSE IF It(r).name \in {".", ".."} /\ r.e >= 2 THEN
            [r EXCEPT !.w = Ask(@, a, "EXTRA", "FIX"), !.at[r.v].ino = 0, !.alt = @ \/ a["FIX"]]
        ELSE IF r.w.st[i] = "U" \/ (bad /\ a["REMOVE"]) THEN
            LET m == [q EXCEPT !.w = Ask(@, a, IF bad THEN "DUP/BAD" ELSE "UNALLOCATED", "REMOVE")]
            IN  IF a["REMOVE"] THEN Removed(m) ELSE m
        ELSE IF t.w.st[i] = "D" THEN [t EXCEPT !.do = "descend"]
        ELSE IF t.w.st[i] = "FOUND" /\ q.e > 2 THEN
            LET m == [t EXCEPT !.w = Ask(@, a, "EXTRANEOUS", "REMOVE")]
            IN  IF a["REMOVE"] THEN Removed(m) ELSE Named(m)
        ELSE Named(t)

FindIno(r, f) ==
    IF It(r).ino >= Root /\ It(r).name = f.name THEN [r EXCEPT !.do = "stop", !.val = It(r).ino] ELSE r
\* chgino looks at the name only, of a removed entry too.
ChgIno(r, f) ==
    IF It(r).name = f.name
    THEN [r EXCEPT !.at[r.v].ino = f.parent, !.alt = TRUE, !.do = "stop", !.val = 1] ELSE r
MkEntry(r, f) ==
    LET e == It(r)
    IN  IF e.ino = 0 THEN [r EXCEPT !.at[r.v] = Rec(f.parent, f.name, e.room), !.alt = TRUE,
                                    !.do = "stop", !.val = 1]
        ELSE IF e.room < 2 THEN r
        ELSE [r EXCEPT !.at = [@ EXCEPT ![r.v].room = 1, ![r.v + 1] = Rec(f.parent, f.name, e.room - 1)],
                       !.alt = TRUE, !.do = "stop", !.val = 1]

-----------------------------------------------------------------------------
(* ckinode over a directory, dirscan and fsck_readdir.                     *)

Run(f)  == NumFrags(f.d.size, f.k)
Here(f) == [c |-> (f.loc \div Units) + 1, u |-> (f.loc % Units) + 1]
AtRecord(f) == f.k > 0 /\ ~OutRange(f.d.db[f.k], Run(f)) /\ f.left > 0 /\ f.loc < Run(f) * Units

\* dirscan: the units of an altered record go back to the buffer.
WriteBack(x, f, h, n, at) ==
    LET y == GetBlk(x, f.d.db[f.k], Run(f))
    IN  [y EXCEPT !.fb.dirty = TRUE, !.sbD = TRUE,
                  !.fb.at[h.c] = [kind |-> "dir", at |-> [v \in 1..Units |->
                      IF v \in h.u..(h.u + n - 1) THEN at[v] ELSE y.fb.at[h.c].at[v]]]]

\* fsck_readdir: a block that does not begin with a record becomes one, a record
\* with no record behind it takes what is left; once for a scan it is asked.
ReadRecord ==
    /\ In("scan") /\ Caller.pend = {} /\ AtRecord(Caller)
    /\ \E a \in Answers({"SALVAGE"}) :
       LET f     == Caller
           h     == Here(f)
           x     == GetBlk(w, f.d.db[f.k], Run(f))
           ch    == x.fb.at[h.c]
           after == h.u + ch.at[h.u].room
           first == h.u = 1 /\ ~DirCheck(ch, 1)
           next  == after <= Units /\ ~DirCheck(ch, after)
           bad   == first \/ next
           fix   == IF f.fix # "?" THEN f.fix ELSE IF a["SALVAGE"] THEN "fix" ELSE "nofix"
           ch2   == IF first THEN Salvaged(ch) ELSE [ch EXCEPT !.at[h.u].room = Units - h.u + 1]
           got   == IF bad THEN ch2 ELSE ch
           n     == got.at[h.u].room
           p     == [at |-> got.at, v |-> h.u, e |-> f.e, alt |-> FALSE, h |-> h, n |-> n, val |-> 0,
                     do |-> IF f.func = "pass2check" /\ f.e <= 1 THEN "dots" ELSE f.func]
       IN  /\ w' = IF ~bad THEN x
                   ELSE [(IF f.fix = "?" THEN Ask(x, a, "DIRECTORY CORRUPTED", "SALVAGE") ELSE x)
                         EXCEPT !.fb.at[h.c] = ch2, !.fb.dirty = @ \/ fix = "fix"]
           /\ Go([f EXCEPT !.fix = IF bad THEN fix ELSE @, !.loc = @ + n, !.left = @ - n, !.pend = {p}], <<>>)

\* The record in hand, and what a step over it leaves.
Doing(do) == In("scan") /\ \E p \in Caller.pend : p.do = do
InHand    == (CHOOSE p \in Caller.pend : TRUE) @@ [w |-> w]
Hold(r, fs) == /\ w' = r.w
               /\ Go([Caller EXCEPT !.pend = {[k \in DOMAIN r \ {"w"} |-> r[k]]}], fs)
\* Back in dirscan.
Used(r) == /\ w' = IF r.alt THEN WriteBack(r.w, Caller, r.h, r.n, r.at) ELSE r.w
           /\ IF r.do = "stop" THEN End(r.val) ELSE Go([Caller EXCEPT !.pend = {}, !.e = r.e], <<>>)

CheckDots ==
    /\ Doing("dots")
    /\ \E a \in Answers({"FIX", "FIX2"}) :
         Hold([CheckDotDot(CheckDot(InHand, a, Caller), a, Caller) EXCEPT !.do = "pass2check"], <<>>)

CheckEntry ==
    /\ Doing("pass2check")
    /\ \E a \in Answers({"FIX", "REMOVE"}) :
       LET r == CheckName(InHand, a, Caller)
       IN  IF r.do = "descend" THEN Hold(r, <<DescendTo(It(r).ino, Caller.dir)>>) ELSE Used(r)

\* pass2check once descend is back.
Descended ==
    /\ Doing("descend")
    /\ LET r == InHand
           i == It(r).ino
       IN  Used([(IF w.st[i] = "DC" THEN Removed(r) ELSE Named(r)) EXCEPT !.do = "next"])

FindName == Doing("findino") /\ Used(FindIno(InHand, Caller))
SetName  == Doing("chgino")  /\ Used(ChgIno(InHand, Caller))
AddName  == Doing("mkentry") /\ Used(MkEntry(InHand, Caller))

\* The next block of the directory, or the end of the scan.
NextBlock ==
    /\ In("scan") /\ Caller.pend = {} /\ ~AtRecord(Caller)
    /\ LET f    == Caller
           more == {k \in (f.k + 1)..Direct : f.d.db[k] # 0}
           stop == f.k > 0 /\ f.left <= 0 /\ ~OutRange(f.d.db[f.k], Run(f))
           g    == [f EXCEPT !.k = Min(more), !.loc = 0]
           out  == OutRange(g.d.db[g.k], Run(g))
       IN  IF stop \/ more = {} THEN End(0)
           ELSE Go([g EXCEPT !.left = IF out THEN @ - Run(g) * Units ELSE @], <<>>)
    /\ UNCHANGED w

\* descend, up to its ckinode.
Descend ==
    /\ In("descend")
    /\ \E a \in Answers({"REMOVE", "FIX", "ADJUST"}) :
       LET i    == Caller.dir
           d    == w.ino[i]
           x0   == [w EXCEPT !.st[i] = "FOUND"]
           x1   == IF d.size = 1
                   THEN [Ask(x0, a, "DIRECTORY TOO SHORT", "FIX") EXCEPT !.ino[i].size = 2, !.inoD = @ \/ a["FIX"]]
                   ELSE x0
           x2   == IF x1.ino[i].size % Third # 0
                   THEN [Ask(x1, a, "LENGTH NOT MULTIPLE", "ADJUST")
                         EXCEPT !.ino[i].size = Ceil(@, Third) * Third, !.inoD = @ \/ a["ADJUST"]]
                   ELSE x1
       IN  IF d.size = 0
           THEN /\ w' = [Ask(x0, a, "ZERO LENGTH DIRECTORY", "REMOVE")
                         EXCEPT !.st[i] = IF a["REMOVE"] THEN "DC" ELSE @]
                /\ End(0)
           ELSE w' = x2 /\ Go(Scan(x2, "pass2check", i, Caller.parent, ""), <<>>)
-----------------------------------------------------------------------------
(* makeentry, adjust, clri and linkup.                                     *)

MakeEntryStep ==
    /\ In("makeentry")
    /\ \E a \in Answers({"EXPAND"}) :
       LET f == Caller
           d == w.ino[f.dir]
           x == IF d.size % Third = 0 THEN w
                ELSE SetIno(w, f.dir, [d EXCEPT !.size = Ceil(@, Third) * Third])
           g == ExpandDir(w, a, f.dir)
           scan(y) == <<Scan(y, "mkentry", f.dir, f.ino, f.name)>>
       IN  CASE f.at = "start" -> w' = x /\ Go([f EXCEPT !.at = "first"], scan(x))
             [] f.at = "first" /\ ret = 0 ->
                    w' = g.w /\ IF g.ok THEN Go([f EXCEPT !.at = "second"], scan(g.w)) ELSE End(0)
             [] OTHER -> w' = w /\ End(ret)

\* clri: what is left of the inode goes if CLEAR is agreed.
Clear(x, a, i, msg) ==
    LET y == Ask(x, a, msg, "CLEAR") IN IF a["CLEAR"] THEN FreeIno(y, i) ELSE y

AdjustStep ==
    /\ In("adjust")
    /\ \E a \in Answers({"ADJUST", "CLEAR"}) :
       LET f == Caller
           d == w.ino[f.dir]
       IN  CASE f.at = "start" /\ d.nlink = f.lcnt ->
                    w' = w /\ Go([f EXCEPT !.at = "linked"], <<LinkUp(f.dir)>>)
             [] f.at = "start" /\ d.nlink # f.lcnt ->
                    /\ w' = LET x == Ask(w, a, "LINK COUNT", "ADJUST")
                            IN  IF a["ADJUST"] THEN SetIno(x, f.dir, [d EXCEPT !.nlink = @ - f.lcnt]) ELSE x
                    /\ End(0)
             [] OTHER -> w' = (IF ret = 0 THEN Clear(w, a, f.dir, "UNREF") ELSE w) /\ End(0)

LostFound == "lost+found"
Is(x, i, m) == x.ino[i].mode = m
Sorry(x)    == w' = Note(x, "SORRY.") /\ End(0)
To(x, f, stage, fs) == w' = x /\ Go([f EXCEPT !.at = stage], fs)

\* From the start to a lost+found that is there.
LinkUpFind ==
    /\ In("linkup") /\ Caller.at \in {"start", "look", "made"}
    /\ \E a \in Answers({"RECONNECT", "CREATE"}) :
       LET f    == Caller
           x    == Ask(w, a, "UNREF", "RECONNECT")
           y    == Ask(w, a, "NO lost+found", "CREATE")
           new  == AllocDir(y, Root, 0)
           \* freedir
           gone == [FreeIno([w EXCEPT !.ino[Root].nlink = @ - 1], w.lf) EXCEPT !.lf = 0]
       IN  CASE f.at = "start" /\ ~a["RECONNECT"] -> w' = x /\ End(0)
             [] f.at = "start" /\ a["RECONNECT"] /\ w.lf # 0 -> To(x, f, "check", <<>>)
             [] f.at = "start" /\ a["RECONNECT"] /\ w.lf = 0 ->
                    To(x, f, "look", <<Scan(x, "findino", Root, 0, LostFound)>>)
             [] f.at = "look" /\ ret # 0 -> To([w EXCEPT !.lf = ret], f, "check", <<>>)
             [] f.at = "look" /\ ret = 0 /\ ~a["CREATE"] -> Sorry(y)
             [] f.at = "look" /\ ret = 0 /\ a["CREATE"] ->
                    IF new.abort THEN Abort(new.w)
                    ELSE IF new.ino = 0 THEN Sorry(new.w)
                    ELSE To([new.w EXCEPT !.lf = new.ino], f, "made",
                            <<MakeEntry(Root, new.ino, LostFound)>>)
             [] f.at = "made" /\ ret # 0 -> To(w, f, "check", <<>>)
             [] f.at = "made" /\ ret = 0 -> Sorry(gone)

\* A lost+found that is no directory gives its name to a new one.
LinkUpCheck ==
    /\ In("linkup") /\ Caller.at \in {"check", "changed", "adjusted"}
    /\ \E a \in Answers({"REALLOCATE"}) :
       LET f   == Caller
           x   == Ask(w, a, "lost+found IS NOT A DIRECTORY", "REALLOCATE")
           new == AllocDir(x, Root, 0)
       IN  CASE f.at = "check" /\ Is(w, w.lf, "dir") -> To(w, f, "put", <<>>)
             [] f.at = "check" /\ ~Is(w, w.lf, "dir") /\ ~a["REALLOCATE"] -> w' = x /\ End(0)
             [] f.at = "check" /\ ~Is(w, w.lf, "dir") /\ a["REALLOCATE"] ->
                    IF new.abort THEN Abort(new.w)
                    ELSE IF new.ino = 0 THEN Sorry([new.w EXCEPT !.lf = 0])
                    ELSE To([new.w EXCEPT !.lf = new.ino], [f EXCEPT !.old = w.lf], "changed",
                            <<Scan(new.w, "chgino", Root, new.ino, LostFound)>>)
             [] f.at = "changed" /\ ret = 0 -> Sorry(w)
             [] f.at = "changed" /\ ret # 0 ->
                    To([w EXCEPT !.inoD = TRUE], f, "adjusted", <<Adjust(f.old, w.ln[f.old] + 1)>>)
             [] f.at = "adjusted" -> To([w EXCEPT !.ln[f.old] = 0], f, "put", <<>>)

\* The orphan gets a name in lost+found and, a directory, its new parent.
LinkUpPut ==
    /\ In("linkup") /\ Caller.at \in {"put", "entered", "dotdot"}
    /\ LET f == Caller
           x == [w EXCEPT !.ln[f.orphan] = @ - 1]
           y == [SetIno(w, w.lf, [w.ino[w.lf] EXCEPT !.nlink = @ + 1]) EXCEPT !.ln[w.lf] = @ + 1]
       IN  CASE f.at = "put" /\ w.st[w.lf] # "FOUND" -> Sorry(w)
             [] f.at = "put" /\ w.st[w.lf] = "FOUND" ->
                    To(w, f, "entered", <<MakeEntry(w.lf, f.orphan, ToString(f.orphan))>>)
             [] f.at = "entered" /\ ret = 0 -> Sorry(w)
             [] f.at = "entered" /\ ret # 0 ->
                    IF Is(w, f.orphan, "dir")
                    THEN To(x, f, "dotdot", <<Scan(x, "chgino", f.orphan, w.lf, "..")>>)
                    ELSE w' = x /\ End(1)
             [] f.at = "dotdot" -> w' = y /\ End(1)

-----------------------------------------------------------------------------
(* The passes.                                                             *)

Phase(x, p, c) == w' = x /\ pc' = p /\ cur' = c /\ UNCHANGED <<stk, ret, ghost>>

\* setup: what of the superblock is checked and set right.
Start ==
    /\ pc = "off"
    /\ \E a \in Answers({"SET TO DEFAULT"}) :
       LET x == Ask(w, a, "IMPOSSIBLE MINFREE", "SET TO DEFAULT")
       IN  w' = IF w.sb.minfree THEN w
                ELSE IF a["SET TO DEFAULT"] THEN [x EXCEPT !.sb.minfree = TRUE, !.sbD = TRUE] ELSE x
    /\ pc' = "pass1" /\ cur' = Root /\ sound' = Consistent(w.disk)
    /\ UNCHANGED <<stk, ret, cuts>>

\* Mutant: the last entry inside the size goes, too.
TruncateLast(x, a, i) ==
    LET d  == x.ino[i]
        es == {e \in IndirectOf(d, x.disk.frag) : e >= InFile(d.size)}
    IN  IF es = {} \/ ~a["SALVAGE"] THEN x
        ELSE [x EXCEPT !.disk.frag[d.ib].addr = [e \in 1..Entries |-> IF e \in es THEN 0 ELSE @[e]]]

\* iblock under pass1check: entries beyond the size.
Truncate(x, a, i) ==
    LET d  == x.ino[i]
        es == {e \in IndirectOf(d, x.disk.frag) : e > InFile(d.size)}
        y  == Ask(x, a, "PARTIALLY TRUNCATED INODE", "SALVAGE")
    IN  IF es = {} THEN x
        ELSE IF a["SALVAGE"]
        THEN [y EXCEPT !.disk.frag[d.ib].addr = [e \in 1..Entries |-> IF e \in es THEN 0 ELSE @[e]]]
        ELSE y

\* pass1check over every run of an inode, then its block count.
CheckBlocks(x, a, i) ==
    LET vs  == VisitsNow(x, i)
        t   == [f \in Frags |-> Times(vs, f)]
        dup == {f \in Frags : t[f] > 1 \/ (t[f] = 1 /\ f \in x.bm)}
        y   == [x EXCEPT !.bm = @ \cup Claimed(vs),
                         !.dups = [f \in Frags |-> IF f \in dup
                                    THEN @[f] + t[f] - (IF f \in x.bm THEN 0 ELSE 1) ELSE @[f]],
                         !.said = @ \cup (IF BadVisits(vs) = {} THEN {} ELSE {"BAD"})
                                    \cup (IF dup = {} THEN {} ELSE {"DUP"}),
                         !.st[i] = IF BadVisits(vs) = {} /\ dup = {} THEN @
                                   ELSE IF @ = "D" THEN "DC" ELSE "FC"]
        z   == Truncate(y, a, i)
        n   == CountFrags(vs)
    IN  IF x.ino[i].blocks = n THEN z
        ELSE LET q == Ask(z, a, "INCORRECT BLOCK COUNT", "CORRECT")
             IN  IF a["CORRECT"] THEN SetIno(q, i, [q.ino[i] EXCEPT !.blocks = n]) ELSE q

\* CLEAR agreed or not, when an inode cannot be used.
Unusable(x, a, i, msg, state) ==
    LET y == Ask(x, a, msg, "CLEAR")
    IN  IF a["CLEAR"] THEN [SetIno(y, i, ZeroIno) EXCEPT !.st[i] = "U"] ELSE [y EXCEPT !.st[i] = state]

\* Mutant: the size is not looked at.
LeftoverAddresses(d) == d.ib # 0 \/ \E k \in 1..Direct : d.db[k] # 0

Leftover(d) == d.size # 0 \/ d.ib # 0 \/ \E k \in 1..Direct : d.db[k] # 0

Pass1 ==
    /\ pc = "pass1"
    /\ \E a \in Answers({"CLEAR", "HOLD"}) :
       LET fmt == w.ino[cur].mode = "fmt"
           x0  == IF fmt THEN Ask(w, a, "HOLD BAD BLOCK", "HOLD") ELSE w
           x   == IF fmt /\ a["HOLD"]
                  THEN SetIno(x0, cur, [x0.ino[cur] EXCEPT !.size = Third, !.mode = "file"]) ELSE x0
           d   == x.ino[cur]
           y   == [x EXCEPT !.last = cur]
           ok  == [y EXCEPT !.ln[cur] = d.nlink, !.st[cur] = IF d.mode = "dir" THEN "D" ELSE "F",
                            !.zln = IF d.nlink <= 0 THEN @ \cup {cur} ELSE @]
           next(z) == Phase(z, "next", cur)
       IN  IF d.mode = "none"
           THEN next(IF Leftover(d) THEN Unusable(x, a, cur, "PARTIALLY ALLOCATED INODE", "U") ELSE x)
           ELSE IF d.fast /\ d.mode # "link"
           THEN next(Unusable(y, a, cur, "INCONSISTENT FAST SYMLINK", "FC"))
           ELSE IF ~TypeKnown(d) \/ (~d.fast /\ StrayAddresses(d))
           THEN next(Unusable(y, a, cur, "UNKNOWN FILE TYPE", "FC"))
           ELSE Phase(ok, IF d.fast THEN "next" ELSE "blocks", cur)

Pass1Blocks ==
    /\ pc = "blocks"
    /\ \E a \in Answers({"CORRECT", "SALVAGE"}) : Phase(CheckBlocks(w, a, cur), "next", cur)

Pass1Next ==
    /\ pc = "next"
    /\ IF cur + 1 \in Inos THEN Phase(w, "pass1", cur + 1)
       ELSE Phase(w, IF \E f \in Frags : w.dups[f] > 0 THEN "pass1b" ELSE "root", Root)

\* The first to name a fragment counted twice is as much to blame as the later.
Pass1b ==
    /\ pc = "pass1b"
    /\ LET users(f) == {i \in Inos : w.st[i] # "U" /\ \E v \in VisitsNow(w, i) : f \in Covers(v)}
           first    == {Min(users(f)) : f \in {g \in Frags : w.dups[g] > 0 /\ users(g) # {}}}
       IN  Phase(FlushInodes([w EXCEPT !.st = [i \in Inos |->
               IF i \in first THEN (IF @[i] \in {"D", "DC"} THEN "DC" ELSE "FC") ELSE @[i]]]), "root", Root)

\* pass2: whether there is a root to go down from.
CheckRoot ==
    /\ pc = "root"
    /\ \E a \in Answers({"ALLOCATE", "REALLOCATE", "CONTINUE"}) :
       LET s    == w.st[Root]
           x    == Ask(w, a, "ROOT INODE UNALLOCATED", "ALLOCATE")
           y    == Ask(w, a, IF s = "DC" THEN "DUPS/BAD IN ROOT INODE" ELSE "ROOT INODE NOT DIRECTORY", "REALLOCATE")
           z    == [y EXCEPT !.agreed = @ \/ a["CONTINUE"], !.st[Root] = "D"]
           q    == IF s = "DC" THEN z ELSE SetIno(z, Root, [z.ino[Root] EXCEPT !.mode = "dir"])
           new  == AllocDir(IF s = "U" THEN x ELSE FreeIno(y, Root), Root, Root)
           down(v) == /\ w' = v /\ pc' = "pass2" /\ stk' = <<DescendTo(Root, Root)>>
                      /\ UNCHANGED <<cur, ret, ghost>>
       IN  IF s = "D" THEN down(w)
           ELSE IF a[IF s = "U" THEN "ALLOCATE" ELSE "REALLOCATE"]
           THEN IF new.abort THEN Abort(new.w) ELSE down(new.w)
           ELSE IF s # "U" /\ a["CONTINUE"] THEN down(q) ELSE Abort(w)

Pass2Done == pc = "pass2" /\ stk = <<>> /\ Phase(w, "pass3", Root)

\* pass3: from a directory nobody reached up to the one to reconnect.
Pass3 ==
    /\ pc = "pass3" /\ stk = <<>>
    /\ LET is == {i \in cur..w.last : w.st[i] = "D"}
       IN  IF is = {} THEN Phase(w, "pass4", Root)
           ELSE /\ cur' = Min(is) + 1 /\ stk' = <<ClimbFrom(Min(is))>>
                /\ UNCHANGED <<w, pc, ret, ghost>>

Climb ==
    /\ In("climb")
    /\ LET f  == Caller
           up(i, n) == Go([f EXCEPT !.at = "up", !.orphan = i, !.loop = n],
                          <<Scan(w, "findino", i, 0, "..")>>)
       IN  CASE f.at = "start" -> up(f.orphan, 0)
             [] f.at = "up" -> IF ret # 0 /\ f.loop < w.sb.tot.ndir /\ w.st[ret] = "D"
                               THEN up(ret, f.loop + 1)
                               ELSE Go([f EXCEPT !.at = "linked"], <<LinkUp(f.orphan)>>)
             [] f.at = "linked" /\ ret = 1 ->
                    Go([f EXCEPT !.at = "down"], <<DescendTo(f.orphan, w.lf)>>)
             [] OTHER -> End(0)
    /\ UNCHANGED w

\* pass4: the inodes that need something said.
Pass4 ==
    /\ pc = "pass4" /\ stk = <<>>
    /\ LET todo(i) == CASE w.st[i] \in {"F", "FOUND"} -> w.ln[i] # 0 \/ i \in w.zln
                        [] w.st[i] \in {"D", "DC", "FC"} -> TRUE
                        [] OTHER -> FALSE
           is == {i \in cur..w.last : todo(i)}
           i  == Min(is)
       IN  IF is = {} THEN Phase(w, "pass5", 0)
           ELSE IF w.st[i] \in {"F", "FOUND"} /\ w.ln[i] # 0
           THEN /\ cur' = i + 1 /\ stk' = <<Adjust(i, w.ln[i])>>
                /\ UNCHANGED <<w, pc, ret, ghost>>
           ELSE \E a \in Answers({"CLEAR"}) :
                  Phase(Clear([w EXCEPT !.zln = @ \ {i}], a, i,
                              IF w.st[i] \in {"DC", "FC"} THEN "BAD/DUP" ELSE "UNREF"), "pass4", i + 1)

\* pass5: the group and the counts, one reply for all.
Pass5 ==
    /\ pc = "pass5"
    /\ \E a \in Answers({"SALVAGE"}) :
       LET used == (0..(Root - 1)) \cup {i \in Inos : w.st[i] # "U"}
           free == Frags \ w.bm
           sums == Sums(free, used, {i \in Inos : w.st[i] \in {"D", "DC", "FOUND"}})
           cg   == w.disk.cg
           maps == cg.free # free \/ cg.used # used
           sum  == cg.sum # sums
           msg  == IF maps THEN "BLK(S) MISSING IN BIT MAPS"
                   ELSE IF sum THEN "SUMMARY INFORMATION BAD" ELSE "FREE BLK COUNT(S) WRONG IN SUPERBLK"
           x    == Ask(w, a, msg, "SALVAGE")
           y    == IF ~maps /\ ~sum /\ w.cs = sums /\ w.sb.tot = sums THEN w
                   ELSE IF ~a["SALVAGE"] THEN x
                   ELSE [x EXCEPT !.cg = [free |-> free, used |-> used, sum |-> sums],
                                  !.cgD = maps \/ sum, !.cs = sums, !.sb.tot = sums,
                                  !.sbD = @ \/ w.cs # sums \/ w.sb.tot # sums]
           \* the image is marked clean when no error was counted
           ok   == y.said \subseteq {"HOLD BAD BLOCK"} /\ ~y.sb.clean
       IN  Phase(IF ok THEN [y EXCEPT !.sb.clean = TRUE, !.sbD = TRUE] ELSE y, "fini", 1)

\* ckfini: the buffers in its order.
Written(x, n) == CASE n = 1 -> FlushFile(x) [] n = 2 -> FlushSuper(x)
                   [] n = 3 -> FlushInodes(x) [] n = 4 -> FlushGroup(x)
Ckfini == /\ pc = "fini"
          /\ IF cur < 4 THEN Phase(Written(w, cur), "fini", cur + 1) ELSE Phase(Written(w, cur), "ended", 0)

\* A run with nothing to say is the last.
Again == /\ pc = "ended"
         /\ IF w.said = {} THEN Phase(w, "quiet", 0) ELSE Gone(w) /\ UNCHANGED cuts

-----------------------------------------------------------------------------
(* The process cut short.                                                  *)

Running == pc \notin {"off", "ended", "quiet"}

Stop(x) == Running /\ cuts > 0 /\ cuts' = cuts - 1 /\ Gone(x)

Kill      == Stop(w)
\* catch: ckfini, then exit.
Interrupt == Stop(FlushGroup(FlushInodes(FlushSuper(FlushFile(w)))))

-----------------------------------------------------------------------------
Init == /\ \E s \in Seeds : w = Process(s.img, s.mode) /\ cuts = s.cuts
        /\ pc = "off" /\ cur = 0 /\ stk = <<>> /\ ret = 0 /\ sound = FALSE

Work == \/ Start \/ Pass1 \/ Pass1Blocks \/ Pass1Next \/ Pass1b \/ CheckRoot \/ Pass2Done \/ Pass3 \/ Climb \/ Pass4 \/ Pass5
        \/ Ckfini \/ Again \/ ReadRecord \/ CheckDots \/ CheckEntry \/ Descended \/ FindName
        \/ SetName \/ AddName \/ NextBlock \/ Descend \/ MakeEntryStep
        \/ AdjustStep \/ LinkUpFind \/ LinkUpCheck \/ LinkUpPut

\* Nothing is left to do.
Quiet == pc = "quiet" /\ UNCHANGED vars

Next == Work \/ Kill \/ Interrupt \/ Quiet

Spec     == Init /\ [][Next]_vars
FairSpec == Spec /\ WF_vars(Work)

-----------------------------------------------------------------------------
(* Properties.                                                             *)

\* A file no damage touches: its runs are in range, inside its size and its own.
Untouched(img, i) ==
    LET d  == img.ino[i]
        vs == Visits(d, img.frag)
    IN  /\ d.mode \in {"file", "link"} /\ d.nlink > 0 /\ ~d.fast /\ ~StrayAddresses(d)
        /\ BadVisits(vs) = {} /\ Claimed(vs) \cap Reserved = {}
        /\ Cardinality(Claimed(vs)) = CountFrags(vs)
        /\ \A e \in IndirectOf(d, img.frag) : e <= InFile(d.size)
        /\ \A j \in Alloc(img) \ {i} : Claimed(vs) \cap Claimed(Visits(img.ino[j], img.frag)) = {}
Contents(img, i) ==
    LET d == img.ino[i]
    IN  <<d.mode, d.size, d.db, d.ib, [f \in Claimed(Visits(d, img.frag)) |-> img.frag[f]]>>

\* A run that ends without a word has checked a consistent image, and a run
\* over a consistent image has nothing to say: the passes, which read the image
\* piece by piece through their tables, decide what Consistent says of the whole.
SilentMeansSound == pc = "ended" => (w.said = {} <=> sound)

\* While the operator has agreed to nothing the image stays as it is, but for
\* the clean flag, whatever the passes have put right in their buffers: fsck -n
\* never changes it (fsck.8, -n), nor do a refused repair and an interrupt.
RefusedKeepsImage ==
    [][~w.agreed /\ ~w'.agreed =>
           w'.disk = [w.disk EXCEPT !.sb.clean = w'.disk.sb.clean]]_vars

\* No repair of something else takes a sound file's inode or blocks, wherever the
\* process is cut short and whatever is refused, unless it has said SORRY: then
\* no lost+found is there for the files it finds without a name and it clears
\* them.  An operator who refuses to reconnect a file may clear it, too.
KeepsUntouched ==
    [][/\ w'.disk # w.disk /\ "SORRY." \notin w.said
       /\ ~(w.mode = "ask" /\ "UNREF" \in w.said)
       => \A i \in Inos \ {Root} :
            Untouched(w.disk, i) => Contents(w'.disk, i) = Contents(w.disk, i)]_vars

\* Behind pass 1, between two inodes, the block map and the list of duplicates
\* are exactly what the inodes in use name: what pass 5 writes as free is free.
\* An inode whose CLEAR was refused in pass 1 is in neither.
MapsExact ==
    LET inUse == {i \in Inos : w.st[i] # "U" /\ ~w.ino[i].fast}
        runs  == UNION {{<<i, v>> : v \in VisitsNow(w, i)} : i \in inUse}
    IN  /\ pc \in {"root", "pass3", "pass4", "pass5"} /\ stk = <<>>
        /\ w.said \cap {"UNKNOWN FILE TYPE", "INCONSISTENT FAST SYMLINK"} = {}
        => \A f \in Frags :
             LET n == Cardinality({r \in runs : f \in GoodFrags(r[2])}) + (IF f \in Reserved THEN 1 ELSE 0)
             IN  (f \in w.bm <=> n > 0) /\ w.dups[f] = (IF n > 1 THEN n - 1 ELSE 0)

\* Run again as its last line asks, fsck comes to an image it has nothing to
\* say of, however often it was cut short before.  Not so when an operator refuses
\* one repair and takes the next: that may end in a MISSING '.' nothing can fix.
Converges == w.mode # "ask" => <>(pc = "quiet")
=============================================================================
