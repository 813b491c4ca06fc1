-------------------------- MODULE FileData_proofs --------------------------
(***************************************************************************)
(* What a file reads as, what of the image is allocated and what an inode  *)
(* counts, in every state of FileData: ReadsOldOrNew, NamedFilesBacked,    *)
(* NothingLost and BlocksCounted for every number of files, blocks,        *)
(* entries and direct blocks, every size and every number of calls and of  *)
(* failed accesses.                                                        *)
(*                                                                         *)
(* The inductive invariant IInv says which blocks belong to whom: H[f] are *)
(* those of a file with a name, C those of the call in progress, no two of *)
(* these sets have a block in common, and each block b has a place, the    *)
(* level lev[b] and a logical block took[b] on the way to which it is.     *)
(* Closed says that an entry of a block leads to a block of the same set   *)
(* one level below, on the way the entry stands for; as the way determines *)
(* the logical block (WayGives), no block can be reached twice.  A step    *)
(* that stores changes blocks of C only, so that no file reads otherwise;  *)
(* a step that frees takes the next run of the list that was made when     *)
(* freeing began, in which each block is once.                             *)
(*                                                                         *)
(* CInv, inductive beside IInv, says what a call has counted: Charge, its  *)
(* logical blocks as far as it has come, less what the last lacks of a     *)
(* block, and the blocks that the trees reach from the inode.  A block     *)
(* that is linked adds itself and no other to Trees (TreesGrafted).  A     *)
(* file without holes is freed in as many runs as that counts (RunCount),  *)
(* each of a whole block but for the last, so that the sum over the runs   *)
(* is the charge (RunsSum); SumIs computes such a sum, by induction on the *)
(* set's cardinality.  BInv says that every number is within its bound.    *)
(*                                                                         *)
(* The sections: arithmetic; the trees; reading; the runs of a file; the   *)
(* invariant; the calls begin; storing and undoing; the callers; freeing;  *)
(* the block count; the bounds; the theorems.                              *)
(***************************************************************************)
EXTENDS FileData, FiniteSetTheorems, SequenceTheorems, WellFoundedInduction, TLAPS

-----------------------------------------------------------------------------
(* Arithmetic: what / and % are, the blocks of a size, the digits of a     *)
(* logical block.                                                          *)
LEMMA Constants ==
    /\ NBlocks \in Nat \ {0} /\ FragsPerBlock \in Nat \ {0} /\ Direct \in Nat \ {0}
    /\ Entries \in Nat \ {0} /\ Sizes \subseteq Nat /\ MaxCalls \in Nat
    /\ \A w \in Writes : w[1] \in Nat /\ w[2] \in Nat
  BY FileDataAssumption

LEMMA Product ==
    ASSUME NEW a \in Nat, NEW b \in Nat
    PROVE  a * b \in Nat
  OBVIOUS

LEMMA Order ==
    ASSUME NEW a \in Int, NEW b \in Int, NEW c \in Nat, a <= b
    PROVE  a * c <= b * c
<1>1. (b - a) * c >= 0
  OBVIOUS
<1>2. (b - a) * c = b * c - a * c
  OBVIOUS
<1>3. a * c \in Int /\ b * c \in Int
  OBVIOUS
<1>4. QED BY <1>1, <1>2, <1>3

LEMMA DivMod ==
    ASSUME NEW a \in Nat, NEW b \in Nat \ {0}
    PROVE  /\ a \div b \in Nat /\ a % b \in 0..(b - 1)
           /\ a = ((a \div b) * b) + (a % b)
  OBVIOUS

LEMMA DivIs ==
    ASSUME NEW a \in Nat, NEW b \in Nat \ {0}, NEW q \in Nat, NEW r \in 0..(b - 1), a = q * b + r
    PROVE  a \div b = q /\ a % b = r
<1> DEFINE p == a \div b
           t == a % b
<1>1. p \in Nat /\ t \in 0..(b - 1) /\ a = p * b + t
  BY DivMod
<1> HIDE DEF p, t
<1>2. p * b \in Nat /\ q * b \in Nat
  BY <1>1, Product
<1>3. ~(p < q)
  <2>1. ASSUME p + 1 <= q PROVE FALSE
    <3>1. (p + 1) * b <= q * b
      BY <1>1, <2>1, Order
    <3>2. (p + 1) * b = p * b + b
      BY <1>1
    <3>3. QED BY <1>1, <1>2, <3>1, <3>2
  <2>2. QED BY <2>1, <1>1
<1>4. ~(q < p)
  <2>1. ASSUME q + 1 <= p PROVE FALSE
    <3>1. (q + 1) * b <= p * b
      BY <1>1, <2>1, Order
    <3>2. (q + 1) * b = q * b + b
      OBVIOUS
    <3>3. QED BY <1>1, <1>2, <3>1, <3>2
  <2>2. QED BY <2>1, <1>1
<1>5. p = q
  BY <1>1, <1>3, <1>4
<1>6. t = r
  BY <1>1, <1>2, <1>5
<1>7. QED BY <1>5, <1>6 DEF p, t

LEMMA DivDiv ==
    ASSUME NEW a \in Nat, NEW b \in Nat \ {0}
    PROVE  a \div (b * b) = (a \div b) \div b
<1> DEFINE q == a \div b
           r == a % b
           p == q \div b
           t == q % b
<1>1. q \in Nat /\ r \in 0..(b - 1) /\ a = q * b + r
  BY DivMod
<1>2. p \in Nat /\ t \in 0..(b - 1) /\ q = p * b + t
  <2>1. q \in Nat
    BY <1>1
  <2> HIDE DEF q
  <2>2. QED BY <2>1, DivMod
<1> HIDE DEF q, r, p, t
<1>3. a = (p * b + t) * b + r
  BY <1>1, <1>2
<1>4. (p * b + t) * b = p * (b * b) + t * b
  <2>1. (p * b + t) * b = (p * b) * b + t * b
    BY <1>2
  <2>2. (p * b) * b = p * (b * b)
    BY <1>2
  <2>3. QED BY <2>1, <2>2
<1>5. t * b + r \in 0..(b * b - 1)
  <2>1. t * b <= (b - 1) * b
    BY <1>2, Order
  <2>2. (b - 1) * b = b * b - b
    OBVIOUS
  <2>3. t * b \in Nat /\ b * b \in Nat
    BY <1>2, Product
  <2>4. QED BY <1>1, <2>1, <2>2, <2>3
<1>6. a = p * (b * b) + (t * b + r)
  <2>1. p * (b * b) \in Nat /\ t * b \in Nat /\ r \in Nat
    <3>1. b * b \in Nat
      OBVIOUS
    <3>2. QED BY <1>1, <1>2, <3>1, Product
  <2>2. QED BY <1>3, <1>4, <2>1
<1>7. b * b \in Nat \ {0}
  <2>1. b * b >= 1 * b
    BY Order
  <2>2. QED BY <2>1
<1>8. PICK bb \in Nat \ {0} : bb = b * b
  BY <1>7
<1>9. PICK u \in 0..(bb - 1) : u = t * b + r
  BY <1>5, <1>8
<1>10. a \div bb = p
  <2>1. a = p * bb + u
    BY <1>6, <1>8, <1>9
  <2>2. QED BY <2>1, <1>2, DivIs
<1>11. QED BY <1>10, <1>8 DEF p, q

\* Of numbers, the whole blocks of a size: a block is one when it begins
\* before the end.
LEMMA CeilIs ==
    ASSUME NEW n \in Nat, NEW k \in Nat
    PROVE  Ceil(n) \in Nat /\ (k < Ceil(n) <=> k * FragsPerBlock < n)
<1> DEFINE F == FragsPerBlock
           c == (n + F - 1) \div F
           r == (n + F - 1) % F
<1>1. F \in Nat \ {0} /\ n + F - 1 \in Nat
  BY Constants
<1>2. c \in Nat /\ r \in 0..(F - 1) /\ n + F - 1 = c * F + r
  BY <1>1, DivMod
<1>3. Ceil(n) = c
  BY DEF Ceil
<1> HIDE DEF F, c, r
<1>4. k * F \in Nat /\ c * F \in Nat
  BY <1>1, <1>2, Product
<1>5. ASSUME k + 1 <= c PROVE k * F < n
  <2>1. (k + 1) * F <= c * F
    BY <1>1, <1>2, <1>5, Order
  <2>2. (k + 1) * F = k * F + F
    BY <1>1
  <2>3. QED BY <1>1, <1>2, <1>4, <2>1, <2>2
<1>6. ASSUME c <= k PROVE ~(k * F < n)
  <2>1. c * F <= k * F
    BY <1>1, <1>2, <1>6, Order
  <2>2. QED BY <1>1, <1>2, <1>4, <2>1
<1>7. QED BY <1>1, <1>2, <1>3, <1>5, <1>6 DEF F

LEMMA CeilGrows ==
    ASSUME NEW m \in Nat, NEW n \in Nat, m <= n
    PROVE  Ceil(m) <= Ceil(n)
<1>1. Ceil(m) \in Nat /\ Ceil(n) \in Nat
  BY CeilIs
<1>2. ASSUME Ceil(n) < Ceil(m) PROVE FALSE
  <2>1. Ceil(n) * FragsPerBlock < m
    BY <1>1, <1>2, CeilIs
  <2>2. ~(Ceil(n) * FragsPerBlock < n)
    BY <1>1, CeilIs
  <2>3. Ceil(n) * FragsPerBlock \in Nat
    BY <1>1, Constants, Product
  <2>4. QED BY <2>1, <2>2, <2>3
<1>3. QED BY <1>1, <1>2

\* The smaller of two numbers.
LEMMA MinIs ==
    ASSUME NEW a \in Int, NEW b \in Int
    PROVE  Min({a, b}) = IF a <= b THEN a ELSE b
  BY DEF Min

LEMMA MaxIs ==
    ASSUME NEW a \in Int, NEW b \in Int
    PROVE  Max({a, b}) = IF a <= b THEN b ELSE a
  BY DEF Max

LEMMA FragsAre ==
    ASSUME NEW size \in Nat, NEW k \in Nat, k < Ceil(size)
    PROVE  FragsOf(k, size) \in 1..FragsPerBlock
<1>1. k * FragsPerBlock < size /\ k * FragsPerBlock \in Nat
  BY CeilIs, Constants, Product
<1>2. Min({size - k * FragsPerBlock, FragsPerBlock}) \in 1..FragsPerBlock
  <2>1. PICK a \in Nat : a = k * FragsPerBlock
    BY <1>1
  <2>2. size - a \in Int /\ a < size
    BY <1>1, <2>1
  <2>3. Min({size - a, FragsPerBlock}) = IF size - a <= FragsPerBlock THEN size - a ELSE FragsPerBlock
    BY <2>2, MinIs, Constants
  <2>4. QED BY <2>1, <2>2, <2>3, Constants
<1>3. QED BY <1>2, Constants DEF FragsOf

-----------------------------------------------------------------------------
(* The trees.                                                              *)
IsSpan(f) == f = [level \in 1..4 |-> IF level = 1 THEN 1 ELSE Entries * f[level - 1]]

LEMMA Spans ==
    /\ Span[1] = 1 /\ Span[2] = Entries
    /\ Span[3] = Entries * Entries /\ Span[4] = Entries * (Entries * Entries)
    /\ \A l \in 1..4 : Span[l] \in Nat \ {0}
<1> DEFINE g == [level \in 1..4 |-> CASE level = 1 -> 1 [] level = 2 -> Entries
                   [] level = 3 -> Entries * Entries [] level = 4 -> Entries * (Entries * Entries)]
<1>1. IsSpan(g)
  <2>1. ASSUME NEW l \in 1..4 PROVE g[l] = IF l = 1 THEN 1 ELSE Entries * g[l - 1]
    <3>1. CASE l = 1 BY <3>1
    <3>2. CASE l = 2 BY <3>2, Constants
    <3>3. CASE l = 3 BY <3>3, Constants
    <3>4. CASE l = 4 BY <3>4, Constants
    <3>5. QED BY <3>1, <3>2, <3>3, <3>4
  <2>2. g = [level \in 1..4 |-> IF level = 1 THEN 1 ELSE Entries * g[level - 1]]
    BY <2>1
  <2>3. QED BY <2>2 DEF IsSpan
<1>2. IsSpan(Span)
  <2>1. Span = CHOOSE f : IsSpan(f)
    BY DEF Span, IsSpan
  <2> HIDE DEF g
  <2>2. QED BY <1>1, <2>1
<1>3. \A l \in 1..4 : Span[l] = IF l = 1 THEN 1 ELSE Entries * Span[l - 1]
  BY <1>2 DEF IsSpan
<1>4. Span[1] = 1
  BY <1>3
<1>5. Span[2] = Entries
  <2>1. Span[2] = Entries * Span[1]
    BY <1>3
  <2>2. QED BY <2>1, <1>4, Constants
<1>6. Span[3] = Entries * Entries
  BY <1>3, <1>5
<1>7. Span[4] = Entries * (Entries * Entries)
  BY <1>3, <1>6
<1>8. Entries * Entries \in Nat \ {0} /\ Entries * (Entries * Entries) \in Nat \ {0}
  <2>1. Entries * Entries >= 1 * Entries
    BY Constants, Order
  <2>2. Entries * Entries \in Nat \ {0}
    BY <2>1, Constants
  <2>3. PICK e \in Nat \ {0} : e = Entries * Entries
    BY <2>2
  <2>4. Entries * e >= 1 * e
    BY Constants, Order
  <2>5. Entries * e \in Nat \ {0}
    BY <2>4, Constants
  <2>6. QED BY <2>2, <2>3, <2>5
<1>9. \A l \in 1..4 : l \in {1, 2, 3, 4}
  OBVIOUS
<1>10. QED BY <1>4, <1>5, <1>6, <1>7, <1>8, <1>9, Constants

IsBase(f) == f = [s \in 0..3 |-> IF s = 0 THEN Direct ELSE f[s - 1] + Span[s + 1]]

LEMMA Bases ==
    /\ Base[0] = Direct /\ Base[1] = Direct + Span[2] /\ Base[2] = Base[1] + Span[3]
    /\ Base[3] = Base[2] + Span[4] /\ \A s \in 0..3 : Base[s] \in Nat \ {0}
<1> DEFINE g == [s \in 0..3 |-> CASE s = 0 -> Direct [] s = 1 -> Direct + Span[2]
                   [] s = 2 -> Direct + Span[2] + Span[3]
                   [] s = 3 -> Direct + Span[2] + Span[3] + Span[4]]
<1>1. IsBase(g)
  <2>1. ASSUME NEW s \in 0..3 PROVE g[s] = IF s = 0 THEN Direct ELSE g[s - 1] + Span[s + 1]
    <3>1. CASE s = 0 BY <3>1
    <3>2. CASE s = 1 BY <3>2
    <3>3. CASE s = 2 BY <3>3
    <3>4. CASE s = 3 BY <3>4
    <3>5. QED BY <3>1, <3>2, <3>3, <3>4
  <2>2. g = [s \in 0..3 |-> IF s = 0 THEN Direct ELSE g[s - 1] + Span[s + 1]]
    BY <2>1
  <2>3. QED BY <2>2 DEF IsBase
<1>2. IsBase(Base)
  <2>1. Base = CHOOSE f : IsBase(f)
    BY DEF Base, IsBase
  <2> HIDE DEF g
  <2>2. QED BY <1>1, <2>1
<1>3. \A s \in 0..3 : Base[s] = IF s = 0 THEN Direct ELSE Base[s - 1] + Span[s + 1]
  BY <1>2 DEF IsBase
<1>4. Base[0] = Direct
  BY <1>3
<1>5. Base[1] = Direct + Span[2]
  BY <1>3, <1>4
<1>6. Base[2] = Base[1] + Span[3] /\ Base[3] = Base[2] + Span[4]
  BY <1>3
<1>7. \A s \in 0..3 : s \in {0, 1, 2, 3}
  OBVIOUS
<1>8. Span[2] \in Nat /\ Span[3] \in Nat /\ Span[4] \in Nat
  BY Spans
<1>9. QED BY <1>4, <1>5, <1>6, <1>7, <1>8, Constants

\* The logical blocks the trees can name, the height of the tree of each, and
\* the entry at each level of the way to it.
Deep == Direct..(Base[3] - 1)
Top(k) == SlotOf[k] + 1
Entry(k, l) == EntryAt(k - Base[SlotOf[k]], l)

LEMMA Slot ==
    ASSUME NEW k \in Deep
    PROVE  /\ SlotOf[k] \in Slots /\ Base[SlotOf[k]] <= k /\ k < Base[SlotOf[k] + 1]
           /\ Top(k) \in 1..3 /\ k \in Nat /\ k - Base[SlotOf[k]] \in Nat
<1>1. k \in Nat /\ k \in Int
  BY Constants, Bases DEF Deep
<1>2. \E s \in Slots : Base[s] <= k /\ k < Base[s + 1]
  <2>1. Base[0] <= k /\ k < Base[3]
    BY <1>1, Bases DEF Deep
  <2>2. CASE k < Base[1] BY <2>1, <2>2 DEF Slots
  <2>3. CASE Base[1] <= k /\ k < Base[2] BY <2>3 DEF Slots
  <2>4. CASE Base[2] <= k BY <2>1, <2>4 DEF Slots
  <2>5. QED BY <2>2, <2>3, <2>4, <1>1, Bases
<1>3. SlotOf[k] = CHOOSE s \in Slots : Base[s] <= k /\ k < Base[s + 1]
  BY DEF SlotOf, Deep
<1>4. SlotOf[k] \in Slots /\ Base[SlotOf[k]] <= k /\ k < Base[SlotOf[k] + 1]
  BY <1>2, <1>3
<1>5. Base[SlotOf[k]] \in Nat
  BY <1>4, Bases DEF Slots
<1>6. QED BY <1>1, <1>4, <1>5 DEF Top, Slots

LEMMA EntryIn ==
    ASSUME NEW k \in Deep, NEW l \in 1..3
    PROVE  Entry(k, l) \in Index
<1>1. k - Base[SlotOf[k]] \in Nat
  BY Slot
<1>2. Span[l] \in Nat \ {0}
  BY Spans
<1>3. PICK q \in Nat : q = (k - Base[SlotOf[k]]) \div Span[l]
  BY <1>1, <1>2, DivMod
<1>4. q % Entries \in 0..(Entries - 1)
  BY Constants, DivMod
<1>5. QED BY <1>3, <1>4 DEF Entry, EntryAt, Index

\* Two logical blocks of one tree whose ways agree above a level.
Same(j, k, l) ==
    /\ SlotOf[j] = SlotOf[k]
    /\ \A h \in 1..3 : l < h /\ h <= Top(k) => Entry(j, h) = Entry(k, h)

LEMMA SmallDigits ==
    ASSUME NEW x \in Nat, x < Entries * (Entries * Entries)
    PROVE  /\ x \div Span[1] = x
           /\ x = (x \div Span[2]) * Entries + (x % Entries)
           /\ x \div Span[2] = (x \div Span[3]) * Entries + ((x \div Span[2]) % Entries)
           /\ x \div Span[3] = (x \div Span[3]) % Entries
<1>1. x \div Span[1] = x
  BY Spans
<1>2. x = (x \div Span[2]) * Entries + (x % Entries)
  BY Spans, DivMod, Constants
<1>3. x \div Span[3] = (x \div Entries) \div Entries
  <2>1. x \div (Entries * Entries) = (x \div Entries) \div Entries
    BY DivDiv, Constants
  <2>2. QED BY <2>1, Spans
<1>4. PICK q \in Nat : q = x \div Entries
  BY DivMod, Constants
<1>5. q = (q \div Entries) * Entries + (q % Entries)
  BY DivMod, Constants
<1>6. PICK p \in Nat : p = q \div Entries
  BY DivMod, Constants
<1>7. p < Entries
  <2>1. ASSUME Entries <= p PROVE FALSE
    <3>1. Entries * Entries <= p * Entries
      BY <2>1, Order, Constants
    <3>2. p * Entries \in Nat /\ q % Entries \in Nat
      BY Product, Constants, DivMod
    <3>3. Entries * Entries <= q
      BY <1>5, <1>6, <3>1, <3>2, Constants, Product
    <3>4. PICK e \in Nat : e = Entries * Entries
      BY Constants, Product
    <3>5. e * Entries <= q * Entries
      BY <3>3, <3>4, Order, Constants
    <3>6. q * Entries <= x
      <4>1. q * Entries \in Nat /\ x % Entries \in Nat
        BY Product, Constants, DivMod
      <4>2. x = q * Entries + (x % Entries)
        BY <1>2, <1>4, Spans
      <4>3. QED BY <4>1, <4>2
    <3>7. e * Entries = Entries * (Entries * Entries)
      BY <3>4, Constants
    <3>8. e * Entries \in Nat /\ q * Entries \in Nat
      BY Product, Constants
    <3>9. QED BY <3>5, <3>6, <3>7, <3>8
  <2>2. QED BY <2>1, <1>6, Constants
<1>8. p % Entries = p
  <2>1. p = 0 * Entries + p /\ p \in 0..(Entries - 1)
    BY <1>7, Constants
  <2>2. QED BY <2>1, DivIs, Constants
<1>9. QED BY <1>1, <1>2, <1>3, <1>4, <1>5, <1>6, <1>8, Spans

\* A logical block is given by its way.
LEMMA WayGives ==
    ASSUME NEW j \in Deep, NEW k \in Deep, Same(j, k, 0)
    PROVE  j = k
<1> DEFINE s == SlotOf[k]
           x == j - Base[s]
           y == k - Base[s]
<1>1. SlotOf[j] = s /\ s \in Slots
  BY Slot DEF Same
<1>2. x \in Nat /\ y \in Nat /\ x < Span[s + 2] /\ y < Span[s + 2]
  <2>1. x \in Nat /\ y \in Nat
    BY <1>1, Slot
  <2>2. j < Base[s + 1] /\ k < Base[s + 1] /\ j \in Nat /\ k \in Nat
    BY <1>1, Slot
  <2>3. Base[s + 1] = Base[s] + Span[s + 2] /\ Base[s] \in Nat /\ Span[s + 2] \in Nat
    <3>1. CASE s = 0 BY <3>1, Bases, Spans
    <3>2. CASE s = 1 BY <3>2, Bases, Spans
    <3>3. CASE s = 2 BY <3>3, Bases, Spans
    <3>4. QED BY <1>1, <3>1, <3>2, <3>3 DEF Slots
  <2>4. QED BY <2>1, <2>2, <2>3
<1>3. \A h \in 1..3 : h <= s + 1 => (x \div Span[h]) % Entries = (y \div Span[h]) % Entries
  BY <1>1 DEF Same, Top, Entry, EntryAt
<1> HIDE DEF x, y, s
<1>4. x = y
  <2>1. CASE s = 0
    <3>1. x \div Span[1] = x /\ y \div Span[1] = y
      BY <1>2, Spans
    <3>2. x % Entries = y % Entries
      BY <1>3, <2>1, <3>1
    <3>3. x % Entries = x /\ y % Entries = y
      <4>1. x \in 0..(Entries - 1) /\ y \in 0..(Entries - 1)
        BY <1>2, <2>1, Spans, Constants
      <4>2. x = 0 * Entries + x /\ y = 0 * Entries + y
        BY <1>2, Constants
      <4>3. QED BY <4>1, <4>2, <1>2, DivIs, Constants
    <3>4. QED BY <3>2, <3>3
  <2>2. CASE s = 1
    <3>1. PICK e \in Nat : e = Entries * Entries
      BY Constants, Product
    <3>2. e <= e * Entries
      <4>1. 1 * e <= Entries * e
        BY Order, Constants
      <4>2. QED BY <4>1, Constants
    <3>3. x < e /\ y < e /\ e * Entries = Entries * (Entries * Entries)
      BY <1>2, <2>2, <3>1, Spans, Constants
    <3>4. x < Entries * (Entries * Entries) /\ y < Entries * (Entries * Entries)
      BY <3>2, <3>3, <1>2, Constants, Product
    <3>5. x \div Span[3] = 0 /\ y \div Span[3] = 0
      <4>1. x = 0 * e + x /\ y = 0 * e + y /\ x \in 0..(e - 1) /\ y \in 0..(e - 1) /\ e # 0
        BY <1>2, <3>3
      <4>2. QED BY <4>1, <1>2, <3>1, Spans, DivIs
    <3>6. x % Entries = y % Entries
      BY <1>3, <2>2, <1>2, <3>4, SmallDigits
    <3>7. (x \div Span[2]) % Entries = (y \div Span[2]) % Entries
      BY <1>3, <2>2
    <3>8. x \div Span[2] = y \div Span[2]
      BY <3>5, <3>7, <3>4, <1>2, SmallDigits
    <3>9. QED BY <3>6, <3>8, <3>4, <1>2, SmallDigits
  <2>3. CASE s = 2
    <3>1. x < Entries * (Entries * Entries) /\ y < Entries * (Entries * Entries)
      BY <1>2, <2>3, Spans
    <3>2. x % Entries = y % Entries
      BY <1>3, <2>3, <1>2, <3>1, SmallDigits
    <3>3. (x \div Span[2]) % Entries = (y \div Span[2]) % Entries
      BY <1>3, <2>3
    <3>4. x \div Span[3] = y \div Span[3]
      BY <1>3, <2>3, <1>2, <3>1, SmallDigits
    <3>5. x \div Span[2] = y \div Span[2]
      BY <3>3, <3>4, <3>1, <1>2, SmallDigits
    <3>6. QED BY <3>2, <3>5, <3>1, <1>2, SmallDigits
  <2>4. QED BY <1>1, <2>1, <2>2, <2>3 DEF Slots
<1>5. Base[s] \in Nat /\ j \in Nat /\ k \in Nat
  <2>1. s \in 0..3
    BY <1>1 DEF Slots
  <2>2. QED BY <2>1, Bases, Slot
<1>6. QED BY <1>4, <1>5 DEF x, y

-----------------------------------------------------------------------------
(* Reading an image whose blocks hold m.                                   *)
Follow(m, b, i) == IF b = 0 THEN 0 ELSE m[b].ent[i]

\* The block of level l on the way to logical block k, if there is one.
Way(m, ino, k, l) ==
    LET root == ino.ib[SlotOf[k]]
        one  == Follow(m, root, Entry(k, Top(k)))
        two  == Follow(m, one, Entry(k, Top(k) - 1))
    IN  IF l = Top(k) THEN root
        ELSE IF l = Top(k) - 1 THEN one
        ELSE IF l = Top(k) - 2 THEN two
        ELSE Follow(m, two, Entry(k, Top(k) - 2))

LEMMA WayDown ==
    ASSUME NEW m, NEW ino, NEW k \in Deep
    PROVE  /\ Way(m, ino, k, Top(k)) = ino.ib[SlotOf[k]]
           /\ \A l \in 0..3 : l < Top(k) =>
                Way(m, ino, k, l) = Follow(m, Way(m, ino, k, l + 1), Entry(k, l + 1))
<1>1. Top(k) \in 1..3
  BY Slot
<1>2. ASSUME NEW l \in 0..3, l < Top(k)
      PROVE  Way(m, ino, k, l) = Follow(m, Way(m, ino, k, l + 1), Entry(k, l + 1))
  <2>1. CASE l = Top(k) - 1
    <3>1. l + 1 = Top(k) /\ l # Top(k)
      BY <1>1, <2>1
    <3>2. QED BY <2>1, <3>1 DEF Way
  <2>2. CASE l = Top(k) - 2
    <3>1. l + 1 = Top(k) - 1 /\ l # Top(k) /\ l # Top(k) - 1 /\ l + 1 # Top(k)
      BY <1>1, <2>2
    <3>2. QED BY <2>2, <3>1 DEF Way
  <2>3. CASE l = Top(k) - 3
    <3>1. l + 1 = Top(k) - 2 /\ l # Top(k) /\ l # Top(k) - 1 /\ l # Top(k) - 2
          /\ l + 1 # Top(k) /\ l + 1 # Top(k) - 1
      BY <1>1, <2>3
    <3>2. QED BY <2>3, <3>1 DEF Way
  <2>4. QED BY <1>1, <1>2, <2>1, <2>2, <2>3
<1>3. Way(m, ino, k, Top(k)) = ino.ib[SlotOf[k]]
  BY DEF Way
<1>4. QED BY <1>2, <1>3

\* The block that holds logical block k.
Lead(m, ino, k) == IF k < Direct THEN ino.db[k] ELSE Way(m, ino, k, 0)

IsDown(f, m, ino, s, ix) ==
    f = [level \in 0..(s + 1) |->
            IF level = s + 1 THEN ino.ib[s]
            ELSE LET b == f[level + 1]
                 IN  IF b = 0 THEN 0 ELSE m[b].ent[EntryAt(ix, level + 1)]]

LEMMA ResolveIs ==
    ASSUME NEW ino, NEW k \in 0..(Base[3] - 1)
    PROVE  Resolve(ino, k) = Lead(bytes, ino, k)
<1>1. CASE k < Direct
  BY <1>1 DEF Resolve, Lead
<1>2. CASE ~(k < Direct)
  <2> DEFINE s == SlotOf[k]
             ix == k - Base[SlotOf[k]]
             g == [l \in 0..(s + 1) |-> Way(bytes, ino, k, l)]
             d == CHOOSE f : IsDown(f, bytes, ino, s, ix)
  <2>1. k \in Deep
    BY <1>2, Constants, Bases DEF Deep
  <2>2. s \in Slots /\ Top(k) = s + 1 /\ \A l \in 1..3 : Entry(k, l) = EntryAt(ix, l)
    BY <2>1, Slot DEF Top, Entry
  <2>3. Resolve(ino, k) = d[0]
    BY <1>2 DEF Resolve, IsDown
  <2>4. IsDown(g, bytes, ino, s, ix)
    <3>1. ASSUME NEW l \in 0..(s + 1)
          PROVE  g[l] = IF l = s + 1 THEN ino.ib[s]
                        ELSE LET b == g[l + 1]
                             IN  IF b = 0 THEN 0 ELSE bytes[b].ent[EntryAt(ix, l + 1)]
      <4>1. CASE l = s + 1
        BY <4>1, <2>1, <2>2, WayDown
      <4>2. CASE l # s + 1
        <5>1. l \in 0..3 /\ l < Top(k) /\ l + 1 \in 0..(s + 1) /\ l + 1 \in 1..3
          BY <4>2, <2>2 DEF Slots
        <5>2. g[l] = Follow(bytes, Way(bytes, ino, k, l + 1), Entry(k, l + 1))
          BY <5>1, <2>1, WayDown
        <5>3. g[l + 1] = Way(bytes, ino, k, l + 1) /\ Entry(k, l + 1) = EntryAt(ix, l + 1)
          BY <5>1, <2>2
        <5>4. QED BY <4>2, <5>2, <5>3 DEF Follow
      <4>3. QED BY <4>1, <4>2
    <3>2. g = [l \in 0..(s + 1) |->
                  IF l = s + 1 THEN ino.ib[s]
                  ELSE LET b == g[l + 1]
                       IN  IF b = 0 THEN 0 ELSE bytes[b].ent[EntryAt(ix, l + 1)]]
      BY <3>1
    <3> HIDE DEF g
    <3>3. QED BY <3>2 DEF IsDown
  <2>5. IsDown(d, bytes, ino, s, ix)
    <3> HIDE DEF g, s, ix
    <3>1. QED BY <2>4
  <2>6. \A l \in 0..(s + 1) : d[l] = IF l = s + 1 THEN ino.ib[s] ELSE Follow(bytes, d[l + 1], EntryAt(ix, l + 1))
    <3> HIDE DEF d
    <3>1. QED BY <2>5 DEF IsDown, Follow
  <2> HIDE DEF d
  <2>7. ASSUME NEW l \in 0..(s + 1), l < s + 1, d[l + 1] = Way(bytes, ino, k, l + 1)
        PROVE  d[l] = Way(bytes, ino, k, l)
    <3>1. l \in 0..3 /\ l < Top(k) /\ l + 1 \in 1..3
      BY <2>2, <2>7 DEF Slots
    <3>2. QED BY <3>1, <2>1, <2>2, <2>6, <2>7, WayDown
  <2>8. d[s + 1] = Way(bytes, ino, k, s + 1)
    <3>1. s + 1 \in 0..(s + 1)
      BY <2>2 DEF Slots
    <3>2. QED BY <3>1, <2>1, <2>2, <2>6, WayDown
  <2> HIDE DEF ix
  <2>9. d[0] = Way(bytes, ino, k, 0)
    <3>1. CASE s = 0
      BY <3>1, <2>7, <2>8
    <3>2. CASE s = 1
      <4>1. d[1] = Way(bytes, ino, k, 1) BY <3>2, <2>7, <2>8
      <4>2. QED BY <3>2, <4>1, <2>7
    <3>3. CASE s = 2
      <4>1. d[2] = Way(bytes, ino, k, 2) BY <3>3, <2>7, <2>8
      <4>2. d[1] = Way(bytes, ino, k, 1) BY <3>3, <4>1, <2>7
      <4>3. QED BY <3>3, <4>2, <2>7
    <3>4. QED BY <2>2, <3>1, <3>2, <3>3 DEF Slots
  <2>10. QED BY <1>2, <2>3, <2>9 DEF Lead
<1>3. QED BY <1>1, <1>2

\* Where the blocks of S lie: their levels, and a logical block on the way to
\* which each is.  The children of a block of S are in S.
Placed(x, k, l, S, lev, took) == x \in S /\ lev[x] = l /\ took[x] \in Deep /\ Same(took[x], k, l)
IsChild(x, b, i, S, lev, took) ==
    /\ x \in S /\ lev[x] = lev[b] - 1
    /\ took[x] \in Deep /\ Same(took[x], took[b], lev[b]) /\ Entry(took[x], lev[b]) = i
Closed(m, S, lev, took) ==
    \A b \in S : lev[b] # 0 =>
        /\ took[b] \in Deep /\ lev[b] \in 1..3 /\ lev[b] <= Top(took[b])
        /\ \A i \in Index : m[b].ent[i] # 0 => IsChild(m[b].ent[i], b, i, S, lev, took)

\* What an inode names is in S, at the place it is named for.
Rooted(ino, S, lev, took) ==
    /\ \A k \in 0..(Direct - 1) : ino.db[k] # 0 =>
         ino.db[k] \in S /\ lev[ino.db[k]] = 0 /\ took[ino.db[k]] = k
    /\ \A s \in Slots : ino.ib[s] # 0 =>
         /\ ino.ib[s] \in S /\ lev[ino.ib[s]] = s + 1
         /\ took[ino.ib[s]] \in Deep /\ SlotOf[took[ino.ib[s]]] = s
Shape(m, ino, S, lev, took) == Rooted(ino, S, lev, took) /\ Closed(m, S, lev, took)

LEMMA SameDown ==
    ASSUME NEW j \in Deep, NEW i \in Deep, NEW k \in Deep, NEW l \in 0..3,
           Same(j, i, l + 1), Same(i, k, l + 1), Entry(j, l + 1) = Entry(k, l + 1)
    PROVE  Same(j, k, l)
<1>1. SlotOf[j] = SlotOf[k] /\ Top(i) = Top(k)
  BY DEF Same, Top
<1>2. ASSUME NEW h \in 1..3, l < h, h <= Top(k) PROVE Entry(j, h) = Entry(k, h)
  <2>1. CASE h = l + 1 BY <2>1
  <2>2. CASE l + 1 < h
    <3>1. Entry(j, h) = Entry(i, h) /\ Entry(i, h) = Entry(k, h)
      BY <2>2, <1>1, <1>2 DEF Same
    <3>2. QED BY <3>1
  <2>3. QED BY <1>2, <2>1, <2>2
<1>3. QED BY <1>1, <1>2 DEF Same

LEMMA WayIn ==
    ASSUME NEW m, NEW ino, NEW S, NEW lev, NEW took, Shape(m, ino, S, lev, took),
           NEW k \in Deep, NEW l \in 0..3, l <= Top(k), Way(m, ino, k, l) # 0
    PROVE  Placed(Way(m, ino, k, l), k, l, S, lev, took)
<1> DEFINE W(n) == Way(m, ino, k, n)
           P(n) == W(n) # 0 => Placed(W(n), k, n, S, lev, took)
<1>1. SlotOf[k] \in Slots /\ Top(k) = SlotOf[k] + 1 /\ Top(k) \in 1..3
  BY Slot DEF Top
<1>2. P(Top(k))
  <2>1. W(Top(k)) = ino.ib[SlotOf[k]]
    BY WayDown
  <2>2. ASSUME W(Top(k)) # 0 PROVE Placed(W(Top(k)), k, Top(k), S, lev, took)
    <3>1. /\ W(Top(k)) \in S /\ lev[W(Top(k))] = Top(k)
          /\ took[W(Top(k))] \in Deep /\ SlotOf[took[W(Top(k))]] = SlotOf[k]
      BY <1>1, <2>1, <2>2 DEF Shape, Rooted
    <3>2. Same(took[W(Top(k))], k, Top(k))
      BY <3>1, <1>1 DEF Same
    <3>3. QED BY <3>1, <3>2 DEF Placed
  <2>3. QED BY <2>2
<1>3. ASSUME NEW n \in 0..3, n < Top(k), P(n + 1) PROVE P(n)
  <2>1. SUFFICES ASSUME W(n) # 0 PROVE Placed(W(n), k, n, S, lev, took)
    OBVIOUS
  <2>2. W(n) = Follow(m, W(n + 1), Entry(k, n + 1))
    BY <1>3, WayDown
  <2>3. W(n + 1) # 0 /\ W(n) = m[W(n + 1)].ent[Entry(k, n + 1)]
    BY <2>1, <2>2 DEF Follow
  <2> DEFINE b == W(n + 1)
             x == W(n)
  <2>4. Placed(b, k, n + 1, S, lev, took)
    BY <1>3, <2>3
  <2>5. n + 1 \in 1..3 /\ Entry(k, n + 1) \in Index
    BY <1>1, <1>3, EntryIn
  <2> HIDE DEF b, x, W
  <2>6. x # 0 /\ x = m[b].ent[Entry(k, n + 1)]
    BY <2>1, <2>3 DEF x, b
  <2>7. b \in S /\ lev[b] = n + 1 /\ took[b] \in Deep /\ Same(took[b], k, n + 1)
    BY <2>4 DEF Placed
  <2>8. IsChild(x, b, Entry(k, n + 1), S, lev, took)
    BY <2>5, <2>6, <2>7 DEF Shape, Closed
  <2>9. x \in S /\ lev[x] = n /\ took[x] \in Deep /\ Same(took[x], took[b], n + 1)
        /\ Entry(took[x], n + 1) = Entry(k, n + 1)
    BY <2>7, <2>8 DEF IsChild
  <2>10. Same(took[x], k, n)
    BY <1>3, <2>7, <2>9, SameDown
  <2>11. QED BY <2>9, <2>10 DEF Placed, x
<1> HIDE DEF P
<1>4. P(l)
  <2>1. Top(k) \in {1, 2, 3} /\ l \in 0..3
    BY <1>1
  <2>2. \A n \in 0..3 : n < Top(k) /\ P(n + 1) => P(n)
    BY <1>3
  <2>3. QED BY <2>1, <2>2, <1>2
<1>5. QED BY <1>4 DEF P

\* The block of a logical block is no other's.
LEMMA LeadIn ==
    ASSUME NEW m, NEW ino, NEW S, NEW lev, NEW took, Shape(m, ino, S, lev, took),
           NEW k \in 0..(Base[3] - 1), Lead(m, ino, k) # 0
    PROVE  /\ Lead(m, ino, k) \in S /\ lev[Lead(m, ino, k)] = 0 /\ took[Lead(m, ino, k)] = k
           /\ k >= Direct => ino.ib[SlotOf[k]] # 0
<1>1. CASE k < Direct
  BY <1>1, Constants DEF Lead, Shape, Rooted
<1>2. CASE ~(k < Direct)
  <2>1. k \in Deep /\ Lead(m, ino, k) = Way(m, ino, k, 0)
    BY <1>2, Constants, Bases DEF Deep, Lead
  <2>2. Placed(Lead(m, ino, k), k, 0, S, lev, took)
    BY <2>1, WayIn, Slot
  <2>3. took[Lead(m, ino, k)] = k
    BY <2>1, <2>2, WayGives DEF Placed
  <2>4. ino.ib[SlotOf[k]] # 0
    <3>1. SUFFICES ASSUME ino.ib[SlotOf[k]] = 0 PROVE FALSE
      OBVIOUS
    <3>2. Top(k) \in {1, 2, 3} /\ Way(m, ino, k, Top(k)) = 0
      BY <3>1, <2>1, Slot, WayDown
    <3>3. \A n \in 0..3 : n < Top(k) /\ Way(m, ino, k, n + 1) = 0 => Way(m, ino, k, n) = 0
      BY <2>1, WayDown DEF Follow
    <3>4. Way(m, ino, k, 0) = 0
      BY <3>2, <3>3
    <3>5. QED BY <3>4, <2>1
  <2>5. QED BY <2>2, <2>3, <2>4 DEF Placed
<1>3. QED BY <1>1, <1>2

\* Reading contents of size ino.size.
Content(m, ino) ==
    [i \in 1..ino.size |->
        LET k == (i - 1) \div FragsPerBlock
        IN  IF k >= Direct /\ ino.ib[SlotOf[k]] = 0 THEN Refused
            ELSE IF Lead(m, ino, k) = 0 THEN 0
            ELSE m[Lead(m, ino, k)].val[(i - 1) % FragsPerBlock]]

LEMMA FragBlock ==
    ASSUME NEW size \in Nat, Fits(size), NEW i \in 1..size
    PROVE  /\ (i - 1) \div FragsPerBlock \in 0..(Base[3] - 1)
           /\ (i - 1) \div FragsPerBlock < Ceil(size)
           /\ (i - 1) % FragsPerBlock \in 0..(FragsPerBlock - 1)
           /\ ((i - 1) \div FragsPerBlock) * FragsPerBlock + ((i - 1) % FragsPerBlock) = i - 1
<1>1. i - 1 \in Nat
  OBVIOUS
<1>2. PICK k \in Nat : k = (i - 1) \div FragsPerBlock
  BY <1>1, Constants, DivMod
<1>3. PICK r \in 0..(FragsPerBlock - 1) : r = (i - 1) % FragsPerBlock
  BY <1>1, Constants, DivMod
<1>4. i - 1 = k * FragsPerBlock + r
  BY <1>1, <1>2, <1>3, Constants, DivMod
<1>5. k * FragsPerBlock \in Nat
  BY Constants, Product
<1>6. k * FragsPerBlock < size
  BY <1>3, <1>4, <1>5, Constants
<1>7. k < Ceil(size) /\ Ceil(size) \in Nat
  BY <1>6, CeilIs
<1>8. Ceil(size) <= Base[3] /\ Base[3] \in Nat
  BY Bases DEF Fits
<1>9. QED BY <1>2, <1>3, <1>4, <1>7, <1>8

LEMMA ReadIs ==
    ASSUME NEW ino, ino.size \in Nat, Fits(ino.size)
    PROVE  ReadFile(ino) = Content(bytes, ino)
<1>1. ASSUME NEW i \in 1..ino.size
      PROVE  ReadFrag(ino, i - 1) = Content(bytes, ino)[i]
  <2>1. PICK k \in 0..(Base[3] - 1) : k = (i - 1) \div FragsPerBlock
    BY FragBlock
  <2>2. Resolve(ino, k) = Lead(bytes, ino, k)
    BY ResolveIs
  <2>3. QED BY <2>1, <2>2 DEF ReadFrag, Content
<1>2. Content(bytes, ino) = [i \in 1..ino.size |-> Content(bytes, ino)[i]]
  BY DEF Content
<1>3. QED BY <1>1, <1>2 DEF ReadFile

-----------------------------------------------------------------------------
(* What a change of the image leaves as it was.                            *)

\* Where no entry on the way changes, the way does not.
LEMMA WayKept ==
    ASSUME NEW m, NEW n, NEW ino, NEW new, NEW k \in Deep,
           new.ib[SlotOf[k]] = ino.ib[SlotOf[k]],
           \A l \in 1..3 : l <= Top(k) /\ Way(m, ino, k, l) # 0
             => n[Way(m, ino, k, l)].ent[Entry(k, l)] = m[Way(m, ino, k, l)].ent[Entry(k, l)]
    PROVE  \A l \in 0..3 : l <= Top(k) => Way(n, new, k, l) = Way(m, ino, k, l)
<1> DEFINE P(l) == Way(n, new, k, l) = Way(m, ino, k, l)
<1>1. Top(k) \in {1, 2, 3}
  BY Slot
<1>2. P(Top(k))
  BY WayDown
<1>3. ASSUME NEW l \in 0..3, l < Top(k), P(l + 1) PROVE P(l)
  <2>1. /\ Way(n, new, k, l) = Follow(n, Way(n, new, k, l + 1), Entry(k, l + 1))
        /\ Way(m, ino, k, l) = Follow(m, Way(m, ino, k, l + 1), Entry(k, l + 1))
    BY <1>3, WayDown
  <2>2. l + 1 \in 1..3 /\ l + 1 <= Top(k)
    BY <1>1, <1>3
  <2>3. QED BY <1>3, <2>1, <2>2 DEF Follow
<1> HIDE DEF P
<1>4. \A l \in 0..3 : l < Top(k) /\ P(l + 1) => P(l)
  BY <1>3
<1>5. \A l \in 0..3 : l <= Top(k) => P(l)
  BY <1>1, <1>2, <1>4
<1>6. QED BY <1>5 DEF P

\* A file whose blocks are as they were.
Alike(S, m, n, lev, took, lev2, took2) ==
    \A b \in S : n[b] = m[b] /\ lev2[b] = lev[b] /\ took2[b] = took[b]

LEMMA ShapeKept ==
    ASSUME NEW m, NEW n, NEW S, NEW lev, NEW took, NEW lev2, NEW took2, NEW ino,
           Shape(m, ino, S, lev, took), Alike(S, m, n, lev, took, lev2, took2)
    PROVE  Shape(n, ino, S, lev2, took2)
<1>1. Rooted(ino, S, lev2, took2)
  BY DEF Shape, Rooted, Alike
<1>2. Closed(n, S, lev2, took2)
  <2>1. SUFFICES ASSUME NEW b \in S, lev2[b] # 0
                 PROVE  /\ took2[b] \in Deep /\ lev2[b] \in 1..3 /\ lev2[b] <= Top(took2[b])
                        /\ \A i \in Index : n[b].ent[i] # 0 => IsChild(n[b].ent[i], b, i, S, lev2, took2)
    BY DEF Closed
  <2>2. n[b] = m[b] /\ lev2[b] = lev[b] /\ took2[b] = took[b]
    BY DEF Alike
  <2>3. /\ took[b] \in Deep /\ lev[b] \in 1..3 /\ lev[b] <= Top(took[b])
        /\ \A i \in Index : m[b].ent[i] # 0 => IsChild(m[b].ent[i], b, i, S, lev, took)
    BY <2>1, <2>2 DEF Shape, Closed
  <2>4. ASSUME NEW i \in Index, n[b].ent[i] # 0
        PROVE  IsChild(n[b].ent[i], b, i, S, lev2, took2)
    <3>1. IsChild(m[b].ent[i], b, i, S, lev, took)
      BY <2>2, <2>3, <2>4
    <3>2. QED BY <2>2, <3>1 DEF IsChild, Alike
  <2>5. QED BY <2>2, <2>3, <2>4
<1>3. QED BY <1>1, <1>2 DEF Shape

LEMMA LeadKept ==
    ASSUME NEW m, NEW n, NEW S, NEW lev, NEW took, NEW ino,
           Shape(m, ino, S, lev, took), \A b \in S : lev[b] # 0 => n[b].ent = m[b].ent,
           NEW k \in 0..(Base[3] - 1)
    PROVE  Lead(n, ino, k) = Lead(m, ino, k)
<1>1. CASE k < Direct
  BY <1>1 DEF Lead
<1>2. CASE ~(k < Direct)
  <2>1. k \in Deep
    BY <1>2, Constants, Bases DEF Deep
  <2>2. ASSUME NEW l \in 1..3, l <= Top(k), Way(m, ino, k, l) # 0
        PROVE  n[Way(m, ino, k, l)].ent[Entry(k, l)] = m[Way(m, ino, k, l)].ent[Entry(k, l)]
    <3>1. Placed(Way(m, ino, k, l), k, l, S, lev, took)
      BY <2>1, <2>2, WayIn
    <3>2. QED BY <3>1 DEF Placed
  <2>3. \A l \in 0..3 : l <= Top(k) => Way(n, ino, k, l) = Way(m, ino, k, l)
    BY <2>1, <2>2, WayKept
  <2>4. QED BY <1>2, <2>1, <2>3, Slot DEF Lead
<1>3. QED BY <1>1, <1>2

LEMMA ContentKept ==
    ASSUME NEW m, NEW n, NEW S, NEW lev, NEW took, NEW ino, ino.size \in Nat, Fits(ino.size),
           Shape(m, ino, S, lev, took), \A b \in S : n[b] = m[b]
    PROVE  Content(n, ino) = Content(m, ino)
<1>1. ASSUME NEW i \in 1..ino.size PROVE Content(n, ino)[i] = Content(m, ino)[i]
  <2>1. PICK k \in 0..(Base[3] - 1) : k = (i - 1) \div FragsPerBlock
    BY FragBlock
  <2>2. Lead(n, ino, k) = Lead(m, ino, k)
    BY LeadKept
  <2>3. Lead(m, ino, k) # 0 => n[Lead(m, ino, k)] = m[Lead(m, ino, k)]
    BY LeadIn
  <2>4. QED BY <2>1, <2>2, <2>3 DEF Content
<1>2. QED BY <1>1 DEF Content

-----------------------------------------------------------------------------
(* The runs of a file are of its blocks.                                   *)
LEMMA LeastNatural ==
    ASSUME NEW S \in SUBSET Nat, S # {}
    PROVE  \E x \in S : \A y \in S : x <= y
<1> DEFINE R == {ss \in Nat \X Nat : ss[1] < ss[2]}
<1>1. IsWellFoundedOn(R, Nat)
  BY NatLessThanWellFounded DEF OpToRel
<1>2. \E x \in S : \A y \in S : ~ (<<y, x>> \in R)
  <2> HIDE DEF R
  <2>1. QED BY <1>1, WFMin
<1>3. PICK x \in S : \A y \in S : ~ (<<y, x>> \in R)
  BY <1>2
<1>4. ASSUME NEW y \in S PROVE x <= y
  <2>1. ~ (y < x)
    BY <1>3
  <2>2. QED BY <2>1
<1>5. QED BY <1>4

\* What holds at 0, and at k + 1 if it holds at k, holds up to the end.
LEMMA Upward ==
    ASSUME NEW n \in Nat, NEW S, 0 \in S, \A k \in 0..(n - 1) : k \in S => k + 1 \in S
    PROVE  0..n \subseteq S
<1> DEFINE Bad == {k \in 0..n : k \notin S}
<1>1. SUFFICES ASSUME Bad # {} PROVE FALSE
  OBVIOUS
<1>2. Bad \in SUBSET Nat
  OBVIOUS
<1>3. PICK k \in Bad : \A j \in Bad : k <= j
  <2> HIDE DEF Bad
  <2>1. QED BY <1>1, <1>2, LeastNatural
<1>4. k - 1 \in 0..(n - 1) /\ k - 1 \in 0..n
  OBVIOUS
<1>5. k - 1 \in S
  <2>1. k - 1 \notin Bad
    BY <1>3, <1>4
  <2>2. QED BY <2>1, <1>4
<1>6. (k - 1) + 1 \in S
  BY <1>4, <1>5
<1>7. QED BY <1>6

IsFlat(f, seqs, n) == f = [i \in 1..n |-> IF i = 1 THEN seqs[i] ELSE f[i - 1] \o seqs[i]]

LEMMA FlatExists ==
    ASSUME NEW seqs, NEW n \in Nat
    PROVE  \E f : IsFlat(f, seqs, n)
<1> DEFINE S == {m \in 0..n : \E f : IsFlat(f, seqs, m)}
<1>1. 0 \in S
  <2> DEFINE f == [i \in 1..0 |-> 0]
  <2>1. f = [i \in 1..0 |-> IF i = 1 THEN seqs[i] ELSE f[i - 1] \o seqs[i]]
    OBVIOUS
  <2> HIDE DEF f
  <2>2. IsFlat(f, seqs, 0)
    BY <2>1 DEF IsFlat
  <2>3. QED BY <2>2
<1>2. ASSUME NEW m \in 0..(n - 1), m \in S PROVE m + 1 \in S
  <2>1. PICK f : IsFlat(f, seqs, m)
    BY <1>2
  <2> DEFINE g == [i \in 1..(m + 1) |-> IF i = m + 1 THEN (IF i = 1 THEN seqs[i] ELSE f[m] \o seqs[i]) ELSE f[i]]
  <2>2. ASSUME NEW i \in 1..(m + 1)
        PROVE  g[i] = IF i = 1 THEN seqs[i] ELSE g[i - 1] \o seqs[i]
    <3>1. CASE i = m + 1
      <4>1. i # 1 => i - 1 \in 1..(m + 1) /\ i - 1 # m + 1 /\ i - 1 = m
        BY <3>1
      <4>2. QED BY <3>1, <4>1
    <3>2. CASE i # m + 1
      <4>1. i \in 1..m /\ (i # 1 => i - 1 \in 1..m)
        BY <3>2
      <4>2. g[i] = f[i] /\ (i # 1 => g[i - 1] = f[i - 1])
        BY <4>1
      <4>3. f[i] = IF i = 1 THEN seqs[i] ELSE f[i - 1] \o seqs[i]
        BY <2>1, <4>1 DEF IsFlat
      <4>4. QED BY <4>2, <4>3
    <3>3. QED BY <3>1, <3>2
  <2>3. g = [i \in 1..(m + 1) |-> IF i = 1 THEN seqs[i] ELSE g[i - 1] \o seqs[i]]
    BY <2>2
  <2> HIDE DEF g
  <2>4. IsFlat(g, seqs, m + 1)
    BY <2>3 DEF IsFlat
  <2>5. QED BY <2>4
<1>3. 0..n \subseteq S
  <2> HIDE DEF S
  <2>1. QED BY <1>1, <1>2, Upward
<1>4. n \in S
  BY <1>3
<1>5. QED BY <1>4

InSeq(x, s) == \E i \in 1..Len(s) : s[i] = x
Once(s) == \A i, j \in 1..Len(s) : s[i] = s[j] => i = j

LEMMA ConcatFacts ==
    ASSUME NEW S, NEW s \in Seq(S), NEW t \in Seq(S)
    PROVE  /\ s \o t \in Seq(S)
           /\ \A x : InSeq(x, s \o t) <=> (InSeq(x, s) \/ InSeq(x, t))
           /\ Once(s) /\ Once(t) /\ (\A x : ~(InSeq(x, s) /\ InSeq(x, t))) => Once(s \o t)
<1> DEFINE c == s \o t
<1>1. /\ c \in Seq(S) /\ Len(c) = Len(s) + Len(t) /\ Len(s) \in Nat /\ Len(t) \in Nat
      /\ \A i \in 1..Len(c) : c[i] = IF i <= Len(s) THEN s[i] ELSE t[i - Len(s)]
  BY ConcatProperties
<1> HIDE DEF c
<1>2. ASSUME NEW x, InSeq(x, c) PROVE InSeq(x, s) \/ InSeq(x, t)
  <2>1. PICK i \in 1..Len(c) : c[i] = x
    BY <1>2 DEF InSeq
  <2>2. CASE i <= Len(s)
    <3>1. i \in 1..Len(s) /\ s[i] = x
      BY <1>1, <2>1, <2>2
    <3>2. QED BY <3>1 DEF InSeq
  <2>3. CASE ~(i <= Len(s))
    <3>1. i - Len(s) \in 1..Len(t) /\ t[i - Len(s)] = x
      BY <1>1, <2>1, <2>3
    <3>2. QED BY <3>1 DEF InSeq
  <2>4. QED BY <2>2, <2>3
<1>3. ASSUME NEW x, InSeq(x, s) PROVE InSeq(x, c)
  <2>1. PICK i \in 1..Len(s) : s[i] = x
    BY <1>3 DEF InSeq
  <2>2. i \in 1..Len(c) /\ c[i] = x
    BY <1>1, <2>1
  <2>3. QED BY <2>2 DEF InSeq
<1>4. ASSUME NEW x, InSeq(x, t) PROVE InSeq(x, c)
  <2>1. PICK i \in 1..Len(t) : t[i] = x
    BY <1>4 DEF InSeq
  <2>2. PICK j \in 1..Len(c) : j = i + Len(s)
    BY <1>1
  <2>3. ~(j <= Len(s)) /\ j - Len(s) = i
    BY <1>1, <2>2
  <2>4. c[j] = x
    BY <1>1, <2>1, <2>3
  <2>5. QED BY <2>4 DEF InSeq
<1>5. ASSUME Once(s), Once(t), \A x : ~(InSeq(x, s) /\ InSeq(x, t)) PROVE Once(c)
  <2>1. SUFFICES ASSUME NEW i \in 1..Len(c), NEW j \in 1..Len(c), c[i] = c[j] PROVE i = j
    BY DEF Once
  <2>2. CASE i <= Len(s) /\ j <= Len(s)
    <3>1. i \in 1..Len(s) /\ j \in 1..Len(s) /\ s[i] = s[j]
      BY <1>1, <2>1, <2>2
    <3>2. QED BY <1>5, <3>1 DEF Once
  <2>3. CASE ~(i <= Len(s)) /\ ~(j <= Len(s))
    <3>1. i - Len(s) \in 1..Len(t) /\ j - Len(s) \in 1..Len(t) /\ t[i - Len(s)] = t[j - Len(s)]
      BY <1>1, <2>1, <2>3
    <3>2. i - Len(s) = j - Len(s)
      BY <1>5, <3>1 DEF Once
    <3>3. QED BY <3>2, <1>1
  <2>4. CASE i <= Len(s) /\ ~(j <= Len(s))
    <3>1. i \in 1..Len(s) /\ j - Len(s) \in 1..Len(t) /\ s[i] = t[j - Len(s)]
      BY <1>1, <2>1, <2>4
    <3>2. InSeq(s[i], s) /\ InSeq(s[i], t)
      BY <3>1 DEF InSeq
    <3>3. QED BY <1>5, <3>2
  <2>5. CASE ~(i <= Len(s)) /\ j <= Len(s)
    <3>1. j \in 1..Len(s) /\ i - Len(s) \in 1..Len(t) /\ s[j] = t[i - Len(s)]
      BY <1>1, <2>1, <2>5
    <3>2. InSeq(s[j], s) /\ InSeq(s[j], t)
      BY <3>1 DEF InSeq
    <3>3. QED BY <1>5, <3>2
  <2>6. QED BY <2>2, <2>3, <2>4, <2>5
<1>6. QED BY <1>1, <1>2, <1>3, <1>4, <1>5 DEF c

\* Sequences of which no two have an element in common, and none has one twice.
Apart(seqs) ==
    /\ \A h \in 1..Len(seqs) : Once(seqs[h])
    /\ \A g, h \in 1..Len(seqs) : \A x : InSeq(x, seqs[g]) /\ InSeq(x, seqs[h]) => g = h

\* What f holds after i of the sequences.
FlatSoFar(f, seqs, S, i) ==
    /\ f[i] \in Seq(S)
    /\ \A x : InSeq(x, f[i]) <=> \E h \in 1..i : InSeq(x, seqs[h])
    /\ Apart(seqs) => Once(f[i])

LEMMA FlattenFacts ==
    ASSUME NEW S, NEW seqs \in Seq(Seq(S))
    PROVE  /\ FlattenSeq(seqs) \in Seq(S)
           /\ \A x : InSeq(x, FlattenSeq(seqs)) <=> \E h \in 1..Len(seqs) : InSeq(x, seqs[h])
           /\ Apart(seqs) => Once(FlattenSeq(seqs))
<1> DEFINE n == Len(seqs)
           f == CHOOSE g : IsFlat(g, seqs, n)
<1>1. n \in Nat
  OBVIOUS
<1>2. CASE n = 0
  <2>1. FlattenSeq(seqs) = seqs /\ seqs = <<>>
    BY <1>2 DEF FlattenSeq
  <2>2. QED BY <2>1, <1>2 DEF InSeq, Once
<1>3. CASE n # 0
  <2>1. FlattenSeq(seqs) = f[n]
    BY <1>3 DEF FlattenSeq, IsFlat
  <2>2. IsFlat(f, seqs, n)
    <3> HIDE DEF n
    <3>1. QED BY <1>1, FlatExists
  <2> HIDE DEF f
  <2>3. \A i \in 1..n : f[i] = IF i = 1 THEN seqs[i] ELSE f[i - 1] \o seqs[i]
    BY <2>2 DEF IsFlat
  <2>4. \A i \in 1..n : seqs[i] \in Seq(S)
    OBVIOUS
  <2>5. Apart(seqs) => /\ \A h \in 1..n : Once(seqs[h])
                       /\ \A g, h \in 1..n : \A x : InSeq(x, seqs[g]) /\ InSeq(x, seqs[h]) => g = h
    BY DEF Apart
  <2> HIDE DEF n
  <2> DEFINE T == {i \in 0..n : i # 0 => FlatSoFar(f, seqs, S, i)}
  <2>6. ASSUME NEW i \in 0..(n - 1), i \in T PROVE i + 1 \in T
    <3>1. PICK j \in 1..n : j = i + 1
      BY <1>1
    <3>2. j \in 0..n /\ seqs[j] \in Seq(S)
      BY <2>4
    <3>3. CASE i = 0
      <4>1. f[1] = seqs[1] /\ j = 1
        BY <3>1, <3>3, <2>3
      <4>2. FlatSoFar(f, seqs, S, 1)
        <5>1. f[1] \in Seq(S)
          BY <4>1, <3>2
        <5>2. 1..1 = {1}
          OBVIOUS
        <5>3. \A x : InSeq(x, f[1]) <=> \E h \in 1..1 : InSeq(x, seqs[h])
          BY <4>1, <5>2
        <5>4. Apart(seqs) => Once(f[1])
          BY <4>1, <2>5
        <5>5. QED BY <5>1, <5>3, <5>4 DEF FlatSoFar
      <4>3. i + 1 = 1
        BY <3>3
      <4>4. FlatSoFar(f, seqs, S, i + 1)
        BY <4>2, <4>3
      <4>5. QED BY <3>1, <3>2, <4>4
    <3>4. CASE i # 0
      <4>1. f[j] = f[j - 1] \o seqs[j]
        <5>1. j # 1
          BY <3>1, <3>4
        <5>2. QED BY <2>3, <5>1
      <4>2. j - 1 = i
        BY <3>1
      <4>3. f[j] = f[i] \o seqs[j] /\ FlatSoFar(f, seqs, S, i)
        BY <2>6, <3>4, <4>1, <4>2
      <4>4. \A h \in 1..j : h \in 1..n /\ (h = j \/ h \in 1..i)
        BY <1>1, <3>1
      <4>5. \A h \in 1..i : h \in 1..j /\ h \in 1..n /\ h # j
        BY <1>1, <3>1
      <4>6. /\ f[j] \in Seq(S)
            /\ \A x : InSeq(x, f[j]) <=> (InSeq(x, f[i]) \/ InSeq(x, seqs[j]))
            /\ Once(f[i]) /\ Once(seqs[j]) /\ (\A x : ~(InSeq(x, f[i]) /\ InSeq(x, seqs[j]))) => Once(f[j])
        BY <3>2, <4>3, ConcatFacts DEF FlatSoFar
      <4>7. ASSUME NEW x PROVE InSeq(x, f[j]) <=> \E h \in 1..j : InSeq(x, seqs[h])
        <5>1. InSeq(x, f[i]) <=> \E h \in 1..i : InSeq(x, seqs[h])
          BY <4>3 DEF FlatSoFar
        <5>2. j \in 1..j
          OBVIOUS
        <5>3. QED BY <4>4, <4>5, <4>6, <5>1, <5>2
      <4>8. ASSUME Apart(seqs) PROVE Once(f[j])
        <5>1. Once(f[i]) /\ Once(seqs[j])
          BY <2>5, <4>3, <4>8 DEF FlatSoFar
        <5>2. ASSUME NEW x, InSeq(x, f[i]), InSeq(x, seqs[j]) PROVE FALSE
          <6>1. PICK h \in 1..i : InSeq(x, seqs[h])
            BY <4>3, <5>2 DEF FlatSoFar
          <6>2. h = j
            BY <2>5, <4>5, <4>8, <5>2, <6>1
          <6>3. QED BY <4>5, <6>2
        <5>3. QED BY <4>6, <5>1, <5>2
      <4>9. FlatSoFar(f, seqs, S, j)
        BY <4>6, <4>7, <4>8 DEF FlatSoFar
      <4>10. QED BY <3>1, <3>2, <4>9
    <3>5. QED BY <3>3, <3>4
  <2>7. 0 \in T
    BY <1>1
  <2>8. 0..n \subseteq T
    <3> HIDE DEF T
    <3>1. QED BY <1>1, <2>6, <2>7, Upward
  <2>9. n \in T
    <3> HIDE DEF T
    <3>1. QED BY <1>1, <2>8
  <2>10. FlatSoFar(f, seqs, S, n)
    BY <1>3, <2>9
  <2>11. QED BY <2>1, <2>10 DEF FlatSoFar, n
<1>4. QED BY <1>2, <1>3

IsPost(f, levels) ==
    f = [l \in 1..levels |->
            [x \in 0..NBlocks |->
                IF x = 0 THEN <<>>
                ELSE (IF l = 1 THEN <<>>
                      ELSE FlattenSeq([i \in 1..Entries |-> f[l - 1][bytes[x].ent[i - 1]]]))
                     \o <<x>>]]

LEMMA PostExists ==
    ASSUME NEW levels \in 1..3
    PROVE  \E f : IsPost(f, levels)
<1> DEFINE At(l, below) ==
               [x \in 0..NBlocks |->
                  IF x = 0 THEN <<>>
                  ELSE (IF l = 1 THEN <<>>
                        ELSE FlattenSeq([i \in 1..Entries |-> below[bytes[x].ent[i - 1]]]))
                       \o <<x>>]
           one == At(1, <<>>)
           two == At(2, one)
           f == [l \in 1..levels |-> IF l = 1 THEN one ELSE IF l = 2 THEN two ELSE At(3, two)]
<1>1. \A b, c : At(1, b) = At(1, c)
  OBVIOUS
<1> HIDE DEF At
<1>2. ASSUME NEW l \in 1..levels PROVE f[l] = At(l, f[l - 1])
  <2>1. CASE l = 1 BY <2>1, <1>1
  <2>2. CASE l = 2
    <3>1. 1 \in 1..levels
      BY <2>2
    <3>2. QED BY <2>2, <3>1
  <2>3. CASE l = 3
    <3>1. 2 \in 1..levels
      BY <2>3
    <3>2. QED BY <2>3, <3>1
  <2>4. QED BY <2>1, <2>2, <2>3
<1>3. f = [l \in 1..levels |-> At(l, f[l - 1])]
  BY <1>2
<1> HIDE DEF f
<1>4. IsPost(f, levels)
  BY <1>3 DEF IsPost, At
<1>5. QED BY <1>4


\* The blocks of S on the ways through x, x and those below it.
Below(x, S, lev, took) ==
    {y \in S : /\ lev[y] # 0 /\ took[y] \in Deep /\ Same(took[y], took[x], lev[x])
               /\ y # x => lev[y] < lev[x]}

\* What f lists for the blocks of level l.
Lists(f, l, S, lev, took) ==
    \A x \in S : lev[x] = l =>
        /\ f[l][x] \in Seq(Below(x, S, lev, took)) /\ Once(f[l][x]) /\ InSeq(x, f[l][x])
        /\ l # 1 => \A i \in Index : bytes[x].ent[i] # 0 =>
             \A z : InSeq(z, f[l - 1][bytes[x].ent[i]]) => InSeq(z, f[l][x])

LEMMA BelowChild ==
    ASSUME NEW S, NEW lev, NEW took, Closed(bytes, S, lev, took), NEW x \in S, lev[x] \in 2..3,
           NEW i \in Index, NEW y, y = bytes[x].ent[i], y # 0
    PROVE  /\ y \in S /\ lev[y] = lev[x] - 1
           /\ \A z \in Below(y, S, lev, took) :
                z \in Below(x, S, lev, took) /\ z # x /\ Entry(took[z], lev[x]) = i
<1>1. /\ took[x] \in Deep /\ lev[x] \in 2..3 /\ lev[x] <= Top(took[x])
      /\ IsChild(y, x, i, S, lev, took)
  BY DEF Closed
<1>2. /\ y \in S /\ lev[y] = lev[x] - 1
      /\ took[y] \in Deep /\ Same(took[y], took[x], lev[x]) /\ Entry(took[y], lev[x]) = i
  BY <1>1 DEF IsChild
<1>3. Top(took[y]) = Top(took[x]) /\ Top(took[x]) \in 1..3
  BY <1>1, <1>2, Slot DEF Same, Top
<1>4. lev[y] \in 1..2 /\ lev[y] < lev[x]
  BY <1>1, <1>2
<1>5. ASSUME NEW z \in Below(y, S, lev, took)
      PROVE  z \in Below(x, S, lev, took) /\ z # x /\ Entry(took[z], lev[x]) = i
  <2>1. /\ z \in S /\ lev[z] # 0 /\ took[z] \in Deep /\ Same(took[z], took[y], lev[y])
        /\ z # y => lev[z] < lev[y]
    BY DEF Below
  <2>2. SlotOf[took[z]] = SlotOf[took[x]]
    BY <1>2, <2>1 DEF Same
  <2>3. ASSUME NEW h \in 1..3, lev[x] < h, h <= Top(took[x])
        PROVE  Entry(took[z], h) = Entry(took[x], h)
    <3>1. Entry(took[z], h) = Entry(took[y], h)
      BY <1>1, <1>2, <1>3, <1>4, <2>1, <2>3 DEF Same
    <3>2. Entry(took[y], h) = Entry(took[x], h)
      BY <1>2, <2>3 DEF Same
    <3>3. QED BY <3>1, <3>2
  <2>4. Same(took[z], took[x], lev[x])
    BY <2>2, <2>3 DEF Same
  <2>5. Entry(took[z], lev[x]) = Entry(took[y], lev[x])
    BY <1>1, <1>3, <1>4, <2>1 DEF Same
  <2>6. z # x /\ lev[z] < lev[x]
    <3>1. CASE z = y BY <3>1, <1>4
    <3>2. CASE z # y
      <4>1. lev[z] \in 1..3 /\ lev[z] < lev[y]
        BY <3>2, <2>1 DEF Closed
      <4>2. QED BY <4>1, <1>1, <1>4
    <3>3. QED BY <3>1, <3>2
  <2>7. QED BY <1>2, <2>1, <2>4, <2>5, <2>6 DEF Below
<1>6. QED BY <1>2, <1>5

LEMMA PostFacts ==
    ASSUME NEW S, S \subseteq Blocks, NEW lev, NEW took, Closed(bytes, S, lev, took),
           \A b \in Blocks : bytes[b].ent \in [Index -> 0..NBlocks],
           NEW levels \in 1..3, NEW f, IsPost(f, levels), NEW l \in 1..levels
    PROVE  f[l][0] = <<>> /\ Lists(f, l, S, lev, took)
<1> DEFINE P(n) == Lists(f, n, S, lev, took)
<1>1. ASSUME NEW n \in 1..levels
      PROVE  /\ f[n][0] = <<>>
             /\ \A x \in Blocks : f[n][x] =
                  (IF n = 1 THEN <<>>
                   ELSE FlattenSeq([i \in 1..Entries |-> f[n - 1][bytes[x].ent[i - 1]]])) \o <<x>>
  <2>1. f[n] = [x \in 0..NBlocks |->
                IF x = 0 THEN <<>>
                ELSE (IF n = 1 THEN <<>>
                      ELSE FlattenSeq([i \in 1..Entries |-> f[n - 1][bytes[x].ent[i - 1]]]))
                     \o <<x>>]
    BY DEF IsPost
  <2>2. 0 \in 0..NBlocks /\ \A x \in Blocks : x \in 0..NBlocks /\ x # 0
    BY Constants DEF Blocks
  <2>3. QED BY <2>1, <2>2
<1>2. ASSUME NEW x \in S, lev[x] \in 1..3 PROVE x \in Below(x, S, lev, took)
  <2>1. took[x] \in Deep
    BY <1>2 DEF Closed
  <2>2. Same(took[x], took[x], lev[x])
    BY DEF Same
  <2>3. QED BY <1>2, <2>1, <2>2 DEF Below
<1>3. P(1)
  <2>1. SUFFICES ASSUME NEW x \in S, lev[x] = 1
                 PROVE  f[1][x] \in Seq(Below(x, S, lev, took)) /\ Once(f[1][x]) /\ InSeq(x, f[1][x])
    BY DEF Lists
  <2>2. f[1][x] = <<>> \o <<x>>
    <3>1. x \in Blocks /\ 1 \in 1..levels
      OBVIOUS
    <3>2. f[1][x] = (IF 1 = 1 THEN <<>>
                     ELSE FlattenSeq([i \in 1..Entries |-> f[1 - 1][bytes[x].ent[i - 1]]])) \o <<x>>
      BY <1>1, <3>1
    <3>3. QED BY <3>2
  <2>3. x \in Below(x, S, lev, took)
    BY <1>2, <2>1
  <2>4. f[1][x] = <<x>>
    BY <2>2
  <2>5. QED BY <2>3, <2>4 DEF Once, InSeq
<1>4. ASSUME NEW n \in 2..levels, P(n - 1) PROVE P(n)
  <2>1. n \in 1..levels /\ n # 1 /\ n - 1 \in 1..levels /\ n \in 2..3
    OBVIOUS
  <2>2. SUFFICES ASSUME NEW x \in S, lev[x] = n
                 PROVE  /\ f[n][x] \in Seq(Below(x, S, lev, took)) /\ Once(f[n][x]) /\ InSeq(x, f[n][x])
                        /\ \A i \in Index : bytes[x].ent[i] # 0 =>
                             \A z : InSeq(z, f[n - 1][bytes[x].ent[i]]) => InSeq(z, f[n][x])
    BY DEF Lists
  <2> DEFINE B == Below(x, S, lev, took)
             seqs == [i \in 1..Entries |-> f[n - 1][bytes[x].ent[i - 1]]]
  <2>3. ASSUME NEW i \in 1..Entries
        PROVE  /\ i - 1 \in Index
               /\ seqs[i] \in Seq(B \ {x}) /\ Once(seqs[i])
               /\ \A z : InSeq(z, seqs[i]) => Entry(took[z], n) = i - 1
    <3>1. i - 1 \in Index
      BY Constants DEF Index
    <3>2. PICK y : y = bytes[x].ent[i - 1]
      OBVIOUS
    <3>3. seqs[i] = f[n - 1][y]
      BY <3>2
    <3> HIDE DEF seqs, B
    <3>4. CASE y = 0
      <4>1. seqs[i] = <<>>
        BY <3>3, <3>4, <1>1, <2>1
      <4>2. QED BY <3>1, <4>1 DEF Once, InSeq
    <3>5. CASE y # 0
      <4>1. /\ y \in S /\ lev[y] = n - 1
            /\ \A z \in Below(y, S, lev, took) : z \in B /\ z # x /\ Entry(took[z], n) = i - 1
        BY <2>1, <2>2, <3>1, <3>2, <3>5, BelowChild DEF B
      <4>2. f[n - 1][y] \in Seq(Below(y, S, lev, took)) /\ Once(f[n - 1][y])
        BY <1>4, <4>1 DEF Lists
      <4>3. \A p \in 1..Len(seqs[i]) : seqs[i][p] \in Below(y, S, lev, took)
        BY <3>3, <4>2
      <4>4. seqs[i] \in Seq(B \ {x})
        <5>1. seqs[i] \in [1..Len(seqs[i]) -> B \ {x}] /\ Len(seqs[i]) \in Nat
          BY <3>3, <4>1, <4>2, <4>3
        <5>2. QED BY <5>1
      <4>5. \A z : InSeq(z, seqs[i]) => Entry(took[z], n) = i - 1
        BY <4>1, <4>3 DEF InSeq
      <4>6. QED BY <3>1, <3>3, <4>2, <4>4, <4>5
    <3>6. QED BY <3>4, <3>5
  <2>4. DOMAIN seqs = 1..Entries
    OBVIOUS
  <2>5. \A i \in Index : i + 1 \in 1..Entries /\ seqs[i + 1] = f[n - 1][bytes[x].ent[i]]
    <3>1. SUFFICES ASSUME NEW i \in Index
                   PROVE  i + 1 \in 1..Entries /\ seqs[i + 1] = f[n - 1][bytes[x].ent[i]]
      OBVIOUS
    <3>2. i + 1 \in 1..Entries /\ (i + 1) - 1 = i
      BY Constants DEF Index
    <3>3. QED BY <3>2
  <2>6. f[n][x] = FlattenSeq(seqs) \o <<x>>
    BY <1>1, <2>1
  <2>7. x \in B
    BY <1>2, <2>1, <2>2
  <2>8. seqs = [i \in 1..Entries |-> seqs[i]]
    OBVIOUS
  <2> HIDE DEF seqs, B
  <2>9. seqs \in Seq(Seq(B \ {x})) /\ Len(seqs) = Entries
    <3>1. seqs \in [1..Entries -> Seq(B \ {x})]
      BY <2>3, <2>8
    <3>2. QED BY <3>1, Constants
  <2>10. Apart(seqs)
    BY <2>3, <2>9, Constants DEF Apart
  <2> DEFINE flat == FlattenSeq(seqs)
  <2>11. /\ flat \in Seq(B \ {x}) /\ Once(flat)
         /\ \A z : InSeq(z, flat) <=> \E h \in 1..Entries : InSeq(z, seqs[h])
    BY <2>9, <2>10, FlattenFacts
  <2> HIDE DEF flat
  <2>12. flat \in Seq(B)
    BY <2>11
  <2>13. <<x>> \in Seq(B) /\ Once(<<x>>) /\ \A z : InSeq(z, <<x>>) <=> z = x
    BY <2>7 DEF Once, InSeq
  <2>14. ~InSeq(x, flat)
    BY <2>11 DEF InSeq
  <2>15. /\ flat \o <<x>> \in Seq(B) /\ Once(flat \o <<x>>)
         /\ \A z : InSeq(z, flat \o <<x>>) <=> (InSeq(z, flat) \/ z = x)
    <3>1. PICK t : t = <<x>>
      OBVIOUS
    <3>2. t \in Seq(B) /\ Once(t) /\ \A z : InSeq(z, t) <=> z = x
      BY <2>13, <3>1
    <3>3. flat \o t \in Seq(B) /\ Once(flat \o t) /\ \A z : InSeq(z, flat \o t) <=> (InSeq(z, flat) \/ z = x)
      BY <2>11, <2>12, <2>14, <3>2, ConcatFacts
    <3>4. QED BY <3>1, <3>3
  <2>16. f[n][x] = flat \o <<x>>
    BY <2>6 DEF flat
  <2>17. ASSUME NEW i \in Index, NEW z, InSeq(z, f[n - 1][bytes[x].ent[i]])
         PROVE  InSeq(z, f[n][x])
    <3>1. i + 1 \in 1..Entries /\ InSeq(z, seqs[i + 1])
      BY <2>5, <2>17
    <3>2. InSeq(z, flat)
      BY <2>11, <3>1
    <3>3. QED BY <2>15, <2>16, <3>2
  <2>18. QED BY <2>15, <2>16, <2>17 DEF B
<1>5. P(l)
  <2> HIDE DEF P
  <2>1. l \in {1, 2, 3} /\ levels \in {1, 2, 3}
    OBVIOUS
  <2>2. QED BY <2>1, <1>3, <1>4
<1>6. QED BY <1>1, <1>5

LEMMA TreeFacts ==
    ASSUME NEW S, S \subseteq Blocks, NEW lev, NEW took, Closed(bytes, S, lev, took),
           \A b \in Blocks : bytes[b].ent \in [Index -> 0..NBlocks],
           NEW levels \in 1..3, NEW x
    PROVE  /\ x = 0 => Tree(x, levels) = <<>>
           /\ x \in S /\ lev[x] = levels =>
                Tree(x, levels) \in Seq(Below(x, S, lev, took)) /\ Once(Tree(x, levels))
<1> DEFINE f == CHOOSE g : IsPost(g, levels)
<1>1. Tree(x, levels) = f[levels][x]
  BY DEF Tree, IsPost
<1>2. IsPost(f, levels)
  BY PostExists
<1> HIDE DEF f
<1>3. levels \in 1..levels
  OBVIOUS
<1>4. f[levels][0] = <<>> /\ Lists(f, levels, S, lev, took)
  BY <1>2, <1>3, PostFacts
<1>5. QED BY <1>1, <1>4 DEF Lists

\* Every block on a way is in the tree.
LEMMA TreeHas ==
    ASSUME NEW S, S \subseteq Blocks, NEW lev, NEW took, NEW ino,
           Shape(bytes, ino, S, lev, took),
           \A b \in Blocks : bytes[b].ent \in [Index -> 0..NBlocks],
           NEW k \in Deep, NEW h \in 1..3, h <= Top(k), Way(bytes, ino, k, h) # 0
    PROVE  InSeq(Way(bytes, ino, k, h), Tree(ino.ib[SlotOf[k]], Top(k)))
<1> DEFINE W(n) == Way(bytes, ino, k, n)
           f == CHOOSE g : IsPost(g, Top(k))
           P(n) == n >= h /\ n <= Top(k) => W(n) # 0
           Q(n) == n >= h /\ n <= Top(k) => InSeq(W(h), f[n][W(n)])
<1>1. Top(k) \in 1..3 /\ Closed(bytes, S, lev, took)
  BY Slot DEF Shape
<1>2. Tree(ino.ib[SlotOf[k]], Top(k)) = f[Top(k)][W(Top(k))]
  <2>1. W(Top(k)) = ino.ib[SlotOf[k]]
    BY WayDown
  <2>2. Tree(ino.ib[SlotOf[k]], Top(k)) = f[Top(k)][ino.ib[SlotOf[k]]]
    BY DEF Tree, IsPost
  <2>3. QED BY <2>1, <2>2
<1>3. IsPost(f, Top(k))
  BY <1>1, PostExists
<1> HIDE DEF f
<1>4. ASSUME NEW n \in 1..3, n <= Top(k)
      PROVE  Lists(f, n, S, lev, took) /\ (W(n) # 0 => W(n) \in S /\ lev[W(n)] = n)
  <2>1. n \in 1..Top(k)
    BY <1>4, <1>1
  <2>2. Lists(f, n, S, lev, took)
    BY <1>1, <1>3, <2>1, PostFacts
  <2>3. W(n) # 0 => Placed(W(n), k, n, S, lev, took)
    BY <1>4, WayIn
  <2>4. QED BY <2>2, <2>3 DEF Placed
<1>5. ASSUME NEW n \in 1..2, n + 1 <= Top(k)
      PROVE  (P(n) => P(n + 1)) /\ (P(n) /\ P(n + 1) /\ Q(n) => Q(n + 1))
  <2>1. W(n) = Follow(bytes, W(n + 1), Entry(k, n + 1))
    BY <1>5, <1>1, WayDown
  <2>2. n + 1 \in 1..3 /\ n + 1 # 1 /\ (n + 1) - 1 = n /\ n <= Top(k) /\ n \in 1..3
    BY <1>5, <1>1
  <2>3. W(n) # 0 => W(n + 1) # 0 /\ W(n) = bytes[W(n + 1)].ent[Entry(k, n + 1)]
    BY <2>1 DEF Follow
  <2>4. Entry(k, n + 1) \in Index
    BY <2>2, EntryIn
  <2>5. W(n) # 0 => \A z : InSeq(z, f[n][W(n)]) => InSeq(z, f[n + 1][W(n + 1)])
    <3>1. SUFFICES ASSUME W(n) # 0
                   PROVE  \A z : InSeq(z, f[n][W(n)]) => InSeq(z, f[n + 1][W(n + 1)])
      OBVIOUS
    <3>2. Lists(f, n + 1, S, lev, took) /\ W(n + 1) \in S /\ lev[W(n + 1)] = n + 1
      BY <1>4, <1>5, <2>2, <2>3, <3>1
    <3> DEFINE x == W(n + 1)
               y == W(n)
    <3>3. y = bytes[x].ent[Entry(k, n + 1)] /\ y # 0
      BY <2>3, <3>1
    <3> HIDE DEF x, y, W
    <3>4. x \in S /\ lev[x] = n + 1
      BY <3>2 DEF x
    <3>5. PICK m : m = n + 1
      OBVIOUS
    <3>6. \A i \in Index : bytes[x].ent[i] # 0 =>
             \A z : InSeq(z, f[m - 1][bytes[x].ent[i]]) => InSeq(z, f[m][x])
      BY <3>2, <3>4, <3>5, <2>2 DEF Lists
    <3>7. \A z : InSeq(z, f[m - 1][y]) => InSeq(z, f[m][x])
      BY <2>4, <3>3, <3>6
    <3>8. m - 1 = n
      BY <3>5
    <3>9. \A z : InSeq(z, f[n][y]) => InSeq(z, f[n + 1][x])
      BY <3>5, <3>7, <3>8
    <3>10. QED BY <3>9 DEF x, y
  <2>6. W(h) # 0
    OBVIOUS
  <2>7. P(n) => P(n + 1)
    <3>1. CASE n >= h BY <3>1, <2>2, <2>3
    <3>2. CASE ~(n >= h)
      <4>1. n + 1 >= h => n + 1 = h
        BY <3>2
      <4>2. QED BY <4>1, <2>6
    <3>3. QED BY <3>1, <3>2
  <2>8. ASSUME P(n), P(n + 1), Q(n) PROVE Q(n + 1)
    <3>1. CASE n >= h
      <4>1. W(n) # 0 /\ InSeq(W(h), f[n][W(n)])
        BY <2>2, <2>8, <3>1
      <4>2. QED BY <2>5, <4>1
    <3>2. CASE ~(n >= h)
      <4>1. n + 1 >= h => n + 1 = h
        BY <3>2
      <4>2. Lists(f, h, S, lev, took) /\ W(h) \in S /\ lev[W(h)] = h
        BY <1>4, <2>6
      <4>3. InSeq(W(h), f[h][W(h)])
        <5> HIDE DEF W
        <5>1. QED BY <4>2 DEF Lists
      <4>4. QED BY <4>1, <4>3
    <3>3. QED BY <3>1, <3>2
  <2>9. QED BY <2>7, <2>8
<1>6. P(1) /\ Q(1)
  <2>1. 1 >= h => h = 1
    OBVIOUS
  <2>2. W(h) # 0
    OBVIOUS
  <2>3. Lists(f, h, S, lev, took) /\ W(h) \in S /\ lev[W(h)] = h
    BY <1>4, <2>2
  <2>4. InSeq(W(h), f[h][W(h)])
    <3> HIDE DEF W
    <3>1. QED BY <2>3 DEF Lists
  <2>5. QED BY <2>1, <2>2, <2>4
<1>7. Q(Top(k))
  <2> HIDE DEF P, Q
  <2>1. \A n \in 1..2 : n + 1 <= Top(k) =>
          (P(n) => P(n + 1)) /\ (P(n) /\ P(n + 1) /\ Q(n) => Q(n + 1))
    BY <1>5
  <2>2. QED BY <2>1, <1>1, <1>6
<1>8. QED BY <1>2, <1>7, <1>1

\* The fragments of a block, those of its part of the data or all, and its run.
Share(k, l, size) == IF l = 0 THEN FragsOf(k, size) ELSE FragsPerBlock
RunOf(b, lev, took, size) ==
    [block |-> b, frags |-> Share(took[b], lev[b], size),
     slot |-> IF lev[b] = 0 THEN NoSlot ELSE SlotOf[took[b]]]
RunSet(S, lev, took, size) == {RunOf(b, lev, took, size) : b \in S}

\* Block b is where the inode reads the logical block it was taken for, one of
\* the first n, or on the way to it.
Found(b, m, ino, n, lev, took) ==
    /\ lev[b] = 0 => took[b] \in 0..(n - 1) /\ Lead(m, ino, took[b]) = b
    /\ lev[b] # 0 => /\ took[b] \in Deep /\ lev[b] \in 1..3 /\ lev[b] <= Top(took[b])
                     /\ Way(m, ino, took[b], lev[b]) = b

\* What blocks and inodes hold.
IsBytes(m) == m \in [Blocks -> [val : [0..(FragsPerBlock - 1) -> Int], ent : [Index -> 0..NBlocks]]]
Inodes == [size : Nat, db : [0..(Direct - 1) -> 0..NBlocks], ib : [Slots -> 0..NBlocks], blocks : Int]

LEMMA RunIs ==
    ASSUME NEW b, NEW c, NEW lev, NEW took, NEW size, RunOf(b, lev, took, size) = RunOf(c, lev, took, size)
    PROVE  b = c
<1>1. RunOf(b, lev, took, size).block = b /\ RunOf(c, lev, took, size).block = c
  BY DEF RunOf
<1>2. QED BY <1>1

LEMMA DataRunsFacts ==
    ASSUME NEW S, S \subseteq Blocks, NEW lev, NEW took, NEW ino \in Inodes,
           Fits(ino.size), Shape(bytes, ino, S, lev, took)
    PROVE  /\ DataRuns(ino) \in Seq(RunSet({b \in S : lev[b] = 0}, lev, took, ino.size))
           /\ Once(DataRuns(ino))
           /\ \A b \in S : lev[b] = 0 /\ Found(b, bytes, ino, Ceil(ino.size), lev, took)
                => InSeq(RunOf(b, lev, took, ino.size), DataRuns(ino))
<1> DEFINE D == {b \in S : lev[b] = 0}
           R == RunSet(D, lev, took, ino.size)
           c == Ceil(ino.size)
           Run(b) == RunOf(b, lev, took, ino.size)
           seqs == [i \in 1..c |->
                      IF Resolve(ino, i - 1) = 0 THEN <<>>
                      ELSE <<[block |-> Resolve(ino, i - 1), frags |-> FragsOf(i - 1, ino.size), slot |-> NoSlot]>>]
<1>1. ino.size \in Nat /\ c \in Nat /\ c <= Base[3]
  BY CeilIs DEF Inodes, Fits
<1>2. ASSUME NEW i \in 1..c
      PROVE  \/ seqs[i] = <<>> /\ Lead(bytes, ino, i - 1) = 0
             \/ \E b \in D : took[b] = i - 1 /\ Lead(bytes, ino, i - 1) = b /\ seqs[i] = <<Run(b)>>
  <2>1. PICK k \in Nat : k = i - 1
    BY <1>1
  <2>2. k \in 0..(Base[3] - 1) /\ k < c
    BY <1>1, <2>1, Bases
  <2>3. PICK b : b = Lead(bytes, ino, k)
    OBVIOUS
  <2>4. Resolve(ino, k) = b
    BY <2>2, <2>3, ResolveIs
  <2>5. CASE b = 0
    BY <2>1, <2>3, <2>4, <2>5
  <2>6. CASE b # 0
    <3>1. b \in S /\ lev[b] = 0 /\ took[b] = k
      BY <2>2, <2>3, <2>6, LeadIn
    <3>2. [block |-> b, frags |-> FragsOf(k, ino.size), slot |-> NoSlot] = Run(b)
      BY <3>1 DEF RunOf, Share
    <3>3. seqs[i] = <<[block |-> b, frags |-> FragsOf(k, ino.size), slot |-> NoSlot]>>
      BY <2>1, <2>4, <2>6
    <3>4. seqs[i] = <<Run(b)>>
      BY <3>2, <3>3
    <3>5. QED BY <3>1, <3>4, <2>1, <2>3
  <2>7. QED BY <2>5, <2>6
<1>3. DataRuns(ino) = FlattenSeq(seqs)
  BY DEF DataRuns
<1>4. seqs = [i \in 1..c |-> seqs[i]]
  OBVIOUS
<1> HIDE DEF seqs, c
<1>5. ASSUME NEW i \in 1..c
      PROVE  /\ seqs[i] \in Seq(R) /\ Once(seqs[i])
             /\ \A x : InSeq(x, seqs[i]) <=> \E b \in D : took[b] = i - 1 /\ Lead(bytes, ino, i - 1) = b /\ x = Run(b)
  <2>1. CASE seqs[i] = <<>> /\ Lead(bytes, ino, i - 1) = 0
    <3>1. \A b \in D : b # 0
      BY DEF Blocks
    <3>2. QED BY <2>1, <3>1 DEF InSeq, Once
  <2>2. ASSUME NEW b \in D, took[b] = i - 1, Lead(bytes, ino, i - 1) = b, seqs[i] = <<Run(b)>>
        PROVE  /\ seqs[i] \in Seq(R) /\ Once(seqs[i])
               /\ \A x : InSeq(x, seqs[i]) <=> \E a \in D : took[a] = i - 1 /\ Lead(bytes, ino, i - 1) = a /\ x = Run(a)
    <3>1. Run(b) \in R
      BY DEF RunSet
    <3> HIDE DEF R, Run
    <3>2. \A x : InSeq(x, <<Run(b)>>) <=> x = Run(b)
      BY DEF InSeq
    <3>3. \A x : InSeq(x, seqs[i]) <=> x = Run(b)
      BY <2>2, <3>2
    <3>4. seqs[i] \in Seq(R) /\ Once(seqs[i])
      BY <2>2, <3>1 DEF Once
    <3>5. \A x : x = Run(b) <=> \E a \in D : took[a] = i - 1 /\ Lead(bytes, ino, i - 1) = a /\ x = Run(a)
      BY <2>2
    <3>6. QED BY <3>3, <3>4, <3>5
  <2>3. QED BY <1>2, <2>1, <2>2
<1>6. seqs \in Seq(Seq(R)) /\ Len(seqs) = c
  <2>1. seqs \in [1..c -> Seq(R)]
    BY <1>4, <1>5
  <2>2. QED BY <1>1, <2>1
<1>7. Apart(seqs)
  <2>1. ASSUME NEW g \in 1..c, NEW h \in 1..c, NEW x, InSeq(x, seqs[g]), InSeq(x, seqs[h]) PROVE g = h
    <3>1. PICK a \in D : took[a] = g - 1 /\ x = Run(a)
      BY <1>5, <2>1
    <3>2. PICK b \in D : took[b] = h - 1 /\ x = Run(b)
      BY <1>5, <2>1
    <3>3. a = b
      <4>1. RunOf(a, lev, took, ino.size) = RunOf(b, lev, took, ino.size)
        BY <3>1, <3>2
      <4>2. QED BY ONLY <4>1, RunIs
    <3>4. g - 1 = h - 1
      BY <3>1, <3>2, <3>3
    <3>5. QED BY <3>4, <1>1
  <2>2. QED BY <2>1, <1>5, <1>6 DEF Apart
<1>8. /\ FlattenSeq(seqs) \in Seq(R) /\ Once(FlattenSeq(seqs))
      /\ \A x : InSeq(x, FlattenSeq(seqs)) <=> \E h \in 1..c : InSeq(x, seqs[h])
  <2> HIDE DEF R
  <2>1. QED BY <1>6, <1>7, FlattenFacts
<1>9. ASSUME NEW b \in S, lev[b] = 0, Found(b, bytes, ino, c, lev, took)
      PROVE  InSeq(Run(b), FlattenSeq(seqs))
  <2>1. took[b] \in 0..(c - 1) /\ Lead(bytes, ino, took[b]) = b /\ b \in D
    BY <1>9 DEF Found
  <2>2. PICK i \in 1..c : i - 1 = took[b]
    BY <1>1, <2>1
  <2>3. InSeq(Run(b), seqs[i])
    BY <1>5, <2>1, <2>2
  <2>4. QED BY <1>8, <2>3
<1>10. QED BY <1>3, <1>8, <1>9 DEF c

\* The runs of the tree of slot s.
SlotRuns(ino, s) ==
    LET t == Tree(ino.ib[s], s + 1)
    IN  [i \in DOMAIN t |-> [block |-> t[i], frags |-> FragsPerBlock, slot |-> s]]

LEMMA SlotRunsFacts ==
    ASSUME NEW S, S \subseteq Blocks, NEW lev, NEW took, NEW ino \in Inodes, NEW s \in Slots,
           IsBytes(bytes), Shape(bytes, ino, S, lev, took)
    PROVE  /\ SlotRuns(ino, s) \in Seq(RunSet({b \in S : lev[b] # 0 /\ SlotOf[took[b]] = s}, lev, took, ino.size))
           /\ Once(SlotRuns(ino, s))
           /\ \A b \in S : lev[b] # 0 /\ Found(b, bytes, ino, Ceil(ino.size), lev, took) /\ SlotOf[took[b]] = s
                => InSeq(RunOf(b, lev, took, ino.size), SlotRuns(ino, s))
<1> DEFINE D == {b \in S : lev[b] # 0 /\ SlotOf[took[b]] = s}
           R == RunSet(D, lev, took, ino.size)
           Run(b) == RunOf(b, lev, took, ino.size)
           x == ino.ib[s]
<1>1. PICK t : t = Tree(x, s + 1)
  OBVIOUS
<1>2. \A b \in Blocks : bytes[b].ent \in [Index -> 0..NBlocks]
  BY DEF IsBytes
<1>3. Closed(bytes, S, lev, took) /\ s + 1 \in 1..3 /\ x \in 0..NBlocks
  BY DEF Shape, Inodes, Slots
<1>4. x # 0 => x \in S /\ lev[x] = s + 1 /\ took[x] \in Deep /\ SlotOf[took[x]] = s
  BY DEF Shape, Rooted
<1> HIDE DEF x
<1>5. /\ x = 0 => t = <<>>
      /\ x \in S /\ lev[x] = s + 1 => t \in Seq(Below(x, S, lev, took)) /\ Once(t)
  BY <1>1, <1>2, <1>3, TreeFacts
<1>6. t \in Seq(D) /\ Once(t)
  <2>1. CASE x = 0
    BY <1>5, <2>1 DEF Once
  <2>2. CASE x # 0
    <3>1. t \in Seq(Below(x, S, lev, took)) /\ Once(t)
      BY <1>4, <1>5, <2>2
    <3>2. \A y \in Below(x, S, lev, took) : y \in D
      BY <1>4, <2>2 DEF Below, Same
    <3>3. t \in [1..Len(t) -> D] /\ Len(t) \in Nat
      BY <3>1, <3>2
    <3>4. QED BY <3>1, <3>3
  <2>3. QED BY <2>1, <2>2
<1>7. DOMAIN t = 1..Len(t) /\ Len(t) \in Nat /\ \A i \in 1..Len(t) : t[i] \in D
  BY <1>6
<1>8. ASSUME NEW i \in 1..Len(t)
      PROVE  [block |-> t[i], frags |-> FragsPerBlock, slot |-> s] = Run(t[i])
  BY <1>7 DEF RunOf, Share
<1> DEFINE q == SlotRuns(ino, s)
<1>9. q = [i \in 1..Len(t) |-> [block |-> t[i], frags |-> FragsPerBlock, slot |-> s]]
  BY <1>1, <1>7 DEF SlotRuns, x
<1> HIDE DEF q
<1>10. \A i \in 1..Len(t) : q[i] = Run(t[i])
  BY <1>8, <1>9
<1>11. \A i \in 1..Len(t) : q[i] \in R
  BY <1>7, <1>10 DEF RunSet
<1>12. q \in Seq(R) /\ Len(q) = Len(t)
  <2>1. q \in [1..Len(t) -> R]
    <3> HIDE DEF R
    <3>1. QED BY <1>9, <1>11
  <2> HIDE DEF R
  <2>2. QED BY <2>1, <1>7
<1>13. Once(q)
  <2>1. SUFFICES ASSUME NEW i \in 1..Len(t), NEW j \in 1..Len(t), q[i] = q[j] PROVE i = j
    BY <1>12 DEF Once
  <2>2. t[i] = t[j]
    BY <1>10, <2>1, RunIs
  <2>3. QED BY <1>6, <2>2 DEF Once
<1>14. ASSUME NEW b \in S, lev[b] # 0, Found(b, bytes, ino, Ceil(ino.size), lev, took), SlotOf[took[b]] = s
       PROVE  InSeq(Run(b), q)
  <2>1. /\ took[b] \in Deep /\ lev[b] \in 1..3 /\ lev[b] <= Top(took[b])
        /\ Way(bytes, ino, took[b], lev[b]) = b
    BY <1>14 DEF Found
  <2>2. b # 0
    BY DEF Blocks
  <2>3. InSeq(b, Tree(ino.ib[SlotOf[took[b]]], Top(took[b])))
    <3>1. Way(bytes, ino, took[b], lev[b]) # 0
      BY <2>1, <2>2
    <3>2. InSeq(Way(bytes, ino, took[b], lev[b]), Tree(ino.ib[SlotOf[took[b]]], Top(took[b])))
      BY <1>2, <2>1, <3>1, TreeHas
    <3>3. QED BY <2>1, <3>2
  <2>4. InSeq(b, t)
    BY <1>1, <1>14, <2>3 DEF Top, x
  <2>5. PICK i \in 1..Len(t) : t[i] = b
    BY <2>4 DEF InSeq
  <2>6. q[i] = Run(b)
    BY <1>10, <2>5
  <2>7. QED BY <1>12, <2>6 DEF InSeq
<1>15. QED BY <1>12, <1>13, <1>14 DEF q

LEMMA Joined ==
    ASSUME NEW A, NEW B, A \cap B = {}, NEW lev, NEW took, NEW size,
           NEW s \in Seq(RunSet(A, lev, took, size)), Once(s),
           NEW t \in Seq(RunSet(B, lev, took, size)), Once(t)
    PROVE  /\ s \o t \in Seq(RunSet(A \cup B, lev, took, size)) /\ Once(s \o t)
           /\ \A x : InSeq(x, s \o t) <=> (InSeq(x, s) \/ InSeq(x, t))
<1> DEFINE RA == RunSet(A, lev, took, size)
           RB == RunSet(B, lev, took, size)
           R  == RunSet(A \cup B, lev, took, size)
<1>1. RA \subseteq R /\ RB \subseteq R
  BY DEF RunSet
<1>2. \A x : ~(x \in RA /\ x \in RB)
  <2>1. SUFFICES ASSUME NEW x, x \in RA, x \in RB PROVE FALSE
    OBVIOUS
  <2>2. PICK a \in A : x = RunOf(a, lev, took, size)
    BY <2>1 DEF RunSet
  <2>3. PICK b \in B : x = RunOf(b, lev, took, size)
    BY <2>1 DEF RunSet
  <2>4. a = b
    <3>1. RunOf(a, lev, took, size) = RunOf(b, lev, took, size)
      BY <2>2, <2>3
    <3>2. QED BY ONLY <3>1, RunIs
  <2>5. QED BY <2>4
<1> HIDE DEF RA, RB, R
<1>3. s \in Seq(RA) /\ t \in Seq(RB)
  BY DEF RA, RB
<1>4. s \in Seq(R) /\ t \in Seq(R)
  BY <1>1, <1>3
<1>5. \A x : ~(InSeq(x, s) /\ InSeq(x, t))
  BY <1>2, <1>3 DEF InSeq
<1>6. /\ s \o t \in Seq(R) /\ Once(s \o t)
      /\ \A x : InSeq(x, s \o t) <=> (InSeq(x, s) \/ InSeq(x, t))
  BY <1>4, <1>5, ConcatFacts
<1>7. QED BY <1>6 DEF R

\* The runs of the data come before those of the trees.
Ordered(s) == \A i, j \in 1..Len(s) : s[i].slot # NoSlot /\ s[j].slot = NoSlot => j < i

LEMMA RunsFacts ==
    ASSUME NEW S, S \subseteq Blocks, NEW lev, NEW took, NEW ino \in Inodes,
           Fits(ino.size), IsBytes(bytes), Shape(bytes, ino, S, lev, took)
    PROVE  /\ RunsOf(ino) \in Seq(RunSet(S, lev, took, ino.size))
           /\ Once(RunsOf(ino)) /\ Ordered(RunsOf(ino))
           /\ \A b \in S : Found(b, bytes, ino, Ceil(ino.size), lev, took)
                => InSeq(RunOf(b, lev, took, ino.size), RunsOf(ino))
<1> DEFINE D == {b \in S : lev[b] = 0}
           T(s) == {b \in S : lev[b] # 0 /\ SlotOf[took[b]] = s}
           RS(A) == RunSet(A, lev, took, ino.size)
           Has(A, q) == \A b \in A : Found(b, bytes, ino, Ceil(ino.size), lev, took)
                          => InSeq(RunOf(b, lev, took, ino.size), q)
           d == DataRuns(ino)
           r(s) == SlotRuns(ino, s)
           trees == r(0) \o r(1) \o r(2)
<1>1. d \in Seq(RS(D)) /\ Once(d) /\ Has(D, d)
  BY DataRunsFacts
<1>2. \A s \in Slots : r(s) \in Seq(RS(T(s))) /\ Once(r(s)) /\ Has(T(s), r(s))
  <2>1. SUFFICES ASSUME NEW s \in Slots
                 PROVE  r(s) \in Seq(RS(T(s))) /\ Once(r(s)) /\ Has(T(s), r(s))
    OBVIOUS
  <2>2. /\ SlotRuns(ino, s) \in Seq(RunSet({b \in S : lev[b] # 0 /\ SlotOf[took[b]] = s}, lev, took, ino.size))
        /\ Once(SlotRuns(ino, s))
        /\ \A b \in S : lev[b] # 0 /\ Found(b, bytes, ino, Ceil(ino.size), lev, took) /\ SlotOf[took[b]] = s
             => InSeq(RunOf(b, lev, took, ino.size), SlotRuns(ino, s))
    BY SlotRunsFacts
  <2>3. QED BY <2>2
<1>3. RunsOf(ino) = d \o trees
  BY DEF RunsOf, TreeRuns, SlotRuns
<1>4. 0 \in Slots /\ 1 \in Slots /\ 2 \in Slots
  BY DEF Slots
<1>5. /\ T(0) \cap T(1) = {} /\ (T(0) \cup T(1)) \cap T(2) = {}
      /\ D \cap ((T(0) \cup T(1)) \cup T(2)) = {}
  OBVIOUS
<1>6. D \cup ((T(0) \cup T(1)) \cup T(2)) = S
  <2>1. ASSUME NEW b \in S, lev[b] # 0 PROVE SlotOf[took[b]] \in {0, 1, 2}
    <3>1. took[b] \in Deep
      BY <2>1 DEF Shape, Closed
    <3>2. QED BY <3>1, Slot DEF Slots
  <2>2. QED BY <2>1
<1> DEFINE T01 == T(0) \cup T(1)
           TT == T01 \cup T(2)
<1>7. \A b \in TT : lev[b] # 0
  OBVIOUS
<1>8. \A b \in D : lev[b] = 0
  OBVIOUS
<1>9. TT \subseteq S /\ D \subseteq S /\ D \cup TT = S /\ T(0) \cap T(1) = {} /\ T01 \cap T(2) = {} /\ D \cap TT = {}
  BY <1>5, <1>6
<1> HIDE DEF d, r, D, T
<1>10. /\ r(0) \o r(1) \in Seq(RS(T01)) /\ Once(r(0) \o r(1))
       /\ \A x : InSeq(x, r(0) \o r(1)) <=> (InSeq(x, r(0)) \/ InSeq(x, r(1)))
  BY <1>2, <1>4, <1>9, Joined
<1>11. Has(T01, r(0) \o r(1))
  BY <1>2, <1>4, <1>10
<1> HIDE DEF T01
<1>12. /\ trees \in Seq(RS(TT)) /\ Once(trees)
       /\ \A x : InSeq(x, trees) <=> (InSeq(x, r(0) \o r(1)) \/ InSeq(x, r(2)))
  BY <1>2, <1>4, <1>9, <1>10, Joined
<1>13. Has(TT, trees)
  BY <1>2, <1>4, <1>11, <1>12
<1> HIDE DEF trees, TT
<1>14. /\ d \o trees \in Seq(RS(D \cup TT)) /\ Once(d \o trees)
       /\ \A x : InSeq(x, d \o trees) <=> (InSeq(x, d) \/ InSeq(x, trees))
  BY <1>1, <1>9, <1>12, Joined
<1>15. Has(S, d \o trees)
  BY <1>1, <1>9, <1>13, <1>14
<1>16. Ordered(d \o trees)
  <2>1. Len(d) \in Nat /\ \A i \in 1..Len(d) : d[i].slot = NoSlot
    <3>1. \A x \in RS(D) : x.slot = NoSlot
      <4>1. ASSUME NEW b \in D PROVE RunOf(b, lev, took, ino.size).slot = NoSlot
        BY <1>8 DEF RunOf
      <4>2. QED BY <4>1 DEF RunSet
    <3> HIDE DEF RS
    <3>2. QED BY <3>1, <1>1
  <2>2. Len(trees) \in Nat /\ \A i \in 1..Len(trees) : trees[i].slot # NoSlot
    <3>1. \A x \in RS(TT) : x.slot # NoSlot
      <4>1. ASSUME NEW b \in TT PROVE RunOf(b, lev, took, ino.size).slot # NoSlot
        <5>1. lev[b] # 0 /\ took[b] \in Deep
          BY <1>7, <1>9 DEF Shape, Closed
        <5>2. SlotOf[took[b]] \in Slots
          BY <5>1, Slot
        <5>3. QED BY <5>1, <5>2 DEF RunOf, Slots, NoSlot
      <4>2. QED BY <4>1 DEF RunSet
    <3> HIDE DEF RS
    <3>2. QED BY <3>1, <1>12
  <2>3. /\ Len(d \o trees) = Len(d) + Len(trees)
        /\ \A i \in 1..Len(d \o trees) : (d \o trees)[i] = IF i <= Len(d) THEN d[i] ELSE trees[i - Len(d)]
    <3> HIDE DEF RS
    <3>1. d \in Seq(RS(D) \cup RS(TT)) /\ trees \in Seq(RS(D) \cup RS(TT))
      BY <1>1, <1>12
    <3>2. QED BY <3>1, ConcatProperties
  <2>4. SUFFICES ASSUME NEW i \in 1..Len(d \o trees), NEW j \in 1..Len(d \o trees),
                        (d \o trees)[i].slot # NoSlot, (d \o trees)[j].slot = NoSlot
                 PROVE  j < i
    BY DEF Ordered
  <2>5. ~(i <= Len(d))
    BY <2>1, <2>3, <2>4
  <2>6. j <= Len(d)
    <3>1. SUFFICES ASSUME ~(j <= Len(d)) PROVE FALSE
      OBVIOUS
    <3>2. j - Len(d) \in 1..Len(trees)
      BY <2>1, <2>2, <2>3, <3>1
    <3>3. QED BY <2>2, <2>3, <2>4, <3>1, <3>2
  <2>7. QED BY <2>1, <2>5, <2>6
<1>17. QED BY <1>3, <1>9, <1>14, <1>15, <1>16

-----------------------------------------------------------------------------
(* The inductive invariant.  H gives each file with a name its blocks, C is *)
(* the set of those the call in progress has stored or taken so far.       *)

\* S holds the file of the inode: run by run allocated, all of it reached.
Stands(S, ino, m, lev, took) ==
    /\ ino \in Inodes /\ Fits(ino.size) /\ Shape(m, ino, S, lev, took)
    /\ \A b \in S : Found(b, m, ino, Ceil(ino.size), lev, took)
Kept(S, ino, m, u, lev, took) ==
    /\ Stands(S, ino, m, lev, took)
    /\ \A b \in S : u[b] = Share(took[b], lev[b], ino.size)

FilesOK(H, m, u, lev, took, d, named, text) ==
    /\ \A f \in named : Kept(H[f], d[f], m, u, lev, took) /\ Content(m, d[f]) = text[f]
    /\ \A f \in Files \ named : H[f] = {}

GhostOK(H, C, lev, took) ==
    /\ H \in [Files -> SUBSET Blocks] /\ C \in SUBSET Blocks
    /\ lev \in [Blocks -> 0..3] /\ took \in [Blocks -> Nat]
    /\ \A f, g \in Files : f # g => H[f] \cap H[g] = {}
    /\ \A f \in Files : H[f] \cap C = {}

Fills == {"alloc", "set", "walk", "putback", "fill", "inode", "name"}
Loose == {"set", "walk", "putback"}
Runs  == [block : Blocks, frags : 1..FragsPerBlock, slot : Slots \cup {NoSlot}]
Calls == [pc : Fills \cup Freeing \cup {"clear"}, kind : {"create", "rewrite", "unlink"},
          file : Files, ino : Inodes, frags : Int, size : Nat, buf : Seq(Int), k : Nat,
          hand : 0..NBlocks, at : 0..NBlocks, level : 0..3, todo : Seq(Runs), old : Inodes]

\* Block k is stored.
Piece(c, k) == [j \in 0..(FragsPerBlock - 1) |->
                  LET n == k * FragsPerBlock + j IN IF n < c.size THEN c.buf[n + 1] ELSE 0]
Done(k, c, m) == Lead(m, c.ino, k) # 0 /\ m[Lead(m, c.ino, k)].val = Piece(c, k)

\* No inode or entry names b yet.
Unlinked(b, C, m, ino, lev) ==
    /\ \A k \in 0..(Direct - 1) : ino.db[k] # b
    /\ \A x \in C : lev[x] # 0 => \A i \in Index : m[x].ent[i] # b

Reaches(c) == IF c.pc = "fill" THEN c.k + 1 ELSE c.k
Built(c, C, m, u, lev, took) ==
    /\ c.kind \in {"create", "rewrite"} /\ Fits(c.size) /\ Len(c.buf) = c.size
    /\ c.k <= Ceil(c.size) /\ c.ino.size \in {c.size, Min({c.size, c.k * FragsPerBlock})}
    /\ Shape(m, c.ino, C, lev, took)
    /\ \A b \in C : /\ u[b] = Share(took[b], lev[b], c.size)
                    /\ Found(b, m, c.ino, Reaches(c), lev, took) \/ (c.pc \in Loose /\ b = c.hand)
    /\ \A k \in 0..(c.k - 1) : Done(k, c, m)
    /\ c.pc \in Loose \cup {"fill"} =>
         c.k < Ceil(c.size) /\ c.hand \in C /\ lev[c.hand] = 0 /\ took[c.hand] = c.k
    /\ c.pc \in Loose => Unlinked(c.hand, C, m, c.ino, lev)
    /\ c.pc = "walk" => /\ c.k >= Direct /\ c.level \in 1..Top(c.k)
                        /\ c.at # 0 /\ c.at = Way(m, c.ino, c.k, c.level)
    /\ c.pc = "fill" => Lead(m, c.ino, c.k) = c.hand
    /\ c.pc \in {"inode", "name"} => c.k = Ceil(c.size) /\ c.ino.size = c.size

\* The runs still to be freed: none of a file with a name, each allocated as
\* long as no access has failed.
ToFree(q, H, u, errs) ==
    /\ \A i \in 1..Len(q) : /\ \A f \in Files : q[i].block \notin H[f]
                            /\ u[q[i].block] \in {0, q[i].frags}
    /\ errs = 0 => /\ \A i \in 1..Len(q) : u[q[i].block] = q[i].frags
                   /\ \A i, j \in 1..Len(q) : q[i].block = q[j].block => i = j

\* Of a file that failed to be stored, the trees after the data.
Undoing(c, C, m, u, lev, took) ==
    /\ c.kind # "unlink" /\ Stands(C, c.ino, m, lev, took)
    /\ \A b \in C : u[b] \in {0, Share(took[b], lev[b], c.ino.size)}
    /\ c.todo \in Seq(RunSet(C, lev, took, c.ino.size)) /\ Ordered(c.todo)
    /\ (\E i \in 1..Len(c.todo) : c.todo[i].slot = NoSlot)
         => \A b \in C : lev[b] # 0 => InSeq(RunOf(b, lev, took, c.ino.size), c.todo)

Kinds(c, d, named) ==
    /\ c.kind = "rewrite" <=> c.file \in named
    /\ c.kind = "rewrite" /\ c.pc \in Fills => c.old = d[c.file]
    /\ c.pc = "name" => c.kind = "create" /\ d[c.file] = c.ino
    /\ c.pc = "clear" => c.kind # "rewrite"

CallOK(c, H, C, m, u, lev, took, d, named, errs) ==
    c # Idle =>
        /\ Kinds(c, d, named)
        /\ c.pc \in Fills => Built(c, C, m, u, lev, took)
        /\ c.pc \in Freeing => ToFree(c.todo, H, u, errs)
        /\ c.pc = "undo" => Undoing(c, C, m, u, lev, took)

\* A run of q is in block b.
Names(b, q) == \E i \in 1..Len(q) : q[i].block = b

\* What is allocated belongs to a file or to the call, or is among the lost
\* blocks, which belong to neither.
Accounted(c, H, C, u, strays) ==
    /\ \A b \in Blocks : u[b] # 0 =>
        \/ b \in strays
        \/ \E f \in Files : b \in H[f]
        \/ c # Idle /\ c.pc \in Fills /\ b \in C
        \/ c # Idle /\ c.pc \in Freeing /\ Names(b, c.todo)
    /\ \A b \in strays :
        /\ u[b] # 0 /\ \A f \in Files : b \notin H[f]
        /\ c # Idle /\ c.pc \in Fills \cup {"undo"} => b \notin C
        /\ c # Idle /\ c.pc \in Freeing => ~Names(b, c.todo)

Types ==
    /\ IsBytes(bytes) /\ used \in [Blocks -> Int] /\ disk \in [Files -> Inodes]
    /\ contents \in [Files -> Seq(Int)] /\ live \in SUBSET Files
    /\ errors \in Nat /\ lost \in SUBSET Blocks /\ (lost # {} => errors > 0) /\ calls \in Nat
    /\ call = Idle \/ call \in Calls

Sound(H, C, lev, took) ==
    /\ GhostOK(H, C, lev, took)
    /\ FilesOK(H, bytes, used, lev, took, disk, live, contents)
    /\ CallOK(call, H, C, bytes, used, lev, took, disk, live, errors)
    /\ Accounted(call, H, C, used, lost)

IInv == Types /\ \E H, C, lev, took : Sound(H, C, lev, took)

-----------------------------------------------------------------------------
(* Files.                                                                  *)
LEMMA WaysKept ==
    ASSUME NEW m, NEW n, NEW S, NEW lev, NEW took, NEW ino,
           Shape(m, ino, S, lev, took), \A b \in S : lev[b] # 0 => n[b].ent = m[b].ent,
           NEW k \in Deep, NEW l \in 0..3, l <= Top(k)
    PROVE  Way(n, ino, k, l) = Way(m, ino, k, l)
<1>1. ASSUME NEW h \in 1..3, h <= Top(k), Way(m, ino, k, h) # 0
      PROVE  n[Way(m, ino, k, h)].ent[Entry(k, h)] = m[Way(m, ino, k, h)].ent[Entry(k, h)]
  <2>1. Placed(Way(m, ino, k, h), k, h, S, lev, took)
    BY <1>1, WayIn
  <2>2. QED BY <2>1 DEF Placed
<1>2. ino.ib[SlotOf[k]] = ino.ib[SlotOf[k]]
  OBVIOUS
<1>3. \A h \in 0..3 : h <= Top(k) => Way(n, ino, k, h) = Way(m, ino, k, h)
  BY ONLY <1>1, <1>2, k \in Deep, WayKept
<1>4. QED BY <1>3

LEMMA FoundKept ==
    ASSUME NEW m, NEW n, NEW S, NEW lev, NEW took, NEW lev2, NEW took2, NEW ino,
           Shape(m, ino, S, lev, took), \A b \in S : lev[b] # 0 => n[b].ent = m[b].ent,
           NEW b \in S, NEW end \in Nat, end <= Base[3], Found(b, m, ino, end, lev, took),
           lev2[b] = lev[b], took2[b] = took[b]
    PROVE  Found(b, n, ino, end, lev2, took2)
<1>1. CASE lev[b] = 0
  <2>1. took[b] \in 0..(Base[3] - 1)
    BY <1>1, Bases DEF Found
  <2>2. Lead(n, ino, took[b]) = Lead(m, ino, took[b])
    BY <2>1, LeadKept
  <2>3. QED BY <1>1, <2>2 DEF Found
<1>2. CASE lev[b] # 0
  <2>1. took[b] \in Deep /\ lev[b] \in 0..3 /\ lev[b] <= Top(took[b])
    BY <1>2 DEF Found
  <2>2. Way(n, ino, took[b], lev[b]) = Way(m, ino, took[b], lev[b])
    BY <2>1, WaysKept
  <2>3. QED BY <1>2, <2>2 DEF Found
<1>3. QED BY <1>1, <1>2

LEMMA SizeFits ==
    ASSUME NEW ino \in Inodes, Fits(ino.size)
    PROVE  ino.size \in Nat /\ Ceil(ino.size) \in Nat /\ Ceil(ino.size) <= Base[3]
  BY CeilIs DEF Inodes, Fits

LEMMA StandsKept ==
    ASSUME NEW m, NEW n, NEW S, NEW lev, NEW took, NEW lev2, NEW took2, NEW ino,
           Stands(S, ino, m, lev, took), Alike(S, m, n, lev, took, lev2, took2)
    PROVE  Stands(S, ino, n, lev2, took2)
<1>1. ino \in Inodes /\ Fits(ino.size) /\ Shape(m, ino, S, lev, took)
  BY DEF Stands
<1>2. Shape(n, ino, S, lev2, took2)
  BY <1>1, ShapeKept
<1>3. ASSUME NEW b \in S PROVE Found(b, n, ino, Ceil(ino.size), lev2, took2)
  <2>1. \A x \in S : n[x] = m[x] /\ lev2[x] = lev[x] /\ took2[x] = took[x]
    BY DEF Alike
  <2>2. Found(b, m, ino, Ceil(ino.size), lev, took)
    BY DEF Stands
  <2>3. \A x \in S : lev[x] # 0 => n[x].ent = m[x].ent
    BY <2>1
  <2>4. Ceil(ino.size) \in Nat /\ Ceil(ino.size) <= Base[3]
    BY <1>1, SizeFits
  <2>5. QED BY <1>1, <2>1, <2>2, <2>3, <2>4, FoundKept
<1>4. QED BY <1>1, <1>2, <1>3 DEF Stands

LEMMA ShareIs ==
    ASSUME NEW S, NEW ino, NEW m, NEW lev, NEW took, Stands(S, ino, m, lev, took), NEW b \in S
    PROVE  Share(took[b], lev[b], ino.size) \in 1..FragsPerBlock
<1>1. ino \in Inodes /\ Fits(ino.size) /\ Found(b, m, ino, Ceil(ino.size), lev, took)
  BY DEF Stands
<1>2. CASE lev[b] = 0
  <2>1. took[b] \in Nat /\ took[b] < Ceil(ino.size) /\ ino.size \in Nat
    BY <1>1, <1>2, SizeFits DEF Found
  <2>2. QED BY <1>2, <2>1, FragsAre DEF Share
<1>3. CASE lev[b] # 0
  BY <1>3, Constants DEF Share
<1>4. QED BY <1>2, <1>3

LEMMA KeptKept ==
    ASSUME NEW m, NEW n, NEW u, NEW v, NEW S, NEW lev, NEW took, NEW lev2, NEW took2, NEW ino,
           Kept(S, ino, m, u, lev, took), Alike(S, m, n, lev, took, lev2, took2),
           \A b \in S : v[b] = u[b]
    PROVE  Kept(S, ino, n, v, lev2, took2) /\ Content(n, ino) = Content(m, ino)
<1>1. Stands(S, ino, m, lev, took)
  BY DEF Kept
<1>2. Stands(S, ino, n, lev2, took2)
  BY <1>1, StandsKept
<1>3. \A b \in S : v[b] = Share(took2[b], lev2[b], ino.size)
  BY DEF Kept, Alike
<1>4. ino.size \in Nat /\ Fits(ino.size) /\ Shape(m, ino, S, lev, took)
  BY <1>1, SizeFits DEF Stands
<1>5. \A b \in S : n[b] = m[b]
  BY DEF Alike
<1>6. Content(n, ino) = Content(m, ino)
  BY <1>4, <1>5, ContentKept
<1>7. QED BY <1>2, <1>3, <1>6 DEF Kept

\* The blocks of the files are not touched.
Spared(H, m, n, u, v, lev, took, lev2, took2) ==
    \A f \in Files : \A b \in H[f] : n[b] = m[b] /\ v[b] = u[b] /\ lev2[b] = lev[b] /\ took2[b] = took[b]

LEMMA FilesKept ==
    ASSUME NEW H, NEW m, NEW n, NEW u, NEW v, NEW lev, NEW took, NEW lev2, NEW took2,
           NEW d, NEW named \in SUBSET Files, NEW text,
           FilesOK(H, m, u, lev, took, d, named, text),
           Spared(H, m, n, u, v, lev, took, lev2, took2)
    PROVE  FilesOK(H, n, v, lev2, took2, d, named, text)
<1>1. ASSUME NEW f \in named
      PROVE  Kept(H[f], d[f], n, v, lev2, took2) /\ Content(n, d[f]) = text[f]
  <2>1. Kept(H[f], d[f], m, u, lev, took) /\ Content(m, d[f]) = text[f]
    BY DEF FilesOK
  <2>2. Alike(H[f], m, n, lev, took, lev2, took2) /\ \A b \in H[f] : v[b] = u[b]
    BY DEF Spared, Alike
  <2>3. QED BY <2>1, <2>2, KeptKept
<1>2. QED BY <1>1 DEF FilesOK

\* What is freed of a file: each of its blocks, once.
LEMMA RunsFree ==
    ASSUME NEW S, S \subseteq Blocks, NEW lev, NEW took, NEW ino,
           IsBytes(bytes), Stands(S, ino, bytes, lev, took)
    PROVE  /\ RunsOf(ino) \in Seq(Runs) /\ RunsOf(ino) \in Seq(RunSet(S, lev, took, ino.size))
           /\ Ordered(RunsOf(ino))
           /\ \A b \in S : InSeq(RunOf(b, lev, took, ino.size), RunsOf(ino))
           /\ \A i \in 1..Len(RunsOf(ino)) :
                /\ RunsOf(ino)[i].block \in S
                /\ RunsOf(ino)[i].frags = Share(took[RunsOf(ino)[i].block], lev[RunsOf(ino)[i].block], ino.size)
           /\ \A i, j \in 1..Len(RunsOf(ino)) : RunsOf(ino)[i].block = RunsOf(ino)[j].block => i = j
<1> DEFINE q == RunsOf(ino)
           R == RunSet(S, lev, took, ino.size)
<1>1. ino \in Inodes /\ Fits(ino.size) /\ Shape(bytes, ino, S, lev, took)
  BY DEF Stands
<1>2. /\ q \in Seq(R) /\ Once(q) /\ Ordered(q)
      /\ \A b \in S : Found(b, bytes, ino, Ceil(ino.size), lev, took)
           => InSeq(RunOf(b, lev, took, ino.size), q)
  BY <1>1, RunsFacts
<1> HIDE DEF q, R
<1>3. \A b \in S : InSeq(RunOf(b, lev, took, ino.size), q)
  BY <1>2 DEF Stands
<1>4. ASSUME NEW i \in 1..Len(q)
      PROVE  \E b \in S : q[i] = RunOf(b, lev, took, ino.size)
  <2>1. q[i] \in R
    BY <1>2
  <2>2. QED BY <2>1 DEF R, RunSet
<1>5. ASSUME NEW b \in S
      PROVE  /\ RunOf(b, lev, took, ino.size) \in Runs
             /\ RunOf(b, lev, took, ino.size).block = b
             /\ RunOf(b, lev, took, ino.size).frags = Share(took[b], lev[b], ino.size)
  <2>1. PICK s : s = IF lev[b] = 0 THEN NoSlot ELSE SlotOf[took[b]]
    OBVIOUS
  <2>2. s \in Slots \cup {NoSlot}
    <3>1. lev[b] # 0 => took[b] \in Deep
      BY DEF Stands, Found
    <3>2. QED BY <2>1, <3>1, Slot
  <2>3. PICK w \in 1..FragsPerBlock : w = Share(took[b], lev[b], ino.size)
    BY ShareIs
  <2>4. RunOf(b, lev, took, ino.size) = [block |-> b, frags |-> w, slot |-> s]
    BY <2>1, <2>3 DEF RunOf
  <2>5. QED BY <2>2, <2>3, <2>4 DEF Runs
<1>6. q \in Seq(Runs)
  <2>1. \A i \in 1..Len(q) : q[i] \in Runs
    BY <1>4, <1>5
  <2>2. q \in [1..Len(q) -> Runs] /\ Len(q) \in Nat
    BY <1>2, <2>1
  <2>3. QED BY <2>2
<1>7. \A i \in 1..Len(q) : q[i].block \in S /\ q[i].frags = Share(took[q[i].block], lev[q[i].block], ino.size)
  BY <1>4, <1>5
<1>8. ASSUME NEW i \in 1..Len(q), NEW j \in 1..Len(q), q[i].block = q[j].block PROVE i = j
  <2>1. PICK a \in S : q[i] = RunOf(a, lev, took, ino.size)
    BY <1>4
  <2>2. PICK b \in S : q[j] = RunOf(b, lev, took, ino.size)
    BY <1>4
  <2>3. a = b
    BY <1>5, <1>8, <2>1, <2>2
  <2>4. QED BY <1>2, <2>1, <2>2, <2>3 DEF Once
<1>9. QED BY <1>2, <1>3, <1>6, <1>7, <1>8 DEF q, R

-----------------------------------------------------------------------------
(* The calls begin.                                                        *)
LEMMA EmptyIs == Empty \in Inodes /\ \A n \in Nat : [Empty EXCEPT !.size = n] \in Inodes
  BY Constants DEF Empty, Inodes

LEMMA JunkIs ==
    ASSUME IsBytes(bytes)
    PROVE  IsBytes([b \in Blocks |-> IF used[b] = 0 THEN Junk ELSE bytes[b]])
<1>1. Junk \in [val : [0..(FragsPerBlock - 1) -> Int], ent : [Index -> 0..NBlocks]]
  BY Constants DEF Junk, Zeros, NotEntries
<1>2. QED BY <1>1 DEF IsBytes

LEMMA InitIInv == Init => IInv
<1> SUFFICES ASSUME Init PROVE IInv
  OBVIOUS
<1>1. IsBytes(bytes)
  <2>1. Junk \in [val : [0..(FragsPerBlock - 1) -> Int], ent : [Index -> 0..NBlocks]]
    BY Constants DEF Junk, Zeros, NotEntries
  <2>2. QED BY <2>1 DEF IsBytes, Init
<1>2. Types
  <2>1. used \in [Blocks -> Int] /\ live \in SUBSET Files /\ calls \in Nat /\ errors \in Nat
        /\ call = Idle
    BY DEF Init
  <2>2. disk \in [Files -> Inodes]
    BY EmptyIs DEF Init
  <2>3. contents \in [Files -> Seq(Int)]
    <3>1. <<>> \in Seq(Int)
      OBVIOUS
    <3>2. QED BY <3>1 DEF Init
  <2>4. lost \in SUBSET Blocks /\ lost = {}
    BY DEF Init
  <2>5. QED BY <1>1, <2>1, <2>2, <2>3, <2>4 DEF Types
<1> DEFINE H == [f \in Files |-> {}]
           lev == [b \in Blocks |-> 0]
           took == [b \in Blocks |-> 0]
<1>3. GhostOK(H, {}, lev, took)
  BY DEF GhostOK
<1>4. FilesOK(H, bytes, used, lev, took, disk, live, contents)
  BY DEF FilesOK, Init
<1>5. CallOK(call, H, {}, bytes, used, lev, took, disk, live, errors)
  BY DEF CallOK, Init
<1>6. Accounted(call, H, {}, used, lost)
  BY DEF Accounted, Init
<1> HIDE DEF H, lev, took
<1>7. QED BY <1>2, <1>3, <1>4, <1>5, <1>6 DEF IInv, Sound

\* A file reads as its contents.
LEMMA ReadsAre ==
    ASSUME IInv, NEW f \in live
    PROVE  ReadFile(disk[f]) = contents[f] /\ contents[f] \in Seq(Int)
<1>1. PICK H, C, lev, took : Sound(H, C, lev, took)
  BY DEF IInv
<1>2. Kept(H[f], disk[f], bytes, used, lev, took) /\ Content(bytes, disk[f]) = contents[f]
  BY <1>1 DEF Sound, FilesOK
<1>3. disk[f].size \in Nat /\ Fits(disk[f].size)
  BY <1>2, SizeFits DEF Kept, Stands
<1>4. ReadFile(disk[f]) = Content(bytes, disk[f])
  BY <1>3, ReadIs
<1>5. QED BY <1>2, <1>4 DEF IInv, Types

\* Every block of a file is allocated.
LEMMA FileUsed ==
    ASSUME NEW H, NEW C, NEW lev, NEW took, Sound(H, C, lev, took), NEW f \in Files, NEW b \in H[f]
    PROVE  used[b] \in 1..FragsPerBlock /\ b \in Blocks
<1>1. f \in live
  BY DEF Sound, FilesOK
<1>2. Kept(H[f], disk[f], bytes, used, lev, took)
  BY <1>1 DEF Sound, FilesOK
<1>3. used[b] = Share(took[b], lev[b], disk[f].size) /\ Stands(H[f], disk[f], bytes, lev, took)
  BY <1>2 DEF Kept
<1>4. used[b] \in 1..FragsPerBlock
  BY <1>3, ShareIs
<1>5. b \in Blocks
  BY DEF Sound, GhostOK
<1>6. QED BY <1>4, <1>5

LEMMA BeginSpares ==
    ASSUME NEW H, NEW C, NEW lev, NEW took, Sound(H, C, lev, took), Begin
    PROVE  Spared(H, bytes, bytes', used, used, lev, took, lev, took)
<1>1. ASSUME NEW f \in Files, NEW b \in H[f] PROVE bytes'[b] = bytes[b]
  <2>1. used[b] \in 1..FragsPerBlock /\ b \in Blocks
    BY FileUsed
  <2>2. used[b] # 0
    BY <2>1
  <2>3. QED BY <2>1, <2>2 DEF Begin
<1>2. QED BY <1>1 DEF Spared

\* A call that stores begins with nothing.
LEMMA BeginStoring ==
    ASSUME IInv, Begin, UNCHANGED <<used, disk, live, contents, errors, lost>>,
           NEW kind \in {"create", "rewrite"}, NEW f \in Files, kind = "rewrite" <=> f \in live,
           NEW ino \in Inodes, ino.db = Empty.db, ino.ib = Empty.ib,
           NEW size \in Nat, Fits(size), ino.size \in {0, size},
           NEW buf \in Seq(Int), Len(buf) = size,
           call' = Storing(kind, f, ino, size, buf)
    PROVE  IInv'
<1>1. PICK H, C, lev, took : Sound(H, C, lev, took)
  BY DEF IInv
<1>2. call = Idle /\ calls' = calls + 1 /\ disk[f] \in Inodes
  BY DEF Begin, IInv, Types
<1> DEFINE c == call'
<1>3. /\ c.pc = "alloc" /\ c.kind = kind /\ c.file = f /\ c.ino = ino /\ c.size = size /\ c.buf = buf
      /\ c.k = 0 /\ c.old = disk[f] /\ c \in Calls
  <2>1. <<>> \in Seq(Runs)
    OBVIOUS
  <2>2. QED BY <1>2, <2>1, Constants DEF Storing, Calls, Fills
<1>4. IsBytes(bytes')
  BY JunkIs DEF IInv, Types, Begin
<1>5. Types'
  BY <1>2, <1>3, <1>4 DEF IInv, Types
<1>6. GhostOK(H, {}, lev, took)
  BY <1>1 DEF Sound, GhostOK
<1>7. FilesOK(H, bytes', used', lev, took, disk', live', contents')
  <2>1. FilesOK(H, bytes, used, lev, took, disk, live, contents) /\ live \in SUBSET Files
    BY <1>1 DEF Sound, IInv, Types
  <2>2. Spared(H, bytes, bytes', used, used, lev, took, lev, took)
    BY <1>1, BeginSpares
  <2>3. FilesOK(H, bytes', used, lev, took, disk, live, contents)
    BY <2>1, <2>2, FilesKept
  <2>4. QED BY <2>3
<1> HIDE DEF c
<1>8. Built(c, {}, bytes', used', lev, took)
  <2>1. Shape(bytes', ino, {}, lev, took)
    <3>1. \A k \in 0..(Direct - 1) : ino.db[k] = 0
      BY DEF Empty
    <3>2. \A s \in Slots : ino.ib[s] = 0
      BY DEF Empty
    <3>3. QED BY <3>1, <3>2 DEF Shape, Rooted, Closed
  <2>2. Ceil(size) \in Nat
    BY CeilIs
  <2>3. ino.size \in {size, Min({size, 0 * FragsPerBlock})}
    <3>1. 0 * FragsPerBlock = 0
      BY Constants
    <3>2. Min({size, 0}) = 0
      <4>1. Min({size, 0}) = IF size <= 0 THEN size ELSE 0
        BY MinIs
      <4>2. QED BY <4>1
    <3>3. QED BY <3>1, <3>2
  <2>4. QED BY <1>3, <2>1, <2>2, <2>3 DEF Built, Loose
<1>9. CallOK(c, H, {}, bytes', used', lev, took, disk', live', errors')
  BY <1>3, <1>8 DEF CallOK, Kinds, Fills, Freeing
<1>10. Accounted(c, H, {}, used', lost')
  BY <1>1, <1>2, <1>3 DEF Sound, Accounted, Freeing
<1>11. Sound(H, {}, lev, took)'
  BY <1>6, <1>7, <1>9, <1>10 DEF Sound, c
<1>12. QED BY <1>5, <1>11 DEF IInv

LEMMA StampsAre ==
    ASSUME Types, NEW size \in Nat
    PROVE  [i \in 1..size |-> Stamp] \in Seq(Int) /\ Len([i \in 1..size |-> Stamp]) = size
<1>1. PICK x \in Int : x = Stamp
  BY DEF Stamp, Types
<1>2. [i \in 1..size |-> x] \in Seq(Int) /\ Len([i \in 1..size |-> x]) = size
  OBVIOUS
<1>3. QED BY <1>1, <1>2

LEMMA CreateIInv ==
    ASSUME IInv, NEW f \in Files, NEW size \in Sizes, Create(f, size)
    PROVE  IInv'
<1>1. size \in Nat /\ Types
  BY Constants DEF IInv
<1>2. PICK ino \in Inodes : ino = [Empty EXCEPT !.size = size]
  BY <1>1, EmptyIs
<1>3. ino.db = Empty.db /\ ino.ib = Empty.ib /\ ino.size = size
  BY <1>2 DEF Empty
<1>4. PICK buf \in Seq(Int) : buf = [i \in 1..size |-> Stamp] /\ Len(buf) = size
  BY <1>1, StampsAre
<1>5. call' = Storing("create", f, ino, size, buf)
  BY <1>2, <1>4 DEF Create
<1>6. QED BY <1>1, <1>3, <1>4, <1>5, BeginStoring DEF Create

LEMMA RewriteIInv ==
    ASSUME IInv, NEW f \in Files, NEW buf \in Seq(Int), Rewrite(f, buf)
    PROVE  IInv'
<1>1. Len(buf) \in Nat /\ Empty \in Inodes /\ Empty.size = 0
  BY EmptyIs DEF Empty
<1>2. call' = Storing("rewrite", f, Empty, Len(buf), buf)
  BY DEF Rewrite
<1>3. QED BY <1>1, <1>2, BeginStoring DEF Rewrite

LEMMA OverwriteIInv ==
    ASSUME IInv, NEW f \in Files, NEW size \in Sizes, Overwrite(f, size)
    PROVE  IInv'
<1>1. size \in Nat /\ Types
  BY Constants DEF IInv
<1>2. [i \in 1..size |-> Stamp] \in Seq(Int)
  BY <1>1, StampsAre
<1>3. QED BY <1>2, RewriteIInv DEF Overwrite

LEMMA AppendIInv ==
    ASSUME IInv, NEW f \in Files, NEW size \in Sizes, AppendTo(f, size)
    PROVE  IInv'
<1>1. size \in Nat /\ Types
  BY Constants DEF IInv
<1>2. PICK tail \in Seq(Int) : tail = [i \in 1..size |-> Stamp]
  BY <1>1, StampsAre
<1>3. PICK read \in Seq(Int) : read = ReadFile(disk[f])
  BY ReadsAre DEF AppendTo, Rewrite
<1>4. Rewrite(f, read \o tail)
  BY <1>2, <1>3 DEF AppendTo
<1>5. read \o tail \in Seq(Int)
  OBVIOUS
<1>6. QED BY <1>4, <1>5, RewriteIInv

LEMMA TruncateIInv ==
    ASSUME IInv, NEW f \in Files, NEW size \in Sizes, Truncate(f, size)
    PROVE  IInv'
<1>1. size \in Nat
  BY Constants
<1>2. PICK read \in Seq(Int) : read = ReadFile(disk[f])
  BY ReadsAre DEF Truncate, Rewrite
<1>3. PICK buf : buf = [i \in 1..size |-> IF i <= Len(read) THEN read[i] ELSE 0]
  OBVIOUS
<1>4. buf \in Seq(Int)
  BY <1>1, <1>3
<1>5. Rewrite(f, buf)
  BY <1>2, <1>3 DEF Truncate
<1>6. QED BY <1>4, <1>5, RewriteIInv

LEMMA PwriteIInv ==
    ASSUME IInv, NEW f \in Files, NEW w \in Writes, Pwrite(f, w[1], w[2])
    PROVE  IInv'
<1>1. PICK offset \in Nat, length \in Nat : offset = w[1] /\ length = w[2]
  BY Constants
<1>2. PICK read \in Seq(Int) : read = ReadFile(disk[f])
  BY ReadsAre DEF Pwrite, Rewrite
<1>3. PICK size \in Nat : size = Max({Len(read), offset + length})
  <2>1. Max({Len(read), offset + length}) \in Nat
    BY MaxIs
  <2>2. QED BY <2>1
<1>4. PICK buf : buf = [i \in 1..size |-> IF i \in (offset + 1)..(offset + length) THEN Stamp
                                          ELSE IF i <= Len(read) THEN read[i] ELSE 0]
  OBVIOUS
<1>5. buf \in Seq(Int)
  <2>1. Stamp \in Int
    BY DEF Stamp, IInv, Types
  <2>2. QED BY <1>4, <2>1
<1>6. Rewrite(f, buf)
  BY <1>1, <1>2, <1>3, <1>4 DEF Pwrite
<1>7. QED BY <1>5, <1>6, RewriteIInv

\* What a call leaves of the files it does not name.
LEMMA FilesApart ==
    ASSUME NEW H, NEW m, NEW u, NEW lev, NEW took, NEW d, NEW named \in SUBSET Files, NEW text,
           FilesOK(H, m, u, lev, took, d, named, text),
           NEW f \in Files, NEW G, \A g \in Files \ {f} : G[g] = H[g], G[f] = {},
           NEW e, \A g \in Files \ {f} : e[g] = text[g]
    PROVE  FilesOK(G, m, u, lev, took, d, named \ {f}, e)
<1>1. ASSUME NEW g \in named \ {f}
      PROVE  Kept(G[g], d[g], m, u, lev, took) /\ Content(m, d[g]) = e[g]
  <2>1. G[g] = H[g] /\ e[g] = text[g]
    OBVIOUS
  <2>2. QED BY <2>1 DEF FilesOK
<1>2. ASSUME NEW g \in Files \ (named \ {f}) PROVE G[g] = {}
  BY DEF FilesOK
<1>3. QED BY <1>1, <1>2 DEF FilesOK

\* Freeing a file begins: every run is there to be freed.
Outside(S, H) == \A f \in Files : H[f] \cap S = {}

LEMMA FreeAll ==
    ASSUME IsBytes(bytes), NEW S, S \subseteq Blocks, NEW lev, NEW took, NEW ino, NEW u,
           Kept(S, ino, bytes, u, lev, took), NEW H, Outside(S, H), NEW errs
    PROVE  /\ ToFree(RunsOf(ino), H, u, errs) /\ RunsOf(ino) \in Seq(Runs)
           /\ \A b \in S : Names(b, RunsOf(ino))
           /\ \A b \in Blocks : Names(b, RunsOf(ino)) => b \in S
<1>1. Stands(S, ino, bytes, lev, took)
  BY DEF Kept
<1> DEFINE q == RunsOf(ino)
<1>2. /\ q \in Seq(Runs) /\ q \in Seq(RunSet(S, lev, took, ino.size))
      /\ Ordered(q)
      /\ \A b \in S : InSeq(RunOf(b, lev, took, ino.size), q)
      /\ \A i \in 1..Len(q) : /\ q[i].block \in S
                              /\ q[i].frags = Share(took[q[i].block], lev[q[i].block], ino.size)
      /\ \A i, j \in 1..Len(q) : q[i].block = q[j].block => i = j
  BY ONLY <1>1, IsBytes(bytes), S \subseteq Blocks, RunsFree
<1> HIDE DEF q
<1>3. \A i \in 1..Len(q) : u[q[i].block] = q[i].frags
  BY <1>2 DEF Kept
<1>4. \A i \in 1..Len(q) : \A f \in Files : q[i].block \notin H[f]
  BY <1>2 DEF Outside
<1>5. ToFree(q, H, u, errs)
  BY <1>2, <1>3, <1>4 DEF ToFree
<1>6. ASSUME NEW b \in S PROVE Names(b, q)
  <2>1. PICK i \in 1..Len(q) : q[i] = RunOf(b, lev, took, ino.size)
    BY <1>2 DEF InSeq
  <2>2. RunOf(b, lev, took, ino.size).block = b
    BY DEF RunOf
  <2>3. QED BY <2>1, <2>2 DEF Names
<1>7. \A b \in Blocks : Names(b, q) => b \in S
  BY <1>2 DEF Names
<1>8. QED BY <1>2, <1>5, <1>6, <1>7 DEF q

LEMMA UnlinkIInv ==
    ASSUME IInv, NEW f \in Files, Unlink(f)
    PROVE  IInv'
<1>1. PICK H, C, lev, took : Sound(H, C, lev, took)
  BY DEF IInv
<1>2. /\ call = Idle /\ calls' = calls + 1 /\ f \in live /\ live' = live \ {f}
      /\ contents' = [contents EXCEPT ![f] = <<>>] /\ UNCHANGED <<used, disk, errors, lost>>
      /\ disk[f] \in Inodes /\ H[f] \in SUBSET Blocks /\ IsBytes(bytes)
  BY <1>1 DEF Begin, Unlink, IInv, Types, Sound, GhostOK
<1> DEFINE c == call'
           G == [g \in Files |-> IF g = f THEN {} ELSE H[g]]
<1>3. Kept(H[f], disk[f], bytes, used, lev, took)
  BY <1>1, <1>2 DEF Sound, FilesOK
<1>4. Outside(H[f], G)
  BY <1>1 DEF Sound, GhostOK, Outside
<1>5. c = [Storing("unlink", f, disk[f], 0, <<>>) EXCEPT !.pc = "unlink", !.todo = RunsOf(disk[f])]
  BY DEF Unlink
<1>6. /\ c = [pc |-> "unlink", kind |-> "unlink", file |-> f, ino |-> disk[f], frags |-> 0, size |-> 0,
              buf |-> <<>>, k |-> 0, hand |-> 0, at |-> 0, level |-> 0, todo |-> RunsOf(disk[f]), old |-> disk[f]]
  BY <1>5 DEF Storing
<1>7. c.pc = "unlink" /\ c.kind = "unlink" /\ c.file = f /\ c.todo = RunsOf(disk[f])
  BY <1>6
<1>8. /\ ToFree(c.todo, G, used, errors) /\ c.todo \in Seq(Runs)
      /\ \A b \in H[f] : Names(b, c.todo)
      /\ \A b \in Blocks : Names(b, c.todo) => b \in H[f]
  <2> HIDE DEF c, G
  <2>1. H[f] \subseteq Blocks /\ IsBytes(bytes)
    BY <1>2
  <2>2. /\ ToFree(RunsOf(disk[f]), G, used, errors) /\ RunsOf(disk[f]) \in Seq(Runs)
        /\ \A b \in H[f] : Names(b, RunsOf(disk[f]))
        /\ \A b \in Blocks : Names(b, RunsOf(disk[f])) => b \in H[f]
    BY ONLY <2>1, <1>3, <1>4, FreeAll
  <2>3. QED BY <1>7, <2>2
<1>9. c \in Calls
  <2>1. RunsOf(disk[f]) \in Seq(Runs) /\ <<>> \in Seq(Int)
    BY <1>7, <1>8
  <2>2. QED BY <1>2, <1>6, <2>1, Constants DEF Calls, Fills, Freeing
<1>10. IsBytes(bytes')
  BY JunkIs DEF IInv, Types, Unlink, Begin
<1>11. Types'
  <2>1. <<>> \in Seq(Int)
    OBVIOUS
  <2>2. contents' \in [Files -> Seq(Int)]
    BY <1>2, <2>1 DEF IInv, Types
  <2>3. QED BY <1>2, <1>9, <1>10, <2>2 DEF IInv, Types
<1> HIDE DEF c
<1>12. GhostOK(G, {}, lev, took)
  <2>1. G \in [Files -> SUBSET Blocks]
    BY <1>1 DEF Sound, GhostOK
  <2>2. \A g, h \in Files : g # h => G[g] \cap G[h] = {}
    BY <1>1 DEF Sound, GhostOK
  <2>3. QED BY <1>1, <2>1, <2>2 DEF Sound, GhostOK
<1>13. FilesOK(G, bytes', used', lev, took, disk', live', contents')
  <2>1. FilesOK(H, bytes, used, lev, took, disk, live, contents) /\ live \in SUBSET Files
    BY <1>1 DEF Sound, IInv, Types
  <2>2. Spared(H, bytes, bytes', used, used, lev, took, lev, took)
    BY <1>1, BeginSpares DEF Unlink
  <2>3. FilesOK(H, bytes', used, lev, took, disk, live, contents)
    BY <2>1, <2>2, FilesKept
  <2>4. /\ \A g \in Files \ {f} : G[g] = H[g]
        /\ G[f] = {}
    OBVIOUS
  <2>5. \A g \in Files \ {f} : contents'[g] = contents[g]
    BY <1>2 DEF IInv, Types
  <2> HIDE DEF G
  <2>6. FilesOK(G, bytes', used, lev, took, disk, live \ {f}, contents')
    BY <2>1, <2>3, <2>4, <2>5, FilesApart
  <2>7. QED BY <1>2, <2>6
<1>14. CallOK(c, G, {}, bytes', used', lev, took, disk', live', errors')
  BY <1>2, <1>7, <1>8 DEF CallOK, Kinds, Fills, Freeing
<1>15. Accounted(c, G, {}, used', lost')
  <2>1. /\ \A b \in Blocks : used[b] # 0 => b \in lost \/ \E g \in Files : b \in H[g]
        /\ \A b \in lost : used[b] # 0 /\ \A g \in Files : b \notin H[g]
    BY <1>1, <1>2 DEF Sound, Accounted
  <2>2. ASSUME NEW b \in Blocks, used[b] # 0, b \notin lost
        PROVE  Names(b, c.todo) \/ \E g \in Files : b \in G[g]
    <3>1. PICK g \in Files : b \in H[g]
      BY <2>1, <2>2
    <3>2. QED BY <1>8, <3>1
  <2>3. ASSUME NEW b \in lost
        PROVE  used[b] # 0 /\ ~Names(b, c.todo) /\ \A g \in Files : b \notin G[g]
    <3>1. b \in Blocks
      BY DEF IInv, Types
    <3>2. QED BY <1>2, <1>8, <2>1, <3>1
  <2>4. c # Idle /\ c.pc \in Freeing /\ c.pc \notin Fills \cup {"undo"}
    BY <1>7 DEF Idle, Freeing, Fills
  <2> HIDE DEF G
  <2>5. QED BY <1>2, <2>2, <2>3, <2>4 DEF Accounted
<1> HIDE DEF G
<1>16. Sound(G, {}, lev, took)'
  BY <1>12, <1>13, <1>14, <1>15 DEF Sound, c
<1>17. QED BY <1>11, <1>16 DEF IInv

-----------------------------------------------------------------------------
(* Undoing: the inode's size while its blocks come, and what that frees.   *)
LEMMA SizeSoFar ==
    ASSUME NEW size \in Nat, NEW n \in Nat, n <= Ceil(size),
           NEW s, s \in {size, Min({size, n * FragsPerBlock})}
    PROVE  /\ s \in Nat /\ Ceil(s) <= Ceil(size)
           /\ \A k \in 0..(n - 1) : k < Ceil(s) /\ FragsOf(k, s) = FragsOf(k, size)
<1> DEFINE F == FragsPerBlock
<1>1. F \in Nat \ {0} /\ Ceil(size) \in Nat
  BY Constants, CeilIs
<1> HIDE DEF F
<1>2. PICK a \in Nat : a = n * F
  BY <1>1, Product
<1>3. s = size \/ (s = a /\ a <= size)
  <2>1. Min({size, a}) = IF size <= a THEN size ELSE a
    BY MinIs
  <2>2. QED BY <1>2, <2>1 DEF F
<1>4. CASE s = size
  BY <1>1, <1>4
<1>5. CASE s = a /\ a <= size
  <2>1. s \in Nat /\ Ceil(s) <= Ceil(size)
    BY <1>2, <1>5, CeilGrows
  <2>2. ASSUME NEW k \in 0..(n - 1) PROVE k < Ceil(s) /\ FragsOf(k, s) = FragsOf(k, size)
    <3>1. PICK b \in Nat : b = k * F
      BY <1>1, Product
    <3>2. b + F <= a
      <4>1. (k + 1) * F <= n * F
        BY <1>1, Order
      <4>2. (k + 1) * F = k * F + F
        BY <1>1
      <4>3. QED BY <1>2, <3>1, <4>1, <4>2
    <3>3. k < Ceil(s)
      <4>1. b < s
        BY <1>1, <1>2, <1>5, <3>1, <3>2
      <4>2. QED BY <2>1, <3>1, <4>1, CeilIs DEF F
    <3>4. Min({s - b, F}) = F /\ Min({size - b, F}) = F
      <4>1. s - b \in Int /\ size - b \in Int /\ F \in Int /\ F <= s - b /\ F <= size - b
        BY <1>1, <1>2, <1>5, <3>1, <3>2
      <4>2. Min({s - b, F}) = IF s - b <= F THEN s - b ELSE F
        BY <4>1, MinIs
      <4>3. Min({size - b, F}) = IF size - b <= F THEN size - b ELSE F
        BY <4>1, MinIs
      <4>4. QED BY <4>1, <4>2, <4>3
    <3>5. QED BY <3>1, <3>3, <3>4 DEF FragsOf, F
  <2>3. QED BY <2>1, <2>2
<1>6. QED BY <1>3, <1>4, <1>5

LEMMA SoFar ==
    ASSUME NEW S, NEW m, NEW u, NEW lev, NEW took, NEW ino \in Inodes,
           NEW size \in Nat, Fits(size), NEW n \in Nat, n <= Ceil(size),
           ino.size \in {size, Min({size, n * FragsPerBlock})},
           Shape(m, ino, S, lev, took),
           \A b \in S : Found(b, m, ino, n, lev, took) /\ u[b] = Share(took[b], lev[b], size)
    PROVE  Kept(S, ino, m, u, lev, took)
<1>1. PICK s : s = ino.size
  OBVIOUS
<1>2. /\ s \in Nat /\ Ceil(s) <= Ceil(size)
      /\ \A k \in 0..(n - 1) : k < Ceil(s) /\ FragsOf(k, s) = FragsOf(k, size)
  BY <1>1, SizeSoFar
<1>3. Ceil(s) \in Nat /\ Ceil(size) \in Nat /\ Base[3] \in Nat
  BY <1>2, CeilIs, Bases
<1>4. Fits(s)
  BY <1>2, <1>3 DEF Fits
<1>5. ASSUME NEW b \in S
      PROVE  Found(b, m, ino, Ceil(s), lev, took) /\ u[b] = Share(took[b], lev[b], s)
  <2>1. Found(b, m, ino, n, lev, took) /\ u[b] = Share(took[b], lev[b], size)
    OBVIOUS
  <2>2. CASE lev[b] = 0
    <3>1. took[b] \in 0..(n - 1) /\ Lead(m, ino, took[b]) = b
      BY <2>1, <2>2 DEF Found
    <3>2. took[b] < Ceil(s) /\ FragsOf(took[b], s) = FragsOf(took[b], size)
      BY <1>2, <3>1
    <3>3. took[b] \in 0..(Ceil(s) - 1)
      BY <1>3, <3>1, <3>2
    <3>4. QED BY <2>1, <2>2, <3>1, <3>2, <3>3 DEF Found, Share
  <2>3. CASE lev[b] # 0
    BY <2>1, <2>3 DEF Found, Share
  <2>4. QED BY <2>2, <2>3
<1>6. QED BY <1>1, <1>4, <1>5 DEF Kept, Stands

\* A store that fails begins to free what it stored.
LEMMA UndoStarts ==
    ASSUME IsBytes(bytes), NEW S, S \subseteq Blocks, NEW lev, NEW took, NEW u, NEW c,
           Kept(S, c.ino, bytes, u, lev, took), c.kind # "unlink", c.todo = RunsOf(c.ino)
    PROVE  Undoing(c, S, bytes, u, lev, took)
<1> DEFINE q == RunsOf(c.ino)
<1>1. Stands(S, c.ino, bytes, lev, took)
  BY DEF Kept
<1>2. /\ q \in Seq(RunSet(S, lev, took, c.ino.size)) /\ Ordered(q)
      /\ \A b \in S : InSeq(RunOf(b, lev, took, c.ino.size), q)
  BY <1>1, RunsFree
<1> HIDE DEF q
<1>3. c.todo = q
  BY DEF q
<1>4. \A b \in S : u[b] \in {0, Share(took[b], lev[b], c.ino.size)}
  BY DEF Kept
<1>5. QED BY <1>1, <1>2, <1>3, <1>4 DEF Undoing

-----------------------------------------------------------------------------
(* Storing: what a block that is linked leaves of the ways there were.     *)
Wider(m, n, ino, new, S, lev) ==
    /\ \A k \in 0..(Direct - 1) : ino.db[k] # 0 => new.db[k] = ino.db[k]
    /\ \A s \in Slots : ino.ib[s] # 0 => new.ib[s] = ino.ib[s]
    /\ \A x \in S : lev[x] # 0 =>
         \A i \in Index : m[x].ent[i] # 0 => n[x].ent[i] = m[x].ent[i]

LEMMA WayWiden ==
    ASSUME NEW m, NEW n, NEW ino, NEW new, NEW S, NEW lev, NEW took,
           Shape(m, ino, S, lev, took), Wider(m, n, ino, new, S, lev),
           NEW k \in Deep, NEW h \in 0..3, h <= Top(k), Way(m, ino, k, h) # 0
    PROVE  Way(n, new, k, h) = Way(m, ino, k, h)
<1> DEFINE W(l) == Way(m, ino, k, l)
           V(l) == Way(n, new, k, l)
           P(l) == l >= h /\ l <= Top(k) => W(l) # 0
           Q(l) == V(l) = W(l)
<1>1. Top(k) \in {1, 2, 3} /\ SlotOf[k] \in Slots
  BY Slot
<1>2. /\ W(Top(k)) = ino.ib[SlotOf[k]] /\ V(Top(k)) = new.ib[SlotOf[k]]
      /\ \A l \in 0..3 : l < Top(k) =>
           /\ W(l) = Follow(m, W(l + 1), Entry(k, l + 1))
           /\ V(l) = Follow(n, V(l + 1), Entry(k, l + 1))
  BY WayDown
<1>3. P(h)
  OBVIOUS
<1>4. ASSUME NEW l \in 0..3, h <= l, l < Top(k), P(l) PROVE P(l + 1)
  <2>1. W(l) # 0
    BY <1>1, <1>4
  <2>2. QED BY <1>2, <1>4, <2>1 DEF Follow
<1>5. ASSUME NEW l \in 0..3, h <= l, l < Top(k), P(l), P(l + 1), Q(l + 1) PROVE Q(l)
  <2>1. W(l) # 0 /\ W(l + 1) # 0 /\ V(l + 1) = W(l + 1)
    BY <1>1, <1>5
  <2>2. W(l) = m[W(l + 1)].ent[Entry(k, l + 1)] /\ V(l) = n[W(l + 1)].ent[Entry(k, l + 1)]
    BY <1>2, <1>5, <2>1 DEF Follow
  <2>3. PICK x : x = W(l + 1)
    OBVIOUS
  <2>4. l + 1 \in 1..3 /\ l + 1 <= Top(k)
    BY <1>1, <1>5
  <2>5. Placed(x, k, l + 1, S, lev, took)
    BY <2>1, <2>3, <2>4, WayIn
  <2>6. x \in S /\ lev[x] # 0
    BY <2>4, <2>5 DEF Placed
  <2>7. Entry(k, l + 1) \in Index
    BY <2>4, EntryIn
  <2>8. QED BY <2>1, <2>2, <2>3, <2>6, <2>7 DEF Wider
<1>6. P(Top(k)) => Q(Top(k))
  BY <1>1, <1>2 DEF Wider
<1> HIDE DEF P, Q
<1>7. \A l \in 0..3 : h <= l /\ l < Top(k) /\ P(l) => P(l + 1)
  <2>1. TAKE l \in 0..3
  <2>2. HAVE h <= l /\ l < Top(k) /\ P(l)
  <2>3. QED BY <1>4, <2>2
<1>8. \A l \in 0..3 : h <= l /\ l < Top(k) /\ P(l) /\ P(l + 1) /\ Q(l + 1) => Q(l)
  BY <1>5
<1>9. Q(h)
  <2>1. CASE h = Top(k)
    BY <1>3, <1>6, <2>1
  <2>2. CASE h + 1 = Top(k)
    BY <1>3, <1>6, <1>7, <1>8, <1>1, <2>2
  <2>3. CASE h + 2 = Top(k)
    <3>1. P(h) /\ P(h + 1)
      BY <1>3, <1>7, <1>1, <2>3
    <3>2. h + 1 \in 0..3 /\ h + 2 = (h + 1) + 1
      BY <1>1, <2>3
    <3>3. P(h + 2)
      BY <3>1, <3>2, <1>7, <1>1, <2>3
    <3>4. Q(h + 2)
      BY <3>3, <1>6, <2>3
    <3>5. Q(h + 1)
      BY <3>1, <3>2, <3>3, <3>4, <1>8, <1>1, <2>3
    <3>6. QED BY <3>1, <3>5, <1>8, <1>1, <2>3
  <2>4. CASE h + 3 = Top(k)
    <3>1. h = 0 /\ Top(k) = 3
      BY <1>1, <2>4
    <3>2. P(0) /\ P(1) /\ P(2) /\ P(3)
      BY <3>1, <1>3, <1>7
    <3>3. Q(3) /\ Q(2) /\ Q(1) /\ Q(0)
      BY <3>1, <3>2, <1>6, <1>8
    <3>4. QED BY <3>1, <3>3
  <2>5. QED BY <1>1, <2>1, <2>2, <2>3, <2>4
<1>10. QED BY <1>9 DEF Q

LEMMA LeadWiden ==
    ASSUME NEW m, NEW n, NEW ino, NEW new, NEW S, NEW lev, NEW took,
           Shape(m, ino, S, lev, took), Wider(m, n, ino, new, S, lev),
           NEW k \in 0..(Base[3] - 1), Lead(m, ino, k) # 0
    PROVE  Lead(n, new, k) = Lead(m, ino, k)
<1>1. CASE k < Direct
  BY <1>1, Constants DEF Lead, Wider
<1>2. CASE ~(k < Direct)
  <2>1. k \in Deep
    BY <1>2, Constants, Bases DEF Deep
  <2>2. Lead(m, ino, k) = Way(m, ino, k, 0) /\ Lead(n, new, k) = Way(n, new, k, 0)
    BY <1>2 DEF Lead
  <2>3. 0 \in 0..3 /\ 0 <= Top(k)
    BY <2>1, Slot
  <2>4. QED BY <2>1, <2>2, <2>3, WayWiden
<1>3. QED BY <1>1, <1>2

LEMMA FoundWiden ==
    ASSUME NEW m, NEW n, NEW ino, NEW new, NEW S, NEW lev, NEW took, NEW lev2, NEW took2,
           Shape(m, ino, S, lev, took), Wider(m, n, ino, new, S, lev),
           NEW b \in S, b # 0, lev2[b] = lev[b], took2[b] = took[b],
           NEW end \in Nat, end <= Base[3], Found(b, m, ino, end, lev, took)
    PROVE  Found(b, n, new, end, lev2, took2)
<1>1. CASE lev[b] = 0
  <2>1. took[b] \in 0..(Base[3] - 1) /\ Lead(m, ino, took[b]) = b
    BY <1>1, Bases DEF Found
  <2>2. Lead(n, new, took[b]) = b
    BY <2>1, LeadWiden
  <2>3. QED BY <1>1, <2>2 DEF Found
<1>2. CASE lev[b] # 0
  <2>1. took[b] \in Deep /\ lev[b] \in 0..3 /\ lev[b] <= Top(took[b]) /\ Way(m, ino, took[b], lev[b]) = b
    BY <1>2 DEF Found
  <2>2. Way(n, new, took[b], lev[b]) = b
    BY <2>1, WayWiden
  <2>3. QED BY <1>2, <2>2 DEF Found
<1>3. QED BY <1>1, <1>2

SameData(m, n, S, lev, took, k) == \A x \in S : lev[x] = 0 /\ took[x] = k => n[x].val = m[x].val
SameText(c, e) == e.size = c.size /\ e.buf = c.buf

LEMMA DoneWiden ==
    ASSUME NEW m, NEW n, NEW c, NEW e, NEW S, NEW lev, NEW took,
           Shape(m, c.ino, S, lev, took), Wider(m, n, c.ino, e.ino, S, lev),
           SameText(c, e), NEW k \in 0..(Base[3] - 1), Done(k, c, m), SameData(m, n, S, lev, took, k)
    PROVE  Done(k, e, n)
<1>1. Lead(m, c.ino, k) # 0 /\ m[Lead(m, c.ino, k)].val = Piece(c, k)
  BY DEF Done
<1>2. PICK x : x = Lead(m, c.ino, k)
  OBVIOUS
<1>3. x \in S /\ lev[x] = 0 /\ took[x] = k
  BY <1>1, <1>2, LeadIn
<1>4. Lead(n, e.ino, k) = x
  BY <1>1, <1>2, LeadWiden
<1>5. Piece(e, k) = Piece(c, k)
  BY DEF Piece, SameText
<1>6. n[x].val = m[x].val
  BY <1>3 DEF SameData
<1>7. QED BY <1>1, <1>2, <1>4, <1>5, <1>6 DEF Done

LEMMA ClosedWiden ==
    ASSUME NEW m, NEW n, NEW S, NEW T, NEW lev, NEW took, NEW lev2, NEW took2,
           Closed(m, S, lev, took), S \subseteq T,
           \A x \in S : lev2[x] = lev[x] /\ took2[x] = took[x],
           \A x \in S : lev[x] # 0 =>
             \A i \in Index : n[x].ent[i] = m[x].ent[i] \/ IsChild(n[x].ent[i], x, i, T, lev2, took2),
           \A x \in T \ S : lev2[x] # 0 =>
             /\ took2[x] \in Deep /\ lev2[x] \in 1..3 /\ lev2[x] <= Top(took2[x])
             /\ \A i \in Index : n[x].ent[i] = 0
    PROVE  Closed(n, T, lev2, took2)
<1>1. SUFFICES ASSUME NEW b \in T, lev2[b] # 0
               PROVE  /\ took2[b] \in Deep /\ lev2[b] \in 1..3 /\ lev2[b] <= Top(took2[b])
                      /\ \A i \in Index : n[b].ent[i] # 0 => IsChild(n[b].ent[i], b, i, T, lev2, took2)
  BY DEF Closed
<1>2. CASE b \notin S
  BY <1>1, <1>2
<1>3. CASE b \in S
  <2>1. lev2[b] = lev[b] /\ took2[b] = took[b] /\ lev[b] # 0
    BY <1>1, <1>3
  <2>2. /\ took[b] \in Deep /\ lev[b] \in 1..3 /\ lev[b] <= Top(took[b])
        /\ \A i \in Index : m[b].ent[i] # 0 => IsChild(m[b].ent[i], b, i, S, lev, took)
    BY <1>3, <2>1 DEF Closed
  <2>3. ASSUME NEW i \in Index, n[b].ent[i] # 0 PROVE IsChild(n[b].ent[i], b, i, T, lev2, took2)
    <3>1. CASE n[b].ent[i] = m[b].ent[i]
      <4>1. IsChild(m[b].ent[i], b, i, S, lev, took)
        BY <2>2, <2>3, <3>1
      <4>2. QED BY <2>1, <3>1, <4>1 DEF IsChild
    <3>2. QED BY <1>3, <2>1, <3>1
  <2>4. QED BY <2>1, <2>2, <2>3
<1>4. QED BY <1>2, <1>3

-----------------------------------------------------------------------------
(* Storing: what every step of it has to show.                             *)
At(H, C, lev, took) ==
    /\ Types /\ Sound(H, C, lev, took) /\ GhostOK(H, C, lev, took)
    /\ call \in Calls /\ call # Idle /\ call.pc \in Fills
    /\ Built(call, C, bytes, used, lev, took)

LEMMA Storings ==
    ASSUME IInv, call.pc \in Fills
    PROVE  \E H, C, lev, took : At(H, C, lev, took)
<1>1. PICK H, C, lev, took : Sound(H, C, lev, took)
  BY DEF IInv
<1>2. call # Idle
  BY DEF Idle, Fills
<1>3. Types /\ call \in Calls
  BY <1>2 DEF IInv, Types
<1>4. GhostOK(H, C, lev, took) /\ Built(call, C, bytes, used, lev, took)
  BY <1>1, <1>2 DEF Sound, CallOK
<1>5. QED BY <1>1, <1>2, <1>3, <1>4 DEF At

LEMMA Faults ==
    ASSUME Types, Fine \/ Fail, UNCHANGED lost
    PROVE  errors' \in Nat /\ lost' \in SUBSET Blocks /\ (lost' # {} => errors' > 0)
<1>1. errors \in Nat /\ lost \in SUBSET Blocks /\ (lost # {} => errors > 0)
  BY DEF Types
<1>2. errors' = errors \/ errors' = errors + 1
  BY DEF Fine, Fail
<1>3. errors' \in Nat /\ (errors > 0 => errors' > 0)
  BY <1>1, <1>2
<1>4. QED BY <1>1, <1>3

\* So it may lose blocks more.
LEMMA FaultMore ==
    ASSUME Types, Fail, NEW N, N \subseteq Blocks, lost' = lost \cup N
    PROVE  errors' \in Nat /\ lost' \in SUBSET Blocks /\ (lost' # {} => errors' > 0)
<1>1. errors \in Nat /\ lost \in SUBSET Blocks
  BY DEF Types
<1>2. errors' \in Nat /\ errors' > 0
  BY <1>1 DEF Fail
<1>3. QED BY <1>1, <1>2

\* While a call stores, a lost block is none of its blocks and none of a file's.
LEMMA LostApart ==
    ASSUME NEW H, NEW C, NEW lev, NEW took, At(H, C, lev, took)
    PROVE  /\ lost \subseteq Blocks
           /\ \A b \in lost : used[b] # 0 /\ b \notin C /\ \A f \in Files : b \notin H[f]
           /\ \A b \in Blocks : used[b] # 0 /\ b \notin C => b \in lost \/ \E f \in Files : b \in H[f]
<1>1. Types /\ Accounted(call, H, C, used, lost) /\ call # Idle /\ call.pc \in Fills
  BY DEF At, Sound
<1>2. call.pc \notin Freeing
  BY <1>1 DEF Fills, Freeing
<1>3. lost \subseteq Blocks
  BY <1>1 DEF Types
<1>4. QED BY <1>1, <1>2, <1>3 DEF Accounted

\* What was the call's becomes what is in D, or is lost.
Follows(H, C, D) ==
    /\ lost \subseteq lost'
    /\ \A b \in Blocks : used'[b] # 0 => b \in D \/ b \in lost' \/ (used[b] # 0 /\ b \notin C)
    /\ \A b \in lost' : used'[b] # 0 /\ b \notin D /\ \A f \in Files : b \notin H[f]

\* Nothing more is lost.
LEMMA FollowsOn ==
    ASSUME NEW H, NEW C, NEW lev, NEW took, At(H, C, lev, took), UNCHANGED lost,
           NEW D, \A b \in D : b \in C \/ used[b] = 0,
           \A b \in Blocks : used[b] # 0 /\ b \notin C => used'[b] # 0,
           \A b \in Blocks : used'[b] # 0 => b \in D \/ (used[b] # 0 /\ b \notin C)
    PROVE  Follows(H, C, D)
  BY LostApart DEF Follows

\* A block is.
LEMMA FollowsLost ==
    ASSUME NEW H, NEW C, NEW lev, NEW took, At(H, C, lev, took),
           NEW b \in Blocks, \A f \in Files : b \notin H[f], lost' = lost \cup {b},
           NEW D, D \subseteq C, b \notin D, used'[b] # 0,
           \A x \in Blocks : x # b => used'[x] = used[x],
           \A x \in C : x = b \/ x \in D
    PROVE  Follows(H, C, D)
<1>1. /\ lost \subseteq Blocks
      /\ \A x \in lost : used[x] # 0 /\ x \notin C /\ \A f \in Files : x \notin H[f]
  BY LostApart
<1>2. \A x \in Blocks : used'[x] # 0 => x \in D \/ x \in lost' \/ (used[x] # 0 /\ x \notin C)
  OBVIOUS
<1>3. \A x \in lost' : used'[x] # 0 /\ x \notin D /\ \A f \in Files : x \notin H[f]
  BY <1>1
<1>4. QED BY <1>2, <1>3 DEF Follows

LEMMA FillStep ==
    ASSUME NEW H, NEW C, NEW lev, NEW took, At(H, C, lev, took), call.pc # "name",
           NEW D, NEW lev2, NEW took2,
           call' \in Calls, call'.pc \in Fills \ {"name"},
           call'.kind = call.kind, call'.file = call.file, call'.old = call.old,
           IsBytes(bytes'), used' \in [Blocks -> Int],
           errors' \in Nat, lost' \in SUBSET Blocks, lost' # {} => errors' > 0,
           UNCHANGED <<disk, live, contents, calls>>,
           GhostOK(H, D, lev2, took2), Spared(H, bytes, bytes', used, used', lev, took, lev2, took2),
           Built(call', D, bytes', used', lev2, took2),
           Follows(H, C, D)
    PROVE  IInv'
<1>1. Types /\ Sound(H, C, lev, took) /\ call # Idle /\ call.pc \in Fills
  BY DEF At
<1>2. Types'
  BY <1>1 DEF Types
<1>3. FilesOK(H, bytes', used', lev2, took2, disk', live', contents')
  <2>1. FilesOK(H, bytes, used, lev, took, disk, live, contents) /\ live \in SUBSET Files
    BY <1>1 DEF Sound, Types
  <2>2. FilesOK(H, bytes', used', lev2, took2, disk, live, contents)
    BY <2>1, FilesKept
  <2>3. QED BY <2>2
<1>4. CallOK(call', H, D, bytes', used', lev2, took2, disk', live', errors')
  <2>1. Kinds(call, disk, live)
    BY <1>1 DEF Sound, CallOK
  <2>2. Kinds(call', disk', live')
    BY <1>1, <2>1 DEF Kinds, Fills
  <2>3. call'.pc \notin Freeing /\ call'.pc # "undo"
    BY DEF Fills, Freeing
  <2>4. QED BY <2>2, <2>3 DEF CallOK
<1>5. Accounted(call', H, D, used', lost')
  <2>1. \A b \in Blocks : used'[b] # 0 => b \in lost' \/ b \in D \/ \E f \in Files : b \in H[f]
    BY LostApart DEF Follows
  <2>2. \A b \in lost' : used'[b] # 0 /\ b \notin D /\ \A f \in Files : b \notin H[f]
    BY DEF Follows
  <2>3. call' # Idle /\ call'.pc \in Fills /\ call'.pc \notin Freeing
    BY DEF Idle, Fills, Freeing
  <2>4. QED BY <2>1, <2>2, <2>3 DEF Accounted
<1>6. Sound(H, D, lev2, took2)'
  BY <1>3, <1>4, <1>5 DEF Sound
<1>7. QED BY <1>2, <1>6 DEF IInv

LEMMA UndoStep ==
    ASSUME NEW H, NEW C, NEW lev, NEW took, At(H, C, lev, took), call.pc # "name",
           NEW D, D \subseteq C,
           call'.pc = "undo", call'.kind = call.kind, call'.file = call.file,
           call'.todo = RunsOf(call'.ino),
           call'.todo \in Seq(Runs) => call' \in Calls,
           used' \in [Blocks -> Int], \A f \in Files : \A b \in H[f] : used'[b] = used[b],
           errors' \in Nat, lost' \in SUBSET Blocks, lost' # {} => errors' > 0,
           UNCHANGED <<bytes, disk, live, contents, calls>>,
           Kept(D, call'.ino, bytes, used', lev, took),
           Follows(H, C, D)
    PROVE  IInv'
<1>1. Types /\ Sound(H, C, lev, took) /\ call # Idle /\ call.pc \in Fills /\ GhostOK(H, C, lev, took)
      /\ Built(call, C, bytes, used, lev, took)
  BY DEF At
<1>2. D \subseteq Blocks /\ Outside(D, H) /\ GhostOK(H, D, lev, took)
  BY <1>1 DEF GhostOK, Outside
<1>3. IsBytes(bytes)
  BY <1>1 DEF Types
<1>4. PICK c : c = call'
  OBVIOUS
<1>5. PICK v : v = used'
  OBVIOUS
<1>6. PICK errs : errs = errors'
  OBVIOUS
<1>7. Kept(D, c.ino, bytes, v, lev, took) /\ c.todo = RunsOf(c.ino)
  BY <1>4, <1>5
<1>8. /\ ToFree(c.todo, H, v, errs) /\ c.todo \in Seq(Runs)
      /\ \A b \in D : Names(b, c.todo)
      /\ \A b \in Blocks : Names(b, c.todo) => b \in D
  <2>1. PICK ino : ino = c.ino
    OBVIOUS
  <2>2. Kept(D, ino, bytes, v, lev, took)
    BY <1>7, <2>1
  <2>3. /\ ToFree(RunsOf(ino), H, v, errs) /\ RunsOf(ino) \in Seq(Runs)
        /\ \A b \in D : Names(b, RunsOf(ino))
        /\ \A b \in Blocks : Names(b, RunsOf(ino)) => b \in D
    BY ONLY <2>2, <1>2, <1>3, FreeAll
  <2>4. QED BY <1>7, <2>1, <2>3
<1>9. c.kind # "unlink"
  BY <1>1, <1>4 DEF Built
<1>10. Undoing(c, D, bytes, v, lev, took)
  BY <1>2, <1>3, <1>7, <1>9, UndoStarts
<1>11. Types'
  BY <1>1, <1>4, <1>8 DEF Types
<1>12. FilesOK(H, bytes', used', lev, took, disk', live', contents')
  <2>1. FilesOK(H, bytes, used, lev, took, disk, live, contents) /\ live \in SUBSET Files
    BY <1>1 DEF Sound, Types
  <2>2. Spared(H, bytes, bytes, used, v, lev, took, lev, took)
    BY <1>5 DEF Spared
  <2>3. FilesOK(H, bytes, v, lev, took, disk, live, contents)
    BY <2>1, <2>2, FilesKept
  <2>4. QED BY <2>3, <1>5
<1>13. CallOK(call', H, D, bytes', used', lev, took, disk', live', errors')
  <2>1. Kinds(call, disk, live)
    BY <1>1 DEF Sound, CallOK
  <2>2. Kinds(call', disk', live')
    BY <1>1, <2>1 DEF Kinds, Fills
  <2>3. call'.pc \in Freeing /\ call'.pc \notin Fills
    BY DEF Fills, Freeing
  <2>4. ToFree(call'.todo, H, used', errors') /\ Undoing(call', D, bytes', used', lev, took)
    BY <1>4, <1>5, <1>6, <1>8, <1>10
  <2>5. QED BY <2>2, <2>3, <2>4 DEF CallOK
<1>14. Accounted(call', H, D, used', lost')
  <2>1. \A b \in Blocks : used'[b] # 0 => b \in lost' \/ b \in D \/ \E f \in Files : b \in H[f]
    BY LostApart DEF Follows
  <2>2. \A b \in lost' : used'[b] # 0 /\ b \notin D /\ \A f \in Files : b \notin H[f]
    BY DEF Follows
  <2>3. lost' \subseteq Blocks
    OBVIOUS
  <2>4. call' # Idle /\ call'.pc = "undo" /\ call'.pc \in Freeing /\ call'.pc \notin Fills
    BY DEF Idle, Freeing, Fills
  <2>5. \A b \in Blocks : Names(b, call'.todo) <=> b \in D
    BY <1>2, <1>4, <1>8
  <2>6. \A b \in lost' : ~Names(b, call'.todo)
    BY <2>2, <2>3, <2>5
  <2>7. \A b \in Blocks : used'[b] # 0 =>
          b \in lost' \/ Names(b, call'.todo) \/ \E f \in Files : b \in H[f]
    BY <2>1, <2>5
  <2>8. QED BY <2>2, <2>4, <2>6, <2>7 DEF Accounted
<1>15. Sound(H, D, lev, took)'
  BY <1>2, <1>12, <1>13, <1>14 DEF Sound
<1>16. QED BY <1>11, <1>15 DEF IInv

-----------------------------------------------------------------------------
(* Storing: a block is taken.                                              *)
LEMMA ShareBuilt ==
    ASSUME NEW H, NEW C, NEW lev, NEW took, At(H, C, lev, took), NEW b \in C
    PROVE  /\ Share(took[b], lev[b], call.size) \in 1..FragsPerBlock
           /\ used[b] = Share(took[b], lev[b], call.size) /\ b \in Blocks
<1>1. /\ call \in Calls /\ Built(call, C, bytes, used, lev, took) /\ GhostOK(H, C, lev, took)
  BY DEF At
<1>2. call.size \in Nat /\ call.k \in Nat /\ Ceil(call.size) \in Nat
  BY <1>1, CeilIs DEF Calls
<1>3. used[b] = Share(took[b], lev[b], call.size) /\ b \in Blocks /\ call.k <= Ceil(call.size)
  BY <1>1 DEF Built, GhostOK
<1>4. CASE lev[b] # 0
  BY <1>3, <1>4, Constants DEF Share
<1>5. CASE lev[b] = 0
  <2>1. took[b] \in Nat /\ took[b] < Ceil(call.size)
    <3>1. CASE Found(b, bytes, call.ino, Reaches(call), lev, took)
      <4>1. took[b] \in 0..(Reaches(call) - 1)
        BY <1>5, <3>1 DEF Found
      <4>2. Reaches(call) = call.k \/ (Reaches(call) = call.k + 1 /\ call.k < Ceil(call.size))
        BY <1>1 DEF Reaches, Built
      <4>3. QED BY <1>2, <1>3, <4>1, <4>2
    <3>2. CASE call.pc \in Loose /\ b = call.hand
      BY <1>1, <1>2, <3>2 DEF Built
    <3>3. QED BY <1>1, <3>1, <3>2 DEF Built
  <2>2. QED BY <1>2, <1>3, <1>5, <2>1, FragsAre DEF Share
<1>6. QED BY <1>4, <1>5

\* The lowest free block is nobody's.
LEMMA Fresh ==
    ASSUME NEW H, NEW C, NEW lev, NEW took, At(H, C, lev, took), FreeBlocks # {}
    PROVE  /\ Min(FreeBlocks) \in Blocks /\ used[Min(FreeBlocks)] = 0
           /\ Min(FreeBlocks) \notin C /\ \A f \in Files : Min(FreeBlocks) \notin H[f]
<1>1. FreeBlocks \in SUBSET Nat
  BY Constants DEF FreeBlocks, Blocks
<1>2. \E x \in FreeBlocks : \A y \in FreeBlocks : x <= y
  BY <1>1, LeastNatural
<1>3. Min(FreeBlocks) \in FreeBlocks
  BY <1>2 DEF Min
<1>4. Min(FreeBlocks) \in Blocks /\ used[Min(FreeBlocks)] = 0
  BY <1>3 DEF FreeBlocks
<1>5. PICK b : b = Min(FreeBlocks)
  OBVIOUS
<1>6. b \notin C
  <2>1. SUFFICES ASSUME b \in C PROVE FALSE
    OBVIOUS
  <2>2. used[b] \in 1..FragsPerBlock
    BY <2>1, ShareBuilt
  <2>3. QED BY <1>4, <1>5, <2>2
<1>7. ASSUME NEW f \in Files PROVE b \notin H[f]
  <2>1. SUFFICES ASSUME b \in H[f] PROVE FALSE
    OBVIOUS
  <2>2. Sound(H, C, lev, took)
    BY DEF At
  <2>3. used[b] \in 1..FragsPerBlock
    BY <2>1, <2>2, FileUsed
  <2>4. QED BY <1>4, <1>5, <2>3
<1>8. QED BY <1>4, <1>5, <1>6, <1>7

With(b, l, k, H, C, lev, took, D, lev2, took2) ==
    /\ D = C \cup {b} /\ GhostOK(H, D, lev2, took2) /\ lev2[b] = l /\ took2[b] = k
    /\ \A x \in C : lev2[x] = lev[x] /\ took2[x] = took[x]
    /\ \A f \in Files : \A x \in H[f] : lev2[x] = lev[x] /\ took2[x] = took[x]

LEMMA Grows ==
    ASSUME NEW H, NEW C, NEW lev, NEW took, GhostOK(H, C, lev, took),
           NEW b \in Blocks, \A f \in Files : b \notin H[f], b \notin C, NEW l \in 0..3, NEW k \in Nat
    PROVE  \E D, lev2, took2 : With(b, l, k, H, C, lev, took, D, lev2, took2)
<1>1. /\ H \in [Files -> SUBSET Blocks] /\ C \in SUBSET Blocks
      /\ lev \in [Blocks -> 0..3] /\ took \in [Blocks -> Nat]
      /\ \A f, g \in Files : f # g => H[f] \cap H[g] = {}
      /\ \A f \in Files : H[f] \cap C = {}
  BY DEF GhostOK
<1>2. PICK D : D = C \cup {b}
  OBVIOUS
<1>3. PICK lev2 : lev2 = [x \in Blocks |-> IF x = b THEN l ELSE lev[x]]
  OBVIOUS
<1>4. PICK took2 : took2 = [x \in Blocks |-> IF x = b THEN k ELSE took[x]]
  OBVIOUS
<1>5. lev2 \in [Blocks -> 0..3] /\ took2 \in [Blocks -> Nat] /\ lev2[b] = l /\ took2[b] = k
  BY <1>1, <1>3, <1>4
<1>6. \A x \in Blocks : x # b => lev2[x] = lev[x] /\ took2[x] = took[x]
  BY <1>3, <1>4
<1>7. D \in SUBSET Blocks /\ \A f \in Files : H[f] \cap D = {}
  BY <1>1, <1>2
<1>8. GhostOK(H, D, lev2, took2)
  BY <1>1, <1>5, <1>7 DEF GhostOK
<1>9. \A x \in C : lev2[x] = lev[x] /\ took2[x] = took[x]
  BY <1>1, <1>6
<1>10. \A f \in Files : \A x \in H[f] : lev2[x] = lev[x] /\ took2[x] = took[x]
  BY <1>1, <1>6
<1>11. QED BY <1>2, <1>5, <1>8, <1>9, <1>10 DEF With

\* What was stored is still found when blocks are linked, and done.
AllDone(c, end, m) == \A k \in 0..(end - 1) : Done(k, c, m)
SameSoFar(m, n, S, lev, took, end) ==
    \A x \in S : lev[x] = 0 /\ took[x] < end => n[x].val = m[x].val
SameMarks(S, lev, took, lev2, took2) == \A x \in S : lev2[x] = lev[x] /\ took2[x] = took[x]

LEMMA FoundsWiden ==
    ASSUME NEW m, NEW n, NEW c, NEW e, NEW C, NEW lev, NEW took, NEW lev2, NEW took2,
           C \subseteq Blocks, c \in Calls, c.k <= Ceil(c.size), Fits(c.size),
           Shape(m, c.ino, C, lev, took), Wider(m, n, c.ino, e.ino, C, lev),
           SameText(c, e), AllDone(c, c.k, m), SameSoFar(m, n, C, lev, took, c.k),
           SameMarks(C, lev, took, lev2, took2)
    PROVE  /\ \A x \in C : \A end \in Nat : end <= Base[3] /\ Found(x, m, c.ino, end, lev, took)
                => Found(x, n, e.ino, end, lev2, took2)
           /\ AllDone(e, c.k, n)
<1>1. c.k \in Nat /\ c.size \in Nat /\ Ceil(c.size) \in Nat /\ Base[3] \in Nat /\ Ceil(c.size) <= Base[3]
  <2>1. c.k \in Nat /\ c.size \in Nat
    BY DEF Calls
  <2>2. QED BY <2>1, CeilIs, Bases DEF Fits
<1>2. ASSUME NEW x \in C, NEW end \in Nat, end <= Base[3], Found(x, m, c.ino, end, lev, took)
      PROVE  Found(x, n, e.ino, end, lev2, took2)
  <2>1. x # 0
    BY Constants DEF Blocks
  <2>2. lev2[x] = lev[x] /\ took2[x] = took[x]
    BY DEF SameMarks
  <2>3. QED BY <1>2, <2>1, <2>2, FoundWiden
<1>3. ASSUME NEW k \in 0..(c.k - 1) PROVE Done(k, e, n)
  <2>1. k \in 0..(Base[3] - 1) /\ Done(k, c, m)
    BY <1>1 DEF AllDone
  <2>2. SameData(m, n, C, lev, took, k)
    BY <1>1 DEF SameData, SameSoFar
  <2>3. Shape(m, c.ino, C, lev, took) /\ Wider(m, n, c.ino, e.ino, C, lev)
    OBVIOUS
  <2>4. SameText(c, e)
    OBVIOUS
  <2>5. QED BY ONLY <2>1, <2>2, <2>3, <2>4, DoneWiden
<1>4. QED BY <1>2, <1>3 DEF AllDone

\* Nothing of the image or of the inode changes.
LEMMA WiderSame ==
    ASSUME NEW m, NEW ino, NEW new, NEW S, NEW lev, new.db = ino.db, new.ib = ino.ib
    PROVE  Wider(m, m, ino, new, S, lev)
  BY DEF Wider

LEMMA RootedSame ==
    ASSUME NEW ino, NEW new, NEW S, NEW lev, NEW took, new.db = ino.db, new.ib = ino.ib,
           Rooted(ino, S, lev, took)
    PROVE  Rooted(new, S, lev, took)
  BY DEF Rooted

LEMMA RootedWiden ==
    ASSUME NEW ino, NEW S, NEW T, NEW lev, NEW took, NEW lev2, NEW took2,
           Rooted(ino, S, lev, took), S \subseteq T,
           \A x \in S : lev2[x] = lev[x] /\ took2[x] = took[x]
    PROVE  Rooted(ino, T, lev2, took2)
<1>1. ASSUME NEW k \in 0..(Direct - 1), ino.db[k] # 0
      PROVE  ino.db[k] \in T /\ lev2[ino.db[k]] = 0 /\ took2[ino.db[k]] = k
  BY <1>1 DEF Rooted
<1>2. ASSUME NEW s \in Slots, ino.ib[s] # 0
      PROVE  /\ ino.ib[s] \in T /\ lev2[ino.ib[s]] = s + 1
             /\ took2[ino.ib[s]] \in Deep /\ SlotOf[took2[ino.ib[s]]] = s
  BY <1>2 DEF Rooted
<1>3. QED BY <1>1, <1>2 DEF Rooted

\* What a step of storing finds.
Facts(H, C, lev, took) ==
    /\ IsBytes(bytes) /\ used \in [Blocks -> Int] /\ Types /\ call \in Calls
    /\ GhostOK(H, C, lev, took) /\ C \subseteq Blocks /\ \A f \in Files : H[f] \subseteq Blocks /\ H[f] \cap C = {}
    /\ Built(call, C, bytes, used, lev, took)
    /\ call.k \in Nat /\ call.size \in Nat /\ Ceil(call.size) \in Nat /\ call.k <= Ceil(call.size)
    /\ Ceil(call.size) <= Base[3] /\ Base[3] \in Nat /\ Fits(call.size)
    /\ call.kind \in {"create", "rewrite"} /\ call.ino \in Inodes
    /\ Shape(bytes, call.ino, C, lev, took)

LEMMA Given ==
    ASSUME NEW H, NEW C, NEW lev, NEW took, At(H, C, lev, took)
    PROVE  Facts(H, C, lev, took)
<1>1. /\ Types /\ call \in Calls /\ GhostOK(H, C, lev, took) /\ Built(call, C, bytes, used, lev, took)
  BY DEF At
<1>2. IsBytes(bytes) /\ used \in [Blocks -> Int]
  BY <1>1 DEF Types
<1>3. C \subseteq Blocks /\ \A f \in Files : H[f] \subseteq Blocks /\ H[f] \cap C = {}
  BY <1>1 DEF GhostOK
<1>4. call.k \in Nat /\ call.size \in Nat /\ call.ino \in Inodes
  BY <1>1 DEF Calls
<1>5. /\ call.k <= Ceil(call.size) /\ Fits(call.size) /\ call.kind \in {"create", "rewrite"}
      /\ Shape(bytes, call.ino, C, lev, took)
  BY <1>1 DEF Built
<1>6. Ceil(call.size) \in Nat /\ Ceil(call.size) <= Base[3] /\ Base[3] \in Nat
  BY <1>4, <1>5, CeilIs, Bases DEF Fits
<1>7. QED BY <1>1, <1>2, <1>3, <1>4, <1>5, <1>6 DEF Facts

\* All that is stored is found, but for a run in hand.
LEMMA StoredKept ==
    ASSUME NEW H, NEW C, NEW lev, NEW took, At(H, C, lev, took), NEW ino \in Inodes,
           ino.db = call.ino.db, ino.ib = call.ino.ib,
           NEW D, D \subseteq C, NEW v, \A b \in D : v[b] = used[b],
           Shape(bytes, ino, D, lev, took),
           call.pc \in Loose => call.hand \notin D,
           ino.size \in {call.size, Min({call.size, Reaches(call) * FragsPerBlock})}
    PROVE  Kept(D, ino, bytes, v, lev, took)
<1>G. Facts(H, C, lev, took)
  BY Given
<1> USE <1>G DEF Facts
<1>1. Reaches(call) \in Nat /\ Reaches(call) <= Ceil(call.size) /\ Reaches(call) <= Base[3]
  BY DEF Reaches, Built
<1>2. ASSUME NEW b \in D
      PROVE  Found(b, bytes, ino, Reaches(call), lev, took) /\ v[b] = Share(took[b], lev[b], call.size)
  <2>1. Found(b, bytes, call.ino, Reaches(call), lev, took) /\ used[b] = Share(took[b], lev[b], call.size)
    BY DEF Built
  <2>2. \A k : Lead(bytes, ino, k) = Lead(bytes, call.ino, k)
    BY DEF Lead, Way
  <2>3. \A k, l : Way(bytes, ino, k, l) = Way(bytes, call.ino, k, l)
    BY DEF Way
  <2>4. QED BY <2>1, <2>2, <2>3 DEF Found
<1>3. PICK n : n = Reaches(call)
  OBVIOUS
<1>4. PICK size : size = call.size
  OBVIOUS
<1>5. n \in Nat /\ n <= Ceil(size) /\ size \in Nat /\ Fits(size)
  BY <1>1, <1>3, <1>4
<1>6. ino.size \in {size, Min({size, n * FragsPerBlock})}
  BY <1>3, <1>4
<1>7. \A b \in D : Found(b, bytes, ino, n, lev, took) /\ v[b] = Share(took[b], lev[b], size)
  BY <1>2, <1>3, <1>4
<1>8. QED BY ONLY <1>5, <1>6, <1>7, ino \in Inodes, Shape(bytes, ino, D, lev, took), SoFar

LEMMA AllocRunIInv ==
    ASSUME IInv, AllocRun
    PROVE  IInv'
<1>1. call.pc = "alloc" /\ call.pc \in Fills /\ call.pc \notin Loose /\ call.k # Ceil(call.size)
  BY DEF AllocRun, Fills, NothingLeft, Loose
<1>2. PICK H, C, lev, took : At(H, C, lev, took)
  BY <1>1, Storings
<1>G. Facts(H, C, lev, took)
  BY <1>2, Given
<1> USE <1>G DEF Facts
<1>3. UNCHANGED <<bytes, disk, live, contents, calls>>
  BY DEF AllocRun
<1>4. ASSUME Undo, Fine \/ Fail, UNCHANGED <<used, lost>> PROVE IInv'
  <2>1. call' = [call EXCEPT !.pc = "undo", !.todo = RunsOf(call.ino)]
    BY <1>4 DEF Undo
  <2>2. /\ call'.pc = "undo" /\ call'.kind = call.kind /\ call'.file = call.file /\ call'.ino = call.ino
        /\ call'.todo = RunsOf(call.ino) /\ (call'.todo \in Seq(Runs) => call' \in Calls)
    BY <1>2, <2>1 DEF Calls, Freeing
  <2>3. errors' \in Nat /\ lost' \in SUBSET Blocks /\ (lost' # {} => errors' > 0)
    BY <1>2, <1>3, <1>4, Faults
  <2>4. Reaches(call) = call.k /\ call.ino.size \in {call.size, Min({call.size, Reaches(call) * FragsPerBlock})}
    BY <1>1, <1>2 DEF Built, Reaches
  <2>5. Kept(C, call.ino, bytes, used, lev, took)
    BY <1>1, <1>2, <2>4, StoredKept
  <2>6. Kept(C, call'.ino, bytes, used', lev, took) /\ used' \in [Blocks -> Int]
    BY <1>2, <1>4, <2>2, <2>5
  <2>7. Follows(H, C, C)
    BY <1>2, <1>4, FollowsOn
  <2>8. QED BY <1>1, <1>2, <1>3, <1>4, <2>2, <2>3, <2>6, <2>7, UndoStep
<1>5. ASSUME FreeBlocks # {}, Fine, used' = Taken(Min(FreeBlocks), FragsOf(call.k, call.size)), UNCHANGED lost,
             call' = [call EXCEPT !.pc = "set", !.hand = Min(FreeBlocks)]
      PROVE  IInv'
  <2>1. PICK b : b = Min(FreeBlocks)
    OBVIOUS
  <2>2. b \in Blocks /\ used[b] = 0 /\ b \notin C /\ \A f \in Files : b \notin H[f]
    BY <1>2, <1>5, <2>1, Fresh
  <2>3. PICK D, lev2, took2 :
             /\ D = C \cup {b} /\ GhostOK(H, D, lev2, took2) /\ lev2[b] = 0 /\ took2[b] = call.k
             /\ \A x \in C : lev2[x] = lev[x] /\ took2[x] = took[x]
             /\ \A f \in Files : \A x \in H[f] : lev2[x] = lev[x] /\ took2[x] = took[x]
    <3>1. call.k \in Nat /\ 0 \in 0..3
      OBVIOUS
    <3>2. PICK D, lev2, took2 : With(b, 0, call.k, H, C, lev, took, D, lev2, took2)
      BY ONLY <1>G, <2>2, <3>1, Grows
    <3>3. QED BY <3>2 DEF With
  <2>4. PICK w \in 1..FragsPerBlock : w = FragsOf(call.k, call.size)
    <3>1. call.k < Ceil(call.size)
      BY <1>1
    <3>2. QED BY <3>1, FragsAre
  <2>5. used' = [used EXCEPT ![b] = w] /\ used' \in [Blocks -> Int]
    <3>1. used' = [used EXCEPT ![b] = w]
      BY <1>5, <2>1, <2>4 DEF Taken
    <3>2. QED BY <2>2, <3>1
  <2>6. used'[b] = w /\ \A x \in Blocks : x # b => used'[x] = used[x]
    BY <1>2, <2>2, <2>5
  <2>7. /\ call'.pc = "set" /\ call'.hand = b /\ call'.kind = call.kind /\ call'.file = call.file
        /\ call'.ino = call.ino /\ call'.k = call.k /\ call'.size = call.size /\ call'.buf = call.buf
        /\ call'.old = call.old
    BY <1>2, <1>5, <2>1 DEF Calls
  <2>8. call' \in Calls /\ call'.pc \in Fills \ {"name"}
    <3>1. b \in 0..NBlocks
      BY <2>2, Constants DEF Blocks
    <3>2. QED BY <1>5, <2>1, <3>1 DEF Calls, Fills
  <2>9. b # 0
    BY <2>2, Constants DEF Blocks
  <2>10. Shape(bytes, call.ino, D, lev2, took2)
    <3>1. Rooted(call.ino, D, lev2, took2)
      BY <1>2, <2>3, RootedWiden DEF Shape
    <3>2. Closed(bytes, D, lev2, took2)
      <4>1. Closed(bytes, C, lev, took) /\ C \subseteq D
        BY <1>2, <2>3 DEF Shape
      <4>2. \A x \in C : lev2[x] = lev[x] /\ took2[x] = took[x]
        BY <2>3
      <4>3. \A x \in C : lev[x] # 0 =>
              \A i \in Index : bytes[x].ent[i] = bytes[x].ent[i] \/ IsChild(bytes[x].ent[i], x, i, D, lev2, took2)
        OBVIOUS
      <4>4. \A x \in D \ C : lev2[x] # 0 =>
              /\ took2[x] \in Deep /\ lev2[x] \in 1..3 /\ lev2[x] <= Top(took2[x])
              /\ \A i \in Index : bytes[x].ent[i] = 0
        BY <2>3
      <4>5. QED BY ONLY <4>1, <4>2, <4>3, <4>4, ClosedWiden
    <3>3. QED BY <3>1, <3>2 DEF Shape
  <2>11. /\ \A x \in C : \A end \in Nat : end <= Base[3] /\ Found(x, bytes, call.ino, end, lev, took)
              => Found(x, bytes, call'.ino, end, lev2, took2)
         /\ AllDone(call', call.k, bytes)
    <3>1. Wider(bytes, bytes, call.ino, call'.ino, C, lev)
      BY <2>7, WiderSame
    <3>2. AllDone(call, call.k, bytes)
      BY <1>2 DEF Built, AllDone
    <3>3. SameMarks(C, lev, took, lev2, took2)
      BY <2>3 DEF SameMarks
    <3>4. SameText(call, call')
      BY <2>7 DEF SameText
    <3>5. SameSoFar(bytes, bytes, C, lev, took, call.k)
      BY DEF SameSoFar
    <3>6. QED BY ONLY <1>G, <3>1, <3>2, <3>3, <3>4, <3>5, FoundsWiden
  <2>12. Unlinked(b, D, bytes, call.ino, lev2)
    <3>1. \A k \in 0..(Direct - 1) : call.ino.db[k] # b
      BY <1>2, <2>2, <2>9 DEF Shape, Rooted
    <3>2. ASSUME NEW x \in D, lev2[x] # 0, NEW i \in Index PROVE bytes[x].ent[i] # b
      <4>1. x \in C /\ lev[x] # 0
        BY <2>3, <3>2
      <4>2. bytes[x].ent[i] # 0 => IsChild(bytes[x].ent[i], x, i, C, lev, took)
        BY <1>2, <4>1 DEF Shape, Closed
      <4>3. QED BY <2>2, <2>9, <4>2 DEF IsChild
    <3>3. QED BY <3>1, <3>2 DEF Unlinked
  <2>13. ASSUME NEW x \in D
         PROVE  /\ used'[x] = Share(took2[x], lev2[x], call.size)
                /\ Found(x, bytes, call'.ino, call.k, lev2, took2) \/ x = b
    <3>1. CASE x = b
      BY <2>3, <2>4, <2>6, <3>1 DEF Share
    <3>2. CASE x \in C
      <4>1. used[x] = Share(took[x], lev[x], call.size) /\ Found(x, bytes, call.ino, call.k, lev, took)
        BY <1>1, <1>2, <3>2 DEF Built, Reaches
      <4>2. Found(x, bytes, call'.ino, call.k, lev2, took2)
        BY <1>2, <2>11, <3>2, <4>1
      <4>3. QED BY <1>2, <2>2, <2>3, <2>6, <3>2, <4>1, <4>2
    <3>3. QED BY <2>3, <3>1, <3>2
  <2>14. Built(call', D, bytes, used', lev2, took2)
    <3>1. /\ call.kind \in {"create", "rewrite"} /\ Fits(call.size) /\ Len(call.buf) = call.size
          /\ call.k <= Ceil(call.size) /\ call.ino.size \in {call.size, Min({call.size, call.k * FragsPerBlock})}
      BY <1>2 DEF Built
    <3>2. call.k < Ceil(call.size) /\ Reaches(call') = call.k
      BY <1>1, <1>2, <2>7 DEF Reaches
    <3>3. b \in D
      BY <2>3
    <3>4. QED BY <2>3, <2>7, <2>10, <2>11, <2>12, <2>13, <3>1, <3>2, <3>3 DEF Built, AllDone, Loose
  <2>15. Spared(H, bytes, bytes', used, used', lev, took, lev2, took2)
    BY <1>2, <1>3, <2>2, <2>3, <2>6 DEF Spared
  <2>16. errors' \in Nat /\ lost' \in SUBSET Blocks /\ (lost' # {} => errors' > 0)
    BY <1>2, <1>3, <1>5, Faults
  <2>17. Built(call', D, bytes', used', lev2, took2) /\ IsBytes(bytes')
    BY <1>2, <1>3, <2>14
  <2>18. Follows(H, C, D)
    <3>1. /\ UNCHANGED lost /\ \A x \in D : x \in C \/ used[x] = 0
          /\ \A x \in Blocks : used[x] # 0 /\ x \notin C => used'[x] # 0
          /\ \A x \in Blocks : used'[x] # 0 => x \in D \/ (used[x] # 0 /\ x \notin C)
      BY <1>5, <2>2, <2>3, <2>6
    <3>2. QED BY ONLY <1>2, <3>1, FollowsOn
  <2>19. GhostOK(H, D, lev2, took2)
    BY <2>3
  <2>20. call'.kind = call.kind /\ call'.file = call.file /\ call'.old = call.old /\ call.pc # "name"
    BY <1>1, <2>7
  <2>21. UNCHANGED <<disk, live, contents, calls>>
    BY <1>3
  <2>22. QED BY ONLY <1>2, <2>5, <2>8, <2>15, <2>16, <2>17, <2>18, <2>19, <2>20, <2>21, FillStep
<1>6. ASSUME TakenForNobody(Min(FreeBlocks), FragsOf(call.k, call.size)), Undo PROVE IInv'
  <2>1. PICK b : b = Min(FreeBlocks)
    OBVIOUS
  <2>2. FreeBlocks # {} /\ Fail /\ used' = Taken(b, FragsOf(call.k, call.size)) /\ lost' = lost \cup {b}
    BY <1>6, <2>1 DEF TakenForNobody
  <2>3. b \in Blocks /\ used[b] = 0 /\ b \notin C /\ \A f \in Files : b \notin H[f]
    BY <1>2, <2>1, <2>2, Fresh
  <2>4. PICK w \in 1..FragsPerBlock : w = FragsOf(call.k, call.size)
    <3>1. call.k < Ceil(call.size)
      BY <1>1
    <3>2. QED BY <3>1, FragsAre
  <2>5. /\ used' \in [Blocks -> Int] /\ used'[b] # 0
        /\ \A x \in Blocks : x # b => used'[x] = used[x]
    <3>1. used' = [used EXCEPT ![b] = w] /\ w \in Int /\ w # 0
      BY <2>2, <2>4, Constants DEF Taken
    <3>2. QED BY <2>3, <3>1
  <2>6. call' = [call EXCEPT !.pc = "undo", !.todo = RunsOf(call.ino)]
    BY <1>6 DEF Undo
  <2>7. /\ call'.pc = "undo" /\ call'.kind = call.kind /\ call'.file = call.file /\ call'.ino = call.ino
        /\ call'.todo = RunsOf(call.ino) /\ (call'.todo \in Seq(Runs) => call' \in Calls)
    BY <1>2, <2>6 DEF Calls, Freeing
  <2>8. errors' \in Nat /\ lost' \in SUBSET Blocks /\ (lost' # {} => errors' > 0)
    <3>1. {b} \subseteq Blocks
      BY <2>3
    <3>2. QED BY <2>2, <3>1, FaultMore
  <2>9. Reaches(call) = call.k /\ call.ino.size \in {call.size, Min({call.size, Reaches(call) * FragsPerBlock})}
    BY <1>1, <1>2 DEF Built, Reaches
  <2>10. \A x \in C : used'[x] = used[x]
    BY <2>3, <2>5
  <2>11. Kept(C, call.ino, bytes, used', lev, took)
    BY <1>1, <1>2, <2>9, <2>10, StoredKept
  <2>12. Kept(C, call'.ino, bytes, used', lev, took)
    BY <2>7, <2>11
  <2>13. \A f \in Files : \A x \in H[f] : used'[x] = used[x]
    BY <2>3, <2>5
  <2>14. Follows(H, C, C)
    BY <1>2, <2>2, <2>3, <2>5, FollowsLost
  <2>15. QED BY <1>1, <1>2, <1>3, <2>5, <2>7, <2>8, <2>12, <2>13, <2>14, UndoStep
<1>7. QED BY <1>4, <1>5, <1>6 DEF AllocRun

\* A step that only moves on in the call.
LEMMA QuietStep ==
    ASSUME NEW H, NEW C, NEW lev, NEW took, At(H, C, lev, took), call.pc # "name",
           call' \in Calls, call'.pc \in Fills \ {"name"},
           call'.kind = call.kind, call'.file = call.file, call'.old = call.old,
           UNCHANGED <<used, bytes, disk, live, contents, calls, lost>>, Fine \/ Fail,
           Built(call', C, bytes, used, lev, took)
    PROVE  IInv'
<1>G. Facts(H, C, lev, took)
  BY Given
<1>1. errors' \in Nat /\ lost' \in SUBSET Blocks /\ (lost' # {} => errors' > 0)
  BY <1>G, Faults DEF Facts
<1>2. IsBytes(bytes') /\ used' \in [Blocks -> Int] /\ GhostOK(H, C, lev, took)
  BY <1>G DEF Facts
<1>3. Spared(H, bytes, bytes', used, used', lev, took, lev, took)
  BY DEF Spared
<1>4. Built(call', C, bytes', used', lev, took)
  OBVIOUS
<1>5. Follows(H, C, C)
  BY FollowsOn
<1>6. /\ At(H, C, lev, took) /\ call.pc # "name" /\ call' \in Calls /\ call'.pc \in Fills \ {"name"}
      /\ call'.kind = call.kind /\ call'.file = call.file /\ call'.old = call.old
      /\ UNCHANGED <<disk, live, contents, calls>>
  OBVIOUS
<1>7. QED BY ONLY <1>1, <1>2, <1>3, <1>4, <1>5, <1>6, FillStep

\* A step that fails with a run in hand.
LEMMA PutBackStep ==
    ASSUME NEW H, NEW C, NEW lev, NEW took, At(H, C, lev, took), call.pc \in {"set", "walk"},
           UNCHANGED <<disk, live, contents, calls>>, PutBack,
           \/ Fine /\ UNCHANGED <<used, bytes, lost>>
           \/ Fail /\ UNCHANGED <<used, bytes, lost>>
           \/ TakenForNobody(Min(FreeBlocks), FragsPerBlock) /\ UNCHANGED bytes
    PROVE  IInv'
<1>G. Facts(H, C, lev, took)
  BY Given
<1> USE <1>G DEF Facts
<1>1. call' = [call EXCEPT !.pc = "putback"]
  BY DEF PutBack
<1>2. /\ call'.pc = "putback" /\ call'.hand = call.hand /\ call'.kind = call.kind /\ call'.file = call.file
      /\ call'.ino = call.ino /\ call'.k = call.k /\ call'.size = call.size /\ call'.buf = call.buf
      /\ call'.old = call.old
  BY <1>1 DEF Calls
<1>3. call' \in Calls /\ call'.pc \in Fills \ {"name"}
  BY <1>1 DEF Calls, Fills
<1>4. call.pc \in Loose /\ call'.pc \in Loose /\ Reaches(call') = call.k /\ Reaches(call) = call.k
  BY <1>2 DEF Loose, Reaches
<1>5. \A k : Done(k, call, bytes) => Done(k, call', bytes)
  BY <1>2 DEF Done, Piece
<1>6. ASSUME NEW v, \A b \in C : v[b] = used[b] PROVE Built(call', C, bytes, v, lev, took)
  <2>1. /\ call.kind \in {"create", "rewrite"} /\ Fits(call.size) /\ Len(call.buf) = call.size
        /\ call.k <= Ceil(call.size) /\ call.ino.size \in {call.size, Min({call.size, call.k * FragsPerBlock})}
        /\ Shape(bytes, call.ino, C, lev, took)
        /\ \A k \in 0..(call.k - 1) : Done(k, call, bytes)
        /\ call.k < Ceil(call.size) /\ call.hand \in C /\ lev[call.hand] = 0 /\ took[call.hand] = call.k
        /\ Unlinked(call.hand, C, bytes, call.ino, lev)
    BY <1>4 DEF Built
  <2>2. \A b \in C : /\ v[b] = Share(took[b], lev[b], call.size)
                     /\ Found(b, bytes, call.ino, call.k, lev, took) \/ b = call.hand
    BY <1>4, <1>6 DEF Built
  <2>3. QED BY <1>2, <1>4, <1>5, <2>1, <2>2 DEF Built
<1>7. CASE UNCHANGED <<used, bytes, lost>> /\ (Fine \/ Fail)
  <2>1. Built(call', C, bytes, used, lev, took)
    BY <1>6
  <2>2. QED BY <1>2, <1>3, <1>7, <2>1, QuietStep
<1>8. CASE TakenForNobody(Min(FreeBlocks), FragsPerBlock) /\ UNCHANGED bytes
  <2>1. PICK b : b = Min(FreeBlocks)
    OBVIOUS
  <2>2. /\ FreeBlocks # {} /\ Fail /\ used' = [used EXCEPT ![b] = FragsPerBlock]
        /\ lost' = lost \cup {b} /\ bytes' = bytes
    BY <1>8, <2>1 DEF TakenForNobody, Taken
  <2>3. b \in Blocks /\ used[b] = 0 /\ b \notin C /\ \A f \in Files : b \notin H[f]
    BY <2>1, <2>2, Fresh
  <2>4. used' \in [Blocks -> Int] /\ used'[b] # 0 /\ \A x \in Blocks : x # b => used'[x] = used[x]
    BY <2>2, <2>3, Constants
  <2>5. errors' \in Nat /\ lost' \in SUBSET Blocks /\ (lost' # {} => errors' > 0)
    <3>1. {b} \subseteq Blocks
      BY <2>3
    <3>2. QED BY <2>2, <3>1, FaultMore
  <2>6. Spared(H, bytes, bytes', used, used', lev, took, lev, took)
    BY <2>2, <2>3, <2>4 DEF Spared
  <2>7. Built(call', C, bytes', used', lev, took)
    BY <1>6, <2>2, <2>3, <2>4
  <2>8. Follows(H, C, C)
    BY <2>2, <2>3, <2>4, FollowsLost
  <2>9. IsBytes(bytes') /\ GhostOK(H, C, lev, took) /\ call.pc # "name"
    BY <2>2
  <2>10. QED BY <1>2, <1>3, <2>4, <2>5, <2>6, <2>7, <2>8, <2>9, FillStep
<1>9. QED BY <1>7, <1>8

LEMMA GiveBackIInv ==
    ASSUME IInv, GiveBack
    PROVE  IInv'
<1>1. call.pc = "putback" /\ call.pc \in Fills /\ call.pc \in Loose /\ Undo
      /\ UNCHANGED <<bytes, disk, live, contents, calls>>
  BY DEF GiveBack, Fills, Loose
<1>2. PICK H, C, lev, took : At(H, C, lev, took)
  BY <1>1, Storings
<1>G. Facts(H, C, lev, took)
  BY <1>2, Given
<1> USE <1>G DEF Facts
<1>3. call' = [call EXCEPT !.pc = "undo", !.todo = RunsOf(call.ino)]
  BY <1>1 DEF Undo
<1>4. /\ call'.pc = "undo" /\ call'.kind = call.kind /\ call'.file = call.file /\ call'.ino = call.ino
      /\ call'.todo = RunsOf(call.ino) /\ (call'.todo \in Seq(Runs) => call' \in Calls)
  BY <1>3 DEF Calls, Freeing
<1>5. PICK h : h = call.hand
  OBVIOUS
<1>6. /\ h \in C /\ lev[h] = 0 /\ took[h] = call.k /\ Unlinked(h, C, bytes, call.ino, lev)
      /\ used[h] = FragsOf(call.k, call.size)
      /\ Reaches(call) = call.k /\ call.ino.size \in {call.size, Min({call.size, Reaches(call) * FragsPerBlock})}
  BY <1>1, <1>5 DEF Built, Share, Reaches
<1>7. PICK D : D = C \ {h}
  OBVIOUS
<1>8. Shape(bytes, call.ino, D, lev, took)
  <2>1. Rooted(call.ino, D, lev, took)
    <3>1. ASSUME NEW k \in 0..(Direct - 1), call.ino.db[k] # 0
          PROVE  call.ino.db[k] \in D /\ lev[call.ino.db[k]] = 0 /\ took[call.ino.db[k]] = k
      BY <1>6, <1>7, <3>1 DEF Shape, Rooted, Unlinked
    <3>2. ASSUME NEW s \in Slots, call.ino.ib[s] # 0
          PROVE  /\ call.ino.ib[s] \in D /\ lev[call.ino.ib[s]] = s + 1
                 /\ took[call.ino.ib[s]] \in Deep /\ SlotOf[took[call.ino.ib[s]]] = s
      <4>1. /\ call.ino.ib[s] \in C /\ lev[call.ino.ib[s]] = s + 1
            /\ took[call.ino.ib[s]] \in Deep /\ SlotOf[took[call.ino.ib[s]]] = s
        BY <3>2 DEF Shape, Rooted
      <4>2. s + 1 # 0
        BY DEF Slots
      <4>3. QED BY <1>6, <1>7, <4>1, <4>2
    <3>3. QED BY <3>1, <3>2 DEF Rooted
  <2>2. Closed(bytes, D, lev, took)
    <3>1. SUFFICES ASSUME NEW b \in D, lev[b] # 0
                   PROVE  /\ took[b] \in Deep /\ lev[b] \in 1..3 /\ lev[b] <= Top(took[b])
                          /\ \A i \in Index : bytes[b].ent[i] # 0
                               => IsChild(bytes[b].ent[i], b, i, D, lev, took)
      BY DEF Closed
    <3>2. /\ took[b] \in Deep /\ lev[b] \in 1..3 /\ lev[b] <= Top(took[b])
          /\ \A i \in Index : bytes[b].ent[i] # 0 => IsChild(bytes[b].ent[i], b, i, C, lev, took)
      BY <1>7, <3>1 DEF Shape, Closed
    <3>3. \A i \in Index : bytes[b].ent[i] # h
      BY <1>6, <1>7, <3>1 DEF Unlinked
    <3>4. QED BY <1>7, <3>2, <3>3 DEF IsChild
  <2>3. QED BY <2>1, <2>2 DEF Shape
<1>9. ASSUME NEW v, \A b \in D : v[b] = used[b] PROVE Kept(D, call'.ino, bytes, v, lev, took)
  <2>1. Kept(D, call.ino, bytes, v, lev, took)
    <3>1. D \subseteq C /\ call.hand \notin D
      BY <1>5, <1>7
    <3>2. QED BY <1>2, <1>6, <1>8, <1>9, <3>1, StoredKept
  <2>2. QED BY <1>4, <2>1
<1>10. /\ D \subseteq C /\ h \in Blocks /\ \A f \in Files : h \notin H[f]
  BY <1>6, <1>7
<1>11. CASE (Fine \/ Fail) /\ used' = Freed(call.hand, FragsOf(call.k, call.size)) /\ UNCHANGED lost
  <2>1. used' = [used EXCEPT ![h] = 0]
    <3>1. PICK w \in Int : w = used[h]
      BY <1>10
    <3>2. used' = [used EXCEPT ![h] = w - w]
      BY <1>5, <1>6, <1>11, <3>1 DEF Freed
    <3>3. w - w = 0
      OBVIOUS
    <3>4. QED BY <3>2, <3>3
  <2>2. used' \in [Blocks -> Int] /\ used'[h] = 0 /\ \A x \in Blocks : x # h => used'[x] = used[x]
    BY <1>10, <2>1
  <2>3. errors' \in Nat /\ lost' \in SUBSET Blocks /\ (lost' # {} => errors' > 0)
    BY <1>11, Faults
  <2>4. Kept(D, call'.ino, bytes, used', lev, took)
    BY <1>7, <1>9, <1>10, <2>2
  <2>5. \A f \in Files : \A b \in H[f] : used'[b] = used[b]
    BY <1>10, <2>2
  <2>6. Follows(H, C, D)
    <3>1. /\ UNCHANGED lost /\ \A x \in D : x \in C \/ used[x] = 0
          /\ \A x \in Blocks : used[x] # 0 /\ x \notin C => used'[x] # 0
          /\ \A x \in Blocks : used'[x] # 0 => x \in D \/ (used[x] # 0 /\ x \notin C)
      BY <1>6, <1>7, <1>11, <2>2
    <3>2. QED BY ONLY <1>2, <3>1, FollowsOn
  <2>7. QED BY <1>1, <1>2, <1>4, <1>10, <2>2, <2>3, <2>4, <2>5, <2>6, UndoStep
<1>12. CASE Fail /\ lost' = lost \cup {call.hand} /\ UNCHANGED used
  <2>1. errors' \in Nat /\ lost' \in SUBSET Blocks /\ (lost' # {} => errors' > 0)
    <3>1. {call.hand} \subseteq Blocks
      BY <1>5, <1>10
    <3>2. QED BY <1>12, <3>1, FaultMore
  <2>2. Kept(D, call'.ino, bytes, used', lev, took) /\ used' \in [Blocks -> Int]
    BY <1>9, <1>12
  <2>3. Follows(H, C, D)
    <3>1. used[h] # 0
      BY <1>2, <1>6, <1>10, ShareBuilt
    <3>2. h \notin D /\ lost' = lost \cup {h} /\ used' = used /\ \A x \in C : x = h \/ x \in D
      BY <1>5, <1>7, <1>12
    <3>3. QED BY <1>2, <1>10, <3>1, <3>2, FollowsLost
  <2>4. \A f \in Files : \A b \in H[f] : used'[b] = used[b]
    BY <1>12
  <2>5. QED BY <1>1, <1>2, <1>4, <1>10, <2>1, <2>2, <2>3, <2>4, UndoStep
<1>13. QED BY <1>11, <1>12 DEF GiveBack

-----------------------------------------------------------------------------
(* Storing: the block is linked.                                           *)

\* Nothing stored so far, nor the run in hand, is the block of k.
LEMMA NotYet ==
    ASSUME NEW H, NEW C, NEW lev, NEW took, At(H, C, lev, took), call.pc \in Loose,
           NEW x \in C, lev[x] = 0, took[x] = call.k
    PROVE  x = call.hand
<1>G. Facts(H, C, lev, took)
  BY Given
<1>1. Found(x, bytes, call.ino, Reaches(call), lev, took) \/ x = call.hand
  BY <1>G DEF Facts, Built
<1>2. Reaches(call) = call.k /\ call.k \in Nat
  BY <1>G DEF Facts, Reaches, Loose
<1>3. QED BY <1>1, <1>2 DEF Found

LEMMA SetDirectIInv ==
    ASSUME IInv, SetDirect
    PROVE  IInv'
<1>1. /\ call.pc = "set" /\ call.pc \in Fills /\ call.pc \in Loose /\ call.k < Direct
      /\ UNCHANGED <<used, bytes, disk, live, contents, calls, errors, lost>>
      /\ call' = [call EXCEPT !.pc = "fill", !.ino.db[call.k] = call.hand]
  BY DEF SetDirect, Fills, Loose
<1>2. PICK H, C, lev, took : At(H, C, lev, took)
  BY <1>1, Storings
<1>G. Facts(H, C, lev, took)
  BY <1>2, Given
<1> USE <1>G DEF Facts
<1>3. PICK h : h = call.hand
  OBVIOUS
<1>4. PICK k \in 0..(Direct - 1) : k = call.k
  BY <1>1, Constants
<1>5. /\ h \in C /\ lev[h] = 0 /\ took[h] = k /\ Unlinked(h, C, bytes, call.ino, lev)
      /\ k < Ceil(call.size) /\ h \in 0..NBlocks /\ h # 0
  BY <1>1, <1>3, <1>4, Constants DEF Built, Calls, Blocks
<1>6. PICK new : new = [call.ino EXCEPT !.db[k] = h]
  OBVIOUS
<1>7. /\ new \in Inodes /\ new.ib = call.ino.ib /\ new.size = call.ino.size /\ new.db[k] = h
      /\ \A i \in 0..(Direct - 1) : i # k => new.db[i] = call.ino.db[i]
  BY <1>5, <1>6 DEF Inodes
<1>8. call' = [call EXCEPT !.pc = "fill", !.ino = new]
  BY <1>1, <1>3, <1>4, <1>6
<1>9. /\ call'.pc = "fill" /\ call'.hand = h /\ call'.kind = call.kind /\ call'.file = call.file
      /\ call'.ino = new /\ call'.k = call.k /\ call'.size = call.size /\ call'.buf = call.buf
      /\ call'.old = call.old
  BY <1>3, <1>8 DEF Calls
<1>10. call' \in Calls /\ call'.pc \in Fills \ {"name"}
  BY <1>7, <1>8 DEF Calls, Fills
<1>11. call.ino.db[k] = 0
  <2>1. SUFFICES ASSUME call.ino.db[k] # 0 PROVE FALSE
    OBVIOUS
  <2>2. call.ino.db[k] \in C /\ lev[call.ino.db[k]] = 0 /\ took[call.ino.db[k]] = k
    BY <2>1 DEF Shape, Rooted
  <2>3. call.ino.db[k] = h
    BY <1>1, <1>2, <1>3, <1>4, <2>2, NotYet
  <2>4. QED BY <1>5, <2>3 DEF Unlinked
<1>12. Wider(bytes, bytes, call.ino, new, C, lev)
  BY <1>7, <1>11 DEF Wider
<1>13. Shape(bytes, new, C, lev, took)
  BY <1>5, <1>7 DEF Shape, Rooted
<1>14. /\ \A x \in C : \A end \in Nat : end <= Base[3] /\ Found(x, bytes, call.ino, end, lev, took)
            => Found(x, bytes, call'.ino, end, lev, took)
       /\ AllDone(call', call.k, bytes)
  <2>1. Wider(bytes, bytes, call.ino, call'.ino, C, lev)
    BY <1>9, <1>12
  <2>2. AllDone(call, call.k, bytes)
    BY DEF Built, AllDone
  <2>3. SameMarks(C, lev, took, lev, took)
    BY DEF SameMarks
  <2>4. SameText(call, call')
    BY <1>9 DEF SameText
  <2>5. SameSoFar(bytes, bytes, C, lev, took, call.k)
    BY DEF SameSoFar
  <2>6. QED BY ONLY <1>G, <2>1, <2>2, <2>3, <2>4, <2>5, FoundsWiden
<1>15. Reaches(call') = call.k + 1 /\ Reaches(call) = call.k /\ Lead(bytes, new, k) = h
  BY <1>1, <1>4, <1>7, <1>9 DEF Reaches, Lead
<1>16. ASSUME NEW x \in C
       PROVE  /\ used[x] = Share(took[x], lev[x], call.size)
              /\ Found(x, bytes, new, call.k + 1, lev, took)
  <2>1. /\ used[x] = Share(took[x], lev[x], call.size)
        /\ Found(x, bytes, call.ino, call.k, lev, took) \/ x = h
    BY <1>3, <1>15 DEF Built
  <2>2. CASE x = h
    BY <1>4, <1>5, <1>15, <2>1, <2>2 DEF Found
  <2>3. CASE Found(x, bytes, call.ino, call.k, lev, took)
    <3>1. call.k <= Base[3]
      OBVIOUS
    <3>2. Found(x, bytes, new, call.k, lev, took)
      BY <1>9, <1>14, <2>3, <3>1
    <3>3. QED BY <2>1, <3>2 DEF Found
  <2>4. QED BY <2>1, <2>2, <2>3
<1>17. Built(call', C, bytes, used, lev, took)
  <2>1. /\ Len(call.buf) = call.size
        /\ call.ino.size \in {call.size, Min({call.size, call.k * FragsPerBlock})}
    BY DEF Built
  <2>2. call'.ino.size = call.ino.size
    BY <1>7, <1>9
  <2>3. "fill" \notin Loose
    BY DEF Loose
  <2>4. QED BY <1>4, <1>5, <1>9, <1>13, <1>14, <1>15, <1>16, <2>1, <2>2, <2>3 DEF Built, AllDone
<1>18. QED BY <1>1, <1>2, <1>9, <1>10, <1>17, QuietStep DEF Fine

\* The walk: a call that only moves to another block of the way.
Walks(c, at, level) ==
    /\ call.pc \in {"set", "walk"} /\ call.k >= Direct
    /\ c = [call EXCEPT !.pc = "walk", !.at = at, !.level = level]
    /\ level \in 1..Top(call.k) /\ at # 0 /\ at = Way(bytes, call.ino, call.k, level)

LEMMA WalkBuilt ==
    ASSUME NEW H, NEW C, NEW lev, NEW took, At(H, C, lev, took),
           NEW c, NEW at, NEW level, Walks(c, at, level)
    PROVE  /\ Built(c, C, bytes, used, lev, took) /\ c \in Calls /\ c.pc \in Fills \ {"name"}
           /\ c.kind = call.kind /\ c.file = call.file /\ c.old = call.old
<1>G. Facts(H, C, lev, took)
  BY Given
<1> USE <1>G DEF Facts, Walks
<1>1. call.pc \in Loose /\ "walk" \in Loose /\ Reaches(call) = call.k
  BY DEF Loose, Reaches
<1>2. /\ c.pc = "walk" /\ c.hand = call.hand /\ c.kind = call.kind /\ c.file = call.file
      /\ c.ino = call.ino /\ c.k = call.k /\ c.size = call.size /\ c.buf = call.buf
      /\ c.old = call.old /\ c.at = at /\ c.level = level
  BY DEF Calls
<1>3. call.k < Ceil(call.size) /\ call.k \in Deep
  BY <1>1, Constants DEF Built, Deep
<1>4. level \in 0..3 /\ level <= Top(call.k)
  BY <1>3, Slot
<1>5. Placed(at, call.k, level, C, lev, took)
  BY <1>3, <1>4, WayIn
<1>6. at \in 0..NBlocks
  BY <1>5, Constants DEF Placed, Blocks
<1>7. c \in Calls
  BY <1>4, <1>6 DEF Calls, Fills
<1>8. \A k : Done(k, call, bytes) => Done(k, c, bytes)
  BY <1>2 DEF Done, Piece
<1>9. /\ Len(call.buf) = call.size
      /\ call.ino.size \in {call.size, Min({call.size, call.k * FragsPerBlock})}
      /\ \A k \in 0..(call.k - 1) : Done(k, call, bytes)
      /\ call.hand \in C /\ lev[call.hand] = 0 /\ took[call.hand] = call.k
      /\ Unlinked(call.hand, C, bytes, call.ino, lev)
      /\ \A b \in C : /\ used[b] = Share(took[b], lev[b], call.size)
                      /\ Found(b, bytes, call.ino, call.k, lev, took) \/ b = call.hand
  BY <1>1 DEF Built
<1>10. Reaches(c) = call.k
  BY <1>2 DEF Reaches
<1>11. Built(c, C, bytes, used, lev, took)
  BY <1>1, <1>2, <1>3, <1>8, <1>9, <1>10 DEF Built
<1>12. QED BY <1>2, <1>7, <1>11 DEF Fills

LEMMA SetRootIInv ==
    ASSUME IInv, SetRoot
    PROVE  IInv'
<1>1. /\ call.pc = "set" /\ call.pc \in Fills /\ call.pc \in {"set", "walk"} /\ call.k >= Direct
      /\ UNCHANGED <<used, bytes, disk, live, contents, calls, errors, lost>>
      /\ call.ino.ib[SlotOf[call.k]] # 0
      /\ call' = [call EXCEPT !.pc = "walk", !.at = call.ino.ib[SlotOf[call.k]], !.level = SlotOf[call.k] + 1]
  BY DEF SetRoot, Fills
<1>2. PICK H, C, lev, took : At(H, C, lev, took)
  BY <1>1, Storings
<1>G. Facts(H, C, lev, took)
  BY <1>2, Given
<1>3. call.k \in Deep
  BY <1>1, <1>G, Constants DEF Facts, Built, Loose, Deep
<1>4. PICK at : at = call.ino.ib[SlotOf[call.k]]
  OBVIOUS
<1>5. PICK level : level = SlotOf[call.k] + 1
  OBVIOUS
<1>6. level = Top(call.k) /\ level \in 1..Top(call.k) /\ at # 0 /\ at = Way(bytes, call.ino, call.k, level)
  BY <1>1, <1>3, <1>4, <1>5, Slot, WayDown DEF Top
<1>7. call' = [call EXCEPT !.pc = "walk", !.at = at, !.level = level]
  BY <1>1, <1>4, <1>5
<1>8. /\ Built(call', C, bytes, used, lev, took) /\ call' \in Calls /\ call'.pc \in Fills \ {"name"}
      /\ call'.kind = call.kind /\ call'.file = call.file /\ call'.old = call.old
  <2>1. PICK c : c = call'
    OBVIOUS
  <2>2. At(H, C, lev, took) /\ Walks(c, at, level)
    BY <1>1, <1>2, <1>6, <1>7, <2>1 DEF Walks
  <2>3. /\ Built(c, C, bytes, used, lev, took) /\ c \in Calls /\ c.pc \in Fills \ {"name"}
        /\ c.kind = call.kind /\ c.file = call.file /\ c.old = call.old
    BY ONLY <2>2, WalkBuilt
  <2>4. QED BY <2>1, <2>3
<1>9. call.pc # "name" /\ UNCHANGED <<used, bytes, disk, live, contents, calls, lost>> /\ (Fine \/ Fail)
  BY <1>1 DEF Fine
<1>10. QED BY <1>2, <1>8, <1>9, QuietStep

\* Where the walk is.
LEMMA Walking ==
    ASSUME NEW H, NEW C, NEW lev, NEW took, At(H, C, lev, took), call.pc = "walk"
    PROVE  /\ call.k >= Direct /\ call.k \in Deep /\ call.level \in 1..Top(call.k) /\ call.level \in 1..3
           /\ call.at \in C /\ call.at # 0 /\ lev[call.at] = call.level
           /\ took[call.at] \in Deep /\ Same(took[call.at], call.k, call.level)
           /\ call.at = Way(bytes, call.ino, call.k, call.level)
           /\ Here = Entry(call.k, call.level) /\ Here \in Index
           /\ Way(bytes, call.ino, call.k, call.level - 1) = Child
<1>G. Facts(H, C, lev, took)
  BY Given
<1> USE <1>G DEF Facts
<1>1. /\ call.k >= Direct /\ call.level \in 1..Top(call.k) /\ call.at # 0
      /\ call.at = Way(bytes, call.ino, call.k, call.level) /\ call.k < Ceil(call.size)
  BY DEF Built, Loose
<1>2. call.k \in Deep
  BY <1>1, Constants DEF Deep
<1>3. Top(call.k) \in 1..3
  BY <1>2, Slot
<1>4. PICK l \in 1..3 : l = call.level /\ l <= Top(call.k)
  BY <1>1, <1>3
<1>5. Placed(call.at, call.k, l, C, lev, took)
  BY <1>1, <1>2, <1>4, WayIn
<1>6. Here = Entry(call.k, call.level) /\ Here \in Index
  <2>1. Entry(call.k, l) \in Index
    BY <1>2, EntryIn
  <2>2. QED BY <1>4, <2>1 DEF Here, Entry
<1>7. Way(bytes, call.ino, call.k, call.level - 1) = Child
  <2>1. l - 1 \in 0..3 /\ l - 1 < Top(call.k) /\ (l - 1) + 1 = l
    BY <1>3, <1>4
  <2>2. Way(bytes, call.ino, call.k, l - 1) = Follow(bytes, Way(bytes, call.ino, call.k, (l - 1) + 1), Entry(call.k, (l - 1) + 1))
    BY <1>2, <2>1, WayDown
  <2>3. Way(bytes, call.ino, call.k, l - 1) = Follow(bytes, call.at, Here)
    BY <1>1, <1>4, <1>6, <2>1, <2>2
  <2>4. QED BY <1>1, <1>4, <2>3 DEF Follow, Child
<1>8. QED BY <1>1, <1>2, <1>4, <1>5, <1>6, <1>7 DEF Placed

LEMMA DescendIInv ==
    ASSUME IInv, Descend
    PROVE  IInv'
<1>1. /\ call.pc = "walk" /\ call.pc \in Fills /\ call.pc \in {"set", "walk"} /\ call.level > 1 /\ Child # 0
      /\ UNCHANGED <<used, bytes, disk, live, contents, calls, lost>>
  BY DEF Descend, Fills
<1>2. PICK H, C, lev, took : At(H, C, lev, took)
  BY <1>1, Storings
<1>3. CASE Fail /\ PutBack
  BY <1>1, <1>2, <1>3, PutBackStep
<1>4. CASE Fine /\ call' = [call EXCEPT !.at = Child, !.level = @ - 1]
  <2>1. call \in Calls
    BY <1>2 DEF At
  <2>2. PICK at, level : at = Child /\ level = call.level - 1
    OBVIOUS
  <2>3. call' = [call EXCEPT !.pc = "walk", !.at = at, !.level = level]
    BY <1>1, <1>4, <2>1, <2>2 DEF Calls
  <2>4. /\ call.k >= Direct /\ level \in 1..Top(call.k) /\ at # 0
        /\ at = Way(bytes, call.ino, call.k, level)
    <3>1. /\ call.k >= Direct /\ call.level \in 1..Top(call.k) /\ call.level \in 1..3 /\ call.k \in Deep
          /\ Way(bytes, call.ino, call.k, call.level - 1) = Child
      BY <1>1, <1>2, Walking
    <3>2. QED BY <1>1, <2>2, <3>1, Slot
  <2>5. /\ Built(call', C, bytes, used, lev, took) /\ call' \in Calls /\ call'.pc \in Fills \ {"name"}
        /\ call'.kind = call.kind /\ call'.file = call.file /\ call'.old = call.old
    <3>1. PICK c : c = call'
      OBVIOUS
    <3>2. At(H, C, lev, took) /\ Walks(c, at, level)
      BY <1>1, <1>2, <2>3, <2>4, <3>1 DEF Walks
    <3>3. /\ Built(c, C, bytes, used, lev, took) /\ c \in Calls /\ c.pc \in Fills \ {"name"}
          /\ c.kind = call.kind /\ c.file = call.file /\ c.old = call.old
      BY ONLY <3>2, WalkBuilt
    <3>4. QED BY <3>1, <3>3
  <2>6. QED BY <1>1, <1>2, <1>4, <2>5, QuietStep
<1>5. QED BY <1>3, <1>4 DEF Descend

LEMMA StoredIInv ==
    ASSUME IInv, Stored
    PROVE  IInv'
<1>1. /\ call.pc = "alloc" /\ call.pc \in Fills /\ call.k = Ceil(call.size)
      /\ UNCHANGED <<used, bytes, disk, live, contents, calls, errors, lost>>
      /\ call' = [call EXCEPT !.pc = "inode", !.ino.size = call.size, !.ino.blocks = call.frags]
  BY DEF Stored, NothingLeft, Fills
<1>2. PICK H, C, lev, took : At(H, C, lev, took)
  BY <1>1, Storings
<1>G. Facts(H, C, lev, took)
  BY <1>2, Given
<1> USE <1>G DEF Facts
<1>3. PICK new : new = [call.ino EXCEPT !.size = call.size, !.blocks = call.frags]
  OBVIOUS
<1>4. new \in Inodes /\ new.db = call.ino.db /\ new.ib = call.ino.ib /\ new.size = call.size
  BY <1>3 DEF Inodes, Calls
<1>5. call' = [call EXCEPT !.pc = "inode", !.ino = new]
  BY <1>1, <1>3 DEF Calls, Inodes
<1>6. /\ call'.pc = "inode" /\ call'.kind = call.kind /\ call'.file = call.file
      /\ call'.ino = new /\ call'.k = call.k /\ call'.size = call.size /\ call'.buf = call.buf
      /\ call'.old = call.old
  BY <1>5 DEF Calls
<1>7. call' \in Calls /\ call'.pc \in Fills \ {"name"}
  BY <1>4, <1>5 DEF Calls, Fills
<1>8. \A k, l : Way(bytes, new, k, l) = Way(bytes, call.ino, k, l)
  BY <1>4 DEF Way
<1>9. \A k : Lead(bytes, new, k) = Lead(bytes, call.ino, k)
  BY <1>4, <1>8 DEF Lead
<1>10. \A k \in 0..(call.k - 1) : Done(k, call', bytes)
  BY <1>6, <1>9 DEF Done, Piece, Built
<1>11. Shape(bytes, new, C, lev, took)
  BY <1>4 DEF Shape, Rooted
<1>12. Reaches(call) = call.k /\ Reaches(call') = call.k /\ "inode" \notin Loose /\ "alloc" \notin Loose
  BY <1>1, <1>6 DEF Reaches, Loose
<1>13. \A b \in C : used[b] = Share(took[b], lev[b], call.size) /\ Found(b, bytes, new, call.k, lev, took)
  BY <1>1, <1>8, <1>9, <1>12 DEF Built, Found
<1>14. Built(call', C, bytes, used, lev, took)
  <2>1. Len(call.buf) = call.size
    BY DEF Built
  <2>2. QED BY <1>1, <1>4, <1>6, <1>10, <1>11, <1>12, <1>13, <2>1 DEF Built
<1>15. QED BY <1>1, <1>2, <1>6, <1>7, <1>14, QuietStep DEF Fine

-----------------------------------------------------------------------------
(* Storing: a block of a tree is taken and linked.                         *)
LEMMA ZeroedIs ==
    ASSUME IsBytes(bytes), NEW b \in Blocks
    PROVE  /\ IsBytes(Zeroed(b)) /\ \A x \in Blocks : x # b => Zeroed(b)[x] = bytes[x]
           /\ \A i \in Index : Zeroed(b)[b].ent[i] = 0
<1>1. PICK z : z = [val |-> Zeros, ent |-> NoEntries]
  OBVIOUS
<1>2. z \in [val : [0..(FragsPerBlock - 1) -> Int], ent : [Index -> 0..NBlocks]]
      /\ \A i \in Index : z.ent[i] = 0
  BY <1>1, Constants DEF Zeros, NoEntries
<1>3. Zeroed(b) = [bytes EXCEPT ![b] = z]
  BY <1>1 DEF Zeroed
<1>4. QED BY <1>2, <1>3 DEF IsBytes

LEMMA SameBack ==
    ASSUME NEW j, NEW k, NEW l, Same(j, k, l)
    PROVE  Same(k, j, l)
  BY DEF Same, Top

\* The call c after a block was taken for level l of the way.
LinkedTo(b, l, c, n, v, C, lev) ==
    /\ c.pc \in {"set", "walk"} /\ c.kind = call.kind /\ c.k = call.k
    /\ c.size = call.size /\ c.buf = call.buf /\ c.hand = call.hand /\ c.ino.size = call.ino.size
    /\ Wider(bytes, n, call.ino, c.ino, C, lev)
    /\ \A x \in C : lev[x] = 0 => n[x].val = bytes[x].val
    /\ Way(n, c.ino, call.k, l) = b /\ v[b] = FragsPerBlock /\ \A x \in C : v[x] = used[x]
    /\ c.pc = "walk" => /\ c.k >= Direct /\ c.level \in 1..Top(c.k)
                        /\ c.at # 0 /\ c.at = Way(n, c.ino, c.k, c.level)

LEMMA LinkBuilt ==
    ASSUME NEW H, NEW C, NEW lev, NEW took, At(H, C, lev, took), call.pc \in {"set", "walk"},
           NEW b \in Blocks, NEW l \in 1..3, call.k \in Deep, l <= Top(call.k),
           NEW D, NEW lev2, NEW took2, With(b, l, call.k, H, C, lev, took, D, lev2, took2),
           NEW c, NEW n, NEW v, LinkedTo(b, l, c, n, v, C, lev),
           Shape(n, c.ino, D, lev2, took2), Unlinked(c.hand, D, n, c.ino, lev2)
    PROVE  Built(c, D, n, v, lev2, took2)
<1>G. Facts(H, C, lev, took)
  BY Given
<1> USE <1>G DEF Facts
<1>1. call.pc \in Loose /\ c.pc \in Loose /\ Reaches(call) = call.k /\ Reaches(c) = call.k
      /\ c.pc # "fill" /\ c.pc \notin {"inode", "name"}
  BY DEF Loose, Reaches, LinkedTo
<1>2. /\ D = C \cup {b} /\ lev2[b] = l /\ took2[b] = call.k
      /\ \A x \in C : lev2[x] = lev[x] /\ took2[x] = took[x]
  BY DEF With
<1>3. /\ c.kind = call.kind /\ c.k = call.k /\ c.size = call.size /\ c.buf = call.buf
      /\ c.hand = call.hand /\ c.ino.size = call.ino.size
      /\ Way(n, c.ino, call.k, l) = b /\ v[b] = FragsPerBlock /\ \A x \in C : v[x] = used[x]
      /\ c.pc = "walk" => /\ c.k >= Direct /\ c.level \in 1..Top(c.k)
                          /\ c.at # 0 /\ c.at = Way(n, c.ino, c.k, c.level)
  BY DEF LinkedTo
<1>4. /\ Len(call.buf) = call.size
      /\ call.ino.size \in {call.size, Min({call.size, call.k * FragsPerBlock})}
      /\ \A k \in 0..(call.k - 1) : Done(k, call, bytes)
      /\ call.k < Ceil(call.size) /\ call.hand \in C /\ lev[call.hand] = 0 /\ took[call.hand] = call.k
      /\ \A x \in C : /\ used[x] = Share(took[x], lev[x], call.size)
                      /\ Found(x, bytes, call.ino, call.k, lev, took) \/ x = call.hand
  BY <1>1 DEF Built
<1>5. /\ \A x \in C : \A end \in Nat : end <= Base[3] /\ Found(x, bytes, call.ino, end, lev, took)
           => Found(x, n, c.ino, end, lev2, took2)
      /\ AllDone(c, call.k, n)
  <2>1. Wider(bytes, n, call.ino, c.ino, C, lev)
    BY DEF LinkedTo
  <2>2. AllDone(call, call.k, bytes)
    BY <1>4 DEF AllDone
  <2>3. SameMarks(C, lev, took, lev2, took2)
    BY <1>2 DEF SameMarks
  <2>4. SameText(call, c)
    BY <1>3 DEF SameText
  <2>5. SameSoFar(bytes, n, C, lev, took, call.k)
    BY DEF LinkedTo, SameSoFar
  <2>6. QED BY ONLY <1>G, <2>1, <2>2, <2>3, <2>4, <2>5, FoundsWiden
<1>6. ASSUME NEW x \in D
      PROVE  /\ v[x] = Share(took2[x], lev2[x], call.size)
             /\ Found(x, n, c.ino, call.k, lev2, took2) \/ x = call.hand
  <2>1. CASE x = b
    <3>1. Found(b, n, c.ino, call.k, lev2, took2)
      BY <1>2, <1>3 DEF Found
    <3>2. QED BY <1>2, <1>3, <2>1, <3>1 DEF Share
  <2>2. CASE x \in C
    <3>1. /\ used[x] = Share(took[x], lev[x], call.size)
          /\ Found(x, bytes, call.ino, call.k, lev, took) \/ x = call.hand
      BY <1>4, <2>2
    <3>2. Found(x, bytes, call.ino, call.k, lev, took) => Found(x, n, c.ino, call.k, lev2, took2)
      BY <1>5, <2>2
    <3>3. QED BY <1>2, <1>3, <2>2, <3>1, <3>2
  <2>3. QED BY <1>2, <2>1, <2>2
<1>7. call.hand \in D /\ lev2[call.hand] = 0 /\ took2[call.hand] = call.k
  BY <1>2, <1>4
<1>8. QED BY <1>1, <1>3, <1>4, <1>5, <1>6, <1>7 DEF Built, AllDone

\* The step of a call that took such a block.
LEMMA LinkStep ==
    ASSUME NEW H, NEW C, NEW lev, NEW took, At(H, C, lev, took), call.pc # "name",
           NEW b \in Blocks, used[b] = 0, b \notin C, \A f \in Files : b \notin H[f],
           NEW l, NEW D, NEW lev2, NEW took2, With(b, l, call.k, H, C, lev, took, D, lev2, took2),
           Fine, used' = Taken(b, FragsPerBlock), UNCHANGED <<disk, live, contents, calls, lost>>,
           IsBytes(bytes'), \A x \in Blocks : x # b /\ x \notin C => bytes'[x] = bytes[x],
           call' \in Calls, call'.pc \in Fills \ {"name"},
           call'.kind = call.kind, call'.file = call.file, call'.old = call.old,
           Built(call', D, bytes', used', lev2, took2)
    PROVE  IInv'
<1>G. Facts(H, C, lev, took)
  BY Given
<1> USE <1>G DEF Facts
<1>1. /\ D = C \cup {b} /\ GhostOK(H, D, lev2, took2)
      /\ \A f \in Files : \A x \in H[f] : lev2[x] = lev[x] /\ took2[x] = took[x]
  BY DEF With
<1>2. used' \in [Blocks -> Int] /\ \A x \in Blocks : x # b => used'[x] = used[x]
  BY Constants DEF Taken
<1>3. Spared(H, bytes, bytes', used, used', lev, took, lev2, took2)
  <2>1. SUFFICES ASSUME NEW f \in Files, NEW x \in H[f]
                 PROVE  bytes'[x] = bytes[x] /\ used'[x] = used[x] /\ lev2[x] = lev[x] /\ took2[x] = took[x]
    BY DEF Spared
  <2>2. x \in Blocks /\ x # b /\ x \notin C
    OBVIOUS
  <2>3. QED BY <1>1, <1>2, <2>2
<1>4. errors' \in Nat /\ lost' \in SUBSET Blocks /\ (lost' # {} => errors' > 0)
  BY Faults
<1>5. Follows(H, C, D)
  <2>1. /\ UNCHANGED lost /\ \A x \in D : x \in C \/ used[x] = 0
        /\ \A x \in Blocks : used[x] # 0 /\ x \notin C => used'[x] # 0
        /\ \A x \in Blocks : used'[x] # 0 => x \in D \/ (used[x] # 0 /\ x \notin C)
    BY <1>1, <1>2
  <2>2. QED BY ONLY At(H, C, lev, took), <2>1, FollowsOn
<1>6. QED BY <1>1, <1>2, <1>3, <1>4, <1>5, FillStep

LEMMA NewRootIInv ==
    ASSUME IInv, NewRoot
    PROVE  IInv'
<1>1. /\ call.pc = "set" /\ call.pc \in Fills /\ call.pc \in {"set", "walk"} /\ call.pc \in Loose
      /\ call.k >= Direct /\ call.ino.ib[SlotOf[call.k]] = 0
      /\ UNCHANGED <<disk, live, contents, calls>>
  BY DEF NewRoot, Fills, Loose
<1>2. PICK H, C, lev, took : At(H, C, lev, took)
  BY <1>1, Storings
<1>G. Facts(H, C, lev, took)
  BY <1>2, Given
<1> USE <1>G DEF Facts
<1>3. CASE \/ FreeBlocks = {} /\ Fine /\ PutBack /\ UNCHANGED <<used, bytes, lost>>
           \/ Fail /\ PutBack /\ UNCHANGED <<used, bytes, lost>>
           \/ BlockLost(Min(FreeBlocks))
  <2>1. /\ PutBack
        /\ \/ Fine /\ UNCHANGED <<used, bytes, lost>>
           \/ Fail /\ UNCHANGED <<used, bytes, lost>>
           \/ TakenForNobody(Min(FreeBlocks), FragsPerBlock) /\ UNCHANGED bytes
    BY <1>3 DEF BlockLost
  <2>2. QED BY <1>1, <1>2, <2>1, PutBackStep
<1>4. CASE /\ FreeBlocks # {} /\ Fine
           /\ used' = Taken(Min(FreeBlocks), FragsPerBlock) /\ bytes' = Zeroed(Min(FreeBlocks))
           /\ call' = [call EXCEPT !.ino.ib[SlotOf[call.k]] = Min(FreeBlocks), !.frags = @ + FragsPerBlock]
           /\ UNCHANGED lost
  <2>1. PICK b : b = Min(FreeBlocks)
    OBVIOUS
  <2>2. b \in Blocks /\ used[b] = 0 /\ b \notin C /\ \A f \in Files : b \notin H[f]
    BY <1>2, <1>4, <2>1, Fresh
  <2>3. call.k \in Deep
    BY <1>1, Constants DEF Built, Deep
  <2>4. PICK s \in Slots : s = SlotOf[call.k]
    BY <2>3, Slot
  <2>5. s + 1 = Top(call.k) /\ s + 1 \in 1..3 /\ s + 1 \in 0..3 /\ s + 1 # 0
    BY <2>4 DEF Top, Slots
  <2>6. PICK D, lev2, took2 : With(b, s + 1, call.k, H, C, lev, took, D, lev2, took2)
    BY ONLY <1>G, <2>2, <2>5, Grows
  <2>7. /\ D = C \cup {b} /\ lev2[b] = s + 1 /\ took2[b] = call.k
        /\ \A x \in C : lev2[x] = lev[x] /\ took2[x] = took[x]
    BY <2>6 DEF With
  <2>8. PICK new : new = [call.ino EXCEPT !.ib[s] = b]
    OBVIOUS
  <2>9. b \in 0..NBlocks /\ b # 0
    BY <2>2, Constants DEF Blocks
  <2>10. /\ new \in Inodes /\ new.db = call.ino.db /\ new.size = call.ino.size /\ new.ib[s] = b
         /\ \A r \in Slots : r # s => new.ib[r] = call.ino.ib[r]
    BY <2>8, <2>9 DEF Inodes
  <2>11. call' = [call EXCEPT !.ino = new, !.frags = @ + FragsPerBlock]
    BY <1>4, <2>1, <2>4, <2>8 DEF Calls
  <2>12. /\ call'.pc = "set" /\ call'.hand = call.hand /\ call'.kind = call.kind /\ call'.file = call.file
         /\ call'.ino = new /\ call'.k = call.k /\ call'.size = call.size /\ call'.buf = call.buf
         /\ call'.old = call.old
    BY <1>1, <2>11 DEF Calls
  <2>13. call' \in Calls /\ call'.pc \in Fills \ {"name"}
    <3>1. call.frags + FragsPerBlock \in Int
      BY Constants DEF Calls
    <3>2. QED BY <1>1, <2>10, <2>11, <3>1 DEF Calls, Fills
  <2>14. /\ IsBytes(bytes') /\ \A x \in Blocks : x # b => bytes'[x] = bytes[x]
         /\ \A i \in Index : bytes'[b].ent[i] = 0
    BY <1>4, <2>1, <2>2, ZeroedIs
  <2>15. Wider(bytes, bytes', call.ino, new, C, lev)
    BY <1>1, <2>2, <2>4, <2>10, <2>14 DEF Wider
  <2>16. Shape(bytes', new, D, lev2, took2)
    <3>1. Rooted(new, D, lev2, took2)
      <4>1. Rooted(call.ino, D, lev2, took2)
        BY <2>7, RootedWiden DEF Shape
      <4>2. /\ new.ib[s] \in D /\ lev2[new.ib[s]] = s + 1
            /\ took2[new.ib[s]] \in Deep /\ SlotOf[took2[new.ib[s]]] = s
        BY <2>3, <2>4, <2>7, <2>10
      <4>3. QED BY <2>10, <4>1, <4>2 DEF Rooted
    <3>2. Closed(bytes', D, lev2, took2)
      <4>1. Closed(bytes, C, lev, took) /\ C \subseteq D
        BY <2>7 DEF Shape
      <4>2. \A x \in C : lev2[x] = lev[x] /\ took2[x] = took[x]
        BY <2>7
      <4>3. \A x \in C : lev[x] # 0 =>
              \A i \in Index : bytes'[x].ent[i] = bytes[x].ent[i] \/ IsChild(bytes'[x].ent[i], x, i, D, lev2, took2)
        BY <2>2, <2>14
      <4>4. \A x \in D \ C : lev2[x] # 0 =>
              /\ took2[x] \in Deep /\ lev2[x] \in 1..3 /\ lev2[x] <= Top(took2[x])
              /\ \A i \in Index : bytes'[x].ent[i] = 0
        BY <2>3, <2>5, <2>7, <2>14
      <4>5. PICK n : n = bytes'
        OBVIOUS
      <4>6. Closed(n, D, lev2, took2)
        <5>1. \A x \in C : lev[x] # 0 =>
                \A i \in Index : n[x].ent[i] = bytes[x].ent[i] \/ IsChild(n[x].ent[i], x, i, D, lev2, took2)
          BY <4>3, <4>5
        <5>2. \A x \in D \ C : lev2[x] # 0 =>
                /\ took2[x] \in Deep /\ lev2[x] \in 1..3 /\ lev2[x] <= Top(took2[x])
                /\ \A i \in Index : n[x].ent[i] = 0
          BY <4>4, <4>5
        <5>3. QED BY ONLY <4>1, <4>2, <5>1, <5>2, ClosedWiden
      <4>7. QED BY <4>5, <4>6
    <3>3. QED BY <3>1, <3>2 DEF Shape
  <2>17. Unlinked(call.hand, D, bytes', new, lev2)
    <3>1. Unlinked(call.hand, C, bytes, call.ino, lev) /\ call.hand # 0
      BY <1>1, Constants DEF Built, Blocks
    <3>2. ASSUME NEW x \in D, lev2[x] # 0, NEW i \in Index PROVE bytes'[x].ent[i] # call.hand
      <4>1. CASE x = b
        BY <2>14, <3>1, <4>1
      <4>2. CASE x \in C
        BY <2>2, <2>7, <2>14, <3>1, <3>2, <4>2 DEF Unlinked
      <4>3. QED BY <2>7, <4>1, <4>2
    <3>3. QED BY <2>10, <3>1, <3>2 DEF Unlinked
  <2>18. LinkedTo(b, s + 1, call', bytes', used', C, lev)
    <3>1. Way(bytes', new, call.k, s + 1) = b
      BY <2>3, <2>4, <2>5, <2>10, WayDown
    <3>2. used'[b] = FragsPerBlock /\ \A x \in C : used'[x] = used[x]
      BY <1>4, <2>1, <2>2 DEF Taken
    <3>3. \A x \in C : lev[x] = 0 => bytes'[x].val = bytes[x].val
      BY <2>2, <2>14
    <3>4. QED BY <2>10, <2>12, <2>15, <3>1, <3>2, <3>3 DEF LinkedTo
  <2>19. Built(call', D, bytes', used', lev2, took2)
    <3>1. PICK c, n, v : c = call' /\ n = bytes' /\ v = used'
      OBVIOUS
    <3>2. LinkedTo(b, s + 1, c, n, v, C, lev)
      BY <2>18, <3>1
    <3>3. Shape(n, c.ino, D, lev2, took2) /\ Unlinked(c.hand, D, n, c.ino, lev2)
      BY <2>12, <2>16, <2>17, <3>1
    <3>4. s + 1 <= Top(call.k)
      BY <2>5
    <3>5. Built(c, D, n, v, lev2, took2)
      BY ONLY <1>1, <1>2, <2>2, <2>3, <2>5, <2>6, <3>2, <3>3, <3>4, LinkBuilt
    <3>6. QED BY <3>1, <3>5
  <2>20. \A x \in Blocks : x # b /\ x \notin C => bytes'[x] = bytes[x]
    BY <2>14
  <2>21. Fine /\ used' = Taken(b, FragsPerBlock) /\ UNCHANGED <<disk, live, contents, calls, lost>>
    BY <1>1, <1>4, <2>1
  <2>22. call'.kind = call.kind /\ call'.file = call.file /\ call'.old = call.old /\ call.pc # "name"
    BY <1>1, <2>12
  <2>23. IsBytes(bytes')
    BY <2>14
  <2>24. QED BY ONLY <1>2, <2>2, <2>6, <2>13, <2>19, <2>20, <2>21, <2>22, <2>23, LinkStep
<1>5. QED BY <1>3, <1>4 DEF NewRoot

\* One entry of one block is set.
SetsEntry(n, m, at, i, b) == n = [m EXCEPT ![at].ent[i] = b]

LEMMA EntrySet ==
    ASSUME NEW m, IsBytes(m), NEW at \in Blocks, NEW i \in Index, NEW b \in 0..NBlocks,
           NEW n, SetsEntry(n, m, at, i, b)
    PROVE  /\ IsBytes(n) /\ \A x \in Blocks : x # at => n[x] = m[x]
           /\ n[at].val = m[at].val /\ n[at].ent[i] = b
           /\ \A j \in Index : j # i => n[at].ent[j] = m[at].ent[j]
<1>1. PICK r : r = m[at]
  OBVIOUS
<1>2. r \in [val : [0..(FragsPerBlock - 1) -> Int], ent : [Index -> 0..NBlocks]]
  BY <1>1 DEF IsBytes
<1>3. PICK q : q = [r EXCEPT !.ent[i] = b]
  OBVIOUS
<1>4. /\ q \in [val : [0..(FragsPerBlock - 1) -> Int], ent : [Index -> 0..NBlocks]]
      /\ q.val = r.val /\ q.ent[i] = b /\ \A j \in Index : j # i => q.ent[j] = r.ent[j]
  BY <1>2, <1>3
<1>5. n = [m EXCEPT ![at] = q]
  BY <1>1, <1>3 DEF SetsEntry
<1>6. n[at] = q /\ \A x \in Blocks : x # at => n[x] = m[x]
  BY <1>5 DEF IsBytes
<1>7. IsBytes(n)
  BY <1>4, <1>5 DEF IsBytes
<1>8. QED BY <1>1, <1>4, <1>6, <1>7

LEMMA NewChildIInv ==
    ASSUME IInv, NewChild
    PROVE  IInv'
<1>1. /\ call.pc = "walk" /\ call.pc \in Fills /\ call.pc \in {"set", "walk"} /\ call.pc \in Loose
      /\ call.level > 1 /\ Child = 0 /\ call.pc # "name"
      /\ UNCHANGED <<disk, live, contents, calls>>
  BY DEF NewChild, Fills, Loose
<1>2. PICK H, C, lev, took : At(H, C, lev, took)
  BY <1>1, Storings
<1>G. Facts(H, C, lev, took)
  BY <1>2, Given
<1> USE <1>G DEF Facts
<1>3. CASE \/ FreeBlocks = {} /\ Fine /\ PutBack /\ UNCHANGED <<used, bytes, lost>>
           \/ Fail /\ PutBack /\ UNCHANGED <<used, bytes, lost>>
           \/ BlockLost(Min(FreeBlocks))
  <2>1. /\ PutBack
        /\ \/ Fine /\ UNCHANGED <<used, bytes, lost>>
           \/ Fail /\ UNCHANGED <<used, bytes, lost>>
           \/ TakenForNobody(Min(FreeBlocks), FragsPerBlock) /\ UNCHANGED bytes
    BY <1>3 DEF BlockLost
  <2>2. QED BY <1>1, <1>2, <2>1, PutBackStep
<1>4. CASE /\ FreeBlocks # {} /\ Fine
           /\ used' = Taken(Min(FreeBlocks), FragsPerBlock)
           /\ bytes' = [Zeroed(Min(FreeBlocks)) EXCEPT ![call.at].ent[Here] = Min(FreeBlocks)]
           /\ call' = [call EXCEPT !.at = Min(FreeBlocks), !.level = @ - 1, !.frags = @ + FragsPerBlock]
           /\ UNCHANGED lost
  <2>1. PICK b : b = Min(FreeBlocks)
    OBVIOUS
  <2>2. b \in Blocks /\ used[b] = 0 /\ b \notin C /\ \A f \in Files : b \notin H[f]
    BY <1>2, <1>4, <2>1, Fresh
  <2>3. PICK at, e : at = call.at /\ e = Here
    OBVIOUS
  <2>4. PICK l \in 1..3 : l + 1 = call.level
    <3>1. call.level \in 1..3
      BY <1>1, <1>2, Walking
    <3>2. call.level - 1 \in 1..3 /\ (call.level - 1) + 1 = call.level
      BY <1>1, <3>1
    <3>3. QED BY <3>2
  <2>5. /\ call.k >= Direct /\ call.k \in Deep /\ l + 1 <= Top(call.k) /\ l \in 1..Top(call.k) /\ l <= Top(call.k)
        /\ l \in 0..3 /\ l + 1 \in 0..3 /\ l # 0 /\ l < Top(call.k) /\ call.level - 1 = l
        /\ at \in C /\ at \in Blocks /\ lev[at] = l + 1
        /\ took[at] \in Deep /\ Same(took[at], call.k, l + 1)
        /\ at = Way(bytes, call.ino, call.k, l + 1)
        /\ e = Entry(call.k, l + 1) /\ e \in Index /\ bytes[at].ent[e] = 0 /\ at # 0
    <3>1. /\ call.k >= Direct /\ call.k \in Deep /\ call.level \in 1..Top(call.k) /\ call.level \in 1..3
          /\ call.at \in C /\ call.at # 0 /\ lev[call.at] = call.level
          /\ took[call.at] \in Deep /\ Same(took[call.at], call.k, call.level)
          /\ call.at = Way(bytes, call.ino, call.k, call.level)
          /\ Here = Entry(call.k, call.level) /\ Here \in Index
      BY <1>1, <1>2, Walking
    <3>2. Top(call.k) \in 1..3
      BY <3>1, Slot
    <3>3. bytes[at].ent[e] = 0
      BY <1>1, <2>3 DEF Child
    <3>4. l + 1 <= Top(call.k) /\ l \in 1..Top(call.k) /\ l <= Top(call.k) /\ call.level - 1 = l
          /\ l \in 0..3 /\ l + 1 \in 0..3 /\ l # 0 /\ l < Top(call.k)
      BY <2>4, <3>1, <3>2
    <3>5. QED BY <2>3, <2>4, <3>1, <3>3, <3>4
  <2>6. PICK D, lev2, took2 : With(b, l, call.k, H, C, lev, took, D, lev2, took2)
    BY ONLY <1>G, <2>2, <2>5, Grows
  <2>7. /\ D = C \cup {b} /\ lev2[b] = l /\ took2[b] = call.k
        /\ \A x \in C : lev2[x] = lev[x] /\ took2[x] = took[x]
    BY <2>6 DEF With
  <2>8. b \in 0..NBlocks /\ b # 0 /\ at # b
    BY <2>2, <2>5, Constants DEF Blocks
  <2>9. call' = [call EXCEPT !.at = b, !.level = l, !.frags = @ + FragsPerBlock]
    BY <1>4, <2>1, <2>5 DEF Calls
  <2>10. /\ call'.pc = "walk" /\ call'.hand = call.hand /\ call'.kind = call.kind /\ call'.file = call.file
         /\ call'.ino = call.ino /\ call'.k = call.k /\ call'.size = call.size /\ call'.buf = call.buf
         /\ call'.old = call.old /\ call'.at = b /\ call'.level = l
    BY <1>1, <2>9 DEF Calls
  <2>11. call' \in Calls /\ call'.pc \in Fills \ {"name"}
    <3>1. call.frags + FragsPerBlock \in Int
      BY Constants DEF Calls
    <3>2. QED BY <1>1, <2>5, <2>8, <2>9, <3>1 DEF Calls, Fills
  <2>12. PICK n : n = bytes'
    OBVIOUS
  <2>13. /\ IsBytes(n) /\ \A x \in Blocks : x # b /\ x # at => n[x] = bytes[x]
         /\ \A i \in Index : n[b].ent[i] = 0
         /\ n[at].val = bytes[at].val /\ n[at].ent[e] = b
         /\ \A j \in Index : j # e => n[at].ent[j] = bytes[at].ent[j]
    <3>1. PICK z : z = Zeroed(b)
      OBVIOUS
    <3>2. /\ IsBytes(z) /\ \A x \in Blocks : x # b => z[x] = bytes[x]
          /\ \A i \in Index : z[b].ent[i] = 0
      BY <2>2, <3>1, ZeroedIs
    <3>3. SetsEntry(n, z, at, e, b)
      BY <1>4, <2>1, <2>3, <2>12, <3>1 DEF SetsEntry
    <3>4. /\ IsBytes(n) /\ \A x \in Blocks : x # at => n[x] = z[x]
          /\ n[at].val = z[at].val /\ n[at].ent[e] = b
          /\ \A j \in Index : j # e => n[at].ent[j] = z[at].ent[j]
      BY <2>5, <2>8, <3>2, <3>3, EntrySet
    <3>5. QED BY <2>2, <2>5, <2>8, <3>2, <3>4
  <2>14. Wider(bytes, n, call.ino, call.ino, C, lev)
    <3>1. ASSUME NEW x \in C, NEW i \in Index, bytes[x].ent[i] # 0
          PROVE  n[x].ent[i] = bytes[x].ent[i]
      <4>1. x \in Blocks /\ x # b
        BY <2>2
      <4>2. CASE x = at
        BY <2>5, <2>13, <3>1, <4>2
      <4>3. CASE x # at
        BY <2>13, <4>1, <4>3
      <4>4. QED BY <4>2, <4>3
    <3>2. QED BY <3>1 DEF Wider
  <2>15. Shape(n, call.ino, D, lev2, took2)
    <3>1. Rooted(call.ino, D, lev2, took2)
      BY <2>7, RootedWiden DEF Shape
    <3>2. Closed(n, D, lev2, took2)
      <4>1. Closed(bytes, C, lev, took) /\ C \subseteq D
        BY <2>7 DEF Shape
      <4>2. \A x \in C : lev2[x] = lev[x] /\ took2[x] = took[x]
        BY <2>7
      <4>3. ASSUME NEW x \in C, lev[x] # 0, NEW i \in Index
            PROVE  n[x].ent[i] = bytes[x].ent[i] \/ IsChild(n[x].ent[i], x, i, D, lev2, took2)
        <5>1. CASE x = at /\ i = e
          <6>1. Same(call.k, took[at], l + 1)
            BY <2>5, SameBack
          <6>2. lev2[at] = l + 1 /\ took2[at] = took[at] /\ lev2[at] - 1 = l
            BY <2>5, <2>7
          <6>3. Same(took2[b], took2[at], lev2[at]) /\ Entry(took2[b], lev2[at]) = e
            BY <2>5, <2>7, <6>1, <6>2
          <6>4. IsChild(b, at, e, D, lev2, took2)
            BY <2>5, <2>7, <6>2, <6>3 DEF IsChild
          <6>5. QED BY <2>13, <5>1, <6>4
        <5>2. CASE ~(x = at /\ i = e)
          BY <2>2, <2>13, <5>2
        <5>3. QED BY <5>1, <5>2
      <4>4. \A x \in D \ C : lev2[x] # 0 =>
              /\ took2[x] \in Deep /\ lev2[x] \in 1..3 /\ lev2[x] <= Top(took2[x])
              /\ \A i \in Index : n[x].ent[i] = 0
        BY <2>5, <2>7, <2>13
      <4>5. \A x \in C : lev[x] # 0 =>
              \A i \in Index : n[x].ent[i] = bytes[x].ent[i] \/ IsChild(n[x].ent[i], x, i, D, lev2, took2)
        BY <4>3
      <4>6. QED BY ONLY <4>1, <4>2, <4>4, <4>5, ClosedWiden
    <3>3. QED BY <3>1, <3>2 DEF Shape
  <2>16. Unlinked(call.hand, D, n, call.ino, lev2)
    <3>1. Unlinked(call.hand, C, bytes, call.ino, lev) /\ call.hand # 0 /\ call.hand # b
      BY <1>1, <2>2, Constants DEF Built, Blocks
    <3>2. ASSUME NEW x \in D, lev2[x] # 0, NEW i \in Index PROVE n[x].ent[i] # call.hand
      <4>1. CASE x = b
        BY <2>13, <3>1, <4>1
      <4>2. CASE x = at /\ i = e
        BY <2>13, <3>1, <4>2
      <4>3. CASE x \in C /\ ~(x = at /\ i = e)
        <5>1. n[x].ent[i] = bytes[x].ent[i] /\ lev[x] # 0
          BY <2>2, <2>7, <2>13, <3>2, <4>3
        <5>2. QED BY <3>1, <4>3, <5>1 DEF Unlinked
      <4>4. QED BY <2>7, <4>1, <4>2, <4>3
    <3>3. QED BY <3>1, <3>2 DEF Unlinked
  <2>17. Way(n, call.ino, call.k, l) = b
    <3>1. Way(n, call.ino, call.k, l + 1) = at
      BY <2>5, <2>14, WayWiden
    <3>2. Way(n, call.ino, call.k, l) = Follow(n, Way(n, call.ino, call.k, l + 1), Entry(call.k, l + 1))
      BY <2>5, WayDown
    <3>3. QED BY <2>5, <2>13, <3>1, <3>2 DEF Follow
  <2>18. PICK c, v : c = call' /\ v = used'
    OBVIOUS
  <2>19. LinkedTo(b, l, c, n, v, C, lev)
    <3>1. v[b] = FragsPerBlock /\ \A x \in C : v[x] = used[x]
      BY <1>4, <2>1, <2>2, <2>18 DEF Taken
    <3>2. \A x \in C : lev[x] = 0 => n[x].val = bytes[x].val
      <4>1. SUFFICES ASSUME NEW x \in C PROVE n[x].val = bytes[x].val
        OBVIOUS
      <4>2. x \in Blocks /\ x # b
        BY <2>2
      <4>3. QED BY <2>13, <4>2
    <3>3. QED BY <2>5, <2>8, <2>10, <2>14, <2>17, <2>18, <3>1, <3>2 DEF LinkedTo
  <2>20. Built(call', D, bytes', used', lev2, took2)
    <3>1. Shape(n, c.ino, D, lev2, took2) /\ Unlinked(c.hand, D, n, c.ino, lev2)
      BY <2>10, <2>15, <2>16, <2>18
    <3>2. Built(c, D, n, v, lev2, took2)
      BY ONLY <1>1, <1>2, <2>2, <2>5, <2>6, <2>19, <3>1, l \in 1..3, LinkBuilt
    <3>3. QED BY <2>12, <2>18, <3>2
  <2>21. IsBytes(bytes') /\ \A x \in Blocks : x # b /\ x \notin C => bytes'[x] = bytes[x]
    BY <2>5, <2>12, <2>13
  <2>22. Fine /\ used' = Taken(b, FragsPerBlock) /\ UNCHANGED <<disk, live, contents, calls, lost>>
    BY <1>1, <1>4, <2>1
  <2>23. call'.kind = call.kind /\ call'.file = call.file /\ call'.old = call.old /\ call.pc # "name"
    BY <1>1, <2>10
  <2>24. QED BY ONLY <1>2, <2>2, <2>6, <2>11, <2>20, <2>21, <2>22, <2>23, LinkStep
<1>5. QED BY <1>3, <1>4 DEF NewChild

LEMMA WriteEntryIInv ==
    ASSUME IInv, WriteEntry
    PROVE  IInv'
<1>1. /\ call.pc = "walk" /\ call.pc \in Fills /\ call.pc \in {"set", "walk"} /\ call.pc \in Loose
      /\ call.level = 1 /\ call.pc # "name"
      /\ UNCHANGED <<used, disk, live, contents, calls, lost>>
  BY DEF WriteEntry, Fills, Loose
<1>2. PICK H, C, lev, took : At(H, C, lev, took)
  BY <1>1, Storings
<1>G. Facts(H, C, lev, took)
  BY <1>2, Given
<1> USE <1>G DEF Facts
<1>3. CASE Fail /\ PutBack /\ UNCHANGED bytes
  BY <1>1, <1>2, <1>3, PutBackStep
<1>4. CASE Fine /\ bytes' = Linked(call.hand) /\ call' = [call EXCEPT !.pc = "fill"]
  <2>1. PICK at, e, h, k : at = call.at /\ e = Here /\ h = call.hand /\ k = call.k
    OBVIOUS
  <2>2. /\ k \in Deep /\ 1 <= Top(k) /\ at \in C /\ at \in Blocks /\ at # 0 /\ lev[at] = 1
        /\ took[at] \in Deep /\ Same(took[at], k, 1) /\ at = Way(bytes, call.ino, k, 1)
        /\ e = Entry(k, 1) /\ e \in Index /\ ~(k < Direct) /\ k \in Nat
    <3>1. /\ call.k >= Direct /\ call.k \in Deep /\ call.level \in 1..Top(call.k)
          /\ call.at \in C /\ call.at # 0 /\ lev[call.at] = call.level
          /\ took[call.at] \in Deep /\ Same(took[call.at], call.k, call.level)
          /\ call.at = Way(bytes, call.ino, call.k, call.level)
          /\ Here = Entry(call.k, call.level) /\ Here \in Index
      BY <1>1, <1>2, Walking
    <3>2. Top(k) \in 1..3 /\ ~(call.k < Direct)
      BY <2>1, <3>1, Slot, Constants
    <3>3. QED BY <1>1, <2>1, <3>1, <3>2
  <2>3. /\ h \in C /\ h \in Blocks /\ h # 0 /\ h \in 0..NBlocks /\ lev[h] = 0 /\ took[h] = k
        /\ Unlinked(h, C, bytes, call.ino, lev) /\ k < Ceil(call.size)
    <3>1. /\ h \in C /\ lev[h] = 0 /\ took[h] = k
          /\ Unlinked(h, C, bytes, call.ino, lev) /\ k < Ceil(call.size)
      BY <1>1, <2>1 DEF Built
    <3>2. \A x \in Blocks : x # 0 /\ x \in 0..NBlocks
      BY Constants DEF Blocks
    <3>3. h \in Blocks
      BY <3>1
    <3>4. QED BY <3>1, <3>2, <3>3
  <2>4. bytes[at].ent[e] = 0
    <3>1. SUFFICES ASSUME bytes[at].ent[e] # 0 PROVE FALSE
      OBVIOUS
    <3>2. PICK x : x = bytes[at].ent[e]
      OBVIOUS
    <3>3. IsChild(x, at, e, C, lev, took)
      BY <2>2, <3>1, <3>2 DEF Shape, Closed
    <3>4. x \in C /\ lev[x] = 0 /\ took[x] \in Deep /\ Same(took[x], took[at], 1) /\ Entry(took[x], 1) = Entry(k, 1)
      BY <2>2, <3>3 DEF IsChild
    <3>5. 0 \in 0..3 /\ 0 + 1 = 1
      OBVIOUS
    <3>6. Same(took[x], k, 0)
      <4>1. Same(took[x], took[at], 0 + 1) /\ Same(took[at], k, 0 + 1) /\ Entry(took[x], 0 + 1) = Entry(k, 0 + 1)
        BY <2>2, <3>4, <3>5
      <4>2. QED BY <2>2, <3>4, <3>5, <4>1, SameDown
    <3>7. took[x] = k
      BY <2>2, <3>4, <3>6, WayGives
    <3>8. x = h
      BY <1>1, <1>2, <2>1, <3>4, <3>7, NotYet
    <3>9. \A y \in C : lev[y] # 0 => \A i \in Index : bytes[y].ent[i] # h
      BY <2>3 DEF Unlinked
    <3>10. lev[at] # 0
      BY <2>2
    <3>11. QED BY <2>2, <3>2, <3>8, <3>9, <3>10
  <2>5. PICK n : n = bytes'
    OBVIOUS
  <2>6. SetsEntry(n, bytes, at, e, h)
    BY <1>4, <2>1, <2>5 DEF Linked, SetsEntry
  <2>7. /\ IsBytes(n) /\ \A x \in Blocks : x # at => n[x] = bytes[x]
        /\ n[at].val = bytes[at].val /\ n[at].ent[e] = h
        /\ \A j \in Index : j # e => n[at].ent[j] = bytes[at].ent[j]
    BY <2>2, <2>3, <2>6, EntrySet
  <2>8. PICK c : c = call'
    OBVIOUS
  <2>9. /\ c.pc = "fill" /\ c.hand = h /\ c.kind = call.kind /\ c.file = call.file
        /\ c.ino = call.ino /\ c.k = k /\ c.size = call.size /\ c.buf = call.buf
        /\ c.old = call.old
    BY <1>4, <2>1, <2>8 DEF Calls
  <2>10. c \in Calls /\ c.pc \in Fills \ {"name"}
    BY <1>4, <2>8 DEF Calls, Fills
  <2>11. Wider(bytes, n, call.ino, call.ino, C, lev)
    <3>1. ASSUME NEW x \in C, NEW i \in Index, bytes[x].ent[i] # 0
          PROVE  n[x].ent[i] = bytes[x].ent[i]
      <4>1. x \in Blocks
        OBVIOUS
      <4>2. CASE x = at
        BY <2>4, <2>7, <3>1, <4>2
      <4>3. CASE x # at
        BY <2>7, <4>1, <4>3
      <4>4. QED BY <4>2, <4>3
    <3>2. QED BY <3>1 DEF Wider
  <2>12. Shape(n, call.ino, C, lev, took)
    <3>1. Closed(bytes, C, lev, took) /\ C \subseteq C /\ Rooted(call.ino, C, lev, took)
      BY DEF Shape
    <3>2. \A x \in C : lev[x] = lev[x] /\ took[x] = took[x]
      OBVIOUS
    <3>3. ASSUME NEW x \in C, lev[x] # 0, NEW i \in Index
          PROVE  n[x].ent[i] = bytes[x].ent[i] \/ IsChild(n[x].ent[i], x, i, C, lev, took)
      <4>1. CASE x = at /\ i = e
        <5>1. Same(took[h], took[at], lev[at]) /\ lev[h] = lev[at] - 1
          BY <2>2, <2>3, SameBack
        <5>2. IsChild(h, at, e, C, lev, took)
          BY <2>2, <2>3, <5>1 DEF IsChild
        <5>3. QED BY <2>7, <4>1, <5>2
      <4>2. CASE ~(x = at /\ i = e)
        BY <2>7, <4>2
      <4>3. QED BY <4>1, <4>2
    <3>4. \A x \in C : lev[x] # 0 =>
            \A i \in Index : n[x].ent[i] = bytes[x].ent[i] \/ IsChild(n[x].ent[i], x, i, C, lev, took)
      BY <3>3
    <3>5. \A x \in C \ C : lev[x] # 0 =>
            /\ took[x] \in Deep /\ lev[x] \in 1..3 /\ lev[x] <= Top(took[x])
            /\ \A i \in Index : n[x].ent[i] = 0
      OBVIOUS
    <3>6. Closed(n, C, lev, took)
      BY ONLY <3>1, <3>2, <3>4, <3>5, ClosedWiden
    <3>7. QED BY <3>1, <3>6 DEF Shape
  <2>13. Lead(n, call.ino, k) = h
    <3>1. Way(n, call.ino, k, 1) = at
      <4>1. 1 \in 0..3 /\ Way(bytes, call.ino, k, 1) # 0
        BY <2>2
      <4>2. Way(n, call.ino, k, 1) = Way(bytes, call.ino, k, 1)
        BY <2>2, <2>11, <4>1, WayWiden
      <4>3. QED BY <2>2, <4>2
    <3>2. 0 \in 0..3 /\ 0 < Top(k) /\ 0 + 1 = 1
      BY <2>2, Slot
    <3>3. Way(n, call.ino, k, 0) = Follow(n, Way(n, call.ino, k, 0 + 1), Entry(k, 0 + 1))
      BY <2>2, <3>2, WayDown
    <3>4. Way(n, call.ino, k, 0) = Follow(n, at, e)
      BY <2>2, <3>1, <3>2, <3>3
    <3>5. QED BY <2>2, <2>7, <3>4 DEF Follow, Lead
  <2>14. /\ \A x \in C : \A end \in Nat : end <= Base[3] /\ Found(x, bytes, call.ino, end, lev, took)
             => Found(x, n, c.ino, end, lev, took)
         /\ AllDone(c, call.k, n)
    <3>1. Wider(bytes, n, call.ino, c.ino, C, lev)
      BY <2>9, <2>11
    <3>2. AllDone(call, call.k, bytes)
      BY DEF Built, AllDone
    <3>3. SameMarks(C, lev, took, lev, took)
      BY DEF SameMarks
    <3>4. SameText(call, c)
      BY <2>9 DEF SameText
    <3>5. SameSoFar(bytes, n, C, lev, took, call.k)
      BY <2>7 DEF SameSoFar
    <3>6. QED BY ONLY <1>G, <3>1, <3>2, <3>3, <3>4, <3>5, FoundsWiden
  <2>15. Reaches(c) = k + 1 /\ Reaches(call) = k
    BY <1>1, <2>1, <2>9 DEF Reaches
  <2>16. ASSUME NEW x \in C
         PROVE  /\ used[x] = Share(took[x], lev[x], call.size)
                /\ Found(x, n, call.ino, k + 1, lev, took)
    <3>1. /\ used[x] = Share(took[x], lev[x], call.size)
          /\ Found(x, bytes, call.ino, k, lev, took) \/ x = h
      BY <2>1, <2>15 DEF Built
    <3>2. CASE x = h
      BY <2>2, <2>3, <2>13, <3>1, <3>2 DEF Found
    <3>3. CASE Found(x, bytes, call.ino, k, lev, took)
      <4>1. k <= Base[3]
        BY <2>1
      <4>2. Found(x, n, call.ino, k, lev, took)
        BY <2>2, <2>9, <2>14, <3>3, <4>1
      <4>3. QED BY <2>2, <3>1, <4>2 DEF Found
    <3>4. QED BY <3>1, <3>2, <3>3
  <2>17. Built(c, C, n, used, lev, took)
    <3>1. /\ Len(call.buf) = call.size
          /\ call.ino.size \in {call.size, Min({call.size, call.k * FragsPerBlock})}
      BY DEF Built
    <3>2. "fill" \notin Loose
      BY DEF Loose
    <3>3. QED BY <2>1, <2>3, <2>9, <2>12, <2>13, <2>14, <2>15, <2>16, <3>1, <3>2 DEF Built, AllDone
  <2>18. Built(call', C, bytes', used', lev, took)
    BY <1>1, <2>5, <2>8, <2>17
  <2>19. Spared(H, bytes, bytes', used, used', lev, took, lev, took)
    <3>1. SUFFICES ASSUME NEW f \in Files, NEW x \in H[f] PROVE n[x] = bytes[x]
      BY <1>1, <2>5 DEF Spared
    <3>2. x \in Blocks /\ x # at
      BY <2>2
    <3>3. QED BY <2>7, <3>2
  <2>20. errors' \in Nat /\ lost' \in SUBSET Blocks /\ (lost' # {} => errors' > 0)
    BY <1>1, <1>4, Faults
  <2>21. Follows(H, C, C)
    BY <1>1, <1>2, FollowsOn
  <2>22. /\ call' \in Calls /\ call'.pc \in Fills \ {"name"}
         /\ call'.kind = call.kind /\ call'.file = call.file /\ call'.old = call.old
    BY <2>8, <2>9, <2>10
  <2>23. IsBytes(bytes') /\ used' \in [Blocks -> Int] /\ GhostOK(H, C, lev, took)
         /\ UNCHANGED <<disk, live, contents, calls>>
    BY <1>1, <2>5, <2>7
  <2>24. QED BY ONLY <1>1, <1>2, <2>18, <2>19, <2>20, <2>21, <2>22, <2>23, FillStep
<1>5. QED BY <1>3, <1>4 DEF WriteEntry

-----------------------------------------------------------------------------
(* Storing: the data is written.                                           *)
LEMMA ChunkIs ==
    ASSUME call \in Calls, Len(call.buf) = call.size
    PROVE  Chunk \in [0..(FragsPerBlock - 1) -> Int] /\ Chunk = Piece(call, call.k)
<1>1. call.k \in Nat /\ call.size \in Nat /\ call.buf \in Seq(Int)
  BY DEF Calls
<1>2. call.k * FragsPerBlock \in Nat
  BY <1>1, Constants, Product
<1>3. PICK a \in Nat : a = call.k * FragsPerBlock
  BY <1>2
<1>4. ASSUME NEW j \in 0..(FragsPerBlock - 1), a + j < call.size PROVE call.buf[(a + j) + 1] \in Int
  <2>1. (a + j) + 1 \in 1..call.size
    <3>1. j \in Nat
      BY Constants
    <3>2. PICK z \in Nat : z = call.size
      BY <1>1
    <3>3. QED BY ONLY <1>4, <3>1, <3>2
  <2>2. PICK i \in 1..Len(call.buf) : i = (a + j) + 1
    BY <2>1
  <2>3. call.buf[i] \in Int
    BY <1>1
  <2>4. QED BY <2>2, <2>3
<1>5. Chunk = [j \in 0..(FragsPerBlock - 1) |-> IF a + j < call.size THEN call.buf[(a + j) + 1] ELSE 0]
  BY <1>3 DEF Chunk
<1>6. Chunk \in [0..(FragsPerBlock - 1) -> Int]
  BY <1>4, <1>5
<1>7. Chunk = Piece(call, call.k)
  BY DEF Chunk, Piece
<1>8. QED BY <1>6, <1>7

LEMMA GrownIs ==
    ASSUME call \in Calls, FragsOf(call.k, call.size) \in Nat
    PROVE  \E new \in Inodes : \E frags \in Int :
             /\ new.db = call.ino.db /\ new.ib = call.ino.ib
             /\ new.size = Min({call.size, (call.k + 1) * FragsPerBlock})
             /\ Grown = [call EXCEPT !.frags = frags, !.ino = new]
<1>1. call.k \in Nat /\ call.size \in Nat /\ call.ino \in Inodes /\ call.frags \in Int
  BY DEF Calls
<1>2. PICK frags \in Int : frags = call.frags + FragsOf(call.k, call.size)
  BY <1>1
<1>3. PICK a \in Nat : a = (call.k + 1) * FragsPerBlock
  BY <1>1, Constants, Product
<1>4. Min({call.size, a}) \in Nat
  BY <1>1, MinIs
<1>5. PICK z \in Nat : z = Min({call.size, (call.k + 1) * FragsPerBlock})
  BY <1>3, <1>4
<1>6. PICK new : new = [call.ino EXCEPT !.blocks = frags, !.size = z]
  OBVIOUS
<1>7. new \in Inodes /\ new.db = call.ino.db /\ new.ib = call.ino.ib /\ new.size = z
  BY <1>1, <1>6 DEF Inodes
<1>8. Grown = [call EXCEPT !.frags = frags, !.ino = new]
  BY <1>1, <1>2, <1>5, <1>6 DEF Grown, Calls, Inodes
<1>9. QED BY <1>5, <1>7, <1>8

LEMMA FillIInv ==
    ASSUME IInv, Fill
    PROVE  IInv'
<1>1. /\ call.pc = "fill" /\ call.pc \in Fills /\ call.pc \notin Loose /\ call.pc # "name"
      /\ UNCHANGED <<used, disk, live, contents, calls, lost>>
  BY DEF Fill, Fills, Loose
<1>2. PICK H, C, lev, took : At(H, C, lev, took)
  BY <1>1, Storings
<1>G. Facts(H, C, lev, took)
  BY <1>2, Given
<1> USE <1>G DEF Facts
<1>3. PICK h, k : h = call.hand /\ k = call.k
  OBVIOUS
<1>4. /\ h \in C /\ lev[h] = 0 /\ took[h] = k /\ Lead(bytes, call.ino, k) = h
      /\ k < Ceil(call.size) /\ k \in Nat /\ Len(call.buf) = call.size
      /\ Reaches(call) = k + 1 /\ h # 0 /\ h \in Blocks /\ k \in 0..(Base[3] - 1)
  <2>1. /\ h \in C /\ lev[h] = 0 /\ took[h] = k /\ Lead(bytes, call.ino, k) = h
        /\ k < Ceil(call.size) /\ k \in Nat /\ Len(call.buf) = call.size
        /\ Reaches(call) = k + 1
    BY <1>1, <1>3 DEF Built, Reaches
  <2>2. h # 0 /\ h \in Blocks
    BY <2>1, Constants DEF Blocks
  <2>3. QED BY <2>1, <2>2
<1>5. FragsOf(call.k, call.size) \in Nat
  BY <1>3, <1>4, FragsAre
<1>6. PICK new \in Inodes : \E frags \in Int :
             /\ new.db = call.ino.db /\ new.ib = call.ino.ib
             /\ new.size = Min({call.size, (call.k + 1) * FragsPerBlock})
             /\ Grown = [call EXCEPT !.frags = frags, !.ino = new]
  BY <1>5, GrownIs
<1>7. PICK frags \in Int :
             /\ new.db = call.ino.db /\ new.ib = call.ino.ib
             /\ new.size = Min({call.size, (call.k + 1) * FragsPerBlock})
             /\ Grown = [call EXCEPT !.frags = frags, !.ino = new]
  BY <1>6
<1>8. new.size \in {call.size, Min({call.size, Reaches(call) * FragsPerBlock})}
  BY <1>3, <1>4, <1>7
<1>9. CASE Fail /\ UNCHANGED bytes /\ call' = [Grown EXCEPT !.pc = "undo", !.todo = RunsOf(Grown.ino)]
  <2>1. Grown.ino = new
    BY <1>7 DEF Calls
  <2>2. call' = [call EXCEPT !.frags = frags, !.ino = new, !.pc = "undo", !.todo = RunsOf(new)]
    BY <1>7, <1>9, <2>1 DEF Calls
  <2>3. /\ call'.pc = "undo" /\ call'.kind = call.kind /\ call'.file = call.file /\ call'.ino = new
        /\ call'.todo = RunsOf(call'.ino) /\ (call'.todo \in Seq(Runs) => call' \in Calls)
    BY <2>2 DEF Calls, Freeing
  <2>4. errors' \in Nat /\ lost' \in SUBSET Blocks /\ (lost' # {} => errors' > 0)
    BY <1>1, <1>9, Faults
  <2>5. Shape(bytes, new, C, lev, took)
    BY <1>7, RootedSame DEF Shape
  <2>6. Kept(C, new, bytes, used, lev, took)
    BY <1>1, <1>2, <1>7, <1>8, <2>5, StoredKept
  <2>7. Kept(C, call'.ino, bytes, used', lev, took) /\ used' \in [Blocks -> Int]
    BY <1>1, <2>3, <2>6
  <2>8. Follows(H, C, C)
    BY <1>1, <1>2, FollowsOn
  <2>9. QED BY <1>1, <1>2, <1>9, <2>3, <2>4, <2>7, <2>8, UndoStep
<1>10. CASE /\ Fine /\ bytes' = [bytes EXCEPT ![call.hand] = [val |-> Chunk, ent |-> NotEntries]]
            /\ call' = [Grown EXCEPT !.pc = "alloc", !.k = @ + 1, !.hand = 0]
  <2>1. call' = [call EXCEPT !.frags = frags, !.ino = new, !.pc = "alloc", !.k = k + 1, !.hand = 0]
    BY <1>3, <1>7, <1>10 DEF Calls
  <2>2. PICK c : c = call'
    OBVIOUS
  <2>3. /\ c.pc = "alloc" /\ c.kind = call.kind /\ c.file = call.file
        /\ c.ino = new /\ c.k = k + 1 /\ c.size = call.size /\ c.buf = call.buf
        /\ c.old = call.old
    BY <2>1, <2>2 DEF Calls
  <2>4. c \in Calls /\ c.pc \in Fills \ {"name"}
    <3>1. k + 1 \in Nat /\ 0 \in 0..NBlocks
      BY <1>4, Constants
    <3>2. QED BY <2>1, <2>2, <3>1 DEF Calls, Fills
  <2>5. PICK n : n = bytes'
    OBVIOUS
  <2>6. PICK r : r = [val |-> Chunk, ent |-> NotEntries]
    OBVIOUS
  <2>7. r \in [val : [0..(FragsPerBlock - 1) -> Int], ent : [Index -> 0..NBlocks]] /\ r.val = Piece(call, k)
    <3>1. Chunk \in [0..(FragsPerBlock - 1) -> Int] /\ Chunk = Piece(call, k)
      BY <1>3, <1>4, ChunkIs
    <3>2. NotEntries \in [Index -> 0..NBlocks]
      BY Constants DEF NotEntries
    <3>3. QED BY <2>6, <3>1, <3>2
  <2>8. n = [bytes EXCEPT ![h] = r]
    BY <1>3, <1>10, <2>5, <2>6
  <2>9. IsBytes(n) /\ n[h].val = Piece(call, k) /\ \A x \in Blocks : x # h => n[x] = bytes[x]
    BY <1>4, <2>7, <2>8 DEF IsBytes
  <2>10. Wider(bytes, n, call.ino, new, C, lev)
    <3>1. \A x \in C : lev[x] # 0 => n[x] = bytes[x]
      BY <1>4, <2>9
    <3>2. QED BY <1>7, <3>1 DEF Wider
  <2>11. Shape(n, new, C, lev, took)
    <3>1. Rooted(new, C, lev, took)
      BY <1>7, RootedSame DEF Shape
    <3>2. \A x \in C : lev[x] # 0 => n[x] = bytes[x]
      BY <1>4, <2>9
    <3>3. Closed(n, C, lev, took)
      BY <3>2 DEF Shape, Closed
    <3>4. QED BY <3>1, <3>3 DEF Shape
  <2>12. /\ \A x \in C : \A end \in Nat : end <= Base[3] /\ Found(x, bytes, call.ino, end, lev, took)
             => Found(x, n, c.ino, end, lev, took)
         /\ AllDone(c, call.k, n)
    <3>1. Wider(bytes, n, call.ino, c.ino, C, lev)
      BY <2>3, <2>10
    <3>2. AllDone(call, call.k, bytes)
      BY DEF Built, AllDone
    <3>3. SameMarks(C, lev, took, lev, took)
      BY DEF SameMarks
    <3>4. SameText(call, c)
      BY <2>3 DEF SameText
    <3>5. SameSoFar(bytes, n, C, lev, took, call.k)
      <4>1. SUFFICES ASSUME NEW x \in C, lev[x] = 0, took[x] < call.k PROVE n[x].val = bytes[x].val
        BY DEF SameSoFar
      <4>2. x # h /\ x \in Blocks
        BY <1>3, <1>4, <4>1
      <4>3. QED BY <2>9, <4>2
    <3>6. QED BY ONLY <1>G, <3>1, <3>2, <3>3, <3>4, <3>5, FoundsWiden
  <2>13. Done(k, c, n)
    <3>1. Lead(n, new, k) = Lead(bytes, call.ino, k)
      BY <1>4, <2>10, LeadWiden
    <3>2. Piece(c, k) = Piece(call, k)
      BY <2>3 DEF Piece
    <3>3. QED BY <1>4, <2>3, <2>9, <3>1, <3>2 DEF Done
  <2>14. \A j \in 0..(c.k - 1) : Done(j, c, n)
    <3>1. SUFFICES ASSUME NEW j \in 0..(c.k - 1), j # k PROVE Done(j, c, n)
      BY <2>13
    <3>2. j \in 0..(call.k - 1)
      BY <1>3, <1>4, <2>3, <3>1
    <3>3. QED BY <2>12, <3>2 DEF AllDone
  <2>15. Reaches(c) = k + 1
    BY <2>3 DEF Reaches
  <2>16. ASSUME NEW x \in C
         PROVE  /\ used[x] = Share(took[x], lev[x], call.size)
                /\ Found(x, n, new, k + 1, lev, took)
    <3>1. /\ used[x] = Share(took[x], lev[x], call.size)
          /\ Found(x, bytes, call.ino, k + 1, lev, took)
      BY <1>1, <1>4 DEF Built
    <3>2. k + 1 \in Nat /\ k + 1 <= Base[3]
      BY <1>4
    <3>3. QED BY <2>3, <2>12, <3>1, <3>2
  <2>17. Built(c, C, n, used, lev, took)
    <3>1. k + 1 <= Ceil(call.size)
      BY <1>4
    <3>2. "alloc" \notin Loose
      BY DEF Loose
    <3>3. c.ino.size \in {c.size, Min({c.size, c.k * FragsPerBlock})}
      BY <1>3, <1>7, <2>3
    <3>4. QED BY <1>4, <2>3, <2>11, <2>14, <2>15, <2>16, <3>1, <3>2, <3>3 DEF Built
  <2>18. Built(call', C, bytes', used', lev, took)
    BY <1>1, <2>2, <2>5, <2>17
  <2>19. Spared(H, bytes, bytes', used, used', lev, took, lev, took)
    <3>1. SUFFICES ASSUME NEW f \in Files, NEW x \in H[f] PROVE n[x] = bytes[x]
      BY <1>1, <2>5 DEF Spared
    <3>2. x \in Blocks /\ x # h
      BY <1>4
    <3>3. QED BY <2>9, <3>2
  <2>20. errors' \in Nat /\ lost' \in SUBSET Blocks /\ (lost' # {} => errors' > 0)
    BY <1>1, <1>10, Faults
  <2>21. Follows(H, C, C)
    BY <1>1, <1>2, FollowsOn
  <2>22. /\ call' \in Calls /\ call'.pc \in Fills \ {"name"}
         /\ call'.kind = call.kind /\ call'.file = call.file /\ call'.old = call.old
    BY <2>2, <2>3, <2>4
  <2>23. IsBytes(bytes') /\ used' \in [Blocks -> Int] /\ GhostOK(H, C, lev, took)
         /\ UNCHANGED <<disk, live, contents, calls>>
    BY <1>1, <2>5, <2>9
  <2>24. QED BY ONLY <1>1, <1>2, <2>18, <2>19, <2>20, <2>21, <2>22, <2>23, FillStep
<1>11. QED BY <1>9, <1>10 DEF Fill

-----------------------------------------------------------------------------
(* The callers: what was stored is the file.                               *)
LEMMA ContentBuilt ==
    ASSUME NEW H, NEW C, NEW lev, NEW took, At(H, C, lev, took), call.pc \in {"inode", "name"}
    PROVE  /\ Content(bytes, call.ino) = call.buf /\ Kept(C, call.ino, bytes, used, lev, took)
           /\ call.buf \in Seq(Int)
<1>G. Facts(H, C, lev, took)
  BY Given
<1> USE <1>G DEF Facts
<1>1. /\ call.k = Ceil(call.size) /\ call.ino.size = call.size /\ Len(call.buf) = call.size
      /\ call.buf \in Seq(Int) /\ call.pc \notin Loose /\ Reaches(call) = call.k
  BY DEF Built, Calls, Loose, Reaches
<1>2. \A k \in 0..(Ceil(call.size) - 1) : Done(k, call, bytes)
  BY <1>1 DEF Built
<1>3. PICK size \in Nat : size = call.size
  OBVIOUS
<1>4. ASSUME NEW i \in 1..size PROVE Content(bytes, call.ino)[i] = call.buf[i]
  <2>1. Fits(size)
    BY <1>3
  <2>2. PICK k \in 0..(Base[3] - 1) : k = (i - 1) \div FragsPerBlock
    BY <2>1, FragBlock
  <2>3. PICK r \in 0..(FragsPerBlock - 1) : r = (i - 1) % FragsPerBlock
    BY <2>1, FragBlock
  <2>4. k < Ceil(size) /\ k * FragsPerBlock + r = i - 1
    BY <2>1, <2>2, <2>3, FragBlock
  <2>5. k \in 0..(Ceil(size) - 1)
    BY <1>3, <2>4
  <2>6. Lead(bytes, call.ino, k) # 0 /\ bytes[Lead(bytes, call.ino, k)].val = Piece(call, k)
    BY <1>2, <1>3, <2>5 DEF Done
  <2>7. k >= Direct => call.ino.ib[SlotOf[k]] # 0
    BY <2>6, LeadIn
  <2>8. PICK a \in Nat : a = k * FragsPerBlock
    BY Constants, Product
  <2>9. a + r < call.size /\ (a + r) + 1 = i
    BY <1>3, <2>3, <2>4, <2>8, Constants
  <2>10. Piece(call, k)[r] = call.buf[i]
    BY <2>8, <2>9 DEF Piece
  <2>11. Content(bytes, call.ino)[i] = bytes[Lead(bytes, call.ino, k)].val[r]
    BY <1>1, <1>3, <2>2, <2>3, <2>6, <2>7 DEF Content
  <2>12. QED BY <2>6, <2>10, <2>11
<1>5. Content(bytes, call.ino) = call.buf
  <2>1. Content(bytes, call.ino) = [i \in 1..size |-> Content(bytes, call.ino)[i]]
    BY <1>1, <1>3 DEF Content
  <2>2. PICK buf \in Seq(Int) : buf = call.buf
    BY <1>1
  <2>3. Len(buf) = size
    BY <1>1, <1>3, <2>2
  <2>4. buf = [i \in 1..size |-> buf[i]]
    BY <2>3
  <2>5. QED BY <1>4, <2>1, <2>2, <2>4
<1>6. Kept(C, call.ino, bytes, used, lev, took)
  BY <1>1, StoredKept
<1>7. QED BY <1>1, <1>5, <1>6

\* The file f is now what the call has stored.
Instead(f, H, C, G) == G[f] = C /\ \A g \in Files \ {f} : G[g] = H[g]

LEMMA Takes ==
    ASSUME NEW H, NEW C, NEW lev, NEW took, GhostOK(H, C, lev, took),
           NEW m, NEW u, NEW d, NEW named, NEW text, FilesOK(H, m, u, lev, took, d, named, text),
           NEW f \in Files, NEW ino, Kept(C, ino, m, u, lev, took),
           NEW e, Instead(f, d, ino, e), NEW texts, Instead(f, text, Content(m, ino), texts),
           named \in SUBSET Files
    PROVE  \E G : /\ G \in [Files -> SUBSET Blocks] /\ Instead(f, H, C, G) /\ GhostOK(G, {}, lev, took)
                  /\ FilesOK(G, m, u, lev, took, e, named \cup {f}, texts)
<1>1. /\ H \in [Files -> SUBSET Blocks] /\ C \in SUBSET Blocks
      /\ lev \in [Blocks -> 0..3] /\ took \in [Blocks -> Nat]
      /\ \A a, b \in Files : a # b => H[a] \cap H[b] = {}
      /\ \A a \in Files : H[a] \cap C = {}
  BY DEF GhostOK
<1>2. PICK G : G = [g \in Files |-> IF g = f THEN C ELSE H[g]]
  OBVIOUS
<1>3. G[f] = C /\ (\A g \in Files \ {f} : G[g] = H[g]) /\ G \in [Files -> SUBSET Blocks]
  BY <1>1, <1>2
<1>4. \A a, b \in Files : a # b => G[a] \cap G[b] = {}
  BY <1>1, <1>3
<1>5. GhostOK(G, {}, lev, took)
  BY <1>1, <1>3, <1>4 DEF GhostOK
<1>6. ASSUME NEW g \in named \cup {f}
      PROVE  Kept(G[g], e[g], m, u, lev, took) /\ Content(m, e[g]) = texts[g]
  <2>1. CASE g = f
    BY <1>3, <2>1 DEF Instead
  <2>2. CASE g # f
    <3>1. g \in named /\ G[g] = H[g] /\ e[g] = d[g] /\ texts[g] = text[g]
      BY <1>3, <2>2 DEF Instead
    <3>2. QED BY <3>1 DEF FilesOK
  <2>3. QED BY <2>1, <2>2
<1>7. ASSUME NEW g \in Files \ (named \cup {f}) PROVE G[g] = {}
  BY <1>3 DEF FilesOK
<1>8. FilesOK(G, m, u, lev, took, e, named \cup {f}, texts)
  BY <1>6, <1>7 DEF FilesOK
<1>9. QED BY <1>3, <1>5, <1>8 DEF Instead

\* A file without a name may have any inode.
LEMMA FilesDisk ==
    ASSUME NEW H, NEW m, NEW u, NEW lev, NEW took, NEW d, NEW e, NEW named, NEW text,
           FilesOK(H, m, u, lev, took, d, named, text), \A f \in named : e[f] = d[f]
    PROVE  FilesOK(H, m, u, lev, took, e, named, text)
  BY DEF FilesOK

\* Between calls what is allocated is a file's or lost, never both.
Settled(H) ==
    /\ \A b \in Blocks : used'[b] # 0 => b \in lost' \/ \E f \in Files : b \in H[f]
    /\ \A b \in lost' : used'[b] # 0 /\ \A f \in Files : b \notin H[f]

LEMMA IdleStep ==
    ASSUME Types', NEW H, NEW C, NEW lev, NEW took, GhostOK(H, C, lev, took),
           FilesOK(H, bytes', used', lev, took, disk', live', contents'),
           call' = Idle, Settled(H)
    PROVE  IInv'
<1>1. CallOK(call', H, C, bytes', used', lev, took, disk', live', errors')
  BY DEF CallOK
<1>2. Accounted(call', H, C, used', lost')
  BY DEF Accounted, Settled
<1>3. Sound(H, C, lev, took)'
  BY <1>1, <1>2 DEF Sound
<1>4. QED BY <1>3 DEF IInv

LEMMA FreeingStep ==
    ASSUME Types', NEW H, NEW C, NEW lev, NEW took, GhostOK(H, C, lev, took),
           FilesOK(H, bytes', used', lev, took, disk', live', contents'),
           call'.pc \in Freeing, Kinds(call', disk', live'), ToFree(call'.todo, H, used', errors'),
           call'.pc = "undo" => Undoing(call', C, bytes', used', lev, took),
           \A b \in Blocks : used'[b] # 0 =>
               b \in lost' \/ Names(b, call'.todo) \/ \E f \in Files : b \in H[f],
           \A b \in lost' : used'[b] # 0 /\ ~Names(b, call'.todo) /\ \A f \in Files : b \notin H[f],
           call'.pc = "undo" => \A b \in lost' : b \notin C
    PROVE  IInv'
<1>1. call'.pc \notin Fills /\ call' # Idle
  BY DEF Fills, Freeing, Idle
<1>2. CallOK(call', H, C, bytes', used', lev, took, disk', live', errors')
  BY <1>1 DEF CallOK
<1>3. Accounted(call', H, C, used', lost')
  BY <1>1 DEF Accounted
<1>4. Sound(H, C, lev, took)'
  BY <1>2, <1>3 DEF Sound
<1>5. QED BY <1>4 DEF IInv

\* A new inode is not kept: all that was stored is to be freed.
LEMMA DiscardStep ==
    ASSUME NEW H, NEW C, NEW lev, NEW took, At(H, C, lev, took), call.pc \in {"inode", "name"},
           call.kind = "create", Discard(call.ino), Fine \/ Fail,
           UNCHANGED <<used, bytes, disk, live, contents, calls, lost>>
    PROVE  IInv'
<1>G. Facts(H, C, lev, took)
  BY Given
<1>1. /\ IsBytes(bytes) /\ C \subseteq Blocks /\ Types /\ call \in Calls /\ GhostOK(H, C, lev, took)
      /\ call.ino \in Inodes
  BY <1>G DEF Facts
<1>2. Kept(C, call.ino, bytes, used, lev, took)
  BY ContentBuilt
<1>3. Outside(C, H)
  BY <1>1 DEF GhostOK, Outside
<1>4. PICK q : q = RunsOf(call.ino)
  OBVIOUS
<1>5. /\ ToFree(q, H, used, errors') /\ q \in Seq(Runs)
      /\ \A b \in C : Names(b, q)
      /\ \A b \in Blocks : Names(b, q) => b \in C
  <2>1. /\ ToFree(RunsOf(call.ino), H, used, errors') /\ RunsOf(call.ino) \in Seq(Runs)
        /\ \A b \in C : Names(b, RunsOf(call.ino))
        /\ \A b \in Blocks : Names(b, RunsOf(call.ino)) => b \in C
    BY ONLY <1>1, <1>2, <1>3, FreeAll
  <2>2. QED BY <1>4, <2>1
<1>6. call' = [call EXCEPT !.pc = "discard", !.ino = call.ino, !.todo = q]
  BY <1>4 DEF Discard
<1>7. /\ call'.pc = "discard" /\ call'.kind = call.kind /\ call'.file = call.file /\ call'.todo = q
      /\ call' \in Calls
  BY <1>1, <1>5, <1>6 DEF Calls, Freeing
<1>8. errors' \in Nat /\ lost' \in SUBSET Blocks /\ (lost' # {} => errors' > 0)
  BY <1>1, Faults
<1>9. Types'
  BY <1>1, <1>7, <1>8 DEF Types
<1>10. FilesOK(H, bytes', used', lev, took, disk', live', contents') /\ Kinds(call, disk, live)
       /\ Accounted(call, H, C, used, lost)
  BY DEF At, Sound, CallOK
<1>11. Kinds(call', disk', live')
  BY <1>7, <1>10 DEF Kinds, Fills
<1>12. /\ \A b \in Blocks : used'[b] # 0 =>
            b \in lost' \/ Names(b, call'.todo) \/ \E f \in Files : b \in H[f]
       /\ \A b \in lost' : used'[b] # 0 /\ ~Names(b, call'.todo) /\ \A f \in Files : b \notin H[f]
  BY <1>5, <1>7, LostApart
<1>13. call'.pc \in Freeing /\ ToFree(call'.todo, H, used', errors') /\ call'.pc # "undo"
  BY <1>5, <1>7 DEF Freeing
<1>14. QED BY ONLY <1>1, <1>9, <1>10, <1>11, <1>12, <1>13, FreeingStep

LEMMA AbandonedAre ==
    ASSUME NEW q \in Seq(Runs), NEW H, NEW u \in [Blocks -> Int], NEW errs, ToFree(q, H, u, errs)
    PROVE  \A b : b \in Abandoned(q, u) <=> b \in Blocks /\ Names(b, q) /\ u[b] # 0
<1>1. ASSUME NEW i \in 1..Len(q)
      PROVE  q[i].block \in Blocks /\ (u[q[i].block] > 0 <=> u[q[i].block] # 0)
  <2>1. q[i] \in Runs
    OBVIOUS
  <2>2. q[i].block \in Blocks /\ q[i].frags \in 1..FragsPerBlock
    BY <2>1 DEF Runs
  <2>3. u[q[i].block] \in {0, q[i].frags}
    BY DEF ToFree
  <2>4. QED BY <2>2, <2>3, Constants
<1>2. DOMAIN q = 1..Len(q)
  OBVIOUS
<1>3. QED BY <1>1, <1>2 DEF Abandoned, Names

LEMMA WriteInodeIInv ==
    ASSUME IInv, WriteInode
    PROVE  IInv'
<1>1. call.pc = "inode" /\ UNCHANGED <<used, bytes, live, calls>>
  BY DEF WriteInode
<1>2. PICK H, C, lev, took : At(H, C, lev, took)
  BY <1>1, Storings DEF Fills
<1>3. /\ IsBytes(bytes) /\ C \subseteq Blocks /\ Types /\ call \in Calls /\ GhostOK(H, C, lev, took)
      /\ call.ino \in Inodes /\ Built(call, C, bytes, used, lev, took) /\ call.kind \in {"create", "rewrite"}
  BY <1>2, Given DEF Facts
<1>4. /\ FilesOK(H, bytes, used, lev, took, disk, live, contents) /\ Kinds(call, disk, live)
      /\ Accounted(call, H, C, used, lost)
  BY <1>2 DEF At, Sound, CallOK
<1>5. PICK f \in Files : f = call.file
  BY <1>3 DEF Calls
<1>6. /\ Content(bytes, call.ino) = call.buf /\ Kept(C, call.ino, bytes, used, lev, took)
      /\ call.buf \in Seq(Int)
  BY <1>1, <1>2, ContentBuilt
<1>7. /\ lost \subseteq Blocks
      /\ \A b \in lost : used[b] # 0 /\ b \notin C /\ \A g \in Files : b \notin H[g]
      /\ \A b \in Blocks : used[b] # 0 /\ b \notin C => b \in lost \/ \E g \in Files : b \in H[g]
  BY <1>2, LostApart
<1>8. disk \in [Files -> Inodes] /\ contents \in [Files -> Seq(Int)] /\ live \in SUBSET Files /\ errors \in Nat
  BY <1>3 DEF Types
<1>9. CASE call.kind = "create" /\ Fine /\ UNCHANGED <<lost, contents>>
           /\ disk' = [disk EXCEPT ![call.file] = call.ino] /\ call' = [call EXCEPT !.pc = "name"]
  <2>1. /\ call' \in Calls /\ call'.pc = "name" /\ call'.kind = "create" /\ call'.file = f
        /\ call'.ino = call.ino /\ call'.k = call.k /\ call'.size = call.size /\ call'.buf = call.buf
        /\ call'.hand = call.hand
    BY <1>3, <1>5, <1>9 DEF Calls, Fills
  <2>2. disk'[f] = call.ino /\ disk' \in [Files -> Inodes] /\ \A g \in Files \ {f} : disk'[g] = disk[g]
    BY <1>3, <1>5, <1>8, <1>9
  <2>3. f \notin live
    BY <1>4, <1>5, <1>9 DEF Kinds
  <2>4. FilesOK(H, bytes', used', lev, took, disk', live', contents')
    <3>1. \A g \in live : disk'[g] = disk[g]
      BY <1>8, <2>2, <2>3
    <3>2. FilesOK(H, bytes, used, lev, took, disk', live, contents)
      BY ONLY <1>4, <3>1, FilesDisk
    <3>3. QED BY <1>1, <1>9, <3>2
  <2>5. Built(call', C, bytes', used', lev, took)
    <3>1. PICK e : e = call'
      OBVIOUS
    <3>2. /\ e.pc = "name" /\ e.kind = "create" /\ e.ino = call.ino /\ e.k = call.k /\ e.size = call.size
          /\ e.buf = call.buf /\ e.hand = call.hand
      BY <2>1, <3>1
    <3>3. \A k \in 0..(call.k - 1) : Done(k, e, bytes)
      BY <1>3, <3>2 DEF Built, Done, Piece
    <3>4. Built(e, C, bytes, used, lev, took)
      BY <1>1, <1>3, <3>2, <3>3 DEF Built, Reaches, Loose
    <3>5. QED BY <1>1, <3>1, <3>4
  <2>6. Kinds(call', disk', live')
    BY <1>1, <2>1, <2>2, <2>3 DEF Kinds
  <2>7. CallOK(call', H, C, bytes', used', lev, took, disk', live', errors')
    BY <2>1, <2>5, <2>6 DEF CallOK, Freeing
  <2>8. call' # Idle /\ call'.pc \in Fills /\ call'.pc \notin Freeing
    BY <2>1 DEF Idle, Fills, Freeing
  <2>9. Accounted(call', H, C, used', lost')
    BY <1>1, <1>7, <1>9, <2>8 DEF Accounted
  <2>10. Sound(H, C, lev, took)'
    BY <1>3, <2>4, <2>7, <2>9 DEF Sound
  <2>11. Types'
    BY <1>1, <1>3, <1>9, <2>1, <2>2 DEF Types, Fine
  <2>12. QED BY <2>10, <2>11 DEF IInv
<1>10. CASE call.kind = "rewrite" /\ Fine /\ UNCHANGED lost
            /\ disk' = [disk EXCEPT ![call.file] = call.ino]
            /\ call' = [call EXCEPT !.pc = "old", !.todo = RunsOf(Replaced)]
            /\ contents' = [contents EXCEPT ![call.file] = call.buf]
  <2>1. f \in live /\ Replaced = disk[f]
    BY <1>1, <1>4, <1>5, <1>10 DEF Kinds, Fills, Replaced
  <2>2. PICK q : q = RunsOf(disk[f])
    OBVIOUS
  <2>3. Kept(H[f], disk[f], bytes, used, lev, took) /\ H[f] \subseteq Blocks
    BY <1>3, <1>4, <2>1 DEF FilesOK, GhostOK
  <2>4. Instead(f, disk, call.ino, disk') /\ disk' \in [Files -> Inodes]
    BY <1>3, <1>5, <1>8, <1>10 DEF Instead
  <2>5. Instead(f, contents, Content(bytes, call.ino), contents') /\ contents' \in [Files -> Seq(Int)]
    BY <1>5, <1>6, <1>8, <1>10 DEF Instead
  <2>6. PICK G : /\ G \in [Files -> SUBSET Blocks] /\ Instead(f, H, C, G) /\ GhostOK(G, {}, lev, took)
                 /\ FilesOK(G, bytes, used, lev, took, disk', live \cup {f}, contents')
    BY ONLY <1>3, <1>4, <1>6, <1>8, <2>4, <2>5, Takes
  <2>7. Outside(H[f], G)
    BY <1>3, <2>6 DEF Outside, Instead, GhostOK
  <2>8. /\ ToFree(q, G, used, errors') /\ q \in Seq(Runs)
        /\ \A b \in H[f] : Names(b, q)
        /\ \A b \in Blocks : Names(b, q) => b \in H[f]
    <3>1. /\ ToFree(RunsOf(disk[f]), G, used, errors') /\ RunsOf(disk[f]) \in Seq(Runs)
          /\ \A b \in H[f] : Names(b, RunsOf(disk[f]))
          /\ \A b \in Blocks : Names(b, RunsOf(disk[f])) => b \in H[f]
      BY ONLY <1>3, <2>3, <2>7, FreeAll
    <3>2. QED BY <2>2, <3>1
  <2>9. call' = [call EXCEPT !.pc = "old", !.todo = q]
    BY <1>10, <2>1, <2>2
  <2>10. /\ call'.pc = "old" /\ call'.kind = "rewrite" /\ call'.file = f /\ call'.todo = q
         /\ call' \in Calls
    BY <1>3, <1>5, <1>10, <2>8, <2>9 DEF Calls, Freeing
  <2>11. Types'
    BY <1>1, <1>3, <1>10, <2>4, <2>5, <2>10 DEF Types, Fine
  <2>12. FilesOK(G, bytes', used', lev, took, disk', live', contents')
    <3>1. live \cup {f} = live
      BY <2>1
    <3>2. QED BY <1>1, <2>6, <3>1
  <2>13. Kinds(call', disk', live')
    BY <1>1, <2>1, <2>10 DEF Kinds, Fills
  <2>14. \A b \in Blocks : used'[b] # 0 =>
           b \in lost' \/ Names(b, call'.todo) \/ \E g \in Files : b \in G[g]
    <3>1. SUFFICES ASSUME NEW b \in Blocks, used[b] # 0, b \notin lost
                   PROVE  Names(b, call'.todo) \/ \E g \in Files : b \in G[g]
      BY <1>1, <1>10
    <3>2. CASE b \in C
      BY <2>6, <3>2 DEF Instead
    <3>3. CASE \E g \in Files : b \in H[g]
      <4>1. PICK g \in Files : b \in H[g]
        BY <3>3
      <4>2. CASE g = f
        BY <2>8, <2>10, <4>1, <4>2
      <4>3. CASE g # f
        BY <2>6, <4>1, <4>3 DEF Instead
      <4>4. QED BY <4>2, <4>3
    <3>4. QED BY <1>7, <3>1, <3>2, <3>3
  <2>15. call'.pc \in Freeing /\ ToFree(call'.todo, G, used', errors') /\ call'.pc # "undo"
    BY <1>1, <2>8, <2>10 DEF Freeing
  <2>16. \A b \in lost' : used'[b] # 0 /\ ~Names(b, call'.todo) /\ \A g \in Files : b \notin G[g]
    <3>1. SUFFICES ASSUME NEW b \in lost
                   PROVE  used[b] # 0 /\ ~Names(b, q) /\ \A g \in Files : b \notin G[g]
      BY <1>1, <1>10, <2>10
    <3>2. b \in Blocks /\ used[b] # 0 /\ b \notin C /\ \A g \in Files : b \notin H[g]
      BY <1>7
    <3>3. QED BY <2>6, <2>8, <3>2 DEF Instead
  <2>17. QED BY ONLY <2>6, <2>11, <2>12, <2>13, <2>14, <2>15, <2>16, FreeingStep
<1>11. CASE call.kind = "create" /\ Fail /\ UNCHANGED <<disk, contents, lost>> /\ Discard(call.ino)
  <2>1. UNCHANGED <<used, bytes, disk, live, contents, calls, lost>>
    BY <1>1, <1>11
  <2>2. QED BY <1>1, <1>2, <1>11, <2>1, DiscardStep
<1>12. CASE call.kind = "rewrite" /\ Fail /\ UNCHANGED <<disk, contents>> /\ call' = Idle
            /\ lost' = lost \cup Abandoned(RunsOf(call.ino), used)
  <2>1. PICK q : q = RunsOf(call.ino)
    OBVIOUS
  <2>2. Outside(C, H) /\ used \in [Blocks -> Int]
    BY <1>3 DEF GhostOK, Outside, Types
  <2>3. /\ ToFree(q, H, used, errors) /\ q \in Seq(Runs)
        /\ \A b \in C : Names(b, q)
        /\ \A b \in Blocks : Names(b, q) => b \in C
    <3>1. /\ ToFree(RunsOf(call.ino), H, used, errors) /\ RunsOf(call.ino) \in Seq(Runs)
          /\ \A b \in C : Names(b, RunsOf(call.ino))
          /\ \A b \in Blocks : Names(b, RunsOf(call.ino)) => b \in C
      BY ONLY <1>3, <1>6, <2>2, FreeAll
    <3>2. QED BY <2>1, <3>1
  <2>4. \A b : b \in Abandoned(q, used) <=> b \in Blocks /\ Names(b, q) /\ used[b] # 0
    BY <2>2, <2>3, AbandonedAre
  <2>5. Abandoned(q, used) \subseteq Blocks /\ lost' = lost \cup Abandoned(q, used)
    BY <1>12, <2>1, <2>4
  <2>6. errors' \in Nat /\ lost' \in SUBSET Blocks /\ (lost' # {} => errors' > 0)
    BY <1>3, <1>12, <2>5, FaultMore
  <2>7. Types'
    BY <1>1, <1>3, <1>12, <2>6 DEF Types
  <2>8. FilesOK(H, bytes', used', lev, took, disk', live', contents')
    BY <1>1, <1>4, <1>12
  <2>9. Settled(H)
    <3>1. \A b \in Blocks : used[b] # 0 => b \in lost' \/ \E g \in Files : b \in H[g]
      BY <1>7, <2>3, <2>4, <2>5
    <3>2. \A b \in lost' : used[b] # 0 /\ \A g \in Files : b \notin H[g]
      BY <1>7, <2>2, <2>3, <2>4, <2>5 DEF Outside
    <3>3. QED BY <1>1, <3>1, <3>2 DEF Settled
  <2>10. QED BY <1>3, <1>12, <2>7, <2>8, <2>9, IdleStep
<1>13. QED BY <1>3, <1>9, <1>10, <1>11, <1>12 DEF WriteInode

LEMMA WriteNameIInv ==
    ASSUME IInv, WriteName
    PROVE  IInv'
<1>1. call.pc = "name" /\ UNCHANGED <<used, bytes, disk, calls, errors, lost>>
  BY DEF WriteName
<1>2. PICK H, C, lev, took : At(H, C, lev, took)
  BY <1>1, Storings DEF Fills
<1>3. /\ Types /\ call \in Calls /\ GhostOK(H, C, lev, took)
  BY <1>2, Given DEF Facts
<1>4. /\ FilesOK(H, bytes, used, lev, took, disk, live, contents) /\ Kinds(call, disk, live)
      /\ Accounted(call, H, C, used, lost)
  BY <1>2 DEF At, Sound, CallOK
<1>5. PICK f \in Files : f = call.file
  BY <1>3 DEF Calls
<1>6. /\ Content(bytes, call.ino) = call.buf /\ Kept(C, call.ino, bytes, used, lev, took)
      /\ call.buf \in Seq(Int)
  BY <1>1, <1>2, ContentBuilt
<1>7. call.kind = "create" /\ disk[f] = call.ino
  BY <1>1, <1>4, <1>5 DEF Kinds
<1>8. CASE call' = Idle /\ live' = live \cup {call.file}
           /\ contents' = [contents EXCEPT ![call.file] = call.buf]
  <2>1. live \in SUBSET Files /\ contents \in [Files -> Seq(Int)]
    BY <1>3 DEF Types
  <2>2. Instead(f, disk, call.ino, disk)
    BY <1>7 DEF Instead
  <2>3. Instead(f, contents, Content(bytes, call.ino), contents') /\ contents' \in [Files -> Seq(Int)]
    BY <1>5, <1>6, <1>8, <2>1 DEF Instead
  <2>4. PICK G : /\ G \in [Files -> SUBSET Blocks] /\ Instead(f, H, C, G) /\ GhostOK(G, {}, lev, took)
                 /\ FilesOK(G, bytes, used, lev, took, disk, live \cup {f}, contents')
    BY ONLY <1>3, <1>4, <1>6, <2>1, <2>2, <2>3, Takes
  <2>5. Types'
    BY <1>1, <1>3, <1>5, <1>8, <2>3 DEF Types
  <2>6. FilesOK(G, bytes', used', lev, took, disk', live', contents')
    BY <1>1, <1>5, <1>8, <2>4
  <2>7. Settled(G)
    <3>1. /\ \A b \in lost : used[b] # 0 /\ b \notin C /\ \A g \in Files : b \notin H[g]
          /\ \A b \in Blocks : used[b] # 0 /\ b \notin C => b \in lost \/ \E g \in Files : b \in H[g]
      BY <1>2, LostApart
    <3>2. ASSUME NEW b \in Blocks, used[b] # 0, b \notin lost PROVE \E g \in Files : b \in G[g]
      <4>1. CASE b \in C
        BY <2>4, <4>1 DEF Instead
      <4>2. CASE b \notin C
        <5>1. PICK g \in Files : b \in H[g]
          BY <3>1, <3>2, <4>2
        <5>2. g # f
          <6>1. f \notin live
            BY <1>4, <1>5, <1>7 DEF Kinds
          <6>2. QED BY <1>4, <5>1, <6>1 DEF FilesOK
        <5>3. QED BY <2>4, <5>1, <5>2 DEF Instead
      <4>3. QED BY <4>1, <4>2
    <3>3. ASSUME NEW b \in lost PROVE used[b] # 0 /\ \A g \in Files : b \notin G[g]
      BY <2>4, <3>1 DEF Instead
    <3>4. QED BY <1>1, <3>2, <3>3 DEF Settled
  <2>8. QED BY <1>8, <2>4, <2>5, <2>6, <2>7, IdleStep
<1>9. CASE Discard(call.ino) /\ UNCHANGED <<live, contents>>
  <2>1. UNCHANGED <<used, bytes, disk, live, contents, calls, lost>> /\ (Fine \/ Fail)
    BY <1>1, <1>9 DEF Fine
  <2>2. QED BY <1>1, <1>2, <1>7, <1>9, <2>1, DiscardStep
<1>10. QED BY <1>8, <1>9 DEF WriteName

-----------------------------------------------------------------------------
(* Freeing, run by run.                                                    *)
LEMMA RunTyped ==
    ASSUME NEW S, S \subseteq Blocks, NEW m, NEW lev, NEW took, NEW ino,
           Stands(S, ino, m, lev, took), NEW b \in S
    PROVE  /\ RunOf(b, lev, took, ino.size) \in Runs
           /\ RunOf(b, lev, took, ino.size).block = b
           /\ RunOf(b, lev, took, ino.size).frags = Share(took[b], lev[b], ino.size)
           /\ lev[b] = 0 => RunOf(b, lev, took, ino.size).slot = NoSlot
           /\ lev[b] # 0 => /\ RunOf(b, lev, took, ino.size).slot = SlotOf[took[b]]
                            /\ SlotOf[took[b]] \in Slots /\ NoSlot \notin Slots
<1>1. PICK s : s = IF lev[b] = 0 THEN NoSlot ELSE SlotOf[took[b]]
  OBVIOUS
<1>2. lev[b] # 0 => SlotOf[took[b]] \in Slots
  <2>1. lev[b] # 0 => took[b] \in Deep
    BY DEF Stands, Found
  <2>2. QED BY <2>1, Slot
<1>3. PICK w \in 1..FragsPerBlock : w = Share(took[b], lev[b], ino.size)
  BY ShareIs
<1>4. RunOf(b, lev, took, ino.size) = [block |-> b, frags |-> w, slot |-> s]
  BY <1>1, <1>3 DEF RunOf
<1>5. s \in Slots \cup {NoSlot} /\ NoSlot \notin Slots
  BY <1>1, <1>2 DEF Slots, NoSlot
<1>6. QED BY <1>1, <1>2, <1>3, <1>4, <1>5 DEF Runs

\* The inode that is left when some of the slots were not yet freed.
Left(left, ino, slots) ==
    /\ left \in Inodes /\ left.size = ino.size
    /\ left.db = ino.db \/ (NoSlot \notin slots /\ \A k \in 0..(Direct - 1) : left.db[k] = 0)
    /\ \A s \in Slots : left.ib[s] = IF s \in slots THEN ino.ib[s] ELSE 0

LEMMA LeftIs ==
    ASSUME NEW ino \in Inodes, NEW todo
    PROVE  Left(LeftOf(ino, todo), ino, {todo[i].slot : i \in DOMAIN todo})
<1>1. PICK slots : slots = {todo[i].slot : i \in DOMAIN todo}
  OBVIOUS
<1>2. PICK db : db = IF NoSlot \in slots THEN ino.db ELSE Empty.db
  OBVIOUS
<1>3. PICK ib : ib = [s \in Slots |-> IF s \in slots THEN ino.ib[s] ELSE 0]
  OBVIOUS
<1>4. LeftOf(ino, todo) = [ino EXCEPT !.db = db, !.ib = ib]
  BY <1>1, <1>2, <1>3 DEF LeftOf
<1>5. Empty.db \in [0..(Direct - 1) -> 0..NBlocks] /\ \A k \in 0..(Direct - 1) : Empty.db[k] = 0
  BY Constants DEF Empty
<1>6. db \in [0..(Direct - 1) -> 0..NBlocks]
  BY <1>2, <1>5 DEF Inodes
<1>7. ib \in [Slots -> 0..NBlocks] /\ \A s \in Slots : ib[s] = IF s \in slots THEN ino.ib[s] ELSE 0
  BY <1>3, Constants DEF Inodes
<1>8. PICK left : left = [ino EXCEPT !.db = db, !.ib = ib]
  OBVIOUS
<1>9. left \in Inodes /\ left.size = ino.size /\ left.db = db /\ left.ib = ib
  BY <1>6, <1>7, <1>8 DEF Inodes
<1>10. Left(left, ino, slots)
  BY <1>2, <1>5, <1>7, <1>9 DEF Left
<1>11. QED BY <1>1, <1>4, <1>8, <1>10

\* What is left has the shape, and what lies in its slots is still found.
LEMMA LeftStands ==
    ASSUME NEW S, S \subseteq Blocks, NEW m, NEW ino, NEW lev, NEW took,
           Stands(S, ino, m, lev, took), NEW left, NEW slots, Left(left, ino, slots)
    PROVE  /\ Shape(m, left, S, lev, took)
           /\ \A b \in S : lev[b] # 0 /\ SlotOf[took[b]] \in slots
                => Found(b, m, left, Ceil(ino.size), lev, took)
           /\ \A b \in S : /\ lev[b] = 0 /\ NoSlot \in slots
                           /\ (took[b] >= Direct /\ ino.ib[SlotOf[took[b]]] # 0 => SlotOf[took[b]] \in slots)
                => Found(b, m, left, Ceil(ino.size), lev, took)
<1>1. /\ ino \in Inodes /\ Fits(ino.size) /\ Shape(m, ino, S, lev, took)
      /\ \A b \in S : Found(b, m, ino, Ceil(ino.size), lev, took)
  BY DEF Stands
<1>2. /\ \A k \in 0..(Direct - 1) : left.db[k] # 0 => left.db[k] = ino.db[k]
      /\ \A s \in Slots : left.ib[s] # 0 => left.ib[s] = ino.ib[s]
  BY DEF Left
<1>3. Shape(m, left, S, lev, took)
  BY <1>1, <1>2 DEF Shape, Rooted
<1>4. ASSUME NEW k \in Deep, SlotOf[k] \in slots, NEW l \in 0..3, l <= Top(k)
      PROVE  Way(m, left, k, l) = Way(m, ino, k, l)
  <2>1. left.ib[SlotOf[k]] = ino.ib[SlotOf[k]]
    BY <1>4, Slot DEF Left
  <2>2. \A h \in 1..3 : h <= Top(k) /\ Way(m, ino, k, h) # 0
          => m[Way(m, ino, k, h)].ent[Entry(k, h)] = m[Way(m, ino, k, h)].ent[Entry(k, h)]
    OBVIOUS
  <2>3. \A h \in 0..3 : h <= Top(k) => Way(m, left, k, h) = Way(m, ino, k, h)
    BY <2>1, <2>2, WayKept
  <2>4. QED BY <1>4, <2>3
<1>5. ASSUME NEW b \in S, lev[b] # 0, SlotOf[took[b]] \in slots
      PROVE  Found(b, m, left, Ceil(ino.size), lev, took)
  <2>1. took[b] \in Deep /\ lev[b] \in 1..3 /\ lev[b] <= Top(took[b]) /\ Way(m, ino, took[b], lev[b]) = b
    BY <1>1, <1>5 DEF Found
  <2>2. Way(m, left, took[b], lev[b]) = b
    <3>1. lev[b] \in 0..3
      BY <2>1
    <3>2. QED BY <1>4, <1>5, <2>1, <3>1
  <2>3. QED BY <1>5, <2>1, <2>2 DEF Found
<1>6. ASSUME NEW b \in S, lev[b] = 0, NoSlot \in slots,
             took[b] >= Direct /\ ino.ib[SlotOf[took[b]]] # 0 => SlotOf[took[b]] \in slots
      PROVE  Found(b, m, left, Ceil(ino.size), lev, took)
  <2>1. took[b] \in 0..(Ceil(ino.size) - 1) /\ Lead(m, ino, took[b]) = b /\ b # 0
    BY <1>1, <1>6 DEF Found, Blocks
  <2>2. took[b] \in 0..(Base[3] - 1)
    <3>1. ino.size \in Nat /\ Ceil(ino.size) \in Nat /\ Ceil(ino.size) <= Base[3]
      BY <1>1, SizeFits
    <3>2. QED BY <2>1, <3>1, Bases
  <2>3. CASE took[b] < Direct
    BY <1>6, <2>1, <2>3 DEF Left, Lead, Found
  <2>4. CASE ~(took[b] < Direct)
    <3>1. took[b] \in Deep /\ took[b] >= Direct
      BY <2>2, <2>4, Constants, Bases DEF Deep
    <3>2. ino.ib[SlotOf[took[b]]] # 0
      BY <1>1, <2>1, <2>2, <3>1, LeadIn
    <3>3. SlotOf[took[b]] \in slots /\ 0 \in 0..3 /\ 0 <= Top(took[b])
      BY <1>6, <3>1, <3>2, Slot
    <3>4. Way(m, left, took[b], 0) = Way(m, ino, took[b], 0)
      BY <1>4, <3>1, <3>3
    <3>5. Lead(m, left, took[b]) = b
      BY <2>1, <2>4, <3>4 DEF Lead
    <3>6. QED BY <1>6, <2>1, <3>5 DEF Found
  <2>5. QED BY <2>3, <2>4
<1>7. QED BY <1>3, <1>5, <1>6

\* What a step of freeing finds.
Frees(H, C, lev, took) ==
    /\ Types /\ call \in Calls /\ call # Idle /\ call.pc \notin Fills /\ call.file \in Files
    /\ GhostOK(H, C, lev, took) /\ C \subseteq Blocks
    /\ FilesOK(H, bytes, used, lev, took, disk, live, contents)
    /\ Kinds(call, disk, live) /\ Accounted(call, H, C, used, lost)
    /\ call.todo \in Seq(Runs)
    /\ call.pc \in Freeing => ToFree(call.todo, H, used, errors)
    /\ call.pc = "undo" => Undoing(call, C, bytes, used, lev, took)

LEMMA Freeings ==
    ASSUME IInv, call.pc \in Freeing \cup {"clear"}
    PROVE  \E H, C, lev, took : Frees(H, C, lev, took)
<1>1. PICK H, C, lev, took : Sound(H, C, lev, took)
  BY DEF IInv
<1>2. call # Idle /\ call.pc \notin Fills
  BY DEF Idle, Freeing, Fills
<1>3. call \in Calls /\ Types
  BY <1>2 DEF IInv, Types
<1>4. call.file \in Files /\ call.todo \in Seq(Runs)
  BY <1>3 DEF Calls
<1>5. Frees(H, C, lev, took)
  BY <1>1, <1>2, <1>3, <1>4 DEF Frees, Sound, CallOK, GhostOK
<1>6. QED BY <1>5

\* The first run and the rest.
LEMMA HeadTail ==
    ASSUME NEW S, NEW q \in Seq(S), q # <<>>
    PROVE  /\ Len(q) \in Nat \ {0} /\ Head(q) = q[1] /\ Head(q) \in S
           /\ Tail(q) \in Seq(S) /\ Len(Tail(q)) = Len(q) - 1
           /\ \A i \in 1..Len(Tail(q)) : Tail(q)[i] = q[i + 1] /\ i + 1 \in 1..Len(q)
  OBVIOUS

LEMMA FreedIs ==
    ASSUME NEW H, NEW C, NEW lev, NEW took, Frees(H, C, lev, took),
           call.pc \in Freeing, call.todo # <<>>, used[Head(call.todo).block] >= Head(call.todo).frags,
           used' = Freed(Head(call.todo).block, Head(call.todo).frags)
    PROVE  /\ Head(call.todo).block \in Blocks /\ used' \in [Blocks -> Int]
           /\ used'[Head(call.todo).block] = 0 /\ \A f \in Files : Head(call.todo).block \notin H[f]
           /\ \A x \in Blocks : x # Head(call.todo).block => used'[x] = used[x]
<1>1. PICK r \in Runs : r = Head(call.todo) /\ r = call.todo[1] /\ Len(call.todo) \in Nat \ {0}
  BY HeadTail DEF Frees
<1>2. r.block \in Blocks /\ r.frags \in 1..FragsPerBlock /\ FragsPerBlock \in Nat
  BY Constants DEF Runs
<1>3. used \in [Blocks -> Int] /\ ToFree(call.todo, H, used, errors)
  BY DEF Frees, Types
<1>4. used[r.block] \in {0, r.frags} /\ \A f \in Files : r.block \notin H[f]
  <2>1. 1 \in 1..Len(call.todo)
    BY <1>1
  <2>2. QED BY <1>1, <1>3, <2>1 DEF ToFree
<1>5. used[r.block] >= r.frags
  BY <1>1
<1>6. used[r.block] = r.frags
  BY <1>2, <1>4, <1>5
<1>7. used' = [used EXCEPT ![r.block] = used[r.block] - r.frags]
  BY <1>1 DEF Freed
<1>8. used[r.block] - r.frags = 0
  BY <1>2, <1>6
<1>9. used' = [used EXCEPT ![r.block] = 0]
  BY <1>7, <1>8
<1>10. used' \in [Blocks -> Int] /\ used'[r.block] = 0 /\ \A x \in Blocks : x # r.block => used'[x] = used[x]
  BY <1>2, <1>3, <1>9
<1>11. QED BY <1>1, <1>2, <1>4, <1>10

\* One run less.
LEMMA ToFreeTail ==
    ASSUME NEW q \in Seq(Runs), q # <<>>, NEW H, NEW u, NEW v, NEW errs, ToFree(q, H, u, errs),
           v[Head(q).block] = 0, \A x \in Blocks : x # Head(q).block => v[x] = u[x]
    PROVE  ToFree(Tail(q), H, v, errs)
<1>1. PICK t \in Seq(Runs) : t = Tail(q) /\ Len(t) = Len(q) - 1 /\ Len(q) \in Nat \ {0} /\ Head(q) = q[1]
  BY HeadTail
<1>2. \A i \in 1..Len(t) : t[i] = q[i + 1] /\ i + 1 \in 1..Len(q) /\ t[i] \in Runs
  BY <1>1, HeadTail
<1>3. \A i \in 1..Len(t) : t[i].block \in Blocks
  BY <1>2 DEF Runs
<1>4. \A i \in 1..Len(q) : (\A f \in Files : q[i].block \notin H[f]) /\ u[q[i].block] \in {0, q[i].frags}
  BY DEF ToFree
<1>5. ASSUME NEW i \in 1..Len(t)
      PROVE  (\A f \in Files : t[i].block \notin H[f]) /\ v[t[i].block] \in {0, t[i].frags}
  <2>1. (\A f \in Files : t[i].block \notin H[f]) /\ u[t[i].block] \in {0, t[i].frags}
    BY <1>2, <1>4
  <2>2. QED BY <1>3, <2>1
<1>6. ASSUME errs = 0
      PROVE  /\ \A i \in 1..Len(t) : v[t[i].block] = t[i].frags
             /\ \A i, j \in 1..Len(t) : t[i].block = t[j].block => i = j
  <2>1. /\ \A i \in 1..Len(q) : u[q[i].block] = q[i].frags
        /\ \A i, j \in 1..Len(q) : q[i].block = q[j].block => i = j
    BY <1>6 DEF ToFree
  <2>2. ASSUME NEW i \in 1..Len(t) PROVE v[t[i].block] = t[i].frags
    <3>1. PICK j \in 1..Len(q) : j = i + 1 /\ t[i] = q[j]
      BY <1>2
    <3>2. j # 1 /\ 1 \in 1..Len(q)
      BY <1>1, <3>1
    <3>3. q[j].block # q[1].block
      BY <2>1, <3>2
    <3>4. QED BY <1>1, <1>3, <2>1, <3>1, <3>3
  <2>3. ASSUME NEW i \in 1..Len(t), NEW j \in 1..Len(t), t[i].block = t[j].block PROVE i = j
    <3>1. i + 1 \in 1..Len(q) /\ j + 1 \in 1..Len(q) /\ q[i + 1].block = q[j + 1].block
      BY <1>2, <2>3
    <3>2. i + 1 = j + 1
      BY <2>1, <3>1
    <3>3. QED BY <3>2
  <2>4. QED BY <2>2, <2>3
<1>7. ToFree(t, H, v, errs)
  BY <1>5, <1>6 DEF ToFree
<1>8. QED BY <1>1, <1>7

LEMMA UndoingTail ==
    ASSUME NEW c, c.todo # <<>>, NEW C, C \subseteq Blocks, NEW m, NEW u, NEW lev, NEW took,
           Undoing(c, C, m, u, lev, took), NEW v, NEW r, r = Head(c.todo).block,
           v[r] = 0, \A x \in Blocks : x # r => v[x] = u[x],
           NEW e, e.kind = c.kind, e.ino = c.ino, e.todo = Tail(c.todo)
    PROVE  Undoing(e, C, m, v, lev, took)
<1>1. /\ c.kind # "unlink" /\ Stands(C, c.ino, m, lev, took)
      /\ \A b \in C : u[b] \in {0, Share(took[b], lev[b], c.ino.size)}
      /\ c.todo \in Seq(RunSet(C, lev, took, c.ino.size)) /\ Ordered(c.todo)
      /\ (\E i \in 1..Len(c.todo) : c.todo[i].slot = NoSlot)
           => \A b \in C : lev[b] # 0 => InSeq(RunOf(b, lev, took, c.ino.size), c.todo)
  BY DEF Undoing
<1>2. PICK R : R = RunSet(C, lev, took, c.ino.size)
  OBVIOUS
<1> DEFINE q == c.todo
           t == Tail(c.todo)
<1>3. /\ q \in Seq(R) /\ t \in Seq(R)
      /\ Len(t) = Len(q) - 1 /\ Len(q) \in Nat \ {0} /\ Head(q) = q[1]
      /\ \A i \in 1..Len(t) : t[i] = q[i + 1] /\ i + 1 \in 1..Len(q)
  <2>1. q \in Seq(R) /\ q # <<>>
    BY <1>1, <1>2
  <2> HIDE DEF q
  <2>2. /\ Len(q) \in Nat \ {0} /\ Head(q) = q[1] /\ Head(q) \in R
        /\ Tail(q) \in Seq(R) /\ Len(Tail(q)) = Len(q) - 1
        /\ \A i \in 1..Len(Tail(q)) : Tail(q)[i] = q[i + 1] /\ i + 1 \in 1..Len(q)
    BY ONLY <2>1, HeadTail
  <2>3. t = Tail(q)
    BY DEF q
  <2>4. QED BY <2>1, <2>2, <2>3
<1>4. \A b \in C : v[b] \in {0, Share(took[b], lev[b], c.ino.size)}
  BY <1>1
<1>5. Ordered(t)
  <2>1. ASSUME NEW i \in 1..Len(t), NEW j \in 1..Len(t), t[i].slot # NoSlot, t[j].slot = NoSlot
        PROVE  j < i
    <3>1. /\ i + 1 \in 1..Len(q) /\ j + 1 \in 1..Len(q) /\ q[i + 1].slot # NoSlot /\ q[j + 1].slot = NoSlot
      BY <1>3, <2>1
    <3>2. j + 1 < i + 1
      BY <1>1, <3>1 DEF Ordered
    <3>3. QED BY <3>2
  <2>2. QED BY <2>1 DEF Ordered
<1>6. ASSUME NEW i \in 1..Len(t), t[i].slot = NoSlot, NEW b \in C, lev[b] # 0
      PROVE  InSeq(RunOf(b, lev, took, c.ino.size), t)
  <2>1. i + 1 \in 1..Len(q) /\ 1 \in 1..Len(q) /\ q[i + 1].slot = NoSlot
    BY <1>3, <1>6
  <2>2. q[1].slot = NoSlot
    <3>1. ~(i + 1 < 1)
      OBVIOUS
    <3>2. QED BY <1>1, <2>1, <3>1 DEF Ordered
  <2>3. InSeq(RunOf(b, lev, took, c.ino.size), q)
    BY <1>1, <1>6, <2>1
  <2>4. PICK j \in 1..Len(q) : q[j] = RunOf(b, lev, took, c.ino.size)
    BY <2>3 DEF InSeq
  <2>5. RunOf(b, lev, took, c.ino.size).slot # NoSlot
    BY <1>1, <1>6, RunTyped
  <2>6. j # 1
    BY <2>2, <2>4, <2>5
  <2>7. j - 1 \in 1..Len(t) /\ (j - 1) + 1 = j
    BY <1>3, <2>6
  <2>8. t[j - 1] = q[j]
    BY <1>3, <2>7
  <2>9. QED BY <2>4, <2>7, <2>8 DEF InSeq
<1>7. e.todo = t
  OBVIOUS
<1> HIDE DEF q, t
<1>8. QED BY <1>1, <1>2, <1>3, <1>4, <1>5, <1>6, <1>7 DEF Undoing

LEMMA FreedIInv ==
    ASSUME IInv, call.pc \in Freeing, call.todo # <<>>, UNCHANGED <<bytes, disk, live, contents, calls, lost>>,
           Fine, used[Head(call.todo).block] >= Head(call.todo).frags,
           used' = Freed(Head(call.todo).block, Head(call.todo).frags),
           call' = [call EXCEPT !.todo = Tail(@)]
    PROVE  IInv'
<1>1. PICK H, C, lev, took : Frees(H, C, lev, took)
  BY Freeings
<1>2. /\ Types /\ call \in Calls /\ call # Idle /\ call.pc \notin Fills
      /\ GhostOK(H, C, lev, took) /\ C \subseteq Blocks
      /\ FilesOK(H, bytes, used, lev, took, disk, live, contents)
      /\ Kinds(call, disk, live) /\ Accounted(call, H, C, used, lost)
      /\ ToFree(call.todo, H, used, errors)
      /\ call.pc = "undo" => Undoing(call, C, bytes, used, lev, took)
  BY <1>1 DEF Frees
<1>3. PICK q \in Seq(Runs) : q = call.todo /\ q # <<>>
  BY <1>1 DEF Frees
<1>4. /\ Len(q) \in Nat \ {0} /\ Head(q) = q[1] /\ Tail(q) \in Seq(Runs) /\ Len(Tail(q)) = Len(q) - 1
      /\ \A i \in 1..Len(Tail(q)) : Tail(q)[i] = q[i + 1] /\ i + 1 \in 1..Len(q)
  BY <1>3, HeadTail
<1>5. PICK r \in Blocks : r = Head(q).block
  BY <1>1, <1>3, FreedIs
<1>6. PICK v \in [Blocks -> Int] : v = used'
  BY <1>1, FreedIs
<1>7. v[r] = 0 /\ (\A f \in Files : r \notin H[f]) /\ \A x \in Blocks : x # r => v[x] = used[x]
  BY <1>1, <1>3, <1>5, <1>6, FreedIs
<1>8. PICK c : c = call'
  OBVIOUS
<1>9. /\ c \in Calls /\ c.pc = call.pc /\ c.kind = call.kind /\ c.file = call.file /\ c.ino = call.ino
      /\ c.todo = Tail(q)
  BY <1>2, <1>3, <1>4, <1>8 DEF Calls
<1>10. Types'
  <2>1. errors' = errors
    BY DEF Fine
  <2>2. call' \in Calls /\ used' \in [Blocks -> Int]
    BY <1>6, <1>8, <1>9
  <2>3. QED BY <1>2, <2>1, <2>2 DEF Types
<1>11. FilesOK(H, bytes', used', lev, took, disk', live', contents')
  <2>1. Spared(H, bytes, bytes, used, v, lev, took, lev, took)
    <3>1. \A f \in Files : \A b \in H[f] : b \in Blocks /\ b # r
      BY <1>2, <1>7 DEF GhostOK
    <3>2. QED BY <1>7, <3>1 DEF Spared
  <2>2. live \in SUBSET Files
    BY <1>2 DEF Types
  <2>3. FilesOK(H, bytes, v, lev, took, disk, live, contents)
    BY ONLY <1>2, <2>1, <2>2, FilesKept
  <2>4. QED BY <1>6, <2>3
<1>12. Kinds(call', disk', live')
  BY <1>2, <1>8, <1>9 DEF Kinds
<1>13. ToFree(call'.todo, H, used', errors')
  <2>1. ToFree(Tail(q), H, v, errors)
    BY <1>2, <1>3, <1>5, <1>7, ToFreeTail
  <2>2. QED BY <1>6, <1>8, <1>9, <2>1 DEF Fine
<1>14. call'.pc = "undo" => Undoing(call', C, bytes', used', lev, took)
  <2>1. SUFFICES ASSUME c.pc = "undo" PROVE Undoing(c, C, bytes, v, lev, took)
    BY <1>6, <1>8
  <2>2. Undoing(call, C, bytes, used, lev, took)
    BY <1>2, <1>9, <2>1
  <2>3. r = Head(call.todo).block /\ c.todo = Tail(call.todo) /\ call.todo # <<>>
    BY <1>3, <1>5, <1>9
  <2>4. QED BY <1>2, <1>7, <1>9, <2>2, <2>3, UndoingTail
<1>15. \A b \in Blocks : used'[b] # 0 =>
         b \in lost' \/ Names(b, call'.todo) \/ \E f \in Files : b \in H[f]
  <2>1. SUFFICES ASSUME NEW b \in Blocks, v[b] # 0, b \notin lost
                 PROVE  Names(b, Tail(q)) \/ \E f \in Files : b \in H[f]
    BY <1>6, <1>8, <1>9
  <2>2. b # r /\ used[b] # 0
    BY <1>7, <2>1
  <2>3. Names(b, q) \/ \E f \in Files : b \in H[f]
    BY <1>2, <1>3, <2>1, <2>2 DEF Accounted
  <2>4. ASSUME Names(b, q) PROVE Names(b, Tail(q))
    <3>1. PICK i \in 1..Len(q) : q[i].block = b
      BY <2>4 DEF Names
    <3>2. i # 1
      BY <1>4, <1>5, <2>2, <3>1
    <3>3. i - 1 \in 1..Len(Tail(q)) /\ (i - 1) + 1 = i
      BY <1>4, <3>2
    <3>4. Tail(q)[i - 1] = q[i]
      BY <1>4, <3>3
    <3>5. QED BY <3>1, <3>3, <3>4 DEF Names
  <2>5. QED BY <2>3, <2>4
<1>16. call'.pc \in Freeing
  BY <1>8, <1>9
<1>17. \A b \in lost' : used'[b] # 0 /\ ~Names(b, call'.todo) /\ \A f \in Files : b \notin H[f]
  <2>1. SUFFICES ASSUME NEW b \in lost
                 PROVE  v[b] # 0 /\ ~Names(b, Tail(q)) /\ \A f \in Files : b \notin H[f]
    BY <1>6, <1>8, <1>9
  <2>2. b \in Blocks /\ used[b] # 0 /\ ~Names(b, q) /\ \A f \in Files : b \notin H[f]
    BY <1>2, <1>3 DEF Accounted, Types
  <2>3. b # r
    BY <1>4, <1>5, <2>2 DEF Names
  <2>4. ~Names(b, Tail(q))
    BY <1>4, <2>2 DEF Names
  <2>5. QED BY <1>7, <2>2, <2>3, <2>4
<1>18. call'.pc = "undo" => \A b \in lost' : b \notin C
  BY <1>2, <1>8, <1>9 DEF Accounted
<1>19. QED BY ONLY <1>2, <1>10, <1>11, <1>12, <1>13, <1>14, <1>15, <1>16, <1>17, <1>18, FreeingStep

\* Undoing failed: discard_new_inode frees what the inode still names.
Remains(left, c) == Left(left, c.ino, {c.todo[i].slot : i \in DOMAIN c.todo})
NamesAll(c, q) == \A b \in Blocks : Names(b, c.todo) => Names(b, q)
NamesOnly(q, C) == \A b \in Blocks : Names(b, q) => b \in C

LEMMA LeftFree ==
    ASSUME IsBytes(bytes), NEW C, C \subseteq Blocks, NEW u, NEW lev, NEW took, NEW c,
           Undoing(c, C, bytes, u, lev, took), NEW H, Outside(C, H), NEW errs, errs # 0,
           NEW left, Remains(left, c)
    PROVE  /\ ToFree(RunsOf(left), H, u, errs) /\ RunsOf(left) \in Seq(Runs) /\ NamesAll(c, RunsOf(left))
           /\ NamesOnly(RunsOf(left), C)
<1>1. /\ c.kind # "unlink" /\ Stands(C, c.ino, bytes, lev, took)
      /\ \A b \in C : u[b] \in {0, Share(took[b], lev[b], c.ino.size)}
      /\ c.todo \in Seq(RunSet(C, lev, took, c.ino.size)) /\ Ordered(c.todo)
      /\ (\E i \in 1..Len(c.todo) : c.todo[i].slot = NoSlot)
           => \A b \in C : lev[b] # 0 => InSeq(RunOf(b, lev, took, c.ino.size), c.todo)
  BY DEF Undoing
<1>2. PICK slots : slots = {c.todo[i].slot : i \in DOMAIN c.todo}
  OBVIOUS
<1>3. PICK size \in Nat : size = c.ino.size /\ size = left.size /\ Fits(size)
  BY <1>1 DEF Remains, Left, Stands, Inodes
<1>4. left \in Inodes /\ Left(left, c.ino, slots) /\ left.size = c.ino.size
  BY <1>2 DEF Remains, Left
<1>5. /\ Shape(bytes, left, C, lev, took)
      /\ \A b \in C : lev[b] # 0 /\ SlotOf[took[b]] \in slots
           => Found(b, bytes, left, Ceil(size), lev, took)
      /\ \A b \in C : /\ lev[b] = 0 /\ NoSlot \in slots
                      /\ (took[b] >= Direct /\ c.ino.ib[SlotOf[took[b]]] # 0 => SlotOf[took[b]] \in slots)
           => Found(b, bytes, left, Ceil(size), lev, took)
  BY <1>1, <1>3, <1>4, LeftStands
<1>6. PICK q : q = RunsOf(left)
  OBVIOUS
<1>7. /\ q \in Seq(RunSet(C, lev, took, size)) /\ Once(q)
      /\ \A b \in C : Found(b, bytes, left, Ceil(size), lev, took)
           => InSeq(RunOf(b, lev, took, size), q)
  BY <1>3, <1>4, <1>5, <1>6, RunsFacts
<1>8. ASSUME NEW p \in Seq(RunSet(C, lev, took, size)), NEW i \in 1..Len(p)
      PROVE  \E b \in C : p[i] = RunOf(b, lev, took, size)
  <2>1. p[i] \in RunSet(C, lev, took, size)
    OBVIOUS
  <2>2. QED BY <2>1 DEF RunSet
<1>9. ASSUME NEW b \in C
      PROVE  /\ RunOf(b, lev, took, size) \in Runs
             /\ RunOf(b, lev, took, size).block = b
             /\ RunOf(b, lev, took, size).frags = Share(took[b], lev[b], size)
             /\ lev[b] = 0 => RunOf(b, lev, took, size).slot = NoSlot
             /\ lev[b] # 0 => RunOf(b, lev, took, size).slot = SlotOf[took[b]]
  <2>1. PICK ino : ino = c.ino /\ Stands(C, ino, bytes, lev, took)
    BY <1>1
  <2>2. /\ RunOf(b, lev, took, ino.size) \in Runs
        /\ RunOf(b, lev, took, ino.size).block = b
        /\ RunOf(b, lev, took, ino.size).frags = Share(took[b], lev[b], ino.size)
        /\ lev[b] = 0 => RunOf(b, lev, took, ino.size).slot = NoSlot
        /\ lev[b] # 0 => RunOf(b, lev, took, ino.size).slot = SlotOf[took[b]]
    BY <2>1, RunTyped
  <2>3. ino.size = size
    BY <1>3, <2>1
  <2>4. QED BY <2>2, <2>3
<1>10. q \in Seq(Runs)
  <2>1. \A i \in 1..Len(q) : q[i] \in Runs
    BY <1>7, <1>8, <1>9
  <2>2. q \in [1..Len(q) -> Runs] /\ Len(q) \in Nat
    BY <1>7, <2>1
  <2>3. QED BY <2>2
<1>11. ASSUME NEW i \in 1..Len(q)
       PROVE  (\A f \in Files : q[i].block \notin H[f]) /\ u[q[i].block] \in {0, q[i].frags}
  <2>1. PICK b \in C : q[i] = RunOf(b, lev, took, size)
    BY <1>7, <1>8
  <2>2. q[i].block = b /\ q[i].frags = Share(took[b], lev[b], size)
    BY <1>9, <2>1
  <2>3. \A f \in Files : b \notin H[f]
    BY DEF Outside
  <2>4. u[b] \in {0, Share(took[b], lev[b], size)}
    BY <1>1, <1>3
  <2>5. QED BY <2>2, <2>3, <2>4
<1>12. ToFree(q, H, u, errs)
  BY <1>11 DEF ToFree
<1>13. ASSUME NEW b \in Blocks, Names(b, c.todo) PROVE Names(b, q)
  <2>1. PICK p \in Seq(RunSet(C, lev, took, size)) : p = c.todo
    BY <1>1, <1>3
  <2>2. PICK i \in 1..Len(p) : p[i].block = b
    BY <1>13, <2>1 DEF Names
  <2>3. b \in C /\ p[i] = RunOf(b, lev, took, size)
    <3>1. PICK a \in C : p[i] = RunOf(a, lev, took, size)
      BY <1>8
    <3>2. QED BY <1>9, <2>2, <3>1
  <2>4. \A j \in 1..Len(p) : p[j].slot \in slots
    BY <1>2, <2>1
  <2>5. CASE lev[b] # 0
    <3>1. SlotOf[took[b]] \in slots
      BY <1>9, <2>3, <2>4, <2>5
    <3>2. InSeq(RunOf(b, lev, took, size), q)
      BY <1>5, <1>7, <2>3, <2>5, <3>1
    <3>3. QED BY <1>9, <2>3, <3>2 DEF InSeq, Names
  <2>6. CASE lev[b] = 0
    <3>1. p[i].slot = NoSlot /\ NoSlot \in slots
      BY <1>9, <2>3, <2>4, <2>6
    <3>2. \A x \in C : lev[x] # 0 => InSeq(RunOf(x, lev, took, size), p)
      BY <1>1, <1>3, <2>1, <3>1
    <3>3. ASSUME took[b] >= Direct, c.ino.ib[SlotOf[took[b]]] # 0
          PROVE  SlotOf[took[b]] \in slots
      <4>1. took[b] \in Deep
        <5>1. took[b] \in 0..(Ceil(size) - 1)
          BY <1>1, <1>3, <2>3, <2>6 DEF Stands, Found
        <5>2. Ceil(size) <= Base[3] /\ Direct \in Nat
          BY <1>3, Constants DEF Fits
        <5>3. Ceil(size) \in Nat
          BY CeilIs
        <5>4. Base[3] \in Nat
          BY Bases
        <5>5. QED BY <3>3, <5>1, <5>2, <5>3, <5>4 DEF Deep
      <4>2. PICK s \in Slots : s = SlotOf[took[b]]
        BY <4>1, Slot
      <4>3. PICK x : x = c.ino.ib[s] /\ x # 0
        BY <3>3, <4>2
      <4>4. x \in C /\ lev[x] = s + 1 /\ SlotOf[took[x]] = s
        BY <1>1, <4>3 DEF Stands, Shape, Rooted
      <4>5. lev[x] # 0
        BY <4>4 DEF Slots
      <4>6. PICK j \in 1..Len(p) : p[j] = RunOf(x, lev, took, size)
        BY <3>2, <4>4, <4>5 DEF InSeq
      <4>7. p[j].slot = s
        BY <1>9, <4>4, <4>5, <4>6
      <4>8. QED BY <2>4, <4>2, <4>7
    <3>4. InSeq(RunOf(b, lev, took, size), q)
      BY <1>5, <1>7, <2>3, <2>6, <3>1, <3>3
    <3>5. QED BY <1>9, <2>3, <3>4 DEF InSeq, Names
  <2>7. QED BY <2>5, <2>6
<1>14. ASSUME NEW b \in Blocks, Names(b, q) PROVE b \in C
  <2>1. PICK i \in 1..Len(q) : q[i].block = b
    BY <1>14 DEF Names
  <2>2. PICK a \in C : q[i] = RunOf(a, lev, took, size)
    BY <1>7, <1>8
  <2>3. QED BY <1>9, <2>1, <2>2
<1>15. QED BY <1>6, <1>10, <1>12, <1>13, <1>14 DEF NamesAll, NamesOnly

\* A run freed although the access failed: what is left to free is free or was.
LEMMA FreedBehind ==
    ASSUME NEW q \in Seq(Runs), NEW H, NEW u, NEW v, NEW errs, NEW e, e # 0, ToFree(q, H, u, errs),
           \A x \in Blocks : v[x] \in {0, u[x]}
    PROVE  ToFree(q, H, v, e)
<1>1. ASSUME NEW i \in 1..Len(q)
      PROVE  (\A f \in Files : q[i].block \notin H[f]) /\ v[q[i].block] \in {0, q[i].frags}
  <2>1. q[i] \in Runs
    OBVIOUS
  <2>2. q[i].block \in Blocks
    BY <2>1 DEF Runs
  <2>3. (\A f \in Files : q[i].block \notin H[f]) /\ u[q[i].block] \in {0, q[i].frags}
    BY DEF ToFree
  <2>4. QED BY <2>2, <2>3
<1>2. QED BY <1>1 DEF ToFree

LEMMA FreeRunIInv ==
    ASSUME IInv, FreeRun
    PROVE  IInv'
<1>1. /\ call.pc \in Freeing /\ call.todo # <<>> /\ UNCHANGED <<bytes, disk, live, contents, calls>>
  BY DEF FreeRun
<1>2. PICK H, C, lev, took : Frees(H, C, lev, took)
  BY <1>1, Freeings
<1>3. /\ Types /\ call \in Calls /\ call # Idle /\ call.pc \notin Fills /\ call.file \in Files
      /\ GhostOK(H, C, lev, took) /\ C \subseteq Blocks
      /\ FilesOK(H, bytes, used, lev, took, disk, live, contents)
      /\ Kinds(call, disk, live) /\ Accounted(call, H, C, used, lost)
      /\ call.todo \in Seq(Runs) /\ ToFree(call.todo, H, used, errors)
      /\ call.pc = "undo" => Undoing(call, C, bytes, used, lev, took)
  BY <1>1, <1>2 DEF Frees
<1>4. PICK r \in Runs : r = Head(call.todo) /\ r = call.todo[1] /\ 1 \in 1..Len(call.todo)
  BY <1>1, <1>3, HeadTail
<1>5. CASE /\ Fine /\ used[r.block] >= r.frags /\ used' = Freed(r.block, r.frags)
           /\ call' = [call EXCEPT !.todo = Tail(@)] /\ UNCHANGED lost
  <2>1. UNCHANGED <<bytes, disk, live, contents, calls, lost>>
    BY <1>1, <1>5
  <2>2. QED BY <1>1, <1>4, <1>5, <2>1, FreedIInv
<1>6. CASE /\ \/ Fail /\ used[r.block] >= r.frags /\ used' = Freed(r.block, r.frags)
              \/ (IF used[r.block] >= r.frags THEN Fail ELSE Fine) /\ UNCHANGED used
           /\ IF call.pc = "undo" /\ call.kind = "create"
              THEN Discard(LeftOf(call.ino, call.todo)) /\ UNCHANGED lost
              ELSE call' = Idle /\ lost' = lost \cup Abandoned(call.todo, used')
  \* An access has failed, now or before.
  <2>1. errors' \in Nat /\ errors' > 0
    <3>1. errors \in Nat
      BY <1>3 DEF Types
    <3>2. CASE Fail
      BY <3>1, <3>2 DEF Fail
    <3>3. CASE Fine /\ ~(used[r.block] >= r.frags)
      <4>1. errors # 0
        <5>1. SUFFICES ASSUME errors = 0 PROVE FALSE
          OBVIOUS
        <5>2. used[r.block] = r.frags /\ r.frags \in Nat
          BY <1>3, <1>4, <5>1 DEF ToFree, Runs
        <5>3. QED BY <3>3, <5>2
      <4>2. QED BY <3>1, <3>3, <4>1 DEF Fine
    <3>4. QED BY <1>6, <3>2, <3>3
  \* The run is free now or nothing has changed.
  <2>2. PICK v \in [Blocks -> Int] :
             /\ v = used' /\ \A x \in Blocks : v[x] \in {0, used[x]}
             /\ \A x \in Blocks : x # r.block => v[x] = used[x]
    <3>1. CASE used[r.block] >= r.frags /\ used' = Freed(r.block, r.frags)
      <4>1. /\ used' \in [Blocks -> Int] /\ used'[r.block] = 0
            /\ \A x \in Blocks : x # r.block => used'[x] = used[x]
        BY <1>1, <1>2, <1>4, <3>1, FreedIs
      <4>2. QED BY <4>1
    <3>2. CASE UNCHANGED used
      BY <1>3, <3>2 DEF Types
    <3>3. QED BY <1>6, <3>1, <3>2
  <2>3. PICK q \in Seq(Runs) : q = call.todo
    BY <1>3
  <2>4. PICK errs : errs = errors' /\ errs # 0
    BY <2>1
  <2>5. ToFree(q, H, v, errs) /\ r.block \in Blocks /\ Names(r.block, q) /\ \A f \in Files : r.block \notin H[f]
    <3>1. ToFree(q, H, v, errs)
      BY <1>3, <2>2, <2>3, <2>4, FreedBehind
    <3>2. r.block \in Blocks
      BY DEF Runs
    <3>3. QED BY <1>3, <1>4, <2>3, <3>1, <3>2 DEF ToFree, Names
  <2>6. FilesOK(H, bytes', used', lev, took, disk', live', contents')
    <3>1. Spared(H, bytes, bytes, used, v, lev, took, lev, took)
      <4>1. \A f \in Files : \A x \in H[f] : x \in Blocks /\ x # r.block
        BY <1>3, <2>5 DEF GhostOK
      <4>2. QED BY <2>2, <4>1 DEF Spared
    <3>2. live \in SUBSET Files
      BY <1>3 DEF Types
    <3>3. FilesOK(H, bytes, v, lev, took, disk, live, contents)
      BY ONLY <1>3, <3>1, <3>2, FilesKept
    <3>4. QED BY <1>1, <2>2, <3>3
  <2>7. /\ lost \subseteq Blocks
        /\ \A b \in lost : v[b] # 0 /\ ~Names(b, q) /\ \A f \in Files : b \notin H[f]
        /\ call.pc = "undo" => \A b \in lost : b \notin C
        /\ \A b \in Blocks : v[b] # 0 => b \in lost \/ Names(b, q) \/ \E f \in Files : b \in H[f]
    <3>1. lost \subseteq Blocks
      BY <1>3 DEF Types
    <3>2. \A b \in lost : used[b] # 0 /\ ~Names(b, q) /\ \A f \in Files : b \notin H[f]
      BY <1>1, <1>3, <2>3 DEF Accounted
    <3>3. \A b \in lost : v[b] # 0
      BY <2>2, <2>5, <3>1, <3>2
    <3>4. call.pc = "undo" => \A b \in lost : b \notin C
      BY <1>3 DEF Accounted
    <3>5. \A b \in Blocks : used[b] # 0 => b \in lost \/ Names(b, q) \/ \E f \in Files : b \in H[f]
      BY <1>3, <2>3 DEF Accounted
    <3>6. \A b \in Blocks : v[b] # 0 => used[b] # 0
      BY <2>2
    <3>7. QED BY <3>1, <3>2, <3>3, <3>4, <3>5, <3>6
  <2>8. CASE call' = Idle /\ lost' = lost \cup Abandoned(call.todo, used')
    <3>1. lost' = lost \cup Abandoned(q, v)
      BY <2>2, <2>3, <2>8
    <3>2. \A b : b \in Abandoned(q, v) <=> b \in Blocks /\ Names(b, q) /\ v[b] # 0
      BY <2>5, AbandonedAre
    <3>3. lost' \in SUBSET Blocks
      BY <2>7, <3>1, <3>2
    <3>4. used' \in [Blocks -> Int]
      BY <2>2
    <3>5. Types'
      BY <1>1, <1>3, <2>1, <2>8, <3>3, <3>4 DEF Types
    <3>6. \A b \in Blocks : v[b] # 0 => b \in lost' \/ \E f \in Files : b \in H[f]
      BY <2>7, <3>1, <3>2
    <3>7. ASSUME NEW b \in Blocks, Names(b, q) PROVE \A f \in Files : b \notin H[f]
      BY <2>5, <3>7 DEF ToFree, Names
    <3>8. \A b \in lost' : v[b] # 0 /\ \A f \in Files : b \notin H[f]
      BY <2>7, <3>1, <3>2, <3>7
    <3>9. Settled(H)
      BY <2>2, <3>6, <3>8 DEF Settled
    <3>10. QED BY <1>3, <2>6, <2>8, <3>5, <3>9, IdleStep
  <2>9. CASE /\ call.pc = "undo" /\ call.kind = "create" /\ UNCHANGED lost
             /\ Discard(LeftOf(call.ino, call.todo))
    <3>1. call.ino \in Inodes /\ IsBytes(bytes) /\ Undoing(call, C, bytes, used, lev, took)
      BY <1>3, <2>9 DEF Calls, Types
    <3>2. PICK left : /\ left = LeftOf(call.ino, call.todo)
                      /\ Left(left, call.ino, {call.todo[i].slot : i \in DOMAIN call.todo})
      BY <3>1, LeftIs
    <3>3. PICK p : p = RunsOf(left)
      OBVIOUS
    <3>4. left \in Inodes
      BY <3>2 DEF Left
    <3>5. Outside(C, H)
      BY <1>3 DEF GhostOK, Outside
    <3>6. /\ ToFree(p, H, v, errs) /\ p \in Seq(Runs)
          /\ \A b \in Blocks : Names(b, q) => Names(b, p)
          /\ \A b \in Blocks : Names(b, p) => b \in C
      <4>1. PICK c : c = call
        OBVIOUS
      <4>2. Undoing(c, C, bytes, v, lev, took)
        <5>1. \A b \in C : v[b] \in {0, Share(took[b], lev[b], call.ino.size)}
          BY <1>3, <2>2, <3>1 DEF Undoing
        <5>2. QED BY <3>1, <4>1, <5>1 DEF Undoing
      <4>3. /\ IsBytes(bytes) /\ C \subseteq Blocks /\ Outside(C, H) /\ Remains(left, c)
        BY <1>3, <3>1, <3>2, <3>5, <4>1 DEF Remains
      <4>4. /\ ToFree(RunsOf(left), H, v, errs) /\ RunsOf(left) \in Seq(Runs) /\ NamesAll(c, RunsOf(left))
            /\ NamesOnly(RunsOf(left), C)
        BY ONLY <2>4, <4>2, <4>3, LeftFree
      <4>5. \A b \in Blocks : Names(b, call.todo) => Names(b, RunsOf(left))
        BY <4>1, <4>4 DEF NamesAll
      <4>6. QED BY <2>3, <3>3, <4>4, <4>5 DEF NamesOnly
    <3>7. call' = [call EXCEPT !.pc = "discard", !.ino = left, !.todo = p]
      BY <2>9, <3>2, <3>3 DEF Discard
    <3>8. /\ call'.pc = "discard" /\ call'.kind = call.kind /\ call'.file = call.file /\ call'.todo = p
          /\ call' \in Calls
      BY <1>3, <3>4, <3>6, <3>7 DEF Calls, Freeing
    <3>9. Types'
      <4>1. used' \in [Blocks -> Int]
        BY <2>2
      <4>2. QED BY <1>1, <1>3, <2>1, <2>9, <3>8, <4>1 DEF Types
    <3>10. Kinds(call', disk', live')
      BY <1>1, <1>3, <3>8 DEF Kinds, Fills
    <3>11. ToFree(call'.todo, H, used', errors') /\ call'.pc \in Freeing /\ call'.pc # "undo"
      BY <2>2, <2>4, <3>6, <3>8 DEF Freeing
    <3>12. \A b \in Blocks : used'[b] # 0 =>
             b \in lost' \/ Names(b, call'.todo) \/ \E f \in Files : b \in H[f]
      BY <2>2, <2>7, <2>9, <3>6, <3>8
    <3>13. \A b \in lost' : used'[b] # 0 /\ ~Names(b, call'.todo) /\ \A f \in Files : b \notin H[f]
      BY <2>2, <2>7, <2>9, <3>6, <3>8
    <3>14. QED BY ONLY <1>3, <2>6, <3>9, <3>10, <3>11, <3>12, <3>13, FreeingStep
  <2>10. QED BY <1>6, <2>8, <2>9
<1>7. QED BY <1>4, <1>5, <1>6 DEF FreeRun

LEMMA AllFreedIInv ==
    ASSUME IInv, AllFreed
    PROVE  IInv'
<1>1. /\ call.pc \in Freeing /\ call.todo = <<>>
      /\ call' = IF call.kind = "rewrite" THEN Idle ELSE [call EXCEPT !.pc = "clear"]
      /\ UNCHANGED <<used, bytes, disk, live, contents, calls, errors, lost>>
  BY DEF AllFreed
<1>2. PICK H, C, lev, took : Frees(H, C, lev, took)
  BY <1>1, Freeings
<1>3. /\ Types /\ call \in Calls /\ call # Idle /\ call.pc \notin Fills
      /\ GhostOK(H, C, lev, took)
      /\ FilesOK(H, bytes, used, lev, took, disk, live, contents)
      /\ Kinds(call, disk, live) /\ Accounted(call, H, C, used, lost)
  BY <1>2 DEF Frees
<1>4. Settled(H)
  BY <1>1, <1>3 DEF Accounted, Names, Settled
<1>5. FilesOK(H, bytes', used', lev, took, disk', live', contents')
  BY <1>1, <1>3
<1>6. CASE call.kind = "rewrite"
  <2>1. call' = Idle
    BY <1>1, <1>6
  <2>2. Types'
    BY <1>1, <1>3, <2>1 DEF Types
  <2>3. QED BY <1>1, <1>3, <1>4, <1>5, <2>1, <2>2, IdleStep
<1>7. CASE call.kind # "rewrite"
  <2>1. call' = [call EXCEPT !.pc = "clear"]
    BY <1>1, <1>7
  <2>2. call' \in Calls /\ call'.pc = "clear" /\ call'.kind = call.kind /\ call'.file = call.file
    BY <1>3, <2>1 DEF Calls
  <2>3. call' # Idle /\ call'.pc \notin Fills /\ call'.pc \notin Freeing /\ call'.pc # "undo"
    BY <2>2 DEF Idle, Fills, Freeing
  <2>4. Types'
    BY <1>1, <1>3, <2>2 DEF Types
  <2>5. Kinds(call', disk', live')
    BY <1>1, <1>3, <1>7, <2>2 DEF Kinds
  <2>6. CallOK(call', H, C, bytes', used', lev, took, disk', live', errors')
    BY <2>3, <2>5 DEF CallOK
  <2>7. Accounted(call', H, C, used', lost')
    BY <1>4, <2>3 DEF Accounted, Settled
  <2>8. Sound(H, C, lev, took)'
    BY <1>3, <1>5, <2>6, <2>7 DEF Sound
  <2>9. QED BY <2>4, <2>8 DEF IInv
<1>8. QED BY <1>6, <1>7

LEMMA ClearIInv ==
    ASSUME IInv, Clear
    PROVE  IInv'
<1>1. call.pc = "clear" /\ call' = Idle /\ UNCHANGED <<used, bytes, live, contents, calls, lost>>
  BY DEF Clear
<1>2. PICK H, C, lev, took : Frees(H, C, lev, took)
  BY <1>1, Freeings
<1>3. /\ Types /\ call # Idle /\ call.pc \notin Fills /\ call.file \in Files
      /\ GhostOK(H, C, lev, took)
      /\ FilesOK(H, bytes, used, lev, took, disk, live, contents)
      /\ Kinds(call, disk, live) /\ Accounted(call, H, C, used, lost)
  BY <1>2 DEF Frees
<1>4. call.file \notin live
  BY <1>1, <1>3 DEF Kinds
<1>5. Settled(H)
  BY <1>1, <1>3 DEF Accounted, Freeing, Settled
<1>6. CASE Fine /\ disk' = [disk EXCEPT ![call.file] = Empty]
  <2>1. live \in SUBSET Files /\ disk \in [Files -> Inodes] /\ Empty \in Inodes
    BY <1>3, EmptyIs DEF Types
  <2>2. \A f \in live : disk'[f] = disk[f]
    BY <1>4, <1>6, <2>1
  <2>3. disk' \in [Files -> Inodes]
    BY <1>6, <2>1
  <2>4. Types'
    BY <1>1, <1>3, <1>6, <2>3 DEF Types, Fine
  <2>5. FilesOK(H, bytes, used, lev, took, disk', live, contents)
    BY ONLY <1>3, <2>2, FilesDisk
  <2>6. FilesOK(H, bytes', used', lev, took, disk', live', contents')
    BY <1>1, <2>5
  <2>7. QED BY <1>1, <1>3, <1>5, <1>6, <2>4, <2>6, IdleStep
<1>7. CASE Fail /\ UNCHANGED disk
  <2>1. Types'
    BY <1>1, <1>3, <1>7 DEF Types, Fail
  <2>2. FilesOK(H, bytes', used', lev, took, disk', live', contents')
    BY <1>1, <1>3, <1>7
  <2>3. QED BY <1>1, <1>3, <1>5, <2>1, <2>2, IdleStep
<1>8. QED BY <1>6, <1>7 DEF Clear

LEMMA StutterIInv ==
    ASSUME IInv, UNCHANGED vars
    PROVE  IInv'
<1>1. PICK H, C, lev, took : Sound(H, C, lev, took)
  BY DEF IInv
<1>2. Sound(H, C, lev, took)'
  BY <1>1 DEF Sound, GhostOK, vars
<1>3. Types'
  BY DEF IInv, Types, vars
<1>4. QED BY <1>2, <1>3 DEF IInv

LEMMA NextIInv == IInv /\ [Next]_vars => IInv'
<1> SUFFICES ASSUME IInv, [Next]_vars PROVE IInv'
  OBVIOUS
<1>1. ASSUME NEW f \in Files, NEW size \in Sizes, Create(f, size) PROVE IInv'
  BY <1>1, CreateIInv
<1>2. ASSUME NEW f \in Files, NEW size \in Sizes, Overwrite(f, size) PROVE IInv'
  BY <1>2, OverwriteIInv
<1>3. ASSUME NEW f \in Files, NEW size \in Sizes, AppendTo(f, size) PROVE IInv'
  BY <1>3, AppendIInv
<1>4. ASSUME NEW f \in Files, NEW size \in Sizes, Truncate(f, size) PROVE IInv'
  BY <1>4, TruncateIInv
<1>5. ASSUME NEW f \in Files, NEW w \in Writes, Pwrite(f, w[1], w[2]) PROVE IInv'
  BY <1>5, PwriteIInv
<1>6. ASSUME NEW f \in Files, Unlink(f) PROVE IInv'
  BY <1>6, UnlinkIInv
<1>7. CASE AllocRun
  BY <1>7, AllocRunIInv
<1>8. CASE GiveBack
  BY <1>8, GiveBackIInv
<1>9. CASE SetDirect
  BY <1>9, SetDirectIInv
<1>10. CASE SetRoot
  BY <1>10, SetRootIInv
<1>11. CASE NewRoot
  BY <1>11, NewRootIInv
<1>12. CASE Descend
  BY <1>12, DescendIInv
<1>13. CASE NewChild
  BY <1>13, NewChildIInv
<1>14. CASE WriteEntry
  BY <1>14, WriteEntryIInv
<1>15. CASE Fill
  BY <1>15, FillIInv
<1>16. CASE Stored
  BY <1>16, StoredIInv
<1>17. CASE WriteInode
  BY <1>17, WriteInodeIInv
<1>18. CASE WriteName
  BY <1>18, WriteNameIInv
<1>19. CASE FreeRun
  BY <1>19, FreeRunIInv
<1>20. CASE AllFreed
  BY <1>20, AllFreedIInv
<1>21. CASE Clear
  BY <1>21, ClearIInv
<1>22. CASE UNCHANGED vars
  BY <1>22, StutterIInv
<1>23. QED
  BY <1>1, <1>2, <1>3, <1>4, <1>5, <1>6, <1>7, <1>8, <1>9, <1>10, <1>11, <1>12, <1>13, <1>14, <1>15,
     <1>16, <1>17, <1>18, <1>19, <1>20, <1>21, <1>22 DEF Next

-----------------------------------------------------------------------------
(* What the invariant says of the files.                                   *)

\* The blocks of a file with a name and the runs it is freed by.
Freeable(f, q, S, u, lev, took) ==
    /\ q = RunsOf(disk[f]) /\ q \in Seq(Runs) /\ S \subseteq Blocks
    /\ \A b \in S : u[b] \in 1..FragsPerBlock /\ Names(b, q)
    /\ \A i \in 1..Len(q) : q[i].block \in S /\ q[i].frags = u[q[i].block]
    /\ \A i, j \in 1..Len(q) : q[i].block = q[j].block => i = j

LEMMA FileRuns ==
    ASSUME Types, NEW H, NEW C, NEW lev, NEW took, Sound(H, C, lev, took), NEW f \in live
    PROVE  \E q : Freeable(f, q, H[f], used, lev, took)
<1>1. /\ f \in Files /\ IsBytes(bytes) /\ H[f] \subseteq Blocks
      /\ Kept(H[f], disk[f], bytes, used, lev, took)
  BY DEF Sound, GhostOK, FilesOK, Types
<1>2. PICK S : S = H[f] /\ S \subseteq Blocks
  BY <1>1
<1>3. PICK ino : ino = disk[f]
  OBVIOUS
<1>4. Stands(S, ino, bytes, lev, took) /\ \A b \in S : used[b] = Share(took[b], lev[b], ino.size)
  BY <1>1, <1>2, <1>3 DEF Kept
<1>5. PICK q : q = RunsOf(ino)
  OBVIOUS
<1>6. /\ q \in Seq(Runs) /\ \A b \in S : InSeq(RunOf(b, lev, took, ino.size), q)
      /\ \A i \in 1..Len(q) :
           /\ q[i].block \in S
           /\ q[i].frags = Share(took[q[i].block], lev[q[i].block], ino.size)
      /\ \A i, j \in 1..Len(q) : q[i].block = q[j].block => i = j
  <2>1. IsBytes(bytes) /\ S \subseteq Blocks /\ Stands(S, ino, bytes, lev, took)
    BY <1>1, <1>2, <1>4
  <2>2. /\ RunsOf(ino) \in Seq(Runs) /\ RunsOf(ino) \in Seq(RunSet(S, lev, took, ino.size))
        /\ Ordered(RunsOf(ino))
        /\ \A b \in S : InSeq(RunOf(b, lev, took, ino.size), RunsOf(ino))
        /\ \A i \in 1..Len(RunsOf(ino)) :
             /\ RunsOf(ino)[i].block \in S
             /\ RunsOf(ino)[i].frags = Share(took[RunsOf(ino)[i].block], lev[RunsOf(ino)[i].block], ino.size)
        /\ \A i, j \in 1..Len(RunsOf(ino)) : RunsOf(ino)[i].block = RunsOf(ino)[j].block => i = j
    BY ONLY <2>1, RunsFree
  <2>3. QED BY <1>5, <2>2
<1>7. ASSUME NEW b \in S PROVE Names(b, q)
  <2>1. PICK i \in 1..Len(q) : q[i] = RunOf(b, lev, took, ino.size)
    BY <1>6 DEF InSeq
  <2>2. RunOf(b, lev, took, ino.size).block = b
    BY DEF RunOf
  <2>3. QED BY <2>1, <2>2 DEF Names
<1>8. \A b \in S : used[b] \in 1..FragsPerBlock
  BY <1>1, <1>2, FileUsed
<1>9. Freeable(f, q, S, used, lev, took)
  BY <1>2, <1>3, <1>4, <1>5, <1>6, <1>7, <1>8 DEF Freeable
<1>10. QED BY <1>2, <1>9

LEMMA ReachedIs ==
    ASSUME NEW x
    PROVE  x \in Reached <=>
             \E f \in live : \E i \in DOMAIN RunsOf(disk[f]) : x = <<f, i, RunsOf(disk[f])[i]>>
  BY DEF Reached

\* What is reached, each in its file's blocks.
Reaching(x, f, i, q) == f \in live /\ i \in 1..Len(q) /\ x = <<f, i, q[i]>>

LEMMA ReachedBy ==
    ASSUME Types, NEW H, NEW C, NEW lev, NEW took, Sound(H, C, lev, took), NEW x \in Reached
    PROVE  \E f, i, q : Reaching(x, f, i, q) /\ Freeable(f, q, H[f], used, lev, took)
<1>1. PICK f \in live : \E i \in DOMAIN RunsOf(disk[f]) : x = <<f, i, RunsOf(disk[f])[i]>>
  BY ReachedIs
<1>2. PICK q : Freeable(f, q, H[f], used, lev, took)
  BY FileRuns
<1>3. q = RunsOf(disk[f]) /\ q \in Seq(Runs)
  BY <1>2 DEF Freeable
<1>4. PICK i \in 1..Len(q) : x = <<f, i, q[i]>>
  BY <1>1, <1>3
<1>5. QED BY <1>2, <1>4 DEF Reaching

LEMMA OneToOne ==
    ASSUME NEW S, NEW T, IsFiniteSet(T), NEW F \in [S -> T],
           \A x, y \in S : F[x] = F[y] => x = y, \A t \in T : \E x \in S : F[x] = t
    PROVE  Cardinality(S) = Cardinality(T)
<1>1. F \in Injection(S, T)
  BY DEF Injection, IsInjective
<1>2. F \in Surjection(S, T)
  BY DEF Surjection
<1>3. QED BY <1>1, <1>2, FS_Injection

LEMMA Backed == IInv => NamedFilesBacked
<1> SUFFICES ASSUME IInv PROVE NamedFilesBacked
  OBVIOUS
<1>1. PICK H, C, lev, took : Sound(H, C, lev, took)
  BY DEF IInv
<1>2. Types
  BY DEF IInv
<1>3. ASSUME NEW x \in Reached
      PROVE  x[3].block \in Blocks /\ used[x[3].block] = x[3].frags
  <2>1. PICK f, i, q : Reaching(x, f, i, q) /\ Freeable(f, q, H[f], used, lev, took)
    BY <1>1, <1>2, ReachedBy
  <2>2. i \in 1..Len(q) /\ x[3] = q[i]
    BY <2>1 DEF Reaching
  <2>3. QED BY <2>1, <2>2 DEF Freeable
<1>4. ASSUME NEW x \in Reached, NEW y \in Reached, x[3].block = y[3].block
      PROVE  x = y
  <2>1. PICK f, i, p : Reaching(x, f, i, p) /\ Freeable(f, p, H[f], used, lev, took)
    BY <1>1, <1>2, ReachedBy
  <2>2. PICK g, j, q : Reaching(y, g, j, q) /\ Freeable(g, q, H[g], used, lev, took)
    BY <1>1, <1>2, ReachedBy
  <2>3. /\ f \in live /\ i \in 1..Len(p) /\ x = <<f, i, p[i]>>
        /\ g \in live /\ j \in 1..Len(q) /\ y = <<g, j, q[j]>>
    BY <2>1, <2>2 DEF Reaching
  <2>4. p[i].block \in H[f] /\ q[j].block \in H[g] /\ p[i].block = q[j].block
    BY <1>4, <2>1, <2>2, <2>3 DEF Freeable
  <2>5. f = g
    BY <1>1, <1>2, <2>3, <2>4 DEF Sound, GhostOK, Types
  <2>6. p = q
    BY <2>1, <2>2, <2>5 DEF Freeable
  <2>7. i = j
    BY <2>1, <2>3, <2>4, <2>6 DEF Freeable
  <2>8. QED BY <2>3, <2>5, <2>6, <2>7
<1>5. Cardinality({x[3].block : x \in Reached}) = Cardinality(Reached)
  <2>1. PICK S : S = Reached
    OBVIOUS
  <2>2. PICK T : T = {x[3].block : x \in S}
    OBVIOUS
  <2>3. PICK F : F = [x \in S |-> x[3].block]
    OBVIOUS
  <2>4. F \in [S -> T] /\ \A t \in T : \E x \in S : F[x] = t
    BY <2>2, <2>3
  <2>5. \A x, y \in S : F[x] = F[y] => x = y
    BY <1>4, <2>1, <2>3
  <2>6. IsFiniteSet(T)
    <3>1. T \in SUBSET Blocks
      BY <1>3, <2>1, <2>2
    <3>2. IsFiniteSet(1..NBlocks)
      BY Constants, FS_Interval
    <3>3. QED BY <3>1, <3>2, FS_Subset DEF Blocks
  <2>7. Cardinality(S) = Cardinality(T)
    BY ONLY <2>4, <2>5, <2>6, OneToOne
  <2>8. QED BY <2>1, <2>2, <2>7
<1>6. QED BY <1>3, <1>5 DEF NamedFilesBacked

LEMMA Nothing == IInv /\ used \in [Blocks -> 0..FragsPerBlock] => NothingLost
<1> SUFFICES ASSUME IInv, used \in [Blocks -> 0..FragsPerBlock] PROVE NothingLost
  OBVIOUS
<1>1. PICK H, C, lev, took : Sound(H, C, lev, took)
  BY DEF IInv
<1>2. Types
  BY DEF IInv
<1>3. lost # {} => errors > 0
  BY <1>2 DEF Types
<1> DEFINE reached == {x[3].block : x \in Reached}
<1>4. ASSUME NEW b \in reached
      PROVE  b \in Blocks /\ used[b] > 0 /\ \E f \in Files : b \in H[f]
  <2>1. PICK x \in Reached : b = x[3].block
    OBVIOUS
  <2>2. PICK f, i, q : Reaching(x, f, i, q) /\ Freeable(f, q, H[f], used, lev, took)
    BY <1>1, <1>2, ReachedBy
  <2>3. i \in 1..Len(q) /\ x[3] = q[i]
    BY <2>2 DEF Reaching
  <2>4. q[i].block \in Blocks /\ used[q[i].block] \in 1..FragsPerBlock /\ q[i].block \in H[f]
    BY <2>2, <2>3 DEF Freeable
  <2>5. used[q[i].block] > 0 /\ f \in Files
    BY <1>2, <2>2, <2>4, Constants DEF Reaching, Types
  <2>6. QED BY <2>1, <2>3, <2>4, <2>5
<1>5. ASSUME NEW f \in Files, NEW b \in H[f] PROVE b \in reached
  <2>1. f \in live
    BY <1>1 DEF Sound, FilesOK
  <2>2. PICK q : Freeable(f, q, H[f], used, lev, took)
    BY <1>1, <1>2, <2>1, FileRuns
  <2>3. PICK i \in 1..Len(q) : q[i].block = b
    BY <2>2 DEF Freeable, Names
  <2>4. q = RunsOf(disk[f]) /\ q \in Seq(Runs)
    BY <2>2 DEF Freeable
  <2>5. i \in DOMAIN RunsOf(disk[f])
    BY <2>4
  <2>6. PICK x : x = <<f, i, RunsOf(disk[f])[i]>>
    OBVIOUS
  <2>7. x \in Reached
    BY <2>1, <2>5, <2>6, ReachedIs
  <2>8. x[3].block = b
    BY <2>3, <2>4, <2>6
  <2>9. QED BY <2>7, <2>8
<1> HIDE DEF reached
<1>6. /\ \A b \in lost : b \in Blocks /\ used[b] # 0 /\ \A f \in Files : b \notin H[f]
      /\ call = Idle => \A b \in Blocks : used[b] # 0 => b \in lost \/ \E f \in Files : b \in H[f]
  BY <1>1, <1>2 DEF Sound, Accounted, Types
<1>7. \A b \in Blocks : used[b] > 0 <=> used[b] # 0
  BY Constants
<1>8. lost \cap reached = {}
  BY <1>4, <1>6
<1>9. call = Idle => {b \in Blocks : used[b] > 0} = reached \cup lost
  <2>1. ASSUME call = Idle, NEW b \in Blocks, used[b] > 0 PROVE b \in reached \cup lost
    BY <1>5, <1>6, <1>7, <2>1
  <2>2. ASSUME NEW b \in reached \cup lost PROVE b \in Blocks /\ used[b] > 0
    BY <1>4, <1>6, <1>7
  <2>3. QED BY <2>1, <2>2
<1>10. QED BY <1>3, <1>8, <1>9 DEF NothingLost, reached

-----------------------------------------------------------------------------
(* The block count of a file.                                              *)
IsSum(g, w, S) ==
    g = [s \in SUBSET S |-> IF s = {} THEN 0
                            ELSE LET x == CHOOSE y \in s : TRUE IN w[x].frags + g[s \ {x}]]

SumFrags(w, S) == MapThenSumSet(LAMBDA i : w[i].frags, S)

\* Each run of S is of a whole block, but for the last.
AllBut(w, S, last, gap) ==
    \A i \in S : w[i].frags = IF i = last THEN FragsPerBlock - gap ELSE FragsPerBlock
SumOf(s, last, gap) == FragsPerBlock * Cardinality(s) - (IF last \in s THEN gap ELSE 0)

LEMMA SumLess ==
    ASSUME NEW s, IsFiniteSet(s), NEW x \in s, NEW last, NEW gap \in Int
    PROVE  /\ IsFiniteSet(s \ {x}) /\ Cardinality(s) \in Nat
           /\ Cardinality(s) = Cardinality(s \ {x}) + 1
           /\ SumOf(s, last, gap) =
                (IF x = last THEN FragsPerBlock - gap ELSE FragsPerBlock) + SumOf(s \ {x}, last, gap)
<1>1. /\ IsFiniteSet(s \ {x}) /\ Cardinality(s \ {x}) = Cardinality(s) - 1 /\ Cardinality(s) \in Nat
  BY FS_RemoveElement, FS_CardinalityType
<1>2. PICK c \in Int : c = Cardinality(s \ {x}) /\ Cardinality(s) = c + 1
  BY <1>1
<1>3. PICK F \in Int, p \in Int, e \in Int :
          F = FragsPerBlock /\ p = FragsPerBlock * Cardinality(s \ {x}) /\ e = FragsPerBlock * Cardinality(s)
          /\ e = p + F
  <2>1. FragsPerBlock * (c + 1) = FragsPerBlock * c + FragsPerBlock /\ FragsPerBlock * c \in Int
    BY Constants
  <2>2. QED BY <1>2, <2>1, Constants
<1>4. /\ SumOf(s, last, gap) = e - (IF last \in s THEN gap ELSE 0)
      /\ SumOf(s \ {x}, last, gap) = p - (IF last \in s \ {x} THEN gap ELSE 0)
  BY <1>3 DEF SumOf
<1>5. SumOf(s, last, gap) =
        (IF x = last THEN FragsPerBlock - gap ELSE FragsPerBlock) + SumOf(s \ {x}, last, gap)
  <2>1. CASE x = last
    <3>1. last \in s /\ last \notin s \ {x}
      BY <2>1
    <3>2. SumOf(s, last, gap) = e - gap /\ SumOf(s \ {x}, last, gap) = p
      BY <1>3, <1>4, <3>1
    <3>3. QED BY <1>3, <2>1, <3>2
  <2>2. CASE x # last
    <3>1. last \in s <=> last \in s \ {x}
      BY <2>2
    <3>2. PICK z \in Int : z = IF last \in s THEN gap ELSE 0
      OBVIOUS
    <3>3. SumOf(s, last, gap) = e - z /\ SumOf(s \ {x}, last, gap) = p - z
      BY <1>4, <3>1, <3>2
    <3>4. QED BY <1>3, <2>2, <3>2, <3>3
  <2>3. QED BY <2>1, <2>2
<1>6. QED BY <1>1, <1>2, <1>5

LEMMA SumIs ==
    ASSUME NEW w, NEW S, IsFiniteSet(S), NEW last, NEW gap \in Int, AllBut(w, S, last, gap)
    PROVE  SumFrags(w, S) = SumOf(S, last, gap)
<1>1. PICK h : h = CHOOSE g : IsSum(g, w, S)
  OBVIOUS
<1>2. SumFrags(w, S) = h[S]
  BY <1>1 DEF SumFrags, MapThenSumSet, MapThenFoldSet, IsSum
<1>3. ASSUME NEW s \in SUBSET S, s # {}, NEW x, x = CHOOSE y \in s : TRUE
      PROVE  x \in s /\ w[x].frags + SumOf(s \ {x}, last, gap) = SumOf(s, last, gap)
  <2>1. x \in s
    BY <1>3
  <2>2. IsFiniteSet(s)
    BY FS_Subset
  <2>3. SumOf(s, last, gap) =
          (IF x = last THEN FragsPerBlock - gap ELSE FragsPerBlock) + SumOf(s \ {x}, last, gap)
    BY ONLY <2>1, <2>2, gap \in Int, SumLess
  <2>4. QED BY <2>1, <2>3 DEF AllBut
<1>4. SumOf({}, last, gap) = 0
  <2>1. FragsPerBlock * 0 = 0
    BY Constants
  <2>2. QED BY <2>1, FS_EmptySet DEF SumOf
<1>5. IsSum(h, w, S)
  <2>1. PICK g : g = [s \in SUBSET S |-> SumOf(s, last, gap)]
    OBVIOUS
  <2>2. ASSUME NEW s \in SUBSET S
        PROVE  g[s] = IF s = {} THEN 0
                      ELSE LET x == CHOOSE y \in s : TRUE IN w[x].frags + g[s \ {x}]
    <3>1. CASE s = {}
      BY <1>4, <2>1, <3>1
    <3>2. CASE s # {}
      <4>1. PICK x : x = CHOOSE y \in s : TRUE
        OBVIOUS
      <4>2. x \in s /\ w[x].frags + SumOf(s \ {x}, last, gap) = SumOf(s, last, gap)
        BY <1>3, <3>2, <4>1
      <4>3. g[s \ {x}] = SumOf(s \ {x}, last, gap) /\ g[s] = SumOf(s, last, gap)
        BY <2>1
      <4>4. QED BY <3>2, <4>1, <4>2, <4>3
    <3>3. QED BY <3>1, <3>2
  <2>3. IsSum(g, w, S)
    BY <2>1, <2>2 DEF IsSum
  <2>4. QED BY <1>1, <2>3
<1>6. ASSUME NEW s \in SUBSET S
      PROVE  h[s] = IF s = {} THEN 0
                    ELSE LET x == CHOOSE y \in s : TRUE IN w[x].frags + h[s \ {x}]
  BY <1>5 DEF IsSum
<1> DEFINE T == {n \in Nat : \A s \in SUBSET S : Cardinality(s) = n => h[s] = SumOf(s, last, gap)}
<1>7. PICK n \in Nat : n = Cardinality(S)
  BY FS_CardinalityType
<1>8. 0 \in T
  <2>1. ASSUME NEW s \in SUBSET S, Cardinality(s) = 0 PROVE h[s] = SumOf(s, last, gap)
    <3>1. s = {}
      BY <2>1, FS_Subset, FS_EmptySet
    <3>2. QED BY <1>4, <1>6, <3>1
  <2>2. QED BY <2>1
<1>9. ASSUME NEW c \in 0..(n - 1), c \in T PROVE c + 1 \in T
  <2>1. ASSUME NEW s \in SUBSET S, Cardinality(s) = c + 1 PROVE h[s] = SumOf(s, last, gap)
    <3>1. IsFiniteSet(s) /\ s # {}
      BY <2>1, FS_Subset, FS_EmptySet
    <3>2. PICK x : x = CHOOSE y \in s : TRUE
      OBVIOUS
    <3>3. x \in s /\ w[x].frags + SumOf(s \ {x}, last, gap) = SumOf(s, last, gap)
      BY <1>3, <3>1, <3>2
    <3>4. IsFiniteSet(s \ {x}) /\ Cardinality(s \ {x}) = c
      <4>1. IsFiniteSet(s \ {x}) /\ Cardinality(s \ {x}) = Cardinality(s) - 1
        BY <3>1, <3>3, FS_RemoveElement
      <4>2. QED BY <2>1, <4>1
    <3>5. s \ {x} \in SUBSET S /\ h[s \ {x}] = SumOf(s \ {x}, last, gap)
      BY <1>9, <3>4
    <3>6. h[s] = w[x].frags + h[s \ {x}]
      BY <1>6, <3>1, <3>2
    <3>7. QED BY <3>3, <3>5, <3>6
  <2>2. c + 1 \in Nat
    OBVIOUS
  <2>3. QED BY <2>1, <2>2
<1> HIDE DEF T
<1>10. 0..n \subseteq T
  BY <1>8, <1>9, Upward
<1>11. n \in T
  BY <1>10
<1>12. h[S] = SumOf(S, last, gap)
  BY <1>7, <1>11 DEF T
<1>13. QED BY <1>2, <1>12

\* The blocks of an inode's trees, and no hole among its first n blocks.
OnWay(b, m, ino, k, l) == l <= Top(k) /\ Way(m, ino, k, l) = b
Trees(m, ino) == {b \in Blocks : \E k \in Deep, l \in 1..3 : OnWay(b, m, ino, k, l)}
Whole(m, ino, n) == \A k \in 0..(n - 1) : Lead(m, ino, k) # 0

\* Of n blocks of a file of that size, what the last lacks; and what they and
\* the trees take.
Gap(n, size) == IF n <= Direct /\ n * FragsPerBlock > size THEN n * FragsPerBlock - size ELSE 0
Charge(n, size, m, ino) ==
    n * FragsPerBlock - Gap(n, size) + FragsPerBlock * Cardinality(Trees(m, ino))
Counted(m, ino) ==
    /\ Whole(m, ino, Ceil(ino.size))
    /\ ino.blocks = Charge(Ceil(ino.size), ino.size, m, ino)

LEMMA TreesIn ==
    ASSUME NEW S, S \subseteq Blocks, NEW lev, NEW took, NEW ino, NEW m, Stands(S, ino, m, lev, took)
    PROVE  Trees(m, ino) = {b \in S : lev[b] # 0}
<1>1. Shape(m, ino, S, lev, took)
  BY DEF Stands
<1>2. ASSUME NEW b \in Trees(m, ino) PROVE b \in S /\ lev[b] # 0
  <2>1. PICK k \in Deep, l \in 1..3 : OnWay(b, m, ino, k, l)
    BY DEF Trees
  <2>2. b # 0 /\ l \in 0..3 /\ l <= Top(k) /\ Way(m, ino, k, l) = b /\ l # 0
    BY <2>1, Constants DEF Trees, Blocks, OnWay
  <2>3. Placed(Way(m, ino, k, l), k, l, S, lev, took)
    BY <1>1, <2>2, WayIn
  <2>4. QED BY <2>2, <2>3 DEF Placed
<1>3. ASSUME NEW b \in S, lev[b] # 0 PROVE b \in Trees(m, ino)
  <2>1. /\ took[b] \in Deep /\ lev[b] \in 1..3 /\ lev[b] <= Top(took[b])
        /\ Way(m, ino, took[b], lev[b]) = b
    BY <1>3 DEF Stands, Found
  <2>2. OnWay(b, m, ino, took[b], lev[b])
    BY <2>1 DEF OnWay
  <2>3. QED BY <2>1, <2>2 DEF Trees
<1>4. QED BY <1>2, <1>3

LEMMA TreesFinite ==
    ASSUME NEW m, NEW ino
    PROVE  IsFiniteSet(Trees(m, ino)) /\ Cardinality(Trees(m, ino)) \in Nat
<1>1. Trees(m, ino) \subseteq 1..NBlocks
  BY DEF Trees, Blocks
<1>2. IsFiniteSet(1..NBlocks)
  BY Constants, FS_Interval
<1>3. IsFiniteSet(Trees(m, ino))
  BY <1>1, <1>2, FS_Subset
<1>4. QED BY <1>3, FS_CardinalityType

\* The data of a file without holes: a block for each logical block.
LEMMA DataCount ==
    ASSUME NEW S, S \subseteq Blocks, NEW lev, NEW took, NEW ino, NEW m, Stands(S, ino, m, lev, took),
           Whole(m, ino, Ceil(ino.size))
    PROVE  Cardinality({b \in S : lev[b] = 0}) = Ceil(ino.size)
<1>1. ino \in Inodes /\ Fits(ino.size) /\ Shape(m, ino, S, lev, took)
  BY DEF Stands
<1>2. PICK n \in Nat : n = Ceil(ino.size) /\ n <= Base[3]
  BY <1>1, SizeFits
<1>3. PICK D : D = {b \in S : lev[b] = 0}
  OBVIOUS
<1>4. PICK F : F = [b \in D |-> took[b] + 1]
  OBVIOUS
<1>5. ASSUME NEW b \in D PROVE took[b] \in 0..(n - 1) /\ Lead(m, ino, took[b]) = b /\ F[b] = took[b] + 1
  <2>1. Found(b, m, ino, Ceil(ino.size), lev, took) /\ lev[b] = 0
    BY <1>3 DEF Stands
  <2>2. QED BY <1>2, <1>4, <2>1 DEF Found
<1>6. F \in [D -> 1..n]
  <2>1. \A b \in D : took[b] + 1 \in 1..n
    BY <1>5
  <2>2. QED BY <1>4, <2>1
<1>7. \A a, b \in D : F[a] = F[b] => a = b
  <2>1. TAKE a, b \in D
  <2>2. HAVE F[a] = F[b]
  <2>3. took[a] = took[b]
    <3>1. took[a] \in Int /\ took[b] \in Int /\ took[a] + 1 = took[b] + 1
      BY <1>5, <2>2
    <3>2. QED BY <3>1
  <2>4. QED BY <1>5, <2>3
<1>8. ASSUME NEW t \in 1..n PROVE \E b \in D : F[b] = t
  <2>1. PICK k \in 0..(n - 1) : t = k + 1
    <3>1. t - 1 \in 0..(n - 1) /\ t = (t - 1) + 1
      OBVIOUS
    <3>2. QED BY <3>1
  <2>2. k \in 0..(Base[3] - 1)
    BY <1>2, Bases
  <2>3. Lead(m, ino, k) # 0
    BY <1>2 DEF Whole
  <2>4. Lead(m, ino, k) \in S /\ lev[Lead(m, ino, k)] = 0 /\ took[Lead(m, ino, k)] = k
    BY <1>1, <2>2, <2>3, LeadIn
  <2>5. Lead(m, ino, k) \in D /\ F[Lead(m, ino, k)] = k + 1
    BY <1>3, <1>4, <2>4
  <2>6. QED BY <2>1, <2>5
<1>9. IsFiniteSet(1..n) /\ Cardinality(1..n) = n
  BY FS_Interval
<1>10. Cardinality(D) = Cardinality(1..n)
  BY ONLY <1>6, <1>7, <1>8, <1>9, OneToOne
<1>11. QED BY <1>2, <1>3, <1>9, <1>10

\* Every block of a file is in one run.
LEMMA RunCount ==
    ASSUME NEW S, S \subseteq Blocks, NEW lev, NEW took, NEW ino, IsBytes(bytes),
           Stands(S, ino, bytes, lev, took), Whole(bytes, ino, Ceil(ino.size))
    PROVE  Len(RunsOf(ino)) = Ceil(ino.size) + Cardinality(Trees(bytes, ino))
<1>1. PICK q : q = RunsOf(ino)
  OBVIOUS
<1>2. /\ q \in Seq(Runs) /\ \A b \in S : InSeq(RunOf(b, lev, took, ino.size), q)
      /\ \A i \in 1..Len(q) : q[i].block \in S
      /\ \A i, j \in 1..Len(q) : q[i].block = q[j].block => i = j
  BY <1>1, RunsFree
<1>3. PICK n \in Nat : n = Len(q)
  BY <1>2
<1>4. IsFiniteSet(S)
  <2>1. IsFiniteSet(1..NBlocks)
    BY Constants, FS_Interval
  <2>2. QED BY <2>1, FS_Subset DEF Blocks
<1>5. PICK F : F = [i \in 1..n |-> q[i].block]
  OBVIOUS
<1>6. F \in [1..n -> S]
  BY <1>2, <1>3, <1>5
<1>7. \A i, j \in 1..n : F[i] = F[j] => i = j
  BY <1>2, <1>3, <1>5
<1>8. \A b \in S : \E i \in 1..n : F[i] = b
  <2>1. TAKE b \in S
  <2>2. PICK i \in 1..Len(q) : q[i] = RunOf(b, lev, took, ino.size)
    BY <1>2 DEF InSeq
  <2>3. RunOf(b, lev, took, ino.size).block = b
    BY DEF RunOf
  <2>4. i \in 1..n /\ F[i] = b
    BY <1>3, <1>5, <2>2, <2>3
  <2>5. QED BY <2>4
<1>9. Cardinality(1..n) = Cardinality(S)
  BY ONLY <1>4, <1>6, <1>7, <1>8, OneToOne
<1>10. Cardinality(1..n) = n
  BY FS_Interval
<1>11. PICK D, T : D = {b \in S : lev[b] = 0} /\ T = {b \in S : lev[b] # 0}
  OBVIOUS
<1>12. D \cup T = S /\ D \cap T = {} /\ IsFiniteSet(D) /\ IsFiniteSet(T)
  BY <1>4, <1>11, FS_Subset
<1>13. Cardinality(S) = Cardinality(D) + Cardinality(T)
  <2>1. Cardinality(D \cup T) = Cardinality(D) + Cardinality(T) - Cardinality(D \cap T)
    BY <1>12, FS_Union
  <2>2. Cardinality(D \cap T) = 0 /\ Cardinality(D) \in Nat /\ Cardinality(T) \in Nat
    BY <1>12, FS_EmptySet, FS_CardinalityType
  <2>3. Cardinality(S) = Cardinality(D \cup T)
    BY <1>12
  <2>4. PICK d \in Int, t \in Int : d = Cardinality(D) /\ t = Cardinality(T)
    BY <2>2
  <2>5. Cardinality(D \cup T) = d + t - 0
    BY <2>1, <2>2, <2>4
  <2>6. Cardinality(S) = d + t
    BY <2>3, <2>4, <2>5
  <2>7. QED BY <2>4, <2>6
<1>14. Cardinality(D) = Ceil(ino.size)
  BY <1>11, DataCount
<1>15. T = Trees(bytes, ino)
  BY <1>11, TreesIn
<1>16. QED BY <1>1, <1>3, <1>9, <1>10, <1>13, <1>14, <1>15

\* What the next block takes.
LEMMA FragsGap ==
    ASSUME NEW size \in Nat, NEW k \in Nat, k < Ceil(size)
    PROVE  /\ FragsOf(k, size) = FragsPerBlock - Gap(k + 1, size)
           /\ Gap(k, size) = 0 /\ Gap(k + 1, size) \in Nat
           /\ k + 1 < Ceil(size) => Gap(k + 1, size) = 0
<1>1. PICK F \in Nat, p \in Nat, r \in Nat :
          F = FragsPerBlock /\ p = k * FragsPerBlock /\ r = (k + 1) * FragsPerBlock /\ r = p + F
  <2>1. FragsPerBlock \in Nat /\ k * FragsPerBlock \in Nat /\ (k + 1) * FragsPerBlock \in Nat
    BY Constants, Product
  <2>2. (k + 1) * FragsPerBlock = k * FragsPerBlock + FragsPerBlock
    BY <2>1
  <2>3. QED BY <2>1, <2>2
<1>2. p < size
  BY <1>1, CeilIs
<1>3. k + 1 < Ceil(size) => r < size
  BY <1>1, CeilIs
<1>4. Gap(k, size) = 0
  BY <1>1, <1>2 DEF Gap
<1>5. Gap(k + 1, size) = IF k + 1 <= Direct /\ r > size THEN r - size ELSE 0
  BY <1>1 DEF Gap
<1>6. FragsOf(k, size) = IF k >= Direct \/ F <= size - p THEN F ELSE size - p
  <2>1. Min({size - p, F}) = IF size - p <= F THEN size - p ELSE F
    BY MinIs
  <2>2. QED BY <1>1, <2>1 DEF FragsOf
<1>7. Direct \in Nat
  BY Constants
<1>8. QED BY <1>1, <1>2, <1>3, <1>4, <1>5, <1>6, <1>7

\* The blocks counted are the fragments of the runs.
LEMMA RunsSum ==
    ASSUME NEW S, S \subseteq Blocks, NEW lev, NEW took, NEW ino, IsBytes(bytes),
           Stands(S, ino, bytes, lev, took), Counted(bytes, ino),
           NEW q, q = RunsOf(ino)
    PROVE  ino.blocks = SumFrags(q, DOMAIN q)
<1>1. /\ q \in Seq(Runs) /\ \A b \in S : InSeq(RunOf(b, lev, took, ino.size), q)
      /\ \A i \in 1..Len(q) :
           q[i].block \in S /\ q[i].frags = Share(took[q[i].block], lev[q[i].block], ino.size)
      /\ \A i, j \in 1..Len(q) : q[i].block = q[j].block => i = j
  <2>1. IsBytes(bytes) /\ S \subseteq Blocks /\ Stands(S, ino, bytes, lev, took)
    OBVIOUS
  <2>2. /\ RunsOf(ino) \in Seq(Runs) /\ RunsOf(ino) \in Seq(RunSet(S, lev, took, ino.size))
        /\ Ordered(RunsOf(ino))
        /\ \A b \in S : InSeq(RunOf(b, lev, took, ino.size), RunsOf(ino))
        /\ \A i \in 1..Len(RunsOf(ino)) :
             /\ RunsOf(ino)[i].block \in S
             /\ RunsOf(ino)[i].frags = Share(took[RunsOf(ino)[i].block], lev[RunsOf(ino)[i].block], ino.size)
        /\ \A i, j \in 1..Len(RunsOf(ino)) : RunsOf(ino)[i].block = RunsOf(ino)[j].block => i = j
    BY ONLY <2>1, RunsFree
  <2>3. QED BY <2>2
<1>2. PICK l \in Nat : l = Len(q) /\ DOMAIN q = 1..l
  BY <1>1
<1>3. PICK n \in Nat, size \in Nat : n = Ceil(ino.size) /\ size = ino.size /\ n <= Base[3]
  BY SizeFits DEF Stands
<1>4. PICK c \in Nat : c = Cardinality(Trees(bytes, ino))
  BY TreesFinite
<1>5. l = n + c
  BY <1>2, <1>3, <1>4, RunCount DEF Counted
<1>6. PICK gap : gap = Gap(n, size)
  OBVIOUS
<1>7. \A b \in S : lev[b] = 0 => took[b] \in 0..(n - 1)
  BY <1>3 DEF Stands, Found
<1>8. ASSUME NEW b \in S
      PROVE  Share(took[b], lev[b], size) =
               IF lev[b] = 0 /\ took[b] = n - 1 THEN FragsPerBlock - gap ELSE FragsPerBlock
  <2>1. CASE lev[b] # 0
    BY <2>1 DEF Share
  <2>2. CASE lev[b] = 0
    <3>1. PICK k \in Nat : k = took[b] /\ k < n
      BY <1>7, <2>2
    <3>2. /\ FragsOf(k, size) = FragsPerBlock - Gap(k + 1, size)
          /\ k + 1 < n => Gap(k + 1, size) = 0
      BY <1>3, <3>1, FragsGap
    <3>3. CASE k = n - 1
      <4>1. k + 1 = n
        BY <3>3
      <4>2. QED BY <1>6, <2>2, <3>1, <3>2, <3>3, <4>1 DEF Share
    <3>4. CASE k # n - 1
      <4>1. k + 1 < n
        BY <3>1, <3>4
      <4>2. FragsOf(k, size) = FragsPerBlock
        BY <3>2, <4>1, Constants
      <4>3. QED BY <2>2, <3>1, <3>4, <4>2 DEF Share
    <3>5. QED BY <3>3, <3>4
  <2>3. QED BY <2>1, <2>2
<1>9. PICK last : /\ AllBut(q, 1..l, last, gap) /\ gap \in Int
                  /\ (IF last \in 1..l THEN gap ELSE 0) = gap
  <2>1. CASE n = 0
    <3>1. gap = 0
      <4>1. 0 * FragsPerBlock = 0
        BY Constants
      <4>2. QED BY <1>6, <2>1, <4>1 DEF Gap
    <3>2. \A i \in 1..l : q[i].frags = FragsPerBlock
      BY <1>1, <1>2, <1>3, <1>7, <1>8, <2>1, <3>1, Constants
    <3>3. AllBut(q, 1..l, 0, gap)
      BY <3>2 DEF AllBut
    <3>4. QED BY <3>1, <3>3
  <2>2. CASE n # 0
    <3>1. n - 1 \in 0..(n - 1) /\ n - 1 \in 0..(Base[3] - 1) /\ n - 1 \in Nat
      BY <1>3, <2>2, Bases
    <3>2. gap \in Int
      <4>1. (n - 1) + 1 = n /\ n - 1 < n
        OBVIOUS
      <4>2. QED BY <1>3, <1>6, <3>1, <4>1, FragsGap
    <3>3. PICK b : b = Lead(bytes, ino, n - 1)
      OBVIOUS
    <3>4. b # 0
      BY <1>3, <3>1, <3>3 DEF Counted, Whole
    <3>5. b \in S /\ lev[b] = 0 /\ took[b] = n - 1
      BY <3>1, <3>3, <3>4, LeadIn DEF Stands
    <3>6. PICK last \in 1..l : q[last].block = b
      <4>1. PICK i \in 1..Len(q) : q[i] = RunOf(b, lev, took, ino.size)
        BY <1>1, <3>5 DEF InSeq
      <4>2. RunOf(b, lev, took, ino.size).block = b
        BY DEF RunOf
      <4>3. QED BY <1>2, <4>1, <4>2
    <3>7. ASSUME NEW i \in 1..l
          PROVE  q[i].frags = IF i = last THEN FragsPerBlock - gap ELSE FragsPerBlock
      <4>1. PICK x \in S : x = q[i].block /\ q[i].frags = Share(took[x], lev[x], size)
        BY <1>1, <1>2, <1>3
      <4>2. i = last <=> x = b
        BY <1>1, <1>2, <3>6, <4>1
      <4>3. x = b <=> lev[x] = 0 /\ took[x] = n - 1
        <5>1. lev[x] = 0 => Lead(bytes, ino, took[x]) = x
          BY DEF Stands, Found
        <5>2. QED BY <3>3, <3>5, <5>1
      <4>4. QED BY <1>8, <4>1, <4>2, <4>3
    <3>8. AllBut(q, 1..l, last, gap)
      BY <3>7 DEF AllBut
    <3>9. QED BY <3>2, <3>6, <3>8
  <2>3. QED BY <2>1, <2>2
<1>10. IsFiniteSet(1..l) /\ Cardinality(1..l) = l
  BY FS_Interval
<1>11. SumFrags(q, 1..l) = SumOf(1..l, last, gap)
  BY <1>9, <1>10, SumIs
<1>12. SumOf(1..l, last, gap) = FragsPerBlock * l - gap
  BY <1>9, <1>10 DEF SumOf
<1>13. ino.blocks = n * FragsPerBlock - gap + FragsPerBlock * c
  BY <1>3, <1>4, <1>6 DEF Counted, Charge
<1>14. FragsPerBlock * l = n * FragsPerBlock + FragsPerBlock * c
  <2>1. FragsPerBlock * (n + c) = n * FragsPerBlock + FragsPerBlock * c
    BY Constants
  <2>2. QED BY <1>5, <2>1
<1>15. FragsPerBlock * l - gap = n * FragsPerBlock - gap + FragsPerBlock * c
  <2>1. n * FragsPerBlock \in Int /\ FragsPerBlock * c \in Int
    BY Constants
  <2>2. QED BY <1>9, <1>14, <2>1
<1>16. QED BY <1>2, <1>11, <1>12, <1>13, <1>15

-----------------------------------------------------------------------------
(* What a step does to the count.                                          *)

\* What a call has counted of what it stores.
Counting == {"alloc", "set", "walk", "fill"}
Charged(c, m) ==
    /\ c.pc \in Counting => c.frags = Charge(c.k, c.size, m, c.ino)
    /\ c.pc \in {"inode", "name"} => c.ino.blocks = Charge(c.k, c.size, m, c.ino)
FilesCounted(m) == \A f \in live : Counted(m, disk[f])
CInv == (call # Idle => Charged(call, bytes)) /\ FilesCounted(bytes)

LEMMA TreesRoots ==
    ASSUME NEW m, NEW ino, NEW new, new.ib = ino.ib
    PROVE  Trees(m, new) = Trees(m, ino)
<1>1. \A k, l : Way(m, new, k, l) = Way(m, ino, k, l)
  BY DEF Way
<1>2. QED BY <1>1 DEF Trees, OnWay

\* The entries of the lowest level name data.
LEMMA TreesKept ==
    ASSUME NEW m, NEW n, NEW S, NEW lev, NEW took, NEW ino,
           Shape(m, ino, S, lev, took), \A b \in S : lev[b] \in {2, 3} => n[b].ent = m[b].ent
    PROVE  Trees(n, ino) = Trees(m, ino)
<1>1. ASSUME NEW k \in Deep, NEW l \in 1..3, l <= Top(k)
      PROVE  Way(n, ino, k, l) = Way(m, ino, k, l)
  <2> DEFINE P(h) == Way(n, ino, k, h) = Way(m, ino, k, h)
  <2>1. Top(k) \in {1, 2, 3}
    BY Slot
  <2>2. P(Top(k))
    BY WayDown
  <2>3. ASSUME NEW h \in 1..3, h < Top(k), P(h + 1) PROVE P(h)
    <3>1. h \in 0..3 /\ h + 1 \in 0..3 /\ h + 1 \in {2, 3} /\ h + 1 <= Top(k)
      BY <2>1, <2>3
    <3>2. PICK x : x = Way(m, ino, k, h + 1)
      OBVIOUS
    <3>3. /\ Way(n, ino, k, h) = Follow(n, x, Entry(k, h + 1))
          /\ Way(m, ino, k, h) = Follow(m, x, Entry(k, h + 1))
      BY <2>3, <3>1, <3>2, WayDown
    <3>4. x # 0 => n[x].ent = m[x].ent
      <4>1. SUFFICES ASSUME x # 0 PROVE n[x].ent = m[x].ent
        OBVIOUS
      <4>2. Placed(x, k, h + 1, S, lev, took)
        BY <3>1, <3>2, <4>1, WayIn
      <4>3. QED BY <3>1, <4>2 DEF Placed
    <3>5. QED BY <3>3, <3>4 DEF Follow
  <2> HIDE DEF P
  <2>4. \A h \in 1..3 : h < Top(k) /\ P(h + 1) => P(h)
    BY <2>3
  <2>5. P(l)
    BY <1>1, <2>1, <2>2, <2>4
  <2>6. QED BY <2>5 DEF P
<1>2. \A b : \A k \in Deep, l \in 1..3 : OnWay(b, n, ino, k, l) <=> OnWay(b, m, ino, k, l)
  BY <1>1 DEF OnWay
<1>3. QED BY <1>2 DEF Trees

LEMMA NoTrees ==
    ASSUME NEW m, NEW ino, ino.ib = Empty.ib
    PROVE  Trees(m, ino) = {} /\ Cardinality(Trees(m, ino)) = 0
<1>1. PICK lev, took : lev = 0 /\ took = 0
  OBVIOUS
<1>2. Shape(m, Empty, {}, lev, took)
  <2>1. \A k \in 0..(Direct - 1) : Empty.db[k] = 0
    BY DEF Empty
  <2>2. \A s \in Slots : Empty.ib[s] = 0
    BY DEF Empty
  <2>3. QED BY <2>1, <2>2 DEF Shape, Rooted, Closed
<1>3. ASSUME NEW b \in Trees(m, Empty) PROVE FALSE
  <2>1. PICK k \in Deep, l \in 1..3 : OnWay(b, m, Empty, k, l)
    BY DEF Trees
  <2>2. b # 0 /\ l \in 0..3 /\ l <= Top(k) /\ Way(m, Empty, k, l) = b
    BY <2>1, Constants DEF Trees, Blocks, OnWay
  <2>3. Placed(Way(m, Empty, k, l), k, l, {}, lev, took)
    BY <1>2, <2>2, WayIn
  <2>4. QED BY <2>3 DEF Placed
<1>4. Trees(m, ino) = Trees(m, Empty)
  BY TreesRoots
<1>5. Trees(m, ino) = {}
  BY <1>3, <1>4
<1>6. QED BY <1>5, FS_EmptySet

LEMMA CountedKept ==
    ASSUME NEW m, NEW n, NEW S, NEW lev, NEW took, NEW ino,
           Stands(S, ino, m, lev, took), \A b \in S : n[b] = m[b], Counted(m, ino)
    PROVE  Counted(n, ino)
<1>1. Shape(m, ino, S, lev, took) /\ ino \in Inodes /\ Fits(ino.size)
  BY DEF Stands
<1>2. \A b \in S : lev[b] # 0 => n[b].ent = m[b].ent
  OBVIOUS
<1>3. Trees(n, ino) = Trees(m, ino)
  <2>1. \A b \in S : lev[b] \in {2, 3} => n[b].ent = m[b].ent
    OBVIOUS
  <2>2. QED BY ONLY <1>1, <2>1, TreesKept
<1>4. PICK end \in Nat : end = Ceil(ino.size) /\ end <= Base[3]
  BY <1>1, SizeFits
<1>5. ASSUME NEW k \in 0..(end - 1) PROVE Lead(n, ino, k) # 0
  <2>1. k \in 0..(Base[3] - 1)
    BY <1>4, Bases
  <2>2. Lead(n, ino, k) = Lead(m, ino, k)
    BY <1>1, <1>2, <2>1, LeadKept
  <2>3. QED BY <1>4, <2>2 DEF Counted, Whole
<1>6. Whole(n, ino, Ceil(ino.size))
  BY <1>4, <1>5 DEF Whole
<1>7. QED BY <1>3, <1>6 DEF Counted, Charge

\* The blocks of the files are as they were.
LEMMA FilesCountedKept ==
    ASSUME Types, NEW H, NEW C, NEW lev, NEW took, Sound(H, C, lev, took), FilesCounted(bytes),
           NEW n, \A f \in Files : \A b \in H[f] : n[b] = bytes[b]
    PROVE  FilesCounted(n)
<1>1. SUFFICES ASSUME NEW f \in live PROVE Counted(n, disk[f])
  BY DEF FilesCounted
<1>2. f \in Files /\ Kept(H[f], disk[f], bytes, used, lev, took) /\ Counted(bytes, disk[f])
  BY DEF Sound, FilesOK, Types, FilesCounted
<1>3. Stands(H[f], disk[f], bytes, lev, took)
  BY <1>2 DEF Kept
<1>4. QED BY <1>2, <1>3, CountedKept

LEMMA QuietFiles ==
    ASSUME FilesCounted(bytes'), live' \subseteq live, \A f \in live' : disk'[f] = disk[f]
    PROVE  FilesCounted(bytes)'
  BY DEF FilesCounted

\* A step with the image as it was, after which the call has counted the same.
LEMMA SameImage ==
    ASSUME CInv, UNCHANGED <<bytes, disk, live>>, call' # Idle => Charged(call', bytes)
    PROVE  CInv'
<1>1. FilesCounted(bytes)'
  BY QuietFiles DEF CInv
<1>2. call' # Idle => Charged(call', bytes')
  OBVIOUS
<1>3. QED BY <1>1, <1>2 DEF CInv

Uncharged == Freeing \cup {"putback", "clear"}
LEMMA NotCharged ==
    ASSUME NEW c, c.pc \in Uncharged, NEW m
    PROVE  Charged(c, m)
  BY DEF Charged, Uncharged, Counting, Freeing

SameCount(c, e) == e.frags = c.frags /\ e.k = c.k /\ e.size = c.size
LEMMA ChargedSame ==
    ASSUME NEW m, NEW n, NEW c, NEW e, Charged(c, m), c.pc \in Counting, e.pc \in Counting,
           SameCount(c, e), Trees(n, e.ino) = Trees(m, c.ino)
    PROVE  Charged(e, n)
<1>1. c.frags = Charge(c.k, c.size, m, c.ino)
  BY DEF Charged
<1>2. e.frags = Charge(e.k, e.size, n, e.ino)
  BY <1>1 DEF Charge, SameCount
<1>3. e.pc \notin {"inode", "name"}
  BY DEF Counting
<1>4. QED BY <1>2, <1>3 DEF Charged

LEMMA BeginFiles ==
    ASSUME IInv, CInv, Begin, UNCHANGED disk, live' \subseteq live
    PROVE  FilesCounted(bytes)'
<1>1. PICK H, C, lev, took : Sound(H, C, lev, took)
  BY DEF IInv
<1>2. Types /\ FilesCounted(bytes)
  BY DEF IInv, CInv
<1>3. PICK n : n = bytes'
  OBVIOUS
<1>4. \A f \in Files : \A b \in H[f] : n[b] = bytes[b]
  BY <1>1, <1>3, BeginSpares DEF Spared
<1>5. FilesCounted(n)
  BY ONLY <1>1, <1>2, <1>4, FilesCountedKept
<1>6. FilesCounted(bytes') /\ \A f \in live' : disk'[f] = disk[f]
  BY <1>3, <1>5
<1>7. QED BY <1>6, QuietFiles

LEMMA ChargeNone ==
    ASSUME NEW m, NEW ino, ino.ib = Empty.ib, NEW size \in Nat
    PROVE  Charge(0, size, m, ino) = 0
<1>1. Cardinality(Trees(m, ino)) = 0
  BY NoTrees
<1>2. 0 * FragsPerBlock = 0 /\ FragsPerBlock * 0 = 0
  BY Constants
<1>3. Gap(0, size) = 0
  BY <1>2 DEF Gap
<1>4. QED BY <1>1, <1>2, <1>3 DEF Charge

LEMMA StoringCInv ==
    ASSUME IInv, IInv', CInv, Begin, UNCHANGED <<disk, live>>,
           NEW kind, NEW f, NEW ino, NEW size, NEW buf, ino.ib = Empty.ib,
           call' = Storing(kind, f, ino, size, buf)
    PROVE  CInv'
<1>1. FilesCounted(bytes)'
  BY BeginFiles
<1>2. PICK c : c = call'
  OBVIOUS
<1>3. c.pc = "alloc" /\ c.ino = ino /\ c.frags = 0 /\ c.size = size /\ c.k = 0
  BY <1>2 DEF Storing
<1>4. call' \in Calls
  <2>1. call' # Idle
    BY <1>2, <1>3 DEF Idle
  <2>2. QED BY <2>1 DEF IInv, Types
<1>5. size \in Nat
  BY <1>2, <1>3, <1>4 DEF Calls
<1>6. PICK n : n = bytes'
  OBVIOUS
<1>7. Charge(0, size, n, ino) = 0
  BY <1>5, ChargeNone
<1>8. Charged(c, n)
  BY <1>3, <1>7 DEF Charged
<1>9. QED BY <1>1, <1>2, <1>6, <1>8 DEF CInv

LEMMA CreateCInv ==
    ASSUME IInv, IInv', CInv, NEW f, NEW size, Create(f, size)
    PROVE  CInv'
<1>1. PICK ino, buf : ino = [Empty EXCEPT !.size = size] /\ buf = [i \in 1..size |-> Stamp]
  OBVIOUS
<1>2. ino.ib = Empty.ib
  BY <1>1 DEF Empty
<1>3. /\ call' = Storing("create", f, ino, size, buf) /\ Begin /\ UNCHANGED <<disk, live>>
  BY <1>1 DEF Create
<1>4. QED BY <1>2, <1>3, StoringCInv

LEMMA RewriteCInv ==
    ASSUME IInv, IInv', CInv, NEW f, NEW buf, Rewrite(f, buf)
    PROVE  CInv'
<1>1. /\ call' = Storing("rewrite", f, Empty, Len(buf), buf) /\ Begin /\ UNCHANGED <<disk, live>>
  BY DEF Rewrite
<1>2. PICK ino, size : ino = Empty /\ size = Len(buf)
  OBVIOUS
<1>3. ino.ib = Empty.ib /\ call' = Storing("rewrite", f, ino, size, buf)
  BY <1>1, <1>2
<1>4. QED BY <1>1, <1>3, StoringCInv

LEMMA UnlinkCInv ==
    ASSUME IInv, CInv, NEW f, Unlink(f)
    PROVE  CInv'
<1>1. Begin /\ UNCHANGED disk /\ live' \subseteq live
  BY DEF Unlink
<1>2. FilesCounted(bytes)'
  BY <1>1, BeginFiles
<1>3. call'.pc = "unlink"
  BY DEF Unlink, Storing
<1>4. PICK c, n : c = call' /\ n = bytes'
  OBVIOUS
<1>5. Charged(c, n)
  BY <1>3, <1>4, NotCharged DEF Uncharged, Freeing
<1>6. QED BY <1>2, <1>4, <1>5 DEF CInv

-----------------------------------------------------------------------------
(* Counting while storing.                                                 *)
LEMMA Stopped ==
    ASSUME call \in Calls, CInv, UNCHANGED <<bytes, disk, live>>,
           \/ Undo \/ PutBack
           \/ call'.pc \in Uncharged
           \/ call' = Idle
    PROVE  CInv'
<1>1. CASE call' = Idle
  BY <1>1, SameImage
<1>2. CASE call' # Idle
  <2>1. call'.pc \in Uncharged
    BY <1>2 DEF Undo, PutBack, Calls, Uncharged, Freeing
  <2>2. PICK c, m : c = call' /\ m = bytes
    OBVIOUS
  <2>3. Charged(c, m)
    BY <2>1, <2>2, NotCharged
  <2>4. QED BY <2>2, <2>3, SameImage
<1>3. QED BY <1>1, <1>2

\* A step that takes no block for a tree.
LEMMA GoesOn ==
    ASSUME call # Idle, call.pc \in Counting, CInv, UNCHANGED <<bytes, disk, live>>,
           call'.pc \in Counting, SameCount(call, call'), call'.ino.ib = call.ino.ib
    PROVE  CInv'
<1>1. PICK c, e, m : c = call /\ e = call' /\ m = bytes
  OBVIOUS
<1>2. Trees(m, e.ino) = Trees(m, c.ino)
  BY <1>1, TreesRoots
<1>3. Charged(c, m)
  BY <1>1 DEF CInv
<1>4. SameCount(c, e) /\ c.pc \in Counting /\ e.pc \in Counting
  BY <1>1
<1>5. Charged(e, m)
  BY ONLY <1>2, <1>3, <1>4, ChargedSame
<1>6. QED BY <1>1, <1>5, SameImage

LEMMA AllocRunCInv ==
    ASSUME call \in Calls, CInv, AllocRun
    PROVE  CInv'
<1>1. call.pc = "alloc" /\ call # Idle /\ UNCHANGED <<bytes, disk, live>>
  BY DEF AllocRun, Idle
<1>2. CASE Undo
  BY <1>1, <1>2, Stopped
<1>3. CASE call' = [call EXCEPT !.pc = "set", !.hand = Min(FreeBlocks)]
  <2>1. /\ call'.pc \in Counting /\ call.pc \in Counting /\ SameCount(call, call')
        /\ call'.ino.ib = call.ino.ib
    BY <1>1, <1>3 DEF Calls, Counting, SameCount
  <2>2. QED BY <1>1, <2>1, GoesOn
<1>4. QED BY <1>2, <1>3 DEF AllocRun

LEMMA SetDirectCInv ==
    ASSUME call \in Calls, CInv, SetDirect
    PROVE  CInv'
<1>1. call.pc = "set" /\ call # Idle /\ UNCHANGED <<bytes, disk, live>>
  BY DEF SetDirect, Idle
<1>2. PICK new : new = [call.ino EXCEPT !.db[call.k] = call.hand]
  OBVIOUS
<1>3. new.ib = call.ino.ib
  BY <1>2 DEF Calls, Inodes
<1>4. call' = [call EXCEPT !.pc = "fill", !.ino = new]
  BY <1>2 DEF SetDirect
<1>5. /\ call'.pc \in Counting /\ call.pc \in Counting /\ SameCount(call, call')
      /\ call'.ino.ib = call.ino.ib
  BY <1>1, <1>3, <1>4 DEF Calls, Counting, SameCount
<1>6. QED BY <1>1, <1>5, GoesOn

LEMMA SetRootCInv ==
    ASSUME call \in Calls, CInv, SetRoot
    PROVE  CInv'
<1>1. call.pc = "set" /\ call # Idle /\ UNCHANGED <<bytes, disk, live>>
  BY DEF SetRoot, Idle
<1>2. call' = [call EXCEPT !.pc = "walk", !.at = call.ino.ib[SlotOf[call.k]], !.level = SlotOf[call.k] + 1]
  BY DEF SetRoot
<1>3. /\ call'.pc \in Counting /\ call.pc \in Counting /\ SameCount(call, call')
      /\ call'.ino.ib = call.ino.ib
  BY <1>1, <1>2 DEF Calls, Counting, SameCount
<1>4. QED BY <1>1, <1>3, GoesOn

LEMMA DescendCInv ==
    ASSUME call \in Calls, CInv, Descend
    PROVE  CInv'
<1>1. call.pc = "walk" /\ call # Idle /\ UNCHANGED <<bytes, disk, live>>
  BY DEF Descend, Idle
<1>2. CASE PutBack
  BY <1>1, <1>2, Stopped
<1>3. CASE call' = [call EXCEPT !.at = Child, !.level = @ - 1]
  <2>1. /\ call'.pc \in Counting /\ call.pc \in Counting /\ SameCount(call, call')
        /\ call'.ino.ib = call.ino.ib
    BY <1>1, <1>3 DEF Calls, Counting, SameCount
  <2>2. QED BY <1>1, <2>1, GoesOn
<1>4. QED BY <1>2, <1>3 DEF Descend

LEMMA StoredCInv ==
    ASSUME call \in Calls, CInv, Stored
    PROVE  CInv'
<1>1. call.pc = "alloc" /\ call # Idle /\ UNCHANGED <<bytes, disk, live>>
  BY DEF Stored, Idle
<1>2. PICK new : new = [call.ino EXCEPT !.size = call.size, !.blocks = call.frags]
  OBVIOUS
<1>3. new.ib = call.ino.ib /\ new.blocks = call.frags
  BY <1>2 DEF Calls, Inodes
<1>4. call' = [call EXCEPT !.pc = "inode", !.ino = new]
  BY <1>2 DEF Stored, Calls, Inodes
<1>5. call'.pc = "inode" /\ call'.ino = new /\ call'.k = call.k /\ call'.size = call.size
  BY <1>4 DEF Calls
<1>6. PICK e, m : e = call' /\ m = bytes
  OBVIOUS
<1>7. Trees(m, new) = Trees(m, call.ino)
  BY <1>3, TreesRoots
<1>8. call.frags = Charge(call.k, call.size, m, call.ino)
  BY <1>1, <1>6 DEF CInv, Charged, Counting
<1>9. Charged(e, m)
  BY <1>3, <1>5, <1>6, <1>7, <1>8 DEF Charged, Charge, Counting
<1>10. QED BY <1>1, <1>6, <1>9, SameImage

\* Block b is named where nothing was, and names nothing.
Grafted(m, n, ino, new, C, b) ==
    /\ b # 0 /\ b \notin C /\ \A i \in Index : n[b].ent[i] = 0
    /\ \A x \in C : \A i \in Index : n[x].ent[i] = m[x].ent[i] \/ n[x].ent[i] = b
    /\ \A s \in Slots : new.ib[s] = ino.ib[s] \/ new.ib[s] = b

LEMMA WayGrafted ==
    ASSUME NEW m, NEW n, NEW ino, NEW new, NEW C, NEW lev, NEW took, NEW b,
           Shape(m, ino, C, lev, took), Grafted(m, n, ino, new, C, b),
           NEW k \in Deep, NEW l \in 0..3, l <= Top(k)
    PROVE  Way(n, new, k, l) \in {Way(m, ino, k, l), b, 0}
<1> DEFINE P(h) == Way(n, new, k, h) \in {Way(m, ino, k, h), b, 0}
<1>1. Top(k) \in {1, 2, 3} /\ SlotOf[k] \in Slots
  BY Slot
<1>2. P(Top(k))
  <2>1. Way(n, new, k, Top(k)) = new.ib[SlotOf[k]] /\ Way(m, ino, k, Top(k)) = ino.ib[SlotOf[k]]
    BY WayDown
  <2>2. QED BY <1>1, <2>1 DEF Grafted
<1>3. ASSUME NEW h \in 0..3, h < Top(k), P(h + 1) PROVE P(h)
  <2>1. PICK i \in Index : i = Entry(k, h + 1)
    <3>1. h + 1 \in 1..3 /\ h + 1 <= Top(k)
      BY <1>1, <1>3
    <3>2. QED BY <3>1, EntryIn
  <2>2. PICK x, y : x = Way(m, ino, k, h + 1) /\ y = Way(n, new, k, h + 1)
    OBVIOUS
  <2>3. Way(m, ino, k, h) = Follow(m, x, i) /\ Way(n, new, k, h) = Follow(n, y, i)
    BY <1>3, <2>1, <2>2, WayDown
  <2>4. y = x \/ y = b \/ y = 0
    BY <1>3, <2>2
  <2>5. CASE y = 0
    BY <2>3, <2>5 DEF Follow
  <2>6. CASE y = b
    BY <2>3, <2>6 DEF Follow, Grafted
  <2>7. CASE y = x /\ y # 0
    <3>1. h + 1 \in 0..3 /\ h + 1 <= Top(k)
      BY <1>1, <1>3
    <3>2. Placed(x, k, h + 1, C, lev, took)
      BY <2>2, <2>7, <3>1, WayIn
    <3>3. x \in C
      BY <3>2 DEF Placed
    <3>4. n[x].ent[i] = m[x].ent[i] \/ n[x].ent[i] = b
      BY <3>3 DEF Grafted
    <3>5. Way(m, ino, k, h) = m[x].ent[i] /\ Way(n, new, k, h) = n[x].ent[i]
      BY <2>3, <2>7 DEF Follow
    <3>6. QED BY <3>4, <3>5
  <2>8. QED BY <2>4, <2>5, <2>6, <2>7
<1> HIDE DEF P
<1>4. \A h \in 0..3 : h < Top(k) /\ P(h + 1) => P(h)
  BY <1>3
<1>5. P(l)
  BY <1>1, <1>2, <1>4
<1>6. QED BY <1>5 DEF P

LEMMA TreesWithin ==
    ASSUME NEW m, NEW ino, NEW S, NEW lev, NEW took, Shape(m, ino, S, lev, took)
    PROVE  Trees(m, ino) \subseteq S
<1>1. ASSUME NEW b \in Trees(m, ino) PROVE b \in S
  <2>1. PICK k \in Deep, l \in 1..3 : OnWay(b, m, ino, k, l)
    BY DEF Trees
  <2>2. b # 0 /\ l \in 0..3 /\ l <= Top(k) /\ Way(m, ino, k, l) = b
    BY <2>1, Constants DEF Trees, Blocks, OnWay
  <2>3. Placed(Way(m, ino, k, l), k, l, S, lev, took)
    BY <2>2, WayIn
  <2>4. QED BY <2>2, <2>3 DEF Placed
<1>2. QED BY <1>1

\* A block of the way is one block more.
LEMMA TreesGrafted ==
    ASSUME NEW m, NEW n, NEW ino, NEW new, NEW C, NEW lev, NEW took, NEW b \in Blocks,
           Shape(m, ino, C, lev, took), Grafted(m, n, ino, new, C, b), Wider(m, n, ino, new, C, lev),
           NEW k \in Deep, NEW l \in 1..3, OnWay(b, n, new, k, l)
    PROVE  Cardinality(Trees(n, new)) = Cardinality(Trees(m, ino)) + 1
<1>1. b \notin Trees(m, ino)
  BY TreesWithin DEF Grafted
<1>2. b \in Trees(n, new)
  BY DEF Trees
<1>3. ASSUME NEW x \in Trees(m, ino) PROVE x \in Trees(n, new)
  <2>1. PICK j \in Deep, h \in 1..3 : OnWay(x, m, ino, j, h)
    BY DEF Trees
  <2>2. x \in Blocks /\ x # 0 /\ h \in 0..3 /\ h <= Top(j) /\ Way(m, ino, j, h) = x
    BY <2>1, Constants DEF Trees, Blocks, OnWay
  <2>3. Way(n, new, j, h) = Way(m, ino, j, h)
    BY <2>2, WayWiden
  <2>4. OnWay(x, n, new, j, h)
    BY <2>2, <2>3 DEF OnWay
  <2>5. QED BY <2>2, <2>4 DEF Trees
<1>4. ASSUME NEW x \in Trees(n, new), x # b PROVE x \in Trees(m, ino)
  <2>1. PICK j \in Deep, h \in 1..3 : OnWay(x, n, new, j, h)
    BY DEF Trees
  <2>2. x \in Blocks /\ x # 0 /\ h \in 0..3 /\ h <= Top(j) /\ Way(n, new, j, h) = x
    BY <2>1, Constants DEF Trees, Blocks, OnWay
  <2>3. Way(n, new, j, h) \in {Way(m, ino, j, h), b, 0}
    BY <2>2, WayGrafted
  <2>4. OnWay(x, m, ino, j, h)
    BY <1>4, <2>2, <2>3 DEF OnWay
  <2>5. QED BY <2>2, <2>4 DEF Trees
<1>5. PICK A, B : A = Trees(m, ino) /\ B = Trees(n, new)
  OBVIOUS
<1>6. B = A \cup {b} /\ b \notin A
  BY <1>1, <1>2, <1>3, <1>4, <1>5
<1>7. IsFiniteSet(A)
  BY <1>5, TreesFinite
<1>8. Cardinality(A \cup {b}) = Cardinality(A) + 1
  BY <1>6, <1>7, FS_AddElement
<1>9. QED BY <1>5, <1>6, <1>8

LEMMA ChargeGrafted ==
    ASSUME NEW m, NEW n, NEW ino, NEW new, NEW size \in Nat, NEW k \in Nat, Gap(k, size) \in Int,
           Cardinality(Trees(n, new)) = Cardinality(Trees(m, ino)) + 1
    PROVE  Charge(k, size, n, new) = Charge(k, size, m, ino) + FragsPerBlock
<1>1. PICK c \in Nat : c = Cardinality(Trees(m, ino))
  BY TreesFinite
<1>2. PICK p \in Int, q \in Int, r \in Int : /\ p = k * FragsPerBlock - Gap(k, size)
                                             /\ q = FragsPerBlock * c /\ r = FragsPerBlock * (c + 1)
  <2>1. k * FragsPerBlock \in Int /\ FragsPerBlock * c \in Int /\ FragsPerBlock * (c + 1) \in Int
    BY Constants
  <2>2. QED BY <2>1
<1>3. r = q + FragsPerBlock /\ FragsPerBlock \in Nat
  <2>1. FragsPerBlock * (c + 1) = FragsPerBlock * c + FragsPerBlock
    BY Constants
  <2>2. QED BY <1>2, <2>1, Constants
<1>4. Charge(k, size, m, ino) = p + q /\ Charge(k, size, n, new) = p + r
  BY <1>1, <1>2 DEF Charge
<1>5. QED BY <1>2, <1>3, <1>4

\* The call after a block of its way was taken.
LEMMA GraftCInv ==
    ASSUME NEW H, NEW C, NEW lev, NEW took, At(H, C, lev, took), CInv,
           call.pc \in {"set", "walk"}, call'.pc \in {"set", "walk"}, UNCHANGED <<disk, live>>,
           NEW b \in Blocks, \A f \in Files : b \notin H[f],
           NEW n, n = bytes', \A x \in Blocks : x # b /\ x \notin C => n[x] = bytes[x],
           NEW new, call'.ino = new, call'.k = call.k, call'.size = call.size,
           call'.frags = call.frags + FragsPerBlock,
           Grafted(bytes, n, call.ino, new, C, b), Wider(bytes, n, call.ino, new, C, lev),
           NEW k \in Deep, NEW l \in 1..3, OnWay(b, n, new, k, l)
    PROVE  CInv'
<1>G. Facts(H, C, lev, took)
  BY Given
<1>1. Types /\ Sound(H, C, lev, took) /\ FilesCounted(bytes) /\ call # Idle
  BY DEF At, CInv
<1>2. \A f \in Files : \A x \in H[f] : n[x] = bytes[x]
  BY <1>G DEF Facts
<1>3. FilesCounted(n)
  BY ONLY <1>1, <1>2, FilesCountedKept
<1>4. FilesCounted(bytes)'
  <2>1. FilesCounted(bytes')
    BY <1>3
  <2>2. QED BY <2>1, QuietFiles
<1>5. PICK m : m = bytes
  OBVIOUS
<1>6. Shape(m, call.ino, C, lev, took)
  BY <1>G, <1>5 DEF Facts
<1>7. Cardinality(Trees(n, new)) = Cardinality(Trees(m, call.ino)) + 1
  BY <1>5, <1>6, TreesGrafted
<1>8. call.k \in Nat /\ call.size \in Nat /\ call.k < Ceil(call.size)
  BY <1>G DEF Facts, Built, Loose
<1>9. Gap(call.k, call.size) \in Int
  BY <1>8, FragsGap
<1>10. Charge(call.k, call.size, n, new) = Charge(call.k, call.size, m, call.ino) + FragsPerBlock
  BY <1>7, <1>8, <1>9, ChargeGrafted
<1>11. call.frags = Charge(call.k, call.size, m, call.ino)
  BY <1>1, <1>5 DEF CInv, Charged, Counting
<1>12. PICK e : e = call'
  OBVIOUS
<1>13. e.frags = Charge(e.k, e.size, n, e.ino) /\ e.pc \in {"set", "walk"}
  BY <1>10, <1>11, <1>12
<1>14. Charged(e, n)
  BY <1>13 DEF Charged
<1>15. QED BY <1>4, <1>12, <1>14 DEF CInv

LEMMA NewRootCInv ==
    ASSUME IInv, CInv, NewRoot
    PROVE  CInv'
<1>1. /\ call.pc = "set" /\ call.pc \in Fills /\ call.pc \in {"set", "walk"} /\ call.pc \in Loose
      /\ call.k >= Direct /\ call.ino.ib[SlotOf[call.k]] = 0 /\ UNCHANGED <<disk, live>>
  BY DEF NewRoot, Fills, Loose
<1>2. PICK H, C, lev, took : At(H, C, lev, took)
  BY <1>1, Storings
<1>G. Facts(H, C, lev, took)
  BY <1>2, Given
<1> USE <1>G DEF Facts
<1>3. CASE PutBack /\ UNCHANGED bytes
  BY <1>1, <1>3, Stopped
<1>4. CASE /\ FreeBlocks # {} /\ Fine
           /\ used' = Taken(Min(FreeBlocks), FragsPerBlock) /\ bytes' = Zeroed(Min(FreeBlocks))
           /\ call' = [call EXCEPT !.ino.ib[SlotOf[call.k]] = Min(FreeBlocks), !.frags = @ + FragsPerBlock]
  <2>1. PICK b : b = Min(FreeBlocks)
    OBVIOUS
  <2>2. b \in Blocks /\ used[b] = 0 /\ b \notin C /\ \A f \in Files : b \notin H[f]
    BY <1>2, <1>4, <2>1, Fresh
  <2>3. call.k \in Deep
    BY <1>1, Constants DEF Built, Deep
  <2>4. PICK k \in Deep, s \in Slots : k = call.k /\ s = SlotOf[k]
    <3>1. SlotOf[call.k] \in Slots
      BY <2>3, Slot
    <3>2. QED BY <2>3, <3>1
  <2>5. s + 1 = Top(k) /\ s + 1 \in 1..3
    BY <2>4 DEF Top, Slots
  <2>6. PICK new : new = [call.ino EXCEPT !.ib[s] = b]
    OBVIOUS
  <2>7. b \in 0..NBlocks /\ b # 0
    BY <2>2, Constants DEF Blocks
  <2>8. /\ new.db = call.ino.db /\ new.ib[s] = b /\ call.ino.ib[s] = 0
        /\ \A r \in Slots : r # s => new.ib[r] = call.ino.ib[r]
    BY <1>1, <2>4, <2>6, <2>7 DEF Inodes
  <2>9. call' = [call EXCEPT !.ino = new, !.frags = @ + FragsPerBlock]
    BY <1>4, <2>1, <2>4, <2>6 DEF Calls
  <2>10. /\ call'.pc = "set" /\ call'.ino = new /\ call'.k = call.k /\ call'.size = call.size
         /\ call'.frags = call.frags + FragsPerBlock
    BY <1>1, <2>9 DEF Calls
  <2>11. PICK n : n = bytes'
    OBVIOUS
  <2>12. (\A x \in Blocks : x # b => n[x] = bytes[x]) /\ \A i \in Index : n[b].ent[i] = 0
    BY <1>4, <2>1, <2>2, <2>11, ZeroedIs
  <2>13. Wider(bytes, n, call.ino, new, C, lev)
    BY <2>2, <2>8, <2>12 DEF Wider
  <2>14. Grafted(bytes, n, call.ino, new, C, b)
    BY <2>2, <2>7, <2>8, <2>12 DEF Grafted
  <2>15. OnWay(b, n, new, k, s + 1)
    BY <2>4, <2>5, <2>8, WayDown DEF OnWay
  <2>16. \A x \in Blocks : x # b /\ x \notin C => n[x] = bytes[x]
    BY <2>12
  <2>17. call'.pc \in {"set", "walk"} /\ call.pc \in {"set", "walk"}
    BY <1>1, <2>10
  <2>18. UNCHANGED <<disk, live>>
    BY <1>1
  <2>19. /\ call'.ino = new /\ call'.k = call.k /\ call'.size = call.size
         /\ call'.frags = call.frags + FragsPerBlock
    BY <2>10
  <2>20. k \in Deep
    BY <2>4
  <2>21. QED
    BY ONLY <1>2, CInv, <2>2, <2>5, <2>11, <2>13, <2>14, <2>15, <2>16, <2>17, <2>18, <2>19, <2>20, GraftCInv
<1>5. QED BY <1>3, <1>4 DEF NewRoot, BlockLost

LEMMA NewChildCInv ==
    ASSUME IInv, CInv, NewChild
    PROVE  CInv'
<1>1. /\ call.pc = "walk" /\ call.pc \in Fills /\ call.pc \in {"set", "walk"} /\ call.pc \in Loose
      /\ call.level > 1 /\ Child = 0 /\ UNCHANGED <<disk, live>>
  BY DEF NewChild, Fills, Loose
<1>2. PICK H, C, lev, took : At(H, C, lev, took)
  BY <1>1, Storings
<1>G. Facts(H, C, lev, took)
  BY <1>2, Given
<1> USE <1>G DEF Facts
<1>3. CASE PutBack /\ UNCHANGED bytes
  BY <1>1, <1>3, Stopped
<1>4. CASE /\ FreeBlocks # {} /\ Fine
           /\ used' = Taken(Min(FreeBlocks), FragsPerBlock)
           /\ bytes' = [Zeroed(Min(FreeBlocks)) EXCEPT ![call.at].ent[Here] = Min(FreeBlocks)]
           /\ call' = [call EXCEPT !.at = Min(FreeBlocks), !.level = @ - 1, !.frags = @ + FragsPerBlock]
  <2>1. PICK b : b = Min(FreeBlocks)
    OBVIOUS
  <2>2. b \in Blocks /\ used[b] = 0 /\ b \notin C /\ \A f \in Files : b \notin H[f]
    BY <1>2, <1>4, <2>1, Fresh
  <2>3. PICK at, e, k : at = call.at /\ e = Here /\ k = call.k
    OBVIOUS
  <2>4. PICK l \in 1..3 : l + 1 = call.level
    <3>1. call.level \in 1..3
      BY <1>1, <1>2, Walking
    <3>2. call.level - 1 \in 1..3 /\ (call.level - 1) + 1 = call.level
      BY <1>1, <3>1
    <3>3. QED BY <3>2
  <2>5. /\ k \in Deep /\ l + 1 <= Top(k) /\ l <= Top(k) /\ l < Top(k) /\ l \in 0..3 /\ l + 1 \in 0..3
        /\ at \in C /\ at \in Blocks /\ at = Way(bytes, call.ino, k, l + 1)
        /\ e = Entry(k, l + 1) /\ e \in Index /\ bytes[at].ent[e] = 0 /\ at # 0
    <3>1. /\ call.k \in Deep /\ call.level \in 1..Top(call.k)
          /\ call.at \in C /\ call.at # 0
          /\ call.at = Way(bytes, call.ino, call.k, call.level)
          /\ Here = Entry(call.k, call.level) /\ Here \in Index
      BY <1>1, <1>2, Walking
    <3>2. Top(call.k) \in 1..3
      BY <3>1, Slot
    <3>3. bytes[at].ent[e] = 0
      BY <1>1, <2>3 DEF Child
    <3>4. l + 1 <= Top(k) /\ l <= Top(k) /\ l < Top(k) /\ l \in 0..3 /\ l + 1 \in 0..3
      BY <2>3, <2>4, <3>1, <3>2
    <3>5. QED BY <2>3, <2>4, <3>1, <3>3, <3>4
  <2>6. b \in 0..NBlocks /\ b # 0 /\ at # b
    BY <2>2, <2>5, Constants DEF Blocks
  <2>7. /\ call'.pc = "walk" /\ call'.ino = call.ino /\ call'.k = call.k /\ call'.size = call.size
        /\ call'.frags = call.frags + FragsPerBlock
    BY <1>1, <1>4 DEF Calls
  <2>8. PICK n : n = bytes'
    OBVIOUS
  <2>9. /\ \A x \in Blocks : x # b /\ x # at => n[x] = bytes[x]
        /\ \A i \in Index : n[b].ent[i] = 0
        /\ n[at].ent[e] = b /\ \A j \in Index : j # e => n[at].ent[j] = bytes[at].ent[j]
    <3>1. PICK z : z = Zeroed(b)
      OBVIOUS
    <3>2. /\ IsBytes(z) /\ \A x \in Blocks : x # b => z[x] = bytes[x]
          /\ \A i \in Index : z[b].ent[i] = 0
      BY <2>2, <3>1, ZeroedIs
    <3>3. SetsEntry(n, z, at, e, b)
      BY <1>4, <2>1, <2>3, <2>8, <3>1 DEF SetsEntry
    <3>4. /\ IsBytes(n) /\ \A x \in Blocks : x # at => n[x] = z[x]
          /\ n[at].val = z[at].val /\ n[at].ent[e] = b
          /\ \A j \in Index : j # e => n[at].ent[j] = z[at].ent[j]
      BY <2>5, <2>6, <3>2, <3>3, EntrySet
    <3>5. QED BY <2>2, <2>5, <2>6, <3>2, <3>4
  <2>10. ASSUME NEW x \in C, NEW i \in Index
         PROVE  n[x].ent[i] = bytes[x].ent[i] \/ (n[x].ent[i] = b /\ bytes[x].ent[i] = 0)
    <3>1. x \in Blocks /\ x # b
      BY <2>2
    <3>2. CASE x = at
      BY <2>5, <2>9, <3>2
    <3>3. CASE x # at
      BY <2>9, <3>1, <3>3
    <3>4. QED BY <3>2, <3>3
  <2>11. Wider(bytes, n, call.ino, call.ino, C, lev)
    BY <2>10 DEF Wider
  <2>12. Grafted(bytes, n, call.ino, call.ino, C, b)
    BY <2>2, <2>6, <2>9, <2>10 DEF Grafted
  <2>13. OnWay(b, n, call.ino, k, l)
    <3>1. Way(n, call.ino, k, l + 1) = at
      BY <2>5, <2>11, WayWiden
    <3>2. Way(n, call.ino, k, l) = Follow(n, at, e)
      BY <2>5, <3>1, WayDown
    <3>3. QED BY <2>5, <2>9, <3>2 DEF OnWay, Follow
  <2>14. \A x \in Blocks : x # b /\ x \notin C => n[x] = bytes[x]
    BY <2>5, <2>9
  <2>15. call'.pc \in {"set", "walk"} /\ call.pc \in {"set", "walk"}
    BY <1>1, <2>7
  <2>16. UNCHANGED <<disk, live>>
    BY <1>1
  <2>17. PICK new : new = call.ino
    OBVIOUS
  <2>18. /\ call'.ino = new /\ call'.k = call.k /\ call'.size = call.size
         /\ call'.frags = call.frags + FragsPerBlock
    BY <2>7, <2>17
  <2>19. Wider(bytes, n, call.ino, new, C, lev) /\ Grafted(bytes, n, call.ino, new, C, b) /\ OnWay(b, n, new, k, l)
    BY <2>11, <2>12, <2>13, <2>17
  <2>20. k \in Deep
    BY <2>5
  <2>21. QED
    BY ONLY <1>2, CInv, <2>2, <2>4, <2>8, <2>14, <2>15, <2>16, <2>18, <2>19, <2>20, GraftCInv
<1>5. QED BY <1>3, <1>4 DEF NewChild, BlockLost

\* A step that changes blocks of the call only.
LEMMA WithinCall ==
    ASSUME NEW H, NEW C, NEW lev, NEW took, At(H, C, lev, took), CInv, UNCHANGED <<disk, live>>,
           NEW n, n = bytes', \A x \in Blocks : x \notin C => n[x] = bytes[x]
    PROVE  FilesCounted(bytes)'
<1>1. Types /\ Sound(H, C, lev, took) /\ FilesCounted(bytes)
  BY DEF At, CInv
<1>2. \A f \in Files : H[f] \subseteq Blocks /\ H[f] \cap C = {}
  BY Given DEF Facts
<1>3. \A f \in Files : \A x \in H[f] : n[x] = bytes[x]
  BY <1>2
<1>4. FilesCounted(n)
  BY ONLY <1>1, <1>3, FilesCountedKept
<1>5. FilesCounted(bytes')
  BY <1>4
<1>6. QED BY <1>5, QuietFiles

LEMMA WriteEntryCInv ==
    ASSUME IInv, CInv, WriteEntry
    PROVE  CInv'
<1>1. /\ call.pc = "walk" /\ call.pc \in Fills /\ call.level = 1 /\ UNCHANGED <<disk, live>>
  BY DEF WriteEntry, Fills
<1>2. PICK H, C, lev, took : At(H, C, lev, took)
  BY <1>1, Storings
<1>G. Facts(H, C, lev, took)
  BY <1>2, Given
<1> USE <1>G DEF Facts
<1>3. CASE PutBack /\ UNCHANGED bytes
  BY <1>1, <1>3, Stopped
<1>4. CASE bytes' = Linked(call.hand) /\ call' = [call EXCEPT !.pc = "fill"]
  <2>1. PICK at, n : at = call.at /\ n = bytes'
    OBVIOUS
  <2>2. at \in C /\ at \in Blocks /\ lev[at] = 1
    BY <1>1, <1>2, <2>1, Walking
  <2>3. \A x \in Blocks : x # at => n[x] = bytes[x]
    BY <1>4, <2>1 DEF Linked, IsBytes
  <2>4. FilesCounted(bytes)'
    <3>1. \A x \in Blocks : x \notin C => n[x] = bytes[x]
      BY <2>2, <2>3
    <3>2. QED BY <1>1, <1>2, <2>1, <3>1, WithinCall
  <2>5. PICK c, e, m : c = call /\ e = call' /\ m = bytes
    OBVIOUS
  <2>6. Trees(n, c.ino) = Trees(m, c.ino)
    <3>1. Shape(m, c.ino, C, lev, took)
      BY <2>5
    <3>2. \A x \in C : lev[x] \in {2, 3} => n[x].ent = m[x].ent
      BY <2>2, <2>3, <2>5
    <3>3. QED BY ONLY <3>1, <3>2, TreesKept
  <2>7. e.pc \in Counting /\ c.pc \in Counting /\ SameCount(c, e) /\ e.ino = c.ino
    BY <1>1, <1>4, <2>5 DEF Calls, Counting, SameCount
  <2>8. Charged(c, m)
    BY <1>1, <2>5 DEF CInv, Idle
  <2>9. Trees(n, e.ino) = Trees(m, c.ino)
    BY <2>6, <2>7
  <2>10. Charged(e, n)
    BY ONLY <2>7, <2>8, <2>9, ChargedSame
  <2>11. QED BY <2>1, <2>4, <2>5, <2>10 DEF CInv
<1>5. QED BY <1>3, <1>4 DEF WriteEntry

LEMMA ChargeNext ==
    ASSUME NEW m, NEW ino, NEW size \in Nat, NEW k \in Nat, k < Ceil(size)
    PROVE  Charge(k + 1, size, m, ino) = Charge(k, size, m, ino) + FragsOf(k, size)
<1>1. PICK c \in Nat : c = Cardinality(Trees(m, ino))
  BY TreesFinite
<1>2. PICK F \in Nat, p \in Int, r \in Int, q \in Int :
         /\ F = FragsPerBlock /\ p = k * FragsPerBlock /\ r = (k + 1) * FragsPerBlock
         /\ q = FragsPerBlock * c /\ r = p + F
  <2>1. (k + 1) * FragsPerBlock = k * FragsPerBlock + FragsPerBlock
    BY Constants
  <2>2. k * FragsPerBlock \in Int /\ (k + 1) * FragsPerBlock \in Int /\ FragsPerBlock * c \in Int
    BY Constants
  <2>3. QED BY <2>1, <2>2, Constants
<1>3. /\ FragsOf(k, size) = F - Gap(k + 1, size) /\ Gap(k, size) = 0 /\ Gap(k + 1, size) \in Int
  BY <1>2, FragsGap
<1>4. /\ Charge(k + 1, size, m, ino) = r - Gap(k + 1, size) + q
      /\ Charge(k, size, m, ino) = p - Gap(k, size) + q
  BY <1>1, <1>2 DEF Charge
<1>5. QED BY <1>2, <1>3, <1>4

LEMMA FillCInv ==
    ASSUME IInv, CInv, Fill
    PROVE  CInv'
<1>1. call.pc = "fill" /\ call.pc \in Fills /\ call # Idle /\ UNCHANGED <<disk, live>>
  BY DEF Fill, Fills, Idle
<1>2. PICK H, C, lev, took : At(H, C, lev, took)
  BY <1>1, Storings
<1>G. Facts(H, C, lev, took)
  BY <1>2, Given
<1> USE <1>G DEF Facts
<1>3. CASE UNCHANGED bytes /\ call' = [Grown EXCEPT !.pc = "undo", !.todo = RunsOf(Grown.ino)]
  <2>1. call'.pc = "undo"
    BY <1>3 DEF Grown, Calls
  <2>2. QED BY <1>1, <1>3, <2>1, Stopped DEF Uncharged, Freeing
<1>4. CASE /\ bytes' = [bytes EXCEPT ![call.hand] = [val |-> Chunk, ent |-> NotEntries]]
           /\ call' = [Grown EXCEPT !.pc = "alloc", !.k = @ + 1, !.hand = 0]
  <2>1. PICK h, n : h = call.hand /\ n = bytes'
    OBVIOUS
  <2>2. h \in C /\ lev[h] = 0
    BY <1>1, <2>1 DEF Built
  <2>3. \A x \in Blocks : x # h => n[x] = bytes[x]
    BY <1>4, <2>1 DEF IsBytes
  <2>4. FilesCounted(bytes)'
    <3>1. \A x \in Blocks : x \notin C => n[x] = bytes[x]
      BY <2>2, <2>3
    <3>2. QED BY <1>1, <1>2, <2>1, <3>1, WithinCall
  <2>5. PICK c, e, m : c = call /\ e = call' /\ m = bytes
    OBVIOUS
  <2>6. c.k \in Nat /\ c.size \in Nat /\ c.k < Ceil(c.size) /\ c.frags \in Int /\ c.ino \in Inodes
    BY <1>1, <2>5 DEF Built, Calls
  <2>7. PICK w, z : w = c.frags + FragsOf(c.k, c.size) /\ z = Min({c.size, (c.k + 1) * FragsPerBlock})
    OBVIOUS
  <2>8. PICK new : new = [c.ino EXCEPT !.blocks = w, !.size = z]
    OBVIOUS
  <2>9. new.ib = c.ino.ib
    BY <2>6, <2>8 DEF Inodes
  <2>10. Grown = [c EXCEPT !.frags = w, !.ino = new]
    BY <2>5, <2>6, <2>7, <2>8 DEF Grown, Calls, Inodes
  <2>11. e.pc = "alloc" /\ e.k = c.k + 1 /\ e.size = c.size /\ e.ino = new /\ e.frags = w
    BY <1>4, <2>5, <2>10 DEF Calls
  <2>12. Trees(n, new) = Trees(m, c.ino)
    <3>1. Shape(m, c.ino, C, lev, took)
      BY <2>5
    <3>2. \A x \in C : lev[x] \in {2, 3} => n[x].ent = m[x].ent
      BY <2>2, <2>3, <2>5
    <3>3. Trees(n, c.ino) = Trees(m, c.ino)
      BY ONLY <3>1, <3>2, TreesKept
    <3>4. Trees(n, new) = Trees(n, c.ino)
      BY <2>9, TreesRoots
    <3>5. QED BY <3>3, <3>4
  <2>13. c.frags = Charge(c.k, c.size, m, c.ino)
    BY <1>1, <2>5 DEF CInv, Charged, Counting
  <2>14. Charge(c.k + 1, c.size, m, c.ino) = Charge(c.k, c.size, m, c.ino) + FragsOf(c.k, c.size)
    BY <2>6, ChargeNext
  <2>15. Charge(c.k + 1, c.size, n, new) = Charge(c.k + 1, c.size, m, c.ino)
    BY <2>12 DEF Charge
  <2>16. e.frags = Charge(e.k, e.size, n, e.ino)
    BY <2>7, <2>11, <2>13, <2>14, <2>15
  <2>17. Charged(e, n)
    BY <2>11, <2>16 DEF Charged
  <2>18. QED BY <2>1, <2>4, <2>5, <2>17 DEF CInv
<1>5. QED BY <1>3, <1>4 DEF Fill

-----------------------------------------------------------------------------
(* The inode is written.                                                   *)
LEMMA BuiltCounted ==
    ASSUME IInv, CInv, call.pc \in {"inode", "name"}
    PROVE  /\ Counted(bytes, call.ino) /\ call.file \in Files
           /\ call.kind = "rewrite" <=> call.file \in live
           /\ call.pc = "name" => disk[call.file] = call.ino
           /\ disk \in [Files -> Inodes] /\ live \in SUBSET Files
<1>1. call.pc \in Fills /\ call # Idle
  BY DEF Fills, Idle
<1>2. PICK H, C, lev, took : At(H, C, lev, took)
  BY <1>1, Storings
<1>G. Facts(H, C, lev, took)
  BY <1>2, Given
<1>3. /\ call.k = Ceil(call.size) /\ call.ino.size = call.size
      /\ \A k \in 0..(call.k - 1) : Done(k, call, bytes)
  BY <1>G DEF Facts, Built
<1>4. Whole(bytes, call.ino, Ceil(call.ino.size))
  BY <1>3 DEF Whole, Done
<1>5. call.ino.blocks = Charge(Ceil(call.ino.size), call.ino.size, bytes, call.ino)
  BY <1>1, <1>3 DEF CInv, Charged
<1>6. Kinds(call, disk, live) /\ disk \in [Files -> Inodes] /\ live \in SUBSET Files /\ call.file \in Files
  BY <1>1, <1>2 DEF At, Sound, CallOK, Types, Calls
<1>7. QED BY <1>4, <1>5, <1>6 DEF Counted, Kinds

LEMMA WriteInodeCInv ==
    ASSUME IInv, CInv, WriteInode
    PROVE  CInv'
<1>1. call.pc = "inode" /\ call # Idle /\ UNCHANGED <<bytes, live>>
  BY DEF WriteInode, Idle
<1>2. call \in Calls
  BY <1>1 DEF IInv, Types
<1>3. /\ Counted(bytes, call.ino) /\ call.file \in Files
      /\ call.kind = "rewrite" <=> call.file \in live
      /\ disk \in [Files -> Inodes] /\ live \in SUBSET Files
  BY <1>1, BuiltCounted
<1>4. CASE UNCHANGED disk /\ (Discard(call.ino) \/ call' = Idle)
  <2>1. call'.pc \in Uncharged \/ call' = Idle
    BY <1>2, <1>4 DEF Discard, Calls, Uncharged, Freeing
  <2>2. QED BY <1>1, <1>2, <1>4, <2>1, Stopped
<1>5. CASE /\ disk' = [disk EXCEPT ![call.file] = call.ino]
           /\ \/ call' = [call EXCEPT !.pc = "name"]
              \/ call' = [call EXCEPT !.pc = "old", !.todo = RunsOf(Replaced)]
  <2>1. ASSUME NEW f \in live PROVE Counted(bytes, disk'[f])
    <3>1. f = call.file => disk'[f] = call.ino
      BY <1>3, <1>5
    <3>2. f # call.file => disk'[f] = disk[f]
      BY <1>3, <1>5
    <3>3. Counted(bytes, disk[f])
      BY DEF CInv, FilesCounted
    <3>4. QED BY <1>3, <3>1, <3>2, <3>3
  <2>2. FilesCounted(bytes)'
    BY <1>1, <2>1 DEF FilesCounted
  <2>3. PICK c, e, m : c = call /\ e = call' /\ m = bytes
    OBVIOUS
  <2>4. Charged(e, m)
    <3>1. CASE call' = [call EXCEPT !.pc = "name"]
      <4>1. e.pc = "name" /\ e.ino = c.ino /\ e.k = c.k /\ e.size = c.size
        BY <1>2, <2>3, <3>1 DEF Calls
      <4>2. c.ino.blocks = Charge(c.k, c.size, m, c.ino)
        BY <1>1, <2>3 DEF CInv, Charged
      <4>3. QED BY <4>1, <4>2 DEF Charged, Counting
    <3>2. CASE call' = [call EXCEPT !.pc = "old", !.todo = RunsOf(Replaced)]
      <4>1. e.pc \in Uncharged
        BY <1>2, <2>3, <3>2 DEF Calls, Uncharged, Freeing
      <4>2. QED BY <4>1, NotCharged
    <3>3. QED BY <1>5, <3>1, <3>2
  <2>5. QED BY <1>1, <2>2, <2>3, <2>4 DEF CInv
<1>6. QED BY <1>4, <1>5 DEF WriteInode

LEMMA WriteNameCInv ==
    ASSUME IInv, CInv, WriteName
    PROVE  CInv'
<1>1. call.pc = "name" /\ call # Idle /\ UNCHANGED <<bytes, disk>>
  BY DEF WriteName, Idle
<1>2. call \in Calls
  BY <1>1 DEF IInv, Types
<1>3. CASE Discard(call.ino) /\ UNCHANGED live
  <2>1. call'.pc \in Uncharged
    BY <1>2, <1>3 DEF Discard, Calls, Uncharged, Freeing
  <2>2. QED BY <1>1, <1>2, <1>3, <2>1, Stopped
<1>4. CASE call' = Idle /\ live' = live \cup {call.file}
  <2>1. Counted(bytes, disk[call.file])
    <3>1. Counted(bytes, call.ino) /\ disk[call.file] = call.ino
      BY <1>1, BuiltCounted
    <3>2. QED BY <3>1
  <2>2. \A f \in live' : Counted(bytes, disk[f])
    BY <1>4, <2>1 DEF CInv, FilesCounted
  <2>3. FilesCounted(bytes)'
    BY <1>1, <2>2 DEF FilesCounted
  <2>4. QED BY <1>4, <2>3 DEF CInv
<1>5. QED BY <1>3, <1>4 DEF WriteName

LEMMA FreeRunCInv ==
    ASSUME call \in Calls, CInv, FreeRun
    PROVE  CInv'
<1>1. call.pc \in Freeing /\ UNCHANGED <<bytes, disk, live>>
  BY DEF FreeRun
<1>2. call'.pc \in Uncharged \/ call' = Idle
  <2>1. CASE call' = [call EXCEPT !.todo = Tail(@)]
    BY <1>1, <2>1 DEF Calls, Uncharged
  <2>2. CASE Discard(LeftOf(call.ino, call.todo)) \/ call' = Idle
    BY <2>2 DEF Discard, Calls, Uncharged, Freeing
  <2>3. QED BY <2>1, <2>2 DEF FreeRun
<1>3. QED BY <1>1, <1>2, Stopped

LEMMA AllFreedCInv ==
    ASSUME call \in Calls, CInv, AllFreed
    PROVE  CInv'
<1>1. UNCHANGED <<bytes, disk, live>>
  BY DEF AllFreed
<1>2. call'.pc \in Uncharged \/ call' = Idle
  BY DEF AllFreed, Calls, Uncharged
<1>3. QED BY <1>1, <1>2, Stopped

LEMMA ClearCInv ==
    ASSUME IInv, CInv, Clear
    PROVE  CInv'
<1>1. call.pc = "clear" /\ call # Idle /\ call' = Idle /\ UNCHANGED <<bytes, live>>
  BY DEF Clear, Idle
<1>2. PICK H, C, lev, took : Sound(H, C, lev, took)
  BY DEF IInv
<1>3. Kinds(call, disk, live) /\ Types
  BY <1>1, <1>2 DEF Sound, CallOK, IInv
<1>4. call.file \notin live
  BY <1>1, <1>3 DEF Kinds
<1>5. \A f \in live : disk'[f] = disk[f]
  BY <1>3, <1>4 DEF Clear, Types
<1>6. FilesCounted(bytes)'
  BY <1>1, <1>5, QuietFiles DEF CInv
<1>7. QED BY <1>1, <1>6 DEF CInv

LEMMA InitCInv == Init => CInv
  BY DEF Init, CInv, FilesCounted

LEMMA StutterCInv ==
    ASSUME CInv, UNCHANGED vars
    PROVE  CInv'
<1>1. UNCHANGED <<bytes, disk, live, call>>
  BY DEF vars
<1>2. call' # Idle => Charged(call', bytes)
  BY <1>1 DEF CInv
<1>3. QED BY <1>1, <1>2, SameImage

LEMMA NextCInv == IInv /\ IInv' /\ CInv /\ [Next]_vars => CInv'
<1> SUFFICES ASSUME IInv, IInv', CInv, [Next]_vars PROVE CInv'
  OBVIOUS
<1>1. ASSUME NEW f \in Files, NEW size \in Sizes, Create(f, size) PROVE CInv'
  BY <1>1, CreateCInv
<1>2. ASSUME NEW f \in Files, NEW size \in Sizes, Overwrite(f, size) PROVE CInv'
  BY <1>2, RewriteCInv DEF Overwrite
<1>3. ASSUME NEW f \in Files, NEW size \in Sizes, AppendTo(f, size) PROVE CInv'
  BY <1>3, RewriteCInv DEF AppendTo
<1>4. ASSUME NEW f \in Files, NEW size \in Sizes, Truncate(f, size) PROVE CInv'
  BY <1>4, RewriteCInv DEF Truncate
<1>5. ASSUME NEW f \in Files, NEW w \in Writes, Pwrite(f, w[1], w[2]) PROVE CInv'
  BY <1>5, RewriteCInv DEF Pwrite
<1>6. ASSUME NEW f \in Files, Unlink(f) PROVE CInv'
  BY <1>6, UnlinkCInv
<1>7. call = Idle \/ call \in Calls
  BY DEF IInv, Types
<1>8. CASE AllocRun \/ SetDirect \/ SetRoot \/ Descend \/ Stored
  <2>1. call \in Calls
    BY <1>7, <1>8 DEF AllocRun, SetDirect, SetRoot, Descend, Stored, Idle
  <2>2. QED BY <1>8, <2>1, AllocRunCInv, SetDirectCInv, SetRootCInv, DescendCInv, StoredCInv
<1>9. CASE GiveBack
  <2>1. call \in Calls
    BY <1>7, <1>9 DEF GiveBack, Idle
  <2>2. Undo /\ UNCHANGED <<bytes, disk, live>>
    BY <1>9 DEF GiveBack
  <2>3. QED BY <2>1, <2>2, Stopped
<1>10. CASE FreeRun \/ AllFreed
  <2>1. call \in Calls
    BY <1>7, <1>10 DEF FreeRun, AllFreed, Freeing, Idle
  <2>2. QED BY <1>10, <2>1, FreeRunCInv, AllFreedCInv
<1>11. CASE NewRoot \/ NewChild \/ WriteEntry \/ Fill
  BY <1>11, NewRootCInv, NewChildCInv, WriteEntryCInv, FillCInv
<1>12. CASE WriteInode \/ WriteName \/ Clear
  BY <1>12, WriteInodeCInv, WriteNameCInv, ClearCInv
<1>13. CASE UNCHANGED vars
  BY <1>13, StutterCInv
<1>14. QED
  BY <1>1, <1>2, <1>3, <1>4, <1>5, <1>6, <1>8, <1>9, <1>10, <1>11, <1>12, <1>13 DEF Next

-----------------------------------------------------------------------------
(* Every number stays within its bound.                                    *)
Nats(c) == c.frags \in Nat /\ c.ino.blocks \in Nat
Stamps  == 0..MaxCalls
Values  == [0..(FragsPerBlock - 1) -> Stamps]

UsedIn  == used \in [Blocks -> 0..FragsPerBlock]
Faulted == errors \in 0..MaxErrors
NatsIn  == (\A f \in Files : disk[f].blocks \in Nat) /\ (call # Idle => Nats(call))
ValsIn  == \A b \in Blocks : bytes[b].val \in Values
TextsIn == contents \in [Files -> Seq(Stamps)] /\ (call # Idle => call.buf \in Seq(Stamps))
BInv == UsedIn /\ Faulted /\ calls \in Stamps /\ NatsIn /\ ValsIn /\ TextsIn

LEMMA CallTyped ==
    ASSUME IInv, call # Idle
    PROVE  call \in Calls
  BY DEF IInv, Types

LEMMA InitBInv == Init => BInv
<1> SUFFICES ASSUME Init PROVE BInv
  OBVIOUS
<1>1. UsedIn
  BY Constants DEF Init, UsedIn
<1>2. Faulted /\ calls \in Stamps
  BY FileDataAssumption DEF Init, Faulted, Stamps
<1>3. NatsIn
  BY DEF Init, NatsIn, Empty
<1>4. ValsIn
  <2>1. 0 \in Stamps
    BY Constants DEF Stamps
  <2>2. Junk.val \in Values
    BY <2>1 DEF Junk, Zeros, Values
  <2>3. QED BY <2>2 DEF Init, ValsIn
<1>5. TextsIn
  <2>1. <<>> \in Seq(Stamps)
    OBVIOUS
  <2>2. QED BY <2>1 DEF Init, TextsIn
<1>6. QED BY <1>1, <1>2, <1>3, <1>4, <1>5 DEF BInv

\* An allocation and a free.
LEMMA UsedTaken ==
    ASSUME UsedIn, NEW b, NEW w \in 0..FragsPerBlock, used' = Taken(b, w)
    PROVE  UsedIn'
  BY DEF UsedIn, Taken

LEMMA WholeTaken ==
    ASSUME UsedIn, NEW b, used' = Taken(b, FragsPerBlock)
    PROVE  UsedIn'
<1>1. FragsPerBlock \in 0..FragsPerBlock
  BY Constants
<1>2. QED BY <1>1, UsedTaken

LEMMA UsedFreed ==
    ASSUME UsedIn, NEW b \in Blocks, NEW w \in 0..FragsPerBlock, used[b] >= w, used' = Freed(b, w)
    PROVE  UsedIn'
<1>1. used[b] \in 0..FragsPerBlock /\ FragsPerBlock \in Nat
  BY Constants DEF UsedIn
<1>2. PICK x \in 0..FragsPerBlock : x = used[b] - w
  BY <1>1
<1>3. used' = [used EXCEPT ![b] = x]
  BY <1>2 DEF Freed
<1>4. QED BY <1>3 DEF UsedIn

LEMMA AllocRunUsed ==
    ASSUME IInv, UsedIn, AllocRun
    PROVE  UsedIn'
<1>1. call.pc \in Fills /\ ~NothingLeft
  BY DEF AllocRun, Fills
<1>2. PICK H, C, lev, took : At(H, C, lev, took)
  BY <1>1, Storings
<1>3. Facts(H, C, lev, took)
  BY <1>2, Given
<1>4. PICK k \in Nat, size \in Nat : k = call.k /\ size = call.size /\ k < Ceil(size)
  BY <1>1, <1>3 DEF Facts, NothingLeft
<1>5. PICK w \in 0..FragsPerBlock : w = FragsOf(call.k, call.size)
  BY <1>4, FragsAre
<1>6. used' = used \/ used' = Taken(Min(FreeBlocks), w)
  BY <1>5 DEF AllocRun, TakenForNobody
<1>7. QED BY <1>6, UsedTaken DEF UsedIn

LEMMA GiveBackUsed ==
    ASSUME IInv, UsedIn, GiveBack
    PROVE  UsedIn'
<1>1. call.pc \in Fills /\ call.pc \in Loose
  BY DEF GiveBack, Fills, Loose
<1>2. PICK H, C, lev, took : At(H, C, lev, took)
  BY <1>1, Storings
<1>3. Facts(H, C, lev, took)
  BY <1>2, Given
<1>4. call.hand \in C /\ lev[call.hand] = 0 /\ took[call.hand] = call.k
  BY <1>1, <1>3 DEF Facts, Built
<1>5. PICK h \in C : h = call.hand
  BY <1>4
<1>6. /\ Share(took[h], lev[h], call.size) \in 1..FragsPerBlock
      /\ used[h] = Share(took[h], lev[h], call.size) /\ h \in Blocks
  BY <1>2, ShareBuilt
<1>7. PICK w \in 0..FragsPerBlock : w = FragsOf(call.k, call.size) /\ used[h] = w
  BY <1>4, <1>5, <1>6 DEF Share
<1>8. used' = used \/ used' = Freed(h, w)
  BY <1>5, <1>7 DEF GiveBack
<1>9. used[h] >= w
  BY <1>7
<1>10. QED BY <1>6, <1>8, <1>9, UsedFreed DEF UsedIn

LEMMA FreeRunUsed ==
    ASSUME IInv, UsedIn, FreeRun
    PROVE  UsedIn'
<1>1. call # Idle /\ call.todo # <<>>
  BY DEF FreeRun, Freeing, Idle
<1>2. call.todo \in Seq(Runs)
  BY <1>1, CallTyped DEF Calls
<1>3. PICK r \in Runs : r = Head(call.todo)
  BY <1>1, <1>2, HeadTail
<1>4. r.block \in Blocks /\ r.frags \in 0..FragsPerBlock
  BY <1>3, Constants DEF Runs
<1>5. used' = used \/ (used[r.block] >= r.frags /\ used' = Freed(r.block, r.frags))
  BY <1>3 DEF FreeRun
<1>6. QED BY <1>4, <1>5, UsedFreed DEF UsedIn

LEMMA NextUsed == IInv /\ UsedIn /\ [Next]_vars => UsedIn'
<1> SUFFICES ASSUME IInv, UsedIn, [Next]_vars PROVE UsedIn'
  OBVIOUS
<1>1. CASE UNCHANGED used
  BY <1>1 DEF UsedIn
<1>2. ASSUME NEW f, NEW size, Create(f, size) PROVE UNCHANGED used
  BY <1>2 DEF Create
<1>3. ASSUME NEW f, NEW buf, Rewrite(f, buf) PROVE UNCHANGED used
  BY <1>3 DEF Rewrite
<1>4. ASSUME NEW f, Unlink(f) PROVE UNCHANGED used
  BY <1>4 DEF Unlink
<1>5. CASE NewRoot \/ NewChild
  <2>1. used' = used \/ used' = Taken(Min(FreeBlocks), FragsPerBlock)
    BY <1>5 DEF NewRoot, NewChild, BlockLost, TakenForNobody
  <2>2. QED BY <1>1, <2>1, WholeTaken
<1>6. CASE AllocRun \/ GiveBack \/ FreeRun
  BY <1>6, AllocRunUsed, GiveBackUsed, FreeRunUsed
<1>7. CASE SetDirect \/ SetRoot \/ Descend \/ WriteEntry \/ Fill \/ Stored
  BY <1>1, <1>7 DEF SetDirect, SetRoot, Descend, WriteEntry, Fill, Stored
<1>8. CASE WriteInode \/ WriteName \/ AllFreed \/ Clear
  BY <1>1, <1>8 DEF WriteInode, WriteName, AllFreed, Clear
<1>9. ASSUME NEW f, NEW size, Overwrite(f, size) \/ AppendTo(f, size) \/ Truncate(f, size)
      PROVE  UNCHANGED used
  BY <1>3, <1>9 DEF Overwrite, AppendTo, Truncate
<1>10. ASSUME NEW f, NEW w, Pwrite(f, w[1], w[2]) PROVE UNCHANGED used
  BY <1>3, <1>10 DEF Pwrite
<1>11. CASE UNCHANGED vars
  BY <1>1, <1>11 DEF vars
<1>12. QED
  BY <1>1, <1>2, <1>4, <1>5, <1>6, <1>7, <1>8, <1>9, <1>10, <1>11 DEF Next

\* Each step fails as often as MaxErrors allows.
Failing == errors' = errors \/ Fail

LEMMA RewriteQuiet ==
    ASSUME NEW f, NEW size, \/ Overwrite(f, size) \/ AppendTo(f, size) \/ Truncate(f, size)
                            \/ (size \in Writes /\ Pwrite(f, size[1], size[2]))
    PROVE  \E buf : Rewrite(f, buf)
  BY DEF Overwrite, AppendTo, Truncate, Pwrite

LEMMA NextFails == [Next]_vars => Failing
<1> SUFFICES ASSUME [Next]_vars PROVE Failing
  OBVIOUS
<1>1. ASSUME NEW f, NEW size, Create(f, size) PROVE Failing
  BY <1>1 DEF Create, Failing
<1>2. ASSUME NEW f, NEW buf, Rewrite(f, buf) PROVE Failing
  BY <1>2 DEF Rewrite, Failing
<1>3. ASSUME NEW f, Unlink(f) PROVE Failing
  BY <1>3 DEF Unlink, Failing
<1>4. ASSUME NEW f, NEW size, \/ Overwrite(f, size) \/ AppendTo(f, size) \/ Truncate(f, size)
                              \/ (size \in Writes /\ Pwrite(f, size[1], size[2]))
      PROVE  Failing
  BY <1>2, <1>4, RewriteQuiet
<1>5. CASE AllocRun \/ GiveBack \/ SetDirect \/ SetRoot
  BY <1>5 DEF AllocRun, TakenForNobody, GiveBack, SetDirect, SetRoot, Fine, Failing
<1>6. CASE NewRoot \/ NewChild
  BY <1>6 DEF NewRoot, NewChild, BlockLost, TakenForNobody, Fine, Failing
<1>7. CASE Descend \/ WriteEntry \/ Fill \/ Stored
  BY <1>7 DEF Descend, WriteEntry, Fill, Stored, Fine, Failing
<1>8. CASE WriteInode \/ WriteName
  BY <1>8 DEF WriteInode, WriteName, Fine, Failing
<1>9. CASE FreeRun \/ AllFreed \/ Clear
  BY <1>9 DEF FreeRun, AllFreed, Clear, Fine, Failing
<1>10. CASE UNCHANGED vars
  BY <1>10 DEF vars, Failing
<1>11. QED
  BY <1>1, <1>3, <1>4, <1>5, <1>6, <1>7, <1>8, <1>9, <1>10 DEF Next

LEMMA NextFaulted == Faulted /\ [Next]_vars => Faulted'
<1>1. MaxErrors \in Nat
  BY FileDataAssumption
<1>2. SUFFICES ASSUME Faulted, Failing PROVE Faulted'
  BY NextFails
<1>3. QED BY <1>1, <1>2 DEF Faulted, Failing, Fail

LEMMA NextBegins == calls \in Stamps /\ [Next]_vars => calls' \in Stamps
<1> SUFFICES ASSUME calls \in Stamps, [Next]_vars PROVE calls' \in Stamps
  OBVIOUS
<1>1. CASE UNCHANGED calls
  BY <1>1
<1>2. CASE Begin
  BY <1>2, Constants DEF Begin, Stamps
<1>3. ASSUME NEW f, NEW size, Create(f, size) PROVE Begin
  BY <1>3 DEF Create
<1>4. ASSUME NEW f, NEW buf, Rewrite(f, buf) PROVE Begin
  BY <1>4 DEF Rewrite
<1>5. ASSUME NEW f, Unlink(f) PROVE Begin
  BY <1>5 DEF Unlink
<1>6. ASSUME NEW f, NEW size, \/ Overwrite(f, size) \/ AppendTo(f, size) \/ Truncate(f, size)
                              \/ (size \in Writes /\ Pwrite(f, size[1], size[2]))
      PROVE  Begin
  BY <1>4, <1>6, RewriteQuiet
<1>7. CASE AllocRun \/ GiveBack \/ SetDirect \/ SetRoot \/ NewRoot \/ NewChild
  BY <1>1, <1>7 DEF AllocRun, GiveBack, SetDirect, SetRoot, NewRoot, NewChild
<1>8. CASE Descend \/ WriteEntry \/ Fill \/ Stored \/ WriteInode \/ WriteName
  BY <1>1, <1>8 DEF Descend, WriteEntry, Fill, Stored, WriteInode, WriteName
<1>9. CASE FreeRun \/ AllFreed \/ Clear
  BY <1>1, <1>9 DEF FreeRun, AllFreed, Clear
<1>10. CASE UNCHANGED vars
  BY <1>1, <1>10 DEF vars
<1>11. QED
  BY <1>2, <1>3, <1>5, <1>6, <1>7, <1>8, <1>9, <1>10 DEF Next

\* The numbers of the call and of the inodes.
LEMMA NatsSame ==
    ASSUME NatsIn, UNCHANGED disk, call' = Idle \/ Nats(call')
    PROVE  NatsIn'
  BY DEF NatsIn, Nats

LEMMA AllocRunNats ==
    ASSUME call \in Calls, Nats(call), AllocRun \/ GiveBack \/ SetRoot
    PROVE  Nats(call')
<1>1. CASE \E p, todo : call' = [call EXCEPT !.pc = p, !.todo = todo]
  BY <1>1 DEF Calls, Nats
<1>2. CASE \E p, h : call' = [call EXCEPT !.pc = p, !.hand = h]
  BY <1>2 DEF Calls, Nats
<1>3. CASE \E p, at, l : call' = [call EXCEPT !.pc = p, !.at = at, !.level = l]
  BY <1>3 DEF Calls, Nats
<1>4. Undo => \E p, todo : call' = [call EXCEPT !.pc = p, !.todo = todo]
  BY DEF Undo
<1>5. AllocRun => Undo \/ \E p, h : call' = [call EXCEPT !.pc = p, !.hand = h]
  BY DEF AllocRun
<1>6. SetRoot => \E p, at, l : call' = [call EXCEPT !.pc = p, !.at = at, !.level = l]
  BY DEF SetRoot
<1>7. GiveBack => Undo
  BY DEF GiveBack
<1>8. QED BY <1>1, <1>2, <1>3, <1>4, <1>5, <1>6, <1>7

LEMMA SetDirectNats ==
    ASSUME call \in Calls, Nats(call), SetDirect
    PROVE  Nats(call')
<1>1. PICK new : new = [call.ino EXCEPT !.db[call.k] = call.hand]
  OBVIOUS
<1>2. new.blocks = call.ino.blocks
  BY <1>1 DEF Calls, Inodes
<1>3. call' = [call EXCEPT !.pc = "fill", !.ino = new]
  BY <1>1 DEF SetDirect
<1>4. QED BY <1>2, <1>3 DEF Calls, Nats

LEMMA NewNats ==
    ASSUME call \in Calls, Nats(call), NewRoot \/ NewChild
    PROVE  Nats(call')
<1>1. CASE PutBack
  BY <1>1 DEF PutBack, Calls, Nats
<1>2. PICK w \in Nat : w = call.frags + FragsPerBlock
  BY Constants DEF Nats
<1>3. CASE \E s, b : call' = [call EXCEPT !.ino.ib[s] = b, !.frags = @ + FragsPerBlock]
  <2>1. PICK s, b : call' = [call EXCEPT !.ino.ib[s] = b, !.frags = @ + FragsPerBlock]
    BY <1>3
  <2>2. PICK new : new = [call.ino EXCEPT !.ib[s] = b]
    OBVIOUS
  <2>3. new.blocks = call.ino.blocks
    BY <2>2 DEF Calls, Inodes
  <2>4. call' = [call EXCEPT !.ino = new, !.frags = w]
    BY <1>2, <2>1, <2>2 DEF Calls
  <2>5. QED BY <2>3, <2>4 DEF Calls, Nats
<1>4. CASE \E b : call' = [call EXCEPT !.at = b, !.level = @ - 1, !.frags = @ + FragsPerBlock]
  BY <1>2, <1>4 DEF Calls, Nats
<1>5. NewRoot => PutBack \/ \E s, b : call' = [call EXCEPT !.ino.ib[s] = b, !.frags = @ + FragsPerBlock]
  BY DEF NewRoot, BlockLost
<1>6. NewChild => PutBack \/ \E b : call' = [call EXCEPT !.at = b, !.level = @ - 1, !.frags = @ + FragsPerBlock]
  BY DEF NewChild, BlockLost
<1>7. QED BY <1>1, <1>3, <1>4, <1>5, <1>6

LEMMA WalkNats ==
    ASSUME call \in Calls, Nats(call), Descend \/ WriteEntry \/ Stored
    PROVE  Nats(call')
<1>1. CASE PutBack \/ call' = [call EXCEPT !.pc = "fill"]
  BY <1>1 DEF PutBack, Calls, Nats
<1>2. CASE call' = [call EXCEPT !.at = Child, !.level = @ - 1]
  BY <1>2 DEF Calls, Nats
<1>3. CASE call' = [call EXCEPT !.pc = "inode", !.ino.size = call.size, !.ino.blocks = call.frags]
  <2>1. PICK new : new = [call.ino EXCEPT !.size = call.size, !.blocks = call.frags]
    OBVIOUS
  <2>2. new.blocks = call.frags
    BY <2>1 DEF Calls, Inodes
  <2>3. call' = [call EXCEPT !.pc = "inode", !.ino = new]
    BY <1>3, <2>1 DEF Calls, Inodes
  <2>4. QED BY <2>2, <2>3 DEF Calls, Nats
<1>4. QED BY <1>1, <1>2, <1>3 DEF Descend, WriteEntry, Stored

LEMMA FillNats ==
    ASSUME IInv, Nats(call), Fill
    PROVE  Nats(call')
<1>1. call.pc \in Fills /\ call.pc = "fill"
  BY DEF Fill, Fills
<1>2. PICK H, C, lev, took : At(H, C, lev, took)
  BY <1>1, Storings
<1>3. Facts(H, C, lev, took)
  BY <1>2, Given
<1>4. call \in Calls /\ call.k \in Nat /\ call.size \in Nat /\ call.k < Ceil(call.size)
  BY <1>1, <1>3 DEF Facts, Built
<1>5. PICK w \in 1..FragsPerBlock : w = FragsOf(call.k, call.size)
  BY <1>4, FragsAre
<1>6. PICK x \in Nat : x = call.frags + w
  <2>1. w \in Nat
    BY Constants
  <2>2. QED BY <2>1 DEF Nats
<1>7. PICK z : z = Min({call.size, (call.k + 1) * FragsPerBlock})
  OBVIOUS
<1>8. PICK new : new = [call.ino EXCEPT !.blocks = x, !.size = z]
  OBVIOUS
<1>9. new.blocks = x
  BY <1>4, <1>8 DEF Calls, Inodes
<1>10. Grown = [call EXCEPT !.frags = x, !.ino = new]
  BY <1>4, <1>5, <1>6, <1>7, <1>8 DEF Grown, Calls, Inodes
<1>11. CASE call' = [Grown EXCEPT !.pc = "alloc", !.k = @ + 1, !.hand = 0]
  BY <1>4, <1>9, <1>10, <1>11 DEF Calls, Nats
<1>12. CASE call' = [Grown EXCEPT !.pc = "undo", !.todo = RunsOf(Grown.ino)]
  BY <1>4, <1>9, <1>10, <1>12 DEF Calls, Nats
<1>13. QED BY <1>11, <1>12 DEF Fill

LEMMA DiscardNats ==
    ASSUME call \in Calls, Nats(call), NEW ino, ino.blocks = call.ino.blocks, Discard(ino)
    PROVE  Nats(call')
<1>1. call' = [call EXCEPT !.pc = "discard", !.ino = ino, !.todo = RunsOf(ino)]
  BY DEF Discard
<1>2. QED BY <1>1 DEF Calls, Nats

LEMMA FreeRunNats ==
    ASSUME call \in Calls, Nats(call), FreeRun
    PROVE  call' = Idle \/ Nats(call')
<1>1. CASE call' = [call EXCEPT !.todo = Tail(@)]
  BY <1>1 DEF Calls, Nats
<1>2. CASE Discard(LeftOf(call.ino, call.todo))
  <2>1. LeftOf(call.ino, call.todo).blocks = call.ino.blocks
    BY DEF LeftOf, Calls, Inodes
  <2>2. QED BY <1>2, <2>1, DiscardNats
<1>3. QED BY <1>1, <1>2 DEF FreeRun

LEMMA WriteInodeNats ==
    ASSUME IInv, NatsIn, WriteInode
    PROVE  NatsIn'
<1>1. call # Idle
  BY DEF WriteInode, Idle
<1>2. call \in Calls /\ Nats(call) /\ disk \in [Files -> Inodes]
  BY <1>1, CallTyped DEF NatsIn, IInv, Types
<1>3. CASE UNCHANGED disk /\ (Discard(call.ino) \/ call' = Idle)
  BY <1>2, <1>3, DiscardNats, NatsSame
<1>4. CASE /\ disk' = [disk EXCEPT ![call.file] = call.ino]
           /\ \E p, todo : call' = [call EXCEPT !.pc = p, !.todo = todo]
  <2>1. Nats(call')
    BY <1>2, <1>4 DEF Calls, Nats
  <2>2. ASSUME NEW f \in Files PROVE disk'[f].blocks \in Nat
    <3>1. disk'[f] = IF f = call.file THEN call.ino ELSE disk[f]
      BY <1>2, <1>4
    <3>2. QED BY <1>2, <3>1 DEF NatsIn, Nats
  <2>3. QED BY <2>1, <2>2 DEF NatsIn, Nats
<1>5. CASE /\ disk' = [disk EXCEPT ![call.file] = call.ino]
           /\ call' = [call EXCEPT !.pc = "name"]
  <2>1. call' = [call EXCEPT !.pc = "name", !.todo = call.todo]
    BY <1>2, <1>5 DEF Calls
  <2>2. QED BY <1>4, <1>5, <2>1
<1>6. CASE /\ disk' = [disk EXCEPT ![call.file] = call.ino]
           /\ call' = [call EXCEPT !.pc = "old", !.todo = RunsOf(Replaced)]
  BY <1>4, <1>6
<1>7. QED BY <1>3, <1>5, <1>6 DEF WriteInode

LEMMA StoringNats ==
    ASSUME NatsIn, UNCHANGED disk, NEW kind, NEW f, NEW ino, NEW size, NEW buf, ino.blocks \in Nat,
           call' = Storing(kind, f, ino, size, buf)
    PROVE  NatsIn'
<1>1. Nats(call')
  BY DEF Storing, Nats
<1>2. QED BY <1>1, NatsSame

LEMMA CreateNats ==
    ASSUME NatsIn, NEW f, NEW size, Create(f, size)
    PROVE  NatsIn'
<1>1. PICK ino, buf : ino = [Empty EXCEPT !.size = size] /\ buf = [i \in 1..size |-> Stamp]
  OBVIOUS
<1>2. ino.blocks = 0
  BY <1>1 DEF Empty
<1>3. call' = Storing("create", f, ino, size, buf) /\ UNCHANGED disk
  BY <1>1 DEF Create
<1>4. QED BY <1>2, <1>3, StoringNats

LEMMA RewriteNats ==
    ASSUME NatsIn, NEW f, NEW buf, Rewrite(f, buf)
    PROVE  NatsIn'
<1>1. call' = Storing("rewrite", f, Empty, Len(buf), buf) /\ UNCHANGED disk
  BY DEF Rewrite
<1>2. Empty.blocks = 0
  BY DEF Empty
<1>3. QED BY <1>1, <1>2, StoringNats

LEMMA UnlinkNats ==
    ASSUME NatsIn, NEW f \in Files, Unlink(f)
    PROVE  NatsIn'
<1>1. /\ call' = [Storing("unlink", f, disk[f], 0, <<>>) EXCEPT !.pc = "unlink", !.todo = RunsOf(disk[f])]
      /\ UNCHANGED disk
  BY DEF Unlink
<1>2. call'.frags = 0 /\ call'.ino = disk[f]
  BY <1>1 DEF Storing
<1>3. Nats(call')
  BY <1>2 DEF Nats, NatsIn
<1>4. QED BY <1>1, <1>3, NatsSame

LEMMA ClearNats ==
    ASSUME IInv, NatsIn, Clear
    PROVE  NatsIn'
<1>1. call' = Idle /\ disk \in [Files -> Inodes] /\ Empty.blocks = 0
  BY DEF Clear, IInv, Types, Empty
<1>2. disk' = [disk EXCEPT ![call.file] = Empty] \/ disk' = disk
  BY DEF Clear
<1>3. ASSUME NEW f \in Files PROVE disk'[f].blocks \in Nat
  <2>1. disk'[f] = Empty \/ disk'[f] = disk[f]
    BY <1>1, <1>2
  <2>2. QED BY <1>1, <2>1 DEF NatsIn
<1>4. QED BY <1>1, <1>3 DEF NatsIn

LEMMA NextNats == IInv /\ NatsIn /\ [Next]_vars => NatsIn'
<1> SUFFICES ASSUME IInv, NatsIn, [Next]_vars PROVE NatsIn'
  OBVIOUS
<1>1. ASSUME call \in Calls, Nats(call)
      PROVE  /\ AllocRun \/ GiveBack \/ SetRoot => Nats(call')
             /\ SetDirect => Nats(call')
             /\ NewRoot \/ NewChild => Nats(call')
             /\ Descend \/ WriteEntry \/ Stored => Nats(call')
             /\ Fill => Nats(call')
  BY <1>1, AllocRunNats, SetDirectNats, NewNats, WalkNats, FillNats
<1>2. CASE AllocRun \/ GiveBack \/ SetRoot \/ SetDirect \/ NewRoot \/ NewChild
  <2>1. call # Idle /\ UNCHANGED disk
    BY <1>2 DEF AllocRun, GiveBack, SetRoot, SetDirect, NewRoot, NewChild, Idle
  <2>2. call \in Calls /\ Nats(call)
    BY <2>1, CallTyped DEF NatsIn
  <2>3. QED BY <1>1, <1>2, <2>1, <2>2, NatsSame
<1>3. CASE Descend \/ WriteEntry \/ Stored \/ Fill
  <2>1. call # Idle /\ UNCHANGED disk
    BY <1>3 DEF Descend, WriteEntry, Stored, Fill, Idle
  <2>2. call \in Calls /\ Nats(call)
    BY <2>1, CallTyped DEF NatsIn
  <2>3. QED BY <1>1, <1>3, <2>1, <2>2, NatsSame
<1>4. CASE WriteName \/ FreeRun \/ AllFreed
  <2>1. call # Idle /\ UNCHANGED disk
    BY <1>4 DEF WriteName, FreeRun, AllFreed, Freeing, Idle
  <2>2. call \in Calls /\ Nats(call)
    BY <2>1, CallTyped DEF NatsIn
  <2>3. WriteName => call' = Idle \/ Nats(call')
    BY <2>2, DiscardNats DEF WriteName
  <2>4. AllFreed => call' = Idle \/ Nats(call')
    BY <2>2 DEF AllFreed, Calls, Nats
  <2>5. QED BY <1>4, <2>1, <2>2, <2>3, <2>4, FreeRunNats, NatsSame
<1>5. CASE WriteInode \/ Clear
  BY <1>5, WriteInodeNats, ClearNats
<1>6. ASSUME NEW f, NEW size, Create(f, size) PROVE NatsIn'
  BY <1>6, CreateNats
<1>7. ASSUME NEW f, NEW size, \/ Overwrite(f, size) \/ AppendTo(f, size) \/ Truncate(f, size)
                              \/ (size \in Writes /\ Pwrite(f, size[1], size[2]))
      PROVE  NatsIn'
  BY <1>7, RewriteQuiet, RewriteNats
<1>8. ASSUME NEW f \in Files, Unlink(f) PROVE NatsIn'
  BY <1>8, UnlinkNats
<1>9. CASE UNCHANGED vars
  BY <1>9 DEF vars, NatsIn, Nats
<1>10. QED
  BY <1>2, <1>3, <1>4, <1>5, <1>6, <1>7, <1>8, <1>9 DEF Next

\* What is stored are the numbers of the calls.
LEMMA EntryVals ==
    ASSUME NEW m, IsBytes(m), NEW at, NEW i, NEW b, NEW n, SetsEntry(n, m, at, i, b), NEW x \in Blocks
    PROVE  n[x].val = m[x].val
<1>1. CASE x # at
  BY <1>1 DEF SetsEntry, IsBytes
<1>2. CASE x = at
  <2>1. PICK r \in [val : [0..(FragsPerBlock - 1) -> Int], ent : [Index -> 0..NBlocks]] : r = m[at]
    BY <1>2 DEF IsBytes
  <2>2. PICK e : e = [r.ent EXCEPT ![i] = b]
    OBVIOUS
  <2>3. PICK q : q = [r EXCEPT !.ent = e]
    OBVIOUS
  <2>4. q.val = r.val
    BY <2>3
  <2>5. n = [m EXCEPT ![at] = q]
    BY <2>1, <2>2, <2>3 DEF SetsEntry
  <2>6. n[at] = q
    BY <1>2, <2>5 DEF IsBytes
  <2>7. QED BY <1>2, <2>1, <2>4, <2>6
<1>3. QED BY <1>1, <1>2

LEMMA ZeroVals == Zeros \in Values /\ Junk.val = Zeros
<1>1. 0 \in Stamps
  BY Constants DEF Stamps
<1>2. QED BY <1>1 DEF Zeros, Values, Junk

LEMMA ZeroedVals ==
    ASSUME IsBytes(bytes), ValsIn, NEW b, NEW x \in Blocks
    PROVE  Zeroed(b)[x].val \in Values
<1>1. PICK z : z = [val |-> Zeros, ent |-> NoEntries]
  OBVIOUS
<1>2. z.val = Zeros
  BY <1>1
<1>3. Zeroed(b) = [bytes EXCEPT ![b] = z]
  BY <1>1 DEF Zeroed
<1>4. Zeroed(b)[x] = z \/ Zeroed(b)[x] = bytes[x]
  BY <1>3 DEF IsBytes
<1>5. QED BY <1>2, <1>4, ZeroVals DEF ValsIn

LEMMA BeginVals ==
    ASSUME ValsIn, Begin
    PROVE  ValsIn'
<1>1. ASSUME NEW x \in Blocks PROVE bytes'[x].val \in Values
  <2>1. bytes'[x] = Junk \/ bytes'[x] = bytes[x]
    BY DEF Begin
  <2>2. QED BY <2>1, ZeroVals DEF ValsIn
<1>2. QED BY <1>1 DEF ValsIn

LEMMA NewVals ==
    ASSUME IInv, ValsIn, NewRoot \/ NewChild
    PROVE  ValsIn'
<1>1. IsBytes(bytes)
  BY DEF IInv, Types
<1>2. CASE UNCHANGED bytes
  BY <1>2 DEF ValsIn
<1>3. CASE \E b \in FreeBlocks : bytes' = Zeroed(b)
  BY <1>1, <1>3, ZeroedVals DEF ValsIn
<1>4. CASE \E b \in FreeBlocks : SetsEntry(bytes', Zeroed(b), call.at, Here, b)
  <2>1. PICK b \in FreeBlocks : SetsEntry(bytes', Zeroed(b), call.at, Here, b)
    BY <1>4
  <2>2. b \in Blocks
    BY DEF FreeBlocks
  <2>3. IsBytes(Zeroed(b))
    BY <1>1, <2>2, ZeroedIs
  <2>4. ASSUME NEW x \in Blocks PROVE bytes'[x].val \in Values
    <3>1. bytes'[x].val = Zeroed(b)[x].val
      BY <2>1, <2>3, EntryVals
    <3>2. QED BY <1>1, <3>1, ZeroedVals
  <2>5. QED BY <2>4 DEF ValsIn
<1>5. FreeBlocks # {} => Min(FreeBlocks) \in FreeBlocks
  <2>1. FreeBlocks \in SUBSET Nat
    BY Constants DEF FreeBlocks, Blocks
  <2>2. FreeBlocks # {} => \E x \in FreeBlocks : \A y \in FreeBlocks : x <= y
    BY <2>1, LeastNatural
  <2>3. QED BY <2>2 DEF Min
<1>6. NewRoot => bytes' = bytes \/ (FreeBlocks # {} /\ bytes' = Zeroed(Min(FreeBlocks)))
  BY DEF NewRoot, BlockLost
<1>7. NewChild => bytes' = bytes \/ (FreeBlocks # {} /\ SetsEntry(bytes', Zeroed(Min(FreeBlocks)), call.at, Here, Min(FreeBlocks)))
  BY DEF NewChild, BlockLost, SetsEntry
<1>8. QED BY <1>2, <1>3, <1>4, <1>5, <1>6, <1>7

LEMMA WriteEntryVals ==
    ASSUME IInv, ValsIn, WriteEntry
    PROVE  ValsIn'
<1>1. IsBytes(bytes)
  BY DEF IInv, Types
<1>2. bytes' = bytes \/ SetsEntry(bytes', bytes, call.at, Here, call.hand)
  BY DEF WriteEntry, Linked, SetsEntry
<1>3. ASSUME NEW x \in Blocks PROVE bytes'[x].val = bytes[x].val
  BY <1>1, <1>2, EntryVals
<1>4. QED BY <1>3 DEF ValsIn

LEMMA ChunkVals ==
    ASSUME call \in Calls, Len(call.buf) = call.size, call.buf \in Seq(Stamps)
    PROVE  Chunk \in Values
<1>1. call.k \in Nat /\ call.size \in Nat /\ 0 \in Stamps
  BY Constants DEF Calls, Stamps
<1>2. PICK a \in Nat : a = call.k * FragsPerBlock
  BY <1>1, Constants, Product
<1>3. ASSUME NEW j \in 0..(FragsPerBlock - 1), a + j < call.size PROVE call.buf[(a + j) + 1] \in Stamps
  <2>1. PICK z \in Nat : z = call.size
    BY <1>1
  <2>2. j \in Nat
    BY Constants
  <2>3. (a + j) + 1 \in 1..z
    BY ONLY <1>3, <2>1, <2>2, a \in Nat
  <2>4. PICK i \in 1..Len(call.buf) : i = (a + j) + 1
    BY <2>1, <2>3
  <2>5. call.buf[i] \in Stamps
    OBVIOUS
  <2>6. QED BY <2>4, <2>5
<1>4. Chunk = [j \in 0..(FragsPerBlock - 1) |-> IF a + j < call.size THEN call.buf[(a + j) + 1] ELSE 0]
  BY <1>2 DEF Chunk
<1>5. QED BY <1>1, <1>3, <1>4 DEF Values

LEMMA FillVals ==
    ASSUME IInv, ValsIn, TextsIn, Fill
    PROVE  ValsIn'
<1>1. call.pc \in Fills /\ call # Idle
  BY DEF Fill, Fills, Idle
<1>2. PICK H, C, lev, took : At(H, C, lev, took)
  BY <1>1, Storings
<1>3. call \in Calls /\ Len(call.buf) = call.size /\ IsBytes(bytes) /\ call.buf \in Seq(Stamps)
  BY <1>1, <1>2 DEF At, Types, Built, TextsIn
<1>4. Chunk \in Values
  BY <1>3, ChunkVals
<1>5. PICK z : z = [val |-> Chunk, ent |-> NotEntries]
  OBVIOUS
<1>6. z.val = Chunk
  BY <1>5
<1>7. bytes' = bytes \/ bytes' = [bytes EXCEPT ![call.hand] = z]
  BY <1>5 DEF Fill
<1>8. ASSUME NEW x \in Blocks PROVE bytes'[x].val \in Values
  <2>1. bytes'[x] = bytes[x] \/ bytes'[x] = z
    BY <1>3, <1>7 DEF IsBytes
  <2>2. QED BY <1>4, <1>6, <2>1 DEF ValsIn
<1>9. QED BY <1>8 DEF ValsIn

LEMMA NextVals == IInv /\ ValsIn /\ TextsIn /\ [Next]_vars => ValsIn'
<1> SUFFICES ASSUME IInv, ValsIn, TextsIn, [Next]_vars PROVE ValsIn'
  OBVIOUS
<1>1. CASE UNCHANGED bytes
  BY <1>1 DEF ValsIn
<1>2. ASSUME NEW f, NEW size, Create(f, size) PROVE Begin
  BY <1>2 DEF Create
<1>3. ASSUME NEW f, NEW size, \/ Overwrite(f, size) \/ AppendTo(f, size) \/ Truncate(f, size)
                              \/ (size \in Writes /\ Pwrite(f, size[1], size[2]))
      PROVE  Begin
  BY <1>3, RewriteQuiet DEF Rewrite
<1>4. ASSUME NEW f, Unlink(f) PROVE Begin
  BY <1>4 DEF Unlink
<1>5. CASE AllocRun \/ GiveBack \/ SetDirect \/ SetRoot \/ Descend \/ Stored
  BY <1>1, <1>5 DEF AllocRun, GiveBack, SetDirect, SetRoot, Descend, Stored
<1>6. CASE WriteInode \/ WriteName \/ FreeRun \/ AllFreed \/ Clear
  BY <1>1, <1>6 DEF WriteInode, WriteName, FreeRun, AllFreed, Clear
<1>7. CASE NewRoot \/ NewChild \/ WriteEntry \/ Fill
  BY <1>7, NewVals, WriteEntryVals, FillVals
<1>8. CASE UNCHANGED vars
  BY <1>1, <1>8 DEF vars
<1>9. QED
  BY <1>2, <1>3, <1>4, <1>5, <1>6, <1>7, <1>8, BeginVals DEF Next

\* What the calls give and what is read.
LEMMA TextsSame ==
    ASSUME TextsIn, UNCHANGED contents, call' = Idle \/ (call # Idle /\ call'.buf = call.buf)
    PROVE  TextsIn'
  BY DEF TextsIn

LEMMA StoringTexts ==
    ASSUME TextsIn, UNCHANGED contents, NEW kind, NEW f, NEW ino, NEW size, NEW buf \in Seq(Stamps),
           call' = Storing(kind, f, ino, size, buf)
    PROVE  TextsIn'
<1>1. call'.buf = buf
  BY DEF Storing
<1>2. QED BY <1>1 DEF TextsIn

LEMMA StampIn ==
    ASSUME calls \in Stamps, Begin
    PROVE  /\ Stamp \in Stamps /\ 0 \in Stamps
           /\ \A size \in Nat : [i \in 1..size |-> Stamp] \in Seq(Stamps)
<1>1. PICK x \in Stamps : x = Stamp
  BY Constants DEF Stamp, Stamps, Begin
<1>2. \A size \in Nat : [i \in 1..size |-> x] \in Seq(Stamps)
  OBVIOUS
<1>3. 0 \in Stamps
  BY Constants DEF Stamps
<1>4. QED BY <1>1, <1>2, <1>3

LEMMA ReadIn ==
    ASSUME IInv, TextsIn, NEW f \in live
    PROVE  ReadFile(disk[f]) \in Seq(Stamps)
<1>1. ReadFile(disk[f]) = contents[f] /\ f \in Files
  BY ReadsAre DEF IInv, Types
<1>2. QED BY <1>1 DEF TextsIn

LEMMA CreateTexts ==
    ASSUME calls \in Stamps, TextsIn, NEW f, NEW size \in Sizes, Create(f, size)
    PROVE  TextsIn'
<1>1. size \in Nat /\ Begin
  BY Constants DEF Create
<1>2. PICK buf \in Seq(Stamps) : buf = [i \in 1..size |-> Stamp]
  BY <1>1, StampIn
<1>3. PICK ino : ino = [Empty EXCEPT !.size = size]
  OBVIOUS
<1>4. call' = Storing("create", f, ino, size, buf) /\ UNCHANGED contents
  BY <1>2, <1>3 DEF Create
<1>5. QED BY <1>4, StoringTexts

LEMMA RewriteTexts ==
    ASSUME TextsIn, NEW f, NEW buf \in Seq(Stamps), Rewrite(f, buf)
    PROVE  TextsIn'
<1>1. call' = Storing("rewrite", f, Empty, Len(buf), buf) /\ UNCHANGED contents
  BY DEF Rewrite
<1>2. QED BY <1>1, StoringTexts

LEMMA OverwriteTexts ==
    ASSUME calls \in Stamps, TextsIn, NEW f, NEW size \in Sizes, Overwrite(f, size)
    PROVE  TextsIn'
<1>1. size \in Nat /\ Begin
  BY Constants DEF Overwrite, Rewrite
<1>2. [i \in 1..size |-> Stamp] \in Seq(Stamps)
  BY <1>1, StampIn
<1>3. QED BY <1>2, RewriteTexts DEF Overwrite

LEMMA AppendTexts ==
    ASSUME IInv, calls \in Stamps, TextsIn, NEW f, NEW size \in Sizes, AppendTo(f, size)
    PROVE  TextsIn'
<1>1. size \in Nat /\ Begin /\ f \in live
  BY Constants DEF AppendTo, Rewrite
<1>2. PICK tail \in Seq(Stamps) : tail = [i \in 1..size |-> Stamp]
  BY <1>1, StampIn
<1>3. PICK read \in Seq(Stamps) : read = ReadFile(disk[f])
  BY <1>1, ReadIn
<1>4. Rewrite(f, read \o tail)
  BY <1>2, <1>3 DEF AppendTo
<1>5. read \o tail \in Seq(Stamps)
  OBVIOUS
<1>6. QED BY <1>4, <1>5, RewriteTexts

LEMMA TruncateTexts ==
    ASSUME IInv, calls \in Stamps, TextsIn, NEW f, NEW size \in Sizes, Truncate(f, size)
    PROVE  TextsIn'
<1>1. size \in Nat /\ Begin /\ f \in live
  BY Constants DEF Truncate, Rewrite
<1>2. PICK read \in Seq(Stamps) : read = ReadFile(disk[f])
  BY <1>1, ReadIn
<1>3. PICK buf : buf = [i \in 1..size |-> IF i <= Len(read) THEN read[i] ELSE 0]
  OBVIOUS
<1>4. 0 \in Stamps
  BY <1>1, StampIn
<1>5. buf \in Seq(Stamps)
  <2>1. \A i \in 1..size : i <= Len(read) => read[i] \in Stamps
    BY <1>1
  <2>2. QED BY <1>1, <1>3, <1>4, <2>1
<1>6. Rewrite(f, buf)
  BY <1>2, <1>3 DEF Truncate
<1>7. QED BY <1>5, <1>6, RewriteTexts

LEMMA PwriteTexts ==
    ASSUME IInv, calls \in Stamps, TextsIn, NEW f, NEW w \in Writes, Pwrite(f, w[1], w[2])
    PROVE  TextsIn'
<1>1. PICK offset \in Nat, length \in Nat : offset = w[1] /\ length = w[2]
  BY Constants
<1>2. Begin /\ f \in live
  BY DEF Pwrite, Rewrite
<1>3. PICK read \in Seq(Stamps) : read = ReadFile(disk[f])
  BY <1>2, ReadIn
<1>4. PICK size \in Nat : size = Max({Len(read), offset + length})
  <2>1. Max({Len(read), offset + length}) \in Nat
    BY MaxIs
  <2>2. QED BY <2>1
<1>5. PICK x \in Stamps : x = Stamp /\ 0 \in Stamps
  BY <1>2, StampIn
<1>6. PICK buf : buf = [i \in 1..size |-> IF i \in (offset + 1)..(offset + length) THEN x
                                          ELSE IF i <= Len(read) THEN read[i] ELSE 0]
  OBVIOUS
<1>7. buf \in Seq(Stamps)
  <2>1. \A i \in 1..size : i <= Len(read) => read[i] \in Stamps
    OBVIOUS
  <2>2. QED BY <1>5, <1>6, <2>1
<1>8. Rewrite(f, buf)
  BY <1>1, <1>3, <1>4, <1>5, <1>6 DEF Pwrite
<1>9. QED BY <1>7, <1>8, RewriteTexts

LEMMA UnlinkTexts ==
    ASSUME TextsIn, NEW f, Unlink(f)
    PROVE  TextsIn'
<1>1. <<>> \in Seq(Stamps)
  OBVIOUS
<1>2. /\ call' = [Storing("unlink", f, disk[f], 0, <<>>) EXCEPT !.pc = "unlink", !.todo = RunsOf(disk[f])]
      /\ contents' = [contents EXCEPT ![f] = <<>>]
  BY DEF Unlink
<1>3. call'.buf = <<>>
  BY <1>2 DEF Storing
<1>4. contents' \in [Files -> Seq(Stamps)]
  BY <1>1, <1>2 DEF TextsIn
<1>5. QED BY <1>1, <1>3, <1>4 DEF TextsIn

\* The rest of a call keeps what it was given, and its end notes it.
LEMMA TextsNoted ==
    ASSUME TextsIn, call # Idle, call' = Idle \/ call'.buf = call.buf,
           contents' = contents \/ contents' = [contents EXCEPT ![call.file] = call.buf]
    PROVE  TextsIn'
<1>1. contents \in [Files -> Seq(Stamps)] /\ call.buf \in Seq(Stamps)
  BY DEF TextsIn
<1>2. contents' \in [Files -> Seq(Stamps)]
  BY <1>1
<1>3. QED BY <1>1, <1>2 DEF TextsIn

LEMMA CallerTexts ==
    ASSUME IInv, TextsIn, WriteInode \/ WriteName \/ FreeRun \/ AllFreed \/ Clear
    PROVE  TextsIn'
<1>1. call # Idle
  BY DEF WriteInode, WriteName, FreeRun, AllFreed, Clear, Freeing, Idle
<1>2. call \in Calls
  BY <1>1, CallTyped
<1>3. contents' = contents \/ contents' = [contents EXCEPT ![call.file] = call.buf]
  BY DEF WriteInode, WriteName, FreeRun, AllFreed, Clear
<1>4. ASSUME NEW ino, Discard(ino) PROVE call'.buf = call.buf
  BY <1>2, <1>4 DEF Discard, Calls
<1>5. WriteInode \/ WriteName => call' = Idle \/ call'.buf = call.buf
  BY <1>2, <1>4 DEF WriteInode, WriteName, Calls
<1>6. FreeRun \/ AllFreed \/ Clear => call' = Idle \/ call'.buf = call.buf
  BY <1>2, <1>4 DEF FreeRun, AllFreed, Clear, Calls
<1>7. QED BY <1>1, <1>3, <1>5, <1>6, TextsNoted

LEMMA StoreTexts ==
    ASSUME IInv, TextsIn, \/ AllocRun \/ GiveBack \/ SetDirect \/ SetRoot \/ NewRoot
                          \/ Descend \/ NewChild \/ WriteEntry \/ Fill \/ Stored
    PROVE  TextsIn'
<1>1. call # Idle /\ UNCHANGED contents
  BY DEF AllocRun, GiveBack, SetDirect, SetRoot, NewRoot, Descend, NewChild, WriteEntry, Fill, Stored, Idle
<1>2. call \in Calls
  BY <1>1, CallTyped
<1>3. Undo \/ PutBack => call'.buf = call.buf
  BY <1>2 DEF Undo, PutBack, Calls
<1>4. Grown.buf = call.buf /\ \A p, k, h : [Grown EXCEPT !.pc = p, !.k = k, !.hand = h].buf = call.buf
  BY <1>2 DEF Grown, Calls
<1>5. AllocRun \/ GiveBack \/ SetRoot => call'.buf = call.buf
  BY <1>2, <1>3 DEF AllocRun, GiveBack, SetRoot, Calls
<1>6. SetDirect => call'.buf = call.buf
  BY <1>2 DEF SetDirect, Calls
<1>7. NewRoot \/ NewChild => call'.buf = call.buf
  BY <1>2, <1>3 DEF NewRoot, NewChild, BlockLost, Calls
<1>8. Descend \/ WriteEntry \/ Stored => call'.buf = call.buf
  BY <1>2, <1>3 DEF Descend, WriteEntry, Stored, Calls
<1>9. Fill => call'.buf = call.buf
  BY <1>2 DEF Fill, Grown, Calls
<1>10. QED BY <1>1, <1>5, <1>6, <1>7, <1>8, <1>9, TextsSame

LEMMA NextTexts == IInv /\ calls \in Stamps /\ TextsIn /\ [Next]_vars => TextsIn'
<1> SUFFICES ASSUME IInv, calls \in Stamps, TextsIn, [Next]_vars PROVE TextsIn'
  OBVIOUS
<1>1. ASSUME NEW f \in Files, NEW size \in Sizes, Create(f, size) PROVE TextsIn'
  BY <1>1, CreateTexts
<1>2. ASSUME NEW f \in Files, NEW size \in Sizes, Overwrite(f, size) PROVE TextsIn'
  BY <1>2, OverwriteTexts
<1>3. ASSUME NEW f \in Files, NEW size \in Sizes, AppendTo(f, size) PROVE TextsIn'
  BY <1>3, AppendTexts
<1>4. ASSUME NEW f \in Files, NEW size \in Sizes, Truncate(f, size) PROVE TextsIn'
  BY <1>4, TruncateTexts
<1>5. ASSUME NEW f \in Files, NEW w \in Writes, Pwrite(f, w[1], w[2]) PROVE TextsIn'
  BY <1>5, PwriteTexts
<1>6. ASSUME NEW f \in Files, Unlink(f) PROVE TextsIn'
  BY <1>6, UnlinkTexts
<1>7. CASE UNCHANGED vars
  BY <1>7 DEF vars, TextsIn
<1>8. QED
  BY <1>1, <1>2, <1>3, <1>4, <1>5, <1>6, <1>7, StoreTexts, CallerTexts DEF Next

LEMMA NextBInv == IInv /\ BInv /\ [Next]_vars => BInv'
  BY NextUsed, NextFaulted, NextBegins, NextNats, NextVals, NextTexts DEF BInv

-----------------------------------------------------------------------------
(* The block count of the files with a name.                               *)
LEMMA Typed == IInv /\ BInv => TypeOK
<1> SUFFICES ASSUME IInv, BInv PROVE TypeOK
  OBVIOUS
<1>1. used \in [Blocks -> 0..FragsPerBlock] /\ calls \in 0..MaxCalls /\ errors \in 0..MaxErrors
  BY DEF BInv, UsedIn, Faulted, Stamps
<1>2. bytes \in [Blocks -> [val : [0..(FragsPerBlock - 1) -> 0..MaxCalls], ent : [Index -> 0..NBlocks]]]
  <2>1. /\ bytes \in [Blocks -> [val : [0..(FragsPerBlock - 1) -> Int], ent : [Index -> 0..NBlocks]]]
        /\ \A b \in Blocks : bytes[b].val \in [0..(FragsPerBlock - 1) -> 0..MaxCalls]
    BY DEF IInv, Types, IsBytes, BInv, ValsIn, Values, Stamps
  <2>2. ASSUME NEW b \in Blocks
        PROVE  bytes[b] \in [val : [0..(FragsPerBlock - 1) -> 0..MaxCalls], ent : [Index -> 0..NBlocks]]
    <3>1. PICK r \in [val : [0..(FragsPerBlock - 1) -> Int], ent : [Index -> 0..NBlocks]] : r = bytes[b]
      BY <2>1
    <3>2. r.val \in [0..(FragsPerBlock - 1) -> 0..MaxCalls] /\ r.ent \in [Index -> 0..NBlocks]
      BY <2>1, <3>1
    <3>3. r = [val |-> r.val, ent |-> r.ent]
      OBVIOUS
    <3>4. QED BY <3>1, <3>2, <3>3
  <2>3. QED BY <2>1, <2>2
<1>3. ASSUME NEW f \in Files
      PROVE  /\ disk[f].size \in Nat /\ disk[f].blocks \in Nat
             /\ disk[f].db \in [0..(Direct - 1) -> 0..NBlocks] /\ disk[f].ib \in [Slots -> 0..NBlocks]
  <2>1. disk[f] \in Inodes /\ disk[f].blocks \in Nat
    BY DEF IInv, Types, BInv, NatsIn
  <2>2. QED BY <2>1 DEF Inodes
<1>4. call # Idle => call.file \in Files /\ call.hand \in 0..NBlocks /\ call.at \in 0..NBlocks
  BY CallTyped DEF Calls
<1>5. live \subseteq Files /\ lost \in SUBSET Blocks
  BY DEF IInv, Types
<1>6. QED BY <1>1, <1>2, <1>3, <1>4, <1>5 DEF TypeOK

LEMMA Summed ==
    ASSUME IInv, CInv, NEW f \in live
    PROVE  LET runs == RunsOf(disk[f])
           IN  disk[f].blocks = MapThenSumSet(LAMBDA i : runs[i].frags, DOMAIN runs)
<1>1. PICK H, C, lev, took : Sound(H, C, lev, took)
  BY DEF IInv
<1>2. IsBytes(bytes) /\ f \in Files
  BY DEF IInv, Types
<1>3. H[f] \subseteq Blocks /\ Kept(H[f], disk[f], bytes, used, lev, took)
  BY <1>1, <1>2 DEF Sound, GhostOK, FilesOK
<1>4. PICK S, ino : S = H[f] /\ ino = disk[f]
  OBVIOUS
<1>5. S \subseteq Blocks /\ Stands(S, ino, bytes, lev, took)
  BY <1>3, <1>4 DEF Kept
<1>6. Counted(bytes, ino)
  BY <1>4 DEF CInv, FilesCounted
<1>7. PICK runs : runs = RunsOf(ino)
  OBVIOUS
<1>8. ino.blocks = SumFrags(runs, DOMAIN runs)
  BY ONLY <1>2, <1>5, <1>6, <1>7, RunsSum
<1>9. QED BY <1>4, <1>7, <1>8 DEF SumFrags

LEMMA CountedAll == IInv /\ CInv /\ BInv => BlocksCounted
  BY Typed, Summed DEF BlocksCounted

-----------------------------------------------------------------------------
(* The theorems.                                                           *)
\* The invariant holds at every step of every call of mutate.c, failed
\* accesses included.
THEOREM FileDataInvariant == Spec => []IInv
<1>1. Init => IInv
  BY InitIInv
<1>2. IInv /\ [Next]_vars => IInv'
  BY NextIInv
<1>3. QED BY <1>1, <1>2, PTL DEF Spec

\* rewrite_inode_contents stores in fresh blocks, writes the inode and frees
\* the old blocks after it: in every state, and so after a crash in any of
\* them, a file with a name reads as one call or the next left it, whatever
\* the sizes, the block size and the number of entries.
THEOREM FileReadsOldOrNew == Spec => []ReadsOldOrNew
<1>1. IInv => ReadsOldOrNew
  BY ReadsAre DEF ReadsOldOrNew
<1>2. QED BY <1>1, FileDataInvariant, PTL

\* allocate_data_for_inode and free_file_storage leave each run of a file with
\* a name allocated as long as the inode says, and named once: no two files and
\* no two places of one file share a block.
THEOREM FileNamedFilesBacked == Spec => []NamedFilesBacked
<1>1. IInv => NamedFilesBacked
  BY Backed
<1>2. QED BY <1>1, FileDataInvariant, PTL

\* Between calls what is allocated is what the files reach and what the failed
\* calls of mutate.c left to nobody: a run alloc.c took in the group block
\* before the write behind it failed, and what was still to be freed when a
\* free or write_inode_raw failed.  Everything else a failing call had taken it
\* has given back, and nothing lost is ever part of a file.
THEOREM FileNothingLost == Spec => []NothingLost
<1>1. Init => IInv /\ UsedIn
  BY InitIInv, InitBInv DEF BInv
<1>2. IInv /\ UsedIn /\ [Next]_vars => (IInv /\ UsedIn)'
  BY NextIInv, NextUsed
<1>3. IInv /\ UsedIn => NothingLost
  BY Nothing DEF UsedIn
<1>4. QED BY <1>1, <1>2, <1>3, PTL DEF Spec

\* allocate_data_for_inode adds up di_blocks run by run, the blocks it takes for
\* the trees included.  In every state the inode of a file with a name counts
\* exactly the fragments of the runs that free_file_storage would free, which is
\* what fsck pass 1 compares it with; and no block has more fragments allocated
\* than there are in it.
THEOREM FileBlocksCounted == Spec => []BlocksCounted
<1>1. Init => IInv /\ CInv /\ BInv
  BY InitIInv, InitCInv, InitBInv
<1>2. IInv /\ CInv /\ BInv /\ [Next]_vars => (IInv /\ CInv /\ BInv)'
  BY NextIInv, NextCInv, NextBInv
<1>3. IInv /\ CInv /\ BInv => BlocksCounted
  BY CountedAll
<1>4. QED BY <1>1, <1>2, <1>3, PTL DEF Spec
=============================================================================
