---------------------------- MODULE DirBlk_proofs ----------------------------
(***************************************************************************)
(* The bytes of a directory hold what the callers put into it, for every   *)
(* size of block, every number of them and every set of names: as long as  *)
(* no removal has merged a record across a hole.                           *)
(*                                                                         *)
(* The walk is a recursive function of the offset.  LeastNatural, from the *)
(* library's well-founded induction, stands in for an induction principle: *)
(* with it the function is shown to exist, and the offsets it visits are   *)
(* characterised without recursion (ChainFacts).  The inductive invariant  *)
(* then speaks of the set of offsets a walk visits: they tile the bytes,   *)
(* the blocks begin with one of them, and the live ones are the two dots   *)
(* and the entries.                                                        *)
(***************************************************************************)
EXTENDS DirBlk, FiniteSetTheorems, FunctionTheorems, SequenceTheorems, WellFoundedInduction,
        TLAPS

-----------------------------------------------------------------------------
(* Induction over sets of naturals.                                        *)

LEMMA LeastNatural ==
    ASSUME NEW S \in SUBSET Nat, S # {}
    PROVE  \E x \in S : \A y \in S : x <= y
<1> DEFINE R == {ss \in Nat \X Nat : ss[1] < ss[2]}
<1>1. IsWellFoundedOn(R, Nat)
  BY NatLessThanWellFounded DEF OpToRel
<1>2. \E x \in S : \A y \in S : ~ (<<y, x>> \in R)
  <2> HIDE DEF R
  <2>1. QED BY <1>1, WFMin
<1>3. PICK x \in S : \A y \in S : ~ (<<y, x>> \in R)
  BY <1>2
<1>4. ASSUME NEW y \in S PROVE x <= y
  <2>1. ~ (y < x)
    BY <1>3
  <2>2. QED BY <2>1
<1>5. QED BY <1>4

\* A set of naturals up to end that is not empty has a greatest element.
LEMMA GreatestNatural ==
    ASSUME NEW S \in SUBSET Nat, S # {}, NEW end \in Nat, \A x \in S : x <= end
    PROVE  \E x \in S : \A y \in S : y <= x
<1> DEFINE D == {end - x : x \in S}
<1>1. D \in SUBSET Nat /\ D # {}
  <2>1. \A x \in S : end - x \in Nat
    OBVIOUS
  <2>2. PICK x \in S : TRUE
    OBVIOUS
  <2>3. end - x \in D
    OBVIOUS
  <2>4. QED BY <2>1, <2>3
<1>2. PICK d \in D : \A y \in D : d <= y
  <2> HIDE DEF D
  <2>1. QED BY <1>1, LeastNatural
<1>3. PICK x \in S : d = end - x
  OBVIOUS
<1>4. ASSUME NEW y \in S PROVE y <= x
  <2>1. d <= end - y
    BY <1>2
  <2>2. QED BY <2>1, <1>3
<1>5. QED BY <1>4

\* Downward induction: what holds at an offset if it holds at all later ones
\* holds at all of them.
LEMMA Downward ==
    ASSUME NEW first \in Nat, NEW end \in Nat, NEW S,
           \A o \in first..end : (\A p \in (o + 1)..end : p \in S) => o \in S
    PROVE  first..end \subseteq S
<1> DEFINE Bad == {o \in first..end : o \notin S}
<1>1. SUFFICES ASSUME Bad # {} PROVE FALSE
  OBVIOUS
<1>2. Bad \in SUBSET Nat /\ \A x \in Bad : x <= end
  OBVIOUS
<1>3. PICK o \in Bad : \A p \in Bad : p <= o
  <2> HIDE DEF Bad
  <2>1. QED BY <1>1, <1>2, GreatestNatural
<1>4. \A p \in (o + 1)..end : p \in S
  BY <1>3
<1>5. QED BY <1>3, <1>4

-----------------------------------------------------------------------------
(* The walk.                                                               *)

IsWalk(f, first, end, on, item, nxt) ==
    f = [o \in first..end |-> IF o \in on THEN item[o] \o f[nxt[o]] ELSE <<>>]

\* A function of the offsets that is given, where the walk goes on, by the
\* offset it goes on at exists: its values are fixed from the end backwards.
LEMMA WalkExists ==
    ASSUME NEW first \in Nat, NEW end \in Nat, NEW on, NEW item, NEW nxt,
           \A o \in on : nxt[o] \in (o + 1)..end
    PROVE  \E f : IsWalk(f, first, end, on, item, nxt)
<1> DEFINE At(f, o) == f[o] = IF o \in on THEN item[o] \o f[nxt[o]] ELSE <<>>
           Good(f, m) == \A o \in first..end : o >= m => At(f, o)
           S == {m \in first..(end + 1) : \E f : Good(f, m)}
<1>1. ASSUME NEW m \in first..end, NEW f, Good(f, m + 1) PROVE \E g : Good(g, m)
  <2> DEFINE g == [o \in first..end |->
                     IF o >= m + 1 THEN f[o]
                     ELSE IF o \in on THEN item[o] \o f[nxt[o]] ELSE <<>>]
  <2>1. ASSUME NEW o \in first..end, o >= m PROVE At(g, o)
    <3>1. o \in on => g[nxt[o]] = f[nxt[o]]
      <4>1. SUFFICES ASSUME o \in on PROVE g[nxt[o]] = f[nxt[o]]
        OBVIOUS
      <4>2. nxt[o] \in (o + 1)..end
        BY <4>1
      <4>3. nxt[o] \in first..end /\ nxt[o] >= m + 1
        BY <4>2, <2>1
      <4>4. QED BY <4>3
    <3>2. g[o] = IF o \in on THEN item[o] \o f[nxt[o]] ELSE <<>>
      BY <1>1, <2>1
    <3>3. QED BY <3>1, <3>2
  <2>2. Good(g, m)
    BY <2>1
  <2> HIDE DEF g, Good
  <2>3. QED BY <2>2
<1>2. \E f : Good(f, end + 1)
  <2> DEFINE f == [o \in first..end |-> <<>>]
  <2>1. Good(f, end + 1)
    OBVIOUS
  <2> HIDE DEF f, Good
  <2>2. QED BY <2>1
<1>3. \A o \in first..end : (\A p \in (o + 1)..end : p \in S) => o \in S
  <2> HIDE DEF Good
  <2>1. SUFFICES ASSUME NEW o \in first..end, \A p \in (o + 1)..end : p \in S PROVE o \in S
    OBVIOUS
  <2>2. \E f : Good(f, o + 1)
    <3>1. CASE o = end
      BY <1>2, <3>1
    <3>2. CASE o # end
      <4>1. o + 1 \in (o + 1)..end
        BY <3>2
      <4>2. QED BY <2>1, <4>1
    <3>3. QED BY <3>1, <3>2
  <2>3. QED BY <2>2, <1>1
<1>4. first..end \subseteq S
  <2> HIDE DEF S
  <2>1. QED BY <1>3, Downward
<1>5. \E f : Good(f, first)
  <2> HIDE DEF Good
  <2>1. CASE first <= end
    <3>1. first \in S
      BY <1>4, <2>1
    <3>2. QED BY <3>1
  <2>2. CASE first = end + 1
    BY <1>2, <2>2
  <2>3. CASE first > end + 1
    <3>1. \A f : Good(f, first)
      BY <2>3 DEF Good
    <3>2. QED BY <3>1
  <2>4. QED BY <2>1, <2>2, <2>3
<1>6. PICK f : Good(f, first)
  <2> HIDE DEF Good
  <2>1. QED BY <1>5
<1> DEFINE g == [o \in first..end |-> f[o]]
<1>7. ASSUME NEW o \in first..end
      PROVE  g[o] = IF o \in on THEN item[o] \o g[nxt[o]] ELSE <<>>
  <2>1. o \in on => g[nxt[o]] = f[nxt[o]]
    OBVIOUS
  <2>2. f[o] = IF o \in on THEN item[o] \o f[nxt[o]] ELSE <<>>
    BY <1>6
  <2>3. QED BY <2>1, <2>2
<1>8. g = [o \in first..end |-> IF o \in on THEN item[o] \o g[nxt[o]] ELSE <<>>]
  BY <1>7
<1> HIDE DEF g
<1>9. QED BY <1>8 DEF IsWalk

\* Headers a walk can go by.
Walkable(h) == \A o \in DOMAIN h : h[o].reclen \in Nat

Next1(h, o) == o + h[o].reclen

\* A walk goes forward, and not past the end.
LEMMA NextOffset ==
    ASSUME NEW h, Walkable(h), NEW end \in Nat, NEW o \in Nat, Readable(h, o, end)
    PROVE  Next1(h, o) \in (o + 1)..end /\ o < end /\ h[o].reclen \in Nat
BY DEF Walkable, Readable, HeaderBytes, Next1

ChainFrom(h, first, end) ==
    CHOOSE f : f = [o \in first..end |->
                       IF Readable(h, o, end) THEN <<o>> \o f[o + h[o].reclen] ELSE <<>>]
ListFrom(h, end) ==
    CHOOSE f : f = [o \in 0..end |->
                       IF ~Readable(h, o, end) THEN <<>>
                       ELSE (IF Live(h, o) THEN <<Entry(h, o)>> ELSE <<>>) \o f[o + h[o].reclen]]

\* f is what Chain, or Listing, says of the walks from each offset.
Chains(f, h, first, end) ==
    \A o \in first..end :
        f[o] = IF Readable(h, o, end) THEN <<o>> \o f[Next1(h, o)] ELSE <<>>
Lists(f, h, end) ==
    \A o \in 0..end :
        f[o] = IF ~Readable(h, o, end) THEN <<>>
               ELSE (IF Live(h, o) THEN <<Entry(h, o)>> ELSE <<>>) \o f[Next1(h, o)]

LEMMA ChainEquation ==
    ASSUME NEW h, Walkable(h), NEW first \in Nat, NEW end \in Nat
    PROVE  /\ Chain(h, first, end) = ChainFrom(h, first, end)[first]
           /\ Chains(ChainFrom(h, first, end), h, first, end)
<1> DEFINE on == {o \in first..end : Readable(h, o, end)}
           item == [o \in first..end |-> <<o>>]
           nxt == [o \in first..end |-> Next1(h, o)]
           Is(f) == f = [o \in first..end |->
                           IF Readable(h, o, end) THEN <<o>> \o f[o + h[o].reclen] ELSE <<>>]
<1>1. \A o \in on : nxt[o] \in (o + 1)..end
  BY NextOffset
<1>2. PICK f : IsWalk(f, first, end, on, item, nxt)
  <2> HIDE DEF on, item, nxt
  <2>1. QED BY <1>1, WalkExists
<1>3. Is(f)
  <2> DEFINE A(o) == IF o \in on THEN item[o] \o f[nxt[o]] ELSE <<>>
             B(o) == IF Readable(h, o, end) THEN <<o>> \o f[o + h[o].reclen] ELSE <<>>
  <2>1. \A o \in first..end : A(o) = B(o)
    BY DEF Next1
  <2>2. f = [o \in first..end |-> A(o)]
    BY <1>2 DEF IsWalk
  <2>3. f = [o \in first..end |-> B(o)]
    <3> HIDE DEF A, B
    <3>1. QED BY <2>1, <2>2
  <2>4. QED BY <2>3
<1>4. ChainFrom(h, first, end) = CHOOSE g : Is(g)
  BY DEF ChainFrom
<1>5. Is(ChainFrom(h, first, end))
  <2> HIDE DEF Is
  <2>1. QED BY <1>3, <1>4
<1>6. Chain(h, first, end) = ChainFrom(h, first, end)[first]
  BY DEF Chain, ChainFrom
<1> HIDE DEF on, item, nxt
<1>7. QED BY <1>5, <1>6 DEF Next1, Chains

LEMMA ListEquation ==
    ASSUME NEW h, Walkable(h), NEW end \in Nat
    PROVE  /\ Listing(h, end) = ListFrom(h, end)[0]
           /\ Lists(ListFrom(h, end), h, end)
<1> DEFINE on == {o \in 0..end : Readable(h, o, end)}
           item == [o \in 0..end |-> IF Live(h, o) THEN <<Entry(h, o)>> ELSE <<>>]
           nxt == [o \in 0..end |-> Next1(h, o)]
           Is(f) == f = [o \in 0..end |->
                           IF ~Readable(h, o, end) THEN <<>>
                           ELSE (IF Live(h, o) THEN <<Entry(h, o)>> ELSE <<>>) \o f[o + h[o].reclen]]
<1>1. \A o \in on : nxt[o] \in (o + 1)..end
  BY NextOffset
<1>2. PICK f : IsWalk(f, 0, end, on, item, nxt)
  <2> HIDE DEF on, item, nxt
  <2>1. QED BY <1>1, WalkExists
<1>3. Is(f)
  <2> DEFINE A(o) == IF o \in on THEN item[o] \o f[nxt[o]] ELSE <<>>
             B(o) == IF ~Readable(h, o, end) THEN <<>>
                     ELSE (IF Live(h, o) THEN <<Entry(h, o)>> ELSE <<>>) \o f[o + h[o].reclen]
  <2>1. \A o \in 0..end : A(o) = B(o)
    BY DEF Next1
  <2>2. f = [o \in 0..end |-> A(o)]
    BY <1>2 DEF IsWalk
  <2>3. f = [o \in 0..end |-> B(o)]
    <3> HIDE DEF A, B
    <3>1. QED BY <2>1, <2>2
  <2>4. QED BY <2>3
<1>4. ListFrom(h, end) = CHOOSE g : Is(g)
  BY DEF ListFrom
<1>5. Is(ListFrom(h, end))
  <2> HIDE DEF Is
  <2>1. QED BY <1>3, <1>4
<1>6. Listing(h, end) = ListFrom(h, end)[0]
  BY DEF Listing, ListFrom
<1> HIDE DEF on, item, nxt
<1>7. QED BY <1>5, <1>6 DEF Next1, Lists

LEMMA Cons ==
    ASSUME NEW S, NEW s \in Seq(S), NEW x \in S
    PROVE  /\ <<x>> \o s \in Seq(S) /\ Len(<<x>> \o s) = Len(s) + 1
           /\ (<<x>> \o s)[1] = x
           /\ \A i \in 1..Len(s) : (<<x>> \o s)[i + 1] = s[i]
           /\ ElemsOf(<<x>> \o s) = {x} \cup ElemsOf(s)
<1> DEFINE t == <<x>> \o s
<1>1. t \in Seq(S) /\ Len(t) = Len(s) + 1 /\ Len(s) \in Nat
  OBVIOUS
<1>2. t[1] = x
  OBVIOUS
<1>3. \A i \in 1..Len(s) : t[i + 1] = s[i]
  OBVIOUS
<1>4. DOMAIN t = 1..(Len(s) + 1) /\ DOMAIN s = 1..Len(s)
  BY <1>1
<1> HIDE DEF t
<1>5. ElemsOf(t) = {x} \cup ElemsOf(s)
  <2>1. \A k \in DOMAIN t : t[k] \in {x} \cup ElemsOf(s)
    <3>1. SUFFICES ASSUME NEW k \in DOMAIN t, k # 1 PROVE t[k] \in ElemsOf(s)
      BY <1>2
    <3>2. k - 1 \in DOMAIN s /\ t[(k - 1) + 1] = s[k - 1] /\ (k - 1) + 1 = k
      BY <1>1, <1>3, <1>4, <3>1
    <3>3. QED BY <3>2 DEF ElemsOf
  <2>2. x \in ElemsOf(t)
    BY <1>1, <1>2, <1>4 DEF ElemsOf
  <2>3. \A k \in DOMAIN s : s[k] \in ElemsOf(t)
    <3>1. SUFFICES ASSUME NEW k \in DOMAIN s PROVE s[k] \in ElemsOf(t)
      OBVIOUS
    <3>2. t[k + 1] = s[k] /\ k + 1 \in DOMAIN t
      BY <1>1, <1>3, <1>4
    <3>3. QED BY <3>2 DEF ElemsOf
  <2>4. QED BY <2>1, <2>2, <2>3 DEF ElemsOf
<1>6. QED BY <1>1, <1>2, <1>3, <1>5 DEF t

\* c is the walk from o, step by step.
WalkOf(h, end, o, c) ==
    /\ c \in Seq(Nat)
    /\ Len(c) > 0 <=> Readable(h, o, end)
    /\ Len(c) > 0 => c[1] = o /\ ~Readable(h, Next1(h, c[Len(c)]), end)
    /\ \A i \in 1..Len(c) : Readable(h, c[i], end) /\ c[i] \in o..end
    /\ \A i \in 1..(Len(c) - 1) : c[i + 1] = Next1(h, c[i])

LEMMA ChainWalks ==
    ASSUME NEW h, Walkable(h), NEW first \in Nat, NEW end \in Nat
    PROVE  \A o \in first..end : WalkOf(h, end, o, ChainFrom(h, first, end)[o])
<1> DEFINE f == ChainFrom(h, first, end)
           S == {o \in first..end : WalkOf(h, end, o, f[o])}
<1>1. Chains(f, h, first, end)
  BY ChainEquation
<1> HIDE DEF f
<1>2. ASSUME NEW o \in first..end, \A p \in (o + 1)..end : p \in S PROVE o \in S
  <2>0. o \in Nat
    OBVIOUS
  <2>1. CASE ~Readable(h, o, end)
    <3>1. f[o] = <<>>
      BY <1>1, <2>1 DEF Chains
    <3>2. <<>> \in Seq(Nat) /\ Len(<<>>) = 0
      OBVIOUS
    <3>3. f[o] \in Seq(Nat) /\ Len(f[o]) = 0
      BY <3>1, <3>2
    <3>4. WalkOf(h, end, o, f[o])
      BY <3>3, <2>1 DEF WalkOf
    <3>5. QED BY <3>4
  <2>2. CASE Readable(h, o, end)
    <3> DEFINE n == Next1(h, o)
               s == f[n]
               t == f[o]
    <3>1. n \in (o + 1)..end /\ n \in Nat
      BY <2>0, <2>2, NextOffset
    <3>2. WalkOf(h, end, n, s)
      BY <1>2, <3>1
    <3>3. t = <<o>> \o s
      BY <1>1, <2>2 DEF Chains
    <3>4. s \in Seq(Nat) /\ Len(s) \in Nat
      BY <3>2 DEF WalkOf
    <3>5. t \in Seq(Nat) /\ Len(t) = Len(s) + 1 /\ t[1] = o /\ \A i \in 1..Len(s) : t[i + 1] = s[i]
      <4> HIDE DEF s, t, n
      <4>1. <<o>> \o s \in Seq(Nat) /\ Len(<<o>> \o s) = Len(s) + 1 /\ (<<o>> \o s)[1] = o
            /\ \A i \in 1..Len(s) : (<<o>> \o s)[i + 1] = s[i]
        BY <2>0, <3>4, Cons
      <4>2. QED BY <3>3, <4>1
    <3> HIDE DEF s, t, n
    <3>6. ASSUME NEW i \in 1..Len(t) PROVE Readable(h, t[i], end) /\ t[i] \in o..end
      <4>1. CASE i = 1
        BY <4>1, <3>5, <2>2, <2>0, NextOffset
      <4>2. CASE i # 1
        <5>1. i - 1 \in 1..Len(s) /\ (i - 1) + 1 = i
          BY <4>2, <3>4, <3>5
        <5> HIDE DEF S
        <5>4. t[(i - 1) + 1] = s[i - 1]
          BY <5>1, <3>5
        <5>2. Readable(h, s[i - 1], end) /\ s[i - 1] \in n..end
          BY <3>2, <5>1 DEF WalkOf
        <5>3. QED BY <5>1, <5>2, <5>4, <3>1
      <4>3. QED BY <4>1, <4>2
    <3>7. ASSUME NEW i \in 1..(Len(t) - 1) PROVE t[i + 1] = Next1(h, t[i])
      <4>1. i \in 1..Len(s) /\ t[i + 1] = s[i]
        BY <3>4, <3>5
      <4>2. CASE i = 1
        <5>1. s[1] = n
          BY <4>1, <4>2, <3>2, <3>4 DEF WalkOf
        <5>2. QED BY <5>1, <4>1, <4>2, <3>5 DEF n
      <4>3. CASE i # 1
        <5>1. i - 1 \in 1..(Len(s) - 1) /\ i - 1 \in 1..Len(s) /\ (i - 1) + 1 = i
          BY <4>1, <4>3, <3>4
        <5>2. s[(i - 1) + 1] = Next1(h, s[i - 1]) /\ t[(i - 1) + 1] = s[i - 1]
          BY <5>1, <3>2, <3>5 DEF WalkOf
        <5>3. QED BY <5>1, <5>2, <4>1
      <4>4. QED BY <4>2, <4>3
    <3>8. ~Readable(h, Next1(h, t[Len(t)]), end)
      <4>1. CASE Len(s) = 0
        <5>1. ~Readable(h, n, end)
          BY <3>2, <4>1 DEF WalkOf
        <5>2. QED BY <5>1, <4>1, <3>5 DEF n
      <4>2. CASE Len(s) > 0
        <5>1. Len(s) \in 1..Len(s) /\ t[Len(t)] = s[Len(s)]
          BY <4>2, <3>4, <3>5
        <5>2. QED BY <5>1, <4>2, <3>2 DEF WalkOf
      <4>3. QED BY <4>1, <4>2, <3>4
    <3>9. WalkOf(h, end, o, t)
      BY <2>2, <3>4, <3>5, <3>6, <3>7, <3>8 DEF WalkOf
    <3>10. QED BY <3>9 DEF t
  <2>3. QED BY <2>1, <2>2
<1>3. first..end \subseteq S
  <2> HIDE DEF S
  <2>1. QED BY <1>2, Downward
<1>4. QED BY <1>3 DEF f

\* What the walk from first visits, without recursion: it begins at first,
\* goes on as long as it can, and comes to every record from the one before.
LEMMA ChainFacts ==
    ASSUME NEW h, Walkable(h), NEW first \in Nat, NEW end \in Nat, first <= end
    PROVE  LET c == Chain(h, first, end)
               V == ElemsOf(c)
           IN  /\ c \in Seq(Nat)
               /\ V \subseteq first..end /\ \A o \in V : Readable(h, o, end)
               /\ Readable(h, first, end) => first \in V /\ c # <<>>
               /\ \A o \in V : Readable(h, Next1(h, o), end) => Next1(h, o) \in V
               /\ \A o \in V : o = first \/ \E r \in V : Next1(h, r) = o
               /\ c # <<>> => c[Len(c)] \in V /\ ~Readable(h, Next1(h, c[Len(c)]), end)
<1> DEFINE c == Chain(h, first, end)
           V == ElemsOf(c)
<1>1. WalkOf(h, end, first, c)
  <2>1. first \in first..end
    OBVIOUS
  <2>2. c = ChainFrom(h, first, end)[first]
    BY ChainEquation
  <2> HIDE DEF c
  <2>3. QED BY <2>1, <2>2, ChainWalks
<1> HIDE DEF c
<1>2. c \in Seq(Nat) /\ Len(c) \in Nat /\ DOMAIN c = 1..Len(c)
  BY <1>1 DEF WalkOf
<1>3. \A i \in 1..Len(c) : c[i] \in V
  BY <1>2 DEF ElemsOf
<1>4. ASSUME NEW o \in V
      PROVE  /\ o \in first..end /\ Readable(h, o, end)
             /\ Readable(h, Next1(h, o), end) => Next1(h, o) \in V
             /\ o = first \/ \E r \in V : Next1(h, r) = o
  <2>1. PICK i \in 1..Len(c) : c[i] = o
    BY <1>2 DEF ElemsOf
  <2>2. o \in first..end /\ Readable(h, o, end)
    BY <1>1, <2>1 DEF WalkOf
  <2>3. ASSUME Readable(h, Next1(h, o), end) PROVE Next1(h, o) \in V
    <3>1. i # Len(c)
      BY <1>1, <2>1, <2>3 DEF WalkOf
    <3> HIDE DEF V
    <3>0. Len(c) \in Nat
      BY <1>2
    <3>2. i \in 1..(Len(c) - 1) /\ i + 1 \in 1..Len(c)
      BY <3>0, <3>1
    <3>3. c[i + 1] = Next1(h, o)
      BY <1>1, <2>1, <3>2 DEF WalkOf
    <3>4. QED BY <1>3, <3>2, <3>3
  <2>4. ASSUME o # first PROVE \E r \in V : Next1(h, r) = o
    <3>1. i # 1
      BY <1>1, <1>2, <2>1, <2>4 DEF WalkOf
    <3>2. i - 1 \in 1..(Len(c) - 1) /\ i - 1 \in 1..Len(c) /\ (i - 1) + 1 = i
      BY <1>2, <2>1, <3>1
    <3>3. c[(i - 1) + 1] = Next1(h, c[i - 1])
      BY <1>1, <3>2 DEF WalkOf
    <3>4. QED BY <1>3, <2>1, <3>2, <3>3
  <2>5. QED BY <2>2, <2>3, <2>4
<1>5. ASSUME Readable(h, first, end) PROVE first \in V /\ c # <<>>
  <2>1. Len(c) > 0 /\ c[1] = first
    BY <1>1, <1>5 DEF WalkOf
  <2>2. 1 \in 1..Len(c)
    BY <1>2, <2>1
  <2>3. c # <<>>
    BY <2>1
  <2>4. QED BY <1>3, <2>1, <2>2, <2>3
<1>6. ASSUME c # <<>> PROVE c[Len(c)] \in V /\ ~Readable(h, Next1(h, c[Len(c)]), end)
  <2>1. Len(c) # 0
    BY <1>2, <1>6
  <2>2. Len(c) > 0 /\ Len(c) \in 1..Len(c)
    BY <1>2, <2>1
  <2>3. QED BY <1>1, <1>3, <2>2 DEF WalkOf
<1>7. QED BY <1>2, <1>4, <1>5, <1>6 DEF c

-----------------------------------------------------------------------------
(* Records that tile the bytes from first to end, and the blocks.          *)

Tiles(h, first, end, T) ==
    /\ first \in T /\ T \subseteq first..(end - 1) /\ T \subseteq DOMAIN h
    /\ \A o \in T : h[o] \in Header /\ h[o].reclen >= Need(h[o].name)
    /\ \A o \in T : Next1(h, o) \in T \cup {end}
    /\ \A o, p \in T : o < p => Next1(h, o) <= p

\* Every block begins with a record.
Starts(T, sz) == \A k \in Nat : k * DirBlkSize < sz => k * DirBlkSize \in T

\* The records that hold entries: all live ones but the two dots.
Holders(h, T) == {o \in T \ {0, 12} : Live(h, o)}

DotsFirst(h, T, up) ==
    /\ 12 \in T
    /\ h[0].name = Dot /\ h[0].ino = Self /\ h[0].reclen = 12
    /\ h[12].name = DotDot /\ h[12].ino = up

Holds(h, T, ents) ==
    /\ \A o \in Holders(h, T) : h[o].name \in DOMAIN ents /\ ents[h[o].name] = h[o].ino
    /\ \A n \in DOMAIN ents : \E o \in Holders(h, T) : h[o].name = n
    /\ \A o, p \in Holders(h, T) : h[o].name = h[p].name => o = p

Sound(h, sz, T, ents, up) ==
    /\ Tiles(h, 0, sz, T) /\ Starts(T, sz)
    /\ DotsFirst(h, T, up) /\ Holds(h, T, ents)

\* The part of TypeOK that is about the bytes.
Sized(sz) == sz \in {k * DirBlkSize : k \in 1..MaxBlks}
Bytes(h, sz) ==
    Sized(sz) /\ DOMAIN h \subseteq 0..(sz - 1) /\ \A o \in DOMAIN h : h[o] \in Header

IInv ==
    /\ TypeOK
    /\ ~merged => Sound(heads, size, Visited(heads, size), entries, parent)

-----------------------------------------------------------------------------
(* What the predicates give.                                               *)

LEMMA NeedFacts ==
    /\ \A n \in Names \cup {Dot, DotDot} :
          /\ LenOf(n) \in Nat /\ Need(n) \in Nat /\ Need(n) >= 12
          /\ Need(n) >= HeaderBytes + LenOf(n) /\ Need(n) <= DirBlkSize
    /\ Need(Dot) = 12 /\ Need(DotDot) = 12 /\ DirentSize(1) = 12
    /\ LenOf(Dot) = 1 /\ LenOf(DotDot) = 2
    /\ Dot # DotDot /\ Dot \notin Names /\ DotDot \notin Names
<1>1. Dot # DotDot /\ Dot \notin Names /\ DotDot \notin Names
  BY DirBlkAssumption DEF Dot, DotDot
<1>2. LenOf(Dot) = 1 /\ LenOf(DotDot) = 2
  BY <1>1 DEF LenOf
<1>3. DirentSize(1) = 12 /\ DirentSize(2) = 12
  BY DEF DirentSize, HeaderBytes
<1>4. ASSUME NEW len \in Nat
      PROVE  /\ DirentSize(len) \in Nat /\ DirentSize(len) >= 12
             /\ DirentSize(len) >= HeaderBytes + len /\ DirentSize(len) <= len + 12
  BY DEF DirentSize, HeaderBytes
<1>5. ASSUME NEW n \in Names PROVE LenOf(n) \in Nat /\ LenOf(n) + 12 <= DirBlkSize
  BY <1>1, DirBlkAssumption DEF LenOf
<1>6. DirBlkSize \in Nat /\ DirBlkSize >= 24
  BY DirBlkAssumption
<1>7. \A n \in Names \cup {Dot, DotDot} : LenOf(n) \in Nat /\ LenOf(n) + 12 <= DirBlkSize
  BY <1>2, <1>5, <1>6
<1>8. QED BY <1>1, <1>2, <1>3, <1>4, <1>6, <1>7 DEF Need

LEMMA TileFacts ==
    ASSUME NEW h, NEW first \in Nat, NEW end \in Nat, NEW T, Tiles(h, first, end, T),
           NEW o \in T
    PROVE  /\ o \in Nat /\ first <= o /\ o < end
           /\ o \in DOMAIN h /\ h[o] \in Header /\ h[o].reclen \in Nat
           /\ h[o].name \in Names \cup {Dot, DotDot}
           /\ Need(h[o].name) \in Nat /\ Need(h[o].name) >= 12
           /\ h[o].reclen >= Need(h[o].name)
           /\ Next1(h, o) \in Nat /\ Next1(h, o) = o + h[o].reclen
           /\ Next1(h, o) >= o + 12 /\ Next1(h, o) <= end
           /\ Next1(h, o) \in T \cup {end}
           /\ Readable(h, o, end)
<1>1. o \in Nat /\ first <= o /\ o < end /\ \A p \in T : p \in Nat /\ p <= end
  BY DEF Tiles
<1>2. o \in DOMAIN h /\ h[o] \in Header /\ h[o].reclen >= Need(h[o].name)
  BY DEF Tiles
<1>3. h[o].reclen \in Nat /\ h[o].name \in Names \cup {Dot, DotDot}
  BY <1>2 DEF Header
<1>4. /\ Need(h[o].name) \in Nat /\ Need(h[o].name) >= 12
      /\ Need(h[o].name) >= HeaderBytes + LenOf(h[o].name) /\ LenOf(h[o].name) \in Nat
  BY <1>3, NeedFacts
<1>5. Next1(h, o) \in T \cup {end} /\ Next1(h, o) = o + h[o].reclen
  BY DEF Tiles, Next1
<1>6. Next1(h, o) <= end
  <2> DEFINE m == Next1(h, o)
  <2>1. m \in T \cup {end}
    BY <1>5
  <2> HIDE DEF m
  <2>2. m <= end
    BY <1>1, <2>1
  <2>3. QED BY <2>2 DEF m
<1>7. Readable(h, o, end)
  <2> o + HeaderBytes <= end /\ h[o].reclen >= HeaderBytes /\ o + h[o].reclen <= end
        /\ o + HeaderBytes + LenOf(h[o].name) <= end
    BY <1>1, <1>2, <1>3, <1>4, <1>5, <1>6 DEF HeaderBytes
  <2> QED BY <1>2 DEF Readable
<1>8. QED BY <1>1, <1>2, <1>3, <1>4, <1>5, <1>6, <1>7

\* The walk visits the records that tile the bytes, and comes to the end.
LEMMA TilesVisited ==
    ASSUME NEW h, Walkable(h), NEW first \in Nat, NEW end \in Nat, NEW T,
           Tiles(h, first, end, T)
    PROVE  LET c == Chain(h, first, end)
           IN  /\ ElemsOf(c) = T /\ c # <<>>
               /\ c[Len(c)] \in T /\ Next1(h, c[Len(c)]) = end
<1> DEFINE c == Chain(h, first, end)
           V == ElemsOf(c)
<1>1. first \in T /\ first < end
  BY DEF Tiles
<1>2. /\ V \subseteq first..end /\ \A o \in V : Readable(h, o, end)
      /\ Readable(h, first, end) => first \in V /\ c # <<>>
      /\ \A o \in V : Readable(h, Next1(h, o), end) => Next1(h, o) \in V
      /\ \A o \in V : o = first \/ \E r \in V : Next1(h, r) = o
      /\ c # <<>> => c[Len(c)] \in V /\ ~Readable(h, Next1(h, c[Len(c)]), end)
  BY <1>1, ChainFacts
<1> HIDE DEF c, V
<1>3. first \in V /\ c # <<>>
  BY <1>1, <1>2, TileFacts
<1>10. V \in SUBSET Nat /\ \A o \in V : o <= end
  <2>1. V \subseteq first..end
    BY <1>2
  <2>2. QED BY <2>1
<1>4. V \subseteq T
  <2> DEFINE Bad == {o \in V : o \notin T}
  <2>1. SUFFICES ASSUME Bad # {} PROVE FALSE
    OBVIOUS
  <2>2. Bad \in SUBSET Nat
    BY <1>10
  <2>3. PICK o \in Bad : \A p \in Bad : o <= p
    <3> HIDE DEF Bad
    <3>1. QED BY <2>1, <2>2, LeastNatural
  <2>4. PICK r \in V : Next1(h, r) = o
    BY <1>1, <1>2, <2>3
  <2>5. r \in Nat /\ Readable(h, r, end)
    BY <1>2, <2>4
  <2>6. r < o /\ o \in Nat
    BY <2>4, <2>5, NextOffset
  <2>7. r \in T
    BY <2>3, <2>4, <2>6
  <2>8. o \in T \cup {end}
    BY <2>4, <2>7, TileFacts
  <2>9. Readable(h, o, end)
    BY <1>2, <2>3
  <2>10. o < end
    BY <2>6, <2>9, NextOffset
  <2>11. QED BY <2>3, <2>8, <2>10
<1>5. T \subseteq V
  <2> SUFFICES ASSUME NEW o \in T, o \notin V PROVE FALSE
    OBVIOUS
  <2> DEFINE B == {r \in V : r < o}
  <2>1. o \in Nat /\ o < end /\ first <= o
    BY TileFacts
  <2>2. first \in B
    BY <1>3, <2>1
  <2>3. B \in SUBSET Nat /\ \A r \in B : r <= end
    BY <1>10
  <2>4. PICK r \in B : \A p \in B : p <= r
    <3> HIDE DEF B
    <3>1. QED BY <2>2, <2>3, GreatestNatural
  <2>5. r \in V /\ r \in T /\ r < o /\ r \in Nat
    BY <1>4, <2>3, <2>4
  <2>6. Next1(h, r) <= o
    BY <2>5 DEF Tiles
  <2>7. Next1(h, r) \in T \cup {end} /\ Next1(h, r) \in Nat /\ Next1(h, r) >= r + 12
    BY <2>5, TileFacts
  <2>8. Next1(h, r) \in T
    BY <2>1, <2>6, <2>7
  <2>9. Next1(h, r) \in V
    BY <1>2, <2>5, <2>8, TileFacts
  <2>10. Next1(h, r) < o
    BY <2>1, <2>6, <2>7, <2>9
  <2>11. Next1(h, r) \in B
    BY <2>9, <2>10
  <2>12. QED BY <2>4, <2>5, <2>7, <2>11
<1>6. c[Len(c)] \in T /\ ~Readable(h, Next1(h, c[Len(c)]), end)
  BY <1>2, <1>3, <1>4
<1>7. Next1(h, c[Len(c)]) \notin T
  BY <1>6, TileFacts
<1>8. Next1(h, c[Len(c)]) = end
  BY <1>6, <1>7, TileFacts
<1>9. QED BY <1>3, <1>4, <1>5, <1>6, <1>8 DEF c, V

-----------------------------------------------------------------------------
(* Blocks.                                                                 *)

LEMMA Multiples ==
    ASSUME NEW j \in Nat, NEW k \in Nat
    PROVE  /\ j * DirBlkSize \in Nat
           /\ (j + 1) * DirBlkSize = j * DirBlkSize + DirBlkSize
           /\ j < k => j * DirBlkSize + DirBlkSize <= k * DirBlkSize
           /\ j * DirBlkSize < k * DirBlkSize => j < k
<1>1. DirBlkSize \in Nat /\ DirBlkSize >= 24
  BY DirBlkAssumption
<1>2. \A i, l \in Nat : i <= l => i * DirBlkSize <= l * DirBlkSize
  BY <1>1
<1>3. j * DirBlkSize \in Nat /\ k * DirBlkSize \in Nat
  BY <1>1
<1>4. (j + 1) * DirBlkSize = j * DirBlkSize + DirBlkSize
  BY <1>1
<1>5. j < k => (j + 1) * DirBlkSize <= k * DirBlkSize
  BY <1>2
<1>6. j >= k => k * DirBlkSize <= j * DirBlkSize
  BY <1>2
<1>7. QED BY <1>1, <1>3, <1>4, <1>5, <1>6

\* The block an offset lies in.
LEMMA BlockOf ==
    ASSUME NEW o \in Nat
    PROVE  \E k \in Nat : /\ BlkOf(o) = k * DirBlkSize /\ BlkOf(o) \in Nat
                          /\ BlkOf(o) <= o /\ o < BlkOf(o) + DirBlkSize
<1> DEFINE k == o \div DirBlkSize
<1>1. DirBlkSize \in Nat /\ DirBlkSize >= 24
  BY DirBlkAssumption
<1>2. k \in Nat /\ DirBlkSize * k <= o /\ o < DirBlkSize * k + DirBlkSize
  BY <1>1
<1> HIDE DEF k
<1>3. DirBlkSize * k = k * DirBlkSize /\ DirBlkSize * k \in Nat
  BY <1>1, <1>2
<1>4. BlkOf(o) = DirBlkSize * k
  BY DEF BlkOf, k
<1>5. QED BY <1>2, <1>3, <1>4

\* The records of the block at b.
InBlock(T, b) == {o \in T : b <= o /\ o < b + DirBlkSize}

\* The records of a block tile it.
LEMMA BlockTiles ==
    ASSUME NEW h, NEW sz, Sized(sz), NEW T, Tiles(h, 0, sz, T), Starts(T, sz),
           NEW k \in Nat, NEW b, b = k * DirBlkSize, b < sz,
           NEW end, end = b + DirBlkSize
    PROVE  /\ b \in Nat /\ end \in Nat /\ end <= sz
           /\ Tiles(h, b, end, InBlock(T, b))
<1> DEFINE B == InBlock(T, b)
<1>1. DirBlkSize \in Nat /\ DirBlkSize >= 24 /\ MaxBlks \in Nat
  BY DirBlkAssumption
<1>2. PICK m \in 1..MaxBlks : sz = m * DirBlkSize
  BY DEF Sized
<1>3. b \in Nat /\ end \in Nat /\ sz \in Nat /\ end = (k + 1) * DirBlkSize
  BY <1>1, <1>2, Multiples
<1>4. end <= sz
  <2>1. k < m
    BY <1>2, <1>1, Multiples
  <2>2. QED BY <2>1, <1>1, <1>2, Multiples
<1>5. b \in T
  BY DEF Starts
<1>6. end = sz \/ end \in T
  <2>1. CASE end = sz
    BY <2>1
  <2>2. CASE end # sz
    <3>1. (k + 1) * DirBlkSize < sz
      BY <2>2, <1>3, <1>4
    <3>2. QED BY <3>1, <1>3 DEF Starts
  <2>3. QED BY <2>1, <2>2
<1>7. ASSUME NEW o \in B PROVE Next1(h, o) \in B \cup {end}
  <2>1. o \in T /\ o \in Nat /\ b <= o /\ o < end
    BY <1>3, <1>7, TileFacts DEF InBlock
  <2>2. /\ Next1(h, o) \in Nat /\ Next1(h, o) >= o + 12 /\ Next1(h, o) <= sz
        /\ Next1(h, o) \in T \cup {sz}
    BY <2>1, <1>3, TileFacts
  <2>3. Next1(h, o) <= end
    <3>1. CASE end = sz
      BY <3>1, <2>2
    <3>2. CASE end \in T
      BY <3>2, <2>1 DEF Tiles
    <3>3. QED BY <3>1, <3>2, <1>6
  <2>4. CASE Next1(h, o) = end
    BY <2>4
  <2>5. CASE Next1(h, o) # end
    <3>1. Next1(h, o) < end /\ Next1(h, o) >= b
      BY <2>1, <2>2, <2>3, <2>5, <1>3
    <3>2. Next1(h, o) \in T
      BY <3>1, <2>2, <1>3, <1>4
    <3>3. QED BY <3>1, <3>2 DEF InBlock
  <2>6. QED BY <2>4, <2>5
<1>8. b \in B /\ B \subseteq b..(end - 1)
  <2>1. b < end
    BY <1>1, <1>3
  <2>2. b \in B
    BY <2>1, <1>5, <1>3 DEF InBlock
  <2>3. \A o \in B : o \in Nat /\ b <= o /\ o < end
    BY <1>3, TileFacts DEF InBlock
  <2>4. B \subseteq b..(end - 1)
    BY <2>3, <1>3
  <2>5. QED BY <2>2, <2>4
<1>9. Tiles(h, b, end, B)
  <2>1. B \subseteq T
    BY DEF InBlock
  <2> HIDE DEF B
  <2>2. B \subseteq DOMAIN h
    BY <2>1 DEF Tiles
  <2>3. \A o \in B : h[o] \in Header /\ h[o].reclen >= Need(h[o].name)
    BY <2>1 DEF Tiles
  <2>4. \A o, p \in B : o < p => Next1(h, o) <= p
    BY <2>1 DEF Tiles
  <2>5. QED BY <1>7, <1>8, <2>2, <2>3, <2>4 DEF Tiles
<1>10. QED BY <1>3, <1>4, <1>9

\* So remove_dirent's walk of a block visits just its records.
LEMMA BlockVisited ==
    ASSUME NEW h, Walkable(h), NEW sz, Sized(sz), NEW T, Tiles(h, 0, sz, T),
           Starts(T, sz), NEW k \in Nat, NEW b, b = k * DirBlkSize, b < sz
    PROVE  LET c == Chain(h, b, b + DirBlkSize)
           IN  /\ BlkChain(h, b) = InBlock(T, b) /\ ElemsOf(c) = InBlock(T, b)
               /\ c # <<>> /\ c[Len(c)] \in T /\ Next1(h, c[Len(c)]) = b + DirBlkSize
<1> DEFINE end == b + DirBlkSize
           c == Chain(h, b, end)
<1>0. end = b + DirBlkSize
  OBVIOUS
<1>1. BlkChain(h, b) = ElemsOf(c)
  BY DEF BlkChain
<1> HIDE DEF end
<1>2. b \in Nat /\ end \in Nat /\ Tiles(h, b, end, InBlock(T, b))
  BY <1>0, BlockTiles
<1>3. /\ ElemsOf(c) = InBlock(T, b) /\ c # <<>>
      /\ c[Len(c)] \in InBlock(T, b) /\ Next1(h, c[Len(c)]) = end
  BY <1>2, TilesVisited
<1>4. InBlock(T, b) \subseteq T
  BY DEF InBlock
<1> HIDE DEF c
<1>5. QED BY <1>1, <1>3, <1>4 DEF end, c

-----------------------------------------------------------------------------
(* The listing.                                                            *)

\* s lists each record of V once.
ListOf(h, s, V) ==
    /\ s \in Seq({Entry(h, p) : p \in DOMAIN h})
    /\ ElemsOf(s) = {Entry(h, p) : p \in V}
    /\ IsFiniteSet(V) /\ Len(s) = Cardinality(V)

LEMMA ListOfCons ==
    ASSUME NEW h, NEW s, NEW V, ListOf(h, s, V), NEW o \in DOMAIN h, o \notin V
    PROVE  ListOf(h, <<Entry(h, o)>> \o s, V \cup {o})
<1> DEFINE S == {Entry(h, p) : p \in DOMAIN h}
           e == Entry(h, o)
<1>1. s \in Seq(S) /\ e \in S
  BY DEF ListOf
<1> HIDE DEF S, e
<1>2. <<e>> \o s \in Seq(S) /\ Len(<<e>> \o s) = Len(s) + 1 /\ ElemsOf(<<e>> \o s) = {e} \cup ElemsOf(s)
  BY <1>1, Cons
<1>3. IsFiniteSet(V \cup {o}) /\ Cardinality(V \cup {o}) = Cardinality(V) + 1
  BY FS_AddElement DEF ListOf
<1>4. {Entry(h, p) : p \in V \cup {o}} = {e} \cup {Entry(h, p) : p \in V}
  BY DEF e
<1>5. Len(<<e>> \o s) = Cardinality(V \cup {o})
  BY <1>2, <1>3 DEF ListOf
<1>6. ElemsOf(<<e>> \o s) = {Entry(h, p) : p \in V \cup {o}}
  BY <1>2, <1>4 DEF ListOf
<1>7. ListOf(h, <<e>> \o s, V \cup {o})
  BY <1>2, <1>3, <1>5, <1>6 DEF ListOf, S
<1>8. QED BY <1>7 DEF e

LEMMA ListWalks ==
    ASSUME NEW h, Walkable(h), NEW end \in Nat
    PROVE  \A o \in 0..end :
              ListOf(h, ListFrom(h, end)[o],
                     {p \in ElemsOf(ChainFrom(h, 0, end)[o]) : Live(h, p)})
<1> DEFINE f == ListFrom(h, end)
           g == ChainFrom(h, 0, end)
           L(o) == {p \in ElemsOf(g[o]) : Live(h, p)}
           S == {o \in 0..end : ListOf(h, f[o], L(o))}
<1>1. Lists(f, h, end) /\ Chains(g, h, 0, end)
  BY ListEquation, ChainEquation
<1>2. \A o \in 0..end : WalkOf(h, end, o, g[o])
  BY ChainWalks
<1> HIDE DEF f, g
<1>3. ASSUME NEW o \in 0..end, \A p \in (o + 1)..end : p \in S PROVE o \in S
  <2>0. o \in Nat
    OBVIOUS
  <2>1. CASE ~Readable(h, o, end)
    <3>1. f[o] = <<>> /\ g[o] = <<>>
      BY <1>1, <2>1 DEF Chains, Lists
    <3>2. ElemsOf(<<>>) = {}
      BY DEF ElemsOf
    <3>3. L(o) = {}
      BY <3>1, <3>2
    <3> HIDE DEF L
    <3>4. IsFiniteSet({}) /\ Cardinality({}) = 0
      BY FS_EmptySet
    <3>5. <<>> \in Seq({Entry(h, p) : p \in DOMAIN h}) /\ Len(<<>>) = 0
      OBVIOUS
    <3>6. ElemsOf(f[o]) = {Entry(h, p) : p \in L(o)}
      BY <3>1, <3>2, <3>3
    <3>7. ListOf(h, f[o], L(o))
      BY <3>1, <3>3, <3>4, <3>5, <3>6 DEF ListOf
    <3>8. QED BY <3>7
  <2>2. CASE Readable(h, o, end)
    <3> DEFINE n == Next1(h, o)
    <3>1. n \in (o + 1)..end /\ n \in Nat
      BY <2>0, <2>2, NextOffset
    <3>2. ListOf(h, f[n], L(n)) /\ n \in 0..end
      BY <1>3, <3>1
    <3>3. WalkOf(h, end, n, g[n])
      BY <1>2, <3>2
    <3>4. g[o] = <<o>> \o g[n]
      BY <1>1, <2>2 DEF Chains
    <3>5. f[o] = (IF Live(h, o) THEN <<Entry(h, o)>> ELSE <<>>) \o f[n]
      BY <1>1, <2>2 DEF Lists
    <3> HIDE DEF n
    <3>6. g[n] \in Seq(Nat)
      BY <3>3 DEF WalkOf
    <3>7. ElemsOf(g[o]) = {o} \cup ElemsOf(g[n])
      BY <3>4, <3>6, <2>0, Cons
    <3>8. o \notin ElemsOf(g[n])
      <4>1. ASSUME NEW k \in DOMAIN g[n] PROVE g[n][k] # o
        <5>1. k \in 1..Len(g[n])
          BY <3>6
        <5>2. g[n][k] \in n..end
          BY <5>1, <3>3 DEF WalkOf
        <5>3. QED BY <5>2, <3>1
      <4>2. QED BY <4>1 DEF ElemsOf
    <3>9. o \in DOMAIN h
      BY <2>2 DEF Readable
    <3>10. CASE Live(h, o)
      <4>1. L(o) = L(n) \cup {o} /\ o \notin L(n)
        BY <3>7, <3>8, <3>10
      <4>2. f[o] = <<Entry(h, o)>> \o f[n]
        BY <3>5, <3>10
      <4> HIDE DEF L
      <4>3. ListOf(h, f[o], L(o))
        BY <3>2, <3>9, <4>1, <4>2, ListOfCons
      <4>4. QED BY <4>3
    <3>11. CASE ~Live(h, o)
      <4>1. L(o) = L(n)
        BY <3>7, <3>11
      <4>2. f[o] = f[n]
        <5>1. f[n] \in Seq({Entry(h, p) : p \in DOMAIN h})
          BY <3>2 DEF ListOf
        <5> DEFINE s == f[n]
        <5>2. s \in Seq({Entry(h, p) : p \in DOMAIN h}) /\ f[o] = <<>> \o s
          BY <3>5, <3>11, <5>1
        <5> HIDE DEF s
        <5>3. <<>> \o s = s
          BY <5>2
        <5>4. QED BY <5>2, <5>3 DEF s
      <4> HIDE DEF L
      <4>3. QED BY <3>2, <4>1, <4>2
    <3>12. QED BY <3>10, <3>11
  <2>3. QED BY <2>1, <2>2
<1>4. 0..end \subseteq S
  <2> HIDE DEF S
  <2>1. QED BY <1>3, Downward
<1>5. QED BY <1>4 DEF f, g

\* The listing is that of the live records of the walk.
LEMMA ListFacts ==
    ASSUME NEW h, Walkable(h), NEW end \in Nat
    PROVE  ListOf(h, Listing(h, end), {p \in Visited(h, end) : Live(h, p)})
<1>1. Listing(h, end) = ListFrom(h, end)[0]
  BY ListEquation
<1>2. Chain(h, 0, end) = ChainFrom(h, 0, end)[0]
  BY ChainEquation
<1>3. 0 \in 0..end
  OBVIOUS
<1>4. ListOf(h, ListFrom(h, end)[0], {p \in ElemsOf(ChainFrom(h, 0, end)[0]) : Live(h, p)})
  BY <1>3, ListWalks
<1>5. QED BY <1>1, <1>2, <1>4 DEF Visited

-----------------------------------------------------------------------------
(* What the writes change.                                                 *)

Inos == Inodes \cup Parents \cup {0, Self}

\* g is h with another inode number, or another length, in the header at o.
Relabels(g, h, o, ino) ==
    /\ DOMAIN g = DOMAIN h
    /\ \A x \in DOMAIN h : x # o => g[x] = h[x]
    /\ \A x \in DOMAIN h : g[x].reclen = h[x].reclen /\ g[x].name = h[x].name
    /\ g[o] \in Header /\ g[o].ino = ino
Resizes(g, h, o, len) ==
    /\ DOMAIN g = DOMAIN h
    /\ \A x \in DOMAIN h : x # o => g[x] = h[x]
    /\ \A x \in DOMAIN h : g[x].ino = h[x].ino /\ g[x].name = h[x].name
    /\ g[o] \in Header /\ g[o].reclen = len
\* g is h with len bytes from o on cleared, and a header there.
Writes(g, h, o, len, n, ino) ==
    /\ \A y : y \in DOMAIN g <=> y = o \/ (y \in DOMAIN h /\ (y < o \/ y >= o + len))
    /\ \A x \in DOMAIN g : x # o => g[x] = h[x]
    /\ g[o] \in Header
    /\ g[o].reclen = len /\ g[o].name = n /\ g[o].ino = ino

LEMMA SetInoFacts ==
    ASSUME NEW h, NEW o \in DOMAIN h, h[o] \in Header, NEW ino \in Inos
    PROVE  Relabels(SetIno(h, o, ino), h, o, ino)
BY DEF Relabels, SetIno, Header, Inos

LEMMA SetReclenFacts ==
    ASSUME NEW h, NEW o \in DOMAIN h, h[o] \in Header, NEW len \in Nat
    PROVE  Resizes(SetReclen(h, o, len), h, o, len)
BY DEF Resizes, SetReclen, Header

LEMMA WriteDirentFacts ==
    ASSUME NEW h, NEW o, NEW len \in Nat, NEW n \in Names \cup {Dot, DotDot}, NEW ino \in Inos
    PROVE  Writes(WriteDirent(h, o, len, n, ino), h, o, len, n, ino)
<1>1. [ino |-> ino, reclen |-> len, name |-> n] \in Header
  BY DEF Header, Inos
<1>2. QED BY <1>1 DEF WriteDirent, Writes

\* An inode number is written over another.
LEMMA TilesSetIno ==
    ASSUME NEW h, NEW first \in Nat, NEW end \in Nat, NEW T, Tiles(h, first, end, T),
           NEW o \in T, NEW ino \in Inos
    PROVE  Tiles(SetIno(h, o, ino), first, end, T)
<1> DEFINE g == SetIno(h, o, ino)
<1>1. o \in DOMAIN h /\ h[o] \in Header
  BY TileFacts
<1>2. Relabels(g, h, o, ino)
  BY <1>1, SetInoFacts
<1> HIDE DEF g
<1>3. T \subseteq DOMAIN h
  BY DEF Tiles
<1>4. \A x \in T : Next1(g, x) = Next1(h, x)
  BY <1>2, <1>3 DEF Next1, Relabels
<1>5. \A x \in T : g[x] \in Header /\ g[x].reclen >= Need(g[x].name)
  BY <1>2, <1>3 DEF Tiles, Relabels
<1>6. QED BY <1>2, <1>3, <1>4, <1>5 DEF Tiles, Relabels, g

\* The record at p swallows the record at o that follows it.
LEMMA TilesMerge ==
    ASSUME NEW h, NEW first \in Nat, NEW end \in Nat, NEW T, Tiles(h, first, end, T),
           NEW o \in T, NEW p \in T, Next1(h, p) = o
    PROVE  Tiles(SetReclen(h, p, h[p].reclen + h[o].reclen), first, end, T \ {o})
<1> DEFINE len == h[p].reclen + h[o].reclen
           g == SetReclen(h, p, len)
           U == T \ {o}
<1>1. /\ p \in DOMAIN h /\ h[p] \in Header /\ h[p].reclen \in Nat /\ h[o].reclen \in Nat
      /\ p \in Nat /\ o \in Nat /\ p < o /\ first <= p
      /\ Next1(h, p) = p + h[p].reclen /\ Next1(h, o) = o + h[o].reclen
      /\ Next1(h, o) >= o + 12 /\ Next1(h, o) \in T \cup {end}
      /\ Need(h[p].name) \in Nat /\ h[p].reclen >= Need(h[p].name)
  <2>1. Next1(h, p) >= p + 12
    BY TileFacts
  <2>2. QED BY <2>1, TileFacts
<1>2. len \in Nat
  BY <1>1
<1> HIDE DEF len
<1>3. Resizes(g, h, p, len)
  BY <1>1, <1>2, SetReclenFacts
<1> HIDE DEF g
<1>4. T \subseteq DOMAIN h
  BY DEF Tiles
<1>5. Next1(g, p) = Next1(h, o) /\ \A x \in T : x # p => Next1(g, x) = Next1(h, x)
  <2>1. Next1(g, p) = p + len /\ p + len = Next1(h, o)
    BY <1>1, <1>3 DEF Next1, len, Resizes
  <2>2. \A x \in T : x # p => Next1(g, x) = Next1(h, x)
    BY <1>3, <1>4 DEF Next1, Resizes
  <2>3. QED BY <2>1, <2>2
<1>6. first \in U /\ U \subseteq first..(end - 1) /\ U \subseteq DOMAIN g
  <2>1. first # o
    BY <1>1
  <2>2. first \in T /\ T \subseteq first..(end - 1)
    BY DEF Tiles
  <2>3. first \in U /\ U \subseteq first..(end - 1)
    BY <2>1, <2>2
  <2>4. U \subseteq DOMAIN g
    BY <1>3, <1>4 DEF Resizes
  <2>5. QED BY <2>3, <2>4
<1>7. \A x \in U : g[x] \in Header /\ g[x].reclen >= Need(g[x].name)
  <2>1. g[p].reclen >= Need(g[p].name)
    <3>1. g[p].name = h[p].name
      BY <1>1, <1>3 DEF Resizes
    <3>2. len >= Need(h[p].name)
      BY <1>1 DEF len
    <3>3. QED BY <3>1, <3>2, <1>3 DEF Resizes
  <2>2. SUFFICES ASSUME NEW x \in U, x # p
                 PROVE  g[x] \in Header /\ g[x].reclen >= Need(g[x].name)
    BY <1>3, <2>1 DEF Resizes
  <2>3. g[x] = h[x] /\ x \in T
    BY <1>3, <1>4, <2>2 DEF Resizes
  <2>4. QED BY <2>3 DEF Tiles
<1>8. ASSUME NEW x \in U PROVE Next1(g, x) \in U \cup {end}
  <2>1. CASE x = p
    <3>1. Next1(h, o) # o
      BY <1>1
    <3>2. QED BY <3>1, <2>1, <1>1, <1>5
  <2>2. CASE x # p
    <3>1. Next1(g, x) = Next1(h, x) /\ x \in T /\ x # o
      BY <2>2, <1>5
    <3>2. Next1(h, x) # o
      <4>1. x \in Nat /\ (x < p => Next1(h, x) <= p) /\ (p < x => Next1(h, p) <= x)
        BY <3>1, TileFacts DEF Tiles
      <4>2. Next1(h, x) >= x + 12 /\ Next1(h, x) \in Nat
        BY <3>1, TileFacts
      <4>3. QED BY <2>2, <4>1, <4>2, <1>1
    <3>3. QED BY <3>1, <3>2 DEF Tiles
  <2>3. QED BY <2>1, <2>2
<1>9. ASSUME NEW x \in U, NEW y \in U, x < y PROVE Next1(g, x) <= y
  <2>1. Next1(h, x) <= y /\ x \in Nat /\ y \in Nat
    BY <1>9, TileFacts DEF Tiles
  <2>2. CASE x = p
    <3>1. o < y
      BY <2>1, <2>2, <1>1
    <3>2. Next1(h, o) <= y
      BY <3>1 DEF Tiles
    <3>3. QED BY <3>2, <2>2, <1>5
  <2>3. CASE x # p
    BY <2>1, <2>3, <1>5
  <2>4. QED BY <2>2, <2>3
<1>10. Tiles(g, first, end, U)
  <2> HIDE DEF U
  <2>1. QED BY <1>6, <1>7, <1>8, <1>9 DEF Tiles
<1>11. QED BY <1>10 DEF g, len, U

\* A header written over the record at o, as long as it.
LEMMA TilesRewrite ==
    ASSUME NEW h, NEW first \in Nat, NEW end \in Nat, NEW T, Tiles(h, first, end, T),
           NEW o \in T, NEW n \in Names \cup {Dot, DotDot}, NEW ino \in Inos,
           h[o].reclen >= Need(n)
    PROVE  LET g == WriteDirent(h, o, h[o].reclen, n, ino)
           IN  /\ Tiles(g, first, end, T)
               /\ \A x \in T \ {o} : g[x] = h[x]
               /\ g[o].name = n /\ g[o].ino = ino /\ g[o].reclen = h[o].reclen
<1> DEFINE g == WriteDirent(h, o, h[o].reclen, n, ino)
<1>1. h[o].reclen \in Nat /\ o \in Nat /\ Next1(h, o) = o + h[o].reclen
  BY TileFacts
<1>2. Writes(g, h, o, h[o].reclen, n, ino)
  BY <1>1, WriteDirentFacts
<1> HIDE DEF g
<1>3. \A x \in T : x \in Nat /\ (x < o \/ x = o \/ x >= Next1(h, o))
  BY <1>1, TileFacts DEF Tiles
<1>4. T \subseteq DOMAIN g
  <2>1. T \subseteq DOMAIN h
    BY DEF Tiles
  <2>2. QED BY <2>1, <1>1, <1>2, <1>3 DEF Writes
<1>5. \A x \in T \ {o} : g[x] = h[x]
  BY <1>2, <1>4 DEF Writes
<1>6. \A x \in T : Next1(g, x) = Next1(h, x)
  BY <1>2, <1>5 DEF Next1, Writes
<1>7. \A x \in T : g[x] \in Header /\ g[x].reclen >= Need(g[x].name)
  BY <1>2, <1>5 DEF Tiles, Writes
<1>8. Tiles(g, first, end, T)
  BY <1>4, <1>6, <1>7 DEF Tiles
<1>9. QED BY <1>2, <1>5, <1>8 DEF g, Writes

\* The record at o is cut, and a new one has the rest of its bytes.
CutTo(h, end, T, U, o, n, ino, cut, q, rest, g) ==
    /\ Tiles(h, 0, end, T) /\ end \in Nat /\ o \in T /\ U = T \cup {q}
    /\ cut \in Nat /\ cut >= Need(h[o].name) /\ q = o + cut
    /\ rest = h[o].reclen - cut /\ rest >= Need(n)
    /\ n \in Names \cup {Dot, DotDot} /\ ino \in Inos
    /\ g = WriteDirent(SetReclen(h, o, cut), q, rest, n, ino)

LEMMA TilesSplit ==
    ASSUME NEW h, NEW end, NEW T, NEW U, NEW o, NEW n, NEW ino, NEW cut, NEW q, NEW rest, NEW g,
           CutTo(h, end, T, U, o, n, ino, cut, q, rest, g)
    PROVE  /\ q \notin T /\ q > o
           /\ Tiles(g, 0, end, U) /\ U = T \cup {q}
           /\ \A x \in T \ {o} : g[x] = h[x]
           /\ g[o].name = h[o].name /\ g[o].ino = h[o].ino
           /\ g[q].name = n /\ g[q].ino = ino
<1> DEFINE f == SetReclen(h, o, cut)
           first == 0
<1>0. /\ U = T \cup {q}
      /\ first \in Nat /\ end \in Nat /\ Tiles(h, first, end, T) /\ o \in T
      /\ cut \in Nat /\ cut >= Need(h[o].name) /\ q = o + cut
      /\ rest = h[o].reclen - cut /\ rest >= Need(n)
      /\ n \in Names \cup {Dot, DotDot} /\ ino \in Inos
      /\ g = WriteDirent(f, q, rest, n, ino)
  BY DEF CutTo
<1> HIDE DEF first
<1>1. /\ o \in DOMAIN h /\ h[o] \in Header /\ h[o].reclen \in Nat /\ o \in Nat
      /\ first <= o /\ Next1(h, o) = o + h[o].reclen /\ Next1(h, o) <= end
      /\ Next1(h, o) \in T \cup {end} /\ Need(h[o].name) \in Nat /\ Need(h[o].name) >= 12
  BY <1>0, TileFacts
<1>2. Need(n) \in Nat /\ Need(n) >= 12
  BY <1>0, NeedFacts
<1>3. /\ rest \in Nat /\ rest >= 12 /\ q \in Nat /\ o + 12 <= q /\ q + 12 <= Next1(h, o)
      /\ q + rest = Next1(h, o) /\ cut >= 12 /\ q = o + cut /\ rest >= Need(n)
  BY <1>0, <1>1, <1>2
<1>4. \A x \in T : x \in Nat /\ (x < o \/ x = o \/ x >= Next1(h, o))
  BY <1>0, TileFacts DEF Tiles
<1>5. q \notin T
  BY <1>3, <1>4, <1>1
<1>6. Resizes(f, h, o, cut)
  BY <1>0, <1>1, SetReclenFacts
<1> HIDE DEF f
<1>7. Writes(g, f, q, rest, n, ino)
  BY <1>0, <1>3, WriteDirentFacts
<1>8. T \subseteq DOMAIN h /\ T \subseteq DOMAIN g
  <2>1. T \subseteq DOMAIN h
    BY <1>0 DEF Tiles
  <2>2. \A x \in T : x < q \/ x >= q + rest
    BY <1>1, <1>3, <1>4
  <2>3. QED BY <2>1, <2>2, <1>6, <1>7 DEF Resizes, Writes
<1>9. \A x \in T : x # q /\ g[x] = f[x]
  BY <1>5, <1>7, <1>8 DEF Writes
<1>10. \A x \in T \ {o} : g[x] = h[x]
  BY <1>6, <1>8, <1>9 DEF Resizes
<1>11. g[o] = f[o] /\ f[o].name = h[o].name /\ f[o].ino = h[o].ino
  BY <1>0, <1>1, <1>6, <1>9 DEF Resizes
<1>12. /\ Next1(g, o) = q /\ Next1(g, q) = Next1(h, o)
       /\ \A x \in T \ {o} : Next1(g, x) = Next1(h, x)
  BY <1>3, <1>6, <1>7, <1>10, <1>11 DEF Next1, Resizes, Writes
<1>13. first \in U /\ U \subseteq first..(end - 1) /\ U \subseteq DOMAIN g
  <2>1. q \in first..(end - 1)
    BY <1>0, <1>1, <1>3
  <2>2. first \in T /\ T \subseteq first..(end - 1)
    BY <1>0 DEF Tiles
  <2>3. q \in DOMAIN g
    BY <1>7 DEF Writes
  <2>4. QED BY <1>0, <1>8, <2>1, <2>2, <2>3
<1>14. \A x \in U : g[x] \in Header /\ g[x].reclen >= Need(g[x].name)
  <2>1. g[q] \in Header /\ g[q].reclen >= Need(g[q].name)
    BY <1>3, <1>7 DEF Writes
  <2>2. g[o] \in Header /\ g[o].reclen >= Need(g[o].name)
    BY <1>0, <1>6, <1>11 DEF Resizes
  <2>3. \A x \in T \ {o} : g[x] \in Header /\ g[x].reclen >= Need(g[x].name)
    BY <1>0, <1>10 DEF Tiles
  <2>4. QED BY <1>0, <2>1, <2>2, <2>3
<1>15. \A x \in U : Next1(g, x) \in U \cup {end}
  <2>1. \A x \in T \ {o} : Next1(h, x) \in T \cup {end}
    BY <1>0 DEF Tiles
  <2>2. QED BY <1>0, <1>1, <1>12, <2>1
<1>16. ASSUME NEW x \in U, NEW y \in U, x < y PROVE Next1(g, x) <= y
  <2>1. CASE x = q
    <3>1. y \in T /\ y > o
      BY <1>0, <1>16, <2>1, <1>1, <1>3, <1>4
    <3>2. Next1(h, o) <= y
      BY <1>0, <3>1 DEF Tiles
    <3>3. QED BY <3>2, <2>1, <1>12
  <2>2. CASE x = o
    <3>1. CASE y = q
      BY <3>1, <2>2, <1>3, <1>12
    <3>2. CASE y # q
      <4>1. y \in T /\ y \in Nat
        BY <1>0, <3>2, <1>4
      <4>2. Next1(h, o) <= y
        BY <1>0, <4>1, <1>16, <2>2 DEF Tiles
      <4>3. QED BY <4>1, <4>2, <2>2, <1>1, <1>3, <1>12
    <3>3. QED BY <3>1, <3>2
  <2>3. CASE x # q /\ x # o
    <3>1. x \in T \ {o} /\ x \in Nat /\ Next1(g, x) = Next1(h, x)
      BY <1>0, <2>3, <1>4, <1>12
    <3>2. CASE y = q
      <4>1. x < o
        BY <3>1, <3>2, <1>16, <2>3, <1>1, <1>3, <1>4
      <4>2. Next1(h, x) <= o /\ Next1(h, x) \in Nat
        BY <4>1, <3>1, <1>0, TileFacts DEF Tiles
      <4>3. QED BY <4>2, <3>1, <3>2, <1>1, <1>3
    <3>3. CASE y # q
      BY <1>0, <3>1, <3>3, <1>16 DEF Tiles
    <3>4. QED BY <3>2, <3>3
  <2>4. QED BY <1>0, <2>1, <2>2, <2>3
<1>17. Tiles(g, first, end, U)
  <2>1. QED BY <1>0, <1>13, <1>14, <1>15, <1>16 DEF Tiles
<1>18. q > o
  BY <1>1, <1>3
<1>19. QED BY <1>0, <1>5, <1>6, <1>7, <1>10, <1>11, <1>17, <1>18 DEF first, Resizes, Writes

\* A record is added at the end.
GrowBy(h, end, T, U, len, n, ino, g) ==
    /\ Tiles(h, 0, end, T) /\ end \in Nat /\ U = T \cup {end}
    /\ \A y \in DOMAIN h : y \in Nat /\ y < end
    /\ len \in Nat /\ n \in Names \cup {Dot, DotDot} /\ ino \in Inos /\ len >= Need(n)
    /\ g = WriteDirent(h, end, len, n, ino)

LEMMA TilesGrow ==
    ASSUME NEW h, NEW end, NEW T, NEW U, NEW len, NEW n, NEW ino, NEW g,
           GrowBy(h, end, T, U, len, n, ino, g)
    PROVE  /\ end \notin T /\ U = T \cup {end}
           /\ Tiles(g, 0, end + len, U)
           /\ \A x \in T : g[x] = h[x]
           /\ g[end].name = n /\ g[end].ino = ino
<1> DEFINE first == 0
<1>0. /\ Tiles(h, first, end, T) /\ first \in Nat /\ end \in Nat /\ U = T \cup {end}
      /\ \A y \in DOMAIN h : y \in Nat /\ y < end
      /\ len \in Nat /\ n \in Names \cup {Dot, DotDot} /\ ino \in Inos /\ len >= Need(n)
      /\ g = WriteDirent(h, end, len, n, ino)
  BY DEF GrowBy
<1> HIDE DEF first
<1>1. Need(n) \in Nat /\ Need(n) >= 12
  BY <1>0, NeedFacts
<1>2. Writes(g, h, end, len, n, ino)
  BY <1>0, WriteDirentFacts
<1>3. /\ T \subseteq DOMAIN h /\ first \in T /\ first < end
      /\ \A x \in T : x \in Nat /\ first <= x /\ x < end
  BY <1>0, TileFacts DEF Tiles
<1>4. T \subseteq DOMAIN g /\ end \in DOMAIN g /\ end \notin T
  BY <1>0, <1>2, <1>3 DEF Writes
<1>5. \A x \in T : g[x] = h[x]
  BY <1>0, <1>2, <1>4 DEF Writes
<1>6. Next1(g, end) = end + len /\ \A x \in T : Next1(g, x) = Next1(h, x)
  BY <1>0, <1>2, <1>5 DEF Next1, Writes
<1>7. first \in U /\ U \subseteq first..(end + len - 1) /\ U \subseteq DOMAIN g
  BY <1>0, <1>1, <1>3, <1>4
<1>8. \A x \in U : g[x] \in Header /\ g[x].reclen >= Need(g[x].name)
  BY <1>0, <1>2, <1>5 DEF Tiles, Writes
<1>9. \A x \in U : Next1(g, x) \in U \cup {end + len}
  <2>1. \A x \in T : Next1(h, x) \in T \cup {end}
    BY <1>0 DEF Tiles
  <2>2. QED BY <1>0, <2>1, <1>6
<1>10. ASSUME NEW x \in U, NEW y \in U, x < y PROVE Next1(g, x) <= y
  <2>1. x \in T
    BY <1>0, <1>3, <1>10
  <2>2. CASE y = end
    BY <1>0, <2>1, <2>2, <1>6, TileFacts
  <2>3. CASE y # end
    BY <1>0, <2>1, <2>3, <1>6, <1>10 DEF Tiles
  <2>4. QED BY <1>0, <2>2, <2>3
<1>11. Tiles(g, first, end + len, U)
  <2>1. QED BY <1>0, <1>7, <1>8, <1>9, <1>10 DEF Tiles
<1>12. QED BY <1>0, <1>2, <1>4, <1>5, <1>11 DEF first, Writes

-----------------------------------------------------------------------------
(* A directory that is sound.                                              *)

Directory(h, sz, T, ents, up) ==
    /\ Bytes(h, sz)
    /\ DOMAIN ents \subseteq Names /\ ents \in [DOMAIN ents -> Inodes] /\ up \in Parents
    /\ Sound(h, sz, T, ents, up)

LEMMA BytesFacts ==
    ASSUME NEW h, NEW sz, Bytes(h, sz)
    PROVE  /\ Walkable(h) /\ sz \in Nat /\ sz >= DirBlkSize /\ sz \div DirBlkSize \in Nat
           /\ \A k \in Nat : k * DirBlkSize < sz <=> k \in 0..(sz \div DirBlkSize - 1)
<1>1. DirBlkSize \in Nat /\ DirBlkSize >= 24 /\ MaxBlks \in Nat
  BY DirBlkAssumption
<1>2. PICK m \in 1..MaxBlks : sz = m * DirBlkSize
  BY DEF Bytes, Sized
<1>3. m \in Nat /\ m >= 1 /\ sz \in Nat
  BY <1>1, <1>2, Multiples
<1>4. sz \div DirBlkSize = m
  BY <1>1, <1>2, <1>3
<1>5. sz >= DirBlkSize
  BY <1>1, <1>2, <1>3
<1>6. Walkable(h)
  BY DEF Bytes, Header, Walkable
<1>7. ASSUME NEW k \in Nat PROVE k * DirBlkSize < sz <=> k \in 0..(m - 1)
  <2>1. k * DirBlkSize < m * DirBlkSize => k < m
    BY <1>3, Multiples
  <2>2. k < m => k * DirBlkSize + DirBlkSize <= m * DirBlkSize
    BY <1>3, Multiples
  <2>3. k * DirBlkSize \in Nat /\ m * DirBlkSize \in Nat
    BY <1>3, Multiples
  <2>4. k * DirBlkSize < m * DirBlkSize <=> k < m
    BY <1>1, <2>1, <2>2, <2>3
  <2>5. QED BY <1>2, <1>3, <2>4
<1>8. QED BY <1>3, <1>4, <1>5, <1>6, <1>7

\* The walks of the blocks visit all the records.
LEMMA BlockUnion ==
    ASSUME NEW h, NEW sz, Bytes(h, sz), NEW T, Tiles(h, 0, sz, T), Starts(T, sz)
    PROVE  UNION {BlkChain(h, k * DirBlkSize) : k \in 0..(sz \div DirBlkSize - 1)} = T
<1>1. /\ Walkable(h) /\ sz \in Nat /\ sz \div DirBlkSize \in Nat /\ Sized(sz)
      /\ \A k \in Nat : k * DirBlkSize < sz <=> k \in 0..(sz \div DirBlkSize - 1)
  BY BytesFacts DEF Bytes
<1> DEFINE K == 0..(sz \div DirBlkSize - 1)
<1>2. ASSUME NEW k \in K PROVE BlkChain(h, k * DirBlkSize) = InBlock(T, k * DirBlkSize)
  <2>1. k \in Nat
    BY <1>1
  <2>2. k * DirBlkSize < sz
    BY <2>1, <1>1
  <2>3. QED BY <1>1, <2>1, <2>2, BlockVisited
<1>3. ASSUME NEW o \in T PROVE \E k \in K : o \in InBlock(T, k * DirBlkSize)
  <2>1. o \in Nat /\ o < sz
    BY <1>1, TileFacts
  <2>2. PICK k \in Nat : /\ BlkOf(o) = k * DirBlkSize /\ BlkOf(o) \in Nat
                         /\ BlkOf(o) <= o /\ o < BlkOf(o) + DirBlkSize
    BY <2>1, BlockOf
  <2>3. k * DirBlkSize < sz
    BY <1>1, <2>1, <2>2
  <2>4. k \in K
    BY <1>1, <2>3
  <2>5. o \in InBlock(T, k * DirBlkSize)
    BY <2>2 DEF InBlock
  <2>6. QED BY <2>4, <2>5
<1>4. \A k \in K : InBlock(T, k * DirBlkSize) \subseteq T
  BY DEF InBlock
<1> HIDE DEF K
<1>5. UNION {BlkChain(h, k * DirBlkSize) : k \in K} = T
  BY <1>2, <1>3, <1>4
<1>6. QED BY <1>5 DEF K

LEMMA DirectoryFacts ==
    ASSUME NEW h, NEW sz, NEW T, NEW ents, NEW up, Directory(h, sz, T, ents, up)
    PROVE  /\ Walkable(h) /\ sz \in Nat /\ sz >= DirBlkSize /\ Tiles(h, 0, sz, T)
           /\ Visited(h, sz) = T
           /\ 0 \in T /\ 12 \in T /\ h[0].ino = Self /\ h[0].name = Dot /\ h[0].reclen = 12
           /\ h[12].ino = up /\ h[12].name = DotDot
           /\ Live(h, 0) /\ Live(h, 12)
           /\ Holders(h, T) \subseteq T
           /\ \A o \in Holders(h, T) :
                 h[o].name \in Names /\ h[o].name \in DOMAIN ents /\ h[o].ino = ents[h[o].name]
           /\ \A o \in T : Live(h, o) <=> o \in Holders(h, T) \cup {0, 12}
<1>1. Bytes(h, sz) /\ Tiles(h, 0, sz, T) /\ DotsFirst(h, T, up) /\ Holds(h, T, ents)
  BY DEF Directory, Sound
<1>2. Walkable(h) /\ sz \in Nat /\ sz >= DirBlkSize
  BY <1>1, BytesFacts
<1>3. Visited(h, sz) = T
  BY <1>1, <1>2, TilesVisited DEF Visited
<1>4. /\ 0 \in T /\ 12 \in T /\ h[0].ino = Self /\ h[0].name = Dot /\ h[0].reclen = 12
      /\ h[12].ino = up /\ h[12].name = DotDot
  BY <1>1 DEF Tiles, DotsFirst
<1>5. Self # 0 /\ up # 0
  BY DirBlkAssumption DEF Directory
<1>6. Live(h, 0) /\ Live(h, 12)
  BY <1>4, <1>5 DEF Live
<1>7. Holders(h, T) \subseteq T /\ \A o \in T : Live(h, o) <=> o \in Holders(h, T) \cup {0, 12}
  BY <1>6 DEF Holders
<1>8. \A o \in Holders(h, T) :
         h[o].name \in Names /\ h[o].name \in DOMAIN ents /\ h[o].ino = ents[h[o].name]
  BY <1>1 DEF Holds, Directory
<1>9. QED BY <1>1, <1>2, <1>3, <1>4, <1>6, <1>7, <1>8

\* The record remove_dirent finds for an entry is the one that holds it.
LEMMA MatchesFacts ==
    ASSUME NEW h, NEW sz, NEW T, NEW ents, NEW up, Directory(h, sz, T, ents, up),
           NEW n \in DOMAIN ents
    PROVE  /\ FirstOf(Matches(h, sz, n)) \in Holders(h, T)
           /\ h[FirstOf(Matches(h, sz, n))].name = n
           /\ Matches(h, sz, n) # {}
<1> DEFINE M == Matches(h, sz, n)
<1>1. M = {o \in T : Live(h, o) /\ h[o].name = n}
  BY BlockUnion DEF Matches, Directory, Sound
<1>2. PICK o \in Holders(h, T) : h[o].name = n
  BY DEF Directory, Sound, Holds
<1>3. n \in Names
  BY DEF Directory
<1>4. ASSUME NEW p \in M PROVE p \in Holders(h, T) /\ h[p].name = n
  <2>1. p \in T /\ Live(h, p) /\ h[p].name = n
    BY <1>1, <1>4
  <2>2. p \in Holders(h, T) \cup {0, 12} /\ h[0].name = Dot /\ h[12].name = DotDot
    BY <2>1, DirectoryFacts
  <2>3. p \notin {0, 12}
    BY <2>1, <2>2, <1>3, NeedFacts
  <2>4. QED BY <2>1, <2>2, <2>3
<1>5. o \in M
  BY <1>1, <1>2, DirectoryFacts DEF Holders
<1> HIDE DEF M
<1>6. M = {o}
  <2>1. \A p \in M : p = o
    BY <1>2, <1>4 DEF Directory, Sound, Holds
  <2>2. QED BY <2>1, <1>5
<1>7. o \in Nat
  BY DirectoryFacts, TileFacts
<1>8. FirstOf(M) = o
  BY <1>6, <1>7 DEF FirstOf
<1>9. QED BY <1>2, <1>5, <1>8 DEF M

-----------------------------------------------------------------------------
(* Removing an entry.                                                      *)

\* The record p that remove_dirent merges the record o into.
Before(h, T, o, p) ==
    /\ p \in T /\ Live(h, p) /\ p < o /\ p # 0
    /\ Next1(h, p) <= o
    /\ \A k \in Nat : o # k * DirBlkSize

LEMMA LiveBeforeFacts ==
    ASSUME NEW h, NEW sz, NEW T, NEW ents, NEW up, Directory(h, sz, T, ents, up),
           NEW o \in Holders(h, T), LiveBefore(h, o) # {}
    PROVE  Before(h, T, o, LastOf(LiveBefore(h, o)))
<1> DEFINE L == LiveBefore(h, o)
           b == BlkOf(o)
<1>1. o \in T /\ o # 0 /\ o # 12
  BY DEF Holders
<1>2. o \in Nat /\ o < sz /\ sz \in Nat /\ Tiles(h, 0, sz, T)
  BY <1>1, DirectoryFacts, TileFacts
<1>3. PICK k \in Nat : b = k * DirBlkSize /\ b \in Nat /\ b <= o /\ o < b + DirBlkSize
  BY <1>2, BlockOf
<1>4. BlkChain(h, b) = InBlock(T, b)
  <2>1. b < sz
    BY <1>2, <1>3
  <2>2. Walkable(h) /\ Sized(sz) /\ Starts(T, sz)
    BY DirectoryFacts DEF Directory, Bytes, Sound
  <2> HIDE DEF b
  <2>3. QED BY <1>2, <1>3, <2>1, <2>2, BlockVisited
<1>5. L = {p \in InBlock(T, b) : p < o /\ Live(h, p)}
  BY <1>4 DEF LiveBefore
<1> HIDE DEF L, b
<1>6. \A p \in T : p \in Nat
  BY <1>2, TileFacts
<1>7. L \in SUBSET Nat /\ \A p \in L : p <= o
  BY <1>2, <1>5, <1>6 DEF InBlock
<1>8. PICK p \in L : \A q \in L : q <= p
  <2>1. L # {}
    BY DEF L
  <2>2. QED BY <1>2, <1>7, <2>1, GreatestNatural
<1> DEFINE last == LastOf(L)
<1>9. last \in L /\ \A q \in L : last >= q
  <2>1. \A q \in L : p >= q
    BY <1>7, <1>8
  <2>2. QED BY <2>1 DEF LastOf
<1> HIDE DEF last
<1>10. last \in T /\ Live(h, last) /\ last < o /\ b <= last /\ last \in Nat
  BY <1>5, <1>6, <1>9 DEF InBlock
<1>11. last # 0
  <2>1. SUFFICES ASSUME last = 0 PROVE FALSE
    OBVIOUS
  <2>2. 0 \in T /\ 12 \in T /\ Live(h, 12) /\ Next1(h, 0) = 12
    BY DirectoryFacts DEF Next1
  <2>3. 12 <= o
    BY <1>1, <1>2, <2>2 DEF Tiles
  <2>4. 12 < o /\ b = 0
    BY <1>1, <1>2, <1>3, <1>10, <2>1, <2>3
  <2>5. 12 \in InBlock(T, b)
    BY <2>2, <2>4, DirBlkAssumption DEF InBlock
  <2>6. 12 \in L
    BY <1>5, <2>2, <2>4, <2>5
  <2>7. QED BY <1>9, <2>1, <2>6
<1>12. Next1(h, last) <= o
  BY <1>1, <1>2, <1>10 DEF Tiles
<1>13. ASSUME NEW j \in Nat, o = j * DirBlkSize PROVE FALSE
  <2>1. b < o
    BY <1>2, <1>3, <1>10
  <2>2. k < j
    BY <1>3, <1>13, <2>1, Multiples
  <2>3. b + DirBlkSize <= o
    BY <1>3, <1>13, <2>2, Multiples
  <2>4. QED BY <1>2, <1>3, <2>3, DirBlkAssumption
<1>14. Before(h, T, o, last)
  BY <1>10, <1>11, <1>12, <1>13 DEF Before
<1>15. QED BY <1>14 DEF last, L

LEMMA EraseFacts ==
    ASSUME NEW h, NEW sz, NEW T, NEW ents, NEW up, Directory(h, sz, T, ents, up),
           NEW o \in Holders(h, T)
    PROVE  \/ /\ Erase(h, o) = SetIno(h, o, 0) /\ ~MergesAcrossHole(h, o)
           \/ \E p \in T : /\ Before(h, T, o, p)
                           /\ Erase(h, o) = SetReclen(h, p, h[p].reclen + h[o].reclen)
                           /\ MergesAcrossHole(h, o) <=> Next1(h, p) # o
<1>1. CASE LiveBefore(h, o) = {}
  BY <1>1 DEF Erase, MergesAcrossHole
<1>2. CASE LiveBefore(h, o) # {}
  <2> DEFINE p == LastOf(LiveBefore(h, o))
  <2>1. Before(h, T, o, p)
    BY <1>2, LiveBeforeFacts
  <2>2. Erase(h, o) = SetReclen(h, p, h[p].reclen + h[o].reclen)
    BY <1>2 DEF Erase
  <2>3. MergesAcrossHole(h, o) <=> Next1(h, p) # o
    BY <1>2 DEF MergesAcrossHole, Next1
  <2> HIDE DEF p
  <2>4. p \in T
    BY <2>1 DEF Before
  <2>5. QED BY <2>1, <2>2, <2>3, <2>4
<1>3. QED BY <1>1, <1>2

\* Whatever the removal does, the headers keep their types.
LEMMA EraseBytes ==
    ASSUME NEW h, NEW sz, NEW T, NEW ents, NEW up, Directory(h, sz, T, ents, up),
           NEW o \in Holders(h, T)
    PROVE  Bytes(Erase(h, o), sz) /\ MergesAcrossHole(h, o) \in BOOLEAN
<1> DEFINE g == Erase(h, o)
<1>1. Tiles(h, 0, sz, T) /\ sz \in Nat /\ o \in T
  BY DirectoryFacts
<1>2. \A x \in T : x \in DOMAIN h /\ h[x] \in Header /\ h[x].reclen \in Nat
  BY <1>1, TileFacts
<1>3. Bytes(h, sz)
  BY DEF Directory
<1>6. MergesAcrossHole(h, o) \in BOOLEAN
  BY DEF MergesAcrossHole
<1>4. CASE g = SetIno(h, o, 0)
  <2>1. 0 \in Inos
    BY DEF Inos
  <2>2. Relabels(g, h, o, 0)
    BY <1>1, <1>2, <1>4, <2>1, SetInoFacts
  <2> HIDE DEF g
  <2>3. Bytes(g, sz)
    <3>1. DOMAIN g = DOMAIN h /\ g[o] \in Header /\ \A x \in DOMAIN h : x # o => g[x] = h[x]
      BY <2>2 DEF Relabels
    <3>2. QED BY <1>3, <3>1 DEF Bytes
  <2>4. QED BY <2>3, <1>6 DEF g
<1>5. ASSUME NEW p \in T, g = SetReclen(h, p, h[p].reclen + h[o].reclen)
      PROVE  Bytes(g, sz)
  <2> DEFINE len == h[p].reclen + h[o].reclen
  <2>1. len \in Nat /\ p \in DOMAIN h /\ h[p] \in Header
    BY <1>1, <1>2
  <2> HIDE DEF len
  <2>2. Resizes(SetReclen(h, p, len), h, p, len)
    BY <2>1, SetReclenFacts
  <2>3. g = SetReclen(h, p, len)
    BY <1>5 DEF len
  <2> HIDE DEF g
  <2>4. QED BY <1>3, <2>2, <2>3 DEF Bytes, Resizes
<1>7. QED BY <1>4, <1>5, <1>6, EraseFacts

\* The entries when the record of one is gone, or a record for one is new.
Without(ents, n) == [x \in DOMAIN ents \ {n} |-> ents[x]]
With(ents, n, ino) == [x \in DOMAIN ents \cup {n} |-> IF x = n THEN ino ELSE ents[x]]

LEMMA HoldsLess ==
    ASSUME NEW h, NEW T, NEW ents, Holds(h, T, ents), NEW o \in Holders(h, T),
           NEW g, NEW U, Holders(g, U) = Holders(h, T) \ {o},
           \A x \in Holders(h, T) : x # o => g[x].name = h[x].name /\ g[x].ino = h[x].ino
    PROVE  Holds(g, U, Without(ents, h[o].name))
<1> DEFINE n == h[o].name
           less == Without(ents, n)
<1>1. DOMAIN less = DOMAIN ents \ {n} /\ \A x \in DOMAIN less : less[x] = ents[x]
  BY DEF Without
<1>2. /\ \A x \in Holders(h, T) : h[x].name \in DOMAIN ents /\ ents[h[x].name] = h[x].ino
      /\ \A m \in DOMAIN ents : \E x \in Holders(h, T) : h[x].name = m
      /\ \A x, y \in Holders(h, T) : h[x].name = h[y].name => x = y
  BY DEF Holds
<1> HIDE DEF n, less
<1>3. ASSUME NEW x \in Holders(g, U)
      PROVE  /\ x \in Holders(h, T) /\ x # o
             /\ g[x].name = h[x].name /\ g[x].ino = h[x].ino
             /\ g[x].name \in DOMAIN less /\ less[g[x].name] = g[x].ino
  <2>1. x \in Holders(h, T) /\ x # o /\ g[x].name = h[x].name /\ g[x].ino = h[x].ino
    OBVIOUS
  <2>2. h[x].name # n
    BY <2>1, <1>2 DEF n
  <2>3. QED BY <2>1, <2>2, <1>1, <1>2
<1>4. ASSUME NEW m \in DOMAIN less PROVE \E x \in Holders(g, U) : g[x].name = m
  <2>1. m \in DOMAIN ents /\ m # n
    BY <1>1
  <2>2. PICK x \in Holders(h, T) : h[x].name = m
    BY <1>2, <2>1
  <2>3. x # o
    BY <2>1, <2>2 DEF n
  <2>4. QED BY <2>2, <2>3
<1>5. ASSUME NEW x \in Holders(g, U), NEW y \in Holders(g, U), g[x].name = g[y].name
      PROVE  x = y
  BY <1>2, <1>3, <1>5
<1>6. Holds(g, U, less)
  BY <1>3, <1>4, <1>5 DEF Holds
<1>7. QED BY <1>6 DEF less, n

LEMMA HoldsMore ==
    ASSUME NEW h, NEW T, NEW ents, Holds(h, T, ents), NEW q, q \notin Holders(h, T),
           NEW n, n \notin DOMAIN ents, NEW ino,
           NEW g, NEW U, Holders(g, U) = Holders(h, T) \cup {q},
           g[q].name = n, g[q].ino = ino,
           \A x \in Holders(h, T) : g[x].name = h[x].name /\ g[x].ino = h[x].ino
    PROVE  Holds(g, U, With(ents, n, ino))
<1> DEFINE more == With(ents, n, ino)
<1>1. DOMAIN more = DOMAIN ents \cup {n} /\ more[n] = ino /\ \A x \in DOMAIN ents : more[x] = ents[x]
  BY DEF With
<1>2. /\ \A x \in Holders(h, T) : h[x].name \in DOMAIN ents /\ ents[h[x].name] = h[x].ino
      /\ \A m \in DOMAIN ents : \E x \in Holders(h, T) : h[x].name = m
      /\ \A x, y \in Holders(h, T) : h[x].name = h[y].name => x = y
  BY DEF Holds
<1> HIDE DEF more
<1>3. ASSUME NEW x \in Holders(g, U)
      PROVE  g[x].name \in DOMAIN more /\ more[g[x].name] = g[x].ino
  BY <1>1, <1>2
<1>4. ASSUME NEW m \in DOMAIN more PROVE \E x \in Holders(g, U) : g[x].name = m
  BY <1>1, <1>2
<1>5. ASSUME NEW x \in Holders(g, U), NEW y \in Holders(g, U), g[x].name = g[y].name
      PROVE  x = y
  BY <1>2, <1>5
<1>6. QED BY <1>3, <1>4, <1>5 DEF Holds, more

\* Unless it merges across a hole, a removal leaves a sound directory without
\* the entry.
LEMMA EraseSound ==
    ASSUME NEW h, NEW sz, NEW T, NEW ents, NEW up, Directory(h, sz, T, ents, up),
           NEW o \in Holders(h, T), ~MergesAcrossHole(h, o)
    PROVE  \E U : Sound(Erase(h, o), sz, U, Without(ents, h[o].name), up)
<1> DEFINE g == Erase(h, o)
           less == Without(ents, h[o].name)
<1>1. /\ Tiles(h, 0, sz, T) /\ sz \in Nat /\ o \in T /\ o # 0 /\ o # 12
      /\ Starts(T, sz) /\ DotsFirst(h, T, up) /\ Holds(h, T, ents)
  BY DirectoryFacts DEF Directory, Sound, Holders
<1>2. \A x \in T : x \in DOMAIN h /\ h[x] \in Header /\ h[x].reclen \in Nat
  BY <1>1, TileFacts
<1>3. ASSUME g = SetIno(h, o, 0) PROVE Sound(g, sz, T, less, up)
  <2>1. 0 \in Inos
    BY DEF Inos
  <2>2. Tiles(SetIno(h, o, 0), 0, sz, T)
    BY <1>1, <2>1, TilesSetIno
  <2>3. Relabels(SetIno(h, o, 0), h, o, 0)
    BY <1>1, <1>2, <2>1, SetInoFacts
  <2>4. Tiles(g, 0, sz, T) /\ Relabels(g, h, o, 0)
    BY <1>3, <2>2, <2>3
  <2> HIDE DEF g, less
  <2>5. g[o].ino = 0 /\ \A x \in T : x # o => g[x] = h[x]
    BY <1>2, <2>4 DEF Relabels
  <2>6. Holders(g, T) = Holders(h, T) \ {o}
    BY <2>5 DEF Holders, Live
  <2>7. \A x \in Holders(h, T) : x # o => g[x].name = h[x].name /\ g[x].ino = h[x].ino
    BY <2>5 DEF Holders
  <2>8. Holds(g, T, less)
    BY <1>1, <2>6, <2>7, HoldsLess DEF less
  <2>9. DotsFirst(g, T, up)
    <3>1. 0 \in T
      BY <1>1 DEF Tiles
    <3>2. 12 \in T
      BY <1>1 DEF DotsFirst
    <3>3. g[0] = h[0] /\ g[12] = h[12]
      BY <1>1, <2>5, <3>1, <3>2
    <3>4. QED BY <1>1, <3>3 DEF DotsFirst
  <2>10. QED BY <1>1, <2>4, <2>8, <2>9 DEF Sound
<1>4. ASSUME NEW p \in T, Before(h, T, o, p), Next1(h, p) = o,
             g = SetReclen(h, p, h[p].reclen + h[o].reclen)
      PROVE  Sound(g, sz, T \ {o}, less, up)
  <2> DEFINE U == T \ {o}
             len == h[p].reclen + h[o].reclen
  <2>0. len \in Nat /\ p # 0 /\ p # o
    <3>1. p < o /\ p \in Nat /\ o \in Nat
      BY <1>1, <1>4, TileFacts DEF Before
    <3>2. QED BY <1>1, <1>2, <1>4, <3>1 DEF Before
  <2>1. Tiles(SetReclen(h, p, len), 0, sz, U)
    BY <1>1, <1>4, TilesMerge
  <2> HIDE DEF len
  <2>2. Resizes(SetReclen(h, p, len), h, p, len)
    BY <1>2, <2>0, SetReclenFacts
  <2>3. Tiles(g, 0, sz, U) /\ Resizes(g, h, p, len)
    BY <1>4, <2>1, <2>2 DEF len
  <2> HIDE DEF g, less
  <2>4. \A x \in T : g[x].ino = h[x].ino /\ g[x].name = h[x].name
    BY <1>2, <2>3 DEF Resizes
  <2>5. Holders(g, U) = Holders(h, T) \ {o}
    BY <2>4 DEF Holders, Live
  <2>6. \A x \in Holders(h, T) : x # o => g[x].name = h[x].name /\ g[x].ino = h[x].ino
    BY <2>4 DEF Holders
  <2>7. Holds(g, U, less)
    BY <1>1, <2>5, <2>6, HoldsLess DEF less
  <2>8. DotsFirst(g, U, up)
    <3>1. 0 \in T
      BY <1>1 DEF Tiles
    <3>2. 12 \in T
      BY <1>1 DEF DotsFirst
    <3>3. g[0] = h[0]
      BY <2>0, <2>3, <1>2, <3>1 DEF Resizes
    <3>4. QED BY <1>1, <2>4, <3>2, <3>3 DEF DotsFirst
  <2>9. Starts(U, sz)
    BY <1>1, <1>4 DEF Starts, Before
  <2>10. Sound(g, sz, U, less, up)
    BY <2>3, <2>7, <2>8, <2>9 DEF Sound
  <2>11. QED BY <2>10
<1> HIDE DEF g, less
<1>5. CASE g = SetIno(h, o, 0)
  BY <1>3, <1>5 DEF g, less
<1>6. CASE \E p \in T : /\ Before(h, T, o, p)
                        /\ g = SetReclen(h, p, h[p].reclen + h[o].reclen)
                        /\ MergesAcrossHole(h, o) <=> Next1(h, p) # o
  BY <1>4, <1>6 DEF g, less
<1>7. QED BY <1>5, <1>6, EraseFacts DEF g

-----------------------------------------------------------------------------
(* Inserting an entry.                                                     *)

LEMMA BytesWrite ==
    ASSUME NEW h, NEW sz, Bytes(h, sz), NEW o \in 0..(sz - 1), NEW len \in Nat,
           NEW n \in Names \cup {Dot, DotDot}, NEW ino \in Inos
    PROVE  Bytes(WriteDirent(h, o, len, n, ino), sz)
<1> DEFINE g == WriteDirent(h, o, len, n, ino)
<1>1. Writes(g, h, o, len, n, ino)
  BY WriteDirentFacts
<1> HIDE DEF g
<1>2. DOMAIN g \subseteq DOMAIN h \cup {o}
  BY <1>1 DEF Writes
<1>3. g[o] \in Header /\ \A x \in DOMAIN g : x # o => g[x] = h[x]
  BY <1>1 DEF Writes
<1>4. Bytes(g, sz)
  BY <1>2, <1>3 DEF Bytes
<1>5. QED BY <1>4 DEF g

LEMMA BytesResize ==
    ASSUME NEW h, NEW sz, Bytes(h, sz), NEW o \in DOMAIN h, NEW len \in Nat
    PROVE  Bytes(SetReclen(h, o, len), sz)
<1> DEFINE g == SetReclen(h, o, len)
<1>1. h[o] \in Header
  BY DEF Bytes
<1>2. Resizes(g, h, o, len)
  BY <1>1, SetReclenFacts
<1> HIDE DEF g
<1>3. DOMAIN g = DOMAIN h /\ g[o] \in Header /\ \A x \in DOMAIN h : x # o => g[x] = h[x]
  BY <1>2 DEF Resizes
<1>4. Bytes(g, sz)
  BY <1>3 DEF Bytes
<1>5. QED BY <1>4 DEF g

LEMMA PlaceSound ==
    ASSUME NEW h, NEW sz, NEW T, NEW ents, NEW up, Directory(h, sz, T, ents, up),
           NEW n, n \in Names, n \notin DOMAIN ents, NEW ino, ino \in Inodes,
           NEW o \in T, HasRoom(h, o, n)
    PROVE  /\ Bytes(Place(h, o, n, ino), sz)
           /\ \E U : Sound(Place(h, o, n, ino), sz, U, With(ents, n, ino), up)
<1> DEFINE g == Place(h, o, n, ino)
           more == With(ents, n, ino)
<1>1. /\ Bytes(h, sz) /\ Tiles(h, 0, sz, T) /\ sz \in Nat
      /\ Starts(T, sz) /\ DotsFirst(h, T, up) /\ Holds(h, T, ents)
  BY DirectoryFacts DEF Directory, Sound
<1>2. /\ o \in Nat /\ o < sz /\ o \in DOMAIN h /\ h[o] \in Header /\ h[o].reclen \in Nat
      /\ Need(h[o].name) \in Nat /\ Need(h[o].name) >= 12 /\ h[o].reclen >= Need(h[o].name)
  BY <1>1, TileFacts
<1>3. ino \in Inos /\ ino # 0 /\ Need(n) \in Nat /\ Need(n) >= 12
  BY DirBlkAssumption, NeedFacts DEF Inos
<1>4. /\ 0 \in T /\ 12 \in T /\ Live(h, 0) /\ Live(h, 12) /\ h[0].name = Dot /\ h[0].reclen = 12
      /\ h[0].ino = Self /\ h[12].ino = up /\ h[12].name = DotDot
  BY DirectoryFacts
<1>5. h[o].reclen - Used(h, o) >= Need(n)
  BY DEF HasRoom
<1>6. o # 0
  <2>1. SUFFICES ASSUME o = 0 PROVE FALSE
    OBVIOUS
  <2>2. Used(h, o) = 12
    BY <1>4, <2>1, NeedFacts DEF Used
  <2>3. QED BY <1>3, <1>4, <1>5, <2>1, <2>2
<1>7. n \in Names \cup {Dot, DotDot} /\ o \in 0..(sz - 1)
  BY <1>1, <1>2
<1>8. CASE Live(h, o)
  <2>1. CutTo(h, sz, T, T \cup {o + Need(h[o].name)}, o, n, ino, Need(h[o].name), o + Need(h[o].name), h[o].reclen - Need(h[o].name), g)
    <3>1. Used(h, o) = Need(h[o].name)
      BY <1>8 DEF Used
    <3>2. g = WriteDirent(SetReclen(h, o, Need(h[o].name)), o + Need(h[o].name),
                          h[o].reclen - Need(h[o].name), n, ino)
      BY <1>8, <3>1 DEF Place
    <3> HIDE DEF g
    <3>3. QED BY <1>1, <1>2, <1>3, <1>5, <1>7, <3>1, <3>2 DEF CutTo
  <2> HIDE DEF g
  <2>2. PICK cut, q, rest, U : CutTo(h, sz, T, U, o, n, ino, cut, q, rest, g)
    BY <2>1
  <2> DEFINE f == SetReclen(h, o, cut)
  <2>3. cut \in Nat /\ g = WriteDirent(f, q, rest, n, ino)
    BY <2>2 DEF CutTo
  <2>4. rest \in Nat
    BY <1>2, <1>3, <2>2 DEF CutTo
  <2>5. /\ q \notin T /\ q > o /\ Tiles(g, 0, sz, U) /\ U = T \cup {q}
        /\ \A x \in T \ {o} : g[x] = h[x]
        /\ g[o].name = h[o].name /\ g[o].ino = h[o].ino /\ g[q].name = n /\ g[q].ino = ino
    BY <2>2, TilesSplit
  <2>6. q \in 0..(sz - 1)
    BY <2>5, <1>1 DEF Tiles
  <2>7. Bytes(f, sz)
    BY <1>1, <1>2, <2>3, BytesResize
  <2>8. Bytes(g, sz)
    <3> HIDE DEF f
    <3>1. QED BY <2>3, <2>4, <2>6, <2>7, <1>3, <1>7, BytesWrite
  <2>9. /\ q \notin T /\ Tiles(g, 0, sz, U) /\ U = T \cup {q} /\ \A x \in T \ {o} : g[x] = h[x]
        /\ g[o].name = h[o].name /\ g[o].ino = h[o].ino /\ g[q].name = n /\ g[q].ino = ino
    BY <2>5
  <2>10. \A x \in T : g[x].name = h[x].name /\ g[x].ino = h[x].ino
    BY <2>9
  <2>11. Holders(g, U) = Holders(h, T) \cup {q} /\ q \notin Holders(h, T)
    <3>1. q \in U /\ q # 0 /\ q # 12 /\ Live(g, q) /\ q \notin T
      BY <1>3, <1>4, <2>9 DEF Live
    <3>2. \A x \in T : Live(g, x) <=> Live(h, x)
      BY <2>10 DEF Live
    <3>3. QED BY <2>9, <3>1, <3>2 DEF Holders
  <2>12. Holds(g, U, more)
    <3>1. \A x \in Holders(h, T) : g[x].name = h[x].name /\ g[x].ino = h[x].ino
      BY <2>10 DEF Holders
    <3>2. QED BY <1>1, <2>9, <2>11, <3>1, HoldsMore, ZenonT(30)
  <2>13. DotsFirst(g, U, up)
    <3>1. g[0] = h[0] /\ g[12].name = h[12].name /\ g[12].ino = h[12].ino
      BY <1>4, <1>6, <2>9, <2>10
    <3>2. QED BY <1>4, <2>9, <3>1 DEF DotsFirst
  <2>14. Starts(U, sz)
    BY <1>1, <2>9 DEF Starts
  <2>15. Sound(g, sz, U, more, up)
    BY <2>9, <2>12, <2>13, <2>14 DEF Sound
  <2>16. \E W : Sound(g, sz, W, more, up)
    BY <2>15
  <2>17. QED BY <2>8, <2>16 DEF g
<1>9. CASE ~Live(h, o)
  <2> DEFINE w == WriteDirent(h, o, h[o].reclen, n, ino)
  <2>1. g = w
    BY <1>9 DEF Place
  <2>2. h[o].reclen >= Need(n)
    BY <1>2, <1>5, <1>9 DEF Used
  <2>3. Bytes(w, sz)
    BY <1>1, <1>2, <1>3, <1>7, BytesWrite
  <2>4. /\ Tiles(w, 0, sz, T) /\ \A x \in T \ {o} : w[x] = h[x]
        /\ w[o].name = n /\ w[o].ino = ino
    BY <1>1, <1>3, <1>7, <2>2, TilesRewrite
  <2> HIDE DEF w
  <2>5. o # 12 /\ o \notin Holders(h, T)
    BY <1>4, <1>9 DEF Holders
  <2>6. Holders(w, T) = Holders(h, T) \cup {o}
    <3>1. Live(w, o) /\ \A x \in T \ {o} : Live(w, x) <=> Live(h, x)
      BY <1>3, <2>4 DEF Live
    <3>2. QED BY <3>1, <1>6, <2>5 DEF Holders
  <2>7. \A x \in Holders(h, T) : w[x].name = h[x].name /\ w[x].ino = h[x].ino
    BY <2>4, <2>5 DEF Holders
  <2>8. Holds(w, T, more)
    BY <1>1, <2>4, <2>5, <2>6, <2>7, HoldsMore
  <2>9. DotsFirst(w, T, up)
    <3>1. w[0] = h[0] /\ w[12] = h[12]
      BY <1>4, <1>6, <2>4, <2>5
    <3>2. QED BY <1>4, <3>1 DEF DotsFirst
  <2>10. Sound(w, sz, T, more, up)
    BY <1>1, <2>4, <2>8, <2>9 DEF Sound
  <2>11. QED BY <2>1, <2>3, <2>10
<1>10. QED BY <1>8, <1>9

LEMMA GrownSize ==
    ASSUME NEW sz, Sized(sz), sz < MaxBlks * DirBlkSize
    PROVE  Sized(sz + DirBlkSize) /\ sz \in Nat
<1>1. DirBlkSize \in Nat /\ DirBlkSize >= 24 /\ MaxBlks \in Nat
  BY DirBlkAssumption
<1>2. PICK m \in 1..MaxBlks : sz = m * DirBlkSize
  BY DEF Sized
<1>3. m \in Nat /\ m >= 1
  BY <1>1
<1>4. sz + DirBlkSize = (m + 1) * DirBlkSize /\ sz \in Nat
  BY <1>2, <1>3, Multiples
<1>5. m < MaxBlks
  BY <1>1, <1>2, <1>3, Multiples
<1>6. m + 1 \in 1..MaxBlks
  BY <1>1, <1>3, <1>5
<1>7. QED BY <1>4, <1>6 DEF Sized

LEMMA GrowSound ==
    ASSUME NEW h, NEW sz, NEW T, NEW ents, NEW up, Directory(h, sz, T, ents, up),
           sz < MaxBlks * DirBlkSize,
           NEW n, n \in Names, n \notin DOMAIN ents, NEW ino, ino \in Inodes
    PROVE  /\ Bytes(WriteDirent(h, sz, DirBlkSize, n, ino), sz + DirBlkSize)
           /\ \E U : Sound(WriteDirent(h, sz, DirBlkSize, n, ino), sz + DirBlkSize, U,
                           With(ents, n, ino), up)
<1> DEFINE g == WriteDirent(h, sz, DirBlkSize, n, ino)
           more == With(ents, n, ino)
<1>1. /\ Bytes(h, sz) /\ Tiles(h, 0, sz, T) /\ sz \in Nat
      /\ Starts(T, sz) /\ DotsFirst(h, T, up) /\ Holds(h, T, ents)
  BY DirectoryFacts DEF Directory, Sound
<1>2. DirBlkSize \in Nat /\ DirBlkSize >= 24 /\ ino \in Inos /\ ino # 0
  BY DirBlkAssumption DEF Inos
<1>3. Need(n) <= DirBlkSize /\ n \in Names \cup {Dot, DotDot}
  BY NeedFacts
<1>4. Sized(sz + DirBlkSize) /\ sz + DirBlkSize \in Nat
  BY <1>1, <1>2, GrownSize DEF Bytes
<1>5. \A y \in DOMAIN h : y \in Nat /\ y < sz
  BY <1>1 DEF Bytes
<1>6. Bytes(g, sz + DirBlkSize)
  <2> DEFINE big == sz + DirBlkSize
  <2>4. Sized(big) /\ big \in Nat /\ big > sz
    BY <1>1, <1>2, <1>4
  <2> HIDE DEF big
  <2>1. Bytes(h, big)
    <3>1. \A y \in DOMAIN h : y \in 0..(big - 1)
      BY <1>1, <1>5, <2>4
    <3>2. \A y \in DOMAIN h : h[y] \in Header
      BY <1>1 DEF Bytes
    <3>3. QED BY <2>4, <3>1, <3>2 DEF Bytes
  <2>2. sz \in 0..(big - 1)
    BY <1>1, <2>4
  <2>3. Bytes(g, big)
    BY <1>2, <1>3, <2>1, <2>2, BytesWrite
  <2>5. QED BY <2>3 DEF big
<1>7. PICK U : GrowBy(h, sz, T, U, DirBlkSize, n, ino, g)
  BY <1>1, <1>2, <1>3, <1>5 DEF GrowBy
<1> HIDE DEF g
<1>16. /\ sz \notin T /\ Tiles(g, 0, sz + DirBlkSize, U) /\ U = T \cup {sz}
       /\ \A x \in T : g[x] = h[x]
       /\ g[sz].name = n /\ g[sz].ino = ino
  BY <1>7, TilesGrow
<1>8. 0 \in T /\ 12 \in T
  BY <1>1 DEF Tiles, DotsFirst
<1>9. Holders(g, U) = Holders(h, T) \cup {sz} /\ sz \notin Holders(h, T)
  <2>1. Live(g, sz) /\ sz # 0 /\ sz # 12
    BY <1>2, <1>16, <1>8 DEF Live
  <2>2. \A x \in T : Live(g, x) <=> Live(h, x)
    BY <1>16 DEF Live
  <2>3. QED BY <1>16, <2>1, <2>2 DEF Holders
<1>10. \A x \in Holders(h, T) : g[x].name = h[x].name /\ g[x].ino = h[x].ino
  BY <1>16 DEF Holders
<1>11. Holds(g, U, more)
  <2>1. QED BY <1>1, <1>16, <1>9, <1>10, HoldsMore
<1>12. DotsFirst(g, U, up)
  BY <1>1, <1>16, <1>8 DEF DotsFirst
<1>13. Starts(U, sz + DirBlkSize)
  <2>1. PICK m \in 1..MaxBlks : sz = m * DirBlkSize
    BY <1>1 DEF Bytes, Sized
  <2>2. SUFFICES ASSUME NEW k \in Nat, k * DirBlkSize < sz + DirBlkSize
                 PROVE  k * DirBlkSize \in U
    BY DEF Starts
  <2>3. m \in Nat /\ sz + DirBlkSize = (m + 1) * DirBlkSize /\ m + 1 \in Nat
    BY <2>1, DirBlkAssumption, Multiples
  <2>4. k < m + 1
    BY <2>2, <2>3, Multiples
  <2>5. CASE k < m
    <3>1. k * DirBlkSize + DirBlkSize <= sz /\ k * DirBlkSize \in Nat
      BY <2>1, <2>3, <2>5, Multiples
    <3>2. k * DirBlkSize < sz
      BY <1>1, <1>2, <3>1
    <3>3. QED BY <1>1, <1>16, <3>2 DEF Starts
  <2>6. CASE k = m
    BY <1>16, <2>1, <2>6
  <2>7. QED BY <2>3, <2>4, <2>5, <2>6
<1>14. Sound(g, sz + DirBlkSize, U, more, up)
  BY <1>16, <1>11, <1>12, <1>13 DEF Sound
<1>15. QED BY <1>6, <1>14 DEF g

-----------------------------------------------------------------------------
(* Moving the directory.                                                   *)

LEMMA ParentSound ==
    ASSUME NEW h, NEW sz, NEW T, NEW ents, NEW up, Directory(h, sz, T, ents, up),
           NEW new, new \in Parents
    PROVE  /\ Bytes(SetIno(h, 12, new), sz)
           /\ \E U : Sound(SetIno(h, 12, new), sz, U, ents, new)
<1> DEFINE g == SetIno(h, 12, new)
<1>1. /\ Bytes(h, sz) /\ Tiles(h, 0, sz, T) /\ sz \in Nat
      /\ Starts(T, sz) /\ DotsFirst(h, T, up) /\ Holds(h, T, ents) /\ 0 \in T /\ 12 \in T
  BY DirectoryFacts DEF Directory, Sound
<1>2. 12 \in DOMAIN h /\ h[12] \in Header /\ \A x \in T : x \in DOMAIN h
  <2>1. 0 \in Nat /\ sz \in Nat /\ Tiles(h, 0, sz, T) /\ 12 \in T
    BY <1>1
  <2>2. \A x \in T : x \in DOMAIN h
    BY ONLY <2>1, TileFacts
  <2>3. h[12] \in Header
    BY ONLY <2>1, TileFacts
  <2>4. QED BY <2>1, <2>2, <2>3
<1>3. new \in Inos
  BY DEF Inos
<1>4. Relabels(g, h, 12, new)
  BY <1>2, <1>3, SetInoFacts
<1>5. Tiles(g, 0, sz, T)
  BY <1>1, <1>3, TilesSetIno
<1> HIDE DEF g
<1>6. /\ DOMAIN g = DOMAIN h /\ g[12] \in Header /\ g[12].ino = new /\ g[12].name = h[12].name
      /\ \A x \in DOMAIN h : x # 12 => g[x] = h[x]
  BY <1>2, <1>4 DEF Relabels
<1>7. Bytes(g, sz)
  BY <1>1, <1>6 DEF Bytes
<1>8. \A x \in T : x # 12 => g[x] = h[x]
  BY <1>2, <1>6
<1>9. Holders(g, T) = Holders(h, T)
  BY <1>8 DEF Holders, Live
<1>10. \A x \in Holders(h, T) : g[x] = h[x]
  BY <1>8 DEF Holders
<1>11. Holds(g, T, ents)
  BY <1>1, <1>9, <1>10 DEF Holds
<1>12. DotsFirst(g, T, new)
  <2>1. g[0] = h[0]
    BY <1>1, <1>8
  <2>2. QED BY <1>1, <1>6, <2>1 DEF DotsFirst
<1>13. Sound(g, sz, T, ents, new)
  BY <1>1, <1>5, <1>11, <1>12 DEF Sound
<1>14. QED BY <1>7, <1>13 DEF g

-----------------------------------------------------------------------------
(* The room a removal leaves.                                              *)

\* A walk of headers that differ from h only in a longer record at p still
\* comes to p.
LEMMA StillVisited ==
    ASSUME NEW h, NEW sz, sz \in Nat, NEW T, Tiles(h, 0, sz, T), NEW p \in T,
           NEW g, Walkable(g), \A x \in T : x # p => g[x] = h[x] /\ Readable(g, x, sz),
           Readable(g, p, sz)
    PROVE  p \in Visited(g, sz)
<1> DEFINE V == Visited(g, sz)
           Bad == {r \in T : r <= p /\ r \notin V}
<1>1. \A x \in T : x \in Nat
  BY TileFacts
<1>2. \A x \in T : Readable(g, x, sz)
  OBVIOUS
<1>3. /\ Readable(g, 0, sz) => 0 \in V
      /\ \A o \in V : Readable(g, Next1(g, o), sz) => Next1(g, o) \in V
  <2>1. 0 \in Nat /\ 0 <= sz
    OBVIOUS
  <2>2. QED BY <2>1, ChainFacts DEF Visited
<1> HIDE DEF V
<1>4. 0 \in T
  BY DEF Tiles
<1>5. 0 \in V
  BY <1>2, <1>3, <1>4
<1>6. SUFFICES ASSUME Bad # {} PROVE FALSE
  BY <1>1 DEF V
<1>7. Bad \in SUBSET Nat
  BY <1>1
<1>8. PICK r \in Bad : \A q \in Bad : r <= q
  <2> HIDE DEF Bad
  <2>1. QED BY <1>6, <1>7, LeastNatural
<1> DEFINE B == {q \in T : q < r}
<1>9. r \in T /\ r <= p /\ r \notin V /\ r \in Nat /\ r # 0
  BY <1>1, <1>5, <1>8
<1>10. B \in SUBSET Nat /\ (\A q \in B : q <= r) /\ 0 \in B
  <2>1. 0 < r
    BY <1>9
  <2>4. B \in SUBSET Nat
    BY <1>1
  <2>5. r \in Nat /\ \A q \in B : q < r
    BY <1>9
  <2> HIDE DEF B
  <2>2. B \in SUBSET Nat /\ \A q \in B : q <= r
    BY <2>4, <2>5
  <2> USE DEF B
  <2>3. QED BY <1>4, <2>1, <2>2
<1>11. PICK q \in B : \A x \in B : x <= q
  <2> HIDE DEF B
  <2>1. QED BY <1>9, <1>10, GreatestNatural
<1>12. q \in T /\ q < r /\ q \in Nat /\ p \in Nat
  BY <1>1, <1>11
<1>13. Next1(h, q) <= r /\ Next1(h, q) >= q + 12 /\ Next1(h, q) \in Nat /\ Next1(h, q) \in T \cup {sz}
  BY <1>9, <1>12, TileFacts DEF Tiles
<1>14. r < sz
  BY <1>9, TileFacts
<1>15. Next1(h, q) \in T /\ Next1(h, q) > q
  BY <1>9, <1>12, <1>13, <1>14
<1>16. Next1(h, q) = r
  <2>1. ~ (Next1(h, q) < r)
    BY <1>11, <1>12, <1>13, <1>15
  <2>2. QED BY <2>1, <1>9, <1>13
<1>17. Next1(g, q) = r
  <2>1. q # p
    BY <1>9, <1>12
  <2>2. QED BY <2>1, <1>12, <1>16 DEF Next1
<1>18. q \in V
  BY <1>8, <1>9, <1>12
<1>19. QED BY <1>2, <1>3, <1>9, <1>17, <1>18

LEMMA EraseFreesRoom ==
    ASSUME NEW h, NEW sz, NEW T, NEW ents, NEW up, Directory(h, sz, T, ents, up),
           NEW o \in Holders(h, T)
    PROVE  Spots(Erase(h, o), sz, h[o].name) # {}
<1> DEFINE g == Erase(h, o)
           n == h[o].name
<1>1. Tiles(h, 0, sz, T) /\ sz \in Nat /\ o \in T /\ Bytes(h, sz)
  BY DirectoryFacts DEF Directory
<1>2. \A x \in T : /\ x \in Nat /\ x \in DOMAIN h /\ h[x] \in Header /\ h[x].reclen \in Nat
                   /\ Need(h[x].name) \in Nat /\ h[x].reclen >= Need(h[x].name)
                   /\ Next1(h, x) = x + h[x].reclen
                   /\ Readable(h, x, sz)
  <2>1. 0 \in Nat /\ sz \in Nat /\ Tiles(h, 0, sz, T)
    BY <1>1
  <2> SUFFICES ASSUME NEW x \in T
               PROVE  /\ x \in Nat /\ x \in DOMAIN h /\ h[x] \in Header /\ h[x].reclen \in Nat
                      /\ Need(h[x].name) \in Nat /\ h[x].reclen >= Need(h[x].name)
                      /\ Next1(h, x) = x + h[x].reclen
                      /\ Readable(h, x, sz)
    OBVIOUS
  <2>2. QED BY <2>1, TileFacts
<1>3. Walkable(g)
  BY EraseBytes, BytesFacts
<1>4. CASE g = SetIno(h, o, 0)
  <2>1. 0 \in Inos
    BY DEF Inos
  <2>2. Tiles(SetIno(h, o, 0), 0, sz, T)
    BY <1>1, <2>1, TilesSetIno
  <2>3. Relabels(g, h, o, 0)
    BY <1>1, <1>2, <1>4, <2>1, SetInoFacts
  <2>4. Tiles(g, 0, sz, T)
    BY <1>4, <2>2
  <2> HIDE DEF g
  <2>5. Visited(g, sz) = T
    BY <1>1, <1>3, <2>4, TilesVisited DEF Visited
  <2>6. g[o].ino = 0 /\ g[o].reclen = h[o].reclen
    BY <1>1, <1>2, <2>3 DEF Relabels
  <2>7. HasRoom(g, o, n)
    BY <1>1, <1>2, <2>6 DEF HasRoom, Used, Live
  <2>8. o \in Spots(g, sz, n)
    BY <1>1, <2>5, <2>7 DEF Spots
  <2>9. QED BY <2>8 DEF g
<1>5. ASSUME NEW p \in T, Before(h, T, o, p), g = SetReclen(h, p, h[p].reclen + h[o].reclen)
      PROVE  p \in Spots(g, sz, n)
  <2> DEFINE len == h[p].reclen + h[o].reclen
  <2>1. /\ len \in Nat /\ len >= h[p].reclen /\ len = h[p].reclen + h[o].reclen
        /\ p < o /\ Next1(h, p) <= o /\ p \in Nat /\ o \in Nat
        /\ p + len <= sz
    <3>1. Next1(h, o) <= sz
      BY <1>1, TileFacts
    <3>2. QED BY <3>1, <1>1, <1>2, <1>5 DEF Before
  <2> HIDE DEF len
  <2>2. Resizes(SetReclen(h, p, len), h, p, len)
    BY <1>2, <2>1, SetReclenFacts
  <2>3. Resizes(g, h, p, len)
    BY <1>5, <2>1, <2>2
  <2> HIDE DEF g
  <2>4. /\ DOMAIN g = DOMAIN h /\ g[p].reclen = len /\ g[p].name = h[p].name /\ g[p].ino = h[p].ino
        /\ \A x \in T : x # p => g[x] = h[x]
    BY <1>2, <2>3 DEF Resizes
  <2>5. \A x \in T : x # p => g[x] = h[x] /\ Readable(g, x, sz)
    BY <1>2, <2>4 DEF Readable
  <2>6. Readable(g, p, sz)
    <3>1. Readable(h, p, sz) /\ p \in DOMAIN g
      BY <1>2, <2>4
    <3>2. g[p].reclen >= HeaderBytes
      BY <1>2, <2>1, <2>4, <3>1 DEF Readable, HeaderBytes
    <3>3. QED BY <2>1, <2>4, <3>1, <3>2 DEF Readable
  <2>7. p \in Visited(g, sz)
    BY <1>1, <1>3, <2>5, <2>6, StillVisited
  <2>8. HasRoom(g, p, n)
    <3>1. Used(g, p) = Used(h, p)
      BY <2>4 DEF Used, Live
    <3>2. Used(h, p) \in Nat /\ Used(h, p) <= h[p].reclen
      BY <1>2 DEF Used
    <3>3. h[o].reclen >= Need(n) /\ h[o].reclen \in Nat /\ Need(n) \in Nat
      BY <1>1, <1>2
    <3> HIDE DEF n
    <3>4. len - Used(h, p) >= Need(n)
      BY <1>2, <2>1, <3>2, <3>3
    <3>5. QED BY <2>4, <3>1, <3>4 DEF HasRoom
  <2>9. QED BY <2>7, <2>8 DEF Spots
<1>6. QED BY <1>4, <1>5, EraseFacts

-----------------------------------------------------------------------------
(* What a sound directory shows its callers.                               *)

LEMMA EmptyFunction ==
    ASSUME NEW ents, NEW S, ents \in [DOMAIN ents -> S]
    PROVE  ents = <<>> <=> DOMAIN ents = {}
<1>1. DOMAIN <<>> = {}
  OBVIOUS
<1>2. ASSUME DOMAIN ents = {} PROVE ents = <<>>
  <2>1. 1..0 = {}
    OBVIOUS
  <2>2. ents \in [1..0 -> S]
    BY <1>2, <2>1
  <2>3. ents \in Seq(S) /\ Len(ents) = 0
    BY <2>2, SeqDef
  <2>4. QED BY <2>3, EmptySeq
<1>3. QED BY <1>1, <1>2

LEMMA HoldersCounted ==
    ASSUME NEW h, NEW T, NEW ents, Holds(h, T, ents), IsFiniteSet(Holders(h, T))
    PROVE  IsFiniteSet(DOMAIN ents) /\ Cardinality(DOMAIN ents) = Cardinality(Holders(h, T))
<1> DEFINE H == Holders(h, T)
           f == [o \in H |-> h[o].name]
<1>1. f \in [H -> DOMAIN ents]
  BY DEF Holds
<1>2. \A x, y \in H : f[x] = f[y] => x = y
  BY DEF Holds
<1>3. \A n \in DOMAIN ents : \E x \in H : f[x] = n
  BY DEF Holds
<1> HIDE DEF f, H
<1>4. f \in Bijection(H, DOMAIN ents)
  BY <1>1, <1>2, <1>3, Fun_IsBij
<1>5. ExistsBijection(H, DOMAIN ents)
  BY <1>4 DEF ExistsBijection
<1>6. QED BY <1>5, FS_Bijection DEF H

\* The live records of the walk.
LEMMA ListedFacts ==
    ASSUME NEW h, NEW sz, NEW T, NEW ents, NEW up, Directory(h, sz, T, ents, up)
    PROVE  /\ ElemsOf(Listing(h, sz)) = {[name |-> n, ino |-> ents[n]] : n \in DOMAIN ents}
                    \cup {[name |-> Dot, ino |-> Self], [name |-> DotDot, ino |-> up]}
           /\ IsFiniteSet(DOMAIN ents)
           /\ Len(Listing(h, sz)) = Cardinality(DOMAIN ents) + 2
<1> DEFINE H == Holders(h, T)
           L == {p \in Visited(h, sz) : Live(h, p)}
<1>1. /\ Walkable(h) /\ sz \in Nat /\ Visited(h, sz) = T /\ 0 \in T /\ 12 \in T
      /\ h[0].ino = Self /\ h[0].name = Dot /\ h[12].ino = up /\ h[12].name = DotDot
      /\ H \subseteq T /\ \A o \in T : Live(h, o) <=> o \in H \cup {0, 12}
      /\ \A o \in H : h[o].name \in DOMAIN ents /\ h[o].ino = ents[h[o].name]
  BY DirectoryFacts
<1>2. Holds(h, T, ents)
  BY DEF Directory, Sound
<1>3. 0 \notin H /\ 12 \notin H
  BY DEF Holders
<1>4. L = (H \cup {12}) \cup {0}
  BY <1>1
<1>5. ListOf(h, Listing(h, sz), L)
  BY <1>1, ListFacts
<1> HIDE DEF L
<1>6. ElemsOf(Listing(h, sz)) = {Entry(h, p) : p \in L} /\ IsFiniteSet(L)
      /\ Len(Listing(h, sz)) = Cardinality(L)
  BY <1>5 DEF ListOf
<1>7. {Entry(h, p) : p \in H} = {[name |-> n, ino |-> ents[n]] : n \in DOMAIN ents}
  <2> DEFINE A == {Entry(h, p) : p \in H}
             B == {[name |-> n, ino |-> ents[n]] : n \in DOMAIN ents}
  <2>1. ASSUME NEW p \in H PROVE Entry(h, p) \in B
    <3>1. h[p].name \in DOMAIN ents /\ h[p].ino = ents[h[p].name]
      BY <1>1
    <3>2. QED BY <3>1 DEF Entry
  <2>2. ASSUME NEW n \in DOMAIN ents PROVE [name |-> n, ino |-> ents[n]] \in A
    <3>1. PICK p \in H : h[p].name = n
      BY <1>2 DEF Holds
    <3>2. Entry(h, p) = [name |-> n, ino |-> ents[n]]
      BY <1>1, <3>1 DEF Entry
    <3>3. QED BY <3>2
  <2>3. A \subseteq B /\ B \subseteq A
    BY <2>1, <2>2
  <2> HIDE DEF A, B
  <2>4. A = B
    BY <2>3
  <2>5. QED BY <2>4 DEF A, B
<1>8. Entry(h, 0) = [name |-> Dot, ino |-> Self] /\ Entry(h, 12) = [name |-> DotDot, ino |-> up]
  BY <1>1 DEF Entry
<1>9. {Entry(h, p) : p \in L} = {Entry(h, p) : p \in H} \cup {Entry(h, 0), Entry(h, 12)}
  BY <1>4
<1>10. IsFiniteSet(H) /\ Cardinality(L) = Cardinality(H) + 2
  <2>1. H \subseteq L
    BY <1>4
  <2>2. IsFiniteSet(H)
    BY <1>6, <2>1, FS_Subset
  <2>3. IsFiniteSet(H \cup {12}) /\ Cardinality(H \cup {12}) = Cardinality(H) + 1
    BY <1>3, <2>2, FS_AddElement
  <2>4. 0 \notin H \cup {12}
    BY <1>3
  <2>5. Cardinality((H \cup {12}) \cup {0}) = Cardinality(H \cup {12}) + 1
    BY <2>3, <2>4, FS_AddElement
  <2>6. Cardinality(H) \in Nat
    BY <2>2, FS_CardinalityType
  <2>7. QED BY <1>4, <2>2, <2>3, <2>5, <2>6
<1>11. IsFiniteSet(DOMAIN ents) /\ Cardinality(DOMAIN ents) = Cardinality(H)
  BY <1>2, <1>10, HoldersCounted
<1> HIDE DEF H
<1>12. Len(Listing(h, sz)) = Cardinality(DOMAIN ents) + 2
  BY <1>6, <1>10, <1>11
<1>13. ElemsOf(Listing(h, sz)) = {[name |-> n, ino |-> ents[n]] : n \in DOMAIN ents}
                    \cup {[name |-> Dot, ino |-> Self], [name |-> DotDot, ino |-> up]}
  BY <1>6, <1>7, <1>8, <1>9
<1>14. QED BY <1>11, <1>12, <1>13

LEMMA EmptyFacts ==
    ASSUME NEW h, NEW sz, NEW T, NEW ents, NEW up, Directory(h, sz, T, ents, up), NEW of
    PROVE  IsEmpty(h, sz, of) <=> ents = <<>> /\ of = up
<1> DEFINE E == {[name |-> n, ino |-> ents[n]] : n \in DOMAIN ents}
           D(x) == {[name |-> Dot, ino |-> Self], [name |-> DotDot, ino |-> x]}
<1>1. ElemsOf(Listing(h, sz)) = E \cup D(up)
  BY ListedFacts
<1>2. DOMAIN ents \subseteq Names
  BY DEF Directory
<1>3. IsEmpty(h, sz, of) <=> E \cup D(up) = D(of)
  BY <1>1 DEF IsEmpty
<1>4. ASSUME E \cup D(up) = D(of) PROVE DOMAIN ents = {} /\ of = up
  <2>1. ASSUME NEW n \in DOMAIN ents PROVE FALSE
    <3>1. [name |-> n, ino |-> ents[n]] \in D(of)
      BY <1>4
    <3>2. n = Dot \/ n = DotDot
      BY <3>1
    <3>3. QED BY <1>2, <3>2, NeedFacts
  <2>2. of = up
    <3>1. [name |-> DotDot, ino |-> up] \in D(of)
      BY <1>4
    <3>2. QED BY <3>1, NeedFacts
  <2>3. QED BY <2>1, <2>2
<1>5. ASSUME DOMAIN ents = {}, of = up PROVE E \cup D(up) = D(of)
  BY <1>5
<1>6. ents = <<>> <=> DOMAIN ents = {}
  BY EmptyFunction DEF Directory
<1> HIDE DEF E, D
<1>7. QED BY <1>3, <1>4, <1>5, <1>6

LEMMA ParentFacts ==
    ASSUME NEW h, NEW sz, NEW T, NEW ents, NEW up, Directory(h, sz, T, ents, up)
    PROVE  /\ Readable(h, 0, DirBlkSize) /\ Readable(h, 12, DirBlkSize)
           /\ ReadParent(h) = up
<1>1. /\ Walkable(h) /\ sz \in Nat /\ sz >= DirBlkSize /\ Tiles(h, 0, sz, T)
      /\ 0 \in T /\ 12 \in T /\ h[0].ino = Self /\ h[0].name = Dot /\ h[0].reclen = 12
      /\ h[12].ino = up /\ h[12].name = DotDot
  BY DirectoryFacts
<1>2. DirBlkSize \in Nat /\ DirBlkSize >= 24
  BY DirBlkAssumption
<1>3. Tiles(h, 0, DirBlkSize, InBlock(T, 0))
  <2>1. 0 = 0 * DirBlkSize /\ 0 < sz /\ DirBlkSize = 0 + DirBlkSize /\ 0 \in Nat
    BY <1>1, <1>2
  <2>2. Sized(sz) /\ Starts(T, sz)
    BY DEF Directory, Bytes, Sound
  <2>3. QED BY <1>1, <2>1, <2>2, BlockTiles
<1>4. 0 \in InBlock(T, 0) /\ 12 \in InBlock(T, 0)
  BY <1>1, <1>2 DEF InBlock
<1>5. Readable(h, 0, DirBlkSize) /\ Readable(h, 12, DirBlkSize)
  <2>1. 0 \in Nat
    OBVIOUS
  <2>2. DirBlkSize \in Nat
    BY <1>2
  <2>3. \A o \in InBlock(T, 0) : Readable(h, o, DirBlkSize)
    BY <2>1, <2>2, <1>3, TileFacts
  <2>4. QED BY <2>3, <1>4
<1>6. QED BY <1>1, <1>5 DEF ReadParent

\* Each block's walk comes to its end, over records that are long enough.
LEMMA TiledFacts ==
    ASSUME NEW h, NEW sz, NEW T, NEW ents, NEW up, Directory(h, sz, T, ents, up),
           NEW k \in 0..(sz \div DirBlkSize - 1)
    PROVE  LET b == k * DirBlkSize
               c == Chain(h, b, b + DirBlkSize)
           IN  /\ c # <<>>
               /\ c[Len(c)] + h[c[Len(c)]].reclen = b + DirBlkSize
               /\ \A o \in ElemsOf(c) : h[o].reclen >= Used(h, o)
<1> DEFINE b == k * DirBlkSize
           c == Chain(h, b, b + DirBlkSize)
<1>1. /\ Walkable(h) /\ sz \in Nat /\ Tiles(h, 0, sz, T) /\ Bytes(h, sz) /\ Sized(sz)
      /\ Starts(T, sz) /\ sz \div DirBlkSize \in Nat
  BY DirectoryFacts, BytesFacts DEF Directory, Bytes, Sound
<1>2. k \in Nat /\ b < sz
  BY <1>1, BytesFacts
<1>3. b = k * DirBlkSize
  OBVIOUS
<1> HIDE DEF b
<1>4. /\ ElemsOf(c) = InBlock(T, b) /\ c # <<>> /\ c[Len(c)] \in T
      /\ Next1(h, c[Len(c)]) = b + DirBlkSize
  BY <1>1, <1>2, <1>3, BlockVisited
<1> HIDE DEF c
<1>5. \A o \in ElemsOf(c) : o \in T
  BY <1>4 DEF InBlock
<1>6. ASSUME NEW o \in T PROVE h[o].reclen >= Used(h, o)
  <2>1. 0 \in Nat /\ sz \in Nat /\ Tiles(h, 0, sz, T)
    BY <1>1
  <2>2. /\ h[o].reclen \in Nat /\ Need(h[o].name) \in Nat
        /\ h[o].reclen >= Need(h[o].name)
    BY <2>1, TileFacts
  <2>3. QED BY <2>2 DEF Used
<1>7. QED BY <1>4, <1>5, <1>6 DEF Next1, b, c

-----------------------------------------------------------------------------
(* The invariant.                                                          *)

\* TypeOK and soundness of the bytes, for any directory.
Typed(h, sz, ents, up) ==
    /\ Bytes(h, sz)
    /\ DOMAIN ents \subseteq Names /\ ents \in [DOMAIN ents -> Inodes] /\ up \in Parents

LEMMA TypedFacts == TypeOK <=> Typed(heads, size, entries, parent) /\ merged \in BOOLEAN
BY DEF TypeOK, Typed, Bytes, Sized

LEMMA DirectoryNow ==
    ASSUME IInv, ~merged
    PROVE  Directory(heads, size, Visited(heads, size), entries, parent)
BY TypedFacts DEF IInv, Typed, Directory

\* However the records that tile the bytes are found, the walk visits them.
LEMMA InvFrom ==
    ASSUME NEW h, NEW sz, NEW ents, NEW up, Typed(h, sz, ents, up),
           NEW U, Sound(h, sz, U, ents, up)
    PROVE  Sound(h, sz, Visited(h, sz), ents, up)
<1>1. Directory(h, sz, U, ents, up)
  BY DEF Directory, Typed
<1>2. Visited(h, sz) = U
  BY <1>1, DirectoryFacts
<1>3. QED BY <1>2

LEMMA InitInv == Init => IInv
<1> SUFFICES ASSUME Init PROVE IInv
  OBVIOUS
<1>1. /\ heads = NewBlock(parent) /\ parent \in Parents
      /\ size = DirBlkSize /\ entries = <<>> /\ merged = FALSE
  BY DEF Init
<1>2. DirBlkSize \in Nat /\ DirBlkSize >= 24 /\ MaxBlks \in Nat \ {0}
  BY DirBlkAssumption
<1>3. Self \in Inos /\ parent \in Inos /\ DirentSize(1) = 12
  BY <1>1, NeedFacts DEF Inos
<1> DEFINE f == WriteDirent(<<>>, 0, 12, Dot, Self)
           rest == DirBlkSize - 12
           T == {0, 12}
<1>4. heads = WriteDirent(f, 12, rest, DotDot, parent)
  BY <1>1, <1>3 DEF NewBlock
<1>5. rest \in Nat /\ rest >= 12 /\ 12 + rest = DirBlkSize
  BY <1>2
<1>6. Writes(f, <<>>, 0, 12, Dot, Self)
  BY <1>3, WriteDirentFacts
<1> HIDE DEF f, rest
<1>7. Writes(heads, f, 12, rest, DotDot, parent)
  BY <1>3, <1>4, <1>5, WriteDirentFacts
<1>8. DOMAIN f = {0}
  BY <1>6 DEF Writes
<1>9. DOMAIN heads = T
  BY <1>7, <1>8 DEF Writes
<1>10. /\ heads[0] \in Header /\ heads[0].reclen = 12 /\ heads[0].name = Dot /\ heads[0].ino = Self
       /\ heads[12] \in Header /\ heads[12].reclen = rest /\ heads[12].name = DotDot
       /\ heads[12].ino = parent
  <2>1. heads[0] = f[0]
    BY <1>7, <1>9 DEF Writes
  <2>2. QED BY <1>6, <1>7, <2>1 DEF Writes
<1>11. Tiles(heads, 0, size, T)
  <2>1. Next1(heads, 0) = 12 /\ Next1(heads, 12) = DirBlkSize
    BY <1>5, <1>10 DEF Next1
  <2>2. 0 \in 0..(size - 1) /\ 12 \in 0..(size - 1)
    BY <1>1, <1>2
  <2>3. Need(Dot) = 12 /\ Need(DotDot) = 12
    BY NeedFacts
  <2>4. \A o \in T : heads[o] \in Header /\ heads[o].reclen >= Need(heads[o].name)
    BY <1>5, <1>10, <2>3
  <2>5. \A o \in T : Next1(heads, o) \in T \cup {size}
    BY <1>1, <2>1
  <2>6. \A o, q \in T : o < q => Next1(heads, o) <= q
    BY <2>1
  <2>7. QED BY <1>9, <2>2, <2>4, <2>5, <2>6 DEF Tiles
<1>12. Starts(T, size)
  <2> SUFFICES ASSUME NEW k \in Nat, k * DirBlkSize < size PROVE k * DirBlkSize \in T
    BY DEF Starts
  <2>1. 1 * DirBlkSize = DirBlkSize /\ 0 * DirBlkSize = 0
    BY <1>2
  <2>2. k < 1
    BY <1>1, <2>1, Multiples
  <2>3. k = 0
    BY <2>2
  <2>4. QED BY <2>1, <2>3
<1>13. DotsFirst(heads, T, parent)
  BY <1>10 DEF DotsFirst
<1>14. Holds(heads, T, entries)
  <2>1. Holders(heads, T) = {}
    BY DEF Holders
  <2>2. DOMAIN entries = {}
    BY <1>1
  <2>3. QED BY <2>1, <2>2 DEF Holds
<1>15. Typed(heads, size, entries, parent)
  <2>1. Sized(size)
    <3>1. DirBlkSize = 1 * DirBlkSize /\ 1 \in 1..MaxBlks
      BY <1>2
    <3>2. QED BY <1>1, <3>1 DEF Sized
  <2>2. Bytes(heads, size)
    BY <1>1, <1>2, <1>9, <1>10, <2>1 DEF Bytes
  <2>3. DOMAIN entries \subseteq Names /\ entries \in [DOMAIN entries -> Inodes]
    BY <1>1
  <2>4. QED BY <1>1, <2>2, <2>3 DEF Typed
<1>16. Sound(heads, size, T, entries, parent)
  BY <1>11, <1>12, <1>13, <1>14 DEF Sound
<1>17. Sound(heads, size, Visited(heads, size), entries, parent)
  BY <1>15, <1>16, InvFrom
<1>18. QED BY <1>1, <1>15, <1>17, TypedFacts DEF IInv

LEMMA InvNext ==
    ASSUME Typed(heads', size', entries', parent'), merged' \in BOOLEAN,
           ~merged' => \E U : Sound(heads', size', U, entries', parent')
    PROVE  IInv'
<1>1. TypeOK'
  BY TypedFacts DEF TypeOK, Typed, Bytes, Sized
<1>2. ASSUME ~merged' PROVE Sound(heads', size', Visited(heads', size'), entries', parent')
  <2>1. PICK U : Sound(heads', size', U, entries', parent')
    BY <1>2
  <2>2. QED BY <2>1, InvFrom
<1>3. QED BY <1>1, <1>2 DEF IInv

LEMMA InsertInv ==
    ASSUME IInv, NEW n \in Names, NEW ino \in Inodes, InsertDirent(n, ino)
    PROVE  IInv'
<1>1. /\ ~merged /\ n \notin DOMAIN entries
      /\ InsertPlaced(n, ino) \/ InsertGrows(n, ino)
      /\ entries' = With(entries, n, ino) /\ parent' = parent /\ merged' = merged
  BY DEF InsertDirent, With
<1> DEFINE T == Visited(heads, size)
<1>2. Directory(heads, size, T, entries, parent)
  BY <1>1, DirectoryNow
<1>3. /\ Bytes(heads, size) /\ DOMAIN entries \subseteq Names
      /\ entries \in [DOMAIN entries -> Inodes] /\ parent \in Parents
  BY <1>2 DEF Directory
<1>4. DOMAIN entries' \subseteq Names /\ entries' \in [DOMAIN entries' -> Inodes]
  <2>1. DOMAIN entries' = DOMAIN entries \cup {n}
    BY <1>1 DEF With
  <2>2. With(entries, n, ino) \in [DOMAIN entries \cup {n} -> Inodes]
    BY <1>3 DEF With
  <2>3. QED BY <1>1, <1>3, <2>1, <2>2
<1> HIDE DEF T
<1>5. Bytes(heads', size') /\ \E U : Sound(heads', size', U, entries', parent')
  <2>1. CASE InsertPlaced(n, ino)
    <3> DEFINE o == FirstOf(Spots(heads, size, n))
    <3>1. Spots(heads, size, n) # {} /\ heads' = Place(heads, o, n, ino) /\ size' = size
      BY <2>1 DEF InsertPlaced
    <3>2. o \in Spots(heads, size, n)
      <4> DEFINE S == Spots(heads, size, n)
      <4>1. S \subseteq T
        BY DEF Spots, T
      <4>2. S \in SUBSET Nat /\ S # {}
        <5>1. \A x \in T : x \in Nat
          BY <1>2, DirectoryFacts, TileFacts
        <5>2. QED BY <5>1, <4>1, <3>1
      <4> HIDE DEF S
      <4>3. PICK x \in S : \A y \in S : x <= y
        BY <4>2, LeastNatural
      <4>4. FirstOf(S) \in S
        BY <4>3 DEF FirstOf
      <4>5. QED BY <4>4 DEF S
    <3>3. o \in T /\ HasRoom(heads, o, n)
      BY <3>2 DEF Spots, T
    <3> HIDE DEF o
    <3>4. /\ Bytes(Place(heads, o, n, ino), size)
          /\ \E U : Sound(Place(heads, o, n, ino), size, U, With(entries, n, ino), parent)
      BY <1>1, <1>2, <3>3, PlaceSound
    <3>5. QED BY <1>1, <3>1, <3>4
  <2>2. CASE InsertGrows(n, ino)
    <3>1. /\ size < MaxBlks * DirBlkSize /\ size' = size + DirBlkSize
          /\ heads' = WriteDirent(heads, size, DirBlkSize, n, ino)
      BY <2>2 DEF InsertGrows
    <3>2. QED BY <1>1, <1>2, <3>1, GrowSound
  <2>3. QED BY <1>1, <2>1, <2>2
<1>6. Typed(heads', size', entries', parent') /\ merged' \in BOOLEAN
  <2>1. merged \in BOOLEAN
    BY DEF IInv, TypeOK
  <2>2. QED BY <1>1, <1>3, <1>4, <1>5, <2>1 DEF Typed
<1>7. QED BY <1>5, <1>6, InvNext

LEMMA RemoveInv ==
    ASSUME IInv, NEW n \in Names, RemoveDirent(n)
    PROVE  IInv'
<1> DEFINE o == FirstOf(Matches(heads, size, n))
           T == Visited(heads, size)
<1>1. /\ ~merged /\ n \in DOMAIN entries
      /\ heads' = Erase(heads, o) /\ merged' = MergesAcrossHole(heads, o)
      /\ entries' = Without(entries, n) /\ size' = size /\ parent' = parent
  BY DEF RemoveDirent, Without
<1>2. Directory(heads, size, T, entries, parent)
  BY <1>1, DirectoryNow
<1>3. /\ Bytes(heads, size) /\ DOMAIN entries \subseteq Names
      /\ entries \in [DOMAIN entries -> Inodes] /\ parent \in Parents
  BY <1>2 DEF Directory
<1>4. o \in Holders(heads, T) /\ heads[o].name = n
  BY <1>1, <1>2, MatchesFacts
<1> HIDE DEF o, T
<1>5. Bytes(Erase(heads, o), size) /\ MergesAcrossHole(heads, o) \in BOOLEAN
  BY <1>2, <1>4, EraseBytes
<1>6. DOMAIN entries' \subseteq Names /\ entries' \in [DOMAIN entries' -> Inodes]
  <2>1. DOMAIN entries' = DOMAIN entries \ {n}
    BY <1>1 DEF Without
  <2>2. Without(entries, n) \in [DOMAIN entries \ {n} -> Inodes]
    BY <1>3 DEF Without
  <2>3. QED BY <1>1, <1>3, <2>1, <2>2
<1>7. Typed(heads', size', entries', parent') /\ merged' \in BOOLEAN
  BY <1>1, <1>3, <1>5, <1>6 DEF Typed
<1>8. ASSUME ~merged' PROVE \E U : Sound(heads', size', U, entries', parent')
  <2>1. ~MergesAcrossHole(heads, o)
    BY <1>1, <1>8
  <2>2. \E U : Sound(Erase(heads, o), size, U, Without(entries, heads[o].name), parent)
    BY <1>2, <1>4, <2>1, EraseSound
  <2>3. QED BY <1>1, <1>4, <2>2
<1>9. QED BY <1>7, <1>8, InvNext

LEMMA ParentInv ==
    ASSUME IInv, NEW up \in Parents, UpdateParent(up)
    PROVE  IInv'
<1> DEFINE T == Visited(heads, size)
<1>1. /\ ~merged /\ heads' = SetIno(heads, heads[0].reclen, up)
      /\ parent' = up /\ size' = size /\ entries' = entries /\ merged' = merged
  BY DEF UpdateParent
<1>2. Directory(heads, size, T, entries, parent)
  BY <1>1, DirectoryNow
<1>3. /\ DOMAIN entries \subseteq Names /\ entries \in [DOMAIN entries -> Inodes]
  BY <1>2 DEF Directory
<1>4. heads[0].reclen = 12
  BY <1>2, DirectoryFacts
<1> HIDE DEF T
<1>5. /\ Bytes(SetIno(heads, 12, up), size)
      /\ \E U : Sound(SetIno(heads, 12, up), size, U, entries, up)
  BY <1>2, ParentSound
<1>6. Typed(heads', size', entries', parent') /\ merged' \in BOOLEAN
  <2>1. merged \in BOOLEAN
    BY DEF IInv, TypeOK
  <2>2. QED BY <1>1, <1>3, <1>4, <1>5, <2>1 DEF Typed
<1>7. \E U : Sound(heads', size', U, entries', parent')
  BY <1>1, <1>4, <1>5
<1>8. QED BY <1>6, <1>7, InvNext

LEMMA StutterInv ==
    ASSUME IInv, UNCHANGED vars
    PROVE  IInv'
<1>1. /\ heads' = heads /\ size' = size /\ entries' = entries /\ parent' = parent
      /\ merged' = merged
  BY DEF vars
<1>2. Typed(heads, size, entries, parent) /\ merged \in BOOLEAN
  BY TypedFacts DEF IInv
<1>3. Typed(heads', size', entries', parent') /\ merged' \in BOOLEAN
  BY <1>1, <1>2
<1>4. ASSUME ~merged' PROVE \E U : Sound(heads', size', U, entries', parent')
  BY <1>1, <1>4 DEF IInv
<1>5. QED BY <1>3, <1>4, InvNext

\* Whatever is inserted, removed and reparented in whatever order, until a
\* removal merges across a hole the bytes are records that tile their blocks
\* and hold the entries: nextufs__insert_dirent, nextufs__remove_dirent and
\* nextufs__update_directory_parent_inode keep IInv.
THEOREM DirBlkInvariant == Spec => []IInv
<1>1. Init => IInv
  BY InitInv
<1>2. IInv /\ [Next]_vars => IInv'
  BY InsertInv, RemoveInv, ParentInv, StutterInv DEF Next
<1>3. QED BY <1>1, <1>2, PTL DEF Spec

-----------------------------------------------------------------------------
(* The properties.                                                         *)

\* validate_tree of stress.c, for every directory: a walk gives the callers
\* the entries they inserted and did not remove, once each, and the two dots.
THEOREM DirBlkListsExactly == Spec => []ListsExactly
<1>1. IInv => ListsExactly
  <2>1. SUFFICES ASSUME IInv, ~merged PROVE WalkMatches
    BY DEF ListsExactly
  <2>2. QED BY <2>1, DirectoryNow, ListedFacts DEF WalkMatches
<1>2. QED BY <1>1, DirBlkInvariant, PTL

\* The types, and that the records of each block of DIRBLKSIZ bytes fill it:
\* what remove_dirent's walk of a block, and the reader's of all, rely on.
THEOREM DirBlkTiled == Spec => []Tiled
<1>1. IInv => Tiled
  <2>1. SUFFICES ASSUME IInv PROVE Tiled
    OBVIOUS
  <2>2. TypeOK
    BY <2>1 DEF IInv
  <2>3. ASSUME ~merged, NEW k \in 0..(size \div DirBlkSize - 1)
        PROVE  LET b == k * DirBlkSize
                   c == Chain(heads, b, b + DirBlkSize)
               IN  /\ c # <<>>
                   /\ c[Len(c)] + heads[c[Len(c)]].reclen = b + DirBlkSize
                   /\ \A o \in ElemsOf(c) : heads[o].reclen >= Used(heads, o)
    BY <2>1, <2>3, DirectoryNow, TiledFacts
  <2>4. QED BY <2>2, <2>3 DEF Tiled
<1>2. QED BY <1>1, DirBlkInvariant, PTL

\* rename removes its target and inserts the moved name in its place: the
\* bytes the removal frees hold it, in every directory.
THEOREM DirBlkRemovalFreesRoom == Spec => []RemovalFreesRoom
<1>1. IInv => RemovalFreesRoom
  <2>1. SUFFICES ASSUME IInv, ~merged, NEW n \in DOMAIN entries
                 PROVE  Spots(Erase(heads, FirstOf(Matches(heads, size, n))), size, n) # {}
    BY DEF RemovalFreesRoom
  <2> DEFINE o == FirstOf(Matches(heads, size, n))
             T == Visited(heads, size)
  <2>2. Directory(heads, size, T, entries, parent)
    BY <2>1, DirectoryNow
  <2>3. o \in Holders(heads, T) /\ heads[o].name = n
    BY <2>2, MatchesFacts
  <2> HIDE DEF o, T
  <2>4. Spots(Erase(heads, o), size, heads[o].name) # {}
    BY <2>2, <2>3, EraseFreesRoom
  <2>5. QED BY <2>3, <2>4 DEF o
<1>2. QED BY <1>1, DirBlkInvariant, PTL

\* nextufs__directory_is_empty lets rmdir and rename delete a directory just
\* when no entry is left in it.
THEOREM DirBlkEmptyAgrees == Spec => []EmptyAgrees
<1>1. IInv => EmptyAgrees
  <2>1. SUFFICES ASSUME IInv, ~merged, NEW up \in Parents
                 PROVE  IsEmpty(heads, size, up) <=> entries = <<>> /\ up = parent
    BY DEF EmptyAgrees
  <2>2. QED BY <2>1, DirectoryNow, EmptyFacts
<1>2. QED BY <1>1, DirBlkInvariant, PTL

\* nextufs__read_directory_parent_inode reads the parent rename wrote last.
THEOREM DirBlkParentReadable == Spec => []ParentReadable
<1>1. IInv => ParentReadable
  <2>1. SUFFICES ASSUME IInv, ~merged PROVE ReadParent(heads) = parent
    BY DEF ParentReadable
  <2>2. QED BY <2>1, DirectoryNow, ParentFacts
<1>2. QED BY <1>1, DirBlkInvariant, PTL
=============================================================================
