--------------------------- MODULE DomainLogProofs ---------------------------
(***************************************************************************)
(* generator.py writes the domain of a pass exactly: whatever the ranges   *)
(* asked for and whatever the ordered mapfile.                             *)
(***************************************************************************)
EXTENDS DomainLog, FiniteSetTheorems, WellFoundedInduction, TLAPS

\* The bytes of a list grow by those of the range appended to it.
LEMMA AppendBytes ==
  ASSUME NEW S, NEW s \in Seq(S), NEW x \in S
  PROVE  /\ Append(s, x) \in Seq(S)
         /\ BytesOfList(Append(s, x)) = BytesOfList(s) \cup BytesOf(x)
<1> DEFINE t == Append(s, x)
<1>1. /\ t \in Seq(S) /\ Len(t) = Len(s) + 1
      /\ \A k \in 1..Len(s) : t[k] = s[k]
      /\ t[Len(s) + 1] = x
      /\ DOMAIN t = 1..(Len(s) + 1) /\ DOMAIN s = 1..Len(s) /\ Len(s) \in Nat
  OBVIOUS
<1>2. ASSUME NEW b \in BytesOfList(t)
      PROVE  b \in BytesOfList(s) \cup BytesOf(x)
  <2>1. PICK k \in DOMAIN t : b \in BytesOf(t[k])
    BY <1>2 DEF BytesOfList
  <2>2. CASE k = Len(s) + 1
    BY <2>1, <2>2, <1>1
  <2>3. CASE k \in 1..Len(s)
    BY <2>1, <2>3, <1>1 DEF BytesOfList
  <2> QED BY <2>2, <2>3, <1>1
<1>3. ASSUME NEW b \in BytesOfList(s) \cup BytesOf(x)
      PROVE  b \in BytesOfList(t)
  <2>1. CASE b \in BytesOf(x)
    <3>1. Len(s) + 1 \in DOMAIN t /\ t[Len(s) + 1] = x
      BY <1>1
    <3> QED BY <3>1, <2>1 DEF BytesOfList
  <2>2. CASE b \in BytesOfList(s)
    <3>1. PICK k \in DOMAIN s : b \in BytesOf(s[k])
      BY <2>2 DEF BytesOfList
    <3>2. k \in DOMAIN t /\ t[k] = s[k]
      BY <1>1, <3>1
    <3> QED BY <3>1, <3>2 DEF BytesOfList
  <2> QED BY <2>1, <2>2, <1>3
<1> QED BY <1>1, <1>2, <1>3

\* A separated list stays separated when a range beyond its end is appended.
LEMMA AppendSeparated ==
  ASSUME NEW s \in Seq(ByteRange), NEW x \in ByteRange, x.size > 0,
         IsSeparated(s), \A k \in DOMAIN s : EndOf(s[k]) < x.pos
  PROVE  IsSeparated(Append(s, x))
<1> DEFINE t == Append(s, x)
<1>1. /\ Len(t) = Len(s) + 1
      /\ \A k \in 1..Len(s) : t[k] = s[k]
      /\ t[Len(s) + 1] = x
      /\ DOMAIN t = 1..(Len(s) + 1) /\ DOMAIN s = 1..Len(s) /\ Len(s) \in Nat
  OBVIOUS
<1> HIDE DEF t
<1>2. \A k \in DOMAIN t : t[k].size > 0
  BY <1>1 DEF IsSeparated
<1>3. ASSUME NEW a \in DOMAIN t, NEW b \in DOMAIN t, a < b
      PROVE  EndOf(t[a]) < t[b].pos
  <2>1. a \in 1..Len(s)
    BY <1>1, <1>3
  <2>2. CASE b = Len(s) + 1
    BY <2>1, <2>2, <1>1
  <2>3. CASE b \in 1..Len(s)
    BY <2>1, <2>3, <1>1, <1>3 DEF IsSeparated
  <2> QED BY <2>2, <2>3, <1>1
<1> QED BY <1>2, <1>3 DEF IsSeparated, t

\* An entry further down an ordered mapfile starts no earlier.
LEMMA OrderedStarts ==
  ASSUME NEW es \in Seq(MapEntry), IsOrdered(es),
         NEW a \in DOMAIN es, NEW b \in DOMAIN es, a <= b
  PROVE  es[a].pos <= es[b].pos
<1>1. es[a] \in MapEntry /\ es[b] \in MapEntry
  OBVIOUS
<1>2. CASE a = b
  BY <1>1, <1>2 DEF MapEntry
<1>3. CASE a < b
  BY <1>1, <1>3 DEF MapEntry, IsOrdered, EndOf
<1> QED BY <1>2, <1>3

-----------------------------------------------------------------------------
\* A set of numbers that is not empty has a least one.
LEMMA LeastNumber ==
  ASSUME NEW T \in SUBSET Nat, T # {}
  PROVE  \E x \in T : \A y \in T : x <= y
<1>1. \E x \in T : \A y \in T : ~(<<y, x>> \in OpToRel(<, Nat))
  <2> HIDE DEF OpToRel
  <2> QED BY NatLessThanWellFounded, WFMin
<1>2. PICK x \in T : \A y \in T : ~(<<y, x>> \in OpToRel(<, Nat))
  BY <1>1
<1>3. OpToRel(<, Nat) = {ss \in Nat \X Nat : ss[1] < ss[2]}
  BY DEF OpToRel
<1>4. ASSUME NEW y \in T, ~(x <= y) PROVE FALSE
  <2>1. y \in Nat /\ x \in Nat /\ y < x
    BY <1>4
  <2>2. <<y, x>> \in {ss \in Nat \X Nat : ss[1] < ss[2]}
    BY <2>1
  <2> QED BY <1>2, <1>3, <2>2
<1> QED BY <1>2, <1>4

\* What holds of 0 and, with a number, of the next, holds of all.
LEMMA Induction ==
  ASSUME NEW S \in SUBSET Nat, 0 \in S, \A n \in S : n + 1 \in S
  PROVE  S = Nat
<1> SUFFICES ASSUME Nat \ S # {} PROVE FALSE
  OBVIOUS
<1>1. PICK x \in Nat \ S : \A y \in Nat \ S : x <= y
  BY LeastNumber
<1>2. x # 0 /\ x - 1 \in Nat /\ ~(x <= x - 1)
  BY <1>1
<1>3. x - 1 \in S
  BY <1>1, <1>2
<1>4. (x - 1) + 1 \in S
  BY <1>3
<1> QED BY <1>1, <1>4

\* The sums of the first numbers of a list.
Sums(ns) == CHOOSE sum : sum = [n \in 0..Len(ns) |-> IF n = 0 THEN 0 ELSE sum[n - 1] + ns[n]]

\* The sum of the first n + 1 numbers is that of the first n and the next.
LEMMA SumsFacts ==
  ASSUME NEW ns \in Seq(Nat)
  PROVE  /\ SumOf(ns) = Sums(ns)[Len(ns)]
         /\ Sums(ns)[0] = 0
         /\ \A n \in 0..Len(ns) : Sums(ns)[n] \in Nat
         /\ \A n \in 1..Len(ns) : Sums(ns)[n] = Sums(ns)[n - 1] + ns[n]
<1> DEFINE L == Len(ns)
           Is(g, m) == g = [n \in 0..m |-> IF n = 0 THEN 0 ELSE g[n - 1] + ns[n]]
           S == {m \in Nat : \E g : Is(g, m)}
<1>0. L \in Nat /\ \A n \in 1..L : ns[n] \in Nat
  OBVIOUS
<1>1. 0 \in S
  <2>1. Is([n \in 0..0 |-> 0], 0)
    OBVIOUS
  <2> QED BY <2>1
<1>2. ASSUME NEW m \in S PROVE m + 1 \in S
  <2>1. m \in Nat
    OBVIOUS
  <2>2. PICK g : Is(g, m)
    OBVIOUS
  <2> DEFINE h == [n \in 0..(m + 1) |-> IF n <= m THEN g[n] ELSE g[m] + ns[n]]
  <2>3. \A n \in 0..m : g[n] = IF n = 0 THEN 0 ELSE g[n - 1] + ns[n]
    BY <2>2
  <2>4. ASSUME NEW n \in 0..(m + 1)
        PROVE  h[n] = IF n = 0 THEN 0 ELSE h[n - 1] + ns[n]
    <3>1. CASE n = 0
      BY <2>1, <2>3, <3>1
    <3>2. CASE n \in 1..m
      <4>1. h[n] = g[n] /\ h[n - 1] = g[n - 1]
        BY <2>1, <3>2
      <4> QED BY <4>1, <2>3, <2>1, <3>2
    <3>3. CASE n = m + 1
      <4>1. h[n] = g[m] + ns[n] /\ h[n - 1] = g[m] /\ n # 0
        BY <2>1, <3>3
      <4> QED BY <4>1
    <3> QED BY <2>1, <3>1, <3>2, <3>3
  <2>5. Is(h, m + 1)
    BY <2>4
  <2> HIDE DEF h, Is
  <2> QED BY <2>1, <2>5
<1>3. S = Nat
  <2> HIDE DEF Is
  <2> QED BY <1>1, <1>2, Induction
<1>4. \E g : Is(g, L)
  <2> HIDE DEF Is, L
  <2> QED BY <1>0, <1>3
<1>5. SumOf(ns) = Sums(ns)[L] /\ Sums(ns) = CHOOSE g : Is(g, L)
  BY DEF SumOf, Sums
<1>6. Is(Sums(ns), L)
  <2> HIDE DEF Is, L
  <2> QED BY <1>4, <1>5
<1>7. /\ Sums(ns)[0] = 0
      /\ \A n \in 1..L : Sums(ns)[n] = Sums(ns)[n - 1] + ns[n]
  BY <1>0, <1>6
<1> DEFINE N == {n \in Nat : n <= L => Sums(ns)[n] \in Nat}
<1>8. N = Nat
  <2>1. 0 \in N
    BY <1>7
  <2>2. ASSUME NEW n \in N PROVE n + 1 \in N
    <3>1. CASE n + 1 <= L
      <4>1. n \in Nat /\ n <= L /\ n + 1 \in 1..L /\ (n + 1) - 1 = n
        BY <1>0, <3>1
      <4>2. Sums(ns)[n] \in Nat
        BY <4>1
      <4>3. Sums(ns)[n + 1] = Sums(ns)[n] + ns[n + 1] /\ ns[n + 1] \in Nat
        BY ONLY <1>0, <1>7, <4>1
      <4>4. Sums(ns)[n + 1] \in Nat
        BY ONLY <4>2, <4>3
      <4> QED BY <4>1, <4>4
    <3> QED BY <1>0, <3>1
  <2>3. N \in SUBSET Nat
    OBVIOUS
  <2> HIDE DEF N
  <2> QED BY <2>1, <2>2, <2>3, Induction
<1>9. \A n \in 0..L : Sums(ns)[n] \in Nat
  BY <1>0, <1>8
<1> QED BY <1>5, <1>7, <1>9

\* The bytes of a range lie between its ends.
LEMMA InRange ==
  ASSUME NEW x \in ByteRange, NEW b \in BytesOf(x)
  PROVE  x.pos <= b /\ b < EndOf(x) /\ b \in Int /\ EndOf(x) \in Nat
BY DEF ByteRange, BytesOf, EndOf

\* A range has as many bytes as its size says.
LEMMA BytesCount ==
  ASSUME NEW x \in ByteRange
  PROVE  IsFiniteSet(BytesOf(x)) /\ Cardinality(BytesOf(x)) = x.size
<1> DEFINE a == x.pos
           b == x.pos + x.size - 1
<1>1. a \in Int /\ b \in Int /\ x.size \in Nat /\ BytesOf(x) = a..b
  BY DEF ByteRange, BytesOf, EndOf
<1>2. (IF a > b THEN 0 ELSE b - a + 1) = x.size
  BY <1>1
<1> HIDE DEF a, b
<1> QED BY <1>1, <1>2, FS_Interval

\* Ranges that never touch have as many bytes as their sizes say.
LEMMA SeparatedSum ==
  ASSUME NEW rs \in Seq(ByteRange), IsSeparated(rs)
  PROVE  /\ IsFiniteSet(BytesOfList(rs))
         /\ SumOf(Sizes(rs)) = Cardinality(BytesOfList(rs))
<1> DEFINE L == Len(rs)
           First(n) == UNION {BytesOf(rs[k]) : k \in 1..n}
           N == {n \in Nat : n <= L =>
                  IsFiniteSet(First(n)) /\ Cardinality(First(n)) = Sums(Sizes(rs))[n]}
<1>0. L \in Nat /\ DOMAIN rs = 1..L /\ \A k \in 1..L : rs[k] \in ByteRange
  OBVIOUS
<1>1. /\ Sizes(rs) \in Seq(Nat) /\ Len(Sizes(rs)) = L
      /\ \A k \in 1..L : Sizes(rs)[k] = rs[k].size /\ rs[k].size \in Nat
  BY <1>0 DEF Sizes, ByteRange
<1>2. /\ Sums(Sizes(rs))[0] = 0
      /\ \A n \in 1..L : Sums(Sizes(rs))[n] = Sums(Sizes(rs))[n - 1] + rs[n].size
      /\ SumOf(Sizes(rs)) = Sums(Sizes(rs))[L]
  BY <1>1, SumsFacts
<1>3. 0 \in N
  <2>1. First(0) = {}
    OBVIOUS
  <2> QED BY <1>2, <2>1, FS_EmptySet
<1>4. ASSUME NEW n \in N PROVE n + 1 \in N
  <2>1. CASE n + 1 <= L
    <3>1. n \in Nat /\ n <= L /\ n + 1 \in 1..L /\ (n + 1) - 1 = n
      BY <1>0, <2>1
    <3>2. IsFiniteSet(First(n)) /\ Cardinality(First(n)) = Sums(Sizes(rs))[n]
      BY <3>1
    <3> DEFINE x == rs[n + 1]
    <3>0. x \in ByteRange
      BY <1>0, <3>1
    <3>3. x.pos \in Nat /\ x.size \in Nat
      BY <1>0, <3>1 DEF ByteRange
    <3>4. IsFiniteSet(BytesOf(x)) /\ Cardinality(BytesOf(x)) = x.size
      BY <3>0, BytesCount
    <3>5. First(n) \cap BytesOf(x) = {}
      <4> SUFFICES ASSUME NEW k \in 1..n, NEW b \in BytesOf(rs[k]), b \in BytesOf(x)
                   PROVE  FALSE
        OBVIOUS
      <4>1. k \in 1..L /\ k < n + 1 /\ rs[k] \in ByteRange
        BY <1>0, <3>1
      <4>2. EndOf(rs[k]) < x.pos
        BY <1>0, <3>1, <4>1 DEF IsSeparated
      <4>3. b < EndOf(rs[k]) /\ x.pos <= b /\ EndOf(rs[k]) \in Nat /\ b \in Int
        BY <3>0, <4>1, InRange
      <4> QED BY <3>3, <4>2, <4>3
    <3>6. First(n + 1) = First(n) \cup BytesOf(x)
      <4>1. 1..(n + 1) = 1..n \cup {n + 1}
        BY <3>1
      <4> QED BY <4>1
    <3>9. Sums(Sizes(rs))[n + 1] = Sums(Sizes(rs))[n] + x.size
      BY <1>2, <3>1
    <3> DEFINE F == First(n)
               B == BytesOf(x)
               sum == Sums(Sizes(rs))[n]
    <3>10. IsFiniteSet(F) /\ Cardinality(F) = sum /\ F \cap B = {} /\ First(n + 1) = F \cup B
      BY <3>2, <3>5, <3>6
    <3>11. /\ IsFiniteSet(First(n + 1))
           /\ Cardinality(First(n + 1)) = Sums(Sizes(rs))[n + 1]
           => n + 1 \in N
      BY <3>1
    <3> HIDE DEF x, First, F, B, N
    <3>7. IsFiniteSet(F \cup B) /\ Cardinality(F \cup B) = Cardinality(F) + Cardinality(B)
      <4>1. Cardinality(F \cap B) = 0
        BY <3>10, FS_EmptySet
      <4>2. Cardinality(F) \in Nat /\ Cardinality(B) \in Nat
        BY <3>4, <3>10, FS_CardinalityType DEF B
      <4>3. /\ IsFiniteSet(F \cup B)
            /\ Cardinality(F \cup B) = Cardinality(F) + Cardinality(B) - Cardinality(F \cap B)
        BY <3>4, <3>10, FS_Union DEF B
      <4> QED BY <4>1, <4>2, <4>3
    <3> QED BY <3>4, <3>7, <3>9, <3>10, <3>11 DEF B
  <2> QED BY <1>0, <2>1
<1>5. N = Nat
  <2>1. N \in SUBSET Nat
    OBVIOUS
  <2> HIDE DEF N
  <2> QED BY <1>3, <1>4, <2>1, Induction
<1>6. IsFiniteSet(First(L)) /\ Cardinality(First(L)) = Sums(Sizes(rs))[L]
  <2>1. L \in N
    BY <1>0, <1>5
  <2> QED BY <1>0, <2>1
<1> QED BY <1>0, <1>2, <1>6 DEF BytesOfList

-----------------------------------------------------------------------------
\* Membership of a byte in the rescued bytes of a mapfile.
LEMMA RescuedMember ==
  ASSUME NEW es, NEW b
  PROVE  b \in Rescued(es) <=>
           \E k \in DOMAIN es : es[k].status = STATUS_FINISHED /\ b \in BytesOf(es[k])
BY DEF Rescued

\* The ranges before n + 1 are those before n and the n-th.
LEMMA RequestedStep ==
  ASSUME NEW n \in Nat, n >= 1
  PROVE  RequestedBefore(n + 1) = RequestedBefore(n) \cup BytesOf(needed[n])
<1>1. 1..((n + 1) - 1) = 1..(n - 1) \cup {n}
  OBVIOUS
<1> QED BY <1>1 DEF RequestedBefore

\* A piece that is not empty is a byte range holding the bytes in between.
LEMMA PieceFacts ==
  ASSUME NEW from \in Nat, NEW to \in Nat, from < to
  PROVE  /\ Piece(from, to) \in ByteRange
         /\ BytesOf(Piece(from, to)) = {b \in Nat : from <= b /\ b < to}
BY DEF Piece, ByteRange, BytesOf, EndOf

\* The bytes of a range, one by one.
LEMMA BytesMember ==
  ASSUME NEW x, x.pos \in Nat, x.size \in Nat, NEW b
  PROVE  b \in BytesOf(x) <=> b \in Nat /\ x.pos <= b /\ b < EndOf(x)
BY DEF BytesOf, EndOf

\* What the pieces of the code that build a range build.
LEMMA CurFacts ==
  ASSUME NEW c \in Interval, c.lo < c.hi
  PROVE  /\ Piece(c.lo, c.hi) \in ByteRange
         /\ Piece(c.lo, c.hi).size > 0 /\ Piece(c.lo, c.hi).pos = c.lo
         /\ EndOf(Piece(c.lo, c.hi)) = c.hi /\ BytesOf(Piece(c.lo, c.hi)) = SpanOf(c)
BY DEF Interval, Piece, ByteRange, EndOf, BytesOf, SpanOf

\* The intervals of the argument are non-empty and hold exactly its bytes.
LEMMA IntervalsFacts ==
  ASSUME arg \in Seq(ByteRange)
  PROVE  /\ Intervals \subseteq Interval
         /\ \A v \in Intervals : v.lo < v.hi
         /\ UNION {SpanOf(v) : v \in Intervals} = BytesOfList(arg)
         /\ IsFiniteSet(Intervals)
<1>1. \A k \in DOMAIN arg : arg[k] \in ByteRange
  OBVIOUS
<1>2. Intervals \subseteq Interval /\ \A v \in Intervals : v.lo < v.hi
  BY <1>1 DEF Intervals, Interval, ByteRange, EndOf
<1>3. UNION {SpanOf(v) : v \in Intervals} = BytesOfList(arg)
  <2>1. ASSUME NEW b \in BytesOfList(arg)
        PROVE  b \in UNION {SpanOf(v) : v \in Intervals}
    <3>1. PICK k \in DOMAIN arg : b \in BytesOf(arg[k])
      BY <2>1 DEF BytesOfList
    <3>2. arg[k].size > 0 /\ arg[k] \in ByteRange
      BY <3>1, <1>1 DEF BytesOf, EndOf, ByteRange
    <3> DEFINE v == [lo |-> arg[k].pos, hi |-> EndOf(arg[k])]
    <3>3. v \in Intervals /\ b \in SpanOf(v)
      BY <3>1, <3>2 DEF Intervals, SpanOf, BytesOf
    <3> QED BY <3>3
  <2>2. ASSUME NEW v \in Intervals, NEW b \in SpanOf(v)
        PROVE  b \in BytesOfList(arg)
    <3>1. PICK k \in DOMAIN arg : v = [lo |-> arg[k].pos, hi |-> EndOf(arg[k])]
      BY DEF Intervals
    <3> QED BY <3>1, <2>2 DEF SpanOf, BytesOf, BytesOfList
  <2> QED BY <2>1, <2>2
<1>4. IsFiniteSet(Intervals)
  <2> DEFINE S == {j \in DOMAIN arg : arg[j].size > 0}
             f == [k \in S |-> [lo |-> arg[k].pos, hi |-> EndOf(arg[k])]]
  <2>1. IsFiniteSet(S)
    <3>1. DOMAIN arg = 1..Len(arg) /\ Len(arg) \in Nat
      OBVIOUS
    <3>2. IsFiniteSet(1..Len(arg))
      BY <3>1, FS_Interval
    <3> QED BY <3>1, <3>2, FS_Subset
  <2>2. \A v \in Intervals : \E k \in S : f[k] = v
    BY DEF Intervals
  <2>3. f \in [S -> Intervals]
    BY DEF Intervals
  <2>4. f \in Surjection(S, Intervals)
    BY <2>2, <2>3 DEF Surjection
  <2> QED BY <2>1, <2>4, FS_Surjection
<1> QED BY <1>2, <1>3, <1>4

\* The bytes before n + 1 are those before n and those of the n-th interval.
LEMMA SpansStep ==
  ASSUME NEW s, NEW n \in Nat, n >= 1
  PROVE  SpansBefore(s, n + 1) = SpansBefore(s, n) \cup SpanOf(s[n])
<1>1. 1..((n + 1) - 1) = 1..(n - 1) \cup {n}
  OBVIOUS
<1> QED BY <1>1 DEF SpansBefore

\* An entry that continues the domain log at its end keeps it contiguous.
LEMMA AppendTiles ==
  ASSUME NEW es \in Seq(MapEntry), NEW x \in MapEntry, x.size > 0, Tiles(es, x.pos)
  PROVE  Append(es, x) \in Seq(MapEntry) /\ Tiles(Append(es, x), EndOf(x))
<1> DEFINE t == Append(es, x)
<1>1. /\ t \in Seq(MapEntry) /\ Len(t) = Len(es) + 1 /\ Len(es) \in Nat
      /\ \A k \in 1..Len(es) : t[k] = es[k]
      /\ t[Len(es) + 1] = x
      /\ DOMAIN t = 1..(Len(es) + 1) /\ DOMAIN es = 1..Len(es)
      /\ (es = <<>> <=> Len(es) = 0) /\ t # <<>>
  OBVIOUS
<1> HIDE DEF t
<1>2. EndOf(x) = IF t = <<>> THEN 0 ELSE EndOf(t[Len(t)])
  BY <1>1
<1>3. ASSUME NEW k \in DOMAIN t
      PROVE  t[k].size > 0 /\ t[k].pos = (IF k = 1 THEN 0 ELSE EndOf(t[k - 1]))
  <2>1. CASE k \in 1..Len(es)
    <3>1. t[k] = es[k] /\ (k # 1 => t[k - 1] = es[k - 1])
      BY <1>1, <2>1
    <3> QED BY <3>1, <2>1, <1>1 DEF Tiles
  <2>2. CASE k = Len(es) + 1
    <3>1. t[k] = x
      BY <1>1, <2>2
    <3>2. k # 1 => t[k - 1] = es[Len(es)] /\ es # <<>>
      BY <1>1, <2>2
    <3>3. k = 1 => es = <<>>
      BY <1>1, <2>2
    <3> QED BY <3>1, <3>2, <3>3 DEF Tiles
  <2> QED BY <2>1, <2>2, <1>1, <1>3
<1> QED BY <1>1, <1>2, <1>3 DEF Tiles, t

\* Of an entry appended, the rescued bytes are counted if it is a '+'.
LEMMA AppendRescued ==
  ASSUME NEW es \in Seq(MapEntry), NEW x \in MapEntry
  PROVE  Rescued(Append(es, x)) =
           Rescued(es) \cup (IF x.status = STATUS_FINISHED THEN BytesOf(x) ELSE {})
<1> DEFINE t == Append(es, x)
<1>1. /\ \A k \in 1..Len(es) : t[k] = es[k]
      /\ t[Len(es) + 1] = x /\ Len(es) \in Nat
      /\ DOMAIN t = 1..(Len(es) + 1) /\ DOMAIN es = 1..Len(es)
  OBVIOUS
<1> HIDE DEF t
<1>2. ASSUME NEW b
      PROVE  b \in Rescued(t) <=>
               b \in Rescued(es) \/ (x.status = STATUS_FINISHED /\ b \in BytesOf(x))
  <2>1. \A k : k \in DOMAIN t <=> k \in DOMAIN es \/ k = Len(es) + 1
    BY <1>1
  <2>2. b \in Rescued(t) <=>
          \E k \in DOMAIN t : t[k].status = STATUS_FINISHED /\ b \in BytesOf(t[k])
    BY RescuedMember
  <2>3. b \in Rescued(es) <=>
          \E k \in DOMAIN es : es[k].status = STATUS_FINISHED /\ b \in BytesOf(es[k])
    BY RescuedMember
  <2>4. (\E k \in DOMAIN t : t[k].status = STATUS_FINISHED /\ b \in BytesOf(t[k]))
          <=> \/ \E k \in DOMAIN es : t[k].status = STATUS_FINISHED /\ b \in BytesOf(t[k])
              \/ x.status = STATUS_FINISHED /\ b \in BytesOf(x)
    BY <2>1, <1>1
  <2> QED BY <2>2, <2>3, <2>4, <1>1
<1> QED BY <1>2 DEF t

\* In the inner loop, everything the steps need about types.
LEMMA InnerTypes ==
  ASSUME IInv, pc = "entries"
  PROVE  /\ InnerInv /\ TypeOK
         /\ needed \in Seq(ByteRange) /\ entries \in Seq(MapEntry) /\ IsOrdered(entries)
         /\ r \in 1..Len(needed) /\ needed[r] \in ByteRange /\ end \in Nat
         /\ Len(needed) \in Nat /\ Len(entries) \in Nat
         /\ e \in 1..(Len(entries) + 1) /\ cursor \in Nat /\ result \in Seq(ByteRange)
         /\ e <= Len(entries) => /\ entries[e] \in MapEntry /\ EndOf(entries[e]) \in Nat
                                 /\ e \in DOMAIN entries
<1>1. TypeOK /\ InnerInv
  BY DEF IInv
<1>2. needed \in Seq(ByteRange) /\ entries \in Seq(MapEntry) /\ IsOrdered(entries)
  BY <1>1, ArgumentsAssumption DEF TypeOK, Mapfiles
<1>3. /\ r \in 1..Len(needed) /\ e \in 1..(Len(entries) + 1)
      /\ cursor \in Nat /\ result \in Seq(ByteRange)
  BY <1>1 DEF TypeOK, InnerInv
<1>4. needed[r] \in ByteRange /\ end \in Nat
  <2>1. needed[r] \in ByteRange
    BY <1>2, <1>3
  <2> QED BY <2>1 DEF end, EndOf, ByteRange
<1>5. ASSUME e <= Len(entries)
      PROVE  /\ entries[e] \in MapEntry /\ EndOf(entries[e]) \in Nat
             /\ e \in DOMAIN entries
  <2>1. e \in DOMAIN entries /\ entries[e] \in MapEntry
    BY <1>2, <1>3, <1>5
  <2> QED BY <2>1 DEF MapEntry, EndOf
<1> QED BY <1>1, <1>2, <1>3, <1>4, <1>5

\* No rescued byte lies between the cursor and the start of the next entry.
LEMMA NothingRescuedBetween ==
  ASSUME IInv, pc = "entries", NEW b \in Nat, cursor <= b,
         e <= Len(entries) => b < entries[e].pos
  PROVE  b \notin Rescued(entries)
<1> SUFFICES ASSUME NEW k \in DOMAIN entries, entries[k].status = STATUS_FINISHED,
                    b \in BytesOf(entries[k])
             PROVE  FALSE
  BY RescuedMember
<1>1. entries[k] \in MapEntry /\ k \in 1..Len(entries)
  BY InnerTypes
<1>2. entries[k].pos <= b /\ b < EndOf(entries[k])
  BY <1>1 DEF BytesOf, EndOf, MapEntry
<1>3. CASE k < e
  <2>1. EndOf(entries[k]) <= cursor
    BY <1>1, <1>3, InnerTypes DEF InnerInv
  <2> QED BY <2>1, <1>1, <1>2, InnerTypes DEF EndOf, MapEntry
<1>4. CASE e <= k
  <2>1. e <= Len(entries) /\ e \in DOMAIN entries
    BY <1>1, <1>4, InnerTypes
  <2>2. entries[e].pos <= entries[k].pos
    BY <2>1, <1>4, InnerTypes, OrderedStarts
  <2>3. entries[e] \in MapEntry
    BY <2>1, InnerTypes
  <2> QED BY <2>1, <2>2, <2>3, <1>1, <1>2 DEF MapEntry
<1> QED BY <1>1, <1>3, <1>4, InnerTypes

\* At the head of the loop of merge_ranges, everything the steps need.
LEMMA LoopTypes ==
  ASSUME IInv, pc = "loop"
  PROVE  /\ TypeOK /\ SortedInv /\ LoopInv /\ CallInv /\ domain = <<>>
         /\ cur \in Interval /\ cur.lo < cur.hi /\ merged \in Seq(ByteRange)
         /\ intervals \in Seq(Interval) /\ Len(intervals) \in Nat
         /\ i \in Nat /\ i >= 2 /\ i <= Len(intervals) + 1
         /\ \A k \in DOMAIN intervals : intervals[k].lo < intervals[k].hi
         /\ i <= Len(intervals) => intervals[i] \in Interval /\ cur.lo <= intervals[i].lo
<1>1. TypeOK /\ SortedInv /\ LoopInv /\ CallInv /\ domain = <<>>
  BY DEF IInv
<1>2. /\ cur \in Interval /\ merged \in Seq(ByteRange) /\ intervals \in Seq(Interval)
      /\ arg \in Seq(ByteRange)
  BY <1>1 DEF TypeOK
<1>3. \A k \in DOMAIN intervals : intervals[k].lo < intervals[k].hi
  BY <1>1, <1>2, IntervalsFacts DEF SortedInv
<1>4. ASSUME i <= Len(intervals) PROVE intervals[i] \in Interval /\ cur.lo <= intervals[i].lo
  <2>1. PICK k \in 1..(i - 1) : cur.lo = intervals[k].lo
    BY <1>1 DEF LoopInv
  <2>2. k \in DOMAIN intervals /\ i \in DOMAIN intervals /\ k < i
    BY <1>1, <1>2, <1>4 DEF LoopInv
  <2> QED BY <2>1, <2>2, <1>1, <1>2 DEF SortedInv
<1>5. cur.lo < cur.hi /\ i \in 2..(Len(intervals) + 1) /\ Len(intervals) \in Nat
  BY <1>1, <1>2 DEF LoopInv
<1> QED BY <1>1, <1>2, <1>3, <1>4, <1>5

\* sorted(...) is in order, and the first interval is all of what lies before.
LEMMA SortStep ==
  ASSUME IInv, Sort
  PROVE  IInv'
<1>0. TypeOK /\ arg \in Seq(ByteRange) /\ CallInv /\ domain = <<>>
  BY DEF IInv, Sort, TypeOK
<1>1. PICK s \in [1..Cardinality(Intervals) -> Intervals] :
        /\ \A v \in Intervals : \E k \in DOMAIN s : s[k] = v
        /\ \A a, b \in DOMAIN s : a < b => Before(s[a], s[b])
        /\ intervals' = s
        /\ cur' = s[1]
  BY DEF Sort
<1>2. /\ Cardinality(Intervals) \in Nat /\ Cardinality(Intervals) >= 1
      /\ Intervals \subseteq Interval /\ \A v \in Intervals : v.lo < v.hi
  BY <1>0, IntervalsFacts, FS_CardinalityType, FS_EmptySet DEF Sort
<1>3. s \in Seq(Intervals) /\ Len(s) = Cardinality(Intervals)
      /\ DOMAIN s = 1..Len(s) /\ s[1] \in Intervals
  BY <1>1, <1>2
<1>4. s \in Seq(Interval)
  BY <1>2, <1>3
<1>5. /\ pc' = "loop" /\ i' = 2 /\ merged' = <<>> /\ arg' = arg
      /\ asked' = asked /\ entries' = entries /\ caller' = caller
      /\ UNCHANGED <<lists, subtractVars, domain>>
  BY DEF Sort, arguments
<1>6. TypeOK'
  BY <1>0, <1>1, <1>2, <1>3, <1>4, <1>5 DEF TypeOK, lists, subtractVars
<1>7. Intervals' = Intervals
  BY <1>5 DEF Intervals
<1>8. SortedInv'
  <2>1. \A a, b \in DOMAIN s : a < b => s[a].lo <= s[b].lo
    <3> TAKE a, b \in DOMAIN s
    <3>1. Before(s[a], s[b]) \/ ~(a < b)
      BY <1>1
    <3>2. s[a] \in Interval /\ s[b] \in Interval
      BY <1>3, <1>4
    <3> QED BY <3>1, <3>2 DEF Before, Interval
  <2> QED BY <2>1, <1>1, <1>3, <1>7 DEF SortedInv
<1>9. LoopInv'
  <2>1. SpansBefore(intervals', i') = SpanOf(cur')
    <3>1. 1..(i' - 1) = {1}
      BY <1>5
    <3> QED BY <3>1, <1>1 DEF SpansBefore
  <2>2. BytesOfList(merged') = {} /\ IsSeparated(merged')
    BY <1>5 DEF BytesOfList, IsSeparated
  <2>3. cur'.lo < cur'.hi /\ i' \in 2..(Len(intervals') + 1)
    BY <1>1, <1>2, <1>3, <1>5
  <2>4. \E k \in 1..(i' - 1) : cur'.lo = intervals'[k].lo
    BY <1>1, <1>5
  <2>5. \A k \in DOMAIN merged' : EndOf(merged'[k]) < cur'.lo
    BY <1>5
  <2> QED BY <2>1, <2>2, <2>3, <2>4, <2>5 DEF LoopInv, BytesOfList, IsSeparated
<1>10. CallInv'
  BY <1>0, <1>5 DEF CallInv, StillNeeded
<1> QED BY <1>0, <1>5, <1>6, <1>8, <1>9, <1>10 DEF IInv, MergeKeepsBytes, MergeSeparates, DomainExact, DomainContiguous

\* Nothing to merge: the empty result holds the bytes of the argument.
LEMMA ReturnEmptyStep ==
  ASSUME IInv, ReturnEmpty
  PROVE  IInv'
<1>0. TypeOK /\ arg \in Seq(ByteRange) /\ CallInv /\ domain = <<>>
  BY DEF IInv, ReturnEmpty, TypeOK
<1>1. BytesOfList(arg) = {}
  BY <1>0, IntervalsFacts DEF ReturnEmpty
<1>2. /\ merged' = <<>> /\ arg' = arg /\ pc' = "return" /\ caller' = caller
      /\ asked' = asked /\ entries' = entries
      /\ UNCHANGED <<intervals, i, cur, lists, subtractVars, domain>>
  BY DEF ReturnEmpty, arguments
<1>3. MergeKeepsBytes' /\ MergeSeparates'
  BY <1>1, <1>2 DEF MergeKeepsBytes, MergeSeparates, BytesOfList, IsSeparated
<1>4. TypeOK'
  BY <1>0, <1>2 DEF TypeOK, lists, subtractVars
<1>5. CallInv'
  BY <1>0, <1>2 DEF CallInv, StillNeeded
<1> QED BY <1>0, <1>2, <1>3, <1>4, <1>5 DEF IInv, DomainExact, DomainContiguous

\* An interval that overlaps or touches the current range makes it longer.
LEMMA ExtendStep ==
  ASSUME IInv, Extend
  PROVE  IInv'
<1>1. /\ pc = "loop" /\ i <= Len(intervals) /\ intervals[i].lo <= cur.hi
      /\ pc' = "loop" /\ i' = i + 1 /\ intervals' = intervals /\ merged' = merged
      /\ cur' = [cur EXCEPT !.hi = IF @ < intervals[i].hi THEN intervals[i].hi ELSE @]
      /\ arg' = arg /\ caller' = caller /\ asked' = asked /\ entries' = entries
      /\ UNCHANGED <<lists, subtractVars, domain>>
  BY DEF Extend, Joins, arguments
<1>2. /\ TypeOK /\ SortedInv /\ LoopInv /\ CallInv /\ domain = <<>>
      /\ cur \in Interval /\ i \in Nat /\ i >= 2
      /\ intervals \in Seq(Interval) /\ Len(intervals) \in Nat
      /\ intervals[i] \in Interval /\ cur.lo <= intervals[i].lo
      /\ intervals[i].lo < intervals[i].hi
  BY <1>1, LoopTypes
<1>3. /\ cur' \in Interval /\ cur'.lo = cur.lo /\ cur'.lo < cur'.hi
      /\ SpanOf(cur') = SpanOf(cur) \cup SpanOf(intervals[i])
  <2>1. cur.lo \in Nat /\ cur.hi \in Nat /\ intervals[i].lo \in Nat /\ intervals[i].hi \in Nat
        /\ cur.lo < cur.hi /\ cur = [lo |-> cur.lo, hi |-> cur.hi]
    BY <1>2 DEF Interval, LoopInv
  <2>2. cur'.lo = cur.lo
        /\ cur'.hi = (IF cur.hi < intervals[i].hi THEN intervals[i].hi ELSE cur.hi)
        /\ cur' = [lo |-> cur'.lo, hi |-> cur'.hi]
    BY <1>1, <2>1
  <2>3. cur' \in Interval /\ cur'.lo < cur'.hi
    BY <2>1, <2>2 DEF Interval
  <2>4. SpanOf(cur') = SpanOf(cur) \cup SpanOf(intervals[i])
    BY <2>1, <2>2, <1>1, <1>2, SMTT(30) DEF SpanOf
  <2> QED BY <2>2, <2>3, <2>4
<1>4. TypeOK'
  BY <1>1, <1>2, <1>3 DEF TypeOK, lists, subtractVars
<1>5. SortedInv'
  BY <1>1, <1>2 DEF SortedInv, Intervals
<1>6. LoopInv'
  <2>1. BytesOfList(merged') \cup SpanOf(cur') = SpansBefore(intervals', i')
    <3>1. SpansBefore(intervals, i + 1) = SpansBefore(intervals, i) \cup SpanOf(intervals[i])
      BY <1>2, SpansStep, SMTT(30)
    <3>2. BytesOfList(merged) \cup SpanOf(cur) = SpansBefore(intervals, i)
      BY <1>2 DEF LoopInv
    <3>3. BytesOfList(merged') = BytesOfList(merged)
      BY <1>1
    <3> QED BY <3>1, <3>2, <3>3, <1>1, <1>3
  <2>2. i' \in 2..(Len(intervals') + 1)
    BY <1>1, <1>2
  <2>3. \E k \in 1..(i' - 1) : cur'.lo = intervals'[k].lo
    <3>1. PICK k \in 1..(i - 1) : cur.lo = intervals[k].lo
      BY <1>2 DEF LoopInv
    <3> QED BY <3>1, <1>1, <1>2, <1>3
  <2>4. /\ \A k \in DOMAIN merged' : EndOf(merged'[k]) < cur'.lo
        /\ IsSeparated(merged')
    BY <1>1, <1>2, <1>3 DEF LoopInv
  <2> QED BY <2>1, <2>2, <2>3, <2>4, <1>3 DEF LoopInv, BytesOfList, IsSeparated
<1>7. CallInv'
  BY <1>1, <1>2 DEF CallInv, StillNeeded
<1> QED BY <1>1, <1>2, <1>4, <1>5, <1>6, <1>7 DEF IInv, MergeKeepsBytes, MergeSeparates, DomainExact, DomainContiguous

\* An interval beyond the current range: the range is in the result.
LEMMA EmitStep ==
  ASSUME IInv, Emit
  PROVE  IInv'
<1>1. /\ pc = "loop" /\ i <= Len(intervals) /\ ~(intervals[i].lo <= cur.hi)
      /\ pc' = "loop" /\ i' = i + 1 /\ intervals' = intervals
      /\ merged' = Append(merged, Piece(cur.lo, cur.hi)) /\ cur' = intervals[i]
      /\ arg' = arg /\ caller' = caller /\ asked' = asked /\ entries' = entries
      /\ UNCHANGED <<lists, subtractVars, domain>>
  BY DEF Emit, Joins, arguments
<1>2. /\ TypeOK /\ SortedInv /\ LoopInv /\ CallInv /\ domain = <<>>
      /\ cur \in Interval /\ i \in Nat /\ i >= 2
      /\ intervals \in Seq(Interval) /\ Len(intervals) \in Nat
      /\ merged \in Seq(ByteRange) /\ intervals[i] \in Interval
      /\ intervals[i].lo < intervals[i].hi /\ cur.lo < cur.hi
  BY <1>1, LoopTypes
<1>3. /\ Piece(cur.lo, cur.hi) \in ByteRange
      /\ Piece(cur.lo, cur.hi).size > 0 /\ Piece(cur.lo, cur.hi).pos = cur.lo
      /\ EndOf(Piece(cur.lo, cur.hi)) = cur.hi
      /\ BytesOf(Piece(cur.lo, cur.hi)) = SpanOf(cur)
  BY <1>2, CurFacts
<1>4. /\ merged' \in Seq(ByteRange)
      /\ BytesOfList(merged') = BytesOfList(merged) \cup SpanOf(cur)
  BY <1>1, <1>2, <1>3, AppendBytes
<1>5. TypeOK'
  BY <1>1, <1>2, <1>4 DEF TypeOK, lists, subtractVars
<1>6. SortedInv'
  BY <1>1, <1>2 DEF SortedInv, Intervals
<1>7. LoopInv'
  <2>1. BytesOfList(merged') \cup SpanOf(cur') = SpansBefore(intervals', i')
    <3>1. SpansBefore(intervals, i + 1) = SpansBefore(intervals, i) \cup SpanOf(intervals[i])
      BY <1>2, SpansStep
    <3>2. BytesOfList(merged) \cup SpanOf(cur) = SpansBefore(intervals, i)
      BY <1>2 DEF LoopInv
    <3> QED BY <3>1, <3>2, <1>4, <1>1
  <2>2. i' \in 2..(Len(intervals') + 1) /\ cur'.lo < cur'.hi
    BY <1>1, <1>2
  <2>3. \E k \in 1..(i' - 1) : cur'.lo = intervals'[k].lo
    BY <1>1, <1>2
  <2>4. IsSeparated(merged')
    BY <1>1, <1>2, <1>3, AppendSeparated DEF LoopInv
  <2>5. \A k \in DOMAIN merged' : EndOf(merged'[k]) < cur'.lo
    <3>1. /\ DOMAIN merged' = 1..(Len(merged) + 1) /\ DOMAIN merged = 1..Len(merged)
          /\ \A k \in DOMAIN merged : merged'[k] = merged[k]
          /\ merged'[Len(merged) + 1] = Piece(cur.lo, cur.hi) /\ Len(merged) \in Nat
      BY <1>1, <1>2, <1>3
    <3>2. cur.hi < cur'.lo /\ cur.lo < cur'.lo
      <4>1. cur' = intervals[i] /\ ~(cur'.lo <= cur.hi) /\ cur.lo < cur.hi
        BY <1>1, <1>2
      <4>2. cur.lo \in Nat /\ cur.hi \in Nat /\ cur'.lo \in Nat
        BY <4>1, <1>2 DEF Interval
      <4> QED BY <4>1, <4>2
    <3>3. \A k \in DOMAIN merged : EndOf(merged[k]) < cur.lo /\ EndOf(merged[k]) \in Nat
      <4>1. \A k \in DOMAIN merged : merged[k] \in ByteRange
        BY <1>2
      <4> QED BY <4>1, <1>2, SMTT(30) DEF LoopInv, ByteRange, EndOf
    <3>4. cur.lo \in Nat /\ cur.hi \in Nat /\ cur'.lo \in Nat
      BY <1>1, <1>2 DEF Interval
    <3> QED BY <3>1, <3>2, <3>3, <3>4, <1>3
  <2> QED BY <2>1, <2>2, <2>3, <2>4, <2>5 DEF LoopInv, BytesOfList, IsSeparated
<1>8. CallInv'
  BY <1>1, <1>2 DEF CallInv, StillNeeded
<1> QED BY <1>1, <1>2, <1>5, <1>6, <1>7, <1>8 DEF IInv, MergeKeepsBytes, MergeSeparates, DomainExact, DomainContiguous

\* The last range, and the result holds the bytes of all intervals.
LEMMA FinishStep ==
  ASSUME IInv, Finish
  PROVE  IInv'
<1>1. /\ pc = "loop" /\ i > Len(intervals)
      /\ pc' = "return" /\ i' = i /\ intervals' = intervals
      /\ merged' = Append(merged, Piece(cur.lo, cur.hi)) /\ cur' = cur
      /\ arg' = arg /\ caller' = caller /\ asked' = asked /\ entries' = entries
      /\ UNCHANGED <<lists, subtractVars, domain>>
  BY DEF Finish, arguments
<1>2. /\ TypeOK /\ SortedInv /\ LoopInv /\ CallInv /\ domain = <<>>
      /\ cur \in Interval /\ i \in Nat /\ arg \in Seq(ByteRange)
      /\ intervals \in Seq(Interval) /\ Len(intervals) \in Nat
      /\ merged \in Seq(ByteRange) /\ cur.lo < cur.hi
      /\ i = Len(intervals) + 1
  BY <1>1, LoopTypes DEF TypeOK
<1>3. /\ Piece(cur.lo, cur.hi) \in ByteRange
      /\ Piece(cur.lo, cur.hi).size > 0 /\ Piece(cur.lo, cur.hi).pos = cur.lo
      /\ EndOf(Piece(cur.lo, cur.hi)) = cur.hi
      /\ BytesOf(Piece(cur.lo, cur.hi)) = SpanOf(cur)
  BY <1>2, CurFacts
<1>4. /\ merged' \in Seq(ByteRange)
      /\ BytesOfList(merged') = BytesOfList(merged) \cup SpanOf(cur)
  BY <1>1, <1>2, <1>3, AppendBytes
<1>5. IsSeparated(merged')
  BY <1>1, <1>2, <1>3, AppendSeparated DEF LoopInv
<1>6. BytesOfList(merged') = BytesOfList(arg')
  <2>1. BytesOfList(merged') = SpansBefore(intervals, i)
    BY <1>2, <1>4 DEF LoopInv
  <2>2. SpansBefore(intervals, i) = UNION {SpanOf(v) : v \in Intervals}
    <3>1. 1..(i - 1) = DOMAIN intervals
      BY <1>2
    <3> QED BY <3>1, <1>2 DEF SortedInv, SpansBefore
  <2> QED BY <2>1, <2>2, <1>1, <1>2, IntervalsFacts
<1>7. TypeOK'
  BY <1>1, <1>2, <1>4 DEF TypeOK, lists, subtractVars
<1>8. CallInv'
  BY <1>1, <1>2 DEF CallInv, StillNeeded
<1> QED BY <1>1, <1>2, <1>5, <1>6, <1>7, <1>8 DEF IInv, MergeKeepsBytes, MergeSeparates, DomainExact, DomainContiguous

\* The frame of the loops of subtract_rescued.
LEMMA SubtractFrame ==
  ASSUME IInv, pc \in {"ranges", "entries"},
         UNCHANGED <<arguments, caller, arg, mergeVars, lists, domain>>,
         r' \in Nat \ {0}, e' \in Nat \ {0}, cursor' \in Nat, result' \in Seq(ByteRange),
         \/ pc' = "ranges" /\ OuterInv'
         \/ pc' = "entries" /\ InnerInv'
  PROVE  IInv'
<1>1. TypeOK /\ caller = "needed" /\ BytesOfList(needed) = BytesOfList(asked) /\ domain = <<>>
  BY DEF IInv
<1>2. /\ asked' = asked /\ entries' = entries /\ caller' = caller /\ arg' = arg
      /\ intervals' = intervals /\ i' = i /\ cur' = cur /\ merged' = merged
      /\ needed' = needed /\ remaining' = remaining /\ domain' = domain
  BY DEF arguments, mergeVars, lists
<1>3. TypeOK'
  BY <1>1, <1>2 DEF TypeOK
<1> QED BY <1>1, <1>2, <1>3 DEF IInv, MergeKeepsBytes, MergeSeparates, DomainExact, DomainContiguous

\* A range begins with nothing of it decided.
LEMMA StartRangeStep ==
  ASSUME IInv, StartRange
  PROVE  IInv'
<1>1. /\ pc = "ranges" /\ r <= Len(needed) /\ pc' = "entries" /\ e' = 1
      /\ cursor' = needed[r].pos /\ needed' = needed /\ entries' = entries
      /\ r' = r /\ result' = result
      /\ UNCHANGED <<arguments, caller, arg, mergeVars, lists, domain>>
  BY DEF StartRange, arguments, lists
<1>2. /\ needed \in Seq(ByteRange) /\ entries \in Seq(MapEntry) /\ OuterInv
      /\ r \in 1..Len(needed) /\ Len(entries) \in Nat /\ needed[r] \in ByteRange
      /\ result \in Seq(ByteRange)
  BY <1>1, ArgumentsAssumption DEF TypeOK, Mapfiles, IInv, OuterInv
<1>3. InnerInv'
  <2>1. {b \in BytesOf(needed[r]) : b < needed[r].pos} = {}
    BY <1>2 DEF BytesOf, EndOf, ByteRange
  <2>2. needed[r].pos >= needed[r].pos
    BY <1>2 DEF ByteRange
  <2> QED BY <2>1, <2>2, <1>1, <1>2 DEF InnerInv, OuterInv, RequestedBefore
<1>4. cursor' \in Nat /\ e' \in Nat \ {0} /\ r' \in Nat \ {0}
  BY <1>1, <1>2 DEF ByteRange
<1> QED BY <1>1, <1>2, <1>3, <1>4, SubtractFrame

\* An entry that changes nothing leaves every byte as it was decided.
LEMMA SkipEntryStep ==
  ASSUME IInv, SkipEntry
  PROVE  IInv'
<1>1. /\ pc = "entries" /\ e <= Len(entries) /\ pc' = pc /\ e' = e + 1
      /\ EndOf(entries[e]) <= cursor \/ entries[e].status # STATUS_FINISHED
      /\ needed' = needed /\ entries' = entries /\ r' = r /\ cursor' = cursor
      /\ result' = result
      /\ UNCHANGED <<arguments, caller, arg, mergeVars, lists, domain>>
  BY DEF SkipEntry, PastTheEnd, BehindCursor, arguments, lists
<1>2. InnerInv'
  <2>1. \A k \in 1..(e' - 1) :
          entries[k].status = STATUS_FINISHED => EndOf(entries[k]) <= cursor
    <3>1. \A k \in 1..(e' - 1) : k \in 1..(e - 1) \/ k = e
      BY <1>1, InnerTypes, SMTT(30)
    <3> QED BY <3>1, <1>1, InnerTypes DEF InnerInv
  <2> QED BY <2>1, <1>1, InnerTypes, SMTT(30) DEF InnerInv, RequestedBefore
<1>3. /\ cursor' \in Nat /\ e' \in Nat \ {0} /\ r' \in Nat \ {0}
      /\ result' \in Seq(ByteRange)
  <2>1. TypeOK
    BY DEF IInv
  <2> QED BY <2>1, <1>1 DEF TypeOK
<1> QED BY <1>1, <1>2, <1>3, SubtractFrame

\* A rescued entry: the bytes before it are in the result, its own are not.
LEMMA CutRescuedStep ==
  ASSUME IInv, CutRescued
  PROVE  IInv'
<1>1. /\ pc = "entries" /\ e <= Len(entries) /\ pc' = pc /\ e' = e + 1
      /\ ~(entries[e].pos >= end) /\ ~(EndOf(entries[e]) <= cursor)
      /\ entries[e].status = STATUS_FINISHED
      /\ needed' = needed /\ entries' = entries /\ r' = r
      /\ cursor' = EndOf(entries[e])
      /\ result' = IF entries[e].pos > cursor
                     THEN Append(result, Piece(cursor, entries[e].pos)) ELSE result
      /\ UNCHANGED <<arguments, caller, arg, mergeVars, lists, domain>>
  BY DEF CutRescued, PastTheEnd, BehindCursor, arguments, lists
<1> DEFINE p == entries[e].pos
           q == EndOf(entries[e])
           gap == {b \in Nat : cursor <= b /\ b < p}
<1>2. /\ p \in Nat /\ q \in Nat /\ cursor \in Nat /\ end \in Nat /\ p < end /\ cursor < q
      /\ e \in DOMAIN entries /\ e \in Nat
      /\ needed[r].pos \in Nat /\ needed[r].size \in Nat /\ cursor >= needed[r].pos
  <2>1. /\ entries[e] \in MapEntry /\ needed[r] \in ByteRange /\ InnerInv
        /\ q \in Nat /\ cursor \in Nat /\ end \in Nat /\ e \in DOMAIN entries
        /\ e \in 1..(Len(entries) + 1)
    BY <1>1, InnerTypes
  <2> QED BY <2>1, <1>1, SMTT(30) DEF MapEntry, ByteRange, InnerInv
<1>3. /\ result' \in Seq(ByteRange)
      /\ BytesOfList(result') = BytesOfList(result) \cup gap
  <2>1. CASE p > cursor
    <3>1. Piece(cursor, p) \in ByteRange /\ BytesOf(Piece(cursor, p)) = gap
      BY <1>2, <2>1, PieceFacts
    <3>2. result \in Seq(ByteRange)
      BY <1>1, InnerTypes
    <3> QED BY <3>1, <3>2, <2>1, <1>1, AppendBytes
  <2>2. CASE ~(p > cursor)
    <3>1. gap = {}
      BY <1>2, <2>2
    <3> QED BY <3>1, <2>2, <1>1, InnerTypes
  <2> QED BY <2>1, <2>2
<1>4. gap \cap Rescued(entries) = {}
  BY <1>1, <1>2, NothingRescuedBetween
<1>5. ASSUME NEW b \in BytesOf(needed[r]), b < q, ~(b < cursor)
      PROVE  b \in gap \/ b \in Rescued(entries)
  <2>1. b \in Nat /\ cursor <= b
    BY <1>2, <1>5 DEF BytesOf, EndOf
  <2>2. CASE b < p
    BY <2>1, <2>2
  <2>3. CASE ~(b < p)
    <3>1. b \in BytesOf(entries[e])
      BY <2>1, <2>3, <1>1, <1>2, <1>5 DEF BytesOf
    <3> QED BY <3>1, <1>1, <1>2, RescuedMember
  <2> QED BY <2>2, <2>3
<1>6. gap \subseteq {b \in BytesOf(needed[r]) : b < q}
  <2>1. ASSUME NEW b \in gap PROVE b \in BytesOf(needed[r]) /\ b < q
    <3>1. needed[r].pos <= b /\ b < end /\ b \in Nat
      BY <1>2, <2>1
    <3>2. b < q
      BY <1>2, <2>1, InnerTypes, <1>1, SMTT(30) DEF EndOf, MapEntry
    <3> QED BY <3>1, <3>2, <1>2 DEF BytesOf, end
  <2> QED BY <2>1
<1>7. BytesOfList(result') =
        (RequestedBefore(r) \cup {b \in BytesOf(needed[r]) : b < q}) \ Rescued(entries)
  <2>1. BytesOfList(result) =
          (RequestedBefore(r) \cup {b \in BytesOf(needed[r]) : b < cursor})
            \ Rescued(entries)
    BY <1>1, InnerTypes DEF InnerInv
  <2>2. \A b \in BytesOf(needed[r]) : b < cursor => b < q
    BY <1>2 DEF BytesOf, EndOf
  <2> HIDE DEF gap, q
  <2> QED BY <2>1, <2>2, <1>3, <1>4, <1>5, <1>6
<1>8. InnerInv'
  <2>1. \A k \in 1..(e' - 1) :
          entries[k].status = STATUS_FINISHED => EndOf(entries[k]) <= cursor'
    <3> SUFFICES ASSUME NEW k \in 1..(e' - 1), entries[k].status = STATUS_FINISHED
                 PROVE  EndOf(entries[k]) <= q
      BY <1>1
    <3>1. CASE k = e
      BY <3>1, <1>2
    <3>2. CASE k \in 1..(e - 1)
      <4>1. EndOf(entries[k]) <= cursor
        BY <3>2, <1>1, InnerTypes DEF InnerInv
      <4>2. k \in 1..Len(entries)
        BY <3>2, <1>1, InnerTypes, SMTT(30)
      <4>3. entries[k] \in MapEntry
        BY <4>2, <1>1, InnerTypes
      <4> QED BY <4>1, <4>3, <1>2 DEF EndOf, MapEntry
    <3> QED BY <3>1, <3>2, <1>1, <1>2
  <2>2. /\ r' \in 1..Len(needed') /\ e' \in 1..(Len(entries') + 1)
        /\ cursor' >= needed'[r'].pos
    <3>1. r \in 1..Len(needed) /\ e \in 1..(Len(entries) + 1) /\ Len(entries) \in Nat
      BY <1>1, InnerTypes
    <3>2. e + 1 \in 1..(Len(entries) + 1)
      BY <3>1, <1>1
    <3>3. q >= needed[r].pos
      BY <1>2
    <3> QED BY <3>1, <3>2, <3>3, <1>1
  <2> QED BY <2>1, <2>2, <1>1, <1>7 DEF InnerInv, RequestedBefore
<1>9. cursor' \in Nat /\ e' \in Nat \ {0} /\ r' \in Nat \ {0}
  <2>1. r \in Nat \ {0} /\ e \in Nat \ {0}
    BY DEF IInv, TypeOK
  <2> QED BY <2>1, <1>1, <1>2
<1> QED BY <1>1, <1>3, <1>8, <1>9, SubtractFrame

\* What is left of the range behind the cursor is not rescued.
LEMMA EndRangeStep ==
  ASSUME IInv, EndRange
  PROVE  IInv'
<1>1. /\ pc = "entries"
      /\ e <= Len(entries) => entries[e].pos >= end
      /\ pc' = "ranges" /\ r' = r + 1 /\ e' = e /\ cursor' = cursor
      /\ needed' = needed /\ entries' = entries
      /\ result' = IF cursor < end THEN Append(result, Piece(cursor, end)) ELSE result
      /\ UNCHANGED <<arguments, caller, arg, mergeVars, lists, domain>>
  BY DEF EndRange, PastTheEnd, arguments, lists
<1> DEFINE rest == {b \in Nat : cursor <= b /\ b < end}
<1>2. /\ cursor \in Nat /\ end \in Nat /\ r \in 1..Len(needed) /\ Len(needed) \in Nat
      /\ needed[r].pos \in Nat /\ needed[r].size \in Nat /\ cursor >= needed[r].pos
  BY <1>1, InnerTypes DEF ByteRange, InnerInv
<1>3. /\ result' \in Seq(ByteRange)
      /\ BytesOfList(result') = BytesOfList(result) \cup rest
  <2>1. CASE cursor < end
    <3>1. Piece(cursor, end) \in ByteRange /\ BytesOf(Piece(cursor, end)) = rest
      BY <1>2, <2>1, PieceFacts
    <3>2. result \in Seq(ByteRange)
      BY <1>1, InnerTypes
    <3> QED BY <3>1, <3>2, <2>1, <1>1, AppendBytes
  <2>2. CASE ~(cursor < end)
    <3>1. rest = {}
      BY <1>2, <2>2
    <3> QED BY <3>1, <2>2, <1>1, InnerTypes
  <2> QED BY <2>1, <2>2
<1>4. rest \cap Rescued(entries) = {}
  <2> SUFFICES ASSUME NEW b \in rest PROVE b \notin Rescued(entries)
    OBVIOUS
  <2>1. e <= Len(entries) => b < entries[e].pos
    BY <1>1, <1>2, InnerTypes DEF MapEntry
  <2> QED BY <2>1, <1>1, <1>2, NothingRescuedBetween
<1>5. BytesOf(needed[r]) = {b \in BytesOf(needed[r]) : b < cursor} \cup rest
  <2>1. \A b : b \in BytesOf(needed[r]) <=> b \in Nat /\ needed[r].pos <= b /\ b < end
    BY <1>2 DEF BytesOf, end, EndOf
  <2> QED BY <2>1, <1>2
<1>6. BytesOfList(result') = RequestedBefore(r + 1) \ Rescued(entries)
  <2>1. BytesOfList(result) =
          (RequestedBefore(r) \cup {b \in BytesOf(needed[r]) : b < cursor})
            \ Rescued(entries)
    BY <1>1, InnerTypes DEF InnerInv
  <2>2. RequestedBefore(r + 1) = RequestedBefore(r) \cup BytesOf(needed[r])
    BY <1>2, RequestedStep
  <2> HIDE DEF rest
  <2> QED BY <2>1, <2>2, <1>3, <1>4, <1>5
<1>7. OuterInv'
  BY <1>1, <1>2, <1>6 DEF OuterInv, RequestedBefore
<1>8. cursor' \in Nat /\ e' \in Nat \ {0} /\ r' \in Nat \ {0}
  BY <1>1, <1>2, InnerTypes
<1> QED BY <1>1, <1>3, <1>7, <1>8, SubtractFrame

\* The result of the first call is what subtract_rescued goes through.
LEMMA ReturnNeededStep ==
  ASSUME IInv, ReturnNeeded
  PROVE  IInv'
<1>1. /\ pc = "return" /\ caller = "needed" /\ pc' = "ranges"
      /\ needed' = merged /\ r' = 1 /\ result' = <<>>
      /\ asked' = asked /\ entries' = entries /\ caller' = caller /\ arg' = arg
      /\ UNCHANGED <<intervals, i, cur, merged, remaining, e, cursor, domain>>
  BY DEF ReturnNeeded, arguments, mergeVars
<1>2. TypeOK /\ arg = asked /\ BytesOfList(merged) = BytesOfList(arg) /\ domain = <<>>
  BY <1>1 DEF IInv, MergeKeepsBytes, CallInv
<1>3. TypeOK'
  BY <1>1, <1>2 DEF TypeOK
<1>4. OuterInv'
  <2>1. Len(needed') \in Nat
    BY <1>1, <1>2 DEF TypeOK
  <2>2. BytesOfList(result') = {} /\ RequestedBefore(1)' = {}
    BY <1>1 DEF BytesOfList, RequestedBefore
  <2> QED BY <1>1, <2>1, <2>2 DEF OuterInv
<1> QED BY <1>1, <1>2, <1>3, <1>4
    DEF IInv, MergeKeepsBytes, MergeSeparates, DomainExact, DomainContiguous

\* When no range is left, the pieces hold exactly what is still needed.
LEMMA EndSubtractStep ==
  ASSUME IInv, EndSubtract
  PROVE  IInv'
<1>1. /\ pc = "ranges" /\ r > Len(needed) /\ pc' = "sort"
      /\ caller' = "remaining" /\ arg' = result
      /\ asked' = asked /\ entries' = entries
      /\ UNCHANGED <<intervals, i, cur, merged, lists, subtractVars, domain>>
  BY DEF EndSubtract, arguments, mergeVars
<1>2. /\ TypeOK /\ OuterInv /\ domain = <<>>
      /\ BytesOfList(needed) = BytesOfList(asked)
  BY <1>1 DEF IInv
<1>3. TypeOK'
  BY <1>1, <1>2 DEF TypeOK, lists, subtractVars
<1>4. BytesOfList(result) = StillNeeded
  <2>1. r = Len(needed) + 1 /\ DOMAIN needed = 1..Len(needed) /\ Len(needed) \in Nat
    BY <1>1, <1>2 DEF TypeOK, OuterInv
  <2>2. RequestedBefore(r) = BytesOfList(needed)
    BY <2>1 DEF RequestedBefore, BytesOfList
  <2> QED BY <2>2, <1>2 DEF OuterInv, StillNeeded
<1>5. CallInv'
  BY <1>1, <1>4 DEF CallInv, StillNeeded
<1> QED BY <1>1, <1>2, <1>3, <1>5
    DEF IInv, MergeKeepsBytes, MergeSeparates, DomainExact, DomainContiguous

\* Merging what is left again asks for the same bytes.
LEMMA ReturnRemainingStep ==
  ASSUME IInv, ReturnRemaining
  PROVE  IInv'
<1>1. /\ pc = "return" /\ caller = "remaining" /\ pc' = "sort"
      /\ remaining' = merged /\ caller' = "log" /\ arg' = merged
      /\ asked' = asked /\ entries' = entries
      /\ UNCHANGED <<intervals, i, cur, merged, needed, subtractVars, domain>>
  BY DEF ReturnRemaining, arguments, mergeVars
<1>2. /\ TypeOK /\ domain = <<>>
      /\ BytesOfList(merged) = BytesOfList(arg) /\ BytesOfList(arg) = StillNeeded
  BY <1>1 DEF IInv, MergeKeepsBytes, CallInv
<1>3. TypeOK'
  BY <1>1, <1>2 DEF TypeOK, subtractVars
<1>4. CallInv'
  BY <1>1, <1>2 DEF CallInv, StillNeeded
<1> QED BY <1>1, <1>2, <1>3, <1>4
    DEF IInv, MergeKeepsBytes, MergeSeparates, DomainExact, DomainContiguous

\* Nothing is written yet.
LEMMA ReturnLogStep ==
  ASSUME IInv, ReturnLog
  PROVE  IInv'
<1>1. /\ pc = "return" /\ caller = "log" /\ pc' = "write"
      /\ r' = 1 /\ cursor' = 0 /\ caller' = caller /\ arg' = arg
      /\ asked' = asked /\ entries' = entries
      /\ UNCHANGED <<intervals, i, cur, merged, lists, e, result, domain>>
  BY DEF ReturnLog, arguments, mergeVars
<1>2. /\ TypeOK /\ domain = <<>> /\ IsSeparated(merged)
      /\ BytesOfList(merged) = StillNeeded
  BY <1>1 DEF IInv, MergeKeepsBytes, MergeSeparates, CallInv
<1>3. TypeOK'
  BY <1>1, <1>2 DEF TypeOK, lists
<1>4. WriteInv'
  <2>1. Len(merged') \in Nat
    BY <1>1, <1>2 DEF TypeOK
  <2>2. Tiles(domain', cursor')
    BY <1>1, <1>2 DEF Tiles
  <2>3. Rescued(domain') = {} /\ WrittenBefore(1)' = {}
    BY <1>1, <1>2 DEF Rescued, WrittenBefore
  <2> QED BY <1>1, <2>1, <2>2, <2>3 DEF WriteInv
<1>5. IsSeparated(merged') /\ BytesOfList(merged') = StillNeeded'
  BY <1>1, <1>2 DEF StillNeeded
<1> QED BY <1>1, <1>3, <1>4, <1>5
    DEF IInv, MergeKeepsBytes, MergeSeparates, DomainExact, DomainContiguous

\* A range goes behind what is written, a filler between them if they do not
\* touch, so that the entries go on without a gap.
LEMMA WriteRangeStep ==
  ASSUME IInv, WriteRange
  PROVE  IInv'
<1> DEFINE x    == merged[r]
           new  == Entry(x.pos, EndOf(x), STATUS_FINISHED)
           fill == Entry(cursor, x.pos, STATUS_NON_TRIED)
           mid  == Filled(domain, x.pos)
<1>1. /\ pc = "write" /\ r <= Len(merged) /\ pc' = pc
      /\ domain' = Append(mid, new) /\ cursor' = EndOf(x) /\ r' = r + 1
      /\ asked' = asked /\ entries' = entries /\ caller' = caller /\ arg' = arg
      /\ UNCHANGED <<intervals, i, cur, merged, lists, e, result>>
  BY DEF WriteRange, arguments, mergeVars
<1>2. /\ TypeOK /\ IsSeparated(merged) /\ BytesOfList(merged) = StillNeeded /\ WriteInv
  BY <1>1 DEF IInv
<1>3. /\ merged \in Seq(ByteRange) /\ Len(merged) \in Nat /\ r \in 1..Len(merged)
      /\ domain \in Seq(MapEntry) /\ cursor \in Nat /\ Tiles(domain, cursor)
      /\ DOMAIN merged = 1..Len(merged) /\ x \in ByteRange /\ x.size > 0
  <2>1. /\ merged \in Seq(ByteRange) /\ domain \in Seq(MapEntry) /\ cursor \in Nat
        /\ Tiles(domain, cursor) /\ r \in 1..(Len(merged) + 1)
    BY <1>2 DEF TypeOK, WriteInv
  <2>2. Len(merged) \in Nat /\ DOMAIN merged = 1..Len(merged) /\ r \in 1..Len(merged)
    BY <2>1, <1>1
  <2>3. x \in ByteRange /\ x.size > 0
    BY <2>1, <2>2, <1>2 DEF IsSeparated
  <2> QED BY <2>1, <2>2, <2>3
<1>4. x.pos \in Nat /\ x.size \in Nat /\ EndOf(x) \in Nat /\ x.pos < EndOf(x)
  BY <1>3 DEF ByteRange, EndOf
<1>5. cursor <= x.pos
  <2>1. CASE r = 1
    BY <2>1, <1>2, <1>4 DEF WriteInv
  <2>2. CASE r # 1
    <3>1. r - 1 \in DOMAIN merged /\ r \in DOMAIN merged /\ r - 1 < r
      BY <2>2, <1>3
    <3>2. EndOf(merged[r - 1]) < x.pos
      BY <3>1, <1>2 DEF IsSeparated
    <3>3. cursor = EndOf(merged[r - 1])
      BY <2>2, <1>2 DEF WriteInv
    <3> QED BY <3>2, <3>3, <1>3, <1>4
  <2> QED BY <2>1, <2>2
<1>6. /\ new \in MapEntry /\ new.size > 0 /\ new.pos = x.pos /\ EndOf(new) = EndOf(x)
      /\ new.status = STATUS_FINISHED /\ BytesOf(new) = BytesOf(x)
  BY <1>4 DEF Entry, MapEntry, Statuses, STATUS_FINISHED, EndOf, BytesOf
<1>7. mid \in Seq(MapEntry) /\ Tiles(mid, x.pos) /\ Rescued(mid) = Rescued(domain)
  <2>1. CASE x.pos > cursor
    <3>1. mid = Append(domain, fill)
      BY <2>1 DEF Filled
    <3>2. /\ fill \in MapEntry /\ fill.size > 0 /\ fill.pos = cursor
          /\ EndOf(fill) = x.pos /\ fill.status # STATUS_FINISHED
      BY <2>1, <1>3, <1>4, SMTT(30)
      DEF Entry, MapEntry, Statuses, STATUS_NON_TRIED, STATUS_FINISHED, EndOf
    <3>3. mid \in Seq(MapEntry) /\ Tiles(mid, x.pos)
      BY <3>1, <3>2, <1>3, AppendTiles
    <3>4. Rescued(mid) = Rescued(domain)
      BY <3>1, <3>2, <1>3, AppendRescued
    <3> QED BY <3>3, <3>4
  <2>2. CASE ~(x.pos > cursor)
    <3>1. mid = domain /\ x.pos = cursor
      BY <2>2, <1>3, <1>4, <1>5 DEF Filled
    <3> QED BY <3>1, <1>3
  <2> QED BY <2>1, <2>2
<1>8. /\ domain' \in Seq(MapEntry) /\ Tiles(domain', cursor')
      /\ Rescued(domain') = Rescued(domain) \cup BytesOf(x)
  <2> HIDE DEF mid, new
  <2>1. domain' \in Seq(MapEntry) /\ Tiles(domain', EndOf(new))
    BY <1>1, <1>6, <1>7, AppendTiles
  <2>2. Rescued(domain') = Rescued(mid) \cup BytesOf(new)
    BY <1>1, <1>6, <1>7, AppendRescued
  <2> QED BY <2>1, <2>2, <1>1, <1>6, <1>7
<1>9. WrittenBefore(r + 1) = WrittenBefore(r) \cup BytesOf(x)
  <2>1. 1..((r + 1) - 1) = 1..(r - 1) \cup {r}
    BY <1>3
  <2> QED BY <2>1 DEF WrittenBefore
<1>10. WriteInv'
  <2>1. r' \in 1..(Len(merged') + 1) /\ r' # 1 /\ r' - 1 = r /\ merged' = merged
    BY <1>1, <1>3
  <2>2. cursor' = IF r' = 1 THEN 0 ELSE EndOf(merged'[r' - 1])
    BY <2>1, <1>1
  <2>3. Rescued(domain') = WrittenBefore(r)'
    <3>1. WrittenBefore(r)' = WrittenBefore(r + 1)
      BY <1>1 DEF WrittenBefore
    <3>2. Rescued(domain) = WrittenBefore(r)
      BY <1>2 DEF WriteInv
    <3> QED BY <3>1, <3>2, <1>8, <1>9
  <2> QED BY <2>1, <2>2, <2>3, <1>8 DEF WriteInv
<1>11. TypeOK'
  BY <1>1, <1>2, <1>3, <1>4, <1>8 DEF TypeOK, lists
<1>12. IsSeparated(merged') /\ BytesOfList(merged') = StillNeeded'
  BY <1>1, <1>2 DEF StillNeeded
<1> QED BY <1>1, <1>10, <1>11, <1>12
    DEF IInv, MergeKeepsBytes, MergeSeparates, DomainExact, DomainContiguous

\* With every range written, the domain is what is still needed.
LEMMA ReturnStep ==
  ASSUME IInv, Return
  PROVE  IInv'
<1>1. /\ pc = "write" /\ r > Len(merged) /\ pc' = "done"
      /\ asked' = asked /\ entries' = entries /\ caller' = caller /\ arg' = arg
      /\ cursor' = cursor /\ domain' = domain
      /\ UNCHANGED <<mergeVars, lists, subtractVars>>
  BY DEF Return, arguments, subtractVars
<1>2. TypeOK /\ BytesOfList(merged) = StillNeeded /\ WriteInv
  BY <1>1 DEF IInv
<1>3. TypeOK'
  BY <1>1, <1>2 DEF TypeOK, mergeVars, lists, subtractVars
<1>4. WrittenBefore(r) = BytesOfList(merged)
  <2>1. DOMAIN merged = 1..Len(merged) /\ Len(merged) \in Nat
    BY <1>2 DEF TypeOK
  <2>2. r = Len(merged) + 1
    BY <2>1, <1>1, <1>2 DEF WriteInv
  <2> QED BY <2>1, <2>2 DEF WrittenBefore, BytesOfList
<1>5. DomainExact' /\ DomainContiguous'
  BY <1>1, <1>2, <1>4 DEF DomainExact, DomainContiguous, WriteInv, StillNeeded
<1> QED BY <1>1, <1>3, <1>5 DEF IInv, MergeKeepsBytes, MergeSeparates

\* The invariant of generator.py: every loop has the bytes it should have, for
\* every list of ranges and every ordered mapfile.
THEOREM DomainLogInvariant == Spec => []IInv
<1>1. Init => IInv
  <2> SUFFICES ASSUME Init PROVE IInv
    OBVIOUS
  <2>1. TypeOK
    BY ArgumentsAssumption DEF Init, TypeOK, Interval
  <2> QED BY <2>1 DEF Init, IInv, CallInv, MergeKeepsBytes, MergeSeparates, DomainExact,
                      DomainContiguous
<1>2. IInv /\ [Next]_vars => IInv'
  <2> SUFFICES ASSUME IInv, [Next]_vars PROVE IInv'
    OBVIOUS
  <2>1. CASE UNCHANGED vars
    <3>1. /\ pc' = pc /\ asked' = asked /\ entries' = entries /\ caller' = caller
          /\ arg' = arg /\ intervals' = intervals /\ i' = i /\ cur' = cur
          /\ merged' = merged /\ needed' = needed /\ remaining' = remaining
          /\ r' = r /\ e' = e /\ cursor' = cursor /\ result' = result /\ domain' = domain
      BY <2>1 DEF vars, arguments, mergeVars, lists, subtractVars
    <3>2. TypeOK' = TypeOK /\ CallInv' = CallInv /\ StillNeeded' = StillNeeded
      BY <3>1 DEF TypeOK, CallInv, StillNeeded
    <3>3. SortedInv' = SortedInv /\ LoopInv' = LoopInv
      BY <3>1 DEF SortedInv, Intervals, LoopInv
    <3>4. OuterInv' = OuterInv /\ InnerInv' = InnerInv /\ WriteInv' = WriteInv
      BY <3>1 DEF OuterInv, InnerInv, RequestedBefore, WriteInv, WrittenBefore, end
    <3>5. MergeKeepsBytes' /\ MergeSeparates' /\ DomainExact' /\ DomainContiguous'
      BY <3>1, <3>2 DEF IInv, MergeKeepsBytes, MergeSeparates, DomainExact, DomainContiguous
    <3> QED BY <3>1, <3>2, <3>3, <3>4, <3>5 DEF IInv
  <2>2. CASE Sort \/ ReturnEmpty \/ Extend \/ Emit \/ Finish
    BY <2>2, SortStep, ReturnEmptyStep, ExtendStep, EmitStep, FinishStep
  <2>3. CASE ReturnNeeded \/ StartRange \/ SkipEntry \/ CutRescued \/ EndRange \/ EndSubtract
    BY <2>3, ReturnNeededStep, StartRangeStep, SkipEntryStep, CutRescuedStep, EndRangeStep,
       EndSubtractStep
  <2>4. CASE ReturnRemaining \/ ReturnLog \/ WriteRange \/ Return
    BY <2>4, ReturnRemainingStep, ReturnLogStep, WriteRangeStep, ReturnStep
  <2> QED BY <2>1, <2>2, <2>3, <2>4 DEF Next
<1> QED BY <1>1, <1>2, PTL DEF Spec

\* merge_ranges neither loses nor invents a byte, for every argument.
THEOREM MergeRangesKeepsBytes == Spec => []MergeKeepsBytes
<1>1. IInv => MergeKeepsBytes
  BY DEF IInv
<1> QED BY <1>1, DomainLogInvariant, PTL

\* The result of merge_ranges is increasing and no two of its ranges touch.
THEOREM MergeRangesSeparates == Spec => []MergeSeparates
<1>1. IInv => MergeSeparates
  BY DEF IInv
<1> QED BY <1>1, DomainLogInvariant, PTL

\* The domain log holds exactly what was asked for and is not rescued.
THEOREM DomainLogExact == Spec => []DomainExact
<1>1. IInv => DomainExact
  BY DEF IInv
<1> QED BY <1>1, DomainLogInvariant, PTL

\* The entries of the domain log leave no gap, as ddrescue requires.
THEOREM DomainLogContiguous == Spec => []DomainContiguous
<1>1. IInv => DomainContiguous
  BY DEF IInv
<1> QED BY <1>1, DomainLogInvariant, PTL

-----------------------------------------------------------------------------
\* The merged lists are kept for the totals.
LEMMA PlanKept == IInv /\ PlanInv /\ [Next]_vars => PlanInv'
<1> SUFFICES ASSUME IInv, PlanInv, [Next]_vars PROVE PlanInv'
  OBVIOUS
<1>1. ASSUME UNCHANGED <<asked, entries, caller, lists>>, pc' \notin {"write", "done"},
             pc' \in {"ranges", "entries"} => caller # "needed" \/ pc \in {"ranges", "entries"}
      PROVE  PlanInv'
  BY <1>1 DEF PlanInv, StillNeeded, lists
<1>2. CASE Sort \/ ReturnEmpty \/ Extend \/ Emit \/ Finish
  BY <1>1, <1>2 DEF Sort, ReturnEmpty, Extend, Emit, Finish, arguments
<1>3. CASE ReturnNeeded
  <2>1. /\ asked' = asked /\ entries' = entries /\ caller' = "needed" /\ caller = "needed"
        /\ needed' = merged /\ pc' = "ranges" /\ pc = "return"
    BY <1>3 DEF ReturnNeeded, arguments
  <2>2. IsSeparated(merged) /\ BytesOfList(merged) = BytesOfList(asked)
    BY <2>1 DEF IInv, MergeKeepsBytes, MergeSeparates, CallInv
  <2> QED BY <2>1, <2>2 DEF PlanInv
<1>4. CASE StartRange \/ SkipEntry \/ CutRescued \/ EndRange
  BY <1>1, <1>4 DEF StartRange, SkipEntry, CutRescued, EndRange, arguments
<1>5. CASE EndSubtract
  BY <1>5 DEF EndSubtract, PlanInv, arguments, lists
<1>6. CASE ReturnRemaining
  <2>1. /\ asked' = asked /\ entries' = entries /\ caller' = "log" /\ caller = "remaining"
        /\ needed' = needed /\ remaining' = merged /\ pc' = "sort" /\ pc = "return"
    BY <1>6 DEF ReturnRemaining, arguments
  <2>2. IsSeparated(merged) /\ BytesOfList(merged) = StillNeeded
    BY <2>1 DEF IInv, MergeKeepsBytes, MergeSeparates, CallInv
  <2> QED BY <2>1, <2>2 DEF PlanInv, StillNeeded
<1>7. CASE ReturnLog \/ WriteRange \/ Return \/ UNCHANGED vars
  BY <1>7 DEF ReturnLog, WriteRange, Return, PlanInv, StillNeeded, arguments, lists, vars
<1> QED BY <1>2, <1>3, <1>4, <1>5, <1>6, <1>7 DEF Next

\* The merged lists count every byte once.
LEMMA PlanIsCounted == IInv /\ PlanInv => PlanCounts
<1> SUFFICES ASSUME IInv, PlanInv, pc = "done"
             PROVE  /\ bytes_to_read = Cardinality(StillNeeded)
                    /\ bytes_already_rescued
                         = Cardinality(BytesOfList(asked) \cap Rescued(entries))
  BY DEF PlanCounts
<1> DEFINE A == BytesOfList(asked)
           R == Rescued(entries)
<1>1. /\ IsSeparated(needed) /\ BytesOfList(needed) = A
      /\ IsSeparated(remaining) /\ BytesOfList(remaining) = A \ R
      /\ needed \in Seq(ByteRange) /\ remaining \in Seq(ByteRange)
  BY DEF PlanInv, IInv, TypeOK, StillNeeded
<1>2. IsFiniteSet(A) /\ SumOf(Sizes(needed)) = Cardinality(A)
  BY <1>1, SeparatedSum
<1>3. SumOf(Sizes(remaining)) = Cardinality(A \ R)
  BY <1>1, SeparatedSum
<1>4. /\ IsFiniteSet(A \cap R) /\ Cardinality(A) \in Nat /\ Cardinality(A \cap R) \in Nat
  <2>1. A \cap R \in SUBSET A
    OBVIOUS
  <2>2. IsFiniteSet(A \cap R)
    BY <1>2, <2>1, FS_Subset
  <2> QED BY <1>2, <2>2, FS_CardinalityType
<1>5. Cardinality(A \ R) = Cardinality(A) - Cardinality(A \cap R)
  BY <1>2, FS_Difference
<1>6. Cardinality(A) - Cardinality(A \ R) = Cardinality(A \cap R)
  BY <1>4, <1>5
<1> QED BY <1>2, <1>3, <1>6
        DEF bytes_to_read, bytes_already_rescued, total_needed, StillNeeded

\* The totals that are shown before a pass are exact: every byte is counted once,
\* in however many of the ranges that were asked for it lies.
THEOREM DomainLogPlanCounts == Spec => []PlanCounts
<1>1. Init => PlanInv
  BY DEF Init, PlanInv
<1> QED BY <1>1, PlanKept, PlanIsCounted, DomainLogInvariant, PTL DEF Spec
=============================================================================
