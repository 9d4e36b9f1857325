-------------------------- MODULE ExtractionProofs --------------------------
(***************************************************************************)
(* The verdicts of mapfile/query.py are exact for every range and every    *)
(* ordered mapfile.                                                        *)
(***************************************************************************)
EXTENDS Extraction, SequenceTheorems, FiniteSetTheorems, WellFoundedInduction, TLAPS

\* The bytes of a list grow by those of the range appended to it.
LEMMA AppendBytes ==
  ASSUME NEW S, NEW s \in Seq(S), NEW r \in S
  PROVE  /\ Append(s, r) \in Seq(S)
         /\ BytesOfList(Append(s, r)) = BytesOfList(s) \cup BytesOf(r)
<1> DEFINE t == Append(s, r)
<1>1. /\ t \in Seq(S) /\ Len(t) = Len(s) + 1
      /\ \A m \in 1..Len(s) : t[m] = s[m]
      /\ t[Len(s) + 1] = r
      /\ DOMAIN t = 1..(Len(s) + 1) /\ DOMAIN s = 1..Len(s) /\ Len(s) \in Nat
  OBVIOUS
<1>2. ASSUME NEW b \in BytesOfList(t)
      PROVE  b \in BytesOfList(s) \cup BytesOf(r)
  <2>1. PICK m \in DOMAIN t : b \in BytesOf(t[m])
    BY <1>2 DEF BytesOfList
  <2>2. CASE m = Len(s) + 1
    BY <2>1, <2>2, <1>1
  <2>3. CASE m \in 1..Len(s)
    BY <2>1, <2>3, <1>1 DEF BytesOfList
  <2> QED BY <2>2, <2>3, <1>1
<1>3. ASSUME NEW b \in BytesOfList(s) \cup BytesOf(r)
      PROVE  b \in BytesOfList(t)
  <2>1. CASE b \in BytesOf(r)
    <3>1. Len(s) + 1 \in DOMAIN t /\ t[Len(s) + 1] = r
      BY <1>1
    <3> QED BY <3>1, <2>1 DEF BytesOfList
  <2>2. CASE b \in BytesOfList(s)
    <3>1. PICK m \in DOMAIN s : b \in BytesOf(s[m])
      BY <2>2 DEF BytesOfList
    <3>2. m \in DOMAIN t /\ t[m] = s[m]
      BY <1>1, <3>1
    <3> QED BY <3>1, <3>2 DEF BytesOfList
  <2> QED BY <2>1, <2>2, <1>3
<1> QED BY <1>1, <1>2, <1>3

\* An entry further down an ordered mapfile starts no earlier.
LEMMA OrderedStarts ==
  ASSUME NEW es \in Seq(MapEntry), IsOrdered(es),
         NEW i \in DOMAIN es, NEW j \in DOMAIN es, i <= j
  PROVE  es[i].pos <= es[j].pos
<1>1. es[i] \in MapEntry /\ es[j] \in MapEntry
  OBVIOUS
<1>2. CASE i = j
  BY <1>1, <1>2 DEF MapEntry
<1>3. CASE i < j
  BY <1>1, <1>3 DEF MapEntry, IsOrdered, EndOf
<1> QED BY <1>2, <1>3

-----------------------------------------------------------------------------
\* A set of numbers that is not empty has a least one.
LEMMA LeastNumber ==
  ASSUME NEW T \in SUBSET Nat, T # {}
  PROVE  \E x \in T : \A y \in T : x <= y
<1>1. \E x \in T : \A y \in T : ~(<<y, x>> \in OpToRel(<, Nat))
  <2> HIDE DEF OpToRel
  <2> QED BY NatLessThanWellFounded, WFMin
<1>2. PICK x \in T : \A y \in T : ~(<<y, x>> \in OpToRel(<, Nat))
  BY <1>1
<1>3. OpToRel(<, Nat) = {ss \in Nat \X Nat : ss[1] < ss[2]}
  BY DEF OpToRel
<1>4. ASSUME NEW y \in T, ~(x <= y) PROVE FALSE
  <2>1. y \in Nat /\ x \in Nat /\ y < x
    BY <1>4
  <2>2. <<y, x>> \in {ss \in Nat \X Nat : ss[1] < ss[2]}
    BY <2>1
  <2> QED BY <1>2, <1>3, <2>2
<1> QED BY <1>2, <1>4

\* What holds of 0 and, with a number, of the next, holds of all.
LEMMA Induction ==
  ASSUME NEW S \in SUBSET Nat, 0 \in S, \A n \in S : n + 1 \in S
  PROVE  S = Nat
<1> SUFFICES ASSUME Nat \ S # {} PROVE FALSE
  OBVIOUS
<1>1. PICK x \in Nat \ S : \A y \in Nat \ S : x <= y
  BY LeastNumber
<1>2. x # 0 /\ x - 1 \in Nat /\ ~(x <= x - 1)
  BY <1>1
<1>3. x - 1 \in S
  BY <1>1, <1>2
<1>4. (x - 1) + 1 \in S
  BY <1>3
<1> QED BY <1>1, <1>4

\* The sums of the first numbers of a list.
Sums(ns) == CHOOSE sum : sum = [n \in 0..Len(ns) |-> IF n = 0 THEN 0 ELSE sum[n - 1] + ns[n]]

\* The sum of the first n + 1 numbers is that of the first n and the next.
LEMMA SumsFacts ==
  ASSUME NEW ns \in Seq(Nat)
  PROVE  /\ SumOf(ns) = Sums(ns)[Len(ns)]
         /\ Sums(ns)[0] = 0
         /\ \A n \in 0..Len(ns) : Sums(ns)[n] \in Nat
         /\ \A n \in 1..Len(ns) : Sums(ns)[n] = Sums(ns)[n - 1] + ns[n]
<1> DEFINE L == Len(ns)
           Is(g, m) == g = [n \in 0..m |-> IF n = 0 THEN 0 ELSE g[n - 1] + ns[n]]
           S == {m \in Nat : \E g : Is(g, m)}
<1>0. L \in Nat /\ \A n \in 1..L : ns[n] \in Nat
  OBVIOUS
<1>1. 0 \in S
  <2>1. Is([n \in 0..0 |-> 0], 0)
    OBVIOUS
  <2> QED BY <2>1
<1>2. ASSUME NEW m \in S PROVE m + 1 \in S
  <2>1. m \in Nat
    OBVIOUS
  <2>2. PICK g : Is(g, m)
    OBVIOUS
  <2> DEFINE h == [n \in 0..(m + 1) |-> IF n <= m THEN g[n] ELSE g[m] + ns[n]]
  <2>3. \A n \in 0..m : g[n] = IF n = 0 THEN 0 ELSE g[n - 1] + ns[n]
    BY <2>2
  <2>4. ASSUME NEW n \in 0..(m + 1)
        PROVE  h[n] = IF n = 0 THEN 0 ELSE h[n - 1] + ns[n]
    <3>1. CASE n = 0
      BY <2>1, <2>3, <3>1
    <3>2. CASE n \in 1..m
      <4>1. h[n] = g[n] /\ h[n - 1] = g[n - 1]
        BY <2>1, <3>2
      <4> QED BY <4>1, <2>3, <2>1, <3>2
    <3>3. CASE n = m + 1
      <4>1. h[n] = g[m] + ns[n] /\ h[n - 1] = g[m] /\ n # 0
        BY <2>1, <3>3
      <4> QED BY <4>1
    <3> QED BY <2>1, <3>1, <3>2, <3>3
  <2>5. Is(h, m + 1)
    BY <2>4
  <2> HIDE DEF h, Is
  <2> QED BY <2>1, <2>5
<1>3. S = Nat
  <2> HIDE DEF Is
  <2> QED BY <1>1, <1>2, Induction
<1>4. \E g : Is(g, L)
  <2> HIDE DEF Is, L
  <2> QED BY <1>0, <1>3
<1>5. SumOf(ns) = Sums(ns)[L] /\ Sums(ns) = CHOOSE g : Is(g, L)
  BY DEF SumOf, Sums
<1>6. Is(Sums(ns), L)
  <2> HIDE DEF Is, L
  <2> QED BY <1>4, <1>5
<1>7. /\ Sums(ns)[0] = 0
      /\ \A n \in 1..L : Sums(ns)[n] = Sums(ns)[n - 1] + ns[n]
  BY <1>0, <1>6
<1> DEFINE N == {n \in Nat : n <= L => Sums(ns)[n] \in Nat}
<1>8. N = Nat
  <2>1. 0 \in N
    BY <1>7
  <2>2. ASSUME NEW n \in N PROVE n + 1 \in N
    <3>1. CASE n + 1 <= L
      <4>1. n \in Nat /\ n <= L /\ n + 1 \in 1..L /\ (n + 1) - 1 = n
        BY <1>0, <3>1
      <4>2. Sums(ns)[n] \in Nat
        BY <4>1
      <4>3. Sums(ns)[n + 1] = Sums(ns)[n] + ns[n + 1] /\ ns[n + 1] \in Nat
        BY ONLY <1>0, <1>7, <4>1
      <4>4. Sums(ns)[n + 1] \in Nat
        BY ONLY <4>2, <4>3
      <4> QED BY <4>1, <4>4
    <3> QED BY <1>0, <3>1
  <2>3. N \in SUBSET Nat
    OBVIOUS
  <2> HIDE DEF N
  <2> QED BY <2>1, <2>2, <2>3, Induction
<1>9. \A n \in 0..L : Sums(ns)[n] \in Nat
  BY <1>0, <1>8
<1> QED BY <1>5, <1>7, <1>9

\* Of two lists of which one has no greater number than the other at any place, the
\* sums are equal if and only if the lists are; and no number exceeds the sum.
LEMMA SumsCompare ==
  ASSUME NEW s \in Seq(Nat), NEW t \in Seq(Nat), Len(s) = Len(t),
         \A m \in 1..Len(s) : t[m] <= s[m]
  PROVE  /\ SumOf(s) \in Nat /\ SumOf(t) \in Nat
         /\ \A m \in 1..Len(s) : s[m] <= SumOf(s)
         /\ SumOf(t) = SumOf(s) <=> \A m \in 1..Len(s) : t[m] = s[m]
<1> DEFINE L == Len(s)
           N == {n \in Nat : n <= L =>
                  /\ Sums(t)[n] <= Sums(s)[n]
                  /\ \A m \in 1..n : s[m] <= Sums(s)[n]
                  /\ Sums(t)[n] = Sums(s)[n] <=> \A m \in 1..n : t[m] = s[m]}
<1>0. L \in Nat /\ \A n \in 1..L : s[n] \in Nat /\ t[n] \in Nat
  OBVIOUS
<1>1. /\ Sums(s)[0] = 0 /\ Sums(t)[0] = 0
      /\ \A n \in 0..L : Sums(s)[n] \in Nat /\ Sums(t)[n] \in Nat
      /\ \A n \in 1..L : /\ Sums(s)[n] = Sums(s)[n - 1] + s[n]
                         /\ Sums(t)[n] = Sums(t)[n - 1] + t[n]
      /\ SumOf(s) = Sums(s)[L] /\ SumOf(t) = Sums(t)[L]
  BY SumsFacts
<1>2. 0 \in N
  BY <1>0, <1>1
<1>3. ASSUME NEW n \in N PROVE n + 1 \in N
  <2>1. CASE n + 1 <= L
    <3> DEFINE a == Sums(s)[n]
               b == Sums(t)[n]
               a1 == Sums(s)[n + 1]
               b1 == Sums(t)[n + 1]
               x == s[n + 1]
               y == t[n + 1]
    <3>1. n \in Nat /\ n <= L /\ n + 1 \in 1..L /\ n \in 0..L /\ (n + 1) - 1 = n
      BY <1>0, <2>1
    <3>2. a \in Nat /\ b \in Nat /\ x \in Nat /\ y \in Nat /\ y <= x /\ a1 = a + x /\ b1 = b + y
      BY <1>0, <1>1, <3>1
    <3>3. /\ b <= a
          /\ \A m \in 1..n : s[m] <= a
          /\ b = a <=> \A m \in 1..n : t[m] = s[m]
      BY <3>1
    <3>4. \A m : m \in 1..(n + 1) <=> m \in 1..n \/ m = n + 1
      BY <3>1
    <3>8. (\A m \in 1..(n + 1) : t[m] = s[m]) <=> (\A m \in 1..n : t[m] = s[m]) /\ y = x
      BY <3>4
    <3>9. x = s[n + 1]
      OBVIOUS
    <3>10. /\ b1 <= a1
           /\ \A m \in 1..(n + 1) : s[m] <= a1
           /\ b1 = a1 <=> \A m \in 1..(n + 1) : t[m] = s[m]
           => n + 1 \in N
      BY <3>1
    <3> HIDE DEF a, b, a1, b1, x, y, N
    <3>5. b1 <= a1
      BY <3>2, <3>3
    <3>6. ASSUME NEW m \in 1..(n + 1) PROVE s[m] <= a1
      <4>1. CASE m = n + 1
        BY <3>2, <3>9, <4>1
      <4>2. CASE m \in 1..n
        <5>1. s[m] <= a /\ s[m] \in Nat
          BY <1>0, <3>1, <3>3, <4>2, SMTT(30)
        <5> QED BY <3>2, <5>1
      <4> QED BY <3>4, <4>1, <4>2
    <3>7. b1 = a1 <=> b = a /\ y = x
      BY <3>2, <3>3
    <3> QED BY <3>3, <3>5, <3>6, <3>7, <3>8, <3>10
  <2> QED BY <1>0, <2>1
<1>4. N = Nat
  <2>1. N \in SUBSET Nat
    OBVIOUS
  <2> HIDE DEF N
  <2> QED BY <1>2, <1>3, <2>1, Induction
<1>5. L \in N
  BY <1>0, <1>4
<1> QED BY <1>0, <1>1, <1>5

\* A range has as many bytes as its size says.
LEMMA BytesCount ==
  ASSUME NEW r \in ByteRange
  PROVE  IsFiniteSet(BytesOf(r)) /\ Cardinality(BytesOf(r)) = r.size
<1> DEFINE a == r.pos
           b == r.pos + r.size - 1
<1>1. a \in Int /\ b \in Int /\ r.size \in Nat /\ BytesOf(r) = a..b
  BY DEF ByteRange, BytesOf, EndOf
<1>2. (IF a > b THEN 0 ELSE b - a + 1) = r.size
  BY <1>1
<1> HIDE DEF a, b
<1> QED BY <1>1, <1>2, FS_Interval

-----------------------------------------------------------------------------
\* Membership of a byte in the rescued bytes of a mapfile.
LEMMA RescuedMember ==
  ASSUME NEW es, NEW b
  PROVE  b \in Rescued(es) <=>
           \E m \in DOMAIN es : es[m].status = STATUS_FINISHED /\ b \in BytesOf(es[m])
BY DEF Rescued

\* The bytes of the chosen pieces of a list, with one more piece appended.
LEMMA AppendWhere ==
  ASSUME NEW list \in Seq(RangeStatusType), NEW x \in RangeStatusType
  PROVE  /\ RescuedPart(Append(list, x)) =
              RescuedPart(list) \cup (IF x.status = STATUS_FINISHED THEN BytesOf(x) ELSE {})
         /\ OtherPart(Append(list, x)) =
              OtherPart(list) \cup (IF x.status # STATUS_FINISHED THEN BytesOf(x) ELSE {})
<1> DEFINE t == Append(list, x)
           n == Len(list) + 1
<1>1. /\ DOMAIN t = DOMAIN list \cup {n}
      /\ \A m \in DOMAIN list : t[m] = list[m] /\ m # n
      /\ t[n] = x
  OBVIOUS
<1> HIDE DEF t, n
<1>2. RescuedPart(t) = RescuedPart(list) \cup (IF x.status = STATUS_FINISHED THEN BytesOf(x) ELSE {})
  BY <1>1 DEF RescuedPart, BytesWhere
<1>3. OtherPart(t) = OtherPart(list) \cup (IF x.status # STATUS_FINISHED THEN BytesOf(x) ELSE {})
  BY <1>1 DEF OtherPart, BytesWhere
<1> QED BY <1>2, <1>3 DEF t

\* A piece that starts no earlier than the list ends, and whose bytes are all
\* rescued or all not, as its status says, keeps the list true.
LEMMA AddPieceInv ==
  ASSUME NEW list \in Seq(RangeStatusType), NEW upTo \in Nat, NEW bytes,
         PiecesInv(list, upTo, bytes),
         NEW from \in Nat, NEW to \in Nat, upTo <= from, from <= to,
         NEW status \in Statuses,
         status = STATUS_FINISHED => from..(to - 1) \subseteq Rescued(entries),
         status # STATUS_FINISHED => (from..(to - 1)) \cap Rescued(entries) = {}
  PROVE  /\ AddPiece(list, from, to, status) \in Seq(RangeStatusType)
         /\ PiecesInv(AddPiece(list, from, to, status), to, bytes \cup from..(to - 1))
<1>1. CASE ~(from < to)
  <2>1. from..(to - 1) = {} /\ upTo <= to
    BY <1>1
  <2>2. AddPiece(list, from, to, status) = list
    BY <1>1 DEF AddPiece
  <2>3. \A m \in DOMAIN list : EndOf(list[m]) <= to
    <3> TAKE m \in DOMAIN list
    <3>1. list[m] \in RangeStatusType /\ EndOf(list[m]) <= upTo
      BY DEF PiecesInv
    <3> QED BY <3>1, <2>1 DEF RangeStatusType, EndOf
  <2> QED BY <2>1, <2>2, <2>3 DEF PiecesInv
<1>2. CASE from < to
  <2> DEFINE x == Piece(from, to, status)
             t == Append(list, x)
             n == Len(list) + 1
  <2>1. /\ x \in RangeStatusType /\ x.size > 0 /\ x.pos = from /\ EndOf(x) = to
        /\ BytesOf(x) = from..(to - 1) /\ x.status = status
    BY <1>2 DEF Piece, RangeStatusType, EndOf, BytesOf
  <2> HIDE DEF x
  <2>2. AddPiece(list, from, to, status) = t
    BY <1>2 DEF AddPiece, x
  <2>3. t \in Seq(RangeStatusType) /\ BytesOfList(t) = BytesOfList(list) \cup BytesOf(x)
    BY <2>1, AppendBytes
  <2>4. /\ DOMAIN t = 1..n /\ DOMAIN list = 1..(n - 1) /\ n \in Nat
        /\ \A m \in DOMAIN list : t[m] = list[m]
        /\ t[n] = x
    OBVIOUS
  <2>5. \A m \in DOMAIN list : /\ list[m].size > 0 /\ EndOf(list[m]) <= from
                               /\ EndOf(list[m]) \in Nat
    <3> TAKE m \in DOMAIN list
    <3>1. list[m] \in RangeStatusType /\ EndOf(list[m]) <= upTo /\ list[m].size > 0
      BY DEF PiecesInv
    <3> QED BY <3>1 DEF RangeStatusType, EndOf
  <2> HIDE DEF t, n
  <2>6. \A m \in DOMAIN t : t[m].size > 0 /\ EndOf(t[m]) <= to
    BY <2>1, <2>4, <2>5, <1>2
  <2>7. IsOrdered(t)
    <3> SUFFICES ASSUME NEW i \in DOMAIN t, NEW j \in DOMAIN t, i < j
                 PROVE  EndOf(t[i]) <= t[j].pos
      BY DEF IsOrdered
    <3>1. i \in DOMAIN list
      BY <2>4
    <3>2. CASE j = n
      BY <3>1, <3>2, <2>1, <2>4, <2>5
    <3>3. CASE j \in DOMAIN list
      BY <3>1, <3>3, <2>4 DEF PiecesInv, IsOrdered
    <3> QED BY <3>2, <3>3, <2>4
  <2>8. RescuedPart(t) = (bytes \cup from..(to - 1)) \cap Rescued(entries)
    <3>1. RescuedPart(t) = RescuedPart(list) \cup (IF status = STATUS_FINISHED THEN BytesOf(x) ELSE {})
      BY <2>1, AppendWhere DEF t
    <3>2. RescuedPart(list) = bytes \cap Rescued(entries)
      BY DEF PiecesInv
    <3> QED BY <3>1, <3>2, <2>1
  <2>9. OtherPart(t) \cap Rescued(entries) = {}
    <3>1. OtherPart(t) = OtherPart(list) \cup (IF status # STATUS_FINISHED THEN BytesOf(x) ELSE {})
      BY <2>1, AppendWhere DEF t
    <3>2. OtherPart(list) \cap Rescued(entries) = {}
      BY DEF PiecesInv
    <3> QED BY <3>1, <3>2, <2>1
  <2>10. BytesOfList(t) = bytes \cup from..(to - 1)
    BY <2>1, <2>3 DEF PiecesInv
  <2> QED BY <2>2, <2>3, <2>6, <2>7, <2>8, <2>9, <2>10 DEF PiecesInv
<1> QED BY <1>1, <1>2

\* In the loop, everything the steps need about types.
LEMMA LoopTypes ==
  ASSUME IInv, pc = "entries"
  PROVE  /\ LoopInv /\ PiecesInv(result, cursor, UpToCursor)
         /\ entries \in Seq(MapEntry) /\ IsOrdered(entries) /\ Len(entries) \in Nat
         /\ range.pos \in Nat /\ range.size \in Nat /\ end \in Nat /\ range.pos <= end
         /\ e \in 1..(Len(entries) + 1) /\ cursor \in range.pos..end /\ cursor \in Nat
         /\ result \in Seq(RangeStatusType)
         /\ e <= Len(entries) =>
              /\ entries[e] \in MapEntry /\ EndOf(entries[e]) \in Nat
              /\ entries[e].pos \in Nat /\ entries[e].status \in Statuses
              /\ entries[e].pos <= EndOf(entries[e]) /\ e \in DOMAIN entries
<1>1. /\ LoopInv /\ PiecesInv(result, cursor, UpToCursor) /\ TypeOK
  BY DEF IInv
<1>2. entries \in Seq(MapEntry) /\ IsOrdered(entries) /\ range \in ByteRange
  BY <1>1, ArgumentsAssumption DEF TypeOK, Mapfiles
<1>3. range.pos \in Nat /\ range.size \in Nat /\ end \in Nat /\ range.pos <= end
  BY <1>2 DEF ByteRange, end, EndOf
<1>4. ASSUME e <= Len(entries)
      PROVE  /\ entries[e] \in MapEntry /\ EndOf(entries[e]) \in Nat
             /\ entries[e].pos \in Nat /\ entries[e].status \in Statuses
             /\ entries[e].pos <= EndOf(entries[e]) /\ e \in DOMAIN entries
  <2>1. e \in DOMAIN entries /\ entries[e] \in MapEntry
    BY <1>1, <1>2, <1>4 DEF LoopInv
  <2> QED BY <2>1 DEF MapEntry, EndOf
<1> QED BY <1>1, <1>2, <1>3, <1>4 DEF LoopInv, TypeOK

\* Between the cursor and the next entry no byte is rescued.
LEMMA NothingRescuedBetween ==
  ASSUME IInv, pc = "entries", NEW b \in Nat, cursor <= b, b < end,
         e <= Len(entries) => b < entries[e].pos
  PROVE  b \notin Rescued(entries)
<1> SUFFICES ASSUME NEW m \in DOMAIN entries, b \in BytesOf(entries[m])
             PROVE  FALSE
  BY RescuedMember
<1>1. entries[m] \in MapEntry /\ m \in 1..Len(entries)
  BY LoopTypes
<1>2. entries[m].pos <= b /\ b < EndOf(entries[m])
  BY <1>1 DEF BytesOf, EndOf, MapEntry
<1>3. CASE m < e
  <2>1. EndOf(entries[m]) <= cursor
    BY <1>1, <1>3, LoopTypes DEF LoopInv
  <2> QED BY <2>1, <1>1, <1>2, LoopTypes DEF EndOf, MapEntry
<1>4. CASE e <= m
  <2>1. e <= Len(entries) /\ e \in DOMAIN entries
    BY <1>1, <1>4, LoopTypes
  <2>2. entries[e].pos <= entries[m].pos
    BY <2>1, <1>4, LoopTypes, OrderedStarts
  <2>3. entries[e] \in MapEntry
    BY <2>1, LoopTypes
  <2> QED BY <2>1, <2>2, <2>3, <1>1, <1>2 DEF MapEntry
<1> QED BY <1>1, <1>3, <1>4, LoopTypes

\* The bytes of one entry are all rescued or all not, as its status says.
LEMMA EntryIsUniform ==
  ASSUME NEW es \in Seq(MapEntry), IsOrdered(es), NEW m \in DOMAIN es,
         NEW b \in BytesOf(es[m])
  PROVE  b \in Rescued(es) <=> es[m].status = STATUS_FINISHED
<1>1. CASE es[m].status = STATUS_FINISHED
  BY <1>1, RescuedMember
<1>2. CASE es[m].status # STATUS_FINISHED
  <2> SUFFICES ASSUME NEW j \in DOMAIN es, es[j].status = STATUS_FINISHED,
                      b \in BytesOf(es[j])
               PROVE  FALSE
    BY <1>2, RescuedMember
  <2>1. es[j] \in MapEntry /\ es[m] \in MapEntry /\ j # m /\ j \in Int /\ m \in Int
    BY <1>2
  <2>2. /\ es[j].pos <= b /\ b < EndOf(es[j]) /\ es[m].pos <= b /\ b < EndOf(es[m])
        /\ b \in Int /\ EndOf(es[j]) \in Int /\ EndOf(es[m]) \in Int
        /\ es[j].pos \in Int /\ es[m].pos \in Int
    BY <2>1, SMTT(30) DEF BytesOf, EndOf, MapEntry
  <2>3. EndOf(es[j]) <= es[m].pos \/ EndOf(es[m]) <= es[j].pos
    BY <2>1 DEF IsOrdered
  <2> QED BY <2>2, <2>3
<1> QED BY <1>1, <1>2

\* The loop starts in its invariant.
LEMMA LoopInit == Init => IInv
<1> SUFFICES ASSUME Init PROVE IInv
  OBVIOUS
<1>1. range \in ByteRange /\ entries \in Seq(MapEntry)
  BY ArgumentsAssumption DEF Init, Mapfiles
<1>2. /\ range.pos \in Nat /\ range.size \in Nat /\ end \in Nat /\ range.pos <= end
      /\ Len(entries) \in Nat
  BY <1>1 DEF ByteRange, end, EndOf
<1>3. TypeOK
  BY <1>2 DEF Init, TypeOK
<1>4. LoopInv
  BY <1>2 DEF Init, LoopInv
<1>5. UpToCursor = {}
  BY <1>2 DEF Init, UpToCursor, BytesOf, EndOf
<1>6. PiecesInv(result, cursor, {})
  BY DEF Init, PiecesInv, IsOrdered, BytesOfList, RescuedPart, OtherPart, BytesWhere
<1> QED BY <1>3, <1>4, <1>5, <1>6 DEF Init, IInv

\* Every step of the loop keeps its invariant.
LEMMA LoopNext == IInv /\ [Next]_vars => IInv'
<1> SUFFICES ASSUME IInv, [Next]_vars PROVE IInv'
  OBVIOUS
<1>0. TypeOK
  BY DEF IInv
<1>1. CASE SkipEntry
  <2>1. /\ pc = "entries" /\ e <= Len(entries) /\ pc' = pc /\ e' = e + 1
        /\ EndOf(entries[e]) <= cursor /\ range' = range /\ entries' = entries
        /\ cursor' = cursor /\ result' = result
    <3>1. pc = "entries" /\ e \in 1..(Len(entries) + 1) /\ Len(entries) \in Nat
      BY <1>1, LoopTypes DEF SkipEntry
    <3> QED BY <1>1, <3>1 DEF SkipEntry, PastTheEnd
  <2>2. LoopInv'
    <3>1. \A m \in 1..(e' - 1) : EndOf(entries[m]) <= cursor \/ cursor = end
      <4>1. \A m \in 1..(e' - 1) : m \in 1..(e - 1) \/ m = e
        BY <2>1, LoopTypes
      <4> QED BY <4>1, <2>1, LoopTypes DEF LoopInv
    <3>2. e' \in 1..(Len(entries) + 1)
      BY <2>1, LoopTypes
    <3> QED BY <3>1, <3>2, <2>1, LoopTypes DEF LoopInv, end
  <2>3. PiecesInv(result, cursor, UpToCursor)'
    BY <2>1, LoopTypes DEF PiecesInv, UpToCursor
  <2>4. TypeOK'
    BY <1>0, <2>1 DEF TypeOK
  <2> QED BY <2>1, <2>2, <2>3, <2>4 DEF IInv
<1>2. CASE TakeEntry
  <2> DEFINE p == entries[e].pos
             q == EndOf(entries[e])
             st == entries[e].status
             g == Greatest(cursor, p)
             o == Least(q, end)
  <2>1. /\ pc = "entries" /\ e <= Len(entries) /\ p < end /\ q > cursor /\ cursor < end
        /\ pc' = pc /\ e' = e + 1 /\ range' = range /\ entries' = entries
        /\ cursor' = o /\ result' = AddOverlap(AddGap(result)) /\ range.size > 0
    <3>1. /\ pc = "entries" /\ e \in 1..(Len(entries) + 1) /\ Len(entries) \in Nat
          /\ cursor \in Nat /\ end \in Nat
          /\ e <= Len(entries) => p \in Nat /\ q \in Nat
      BY <1>2, LoopTypes DEF TakeEntry
    <3>2. e <= Len(entries)
      BY <1>2, <3>1 DEF TakeEntry, PastTheEnd
    <3>3. ~(p >= end) /\ ~(q > cursor /\ cursor >= end) /\ q > cursor
      BY <1>2, <3>2 DEF TakeEntry, PastTheEnd
    <3> QED BY <3>1, <3>2, <3>3, <1>2 DEF TakeEntry
  <2>2. /\ p \in Nat /\ q \in Nat /\ p <= q /\ st \in Statuses /\ e \in DOMAIN entries
        /\ cursor \in Nat /\ end \in Nat /\ range.pos \in Nat /\ range.pos <= cursor
        /\ result \in Seq(RangeStatusType) /\ entries \in Seq(MapEntry)
        /\ IsOrdered(entries) /\ entries[e] \in MapEntry /\ e \in Nat
        /\ PiecesInv(result, cursor, UpToCursor) /\ LoopInv
        /\ e \in 1..(Len(entries) + 1) /\ Len(entries) \in Nat
    BY <2>1, LoopTypes
  <2>3. /\ g \in Nat /\ o \in Nat /\ cursor <= g /\ p <= g /\ g <= o /\ o <= end /\ o <= q
        /\ cursor < o
        /\ g > cursor => g = p
    BY <2>1, <2>2 DEF Greatest, Least
  <2>4. /\ AddGap(result) = AddPiece(result, cursor, g, STATUS_NON_TRIED)
        /\ \A list : AddOverlap(list) = AddPiece(list, g, o, st)
    BY <2>1, <2>2 DEF AddGap, AddOverlap, AddPiece, Greatest
  <2> HIDE DEF p, q, st, g, o
  <2> DEFINE list1 == AddPiece(result, cursor, g, STATUS_NON_TRIED)
  <2>5. /\ list1 \in Seq(RangeStatusType)
        /\ PiecesInv(list1, g, UpToCursor \cup cursor..(g - 1))
    <3>1. (cursor..(g - 1)) \cap Rescued(entries) = {}
      <4> SUFFICES ASSUME NEW b \in cursor..(g - 1) PROVE b \notin Rescued(entries)
        OBVIOUS
      <4>1. b \in Nat /\ cursor <= b /\ b < p /\ b < end
        BY <2>1, <2>2, <2>3
      <4> QED BY <4>1, <2>1, NothingRescuedBetween DEF p
    <3>2. STATUS_NON_TRIED \in Statuses /\ STATUS_NON_TRIED # STATUS_FINISHED
      BY DEF STATUS_NON_TRIED, STATUS_FINISHED, Statuses
    <3>3. cursor <= cursor
      BY <2>2
    <3> QED BY <3>1, <3>2, <3>3, <2>2, <2>3, AddPieceInv
  <2>6. /\ AddPiece(list1, g, o, st) \in Seq(RangeStatusType)
        /\ PiecesInv(AddPiece(list1, g, o, st), o,
                     (UpToCursor \cup cursor..(g - 1)) \cup g..(o - 1))
    <3>1. \A b \in g..(o - 1) : b \in Rescued(entries) <=> st = STATUS_FINISHED
      <4> TAKE b \in g..(o - 1)
      <4>1. b \in BytesOf(entries[e])
        BY <2>2, <2>3, SMTT(30) DEF BytesOf, p, q
      <4> QED BY <4>1, <2>2, EntryIsUniform DEF st
    <3>2. g <= g
      BY <2>3
    <3> HIDE DEF list1
    <3> QED BY <3>1, <3>2, <2>2, <2>3, <2>5, AddPieceInv
  <2>7. (UpToCursor \cup cursor..(g - 1)) \cup g..(o - 1) = UpToCursor'
    <3>1. \A b : b \in BytesOf(range) <=> b \in Int /\ range.pos <= b /\ b < end
      BY <2>2 DEF BytesOf, end, EndOf
    <3>2. \A b : b \in UpToCursor' <=> b \in Int /\ range.pos <= b /\ b < end /\ b < o
      BY <3>1, <2>1 DEF UpToCursor
    <3>3. \A b : b \in UpToCursor <=> b \in Int /\ range.pos <= b /\ b < end /\ b < cursor
      BY <3>1 DEF UpToCursor
    <3> QED BY <3>2, <3>3, <2>2, <2>3, SMTT(30)
  <2>8. result' = AddPiece(list1, g, o, st)
    BY <2>1, <2>4
  <2>9. PiecesInv(result, cursor, UpToCursor)'
    BY <2>1, <2>6, <2>7, <2>8 DEF PiecesInv
  <2>10. LoopInv'
    <3>1. \A m \in 1..(e' - 1) : EndOf(entries[m]) <= o \/ o = end
      <4> SUFFICES ASSUME NEW m \in 1..(e' - 1) PROVE EndOf(entries[m]) <= o \/ o = end
        OBVIOUS
      <4>1. CASE m = e
        BY <4>1, <2>2 DEF o, Least, q
      <4>2. CASE m \in 1..(e - 1)
        <5>1. m \in 1..Len(entries) /\ (EndOf(entries[m]) <= cursor \/ cursor = end)
          BY <4>2, <2>1, <2>2 DEF LoopInv
        <5>2. entries[m] \in MapEntry
          BY <5>1, <2>2
        <5>3. EndOf(entries[m]) \in Nat
          BY <5>2 DEF EndOf, MapEntry
        <5>4. cursor # end
          BY <2>1, <2>2
        <5> QED BY <5>1, <5>3, <5>4, <2>2, <2>3
      <4> QED BY <4>1, <4>2, <2>1, <2>2
    <3>2. e' \in 1..(Len(entries) + 1)
      BY <2>1, <2>2
    <3>3. o \in range.pos..end
      BY <2>2, <2>3
    <3> QED BY <3>1, <3>2, <3>3, <2>1, <2>2 DEF LoopInv, end
  <2>11. TypeOK'
    BY <1>0, <2>1, <2>3, <2>6, <2>8 DEF TypeOK
  <2> QED BY <2>1, <2>9, <2>10, <2>11 DEF IInv
<1>3. CASE TrailingGap
  <2>1. /\ pc = "entries" /\ range.size > 0 /\ PastTheEnd /\ pc' = "done"
        /\ range' = range /\ entries' = entries /\ e' = e /\ cursor' = cursor
        /\ result' = AddPiece(result, cursor, end, STATUS_NON_TRIED)
    BY <1>3 DEF TrailingGap
  <2>2. /\ cursor \in Nat /\ end \in Nat /\ cursor <= end /\ range.pos <= cursor
        /\ range.pos \in Nat /\ result \in Seq(RangeStatusType)
        /\ PiecesInv(result, cursor, UpToCursor)
    BY <2>1, LoopTypes
  <2>3. (cursor..(end - 1)) \cap Rescued(entries) = {}
    <3> SUFFICES ASSUME NEW b \in cursor..(end - 1) PROVE b \notin Rescued(entries)
      OBVIOUS
    <3>1. b \in Nat /\ cursor <= b /\ b < end
      BY <2>2
    <3>2. e <= Len(entries) => b < entries[e].pos
      BY <3>1, <2>1, <2>2, LoopTypes DEF PastTheEnd
    <3> QED BY <3>1, <3>2, <2>1, NothingRescuedBetween
  <2>4. /\ result' \in Seq(RangeStatusType)
        /\ PiecesInv(result', end, UpToCursor \cup cursor..(end - 1))
    <3>1. STATUS_NON_TRIED \in Statuses /\ STATUS_NON_TRIED # STATUS_FINISHED
      BY DEF STATUS_NON_TRIED, STATUS_FINISHED, Statuses
    <3>2. cursor <= cursor
      BY <2>2
    <3> QED BY <3>1, <3>2, <2>1, <2>2, <2>3, AddPieceInv
  <2>5. UpToCursor \cup cursor..(end - 1) = BytesOf(range)
    <3>1. \A b : b \in BytesOf(range) <=> b \in Int /\ range.pos <= b /\ b < end
      BY <2>2 DEF BytesOf, end, EndOf
    <3> QED BY <3>1, <2>2 DEF UpToCursor
  <2>6. PiecesInv(result, end, BytesOf(range))'
    BY <2>1, <2>4, <2>5 DEF PiecesInv, end
  <2>7. TypeOK'
    BY <1>0, <2>1, <2>4 DEF TypeOK
  <2> QED BY <2>1, <2>6, <2>7 DEF IInv
<1>4. CASE EmptyRange
  <2>1. /\ pc = "entries" /\ range.size = 0 /\ pc' = "done"
        /\ range' = range /\ entries' = entries /\ e' = e /\ cursor' = cursor
        /\ result' = result
    BY <1>4 DEF EmptyRange
  <2>2. BytesOf(range) = {} /\ result = <<>>
    BY <2>1, LoopTypes DEF BytesOf, EndOf, LoopInv
  <2>3. PiecesInv(result, end, BytesOf(range))'
    BY <2>1, <2>2 DEF PiecesInv, IsOrdered, BytesOfList, RescuedPart, OtherPart, BytesWhere
  <2>4. TypeOK'
    BY <1>0, <2>1 DEF TypeOK
  <2> QED BY <2>1, <2>3, <2>4 DEF IInv
<1>5. CASE UNCHANGED vars
  <2>1. /\ pc' = pc /\ range' = range /\ entries' = entries /\ e' = e /\ cursor' = cursor
        /\ result' = result
    BY <1>5 DEF vars
  <2>2. TypeOK' /\ (LoopInv' <=> LoopInv) /\ UpToCursor' = UpToCursor /\ end' = end
    BY <1>0, <2>1 DEF TypeOK, LoopInv, UpToCursor, end
  <2> QED BY <2>1, <2>2 DEF IInv, PiecesInv
<1> QED BY <1>1, <1>2, <1>3, <1>4, <1>5 DEF Next

\* The loop invariant holds for every range and every ordered mapfile.
THEOREM RangeStatusInvariant == Spec => []IInv
BY LoopInit, LoopNext, PTL DEF Spec

\* The invariant has the pieces tile the range.
LEMMA LoopTiles == IInv => StatusTiles
BY DEF IInv, PiecesInv, StatusTiles

\* The pieces get_range_status returns tile the range asked about.
THEOREM RangeStatusTiles == Spec => []StatusTiles
BY LoopTiles, RangeStatusInvariant, PTL

\* coverage_percentage counts exactly the rescued bytes of the range.
THEOREM RangeStatusCoverageExact == Spec => []CoverageExact
<1>1. IInv => CoverageExact
  BY DEF IInv, PiecesInv, CoverageExact
<1> QED BY <1>1, RangeStatusInvariant, PTL

\* The invariant makes the verdict exact.
LEMMA LoopVerdict == IInv => VerdictExact
<1> SUFFICES ASSUME IInv, pc = "done"
             PROVE  IsRangeRescued <=> BytesOf(range) \subseteq Rescued(entries)
  BY DEF VerdictExact
<1>1. PiecesInv(result, end, BytesOf(range)) /\ result \in Seq(RangeStatusType)
  BY DEF IInv, TypeOK
<1>2. ASSUME IsRangeRescued PROVE BytesOf(range) \subseteq Rescued(entries)
  <2>1. RescuedPart(result) = BytesOfList(result)
    BY <1>2 DEF IsRangeRescued, RescuedPart, BytesWhere, BytesOfList
  <2> QED BY <2>1, <1>1 DEF PiecesInv
<1>3. ASSUME BytesOf(range) \subseteq Rescued(entries),
             NEW m \in DOMAIN result, result[m].status # STATUS_FINISHED
      PROVE  FALSE
  <2>1. result[m] \in RangeStatusType /\ result[m].size > 0
    BY <1>1 DEF PiecesInv
  <2>2. result[m].pos \in BytesOf(result[m])
    BY <2>1 DEF RangeStatusType, BytesOf, EndOf
  <2>3. result[m].pos \in OtherPart(result) /\ result[m].pos \in BytesOfList(result)
    BY <1>3, <2>2 DEF OtherPart, BytesWhere, BytesOfList
  <2> QED BY <2>3, <1>1, <1>3 DEF PiecesInv
<1> QED BY <1>2, <1>3 DEF IsRangeRescued

\* is_range_rescued says yes exactly when the mapfile has every byte as '+'.
THEOREM RangeStatusVerdictExact == Spec => []VerdictExact
BY LoopVerdict, RangeStatusInvariant, PTL

-----------------------------------------------------------------------------
\* What the assumption says of a record that is at hand.
LEMMA RecordTypes ==
  ASSUME entries \in MapfileSet, tree \in Trees(entries), NEW f \in DOMAIN tree
  PROVE  /\ f \in Nat /\ f # Root
         /\ tree[f] \in FileRecord /\ Len(tree[f].content) = tree[f].size
         /\ tree[f].size \in Nat /\ tree[f].content \in Seq(Int) /\ Len(tree[f].runs) \in Nat
         /\ tree[f].starts \in Seq(Nat) /\ Len(tree[f].starts) = Len(tree[f].runs) + 1
         /\ tree[f].starts[1] = 0
         /\ RunsEnd(tree[f]) \in Nat
         /\ \A n \in DOMAIN tree[f].runs :
              /\ tree[f].runs[n].lcn \in Int /\ tree[f].runs[n].count \in Nat
              /\ RangeOf(tree[f].runs[n]).size \in Nat
              /\ tree[f].starts[n] \in Nat
              /\ tree[f].starts[n + 1] = tree[f].starts[n] + RangeOf(tree[f].runs[n]).size
              /\ tree[f].runs[n].lcn # None => RangeOf(tree[f].runs[n]) \in Ranges
                                              /\ RangeOf(tree[f].runs[n]) \in ByteRange
<1> DEFINE r == tree[f]
<1>1. f \in Nat /\ f # Root /\ IsFile(r)
  BY ExtractionAssumption
<1> HIDE DEF r
<1>2. /\ r \in FileRecord /\ Len(r.content) = r.size /\ Len(r.starts) = Len(r.runs) + 1
      /\ r.starts[1] = 0
      /\ \A n \in DOMAIN r.runs :
           /\ r.starts[n + 1] = r.starts[n] + RangeOf(r.runs[n]).size
           /\ r.runs[n].lcn # None => RangeOf(r.runs[n]) \in Ranges
  BY <1>1 DEF IsFile
<1>3. /\ r.size \in Nat /\ r.content \in Seq(Int) /\ r.starts \in Seq(Nat)
      /\ r.runs \in Seq([lcn : Int, count : Nat])
  BY <1>2 DEF FileRecord
<1>4. Len(r.runs) \in Nat /\ DOMAIN r.runs = 1 .. Len(r.runs)
  BY <1>3
<1>5. RunsEnd(r) \in Nat /\ \A n \in DOMAIN r.runs : r.starts[n] \in Nat
  <2>1. \A n \in 1 .. Len(r.starts) : r.starts[n] \in Nat
    BY <1>3, ElementOfSeq
  <2>2. Len(r.runs) + 1 \in 1 .. Len(r.starts) /\ \A n \in DOMAIN r.runs : n \in 1 .. Len(r.starts)
    BY <1>2, <1>4
  <2> QED BY <2>1, <2>2 DEF RunsEnd
<1>6. \A a, b \in Nat : a * b \in Nat
  OBVIOUS
<1>7. \A n \in DOMAIN r.runs : /\ r.runs[n].lcn \in Int /\ r.runs[n].count \in Nat
                               /\ RangeOf(r.runs[n]).size \in Nat
  <2> TAKE n \in DOMAIN r.runs
  <2>1. r.runs[n] \in [lcn : Int, count : Nat]
    BY <1>3, <1>4, ElementOfSeq
  <2> QED BY <2>1, <1>6, ExtractionAssumption DEF RangeOf
<1> QED BY <1>1, <1>2, <1>3, <1>4, <1>5, <1>7, ArgumentsAssumption DEF r

\* A loop that stands keeps its invariant.
LEMMA LoopStands == LoopTrue /\ UNCHANGED vars => LoopTrue'
<1> SUFFICES ASSUME LoopTrue, UNCHANGED vars PROVE LoopTrue'
  OBVIOUS
<1>1. IInv => IInv'
  BY LoopNext
<1> QED BY <1>1 DEF LoopTrue, vars

\* One more result.
LEMMA ResultAdded ==
  ASSUME ExtractTypeOK, ResultsInv, NEW f \in Remaining, \A g \in Remaining : f <= g,
         tree' = tree, NEW r \in ResultType, results' = With(results, f, r)
  PROVE  /\ f \in DOMAIN tree /\ f \notin DOMAIN results
         /\ DOMAIN results' = DOMAIN results \cup {f} /\ results'[f] = r
         /\ \A g \in DOMAIN results : results'[g] = results[g] /\ g < f
         /\ Remaining' = Remaining \ {f}
         /\ DOMAIN results' \subseteq {g \in DOMAIN tree : ~tree[g].directory}
         /\ \A g \in DOMAIN results' : results'[g] \in ResultType
         /\ (r.complete => r.gaps = <<>> /\ r.bytes = tree[f].size /\ (r.error => tree[f].compressed))
            => ResultsInv'
<1>1. f \in DOMAIN tree /\ f \notin DOMAIN results /\ ~tree[f].directory
  BY DEF Remaining
<1>2. /\ DOMAIN results' = DOMAIN results \cup {f} /\ results'[f] = r
      /\ \A g \in DOMAIN results : results'[g] = results[g]
  <2>1. /\ DOMAIN With(results, f, r) = DOMAIN results \cup {f} /\ With(results, f, r)[f] = r
        /\ \A g \in DOMAIN results : g # f => With(results, f, r)[g] = results[g]
    BY DEF With
  <2> QED BY <1>1, <2>1
<1>3. \A g \in DOMAIN results : g < f
  BY DEF ResultsInv
<1>4. Remaining' = Remaining \ {f}
  BY <1>2 DEF Remaining
<1>5. DOMAIN results' \subseteq {g \in DOMAIN tree : ~tree[g].directory}
  BY <1>1, <1>2 DEF ExtractTypeOK
<1>6. \A g \in DOMAIN results' : results'[g] \in ResultType
  BY <1>1, <1>2 DEF ExtractTypeOK
<1>7. ASSUME r.complete => r.gaps = <<>> /\ r.bytes = tree[f].size /\ (r.error => tree[f].compressed)
      PROVE  ResultsInv'
  <2> SUFFICES ASSUME NEW g \in DOMAIN results'
               PROVE  /\ \A h \in Remaining' : g < h
                      /\ results'[g].complete => /\ results'[g].gaps = <<>>
                                                 /\ results'[g].bytes = tree[g].size
                                                 /\ results'[g].error => tree[g].compressed
    BY DEF ResultsInv
  <2>1. CASE g = f
    <3>1. \A h \in Remaining' : f < h
      <4> TAKE h \in Remaining'
      <4>1. h \in Nat /\ f \in Nat
        BY <1>1, <1>4, RecordTypes DEF ExtractTypeOK, Remaining
      <4>2. f <= h /\ h # f
        BY <1>4
      <4> QED BY <4>1, <4>2
    <3> QED BY <2>1, <3>1, <1>2, <1>7
  <2>2. CASE g \in DOMAIN results
    BY <2>2, <1>2, <1>4 DEF ResultsInv
  <2> QED BY <2>1, <2>2, <1>2
<1> QED BY <1>1, <1>2, <1>3, <1>4, <1>5, <1>6, <1>7

\* The files of earlier records stay, where the next one has another path.
LEMMA WrittenKept ==
  ASSUME ExtractTypeOK, ResultsInv, WrittenInv,
         NEW f \in Remaining, \A g \in Remaining : f <= g,
         tree' = tree, mapped' = mapped, NEW r \in ResultType, results' = With(results, f, r),
         \A p \in DOMAIN output : p # Path(f) => p \in DOMAIN output' /\ output'[p] = output[p],
         /\ RunsLead /\ mapped /\ r.bytes = tree[f].size /\ (r.complete \/ r.bytes > 0)
         /\ OnlyStored(tree[f]) /\ tree[f].known
         => Written(f)'
  PROVE  WrittenInv'
<1> SUFFICES ASSUME RunsLead, mapped, NEW g \in DOMAIN results',
                    results'[g].bytes = tree[g].size,
                    results'[g].complete \/ results'[g].bytes > 0,
                    Keeps(g)', OnlyStored(tree[g]), tree[g].known
             PROVE  Written(g)'
  BY DEF WrittenInv
<1>1. /\ DOMAIN results' = DOMAIN results \cup {f} /\ results'[f] = r
      /\ \A h \in DOMAIN results : results'[h] = results[h] /\ h < f
  BY ResultAdded
<1>2. CASE g = f
  BY <1>1, <1>2
<1>3. CASE g \in DOMAIN results
  <2>1. Path(g)' = Path(g) /\ Path(f)' = Path(f)
    BY DEF Path
  <2>2. g < f /\ g # f /\ results'[g] = results[g] /\ f \in DOMAIN results'
    <3>1. g \in Nat /\ f \in Nat
      BY <1>3, RecordTypes DEF ExtractTypeOK, Remaining
    <3> QED BY <3>1, <1>1, <1>3
  <2>3. /\ Path(g) # <<ReportName>> /\ Path(f) # Path(g)
        /\ \A h \in DOMAIN results : h > g => Path(h)' # Path(g)
    BY <1>1, <2>1, <2>2 DEF Keeps
  <2>4. \A h : Path(h)' = Path(h)
    BY DEF Path
  <2>5. Keeps(g)
    BY <2>3, <2>4 DEF Keeps
  <2>6. Written(g)
    BY <1>3, <2>2, <2>5 DEF WrittenInv
  <2>7. Path(g) \in DOMAIN output' /\ output'[Path(g)] = output[Path(g)]
    BY <2>3, <2>6 DEF Written
  <2> QED BY <2>1, <2>2, <2>6, <2>7 DEF Written, InGap
<1> QED BY <1>1, <1>2, <1>3

\* The whole units of a length: all of it when no part of one is left over.
LEMMA WholeUnits ==
  ASSUME NEW n \in Nat, NEW u \in Nat \ {0}
  PROVE  /\ (n \div u) * u \in Nat /\ (n \div u) * u <= n
         /\ n % u = 0 => (n \div u) * u = n
<1>1. n = u * (n \div u) + (n % u)
  BY SMT
<1>2. n \div u \in Nat /\ n % u \in Nat
  BY SMT
<1>3. \A q \in Nat : u * q = q * u /\ q * u \in Nat
  BY SMT
<1> QED BY <1>1, <1>2, <1>3

\* The first bytes of data, n of them or as many as there are.
LEMMA ShorterTypes ==
  ASSUME NEW data \in Seq(Int), NEW n \in Nat
  PROVE  /\ Shorter(data, n) \in Seq(Int) /\ Len(Shorter(data, n)) \in Nat
         /\ Len(Shorter(data, n)) = Least(n, Len(data))
         /\ \A i \in 1 .. Len(Shorter(data, n)) : Shorter(data, n)[i] = data[i]
<1> DEFINE m == Least(n, Len(data))
<1>1. m \in Nat /\ m <= Len(data)
  BY DEF Least
<1> HIDE DEF m
<1>2. /\ SubSeq(data, 1, m) \in Seq(Int) /\ Len(SubSeq(data, 1, m)) = m
      /\ \A i \in 1 .. m : SubSeq(data, 1, m)[i] = data[i]
  BY <1>1
<1> QED BY <1>1, <1>2 DEF Shorter, m

\* What is written of what was read: a sequence of bytes; of a file without a unit
\* that is compressed or cut short it is what was read, up to its size.
StandsForBuffer(data) ==
  /\ data \in Seq(Int) /\ Len(data) \in Nat
  /\ OnlyStored(tree[file]) => /\ Len(data) = Least(tree[file].size, Len(buffer))
                               /\ \A i \in 1 .. Len(data) : data[i] = buffer[i]

\* The raw data and the decompressed data are such.
LEMMA TrimmedTypes ==
  ASSUME buffer \in Seq(Int), tree[file].size \in Nat, Len(buffer) = RunsEnd(tree[file])
  PROVE  StandsForBuffer(Trimmed) /\ StandsForBuffer(Raw)
<1> DEFINE r == tree[file]
           data == IF r.compressed THEN DecompressFile(buffer) ELSE buffer
           full == (Len(buffer) \div UnitSize) * UnitSize
           rest == SubSeq(buffer, full + 1, Len(buffer))
<1>1. UnitSize \in Nat \ {0}
  <2>1. \A a, b \in Nat \ {0} : a * b \in Nat \ {0}
    OBVIOUS
  <2> QED BY <2>1, ExtractionAssumption DEF UnitSize
<1>2. /\ full \in Nat /\ full <= Len(buffer) /\ Len(buffer) \in Nat
      /\ Len(buffer) % UnitSize = 0 => full = Len(buffer)
  <2>1. Len(buffer) \in Nat
    BY LenProperties
  <2> QED BY ONLY <1>1, <2>1, WholeUnits
<1> HIDE DEF full
<1>3. SubSeq(buffer, 1, full) \in Seq(Int) /\ rest \in Seq(Int)
  BY <1>2, SubSeqProperties
<1>4. ASSUME rest # <<>> PROVE Decompress(rest) \in Seq(Int)
  <2>1. rest[1] \in Int
    BY <1>3, <1>4, EmptySeq, ElementOfSeq
  <2> HIDE DEF rest
  <2>2. \A i \in 1 .. UnitSize : -(rest[1] * UnitSize + i) \in Int
    <3>1. \A a, b \in Int : a * b \in Int
      OBVIOUS
    <3>2. rest[1] * UnitSize \in Int
      BY <1>1, <2>1, <3>1
    <3> QED BY <1>1, <3>2
  <2> QED BY <1>1, <2>2 DEF Decompress
<1>5. DecompressFile(buffer) =
        SubSeq(buffer, 1, full) \o (IF rest = <<>> THEN <<>> ELSE Decompress(rest))
  BY DEF DecompressFile, full
<1>6. data \in Seq(Int)
  BY <1>3, <1>4, <1>5
<1>7. OnlyStored(r) => data = buffer
  <2> SUFFICES ASSUME r.compressed, Len(buffer) % UnitSize = 0 PROVE DecompressFile(buffer) = buffer
    BY DEF OnlyStored
  <2>1. full = Len(buffer)
    BY <1>2
  <2>2. rest = <<>>
    BY <1>2, <2>1, SubSeqEmpty
  <2>3. SubSeq(buffer, 1, full) = buffer
    BY <2>1, SubSeqFull
  <2> QED BY <1>5, <2>2, <2>3
<1>8. Trimmed = Shorter(data, r.size) /\ Raw = Shorter(buffer, r.size) /\ r.size \in Nat
  BY DEF Trimmed, Raw
<1> HIDE DEF data
<1>9. StandsForBuffer(Raw)
  BY <1>8, ShorterTypes DEF StandsForBuffer
<1>10. StandsForBuffer(Trimmed)
  <2>1. /\ Trimmed \in Seq(Int) /\ Len(Trimmed) \in Nat /\ Len(Trimmed) = Least(r.size, Len(data))
        /\ \A i \in 1 .. Len(Trimmed) : Trimmed[i] = data[i]
    BY <1>6, <1>8, ShorterTypes
  <2> QED BY <1>7, <2>1 DEF StandsForBuffer
<1> QED BY <1>9, <1>10

\* The invariant holds before the first record.
LEMMA ExtractInitInv == ExtractInit => ExtractInv
<1> SUFFICES ASSUME ExtractInit PROVE ExtractInv
  OBVIOUS
<1>1. DOMAIN results = {}
  BY DEF ExtractInit
<1>2. ExtractTypeOK /\ ResultsInv /\ WrittenInv
  BY <1>1 DEF ExtractInit, ExtractTypeOK, ResultsInv, WrittenInv
<1>3. LoopTrue
  BY DEF ExtractInit, LoopTrue, BytesOf, EndOf
<1>4. BufferInv /\ ReportInv
  BY DEF ExtractInit, BufferInv, ReportInv
<1> QED BY <1>2, <1>3, <1>4 DEF ExtractInv

\* A step that adds the result of the next record keeps the invariant, if complete
\* is said of a whole file, other files stay, and its own is what the result says.
LEMMA ResultStep ==
  ASSUME ExtractInv, UNCHANGED <<arguments, loop, report>>,
         at \in {"next", "runs"}, at' = "next",
         NEW f \in Remaining, \A g \in Remaining : f <= g,
         NEW r \in ResultType, results' = With(results, f, r),
         r.complete => r.gaps = <<>> /\ r.bytes = tree[f].size /\ (r.error => tree[f].compressed),
         \A p \in DOMAIN output : p # Path(f) => p \in DOMAIN output' /\ output'[p] = output[p],
         /\ RunsLead /\ mapped /\ r.bytes = tree[f].size /\ (r.complete \/ r.bytes > 0)
         /\ OnlyStored(tree[f]) /\ tree[f].known
         => Written(f)'
  PROVE  ExtractInv'
<1>1. /\ ExtractTypeOK /\ LoopTrue /\ ResultsInv /\ WrittenInv /\ ReportInv
      /\ tree' = tree /\ mapped' = mapped /\ entries' = entries /\ report' = report
      /\ UNCHANGED vars
  BY DEF ExtractInv, arguments, loop, vars
<1>2. ExtractTypeOK' /\ ResultsInv'
  <2>1. /\ DOMAIN results' \subseteq {g \in DOMAIN tree : ~tree[g].directory}
        /\ \A g \in DOMAIN results' : results'[g] \in ResultType
        /\ ResultsInv'
    BY <1>1, ResultAdded
  <2> QED BY <1>1, <2>1 DEF ExtractTypeOK
<1>3. WrittenInv'
  BY <1>1, WrittenKept
<1>4. LoopTrue'
  BY <1>1, LoopStands
<1>5. BufferInv' /\ ReportInv'
  BY <1>1 DEF BufferInv, ReportInv
<1> QED BY <1>2, <1>3, <1>4, <1>5 DEF ExtractInv

\* What write_bytes leaves: the file and its result, or an error; no other file
\* is touched.
LEMMA WriteBytesLeaves ==
  ASSUME NEW f, NEW data, NEW lost \in Seq(ByteRange), NEW done \in ResultType,
         \/ /\ output' = With(MadeDirs(Path(f)), Path(f), FileOf(data))
            /\ results' = With(results, f, done)
         \/ /\ output' \in {MadeDirs(Path(f)), With(MadeDirs(Path(f)), Path(f), FileOf(<<>>))}
            /\ results' = With(results, f, Result(FALSE, TRUE, <<>>, lost))
  PROVE  \E r \in ResultType :
           /\ results' = With(results, f, r)
           /\ \A p \in DOMAIN output :
                p # Path(f) => p \in DOMAIN output' /\ output'[p] = output[p]
           /\ \/ r.error /\ ~r.complete /\ r.bytes = 0
              \/ r = done /\ Path(f) \in DOMAIN output' /\ output'[Path(f)] = FileOf(data)
<1>1. /\ \A p \in DOMAIN output : /\ p \in DOMAIN MadeDirs(Path(f))
                                  /\ MadeDirs(Path(f))[p] = output[p]
      /\ \A x, y : \A p \in DOMAIN MadeDirs(Path(f)) :
           /\ p \in DOMAIN With(MadeDirs(Path(f)), x, y)
           /\ p # x => With(MadeDirs(Path(f)), x, y)[p] = MadeDirs(Path(f))[p]
      /\ \A x, y : /\ x \in DOMAIN With(MadeDirs(Path(f)), x, y)
                   /\ With(MadeDirs(Path(f)), x, y)[x] = y
  BY DEF MadeDirs, With
<1>2. CASE /\ output' = With(MadeDirs(Path(f)), Path(f), FileOf(data))
           /\ results' = With(results, f, done)
  BY <1>1, <1>2
<1>3. CASE /\ output' \in {MadeDirs(Path(f)), With(MadeDirs(Path(f)), Path(f), FileOf(<<>>))}
           /\ results' = With(results, f, Result(FALSE, TRUE, <<>>, lost))
  <2> DEFINE cut == Result(FALSE, TRUE, <<>>, lost)
  <2>1. cut \in ResultType /\ cut.error /\ ~cut.complete /\ cut.bytes = 0
    <3>1. Len(<<>>) = 0
      OBVIOUS
    <3> QED BY <3>1 DEF Result, ResultType
  <2>2. results' = With(results, f, cut)
    BY <1>3
  <2> HIDE DEF cut
  <2>3. \A p \in DOMAIN output : p # Path(f) => p \in DOMAIN output' /\ output'[p] = output[p]
    BY <1>1, <1>3
  <2> QED BY <2>1, <2>2, <2>3
<1> QED BY <1>2, <1>3

\* The steps for a record without data runs to read keep the invariant.
LEMMA SmallSteps ==
  ASSUME ExtractInv, NEW f \in DOMAIN tree, NoParent(f) \/ WriteSmall(f) \/ NoRuns(f)
  PROVE  ExtractInv'
<1>1. /\ at = "next" /\ f \in Remaining /\ \A g \in Remaining : f <= g
      /\ UNCHANGED <<arguments, loop, report>> /\ at' = "next"
  BY DEF NoParent, WriteSmall, NoRuns, IsNext, Idle
<1>2. ExtractTypeOK /\ tree' = tree
  BY <1>1 DEF ExtractInv, arguments
<1>3. Failed \in ResultType /\ Failed.error /\ ~Failed.complete /\ Failed.bytes = 0
  BY DEF Failed, Result, ResultType
<1>4. CASE NoParent(f)
  BY <1>1, <1>3, <1>4, ResultStep DEF NoParent
<1>5. CASE NoRuns(f)
  <2>1. \A p \in DOMAIN output : p \in DOMAIN output' /\ output'[p] = output[p]
    BY <1>5 DEF NoRuns, MadeDirs
  <2>2. results' = With(results, f, Failed)
    BY <1>5 DEF NoRuns
  <2> QED BY <1>1, <1>3, <2>1, <2>2, ResultStep
<1>6. CASE WriteSmall(f)
  <2> DEFINE data == tree[f].content
             done == Result(TRUE, FALSE, data, <<>>)
  <2>1. data \in Seq(Int) /\ Len(data) = tree[f].size /\ Len(data) \in Nat
    BY <1>2, RecordTypes DEF ExtractTypeOK
  <2>2. /\ done \in ResultType /\ <<>> \in Seq(ByteRange)
        /\ done.complete /\ ~done.error /\ done.gaps = <<>> /\ done.bytes = tree[f].size
    BY <2>1 DEF Result, ResultType
  <2>3. \/ /\ output' = With(MadeDirs(Path(f)), Path(f), FileOf(data))
           /\ results' = With(results, f, done)
        \/ /\ output' \in {MadeDirs(Path(f)), With(MadeDirs(Path(f)), Path(f), FileOf(<<>>))}
           /\ results' = With(results, f, Result(FALSE, TRUE, <<>>, <<>>))
    BY <1>6 DEF WriteSmall, WriteBytes
  <2> HIDE DEF data, done
  <2>4. PICK r \in ResultType :
           /\ results' = With(results, f, r)
           /\ \A p \in DOMAIN output :
                p # Path(f) => p \in DOMAIN output' /\ output'[p] = output[p]
           /\ \/ r.error /\ ~r.complete /\ r.bytes = 0
              \/ r = done /\ Path(f) \in DOMAIN output' /\ output'[Path(f)] = FileOf(data)
    BY <2>2, <2>3, WriteBytesLeaves
  <2>5. ASSUME r.complete \/ r.bytes > 0 PROVE Written(f)'
    <3>1. Path(f)' = Path(f)
      BY <1>2 DEF Path
    <3> QED BY <1>2, <2>1, <2>4, <2>5, <3>1 DEF Written, FileOf, data
  <2> QED BY <1>1, <2>2, <2>4, <2>5, ResultStep
<1> QED BY <1>4, <1>5, <1>6

\* A step that adds no result and takes no file away keeps what is said of both.
LEMMA QuietStep ==
  ASSUME ExtractInv, UNCHANGED <<arguments, results>>,
         at' \in {"next", "runs", "check", "end"},
         \A p \in DOMAIN output :
           p # <<ReportName>> => p \in DOMAIN output' /\ output'[p] = output[p],
         LoopTrue', BufferInv', ReportInv'
  PROVE  ExtractInv'
<1>1. /\ ExtractTypeOK /\ ResultsInv /\ WrittenInv
      /\ tree' = tree /\ mapped' = mapped /\ entries' = entries /\ results' = results
  BY DEF ExtractInv, arguments
<1>2. ExtractTypeOK' /\ ResultsInv'
  BY <1>1 DEF ExtractTypeOK, ResultsInv, Remaining
<1>3. \A f : Path(f)' = Path(f)
  BY <1>1 DEF Path
<1>4. WrittenInv'
  <2> SUFFICES ASSUME RunsLead, mapped, NEW f \in DOMAIN results,
                      results[f].bytes = tree[f].size,
                      results[f].complete \/ results[f].bytes > 0,
                      Keeps(f)', OnlyStored(tree[f]), tree[f].known
               PROVE  Written(f)'
    BY <1>1 DEF WrittenInv
  <2>1. Keeps(f) /\ Path(f) # <<ReportName>>
    BY <1>1, <1>3 DEF Keeps
  <2>2. Written(f)
    BY <1>1, <2>1 DEF WrittenInv
  <2>3. Path(f) \in DOMAIN output' /\ output'[Path(f)] = output[Path(f)]
    BY <2>1, <2>2 DEF Written
  <2> QED BY <1>1, <1>3, <2>2, <2>3 DEF Written, InGap
<1> QED BY <1>2, <1>4 DEF ExtractInv

\* Opening a file keeps the invariant: nothing is read of it yet.
LEMMA OpenStep ==
  ASSUME ExtractInv, NEW f \in DOMAIN tree, Open(f)
  PROVE  ExtractInv'
<1>1. /\ ExtractTypeOK /\ ReportInv /\ at = "next" /\ report' = report /\ report = NoReport
      /\ UNCHANGED <<arguments, results>> /\ tree' = tree /\ mapped' = mapped /\ results' = results
      /\ f \in Remaining /\ \A g \in Remaining : f <= g
      /\ at' = "runs" /\ file' = f /\ k' = 1 /\ buffer' = <<>> /\ gaps' = <<>>
      /\ Remaining' = Remaining /\ UNCHANGED vars /\ LoopTrue
  BY DEF ExtractInv, Open, IsNext, arguments, loop, vars, ReportInv, Remaining
<1>2. \A p \in DOMAIN output : p \in DOMAIN output' /\ output'[p] = output[p]
  BY DEF Open, MadeDirs
<1>3. LoopTrue' /\ ReportInv'
  BY <1>1, LoopStands DEF ReportInv
<1>4. BufferInv'
  <2>1. Len(tree[f].runs) \in Nat /\ tree[f].starts[1] = 0
    BY <1>1, RecordTypes DEF ExtractTypeOK
  <2>2. Len(<<>>) = 0 /\ <<>> \in Seq(Int) /\ <<>> \in Seq(ByteRange)
    OBVIOUS
  <2> QED BY <1>1, <2>1, <2>2 DEF BufferInv
<1> QED BY <1>1, <1>2, <1>3, <1>4, QuietStep

\* What the invariant says while the runs are read.
LEMMA WhileReading ==
  ASSUME ExtractInv, at \in {"runs", "check"}
  PROVE  /\ ExtractTypeOK /\ BufferInv /\ ResultsInv /\ LoopTrue /\ ReportInv
         /\ report = NoReport
         /\ entries \in MapfileSet /\ tree \in Trees(entries)
         /\ file \in Remaining /\ file \in DOMAIN tree /\ \A g \in Remaining : file <= g
         /\ k \in Nat /\ 1 <= k /\ k <= Len(tree[file].runs) + 1 /\ Len(tree[file].runs) \in Nat
         /\ buffer \in Seq(Int) /\ Len(buffer) = tree[file].starts[k] /\ Len(buffer) \in Nat
         /\ gaps \in Seq(ByteRange)
         /\ tree[file].size \in Nat
         /\ k <= Len(tree[file].runs) =>
              /\ k \in DOMAIN tree[file].runs /\ RunRange.size \in Nat
              /\ RunRange.size = Run.count * ClusterSize
              /\ tree[file].starts[k + 1] = Len(buffer) + RunRange.size
              /\ Run.lcn # None => RunRange \in Ranges /\ RunRange \in ByteRange
<1>1. /\ ExtractTypeOK /\ BufferInv /\ ResultsInv /\ LoopTrue /\ ReportInv /\ report = NoReport
      /\ entries \in MapfileSet /\ tree \in Trees(entries)
      /\ file \in Remaining /\ \A g \in Remaining : file <= g
      /\ k \in 1 .. (Len(tree[file].runs) + 1)
      /\ buffer \in Seq(Int) /\ Len(buffer) = tree[file].starts[k] /\ Len(buffer) \in Nat
      /\ gaps \in Seq(ByteRange)
  BY DEF ExtractInv, ExtractTypeOK, BufferInv, ReportInv
<1>2. file \in DOMAIN tree
  BY <1>1 DEF Remaining
<1>3. /\ tree[file] \in FileRecord /\ tree[file].size \in Nat /\ Len(tree[file].runs) \in Nat
      /\ \A n \in DOMAIN tree[file].runs :
           /\ RangeOf(tree[file].runs[n]).size \in Nat
           /\ tree[file].starts[n + 1] = tree[file].starts[n] + RangeOf(tree[file].runs[n]).size
           /\ tree[file].runs[n].lcn # None => RangeOf(tree[file].runs[n]) \in Ranges
                                              /\ RangeOf(tree[file].runs[n]) \in ByteRange
  BY <1>1, <1>2, RecordTypes
<1>4. DOMAIN tree[file].runs = 1 .. Len(tree[file].runs)
  BY <1>3 DEF FileRecord
<1>5. ASSUME k <= Len(tree[file].runs)
      PROVE  /\ k \in DOMAIN tree[file].runs /\ RunRange.size \in Nat
             /\ RunRange.size = Run.count * ClusterSize
             /\ tree[file].starts[k + 1] = Len(buffer) + RunRange.size
             /\ Run.lcn # None => RunRange \in Ranges /\ RunRange \in ByteRange
  <2>1. k \in DOMAIN tree[file].runs
    BY <1>1, <1>3, <1>4, <1>5
  <2>2. RunRange = RangeOf(tree[file].runs[k]) /\ Run = tree[file].runs[k]
    BY DEF Run, RunRange
  <2> QED BY <1>1, <1>3, <2>1, <2>2 DEF RangeOf
<1> QED BY <1>1, <1>2, <1>3, <1>5

\* u has the bytes of s, n of them, and then those of t, m of them.
Joins(u, s, n, t, m) ==
  /\ u \in Seq(Int) /\ Len(u) = n + m
  /\ \A i \in 1 .. n : u[i] = s[i]
  /\ \A j \in 1 .. m : u[n + j] = t[j]
  /\ \A i \in 1 .. Len(u) : i \in 1 .. n \/ \E j \in 1 .. m : i = n + j

\* The bytes of two sequences, one after the other.
LEMMA Appended ==
  ASSUME NEW s \in Seq(Int), NEW t \in Seq(Int)
  PROVE  Joins(s \o t, s, Len(s), t, Len(t))
<1>1. Len(s) \in Nat /\ Len(t) \in Nat
  OBVIOUS
<1>2. /\ s \o t \in Seq(Int) /\ Len(s \o t) = Len(s) + Len(t)
      /\ \A i \in 1 .. Len(s) + Len(t) :
           (s \o t)[i] = IF i <= Len(s) THEN s[i] ELSE t[i - Len(s)]
  BY ConcatProperties
<1> DEFINE u == s \o t
           n == Len(s)
           m == Len(t)
<1>3. /\ n \in Nat /\ m \in Nat /\ Len(u) = n + m
      /\ \A i \in 1 .. (n + m) : u[i] = IF i <= n THEN s[i] ELSE t[i - n]
  BY <1>1, <1>2
<1> HIDE DEF u, n, m
<1>4. \A i \in 1 .. n : u[i] = s[i]
  BY <1>3
<1>5. \A j \in 1 .. m : u[n + j] = t[j]
  <2> TAKE j \in 1 .. m
  <2>1. n + j \in 1 .. (n + m) /\ ~(n + j <= n) /\ (n + j) - n = j
    BY <1>3
  <2>2. u[n + j] = t[(n + j) - n]
    BY <1>3, <2>1
  <2> QED BY <2>1, <2>2
<1>6. \A i \in 1 .. Len(u) : i \in 1 .. n \/ \E j \in 1 .. m : i = n + j
  <2> TAKE i \in 1 .. Len(u)
  <2>1. i \in 1 .. n \/ (i - n \in 1 .. m /\ i = n + (i - n))
    BY <1>3
  <2> QED BY <2>1
<1> QED BY <1>2, <1>4, <1>5, <1>6 DEF u, n, m, Joins

\* The bytes of a run that are appended keep the buffer true if every one of them
\* is the volume's or in a gap.
LEMMA RunAppended ==
  ASSUME ExtractInv, at \in {"runs", "check"}, k <= Len(tree[file].runs),
         UNCHANGED <<tree, mapped, results, file>>,
         NEW bytes, Joins(buffer', buffer, Len(buffer), bytes, RunRange.size), k' = k + 1, at' = "runs", gaps' \in Seq(ByteRange),
         \A g \in DOMAIN gaps : g \in DOMAIN gaps' /\ gaps'[g] = gaps[g],
         RunsLead /\ mapped /\ Faithful(tree[file]) =>
           \A i \in 1 .. RunRange.size :
             \/ Len(buffer) + i > tree[file].size
             \/ bytes[i] = tree[file].content[Len(buffer) + i]
             \/ \E g \in DOMAIN gaps' : Len(buffer) + i - 1 \in BytesOf(gaps'[g])
  PROVE  BufferInv'
<1>1. /\ BufferInv /\ file \in Remaining /\ \A g \in Remaining : file <= g
      /\ k \in Nat /\ 1 <= k /\ Len(tree[file].runs) \in Nat
      /\ buffer \in Seq(Int) /\ Len(buffer) = tree[file].starts[k] /\ Len(buffer) \in Nat
      /\ RunRange.size \in Nat
      /\ tree[file].starts[k + 1] = Len(buffer) + RunRange.size /\ tree[file].size \in Nat
  BY WhileReading
<1>2. /\ tree' = tree /\ mapped' = mapped /\ file' = file /\ Remaining' = Remaining
  BY DEF Remaining
<1>3. k' \in 1 .. (Len(tree[file].runs) + 1)
  BY <1>1
<1>4. /\ buffer' \in Seq(Int) /\ Len(buffer') = tree[file].starts[k']
      /\ \A i \in 1 .. Len(buffer) : buffer'[i] = buffer[i]
      /\ \A j \in 1 .. RunRange.size : buffer'[Len(buffer) + j] = bytes[j]
      /\ \A i \in 1 .. Len(buffer') :
           i \in 1 .. Len(buffer) \/ \E j \in 1 .. RunRange.size : i = Len(buffer) + j
  BY <1>1 DEF Joins
<1>5. ASSUME RunsLead, mapped, Faithful(tree[file]), NEW i \in 1 .. Len(buffer')
      PROVE  \/ i > tree[file].size \/ buffer'[i] = tree[file].content[i]
             \/ \E g \in DOMAIN gaps' : i - 1 \in BytesOf(gaps'[g])
  <2>1. CASE i \in 1 .. Len(buffer)
    <3>1. \/ i > tree[file].size \/ buffer[i] = tree[file].content[i]
          \/ \E g \in DOMAIN gaps : i - 1 \in BytesOf(gaps[g])
      BY <1>1, <1>5, <2>1 DEF BufferInv
    <3> QED BY <1>4, <2>1, <3>1
  <2>2. ASSUME NEW j \in 1 .. RunRange.size, i = Len(buffer) + j
        PROVE  \/ i > tree[file].size \/ buffer'[i] = tree[file].content[i]
               \/ \E g \in DOMAIN gaps' : i - 1 \in BytesOf(gaps'[g])
    <3>1. buffer'[i] = bytes[j]
      BY <1>4, <2>2
    <3>2. \/ i > tree[file].size
          \/ bytes[j] = tree[file].content[i]
          \/ \E g \in DOMAIN gaps' : i - 1 \in BytesOf(gaps'[g])
      BY <1>5, <2>2
    <3> QED BY <3>1, <3>2
  <2> QED BY <1>4, <1>5, <2>1, <2>2
<1> QED BY <1>1, <1>2, <1>3, <1>4, <1>5 DEF BufferInv

\* A hole that is read keeps the invariant: where the runs lead to the content, it
\* is zeros.
LEMMA SparseStep ==
  ASSUME ExtractInv, SparseRun
  PROVE  ExtractInv'
<1> DEFINE bytes == [i \in 1 .. Run.count * ClusterSize |-> 0]
<1>1. /\ at = "runs" /\ k <= Len(tree[file].runs) /\ Run.lcn = None
      /\ buffer' = buffer \o bytes /\ k' = k + 1 /\ at' = at /\ gaps' = gaps /\ file' = file
      /\ UNCHANGED <<arguments, results>> /\ UNCHANGED <<tree, mapped, results, file>>
      /\ UNCHANGED vars /\ output' = output /\ report' = report
  BY DEF SparseRun, Reading, arguments, loop, vars
<1>2. /\ RunRange.size \in Nat /\ RunRange.size = Run.count * ClusterSize
      /\ k \in DOMAIN tree[file].runs /\ Len(buffer) = tree[file].starts[k]
      /\ gaps \in Seq(ByteRange) /\ LoopTrue /\ report = NoReport
      /\ entries \in MapfileSet /\ tree \in Trees(entries) /\ file \in DOMAIN tree
  BY <1>1, WhileReading
<1>3. bytes \in Seq(Int) /\ Len(bytes) = RunRange.size /\ \A i \in 1 .. RunRange.size : bytes[i] = 0
  BY <1>2
<1>4. ASSUME RunsLead, Faithful(tree[file]), NEW i \in 1 .. RunRange.size
      PROVE  \/ Len(buffer) + i > tree[file].size
             \/ bytes[i] = tree[file].content[Len(buffer) + i]
  <2>1. LeadToContent(tree[file]) /\ Run = tree[file].runs[k] /\ RunRange = RangeOf(tree[file].runs[k])
    BY <1>2, <1>4 DEF RunsLead, Run, RunRange
  <2>2. tree[file].starts[k] + i <= tree[file].size =>
          tree[file].content[tree[file].starts[k] + i] = 0
    BY <1>1, <1>2, <1>4, <2>1 DEF LeadToContent
  <2>3. tree[file].size \in Nat /\ Len(buffer) \in Nat /\ i \in Nat
    BY <1>1, <1>2, WhileReading
  <2> QED BY <1>2, <1>3, <2>2, <2>3
<1> HIDE DEF bytes
<1>5. BufferInv'
  <2>1. buffer \in Seq(Int) /\ buffer' = buffer \o bytes
    BY <1>1, WhileReading
  <2>2. Joins(buffer', buffer, Len(buffer), bytes, RunRange.size)
    BY <1>3, <2>1, Appended
  <2> QED BY <1>1, <1>2, <1>4, <2>2, RunAppended
<1>6. LoopTrue' /\ ReportInv'
  BY <1>1, <1>2, LoopStands DEF ReportInv
<1> QED BY <1>1, <1>5, <1>6, QuietStep

\* A loop that starts anew is in its invariant.
LEMMA LoopStarts == Init' => IInv'
BY LoopInit, PTL

\* Asking the mapfile about the next run keeps the invariant.
LEMMA AskStep ==
  ASSUME ExtractInv, Ask
  PROVE  ExtractInv'
<1>1. /\ at = "runs" /\ k <= Len(tree[file].runs) /\ Run.lcn # None /\ mapped
      /\ pc' = "entries" /\ range' = RunRange /\ e' = 1 /\ cursor' = RunRange.pos /\ result' = <<>>
      /\ at' = "check" /\ UNCHANGED <<arguments, file, k, buffer, gaps, results, output, report>>
      /\ tree' = tree /\ mapped' = mapped /\ entries' = entries /\ results' = results
  BY DEF Ask, Reading, arguments
<1>2. /\ RunRange \in Ranges /\ entries \in MapfileSet /\ BufferInv /\ report = NoReport
  BY <1>1, WhileReading
<1>3. LoopTrue'
  <2>1. Init'
    BY <1>1, <1>2 DEF Init
  <2> QED BY <2>1, LoopStarts DEF LoopTrue
<1>4. RunRange' = RunRange /\ Run' = Run /\ Remaining' = Remaining
  BY <1>1 DEF Run, RunRange, Remaining
<1>5. BufferInv'
  BY <1>1, <1>2, <1>4 DEF BufferInv
<1>6. ReportInv'
  BY <1>1, <1>2 DEF ReportInv
<1> QED BY <1>1, <1>3, <1>5, <1>6, QuietStep

\* A step of the loop keeps the invariant.
LEMMA AnswerStep ==
  ASSUME ExtractInv, Answer
  PROVE  ExtractInv'
<1>1. /\ at = "check" /\ Next /\ at' = at
      /\ UNCHANGED <<tree, mapped, at, file, k, buffer, gaps, results, output, report>>
  BY DEF Answer
<1>2. pc = "entries" /\ entries' = entries /\ range' = range
  BY <1>1 DEF Next, SkipEntry, TakeEntry, TrailingGap, EmptyRange
<1>3. BufferInv /\ LoopTrue /\ report = NoReport
  BY <1>1, WhileReading
<1>4. LoopTrue'
  BY <1>1, <1>2, <1>3, LoopNext DEF LoopTrue
<1>5. RunRange' = RunRange /\ Run' = Run /\ Remaining' = Remaining
  BY <1>1 DEF Run, RunRange, Remaining
<1>6. BufferInv'
  BY <1>1, <1>2, <1>3, <1>5 DEF BufferInv
<1>7. ReportInv'
  BY <1>1, <1>3 DEF ReportInv
<1>8. UNCHANGED <<arguments, results>>
  BY <1>1, <1>2 DEF arguments
<1> QED BY <1>1, <1>4, <1>6, <1>7, <1>8, QuietStep

\* What the image has of a run is the volume's, or zero where it was not rescued.
LEMMA ImageBytesTypes ==
  ASSUME NEW r \in ByteRange
  PROVE  /\ ImageBytes(r) \in Seq(Int) /\ Len(ImageBytes(r)) = r.size
         /\ \A i \in 1 .. r.size :
              /\ r.pos + i - 1 \in BytesOf(r)
              /\ r.pos + i - 1 \in Rescued(entries) => ImageBytes(r)[i] = r.pos + i
<1>1. r.pos \in Nat /\ r.size \in Nat
  BY DEF ByteRange
<1>2. ASSUME NEW i \in 1 .. r.size
      PROVE  /\ (IF r.pos + i - 1 \in Rescued(entries) THEN (r.pos + i - 1) + 1 ELSE 0) \in Int
             /\ (r.pos + i - 1) + 1 = r.pos + i
             /\ r.pos + i - 1 \in BytesOf(r)
  BY <1>1 DEF BytesOf, EndOf
<1> QED BY <1>1, <1>2 DEF ImageBytes

\* Copying a run keeps the invariant: a byte that was not rescued makes the verdict
\* no, and the run becomes a gap.
LEMMA CopyStep ==
  ASSUME ExtractInv, CopyRun
  PROVE  ExtractInv'
<1> DEFINE bytes == ImageBytes(RunRange)
           gap == [pos |-> Len(buffer), size |-> RunRange.size]
<1>1. /\ at \in {"runs", "check"}
      /\ gaps' = IF Lost THEN Append(gaps, gap) ELSE gaps
      /\ buffer' = buffer \o bytes /\ k' = k + 1 /\ at' = "runs" /\ file' = file
      /\ UNCHANGED <<arguments, results>> /\ UNCHANGED <<tree, mapped, results, file>>
      /\ UNCHANGED vars /\ output' = output /\ report' = report
  BY DEF CopyRun, Reading, arguments, loop, vars
<1>2. k <= Len(tree[file].runs) /\ Run.lcn # None
  BY <1>1, WhileReading DEF CopyRun, Reading, BufferInv
<1>3. /\ RunRange \in ByteRange /\ RunRange.size \in Nat /\ Len(buffer) \in Nat
      /\ k \in DOMAIN tree[file].runs /\ Len(buffer) = tree[file].starts[k]
      /\ gaps \in Seq(ByteRange) /\ LoopTrue /\ report = NoReport /\ buffer \in Seq(Int)
      /\ entries \in MapfileSet /\ tree \in Trees(entries) /\ file \in DOMAIN tree
      /\ tree[file].size \in Nat /\ BufferInv
  BY <1>1, <1>2, WhileReading
<1>4. /\ bytes \in Seq(Int) /\ Len(bytes) = RunRange.size
      /\ \A i \in 1 .. RunRange.size :
           /\ RunRange.pos + i - 1 \in BytesOf(RunRange)
           /\ RunRange.pos + i - 1 \in Rescued(entries) => bytes[i] = RunRange.pos + i
  BY <1>3, ImageBytesTypes
<1>5. gap \in ByteRange /\ \A i \in 1 .. RunRange.size : Len(buffer) + i - 1 \in BytesOf(gap)
  BY <1>3 DEF ByteRange, BytesOf, EndOf
<1> HIDE DEF bytes, gap
<1>6. /\ gaps' \in Seq(ByteRange)
      /\ \A g \in DOMAIN gaps : g \in DOMAIN gaps' /\ gaps'[g] = gaps[g]
      /\ Lost => \E g \in DOMAIN gaps' : gaps'[g] = gap
  <2>1. /\ Append(gaps, gap) \in Seq(ByteRange)
        /\ \A g \in DOMAIN gaps : /\ g \in DOMAIN Append(gaps, gap)
                                  /\ Append(gaps, gap)[g] = gaps[g]
        /\ Len(gaps) + 1 \in DOMAIN Append(gaps, gap)
        /\ Append(gaps, gap)[Len(gaps) + 1] = gap
    BY <1>3, <1>5
  <2>2. CASE Lost
    <3>1. gaps' = Append(gaps, gap)
      BY <1>1, <2>2
    <3> QED BY <2>1, <3>1
  <2>3. CASE ~Lost
    <3>1. gaps' = gaps
      BY <1>1, <2>3
    <3> QED BY <1>3, <2>3, <3>1
  <2> QED BY <2>2, <2>3
<1>7. ASSUME mapped, ~Lost, NEW i \in 1 .. RunRange.size
      PROVE  bytes[i] = RunRange.pos + i
  <2>1. at = "check" /\ pc = "done" /\ IsRangeRescued
    BY <1>7 DEF CopyRun, Lost
  <2>2. range = RunRange
    BY <1>3, <2>1 DEF BufferInv
  <2>3. BytesOf(range) \subseteq Rescued(entries)
    BY <1>3, <2>1, LoopVerdict DEF LoopTrue, VerdictExact
  <2> QED BY <1>4, <1>7, <2>2, <2>3
<1>8. ASSUME RunsLead, mapped, Faithful(tree[file]), NEW i \in 1 .. RunRange.size
      PROVE  \/ Len(buffer) + i > tree[file].size
             \/ bytes[i] = tree[file].content[Len(buffer) + i]
             \/ \E g \in DOMAIN gaps' : Len(buffer) + i - 1 \in BytesOf(gaps'[g])
  <2>1. CASE Lost
    BY <1>5, <1>6, <1>8, <2>1
  <2>2. CASE ~Lost
    <3>1. LeadToContent(tree[file]) /\ Run = tree[file].runs[k] /\ RunRange = RangeOf(tree[file].runs[k])
      BY <1>3, <1>8 DEF RunsLead, Run, RunRange
    <3>2. tree[file].starts[k] + i <= tree[file].size =>
            tree[file].content[tree[file].starts[k] + i] = RunRange.pos + i
      BY <1>2, <1>3, <1>8, <3>1 DEF LeadToContent
    <3>3. bytes[i] = RunRange.pos + i
      BY <1>7, <1>8, <2>2
    <3> QED BY <1>3, <1>8, <3>2, <3>3
  <2> QED BY <2>1, <2>2
<1>9. BufferInv'
  <2>1. Joins(buffer', buffer, Len(buffer), bytes, RunRange.size)
    BY <1>1, <1>3, <1>4, Appended
  <2> QED BY <1>1, <1>2, <1>6, <1>8, <2>1, RunAppended
<1>10. LoopTrue' /\ ReportInv'
  BY <1>1, <1>3, LoopStands DEF ReportInv
<1> QED BY <1>1, <1>9, <1>10, QuietStep

\* A read of the image that fails keeps the invariant: the result is an error.
LEMMA ReadFailsStep ==
  ASSUME ExtractInv, ReadFails
  PROVE  ExtractInv'
<1> DEFINE r == [Failed EXCEPT !.gaps = gaps]
<1>1. /\ at = "runs" /\ at' = "next" /\ results' = With(results, file, r)
      /\ UNCHANGED <<arguments, loop, report>> /\ output' = output
  BY DEF ReadFails
<1>2. file \in Remaining /\ (\A g \in Remaining : file <= g) /\ gaps \in Seq(ByteRange)
  BY <1>1, WhileReading
<1>3. r \in ResultType /\ r.error /\ ~r.complete /\ r.bytes = 0
  BY <1>2 DEF Failed, Result, ResultType
<1> HIDE DEF r
<1> QED BY <1>1, <1>2, <1>3, ResultStep

\* Writing what was read keeps the invariant: complete is said of a buffer without
\* a gap, and what is written in the file's length is the buffer.
LEMMA WriteDataStep ==
  ASSUME ExtractInv, at = "runs", NEW data, StandsForBuffer(data), NEW error \in BOOLEAN,
         error => tree[file].compressed, WriteData(data, error)
  PROVE  ExtractInv'
<1> DEFINE done == Result(IsComplete(data), error, data, gaps)
<1>1. /\ at = "runs" /\ at' = "next" /\ k > Len(tree[file].runs)
      /\ UNCHANGED <<arguments, loop, report>> /\ tree' = tree
      /\ \/ /\ output' = With(MadeDirs(Path(file)), Path(file), FileOf(data))
            /\ results' = With(results, file, done)
         \/ /\ output' \in {MadeDirs(Path(file)), With(MadeDirs(Path(file)), Path(file), FileOf(<<>>))}
            /\ results' = With(results, file, Result(FALSE, TRUE, <<>>, gaps))
  BY DEF WriteData, WriteBytes, arguments
<1>2. /\ file \in Remaining /\ \A g \in Remaining : file <= g
      /\ gaps \in Seq(ByteRange) /\ buffer \in Seq(Int) /\ Len(buffer) \in Nat
      /\ tree[file].size \in Nat /\ BufferInv
      /\ Len(buffer) = tree[file].starts[k] /\ k = Len(tree[file].runs) + 1
  BY <1>1, WhileReading
<1>3. Len(buffer) = RunsEnd(tree[file])
  BY <1>2 DEF RunsEnd
<1>4. /\ data \in Seq(Int) /\ Len(data) \in Nat
      /\ OnlyStored(tree[file]) => /\ Len(data) = Least(tree[file].size, Len(buffer))
                                   /\ \A i \in 1 .. Len(data) : data[i] = buffer[i]
  BY DEF StandsForBuffer
<1>5. /\ done \in ResultType /\ done.error = error /\ done.gaps = gaps /\ done.bytes = Len(data)
      /\ done.complete => gaps = <<>> /\ Len(data) = tree[file].size
  <2>1. IsComplete(data) \in BOOLEAN /\ (IsComplete(data) => gaps = <<>> /\ Len(data) = tree[file].size)
    BY DEF IsComplete
  <2> QED BY <1>2, <1>4, <2>1 DEF Result, ResultType
<1> HIDE DEF done
<1> PICK f \in Remaining : f = file
  BY <1>2
<1>6. PICK r \in ResultType :
         /\ results' = With(results, f, r)
         /\ \A p \in DOMAIN output :
              p # Path(f) => p \in DOMAIN output' /\ output'[p] = output[p]
         /\ \/ r.error /\ ~r.complete /\ r.bytes = 0
            \/ r = done /\ Path(f) \in DOMAIN output' /\ output'[Path(f)] = FileOf(data)
  BY <1>1, <1>2, <1>5, WriteBytesLeaves
<1>7. ASSUME RunsLead, mapped, r.bytes = tree[f].size, r.complete \/ r.bytes > 0,
             OnlyStored(tree[f]), tree[f].known
      PROVE  Written(f)'
  <2>1. /\ r = done /\ Path(f) \in DOMAIN output' /\ output'[Path(f)] = FileOf(data)
        /\ Len(data) = tree[f].size /\ r.gaps = gaps
    BY <1>5, <1>6, <1>7
  <2>2. Path(f)' = Path(f)
    BY <1>1 DEF Path
  <2>3. tree[f].size <= Len(buffer)
    BY <1>2, <1>4, <1>7, <2>1 DEF Least
  <2>6. \A i \in 1 .. Len(buffer) :
          \/ i > tree[f].size \/ buffer[i] = tree[f].content[i]
          \/ \E g \in DOMAIN gaps : i - 1 \in BytesOf(gaps[g])
    <3>1. Faithful(tree[f])
      BY <1>3, <1>7, <2>3 DEF Faithful
    <3> QED BY <1>1, <1>2, <1>7, <3>1 DEF BufferInv
  <2>4. results'[f] = r
    BY <1>6 DEF With
  <2>5. ASSUME NEW i \in 1 .. Len(data)
        PROVE  data[i] = tree[f].content[i] \/ InGap(f, i)'
    <3>1. i \in 1 .. Len(buffer) /\ i <= tree[f].size /\ i \in Nat /\ data[i] = buffer[i]
      <4>1. \A s, n \in Nat : s <= n => \A j \in 1 .. s : j \in 1 .. n /\ j <= s /\ j \in Nat
        OBVIOUS
      <4>2. i \in 1 .. tree[f].size
        BY <2>1, <2>5
      <4> QED BY <1>2, <1>4, <1>7, <2>3, <2>5, <4>1, <4>2
    <3>2. \/ buffer[i] = tree[f].content[i]
          \/ \E g \in DOMAIN gaps : i - 1 \in BytesOf(gaps[g])
      <4>1. ~(i > tree[f].size)
        BY <1>2, <3>1
      <4> QED BY <2>6, <3>1, <4>1
    <3> QED BY <2>1, <2>4, <3>1, <3>2 DEF InGap
  <2> QED BY <1>1, <1>4, <2>1, <2>2, <2>5 DEF Written, FileOf
<1>8. r.complete => r.gaps = <<>> /\ r.bytes = tree[f].size /\ (r.error => tree[f].compressed)
  BY <1>5, <1>6
<1> QED BY <1>1, <1>2, <1>6, <1>7, <1>8, ResultStep

\* Both ways to write a file that was read are such.
LEMMA WriteStep ==
  ASSUME ExtractInv, Write \/ WriteRaw
  PROVE  ExtractInv'
<1>1. at = "runs" /\ k > Len(tree[file].runs)
  BY DEF Write, WriteRaw, WriteData
<1>2. StandsForBuffer(Trimmed) /\ StandsForBuffer(Raw)
  <2>1. /\ buffer \in Seq(Int) /\ Len(buffer) = tree[file].starts[k] /\ tree[file].size \in Nat
        /\ k \in Nat /\ k <= Len(tree[file].runs) + 1 /\ Len(tree[file].runs) \in Nat
    BY <1>1, WhileReading
  <2>2. k = Len(tree[file].runs) + 1
    BY <1>1, <2>1
  <2> QED BY <2>1, <2>2, TrimmedTypes DEF RunsEnd
<1>3. CASE Write
  BY <1>1, <1>2, <1>3, WriteDataStep DEF Write
<1>4. CASE WriteRaw
  BY <1>1, <1>2, <1>4, WriteDataStep DEF WriteRaw
<1> QED BY <1>3, <1>4

\* Writing the report keeps the invariant.
LEMMA ReportSteps ==
  ASSUME ExtractInv, WriteReport \/ ReportFails
  PROVE  ExtractInv'
<1>1. /\ at = "next" /\ at' = "end" /\ UNCHANGED <<arguments, results>> /\ results' = results
      /\ UNCHANGED vars /\ LoopTrue
  BY DEF WriteReport, ReportFails, arguments, loop, vars, ExtractInv
<1>2. \A p \in DOMAIN output :
        p # <<ReportName>> => p \in DOMAIN output' /\ output'[p] = output[p]
  BY DEF WriteReport, ReportFails, With
<1>3. report' = Classes \/ report' = NoReport
  BY <1>1 DEF WriteReport, ReportFails, ExtractInv, ReportInv
<1>4. ReportInv' /\ BufferInv' /\ LoopTrue'
  BY <1>1, <1>3, LoopStands DEF ReportInv, BufferInv, Classes
<1> QED BY <1>1, <1>2, <1>4, QuietStep

-----------------------------------------------------------------------------
\* The invariant of the extraction, for every volume and every mapfile.
THEOREM ExtractionInvariant == ExtractSpec => []ExtractInv
<1>1. ExtractInit => ExtractInv
  BY ExtractInitInv
<1>2. ExtractInv /\ [ExtractNext]_extract_vars => ExtractInv'
  <2> SUFFICES ASSUME ExtractInv, [ExtractNext]_extract_vars PROVE ExtractInv'
    OBVIOUS
  <2>1. ASSUME NEW f \in DOMAIN tree, NoParent(f) \/ WriteSmall(f) \/ NoRuns(f)
        PROVE  ExtractInv'
    BY <2>1, SmallSteps
  <2>2. ASSUME NEW f \in DOMAIN tree, Open(f) PROVE ExtractInv'
    BY <2>2, OpenStep
  <2>3. CASE SparseRun
    BY <2>3, SparseStep
  <2>4. CASE Ask
    BY <2>4, AskStep
  <2>5. CASE Answer
    BY <2>5, AnswerStep
  <2>6. CASE CopyRun
    BY <2>6, CopyStep
  <2>7. CASE ReadFails
    BY <2>7, ReadFailsStep
  <2>8. CASE Write \/ WriteRaw
    BY <2>8, WriteStep
  <2>9. CASE WriteReport \/ ReportFails
    BY <2>9, ReportSteps
  <2>10. CASE UNCHANGED extract_vars
    <3>1. /\ UNCHANGED <<arguments, results>> /\ UNCHANGED vars /\ report' = report
          /\ at' = at /\ output' = output /\ results' = results /\ tree' = tree /\ mapped' = mapped
          /\ file' = file /\ k' = k /\ buffer' = buffer /\ gaps' = gaps
      BY <2>10 DEF extract_vars, arguments, loop, vars
    <3>2. at' \in {"next", "runs", "check", "end"} /\ LoopTrue
      BY <3>1 DEF ExtractInv, ExtractTypeOK
    <3>3. LoopTrue'
      BY <3>1, <3>2, LoopStands
    <3>4. BufferInv' /\ ReportInv'
      <4>1. range' = range
        BY <3>1 DEF vars
      <4>2. Remaining' = Remaining /\ Run' = Run /\ RunRange' = RunRange /\ Classes' = Classes
        BY <3>1 DEF Remaining, Run, RunRange, Classes
      <4> QED BY <3>1, <4>1, <4>2 DEF ExtractInv, BufferInv, ReportInv
    <3> QED BY <3>1, <3>2, <3>3, <3>4, QuietStep
  <2> QED BY <2>1, <2>2, <2>3, <2>4, <2>5, <2>6, <2>7, <2>8, <2>9, <2>10 DEF ExtractNext
<1> QED BY <1>1, <1>2, PTL DEF ExtractSpec

\* The answers extract_selected gets of the mapfile tile the run it asks about.
THEOREM ExtractionStatusTiles == ExtractSpec => []StatusTiles
<1>1. ExtractInv => StatusTiles
  <2>1. ASSUME result = <<>>, BytesOf(range) = {} PROVE StatusTiles
    BY <2>1 DEF StatusTiles, IsOrdered, BytesOfList
  <2> QED BY <2>1, LoopTiles DEF ExtractInv, LoopTrue
<1> QED BY <1>1, ExtractionInvariant, PTL

\* The verdicts extract_selected gets are exact.
THEOREM ExtractionVerdictExact == ExtractSpec => []VerdictExact
<1>1. ExtractInv => VerdictExact
  <2>1. ASSUME result = <<>>, BytesOf(range) = {} PROVE VerdictExact
    BY <2>1 DEF VerdictExact, IsRangeRescued
  <2> QED BY <2>1, LoopVerdict DEF ExtractInv, LoopTrue
<1> QED BY <1>1, ExtractionInvariant, PTL

\* Every selected file is in one list of the report, and in two only if it is empty
\* or was written after its decompression failed.
THEOREM ExtractionReportedOnce == ExtractSpec => []ReportedOnce
<1>1. ExtractInv => ReportedOnce
  <2> SUFFICES ASSUME ExtractInv, report # NoReport, NEW f \in DOMAIN results
               PROVE  LET lists == {c \in DOMAIN report : f \in report[c]}
                      IN  IF TwiceListed(f) THEN lists = {"complete", "failed"}
                          ELSE Cardinality(lists) = 1
    BY DEF ReportedOnce
  <2> DEFINE lists == {c \in DOMAIN report : f \in report[c]}
             r == results[f]
  <2> SUFFICES /\ TwiceListed(f) => lists = {"complete", "failed"}
               /\ ~TwiceListed(f) => Cardinality(lists) = 1
    OBVIOUS
  <2>1. report = Classes
    BY DEF ExtractInv, ReportInv
  <2>2. \A c : c \in lists <=> \/ c = "complete" /\ r.complete
                               \/ c = "partial" /\ ~r.complete /\ ~r.error /\ r.bytes > 0
                               \/ c = "failed" /\ (r.error \/ r.bytes = 0)
    <3>1. DOMAIN report = {"complete", "partial", "failed"}
      BY <2>1 DEF Classes
    <3>2. f \in report["complete"] <=> r.complete
      BY <2>1 DEF Classes
    <3>3. f \in report["partial"] <=> ~r.complete /\ ~r.error /\ r.bytes > 0
      BY <2>1 DEF Classes
    <3>4. f \in report["failed"] <=> r.error \/ r.bytes = 0
      BY <2>1 DEF Classes
    <3> QED BY <3>1, <3>2, <3>3, <3>4
  <2>3. /\ r \in ResultType
        /\ r.complete => r.bytes = tree[f].size /\ (r.error => tree[f].compressed)
        /\ TwiceListed(f) <=> r.complete /\ (tree[f].size = 0 \/ (tree[f].compressed /\ r.error))
    BY DEF ExtractInv, ExtractTypeOK, ResultsInv, TwiceListed
  <2>4. r.bytes \in Nat /\ r.complete \in BOOLEAN /\ r.error \in BOOLEAN
    BY <2>3 DEF ResultType
  <2> HIDE DEF r
  <2>6. \A c : Cardinality({c}) = 1
    BY FS_Singleton
  <2>5. CASE r.complete /\ (r.error \/ r.bytes = 0)
    <3>1. \A c : c \in lists <=> c = "complete" \/ c = "failed"
      BY <2>2, <2>3, <2>4, <2>5
    <3>2. lists = {"complete", "failed"}
      BY <3>1, Zenon
    <3>3. TwiceListed(f)
      BY <2>3, <2>5
    <3> QED BY <3>2, <3>3
  <2>7. CASE r.complete /\ ~r.error /\ r.bytes # 0
    <3>1. \A c : c \in lists <=> c = "complete"
      BY <2>2, <2>3, <2>4, <2>7
    <3>2. lists = {"complete"}
      BY <3>1, Zenon
    <3>3. ~TwiceListed(f)
      BY <2>3, <2>7
    <3> HIDE DEF lists
    <3> QED BY <3>2, <3>3, <2>6
  <2>8. CASE ~r.complete /\ (r.error \/ r.bytes = 0)
    <3>1. \A c : c \in lists <=> c = "failed"
      BY <2>2, <2>3, <2>4, <2>8
    <3>2. lists = {"failed"}
      BY <3>1, Zenon
    <3>3. ~TwiceListed(f)
      BY <2>3, <2>8
    <3> HIDE DEF lists
    <3> QED BY <3>2, <3>3, <2>6
  <2>9. CASE ~r.complete /\ ~r.error /\ r.bytes # 0
    <3>1. \A c : c \in lists <=> c = "partial"
      BY <2>2, <2>3, <2>4, <2>9
    <3>2. lists = {"partial"}
      BY <3>1, Zenon
    <3>3. ~TwiceListed(f)
      BY <2>3, <2>9
    <3> HIDE DEF lists
    <3> QED BY <3>2, <3>3, <2>6
  <2> QED BY <2>5, <2>7, <2>8, <2>9
<1> QED BY <1>1, ExtractionInvariant, PTL

\* A byte of a written file that is not the volume's is in a gap of its result,
\* where the runs of a record lead to its content.
THEOREM ExtractionGapsTellLosses ==
  ASSUME RunsLead PROVE ExtractSpec => []GapsTellLosses
<1>1. ExtractInv => GapsTellLosses
  <2> SUFFICES ASSUME ExtractInv, mapped, NEW f \in DOMAIN results,
                      results[f].bytes = tree[f].size, Keeps(f), OnlyStored(tree[f]), tree[f].known,
                      NEW i \in 1 .. tree[f].size
               PROVE  output[Path(f)].data[i] = tree[f].content[i] \/ InGap(f, i)
    BY DEF GapsTellLosses
  <2>1. results[f].bytes > 0
    <3>1. tree[f].size \in Nat
      BY RecordTypes DEF ExtractInv, ExtractTypeOK
    <3> QED BY <3>1
  <2>2. Written(f)
    BY <2>1 DEF ExtractInv, WrittenInv
  <2> QED BY <2>2 DEF Written
<1> QED BY <1>1, ExtractionInvariant, PTL

\* A file called complete is byte for byte what the volume has, where the runs of
\* a record lead to its content.
THEOREM ExtractionCompleteIsTrue ==
  ASSUME RunsLead PROVE ExtractSpec => []CompleteIsTrue
<1>1. ExtractInv => CompleteIsTrue
  <2> SUFFICES ASSUME ExtractInv, mapped, NEW f \in DOMAIN results, results[f].complete,
                      Keeps(f), OnlyStored(tree[f]), tree[f].known
               PROVE  IsWhole(f)
    BY DEF CompleteIsTrue
  <2> DEFINE data == output[Path(f)].data
  <2>1. results[f].gaps = <<>> /\ results[f].bytes = tree[f].size
    BY DEF ExtractInv, ResultsInv
  <2>2. Written(f)
    BY <2>1 DEF ExtractInv, WrittenInv
  <2>3. /\ Path(f) \in DOMAIN output /\ output[Path(f)] = FileOf(data)
        /\ data \in Seq(Int) /\ Len(data) = tree[f].size
        /\ \A i \in 1 .. Len(data) : data[i] = tree[f].content[i]
    BY <2>1, <2>2 DEF Written, InGap
  <2>4. tree[f].content \in Seq(Int) /\ Len(tree[f].content) = tree[f].size
    BY RecordTypes DEF ExtractInv, ExtractTypeOK
  <2> HIDE DEF data
  <2>5. data = tree[f].content
    BY <2>3, <2>4, SeqEqual
  <2> QED BY <2>3, <2>5 DEF IsWhole
<1> QED BY <1>1, ExtractionInvariant, PTL

-----------------------------------------------------------------------------
\* The next run that is on the drive joins those that were rescued.
LEMMA RunsRescuedNext ==
  ASSUME NEW f, NEW n \in Nat, 1 <= n
  PROVE  RunsRescued(f, n + 1) <=>
           /\ RunsRescued(f, n)
           /\ tree[f].runs[n].lcn # None => BytesOf(RangeOf(tree[f].runs[n])) \subseteq Rescued(entries)
<1>1. \A m : m \in 1 .. ((n + 1) - 1) <=> m \in 1 .. (n - 1) \/ m = n
  OBVIOUS
<1> QED BY <1>1 DEF RunsRescued

\* A step that adds the result of a file, or an error, keeps the gaps true.
LEMMA GapsResult ==
  ASSUME ExtractInv, GapsInv, UNCHANGED arguments, at' = "next",
         NEW f \in Remaining, \A g \in Remaining : f <= g,
         NEW r \in ResultType, results' = With(results, f, r),
         mapped /\ ~r.error =>
           (r.gaps = <<>> <=> tree[f].resident \/ RunsRescued(f, Len(tree[f].runs) + 1))
  PROVE  GapsInv'
<1>1. ExtractTypeOK /\ ResultsInv /\ tree' = tree /\ mapped' = mapped /\ entries' = entries
  BY DEF ExtractInv, arguments
<1>2. /\ DOMAIN results' = DOMAIN results \cup {f} /\ results'[f] = r
      /\ \A g \in DOMAIN results : results'[g] = results[g]
  BY <1>1, ResultAdded
<1>3. \A g, n : RunsRescued(g, n)' <=> RunsRescued(g, n)
  BY <1>1 DEF RunsRescued
<1>4. ASSUME mapped, NEW g \in DOMAIN results', ~results'[g].error
      PROVE  results'[g].gaps = <<>> <=> tree[g].resident \/ RunsRescued(g, Len(tree[g].runs) + 1)
  BY <1>2, <1>4 DEF GapsInv
<1> QED BY <1>1, <1>3, <1>4 DEF GapsInv

\* A step that adds no result, and reads nothing further, keeps them.
LEMMA GapsQuiet ==
  ASSUME GapsInv, UNCHANGED <<arguments, results>>,
         at' \in {"runs", "check"} => /\ at \in {"runs", "check"}
                                      /\ UNCHANGED <<file, k, gaps>>
  PROVE  GapsInv'
<1>1. tree' = tree /\ mapped' = mapped /\ entries' = entries /\ results' = results
  BY DEF arguments
<1>2. \A g, n : RunsRescued(g, n)' <=> RunsRescued(g, n)
  BY <1>1 DEF RunsRescued
<1>3. ASSUME mapped, at' \in {"runs", "check"}
      PROVE  ~tree[file'].resident /\ (gaps' = <<>> <=> RunsRescued(file', k'))
  BY <1>3 DEF GapsInv
<1> QED BY <1>1, <1>2, <1>3 DEF GapsInv

\* A run more is read: a hole, or one the mapfile was asked about.
LEMMA GapsRunRead ==
  ASSUME ExtractInv, GapsInv, SparseRun \/ CopyRun
  PROVE  GapsInv'
<1>1. /\ at \in {"runs", "check"} /\ k' = k + 1 /\ file' = file
      /\ tree' = tree /\ mapped' = mapped /\ entries' = entries /\ results' = results
  BY DEF SparseRun, CopyRun, Reading, arguments
<1>2. /\ k \in Nat /\ 1 <= k /\ gaps \in Seq(ByteRange) /\ LoopTrue /\ BufferInv
  BY <1>1, WhileReading
<1>3. \A g, n : RunsRescued(g, n)' <=> RunsRescued(g, n)
  BY <1>1 DEF RunsRescued
<1>4. ASSUME mapped
      PROVE  gaps' = <<>> <=> /\ gaps = <<>>
                              /\ Run.lcn # None => BytesOf(RunRange) \subseteq Rescued(entries)
  <2>1. CASE SparseRun
    BY <2>1 DEF SparseRun
  <2>2. CASE CopyRun
    <3>1. /\ at = "check" /\ pc = "done"
          /\ gaps' = IF Lost THEN Append(gaps, [pos |-> Len(buffer), size |-> RunRange.size]) ELSE gaps
      BY <1>4, <2>2 DEF CopyRun
    <3>2. range = RunRange /\ Run.lcn # None
      BY <1>2, <3>1 DEF BufferInv
    <3>3. IsRangeRescued <=> BytesOf(range) \subseteq Rescued(entries)
      <4>1. CASE IInv
        BY <3>1, <4>1, LoopVerdict DEF VerdictExact
      <4>2. CASE result = <<>> /\ BytesOf(range) = {}
        BY <4>2 DEF IsRangeRescued
      <4> QED BY <1>2, <4>1, <4>2 DEF LoopTrue
    <3>4. Append(gaps, [pos |-> Len(buffer), size |-> RunRange.size]) # <<>>
      <4>1. [pos |-> Len(buffer), size |-> RunRange.size] \in ByteRange
        <5>1. k <= Len(tree[file].runs)
          BY <1>2, <3>1 DEF BufferInv
        <5>2. Len(buffer) \in Nat /\ RunRange.size \in Nat
          BY <1>1, <5>1, WhileReading
        <5> QED BY <5>2 DEF ByteRange
      <4>2. ASSUME NEW gap \in ByteRange PROVE Append(gaps, gap) # <<>>
        <5>1. Len(Append(gaps, gap)) = Len(gaps) + 1 /\ Len(gaps) \in Nat /\ Len(<<>>) = 0
          BY <1>2
        <5>2. Len(Append(gaps, gap)) # Len(<<>>)
          BY ONLY <5>1
        <5> QED BY ONLY <5>2, Zenon
      <4> QED BY <4>1, <4>2
    <3>5. Lost <=> ~(BytesOf(RunRange) \subseteq Rescued(entries))
      BY <3>1, <3>2, <3>3, Zenon DEF Lost
    <3>6. CASE Lost
      BY <3>1, <3>2, <3>4, <3>5, <3>6, Zenon
    <3>7. CASE ~Lost
      BY <3>1, <3>2, <3>5, <3>7, Zenon
    <3> QED BY <3>6, <3>7
  <2> QED BY <2>1, <2>2
<1>5. RunsRescued(file, k + 1) <=>
        RunsRescued(file, k) /\ (Run.lcn # None => BytesOf(RunRange) \subseteq Rescued(entries))
  BY <1>2, RunsRescuedNext DEF Run, RunRange
<1>6. ASSUME mapped
      PROVE  ~tree[file].resident /\ (gaps' = <<>> <=> RunsRescued(file, k + 1))
  BY <1>1, <1>4, <1>5, <1>6 DEF GapsInv
<1>7. ASSUME mapped, NEW g \in DOMAIN results, ~results[g].error
      PROVE  results[g].gaps = <<>> <=> tree[g].resident \/ RunsRescued(g, Len(tree[g].runs) + 1)
  BY <1>7 DEF GapsInv
<1> QED BY <1>1, <1>3, <1>6, <1>7 DEF GapsInv

\* The gaps stay true of the records without data runs to read.
LEMMA GapsSmall ==
  ASSUME ExtractInv, GapsInv, NEW f \in DOMAIN tree, NoParent(f) \/ WriteSmall(f) \/ NoRuns(f)
  PROVE  GapsInv'
<1>1. /\ f \in Remaining /\ \A g \in Remaining : f <= g
      /\ UNCHANGED arguments /\ at' = "next"
  BY DEF NoParent, WriteSmall, NoRuns, IsNext, Idle
<1>2. Failed \in ResultType /\ Failed.error
  BY DEF Failed, Result, ResultType
<1>3. CASE NoParent(f) \/ NoRuns(f)
  <2>1. results' = With(results, f, Failed)
    BY <1>3 DEF NoParent, NoRuns
  <2> QED BY <1>1, <1>2, <2>1, GapsResult
<1>4. CASE WriteSmall(f)
  <2> DEFINE data == tree[f].content
             done == Result(TRUE, FALSE, data, <<>>)
  <2>1. Len(data) \in Nat
    BY RecordTypes DEF ExtractInv, ExtractTypeOK
  <2>2. done \in ResultType /\ <<>> \in Seq(ByteRange) /\ done.gaps = <<>>
    BY <2>1 DEF Result, ResultType
  <2>3. \/ /\ output' = With(MadeDirs(Path(f)), Path(f), FileOf(data))
           /\ results' = With(results, f, done)
        \/ /\ output' \in {MadeDirs(Path(f)), With(MadeDirs(Path(f)), Path(f), FileOf(<<>>))}
           /\ results' = With(results, f, Result(FALSE, TRUE, <<>>, <<>>))
    BY <1>4 DEF WriteSmall, WriteBytes
  <2>4. tree[f].resident \/ RunsRescued(f, Len(tree[f].runs) + 1)
    <3>1. tree[f].runs = <<>> => RunsRescued(f, Len(tree[f].runs) + 1)
      BY DEF RunsRescued
    <3> QED BY <1>4, <3>1 DEF WriteSmall
  <2> HIDE DEF data, done
  <2>5. PICK r \in ResultType : results' = With(results, f, r) /\ (r.error \/ r = done)
    BY <2>2, <2>3, WriteBytesLeaves
  <2> QED BY <1>1, <2>2, <2>4, <2>5, GapsResult
<1> QED BY <1>3, <1>4

\* The gaps stay true of a file that is opened: nothing is read of it.
LEMMA GapsOpen ==
  ASSUME ExtractInv, GapsInv, NEW f \in DOMAIN tree, Open(f)
  PROVE  GapsInv'
<1>1. /\ tree' = tree /\ mapped' = mapped /\ entries' = entries /\ results' = results
      /\ file' = f /\ k' = 1 /\ gaps' = <<>> /\ ~tree[f].resident
  BY DEF Open, arguments
<1>2. \A g, n : RunsRescued(g, n)' <=> RunsRescued(g, n)
  BY <1>1 DEF RunsRescued
<1>3. RunsRescued(f, 1)
  BY DEF RunsRescued
<1>4. ASSUME mapped, NEW g \in DOMAIN results, ~results[g].error
      PROVE  results[g].gaps = <<>> <=> tree[g].resident \/ RunsRescued(g, Len(tree[g].runs) + 1)
  BY <1>4 DEF GapsInv
<1> QED BY <1>1, <1>2, <1>3, <1>4 DEF GapsInv

\* The gaps stay true of a file that was read: its result has them.
LEMMA GapsOfRead ==
  ASSUME ExtractInv, GapsInv, ReadFails \/ Write \/ WriteRaw
  PROVE  GapsInv'
<1>1. /\ at = "runs" /\ at' = "next" /\ UNCHANGED arguments
  BY DEF ReadFails, Write, WriteRaw, WriteData
<1>2. /\ file \in Remaining /\ (\A g \in Remaining : file <= g) /\ gaps \in Seq(ByteRange)
      /\ k <= Len(tree[file].runs) + 1 /\ k \in Nat /\ Len(tree[file].runs) \in Nat
      /\ buffer \in Seq(Int) /\ tree[file].size \in Nat
  BY <1>1, WhileReading
<1>3. CASE ReadFails
  <2> DEFINE r == [Failed EXCEPT !.gaps = gaps]
  <2>1. r \in ResultType /\ r.error
    BY <1>2 DEF Failed, Result, ResultType
  <2>2. results' = With(results, file, r)
    BY <1>3 DEF ReadFails
  <2> HIDE DEF r
  <2> QED BY <1>1, <1>2, <2>1, <2>2, GapsResult
<1>4. ASSUME NEW data, NEW error \in BOOLEAN, WriteData(data, error), Len(data) \in Nat
      PROVE  GapsInv'
  <2> DEFINE done == Result(IsComplete(data), error, data, gaps)
  <2>1. /\ k > Len(tree[file].runs)
        /\ \/ /\ output' = With(MadeDirs(Path(file)), Path(file), FileOf(data))
              /\ results' = With(results, file, done)
           \/ /\ output' \in {MadeDirs(Path(file)), With(MadeDirs(Path(file)), Path(file), FileOf(<<>>))}
              /\ results' = With(results, file, Result(FALSE, TRUE, <<>>, gaps))
    BY <1>4 DEF WriteData, WriteBytes
  <2>2. k = Len(tree[file].runs) + 1
    BY <1>2, <2>1
  <2>3. IsComplete(data) \in BOOLEAN
    BY DEF IsComplete
  <2>4. done \in ResultType /\ done.gaps = gaps
    BY <1>2, <1>4, <2>3 DEF Result, ResultType
  <2> HIDE DEF done
  <2>5. PICK r \in ResultType : results' = With(results, file, r) /\ (r.error \/ r = done)
    BY <1>2, <2>1, <2>4, WriteBytesLeaves
  <2>6. mapped => ~tree[file].resident /\ (gaps = <<>> <=> RunsRescued(file, Len(tree[file].runs) + 1))
    BY <1>1, <2>2 DEF GapsInv
  <2> QED BY <1>1, <1>2, <2>4, <2>5, <2>6, GapsResult
<1>5. CASE Write \/ WriteRaw
  <2>1. k = Len(tree[file].runs) + 1
    <3>1. k > Len(tree[file].runs)
      BY <1>5 DEF Write, WriteRaw, WriteData
    <3> QED BY <1>2, <3>1
  <2>2. Len(Trimmed) \in Nat /\ Len(Raw) \in Nat
    <3>1. Len(buffer) = RunsEnd(tree[file])
      BY <1>1, <2>1, WhileReading DEF RunsEnd
    <3> QED BY <1>2, <3>1, TrimmedTypes DEF StandsForBuffer
  <2> QED BY <1>4, <1>5, <2>2 DEF Write, WriteRaw
<1> QED BY <1>3, <1>5

\* Every step keeps the gaps true.
LEMMA GapsNext == ExtractInv /\ GapsInv /\ [ExtractNext]_extract_vars => GapsInv'
<1> SUFFICES ASSUME ExtractInv, GapsInv, [ExtractNext]_extract_vars PROVE GapsInv'
  OBVIOUS
<1>1. ASSUME NEW f \in DOMAIN tree, NoParent(f) \/ WriteSmall(f) \/ NoRuns(f)
      PROVE  GapsInv'
  BY <1>1, GapsSmall
<1>2. ASSUME NEW f \in DOMAIN tree, Open(f) PROVE GapsInv'
  BY <1>2, GapsOpen
<1>3. CASE SparseRun \/ CopyRun
  BY <1>3, GapsRunRead
<1>4. CASE ReadFails \/ Write \/ WriteRaw
  BY <1>4, GapsOfRead
<1>5. CASE Ask
  BY <1>5, GapsQuiet DEF Ask, Reading
<1>6. CASE Answer
  <2>1. entries' = entries
    BY <1>6 DEF Answer, Next, SkipEntry, TakeEntry, TrailingGap, EmptyRange
  <2> QED BY <1>6, <2>1, GapsQuiet DEF Answer, arguments
<1>7. CASE WriteReport \/ ReportFails
  BY <1>7, GapsQuiet DEF WriteReport, ReportFails
<1>8. CASE UNCHANGED extract_vars
  BY <1>8, GapsQuiet DEF extract_vars
<1> QED BY <1>1, <1>2, <1>3, <1>4, <1>5, <1>6, <1>7, <1>8 DEF ExtractNext

\* What the results have of gaps is true, for every volume and every mapfile.
THEOREM ExtractionGapsInvariant == ExtractSpec => []GapsInv
<1>1. ExtractInit => GapsInv
  BY DEF ExtractInit, GapsInv
<1> QED BY <1>1, GapsNext, ExtractionInvariant, PTL DEF ExtractSpec

\* Of the bytes of a range, those in a set are no more than its size, and as many
\* only if all are.
LEMMA CountWithin ==
  ASSUME NEW r \in ByteRange, NEW X
  PROVE  /\ Cardinality(BytesOf(r) \cap X) \in Nat
         /\ Cardinality(BytesOf(r) \cap X) <= r.size
         /\ Cardinality(BytesOf(r) \cap X) = r.size <=> BytesOf(r) \subseteq X
<1> DEFINE B == BytesOf(r)
           C == B \cap X
<1>1. IsFiniteSet(B) /\ Cardinality(B) = r.size
  BY BytesCount
<1> HIDE DEF B
<1>2. C \in SUBSET B
  OBVIOUS
<1> HIDE DEF C
<1>3. /\ IsFiniteSet(C) /\ Cardinality(C) <= Cardinality(B)
      /\ Cardinality(C) = Cardinality(B) => C = B
  BY <1>1, <1>2, FS_Subset
<1>4. Cardinality(C) \in Nat
  BY <1>3, FS_CardinalityType
<1>5. B \subseteq X <=> C = B
  BY DEF C
<1>6. Cardinality(C) = r.size <=> B \subseteq X
  BY <1>1, <1>3, <1>5, Zenon
<1> QED BY <1>1, <1>3, <1>4, <1>6 DEF B, C

\* What the health counts of one run: no more than its size, and all of it if its
\* bytes were rescued, or there are none.
LEMMA RunCounts ==
  ASSUME entries \in MapfileSet, tree \in Trees(entries),
         NEW f \in DOMAIN tree, NEW n \in DOMAIN tree[f].runs
  PROVE  LET run == tree[f].runs[n]
         IN  /\ RunSize(run) \in Nat /\ RunRescued(run) \in Nat
             /\ RunRescued(run) <= RunSize(run)
             /\ RunRescued(run) = RunSize(run) <=>
                  (run.lcn # None => BytesOf(RangeOf(run)) \subseteq Rescued(entries))
<1> DEFINE run == tree[f].runs[n]
<1>1. run.lcn # None => RangeOf(run) \in ByteRange /\ RangeOf(run).size \in Nat
  BY RecordTypes
<1> HIDE DEF run
<1>2. CASE run.lcn = None
  <2>1. RunSize(run) = 0 /\ RunRescued(run) = 0
    BY <1>2 DEF RunSize, RunRescued
  <2> QED BY <1>2, <2>1 DEF run
<1>3. CASE run.lcn # None
  <2>1. /\ RunSize(run) = RangeOf(run).size
        /\ RunRescued(run) = Cardinality(BytesOf(RangeOf(run)) \cap Rescued(entries))
    BY <1>3 DEF RunSize, RunRescued
  <2>2. /\ RunSize(run) \in Nat /\ RunRescued(run) \in Nat /\ RunRescued(run) <= RunSize(run)
        /\ RunRescued(run) = RunSize(run) <=> BytesOf(RangeOf(run)) \subseteq Rescued(entries)
    BY <1>1, <1>3, <2>1, CountWithin
  <2> QED BY <1>3, <2>2, Zenon DEF run
<1> QED BY <1>2, <1>3

\* A list is given by its numbers.
LEMMA ListOf ==
  ASSUME NEW L \in Nat, NEW q, q = [n \in 1 .. L |-> q[n]], \A n \in 1 .. L : q[n] \in Nat
  PROVE  q \in Seq(Nat) /\ Len(q) = L
<1>1. [n \in 1 .. L |-> q[n]] \in Seq(Nat) /\ Len([n \in 1 .. L |-> q[n]]) = L
  OBVIOUS
<1> QED BY <1>1, Zenon

\* The bytes of a file in the image are all of it if and only if its runs on the
\* drive were rescued; so they are when there are none.
LEMMA HealthCounts ==
  ASSUME entries \in MapfileSet, tree \in Trees(entries), NEW f \in DOMAIN tree
  PROVE  /\ BytesInImage(f) = TotalBytes(f) <=> RunsRescued(f, Len(tree[f].runs) + 1)
         /\ TotalBytes(f) = 0 => BytesInImage(f) = TotalBytes(f)
<1> DEFINE L == Len(tree[f].runs)
           s == [r \in DOMAIN tree[f].runs |-> RunSize(tree[f].runs[r])]
           t == [r \in DOMAIN tree[f].runs |-> RunRescued(tree[f].runs[r])]
<1>1. L \in Nat /\ DOMAIN tree[f].runs = 1 .. L
  <2>1. tree[f].runs \in Seq([lcn : Int, count : Nat])
    BY RecordTypes DEF FileRecord
  <2> QED BY <2>1
<1>2. \A n \in 1 .. L :
        /\ s[n] \in Nat /\ t[n] \in Nat /\ t[n] <= s[n]
        /\ t[n] = s[n] <=> (tree[f].runs[n].lcn # None =>
                              BytesOf(RangeOf(tree[f].runs[n])) \subseteq Rescued(entries))
  <2> TAKE n \in 1 .. L
  <2>1. s[n] = RunSize(tree[f].runs[n]) /\ t[n] = RunRescued(tree[f].runs[n])
    BY <1>1
  <2>2. n \in DOMAIN tree[f].runs
    BY <1>1
  <2> HIDE DEF s, t, L
  <2> QED BY <2>1, <2>2, RunCounts, Zenon
<1>3. s \in Seq(Nat) /\ t \in Seq(Nat) /\ Len(s) = L /\ Len(t) = L
  <2>1. DOMAIN s = 1 .. L /\ DOMAIN t = 1 .. L
    BY <1>1
  <2>2. s = [n \in 1 .. L |-> s[n]] /\ t = [n \in 1 .. L |-> t[n]]
    BY <1>1
  <2> HIDE DEF s, t
  <2> QED BY <1>1, <1>2, <2>1, <2>2, ListOf
<1>4. TotalBytes(f) = SumOf(s) /\ BytesInImage(f) = SumOf(t)
  BY DEF TotalBytes, BytesInImage
<1>5. RunsRescued(f, L + 1) <=> \A n \in 1 .. L : t[n] = s[n]
  <2>1. (L + 1) - 1 = L
    BY <1>1
  <2> HIDE DEF L, s, t
  <2> QED BY <1>2, <2>1, Zenon DEF RunsRescued
<1> HIDE DEF s, t
<1>6. /\ SumOf(s) \in Nat /\ SumOf(t) \in Nat
      /\ \A n \in 1 .. L : s[n] <= SumOf(s)
      /\ SumOf(t) = SumOf(s) <=> \A n \in 1 .. L : t[n] = s[n]
  BY <1>2, <1>3, SumsCompare, ZenonT(60)
<1>7. ASSUME SumOf(s) = 0 PROVE SumOf(t) = SumOf(s)
  <2>1. \A n \in 1 .. L : t[n] = s[n]
    BY <1>2, <1>6, <1>7
  <2> QED BY <1>6, <2>1
<1> QED BY <1>4, <1>5, <1>6, <1>7

\* The health the browser shows of a file is complete, or unknown, exactly when the
\* extraction found no gap in it.
THEOREM ExtractionHealthAgrees == ExtractSpec => []HealthAgrees
<1>1. ExtractInv /\ GapsInv => HealthAgrees
  <2> SUFFICES ASSUME ExtractInv, GapsInv, mapped, NEW f \in DOMAIN results, ~results[f].error
               PROVE  results[f].gaps = <<>> <=> Health(f) \in {"complete", "unknown"}
    BY DEF HealthAgrees
  <2>1. /\ entries \in MapfileSet /\ tree \in Trees(entries) /\ f \in DOMAIN tree
    BY DEF ExtractInv, ExtractTypeOK
  <2>2. results[f].gaps = <<>> <=> tree[f].resident \/ RunsRescued(f, Len(tree[f].runs) + 1)
    BY DEF GapsInv
  <2>3. /\ BytesInImage(f) = TotalBytes(f) <=> RunsRescued(f, Len(tree[f].runs) + 1)
        /\ TotalBytes(f) = 0 => BytesInImage(f) = TotalBytes(f)
    BY <2>1, HealthCounts
  <2>4. Health(f) \in {"complete", "unknown"} <=>
          tree[f].resident \/ BytesInImage(f) = TotalBytes(f)
    <3>1. CASE tree[f].resident
      BY <3>1 DEF Health
    <3>2. CASE ~tree[f].resident /\ BytesInImage(f) = TotalBytes(f)
      <4>1. Health(f) = IF TotalBytes(f) = 0 THEN "unknown" ELSE "complete"
        BY ONLY <3>2, Zenon DEF Health
      <4> QED BY <3>2, <4>1
    <3>3. CASE ~tree[f].resident /\ BytesInImage(f) # TotalBytes(f)
      <4>1. TotalBytes(f) # 0
        BY <2>3, <3>3
      <4>2. Health(f) = IF BytesInImage(f) = 0 THEN "unread" ELSE "partial"
        BY ONLY <3>3, <4>1, Zenon DEF Health
      <4> QED BY <3>3, <4>2
    <3> QED BY <3>1, <3>2, <3>3
  <2> QED BY <2>2, <2>3, <2>4
<1> QED BY <1>1, ExtractionInvariant, ExtractionGapsInvariant, PTL
=============================================================================
