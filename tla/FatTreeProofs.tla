---------------------------- MODULE FatTreeProofs ----------------------------
(***************************************************************************)
(* follow_chain never leaves the chain of a file, and what is read for its *)
(* runs are the sectors of its clusters: for any table, any limit and any  *)
(* geometry.  And the trees of FAT and exFAT hold every file whose way was *)
(* read, once, and nothing that the volume did not have there, however it  *)
(* was used and whatever is missing of it.                                 *)
(***************************************************************************)
EXTENDS FatTree, SequenceTheorems, WellFoundedInduction, TLAPS

\* A set of numbers that is not empty has a least one.
LEMMA LeastNumber ==
  ASSUME NEW T \in SUBSET Nat, T # {}
  PROVE  \E x \in T : \A y \in T : x <= y
<1>1. \E x \in T : \A y \in T : ~(<<y, x>> \in OpToRel(<, Nat))
  <2> HIDE DEF OpToRel
  <2> QED BY NatLessThanWellFounded, WFMin
<1>2. PICK x \in T : \A y \in T : ~(<<y, x>> \in OpToRel(<, Nat))
  BY <1>1
<1>3. OpToRel(<, Nat) = {ss \in Nat \X Nat : ss[1] < ss[2]}
  BY DEF OpToRel
<1>4. ASSUME NEW y \in T, ~(x <= y) PROVE FALSE
  <2>1. y \in Nat /\ x \in Nat /\ y < x
    BY <1>4
  <2>2. <<y, x>> \in {ss \in Nat \X Nat : ss[1] < ss[2]}
    BY <2>1
  <2> QED BY <1>2, <1>3, <2>2
<1> QED BY <1>2, <1>4

\* What holds of 0 and, with a number, of the next, holds of all.
LEMMA Induction ==
  ASSUME NEW S \in SUBSET Nat, 0 \in S, \A n \in S : n + 1 \in S
  PROVE  S = Nat
<1> SUFFICES ASSUME Nat \ S # {} PROVE FALSE
  OBVIOUS
<1>1. PICK x \in Nat \ S : \A y \in Nat \ S : x <= y
  BY LeastNumber
<1>2. x # 0 /\ x - 1 \in Nat /\ ~(x <= x - 1)
  BY <1>1
<1>3. x - 1 \in S
  BY <1>1, <1>2
<1>4. (x - 1) + 1 \in S
  BY <1>3
<1> QED BY <1>1, <1>4

-----------------------------------------------------------------------------
\* The first lists of a list of lists, put together.
Flattens(ss) ==
  CHOOSE flatten : flatten = [n \in 1..Len(ss) |->
                                IF n = 1 THEN ss[n] ELSE flatten[n - 1] \o ss[n]]

\* The lists are put together from the first to the last.
LEMMA FlattensFacts ==
  ASSUME NEW S, NEW ss \in Seq(Seq(S))
  PROVE  /\ FlattenSeq(ss) = IF Len(ss) = 0 THEN ss ELSE Flattens(ss)[Len(ss)]
         /\ \A n \in 1..Len(ss) :
              Flattens(ss)[n] = IF n = 1 THEN ss[n] ELSE Flattens(ss)[n - 1] \o ss[n]
<1> DEFINE L == Len(ss)
           Is(g, m) == g = [n \in 1..m |-> IF n = 1 THEN ss[n] ELSE g[n - 1] \o ss[n]]
           M == {m \in Nat : \E g : Is(g, m)}
<1>0. L \in Nat
  OBVIOUS
<1>1. 0 \in M
  <2>1. Is([n \in 1..0 |-> 0], 0)
    OBVIOUS
  <2> QED BY <2>1
<1>2. ASSUME NEW m \in M PROVE m + 1 \in M
  <2>1. m \in Nat
    OBVIOUS
  <2>2. PICK g : Is(g, m)
    OBVIOUS
  <2> DEFINE last == IF m = 0 THEN ss[m + 1] ELSE g[m] \o ss[m + 1]
             h    == [n \in 1..(m + 1) |-> IF n <= m THEN g[n] ELSE last]
  <2>3. \A n \in 1..m : g[n] = IF n = 1 THEN ss[n] ELSE g[n - 1] \o ss[n]
    BY <2>2
  <2>4. ASSUME NEW n \in 1..(m + 1)
        PROVE  h[n] = IF n = 1 THEN ss[n] ELSE h[n - 1] \o ss[n]
    <3>1. CASE n \in 1..m
      <4>1. h[n] = g[n]
        BY <2>1, <3>1
      <4>2. n # 1 => h[n - 1] = g[n - 1]
        BY <2>1, <3>1
      <4> QED BY <4>1, <4>2, <2>3, <3>1
    <3>2. CASE n = m + 1
      <4>1. h[n] = last /\ (n = 1 <=> m = 0)
        BY <2>1, <3>2
      <4>2. n # 1 => h[n - 1] = g[m]
        BY <2>1, <3>2
      <4> QED BY <3>2, <4>1, <4>2
    <3> QED BY <2>1, <3>1, <3>2
  <2>5. Is(h, m + 1)
    BY <2>4
  <2> HIDE DEF h, Is
  <2> QED BY <2>1, <2>5
<1>3. M = Nat
  <2>1. M \in SUBSET Nat
    OBVIOUS
  <2> HIDE DEF M
  <2> QED BY <1>1, <1>2, <2>1, Induction
<1>4. \E g : Is(g, L)
  <2> HIDE DEF Is, L
  <2> QED BY <1>0, <1>3
<1>5. Flattens(ss) = CHOOSE g : Is(g, L)
  BY DEF Flattens
<1>6. FlattenSeq(ss) = IF L = 0 THEN ss ELSE Flattens(ss)[L]
  BY DEF FlattenSeq, Flattens
<1>7. Is(Flattens(ss), L)
  <2> HIDE DEF Is, L
  <2> QED BY <1>4, <1>5
<1> QED BY <1>0, <1>6, <1>7

\* One list more is put behind the others.
LEMMA FlattenAppend ==
  ASSUME NEW S, NEW ss \in Seq(Seq(S)), NEW t \in Seq(S)
  PROVE  FlattenSeq(ss) \in Seq(S) /\ FlattenSeq(Append(ss, t)) = FlattenSeq(ss) \o t
<1> DEFINE L  == Len(ss)
           tt == Append(ss, t)
           M  == {m \in Nat : m \in 1..L => /\ Flattens(ss)[m] \in Seq(S)
                                            /\ Flattens(tt)[m] = Flattens(ss)[m]}
<1>0. /\ L \in Nat /\ tt \in Seq(Seq(S)) /\ Len(tt) = L + 1 /\ tt[L + 1] = t
      /\ \A n \in 1..L : ss[n] \in Seq(S) /\ tt[n] = ss[n] /\ n \in 1..(L + 1)
  OBVIOUS
<1> HIDE DEF tt
<1>1. /\ FlattenSeq(ss) = IF L = 0 THEN ss ELSE Flattens(ss)[L]
      /\ \A n \in 1..L : Flattens(ss)[n] = IF n = 1 THEN ss[n] ELSE Flattens(ss)[n - 1] \o ss[n]
  BY FlattensFacts
<1>2. /\ FlattenSeq(tt) = Flattens(tt)[L + 1]
      /\ \A n \in 1..(L + 1) :
           Flattens(tt)[n] = IF n = 1 THEN tt[n] ELSE Flattens(tt)[n - 1] \o tt[n]
  <2>1. /\ FlattenSeq(tt) = IF Len(tt) = 0 THEN tt ELSE Flattens(tt)[Len(tt)]
        /\ \A n \in 1..Len(tt) :
             Flattens(tt)[n] = IF n = 1 THEN tt[n] ELSE Flattens(tt)[n - 1] \o tt[n]
    BY <1>0, FlattensFacts
  <2> QED BY <1>0, <2>1
<1>3. 0 \in M
  OBVIOUS
<1>4. ASSUME NEW m \in M PROVE m + 1 \in M
  <2>1. CASE m + 1 \in 1..L
    <3>1. m \in Nat /\ m + 1 \in 1..(L + 1) /\ (m + 1) - 1 = m /\ (m # 0 => m \in 1..L)
      BY <1>0, <2>1, SMTT(40)
    <3>2. ss[m + 1] \in Seq(S) /\ tt[m + 1] = ss[m + 1]
      BY <1>0, <2>1
    <3>3. /\ Flattens(ss)[m + 1] = IF m + 1 = 1 THEN ss[m + 1] ELSE Flattens(ss)[m] \o ss[m + 1]
          /\ Flattens(tt)[m + 1] = IF m + 1 = 1 THEN tt[m + 1] ELSE Flattens(tt)[m] \o tt[m + 1]
      BY <1>1, <1>2, <2>1, <3>1
    <3>4. CASE m = 0
      <4>1. Flattens(ss)[m + 1] = ss[m + 1] /\ Flattens(tt)[m + 1] = tt[m + 1]
        BY <3>3, <3>4
      <4> QED BY <3>1, <3>2, <4>1
    <3>5. CASE m # 0
      <4>1. Flattens(ss)[m] \in Seq(S) /\ Flattens(tt)[m] = Flattens(ss)[m] /\ m + 1 # 1
        BY <3>1, <3>5
      <4>2. /\ Flattens(ss)[m + 1] = Flattens(ss)[m] \o ss[m + 1]
            /\ Flattens(tt)[m + 1] = Flattens(ss)[m] \o ss[m + 1]
        BY <3>2, <3>3, <4>1
      <4>3. Flattens(ss)[m] \o ss[m + 1] \in Seq(S)
        BY ONLY <3>2, <4>1, ConcatProperties
      <4>4. Flattens(ss)[m + 1] \in Seq(S) /\ Flattens(tt)[m + 1] = Flattens(ss)[m + 1]
        BY ONLY <4>2, <4>3
      <4> QED BY ONLY <3>1, <4>4
    <3> QED BY <3>4, <3>5
  <2> QED BY <2>1
<1>5. M = Nat
  <2>1. M \in SUBSET Nat
    OBVIOUS
  <2> HIDE DEF M
  <2> QED BY <1>3, <1>4, <2>1, Induction
<1>6. ss \in Seq(Seq(S))
  OBVIOUS
<1>7. CASE L = 0
  <2>1. FlattenSeq(ss) = ss
    BY <1>1, <1>7
  <2>2. ss = <<>>
    BY ONLY <1>6, <1>7, EmptySeq
  <2>3. FlattenSeq(tt) = t
    BY <1>0, <1>2, <1>7
  <2> QED BY <2>1, <2>2, <2>3, ConcatEmptySeq DEF tt
<1>8. CASE L # 0
  <2>1. L \in 1..L /\ L + 1 \in 1..(L + 1) /\ (L + 1) - 1 = L /\ L + 1 # 1
    BY <1>0, <1>8
  <2>2. Flattens(ss)[L] \in Seq(S) /\ Flattens(tt)[L] = Flattens(ss)[L]
    BY <1>0, <1>5, <2>1
  <2>3. FlattenSeq(tt) = Flattens(tt)[L] \o t
    BY <1>0, <1>2, <2>1
  <2> QED BY <1>1, <1>8, <2>2, <2>3 DEF tt
<1> QED BY <1>7, <1>8

-----------------------------------------------------------------------------
RunType == [cluster : Nat, count : Nat]

\* What a list of runs and a run more stand for.
LEMMA ClustersAppend ==
  ASSUME NEW rs \in Seq(RunType), NEW r \in RunType
  PROVE  /\ ClustersOf(<<>>) = <<>>
         /\ ClustersOf(rs) \in Seq(Nat) /\ ClustersOf(Append(rs, r)) \in Seq(Nat)
         /\ Len(ClustersOf(Append(rs, r))) = Len(ClustersOf(rs)) + r.count
         /\ \A k \in 1..Len(ClustersOf(rs)) : ClustersOf(Append(rs, r))[k] = ClustersOf(rs)[k]
         /\ \A j \in 1..r.count :
              ClustersOf(Append(rs, r))[Len(ClustersOf(rs)) + j] = r.cluster + j - 1
<1> DEFINE of(x) == [j \in 1..x.count |-> x.cluster + j - 1]
           lists(q) == [k \in DOMAIN q |-> [j \in 1..q[k].count |-> q[k].cluster + j - 1]]
           t == Append(rs, r)
<1>1. ASSUME NEW x \in RunType
      PROVE  of(x) \in Seq(Nat) /\ Len(of(x)) = x.count /\ x.count \in Nat
  <2>1. x.count \in Nat /\ x.cluster \in Nat
    BY DEF RunType
  <2>2. \A j \in 1..x.count : x.cluster + j - 1 \in Nat
    BY <2>1
  <2> QED BY <2>1, <2>2, SMTT(40)
<1>2. /\ t \in Seq(RunType) /\ Len(t) = Len(rs) + 1 /\ Len(rs) \in Nat
      /\ t[Len(rs) + 1] = r /\ DOMAIN rs = 1..Len(rs) /\ DOMAIN t = 1..(Len(rs) + 1)
      /\ \A k \in 1..Len(rs) : t[k] = rs[k] /\ rs[k] \in RunType
  OBVIOUS
<1> HIDE DEF t
<1>3. ASSUME NEW q \in Seq(RunType)
      PROVE  /\ lists(q) \in Seq(Seq(Nat)) /\ Len(lists(q)) = Len(q)
             /\ \A k \in 1..Len(q) : lists(q)[k] = of(q[k])
  <2>1. DOMAIN q = 1..Len(q) /\ Len(q) \in Nat /\ \A k \in 1..Len(q) : q[k] \in RunType
    OBVIOUS
  <2>2. \A k \in 1..Len(q) : lists(q)[k] = of(q[k])
    BY <2>1
  <2>3. \A k \in 1..Len(q) : lists(q)[k] \in Seq(Nat)
    BY <1>1, <2>1, <2>2
  <2>4. lists(q) = [k \in 1..Len(q) |-> lists(q)[k]]
    BY <2>1
  <2> HIDE DEF lists, of
  <2> QED BY <2>1, <2>2, <2>3, <2>4
<1>4. lists(t) = Append(lists(rs), of(r))
  <2>1. of(r) \in Seq(Nat)
    BY <1>1
  <2>2. /\ lists(rs) \in Seq(Seq(Nat)) /\ Len(lists(rs)) = Len(rs)
        /\ \A k \in 1..Len(rs) : lists(rs)[k] = of(rs[k])
    BY <1>3
  <2>3. /\ lists(t) \in Seq(Seq(Nat)) /\ Len(lists(t)) = Len(rs) + 1
        /\ \A k \in 1..(Len(rs) + 1) : lists(t)[k] = of(t[k])
    BY <1>2, <1>3
  <2> DEFINE a == lists(t)
             b == Append(lists(rs), of(r))
  <2> HIDE DEF lists, of
  <2>4. /\ b \in Seq(Seq(Nat)) /\ Len(b) = Len(rs) + 1
        /\ \A k \in 1..Len(rs) : b[k] = lists(rs)[k]
        /\ b[Len(rs) + 1] = of(r)
    BY <1>2, <2>1, <2>2, AppendProperties
  <2>5. ASSUME NEW k \in 1..Len(a) PROVE a[k] = b[k]
    <3>1. k \in 1..Len(rs) \/ k = Len(rs) + 1
      BY <1>2, <2>3, <2>5
    <3> QED BY <1>2, <2>2, <2>3, <2>4, <2>5, <3>1
  <2>6. a \in Seq(Seq(Nat)) /\ b \in Seq(Seq(Nat)) /\ Len(a) = Len(b)
    BY <2>3, <2>4
  <2> HIDE DEF a, b
  <2>7. a = b
    BY ONLY <2>5, <2>6, SeqEqual
  <2> QED BY <2>7 DEF a, b
<1>5. ClustersOf(rs) = FlattenSeq(lists(rs)) /\ ClustersOf(t) = FlattenSeq(lists(t))
  BY DEF ClustersOf
<1>6. ClustersOf(<<>>) = <<>>
  <2>1. lists(<<>>) = <<>>
    OBVIOUS
  <2>2. FlattenSeq(<<>>) = <<>>
    BY DEF FlattenSeq
  <2> QED BY <2>1, <2>2 DEF ClustersOf
<1> DEFINE c == ClustersOf(rs)
           u == of(r)
<1>7. c \in Seq(Nat) /\ ClustersOf(t) = c \o u
  <2>1. of(r) \in Seq(Nat)
    BY <1>1
  <2>2. lists(rs) \in Seq(Seq(Nat))
    BY <1>3
  <2> HIDE DEF lists, of
  <2> QED BY <1>4, <1>5, <2>1, <2>2, FlattenAppend
<1>8. u \in Seq(Nat) /\ Len(u) = r.count /\ r.count \in Nat /\ \A j \in 1..r.count : u[j] = r.cluster + j - 1
  BY <1>1
<1> HIDE DEF c, u, of, lists
<1>9. /\ c \o u \in Seq(Nat) /\ Len(c \o u) = Len(c) + Len(u)
      /\ \A k \in 1..(Len(c) + Len(u)) : (c \o u)[k] = IF k <= Len(c) THEN c[k] ELSE u[k - Len(c)]
  BY <1>7, <1>8, ConcatProperties
<1>10. Len(c) \in Nat
  BY <1>7
<1>11. \A k \in 1..Len(c) : (c \o u)[k] = c[k]
  BY <1>8, <1>9, <1>10
<1>12. \A j \in 1..r.count : (c \o u)[Len(c) + j] = r.cluster + j - 1
  <2> SUFFICES ASSUME NEW j \in 1..r.count PROVE (c \o u)[Len(c) + j] = r.cluster + j - 1
    OBVIOUS
  <2>1. Len(c) + j \in 1..(Len(c) + Len(u)) /\ ~(Len(c) + j <= Len(c)) /\ (Len(c) + j) - Len(c) = j
    BY <1>8, <1>10
  <2> QED BY <1>8, <1>9, <2>1
<1> QED BY <1>6, <1>7, <1>8, <1>9, <1>11, <1>12 DEF c, t

-----------------------------------------------------------------------------
\* The clusters of a chain follow each other as the table says.
LEMMA WalkFacts ==
  /\ Walk[0] = start_cluster
  /\ \A k \in 1..MaxClusters :
       Walk[k] = IF Walk[k - 1] < 2 \/ Ends(Entry(Walk[k - 1])) THEN 0 ELSE Entry(Walk[k - 1])
<1> DEFINE After(c) == IF c < 2 \/ Ends(Entry(c)) THEN 0 ELSE Entry(c)
           Is(g, m) == g = [k \in 0..m |-> IF k = 0 THEN start_cluster ELSE After(g[k - 1])]
           M == {m \in Nat : \E g : Is(g, m)}
<1>0. MaxClusters \in Nat
  BY FatChainAssumption
<1>1. Walk = CHOOSE g : Is(g, MaxClusters)
  BY DEF Walk
<1> HIDE DEF After
<1>2. 0 \in M
  <2>1. Is([k \in 0..0 |-> start_cluster], 0)
    OBVIOUS
  <2> QED BY <2>1
<1>3. ASSUME NEW m \in M PROVE m + 1 \in M
  <2>1. m \in Nat
    OBVIOUS
  <2>2. PICK g : Is(g, m)
    OBVIOUS
  <2> DEFINE h == [k \in 0..(m + 1) |-> IF k <= m THEN g[k] ELSE After(g[m])]
  <2>3. \A k \in 0..m : g[k] = IF k = 0 THEN start_cluster ELSE After(g[k - 1])
    BY <2>2
  <2>4. ASSUME NEW k \in 0..(m + 1)
        PROVE  h[k] = IF k = 0 THEN start_cluster ELSE After(h[k - 1])
    <3>1. CASE k = 0
      BY <2>1, <2>3, <3>1
    <3>2. CASE k \in 1..m
      <4>1. h[k] = g[k] /\ h[k - 1] = g[k - 1]
        BY <2>1, <3>2
      <4> QED BY <4>1, <2>3, <2>1, <3>2
    <3>3. CASE k = m + 1
      <4>1. h[k] = After(g[m]) /\ h[k - 1] = g[m] /\ k # 0
        BY <2>1, <3>3
      <4> QED BY <4>1
    <3> QED BY <2>1, <3>1, <3>2, <3>3
  <2>5. Is(h, m + 1)
    BY <2>4
  <2> HIDE DEF h, Is
  <2> QED BY <2>1, <2>5
<1>4. M = Nat
  <2>1. M \in SUBSET Nat
    OBVIOUS
  <2> HIDE DEF M
  <2> QED BY <1>2, <1>3, <2>1, Induction
<1>5. \E g : Is(g, MaxClusters)
  <2> HIDE DEF Is
  <2> QED BY <1>0, <1>4
<1>6. Is(Walk, MaxClusters)
  <2> HIDE DEF Is
  <2> QED BY <1>1, <1>5
<1>7. Walk[0] = start_cluster
  BY <1>0, <1>6
<1>8. \A k \in 1..MaxClusters : Walk[k] = After(Walk[k - 1])
  BY <1>0, <1>6
<1> QED BY <1>7, <1>8 DEF After

\* A run that is one cluster longer.
LEMMA FollowsLonger ==
  ASSUME NEW rs \in Seq(RunType), NEW r \in RunType, NEW n \in Nat,
         Follows(Append(rs, r), n), Walk[n] = r.cluster + r.count, Walk[n] >= 2
  PROVE  Follows(Append(rs, Run(r.cluster, r.count + 1)), n + 1)
<1> DEFINE q == Run(r.cluster, r.count + 1)
           c == ClustersOf(rs)
           a == ClustersOf(Append(rs, r))
           b == ClustersOf(Append(rs, q))
<1>1. /\ q \in RunType /\ q.cluster = r.cluster /\ q.count = r.count + 1
      /\ r.count \in Nat /\ r.cluster \in Nat
  BY DEF RunType, Run
<1>2. /\ c \in Seq(Nat) /\ Len(a) = Len(c) + r.count
      /\ \A k \in 1..Len(c) : a[k] = c[k]
      /\ \A j \in 1..r.count : a[Len(c) + j] = r.cluster + j - 1
  BY ClustersAppend
<1>3. /\ Len(b) = Len(c) + q.count
      /\ \A k \in 1..Len(c) : b[k] = c[k]
      /\ \A j \in 1..q.count : b[Len(c) + j] = q.cluster + j - 1
  <2> HIDE DEF q
  <2> QED BY <1>1, ClustersAppend
<1>4. Len(a) = n /\ \A k \in 1..n : a[k] = Walk[k - 1] /\ Walk[k - 1] >= 2
  BY DEF Follows
<1>5. Len(c) \in Nat
  BY <1>2
<1> DEFINE l == Len(c)
<1> HIDE DEF q, c, a, b, l
<1>6. n = l + r.count /\ Len(b) = n + 1
  BY <1>1, <1>2, <1>3, <1>4, <1>5, SMTT(40) DEF l
<1>7. ASSUME NEW k \in 1..(n + 1) PROVE b[k] = Walk[k - 1] /\ Walk[k - 1] >= 2
  <2>1. CASE k \in 1..l
    <3>1. b[k] = a[k] /\ k \in 1..n
      BY <1>1, <1>2, <1>3, <1>5, <1>6, <2>1, SMTT(40) DEF l
    <3> QED BY <1>4, <3>1
  <2>2. CASE k \in (l + 1)..n
    <3>1. k - l \in 1..r.count /\ k - l \in 1..q.count /\ l + (k - l) = k /\ k \in 1..n
      BY <1>1, <1>5, <1>6, <2>2, SMTT(40) DEF l
    <3>2. a[k] = r.cluster + (k - l) - 1 /\ b[k] = q.cluster + (k - l) - 1
      BY <1>2, <1>3, <3>1 DEF l
    <3> QED BY <1>1, <1>4, <3>1, <3>2
  <2>3. CASE k = n + 1
    <3>1. r.count + 1 \in 1..q.count /\ l + (r.count + 1) = k /\ k - 1 = n
      BY <1>1, <1>5, <1>6, <2>3, SMTT(30) DEF l
    <3>2. b[k] = q.cluster + (r.count + 1) - 1
      BY <1>3, <3>1 DEF l
    <3>3. b[k] = r.cluster + r.count
      BY <1>1, <3>2
    <3> QED BY <3>1, <3>3
  <2>4. l \in Nat
    BY <1>5 DEF l
  <2> QED BY <1>1, <1>6, <2>1, <2>2, <2>3, <2>4
<1> QED BY <1>6, <1>7 DEF Follows, b, q

\* A run more, of one cluster.
LEMMA FollowsNew ==
  ASSUME NEW rs \in Seq(RunType), NEW c \in Nat, NEW n \in Nat,
         Follows(rs, n), Walk[n] = c, c >= 2
  PROVE  Follows(Append(rs, Run(c, 1)), n + 1)
<1> DEFINE q == Run(c, 1)
           a == ClustersOf(rs)
           b == ClustersOf(Append(rs, q))
<1>1. q \in RunType /\ q.cluster = c /\ q.count = 1
  BY DEF RunType, Run
<1>2. Len(a) = n /\ \A k \in 1..n : a[k] = Walk[k - 1] /\ Walk[k - 1] >= 2
  BY DEF Follows
<1>3. /\ Len(b) = Len(a) + 1
      /\ \A k \in 1..Len(a) : b[k] = a[k]
      /\ \A j \in 1..1 : b[Len(a) + j] = c + j - 1
  <2> HIDE DEF q
  <2> QED BY <1>1, ClustersAppend, SMTT(30)
<1> HIDE DEF q, a, b
<1>4. b[n + 1] = c
  BY <1>2, <1>3
<1>5. \A k \in 1..(n + 1) : b[k] = Walk[k - 1] /\ Walk[k - 1] >= 2
  <2> SUFFICES ASSUME NEW k \in 1..(n + 1) PROVE b[k] = Walk[k - 1] /\ Walk[k - 1] >= 2
    OBVIOUS
  <2>1. CASE k \in 1..n
    BY <1>2, <1>3, <2>1
  <2>2. CASE k = n + 1
    <3>1. k - 1 = n
      BY <2>2
    <3> QED BY <1>4, <2>2, <3>1
  <2> QED BY <2>1, <2>2
<1> QED BY <1>2, <1>3, <1>5 DEF Follows, b, q

\* Without their last run.
LEMMA FollowsFewer ==
  ASSUME NEW rs \in Seq(RunType), NEW r \in RunType, NEW n \in Nat,
         Follows(Append(rs, r), n)
  PROVE  \E m \in 0..n : Follows(rs, m) /\ m + r.count = n
<1> DEFINE c == ClustersOf(rs)
           a == ClustersOf(Append(rs, r))
<1>1. /\ c \in Seq(Nat) /\ Len(a) = Len(c) + r.count
      /\ \A k \in 1..Len(c) : a[k] = c[k]
  BY ClustersAppend
<1>2. Len(a) = n /\ \A k \in 1..n : a[k] = Walk[k - 1] /\ Walk[k - 1] >= 2
  BY DEF Follows
<1>3. Len(c) \in Nat /\ r.count \in Nat
  BY <1>1 DEF RunType
<1> HIDE DEF c, a
<1>4. Len(c) \in 0..n /\ Len(c) + r.count = n
  BY <1>1, <1>2, <1>3
<1>5. \A k \in 1..Len(c) : c[k] = Walk[k - 1] /\ Walk[k - 1] >= 2
  BY <1>1, <1>2, <1>4, SMTT(40)
<1>6. Follows(rs, Len(c))
  BY <1>5 DEF Follows, c
<1> QED BY <1>4, <1>6

-----------------------------------------------------------------------------
\* In the loop the runs so far and the current one are the clusters visited.
LoopInv ==
  /\ visited \in 0..MaxClusters /\ run_start \in Nat /\ run_count \in Nat \ {0}
  /\ current = run_start + run_count - 1
  /\ Follows(Append(runs, Run(run_start, run_count)), visited + 1)

ChainTyped ==
  /\ start_cluster \in Nat /\ geometry \in Geometry
  /\ \A c \in DOMAIN fat : fat[c] \in Nat

ChainInv ==
  /\ ChainTyped
  /\ pc \in {"start", "loop", "done"} => runs \in Seq(RunType)
  /\ pc = "start" => visited = 0 /\ runs = <<>>
  /\ pc = "loop" => LoopInv
  /\ RunsFollowChain

\* An entry of the table is a number.
LEMMA EntryType ==
  ASSUME ChainTyped, NEW c
  PROVE  Entry(c) \in Nat
BY FatChainAssumption DEF ChainTyped, Entry

\* What is said of the chain is about the volume, which does not change.
LEMMA SameChain ==
  ASSUME input' = input
  PROVE  /\ ChainTyped => ChainTyped'
         /\ \A rs, n : Follows(rs, n)' <=> Follows(rs, n)
         /\ Walk' = Walk
<1>1. /\ fat' = fat /\ unread' = unread /\ geometry' = geometry
      /\ start_cluster' = start_cluster
  BY DEF input
<1>2. Walk' = Walk
  BY <1>1 DEF Walk, Ends, Entry
<1> QED BY <1>1, <1>2 DEF ChainTyped, Follows, ClustersOf

\* Each step of follow_chain keeps to the chain.
LEMMA ChainStep == ChainInv /\ Next => ChainInv'
<1> SUFFICES ASSUME ChainInv, Next PROVE ChainInv'
  OBVIOUS
<1>0. ChainTyped /\ MaxClusters \in Nat
  BY FatChainAssumption DEF ChainInv
<1>1. input' = input
  BY DEF Next, NoChain, Begin, EndChain, Consecutive, NewRun, GiveUp
<1>2. ChainTyped' /\ Walk' = Walk /\ \A rs, n : Follows(rs, n)' <=> Follows(rs, n)
  BY <1>0, <1>1, SameChain
<1>3. start_cluster \in Nat
  BY <1>0 DEF ChainTyped
<1>4. CASE NoChain
  <2>1. pc = "start" /\ start_cluster < 2 /\ pc' = "done" /\ runs' = runs /\ runs = <<>>
    BY <1>4 DEF NoChain, ChainInv
  <2>2. Walk[0] < 2
    BY <2>1, WalkFacts
  <2>3. Follows(<<>>, 0)
    <3>1. ClustersOf(<<>>) = <<>>
      BY DEF ClustersOf, FlattenSeq
    <3> QED BY <3>1 DEF Follows
  <2>4. RunsFollowChain'
    BY <1>0, <1>2, <2>1, <2>2, <2>3 DEF RunsFollowChain
  <2> QED BY <1>2, <2>1, <2>4 DEF ChainInv
<1>5. CASE Begin
  <2>1. /\ start_cluster >= 2 /\ current' = start_cluster /\ run_start' = start_cluster
        /\ run_count' = 1 /\ pc' = "loop" /\ visited' = 0 /\ runs' = <<>>
    BY <1>5 DEF Begin, ChainInv
  <2>2. Follows(<<>>, 0)
    <3>1. ClustersOf(<<>>) = <<>>
      BY DEF ClustersOf, FlattenSeq
    <3> QED BY <3>1 DEF Follows
  <2>3. Follows(Append(<<>>, Run(start_cluster, 1)), 0 + 1)
    <3>1. Walk[0] = start_cluster /\ <<>> \in Seq(RunType)
      BY WalkFacts
    <3> QED BY <1>3, <2>1, <2>2, <3>1, FollowsNew
  <2>4. LoopInv'
    <3>1. start_cluster = start_cluster + 1 - 1 /\ 0 \in 0..MaxClusters
      BY <1>0, <1>3
    <3> QED BY <1>2, <1>3, <2>1, <2>3, <3>1 DEF LoopInv, Follows
  <2> QED BY <1>2, <2>1, <2>4 DEF ChainInv, RunsFollowChain
<1>6. ASSUME pc = "loop"
      PROVE  /\ visited \in 0..MaxClusters /\ visited \in Nat /\ visited + 1 \in Nat
             /\ run_start \in Nat /\ run_count \in Nat \ {0}
             /\ runs \in Seq(RunType) /\ Run(run_start, run_count) \in RunType
             /\ Follows(Append(runs, Run(run_start, run_count)), visited + 1)
             /\ current = run_start + run_count - 1 /\ current = Walk[visited] /\ current >= 2
  <2>1. LoopInv /\ runs \in Seq(RunType)
    BY <1>6 DEF ChainInv
  <2>2. Run(run_start, run_count) \in RunType /\ Run(run_start, run_count).count = run_count
        /\ Run(run_start, run_count).cluster = run_start
    BY <2>1 DEF LoopInv, Run, RunType
  <2> DEFINE r == Run(run_start, run_count)
             c == ClustersOf(runs)
             a == ClustersOf(Append(runs, r))
  <2> HIDE DEF r
  <2>3. c \in Seq(Nat) /\ Len(a) = Len(c) + r.count
        /\ \A j \in 1..r.count : a[Len(c) + j] = r.cluster + j - 1
    BY <2>1, <2>2, ClustersAppend DEF r
  <2>4. Len(c) \in Nat /\ run_count \in 1..run_count /\ visited + 1 \in 1..(visited + 1)
        /\ visited \in Nat /\ (visited + 1) - 1 = visited
    BY <1>0, <2>1, <2>3 DEF LoopInv
  <2>5. Len(a) = visited + 1
        /\ \A k \in 1..(visited + 1) : a[k] = Walk[k - 1] /\ Walk[k - 1] >= 2
    BY <2>1 DEF LoopInv, Follows, r
  <2> HIDE DEF c, a
  <2>6. a[visited + 1] = Walk[visited] /\ Walk[visited] >= 2
    BY <2>4, <2>5
  <2>7. a[Len(c) + run_count] = run_start + run_count - 1
    BY <2>2, <2>3, <2>4 DEF r
  <2>8. Len(c) + run_count = visited + 1
    BY <2>2, <2>3, <2>5 DEF r
  <2> QED BY <2>1, <2>2, <2>4, <2>6, <2>7, <2>8 DEF LoopInv
<1>7. ASSUME Looking
      PROVE  /\ visited + 1 \in 1..MaxClusters
             /\ Walk[visited + 1] = IF Ends(Entry(current)) THEN 0 ELSE Entry(current)
             /\ Entry(current) \in Nat
  <2>1. pc = "loop" /\ visited < MaxClusters
    BY <1>7 DEF Looking
  <2>2. visited + 1 \in 1..MaxClusters /\ (visited + 1) - 1 = visited
    BY <1>0, <1>6, <2>1
  <2>3. Entry(current) \in Nat
    BY <1>0, EntryType
  <2>4. current = Walk[visited] /\ ~(current < 2)
    <3>1. current >= 2 /\ current \in Int
      BY <1>6, <2>1
    <3> QED BY <1>6, <2>1, <3>1
  <2> QED BY <2>2, <2>3, <2>4, WalkFacts
<1>8. CASE EndChain
  <2>1. /\ Looking /\ Ends(Entry(current)) /\ pc = "loop" /\ pc' = "done"
        /\ runs' = Append(runs, Run(run_start, run_count))
    BY <1>8 DEF EndChain, Looking
  <2>2. Walk[visited + 1] = 0 /\ visited + 1 \in 0..MaxClusters
    BY <1>0, <1>7, <2>1
  <2>3. Follows(runs', visited + 1) /\ runs' \in Seq(RunType)
    BY <1>6, <2>1
  <2>4. RunsFollowChain'
    <3>1. Follows(Append(runs, Run(run_start, run_count)), visited + 1)
      BY <1>6, <2>1
    <3>2. pc' = "done" => \E n \in 0..MaxClusters :
            /\ Follows(Append(runs, Run(run_start, run_count)), n)
            /\ EndsWithin(MaxClusters)' => Walk[n] < 2
      BY <2>2, <3>1
    <3> QED BY <1>2, <2>1, <3>2 DEF RunsFollowChain, Follows
  <2> QED BY <1>2, <2>1, <2>3, <2>4 DEF ChainInv
<1>9. CASE Consecutive
  <2>1. /\ Looking /\ ~Ends(Entry(current)) /\ Entry(current) = current + 1 /\ pc = "loop"
        /\ pc' = pc /\ run_start' = run_start /\ runs' = runs
        /\ run_count' = run_count + 1 /\ current' = Entry(current) /\ visited' = visited + 1
    BY <1>9 DEF Consecutive, Looking, ExtendsRun
  <2>2. Walk[visited + 1] = current + 1 /\ visited + 1 \in 1..MaxClusters
    BY <1>7, <2>1
  <2> DEFINE r == Run(run_start, run_count)
  <2>3. r.cluster = run_start /\ r.count = run_count
    BY DEF Run
  <2>4. /\ r \in RunType /\ Follows(Append(runs, r), visited + 1) /\ visited + 1 \in Nat
        /\ runs \in Seq(RunType)
    BY <1>6, <2>1
  <2>5. Walk[visited + 1] = r.cluster + r.count /\ Walk[visited + 1] >= 2
    BY <1>6, <2>1, <2>2, <2>3
  <2> HIDE DEF r
  <2>6. Follows(Append(runs, Run(r.cluster, r.count + 1)), (visited + 1) + 1)
    BY <2>4, <2>5, FollowsLonger
  <2>7. Follows(Append(runs, Run(run_start, run_count + 1)), (visited + 1) + 1)
    BY <2>3, <2>6
  <2>8. LoopInv'
    <3>1. (visited + 1) \in 0..MaxClusters /\ run_count + 1 \in Nat \ {0}
          /\ current + 1 = run_start + (run_count + 1) - 1
      BY <1>0, <1>6, <2>1, <2>2, SMTT(30)
    <3>2. run_start \in Nat
      BY <1>6, <2>1
    <3> QED BY <1>2, <2>1, <2>7, <3>1, <3>2 DEF LoopInv, Follows
  <2> QED BY <1>2, <2>1, <2>4, <2>8 DEF ChainInv, RunsFollowChain
<1>10. CASE NewRun
  <2> DEFINE e == Entry(current)
  <2>1. /\ Looking /\ ~Ends(e) /\ pc = "loop" /\ pc' = pc
        /\ runs' = Append(runs, Run(run_start, run_count))
        /\ run_start' = e /\ run_count' = 1 /\ current' = e /\ visited' = visited + 1
    BY <1>10 DEF NewRun, Looking
  <2>2. Walk[visited + 1] = e /\ visited + 1 \in 1..MaxClusters /\ e \in Nat
    BY <1>7, <2>1
  <2>3. e >= 2
    BY <2>1, <2>2 DEF Ends
  <2>4. /\ runs' \in Seq(RunType) /\ Follows(runs', visited + 1) /\ visited + 1 \in Nat
    BY <1>6, <2>1
  <2> HIDE DEF e
  <2>5. Follows(Append(runs', Run(e, 1)), (visited + 1) + 1)
    BY <2>2, <2>3, <2>4, FollowsNew
  <2>6. LoopInv'
    <3>1. (visited + 1) \in 0..MaxClusters /\ e = e + 1 - 1
      BY <1>0, <1>6, <2>1, <2>2
    <3> QED BY <1>2, <2>1, <2>2, <2>5, <3>1 DEF LoopInv, Follows
  <2> QED BY <1>2, <2>1, <2>4, <2>6 DEF ChainInv, RunsFollowChain
<1>11. CASE GiveUp
  <2>1. pc = "loop" /\ ~(visited < MaxClusters) /\ pc' = "done" /\ runs' = runs
    BY <1>11 DEF GiveUp, Looking
  <2>2. visited = MaxClusters
    BY <1>0, <1>6, <2>1
  <2>3. PICK m \in 0..(visited + 1) : Follows(runs, m) /\ m + run_count = visited + 1
    <3>1. Run(run_start, run_count).count = run_count
      BY DEF Run
    <3> QED BY <1>6, <2>1, <3>1, FollowsFewer
  <2>4. m \in 0..MaxClusters
    BY <1>0, <1>6, <2>1, <2>2, <2>3
  <2>5. ~EndsWithin(MaxClusters)
    <3> DEFINE a == ClustersOf(Append(runs, Run(run_start, run_count)))
    <3>1. /\ Len(a) = visited + 1 /\ a \in Seq(Nat)
          /\ \A k \in 1..(visited + 1) : a[k] = Walk[k - 1] /\ Walk[k - 1] >= 2
      BY <1>6, <2>1, ClustersAppend DEF Follows
    <3> HIDE DEF a
    <3>2. ASSUME NEW k \in 0..MaxClusters PROVE ~(Walk[k] < 2)
      <4>1. k + 1 \in 1..(visited + 1) /\ (k + 1) - 1 = k
        BY <1>0, <2>2
      <4>2. Walk[k] >= 2 /\ Walk[k] \in Nat
        BY <3>1, <4>1
      <4> QED BY <4>2
    <3> QED BY <3>2 DEF EndsWithin
  <2>6. RunsFollowChain'
    <3>1. ~EndsWithin(MaxClusters)'
      BY <1>2, <2>5 DEF EndsWithin
    <3> QED BY <1>2, <2>1, <2>3, <2>4, <3>1 DEF RunsFollowChain, Follows
  <2> QED BY <1>2, <1>6, <2>1, <2>6 DEF ChainInv
<1> QED BY <1>4, <1>5, <1>8, <1>9, <1>10, <1>11 DEF Next

-----------------------------------------------------------------------------
\* The sectors of n clusters in a row are one range.
LEMMA Pieces ==
  ASSUME NEW size \in Nat \ {0}, NEW first \in Int, NEW n \in Nat
  PROVE  \A x : x \in first .. (first + n * size - 1) <=>
                \E j \in 0..(n - 1) : x \in (first + j * size) .. (first + j * size + size - 1)
<1> DEFINE All(m)   == first .. (first + m * size - 1)
           Piece(j) == (first + j * size) .. (first + j * size + size - 1)
           M        == {m \in Nat : All(m) = UNION {Piece(j) : j \in 0..(m - 1)}}
<1>1. 0 \in M
  <2>1. All(0) = {} /\ 0..(0 - 1) = {}
    <3>1. 0 * size = 0
      OBVIOUS
    <3> QED BY <3>1
  <2> QED BY <2>1
<1>2. ASSUME NEW m \in M PROVE m + 1 \in M
  <2>1. m \in Nat /\ All(m) = UNION {Piece(j) : j \in 0..(m - 1)}
    OBVIOUS
  <2>2. 0..((m + 1) - 1) = 0..(m - 1) \cup {m}
    BY <2>1
  <2>3. All(m + 1) = All(m) \cup Piece(m)
    <3> DEFINE a == m * size
    <3>1. (m + 1) * size = a + size /\ a \in Nat
      BY <2>1
    <3> HIDE DEF a
    <3>2. first .. (first + (a + size) - 1) =
            (first .. (first + a - 1)) \cup ((first + a) .. (first + a + size - 1))
      BY <3>1
    <3> QED BY <3>1, <3>2 DEF a
  <2> HIDE DEF All, Piece
  <2>4. All(m + 1) = UNION {Piece(j) : j \in 0..((m + 1) - 1)}
    BY <2>1, <2>2, <2>3
  <2> QED BY <2>1, <2>4
<1>3. M = Nat
  <2>1. M \in SUBSET Nat
    OBVIOUS
  <2> HIDE DEF M
  <2> QED BY <1>1, <1>2, <2>1, Induction
<1>4. n \in M
  BY <1>3
<1>5. All(n) = UNION {Piece(j) : j \in 0..(n - 1)}
  BY <1>4
<1>6. \A x : x \in UNION {Piece(j) : j \in 0..(n - 1)} <=> \E j \in 0..(n - 1) : x \in Piece(j)
  BY ZenonT(30)
<1> QED BY <1>5, <1>6

\* A number that can be divided.
LEMMA DivideExact ==
  ASSUME NEW a \in Nat, NEW b \in Nat \ {0}, a % b = 0
  PROVE  a \div b \in Int /\ (a \div b) * b = a
OBVIOUS

\* The clusters of runs are those of each run.
LEMMA ClustersOfRuns ==
  ASSUME NEW rs \in Seq(RunType)
  PROVE  \A c : c \in ToSet(ClustersOf(rs)) <=>
                \E k \in DOMAIN rs : \E j \in 0..(rs[k].count - 1) : c = rs[k].cluster + j
<1> DEFINE L == Len(rs)
           First(m) == SubSeq(rs, 1, m)
           Of(m) == {c \in Nat : \E k \in 1..m : \E j \in 0..(rs[k].count - 1) : c = rs[k].cluster + j}
           M == {m \in Nat : m <= L => ToSet(ClustersOf(First(m))) = Of(m)}
<1>0. L \in Nat /\ DOMAIN rs = 1..L /\ \A k \in 1..L : rs[k] \in RunType
  OBVIOUS
<1>1. 0 \in M
  <2>1. First(0) = <<>>
    BY <1>0
  <2>2. ToSet(ClustersOf(<<>>)) = {}
    BY DEF ClustersOf, FlattenSeq, ToSet
  <2>3. Of(0) = {}
    OBVIOUS
  <2> HIDE DEF First, Of
  <2> QED BY <2>1, <2>2, <2>3
<1>2. ASSUME NEW m \in M PROVE m + 1 \in M
  <2>1. CASE m + 1 <= L
    <3>1. m \in Nat /\ m <= L /\ m + 1 \in 1..L
      BY <1>0, <2>1
    <3>2. ToSet(ClustersOf(First(m))) = Of(m)
      BY <3>1
    <3>3. First(m) \in Seq(RunType) /\ First(m + 1) = Append(First(m), rs[m + 1])
      <4>1. /\ First(m) \in Seq(RunType) /\ Len(First(m)) = m
            /\ \A k \in 1..m : First(m)[k] = rs[k]
        BY <1>0, <3>1
      <4>2. /\ First(m + 1) \in Seq(RunType) /\ Len(First(m + 1)) = m + 1
            /\ \A k \in 1..(m + 1) : First(m + 1)[k] = rs[k]
        BY <1>0, <3>1
      <4>3. rs[m + 1] \in RunType
        BY <1>0, <3>1
      <4> HIDE DEF First
      <4>4. /\ Append(First(m), rs[m + 1]) \in Seq(RunType)
            /\ Len(Append(First(m), rs[m + 1])) = m + 1
            /\ \A k \in 1..m : Append(First(m), rs[m + 1])[k] = First(m)[k]
            /\ Append(First(m), rs[m + 1])[m + 1] = rs[m + 1]
        BY <3>1, <4>1, <4>3, AppendProperties
      <4>5. \A k \in 1..(m + 1) : First(m + 1)[k] = Append(First(m), rs[m + 1])[k]
        <5>1. \A k \in 1..(m + 1) : k \in 1..m \/ k = m + 1
          BY <3>1
        <5> QED BY <4>1, <4>2, <4>4, <5>1
      <4> DEFINE a == First(m + 1)
                 b == Append(First(m), rs[m + 1])
      <4>6. /\ a \in Seq(RunType) /\ b \in Seq(RunType) /\ Len(a) = Len(b)
            /\ \A k \in 1..Len(a) : a[k] = b[k]
        BY <4>2, <4>4, <4>5
      <4> HIDE DEF a, b
      <4>7. a = b
        BY ONLY <4>6, SeqEqual
      <4> QED BY <4>1, <4>7 DEF a, b
    <3> DEFINE r == rs[m + 1]
               c == ClustersOf(First(m))
               b == ClustersOf(First(m + 1))
    <3>4. r \in RunType /\ r.count \in Nat /\ r.cluster \in Nat
      BY <1>0, <3>1 DEF RunType
    <3> DEFINE f == First(m)
    <3>9. f \in Seq(RunType) /\ b = ClustersOf(Append(f, r)) /\ c = ClustersOf(f)
      BY <3>3
    <3> HIDE DEF First, f, r, b, c
    <3>5. /\ c \in Seq(Nat) /\ b \in Seq(Nat) /\ Len(b) = Len(c) + r.count
          /\ \A k \in 1..Len(c) : b[k] = c[k]
          /\ \A j \in 1..r.count : b[Len(c) + j] = r.cluster + j - 1
      BY <3>4, <3>9, ClustersAppend
    <3>6. Of(m + 1) = Of(m) \cup {x \in Nat : \E j \in 0..(r.count - 1) : x = r.cluster + j}
      <4>1. \A k : k \in 1..(m + 1) <=> k \in 1..m \/ k = m + 1
        BY <3>1
      <4> QED BY <4>1 DEF r
    <3>7. ToSet(b) = ToSet(c) \cup {x \in Nat : \E j \in 0..(r.count - 1) : x = r.cluster + j}
      <4>0. Len(c) \in Nat /\ DOMAIN c = 1..Len(c) /\ DOMAIN b = 1..(Len(c) + r.count)
        BY <3>4, <3>5
      <4>1. ASSUME NEW k \in DOMAIN b
            PROVE  b[k] \in ToSet(c) \cup {x \in Nat : \E j \in 0..(r.count - 1) : x = r.cluster + j}
        <5>1. CASE k \in 1..Len(c)
          BY <3>5, <4>0, <5>1 DEF ToSet
        <5>2. CASE k \notin 1..Len(c)
          <6>1. k - Len(c) \in 1..r.count /\ Len(c) + (k - Len(c)) = k
                /\ (k - Len(c)) - 1 \in 0..(r.count - 1)
            BY <3>4, <4>0, <5>2, SMTT(40)
          <6>2. b[k] = r.cluster + (k - Len(c)) - 1
            BY <3>5, <6>1
          <6>3. b[k] = r.cluster + ((k - Len(c)) - 1) /\ b[k] \in Nat
            BY <3>4, <6>1, <6>2, SMTT(40)
          <6> QED BY <6>1, <6>3
        <5> QED BY <5>1, <5>2
      <4>2. ASSUME NEW x \in ToSet(c) PROVE x \in ToSet(b)
        <5>1. PICK k \in DOMAIN c : x = c[k]
          BY <4>2 DEF ToSet
        <5>2. k \in DOMAIN b /\ b[k] = c[k]
          BY <3>4, <3>5, <4>0
        <5> QED BY <5>1, <5>2 DEF ToSet
      <4>3. ASSUME NEW j \in 0..(r.count - 1) PROVE r.cluster + j \in ToSet(b)
        <5>0. j \in Nat /\ j + 1 \in 1..r.count /\ r.cluster + (j + 1) - 1 = r.cluster + j
          BY <3>4, SMTT(40)
        <5>1. Len(c) + (j + 1) \in DOMAIN b
          <6>1. Len(c) + (j + 1) \in 1..(Len(c) + r.count)
            BY ONLY <3>4, <4>0, <5>0
          <6> QED BY <4>0, <6>1
        <5>2. b[Len(c) + (j + 1)] = r.cluster + j
          BY <3>5, <5>0
        <5> QED BY <5>1, <5>2 DEF ToSet
      <4>4. ToSet(b) \subseteq ToSet(c) \cup {x \in Nat : \E j \in 0..(r.count - 1) : x = r.cluster + j}
        BY <4>1 DEF ToSet
      <4> QED BY <4>2, <4>3, <4>4
    <3> HIDE DEF Of
    <3>8. ToSet(ClustersOf(First(m + 1))) = Of(m + 1)
      BY <3>2, <3>6, <3>7 DEF b, c
    <3> QED BY <3>1, <3>8
  <2> QED BY <1>0, <2>1
<1>3. M = Nat
  <2>1. M \in SUBSET Nat
    OBVIOUS
  <2> HIDE DEF M
  <2> QED BY <1>1, <1>2, <2>1, Induction
<1>4. ToSet(ClustersOf(First(L))) = Of(L)
  <2> HIDE DEF First, Of
  <2>1. L \in M
    BY <1>0, <1>3
  <2> QED BY <1>0, <2>1
<1>5. First(L) = rs
  <2>1. First(L) \in Seq(RunType) /\ Len(First(L)) = L /\ \A k \in 1..L : First(L)[k] = rs[k]
    BY <1>0
  <2>2. rs \in Seq(RunType)
    OBVIOUS
  <2> HIDE DEF First
  <2> QED BY <2>1, <2>2, SeqEqual
<1>6. \A k \in 1..L : \A j \in 0..(rs[k].count - 1) : rs[k].cluster + j \in Nat
  BY <1>0 DEF RunType
<1> QED BY <1>0, <1>4, <1>5, <1>6

\* What is read for runs are the sectors of their clusters.
LEMMA RunsAligned == ChainInv => AlignedSectors
<1> SUFFICES ASSUME ChainInv, pc = "done", geometry.data_start % geometry.cluster_size = 0
             PROVE  SectorsRead = UNION {SectorsOf(c) : c \in ToSet(ClustersOf(runs))}
  BY DEF AlignedSectors
<1> DEFINE size == geometry.cluster_size
           start == geometry.data_start
<1>1. /\ runs \in Seq(RunType) /\ size \in Nat \ {0} /\ start \in Nat
      /\ \A k \in DOMAIN runs : runs[k].cluster \in Nat /\ runs[k].count \in Nat
  <2>1. runs \in Seq(RunType) /\ geometry \in Geometry
    BY DEF ChainInv, ChainTyped
  <2>2. \A k \in DOMAIN runs : runs[k] \in RunType
    BY <2>1
  <2> QED BY <2>1, <2>2 DEF Geometry, RunType
<1>2. start \div size \in Int /\ (start \div size) * size = start
  <2>1. start % size = 0
    OBVIOUS
  <2> HIDE DEF size, start
  <2> QED BY <1>1, <2>1, DivideExact
<1>3. ASSUME NEW c \in Nat, NEW j \in Nat
      PROVE  Lcn(c) * size + j * size = start + ((c + j) - 2) * size
  <2> DEFINE d == start \div size
  <2>1. d \in Int /\ Lcn(c) = d + (c - 2)
    BY <1>2 DEF Lcn
  <2> HIDE DEF d, size
  <2>2. (d + (c - 2)) * size + j * size = d * size + ((c + j) - 2) * size
    BY <1>1, <2>1
  <2> QED BY <1>2, <2>1, <2>2 DEF d
<1>4. ASSUME NEW k \in DOMAIN runs, NEW x
      PROVE  LET first == Lcn(runs[k].cluster) * size
             IN  x \in first .. (first + runs[k].count * size - 1) <=>
                   \E j \in 0..(runs[k].count - 1) : x \in SectorsOf(runs[k].cluster + j)
  <2> DEFINE c == runs[k].cluster
             n == runs[k].count
             first == Lcn(c) * size
  <2>1. c \in Nat /\ n \in Nat
    BY <1>1
  <2>2. first \in Int
    <3>1. start \div size \in Int /\ Lcn(c) = (start \div size) + (c - 2)
      BY <1>2 DEF Lcn
    <3>2. Lcn(c) \in Int
      BY <2>1, <3>1
    <3> HIDE DEF size, c
    <3> QED BY <1>1, <3>2
  <2> HIDE DEF c, n, first
  <2>3. x \in first .. (first + n * size - 1) <=>
          \E j \in 0..(n - 1) : x \in (first + j * size) .. (first + j * size + size - 1)
    <3>1. size \in Nat \ {0}
      BY <1>1
    <3> HIDE DEF size
    <3> QED BY ONLY <2>1, <2>2, <3>1, Pieces
  <2>4. ASSUME NEW j \in 0..(n - 1)
        PROVE  (first + j * size) .. (first + j * size + size - 1) = SectorsOf(c + j)
    <3>1. first + j * size = start + ((c + j) - 2) * size
      BY <1>3, <2>1 DEF first
    <3> QED BY <3>1 DEF SectorsOf
  <2> DEFINE Piece(j) == (first + j * size) .. (first + j * size + size - 1)
             Of(j)    == SectorsOf(c + j)
             all      == first .. (first + n * size - 1)
  <2>5. (x \in all <=> \E j \in 0..(n - 1) : x \in Piece(j)) /\ \A j \in 0..(n - 1) : Piece(j) = Of(j)
    BY <2>3, <2>4
  <2> HIDE DEF Piece, Of, all
  <2>6. x \in all <=> \E j \in 0..(n - 1) : x \in Of(j)
    BY <2>5
  <2> QED BY <2>6 DEF c, n, first, all, Of
<1>5. ASSUME NEW x
      PROVE  x \in SectorsRead <=>
               \E k \in DOMAIN runs : \E j \in 0..(runs[k].count - 1) :
                 x \in SectorsOf(runs[k].cluster + j)
  BY <1>4 DEF SectorsRead
<1>6. \A c : c \in ToSet(ClustersOf(runs)) <=>
             \E k \in DOMAIN runs : \E j \in 0..(runs[k].count - 1) : c = runs[k].cluster + j
  BY <1>1, ClustersOfRuns
<1> QED BY <1>5, <1>6

-----------------------------------------------------------------------------
\* The invariant of follow_chain, on any table.
THEOREM FatChainInvariant == Spec => []ChainInv
<1>1. Init => ChainInv
  <2> SUFFICES ASSUME Init PROVE ChainInv
    OBVIOUS
  <2>1. fat \in Tables /\ geometry \in Geometries /\ start_cluster \in {0} \cup DOMAIN fat
        /\ pc = "start" /\ visited = 0 /\ runs = <<>>
    BY DEF Init
  <2>2. ChainTyped
    BY <2>1, FatChainAssumption DEF ChainTyped
  <2> QED BY <2>1, <2>2 DEF ChainInv, RunsFollowChain
<1>2. ChainInv /\ UNCHANGED vars => ChainInv'
  <2> SUFFICES ASSUME ChainInv, UNCHANGED vars PROVE ChainInv'
    OBVIOUS
  <2>1. input' = input
    BY DEF vars
  <2>2. (ChainTyped => ChainTyped') /\ Walk' = Walk
    BY <2>1, SameChain
  <2>3. LoopInv => LoopInv'
    BY <2>2 DEF LoopInv, Follows, vars
  <2>4. RunsFollowChain'
    BY <2>2 DEF RunsFollowChain, Follows, EndsWithin, vars, ChainInv
  <2> QED BY <2>2, <2>3, <2>4 DEF ChainInv, vars
<1> QED BY <1>1, <1>2, ChainStep, PTL DEF Spec

\* The runs of a chain are its clusters, as far as the limit allows.
THEOREM FatChainRunsFollowChain == Spec => []RunsFollowChain
<1>1. ChainInv => RunsFollowChain
  BY DEF ChainInv
<1> QED BY <1>1, FatChainInvariant, PTL

\* What is read for them is what the clusters have.
THEOREM FatChainAlignedSectors == Spec => []AlignedSectors
BY RunsAligned, FatChainInvariant, PTL

\* A list, by its parts.
LEMMA IsSequence ==
  ASSUME NEW S, NEW n \in Nat, NEW s, s = [i \in 1..n |-> s[i]], \A i \in 1..n : s[i] \in S
  PROVE  s \in Seq(S) /\ Len(s) = n /\ DOMAIN s = 1..n
<1>1. DOMAIN s = 1..n
  OBVIOUS
<1>2. s \in [1..n -> S]
  OBVIOUS
<1>3. s \in Seq(S)
  BY <1>2, SeqDef
<1> QED BY <1>1, <1>3, LenProperties

-----------------------------------------------------------------------------
\* Counting the slots cluster by cluster.
LEMMA Divide ==
  ASSUME NEW i \in Nat, NEW size \in Nat \ {0}
  PROVE  /\ i \div size \in Nat /\ i % size \in 0..(size - 1)
         /\ i = (i \div size) * size + (i % size)
<1>1. i = size * (i \div size) + (i % size)
  OBVIOUS
<1>2. i % size \in 0..(size - 1)
  OBVIOUS
<1>3. i \div size \in Nat
  OBVIOUS
<1>4. \A q \in Nat : size * q = q * size
  OBVIOUS
<1> QED BY <1>1, <1>2, <1>3, <1>4

\* Within a cluster the quotient does not change.
LEMMA SameQuotient ==
  ASSUME NEW size \in Nat \ {0}, NEW c \in Int, NEW e \in Int,
         NEW r \in 0..(size - 1), NEW s \in 0..(size - 1), c * size + r = e * size + s
  PROVE  c = e /\ r = s
<1>1. ASSUME NEW x \in Int, NEW y \in Int, NEW u \in 0..(size - 1), NEW v \in 0..(size - 1),
             x * size + u = y * size + v, x < y
      PROVE  FALSE
  <2>1. (y - x) * size = y * size - x * size
    OBVIOUS
  <2>2. (y - x) * size = size + (y - x - 1) * size
    OBVIOUS
  <2>3. (y - x - 1) * size >= 0
    <3>1. y - x - 1 \in Nat
      BY <1>1
    <3> DEFINE n == y - x - 1
    <3>2. n \in Nat
      BY <3>1
    <3> HIDE DEF n
    <3>3. n * size >= 0
      BY <3>2
    <3> QED BY <3>3 DEF n
  <2> DEFINE a == x * size
             b == y * size
             m == (y - x - 1) * size
  <2>4. a \in Int /\ b \in Int /\ m \in Int /\ b - a = size + m /\ m >= 0
    BY <2>1, <2>2, <2>3
  <2>5. a + u = b + v
    BY <1>1
  <2> HIDE DEF a, b, m
  <2> QED BY <1>1, <2>4, <2>5
<1>2. ~(c < e) /\ ~(e < c)
  BY <1>1
<1>3. c = e
  BY <1>2
<1>4. c * size \in Int
  OBVIOUS
<1> QED BY <1>3, <1>4

\* Of i slots the last is in cluster (i - 1) \div size + 1.
LEMMA WithinClusters ==
  ASSUME NEW size \in Nat \ {0}, NEW n \in Nat, NEW i \in 1..(n * size)
  PROVE  ((i - 1) \div size) + 1 \in 1..n
<1> DEFINE q == (i - 1) \div size
<1>0. n * size \in Nat
  OBVIOUS
<1>1. i - 1 \in Nat /\ i - 1 < n * size
  BY <1>0
<1>2. q \in Nat /\ (i - 1) % size \in 0..(size - 1) /\ i - 1 = q * size + ((i - 1) % size)
  BY <1>1, Divide
<1> HIDE DEF q
<1>3. ASSUME n <= q PROVE FALSE
  <2>1. q * size = n * size + (q - n) * size
    BY <1>2
  <2>2. q - n \in Nat
    BY <1>2, <1>3
  <2> DEFINE m == q - n
  <2>3. m * size >= 0
    <3>1. m \in Nat
      BY <2>2
    <3> HIDE DEF m
    <3> QED BY <3>1
  <2> DEFINE a == q * size
             b == n * size
             c == m * size
             r == (i - 1) % size
  <2>4. a \in Int /\ b \in Int /\ c \in Int
    BY <1>0, <1>2, <2>2
  <2>5. a = b + c /\ c >= 0
    BY <2>1, <2>3
  <2>6. r >= 0 /\ r \in Int
    BY <1>2
  <2>7. i - 1 = a + r
    BY ONLY <1>2 DEF a, r
  <2>8. i - 1 < b
    BY <1>1
  <2> HIDE DEF a, b, c, r
  <2> QED BY <2>4, <2>5, <2>6, <2>7, <2>8
<1>4. q < n
  BY <1>2, <1>3
<1>5. q + 1 \in 1..n
  BY <1>2, <1>4
<1> QED BY <1>5 DEF q

\* The cluster of a slot of a directory, and its place in it.
ClusterAt(f, i) == Files[f].clusters[((i - 1) \div SlotsPerCluster) + 1]
RestAt(i)       == (i - 1) % SlotsPerCluster

\* A file, by its fields; its clusters lie in the data area and differ.
LEMMA FileFacts ==
  ASSUME NEW f \in DOMAIN Files
  PROVE  /\ f \in Nat \ {0} /\ Files[f].parts \in Nat /\ Files[f].dir \in BOOLEAN
         /\ Files[f].contiguous \in BOOLEAN /\ Files[f].clusters \in Seq(Nat)
         /\ Len(Files[f].clusters) \in Nat
         /\ \A i \in 1..Len(Files[f].clusters) : Files[f].clusters[i] \in 2..LastCluster
         /\ \A i, j \in 1..Len(Files[f].clusters) :
              /\ Files[f].clusters[i] = Files[f].clusters[j] => i = j
              /\ Files[f].contiguous => Files[f].clusters[j] = Files[f].clusters[i] + (j - i)
<1>1. Files[f] \in File
  BY FilesAssumption
<1>2. Files[f].clusters \in Seq(Nat)
  BY <1>1 DEF File
<1>3. DOMAIN Files[f].clusters = 1..Len(Files[f].clusters)
  BY <1>2
<1>4. \A i \in 1..Len(Files[f].clusters) : Files[f].clusters[i] \in 2..LastCluster
  BY <1>3, FatTreeAssumption DEF ToSet
<1>5. /\ f \in Nat \ {0} /\ Files[f].parts \in Nat /\ Files[f].dir \in BOOLEAN
      /\ Files[f].contiguous \in BOOLEAN
  BY <1>1, FilesAssumption DEF File
<1>6. \A i, j \in 1..Len(Files[f].clusters) :
        /\ Files[f].clusters[i] = Files[f].clusters[j] => i = j
        /\ Files[f].contiguous => Files[f].clusters[j] = Files[f].clusters[i] + (j - i)
  BY <1>3, FilesAssumption
<1>7. Len(Files[f].clusters) \in Nat
  BY <1>2
<1> QED BY <1>2, <1>4, <1>5, <1>6, <1>7

\* The slots of a directory lie in the data area, and no two of them are one.
LEMMA PositionFacts ==
  ASSUME NEW f \in DOMAIN Files
  PROVE  /\ Len(Files[f].clusters) * SlotsPerCluster \in Nat
         /\ Positions(f) \in Seq(1..SlotCount)
         /\ Len(Positions(f)) = Len(Files[f].clusters) * SlotsPerCluster
         /\ DOMAIN Positions(f) = 1..Len(Positions(f))
         /\ \A i \in 1..Len(Positions(f)) :
              /\ ((i - 1) \div SlotsPerCluster) + 1 \in 1..Len(Files[f].clusters)
              /\ ClusterAt(f, i) \in 2..LastCluster /\ ClusterAt(f, i) \in ToSet(Files[f].clusters)
              /\ RestAt(i) \in 0..(SlotsPerCluster - 1)
              /\ Positions(f)[i] = (ClusterAt(f, i) - 2) * SlotsPerCluster + RestAt(i) + 1
              /\ Positions(f)[i] \in 1..SlotCount
         /\ \A i, j \in 1..Len(Positions(f)) : Positions(f)[i] = Positions(f)[j] => i = j
<1> DEFINE S == SlotsPerCluster
           n == Len(Files[f].clusters)
           L == n * S
<1>1. n \in Nat /\ S \in Nat \ {0} /\ LastCluster \in Nat \ {0}
  BY FileFacts, FatTreeAssumption
<1>2. L \in Nat
  <2> HIDE DEF n, S
  <2> QED BY <1>1
<1>3. ASSUME NEW i \in 1..L
      PROVE  /\ ((i - 1) \div S) + 1 \in 1..n /\ RestAt(i) \in 0..(S - 1)
             /\ ((i - 1) \div S) \in Nat /\ i - 1 = ((i - 1) \div S) * S + RestAt(i)
  <2>1. i - 1 \in Nat
    BY <1>2
  <2> HIDE DEF n, S
  <2>2. i \in 1..(n * S)
    OBVIOUS
  <2>3. ((i - 1) \div S) + 1 \in 1..n
    BY <1>1, <2>2, WithinClusters
  <2>4. (i - 1) % S \in 0..(S - 1) /\ (i - 1) \div S \in Nat /\ i - 1 = ((i - 1) \div S) * S + ((i - 1) % S)
    BY <1>1, <2>1, Divide
  <2>5. RestAt(i) = (i - 1) % S
    BY DEF RestAt, S
  <2> QED BY ONLY <2>3, <2>4, <2>5 DEF n
<1> HIDE DEF L
<1>4. ASSUME NEW i \in 1..L
      PROVE  ClusterAt(f, i) \in 2..LastCluster /\ ClusterAt(f, i) \in ToSet(Files[f].clusters)
  <2>1. ((i - 1) \div S) + 1 \in 1..n
    BY <1>3
  <2>2. DOMAIN Files[f].clusters = 1..n
    BY FileFacts
  <2> QED BY <2>1, <2>2, FileFacts DEF ClusterAt, ToSet
<1>5. ASSUME NEW i \in 1..L
      PROVE  /\ Positions(f)[i] = (ClusterAt(f, i) - 2) * S + RestAt(i) + 1
             /\ Positions(f)[i] \in 1..SlotCount
  <2>1. Positions(f)[i] = (ClusterAt(f, i) - 2) * S + RestAt(i) + 1
    BY DEF Positions, ClusterAt, RestAt, L
  <2> DEFINE c == ClusterAt(f, i)
             r == RestAt(i)
             a == (c - 2) * S
             b == (LastCluster - 1 - (c - 1)) * S
  <2>2. c \in 2..LastCluster /\ r \in 0..(S - 1)
    BY <1>3, <1>4
  <2>3. a \in Nat /\ b \in Nat
    <3>1. c - 2 \in Nat /\ LastCluster - 1 - (c - 1) \in Nat
      BY <1>1, <2>2
    <3> DEFINE x == c - 2
               y == LastCluster - 1 - (c - 1)
    <3>2. x \in Nat /\ y \in Nat
      BY <3>1
    <3> HIDE DEF x, y, S
    <3>3. x * S \in Nat /\ y * S \in Nat
      BY <1>1, <3>2
    <3> QED BY <3>3 DEF x, y
  <2>4. SlotCount = a + S + b
    <3>1. SlotCount = (LastCluster - 1) * S
      BY DEF SlotCount
    <3> HIDE DEF c, S
    <3> QED BY <1>1, <2>2, <3>1
  <2> HIDE DEF a, b, c, r, S
  <2>5. a + r + 1 \in 1..SlotCount
    BY <1>1, <2>2, <2>3, <2>4
  <2> QED BY <2>1, <2>5 DEF a, c, r
<1>6. Positions(f) \in Seq(1..SlotCount) /\ Len(Positions(f)) = L /\ DOMAIN Positions(f) = 1..L
  <2>1. DOMAIN Positions(f) = 1..L
    BY DEF Positions, L
  <2>2. Positions(f) = [i \in 1..L |-> Positions(f)[i]]
    BY <2>1 DEF Positions
  <2>3. \A i \in 1..L : Positions(f)[i] \in 1..SlotCount
    BY <1>5
  <2> DEFINE at == Positions(f)
  <2> HIDE DEF at
  <2>4. at = [i \in 1..L |-> at[i]] /\ \A i \in 1..L : at[i] \in 1..SlotCount
    BY <2>2, <2>3 DEF at
  <2>5. at \in Seq(1..SlotCount) /\ Len(at) = L
    BY <1>2, <2>4, IsSequence
  <2> QED BY <2>1, <2>5 DEF at
<1>7. ASSUME NEW i \in 1..L, NEW j \in 1..L, Positions(f)[i] = Positions(f)[j] PROVE i = j
  <2> DEFINE c == ClusterAt(f, i) - 2
             e == ClusterAt(f, j) - 2
             r == RestAt(i)
             s == RestAt(j)
             k == (i - 1) \div S
             l == (j - 1) \div S
  <2>1. c \in Int /\ e \in Int /\ r \in 0..(S - 1) /\ s \in 0..(S - 1)
    BY <1>3, <1>4, SMTT(40)
  <2>2. c * S + r = e * S + s
    <3>1. c * S + r + 1 = e * S + s + 1
      BY <1>5, <1>7
    <3>2. c * S \in Int /\ e * S \in Int
      BY <1>1, <2>1
    <3> HIDE DEF c, e, r, s, S
    <3> QED BY <1>1, <2>1, <3>1, <3>2
  <2>3. c = e /\ r = s
    <3> HIDE DEF c, e, r, s, S
    <3> QED BY <1>1, <2>1, <2>2, SameQuotient
  <2>4. Files[f].clusters[k + 1] = Files[f].clusters[l + 1]
    <3>1. ClusterAt(f, i) = ClusterAt(f, j)
      BY <1>4, <2>3
    <3> QED BY <3>1 DEF ClusterAt
  <2>5. k + 1 \in 1..n /\ l + 1 \in 1..n /\ k \in Nat /\ l \in Nat
    BY <1>3
  <2>6. k + 1 = l + 1
    <3> HIDE DEF k, l
    <3> QED BY <2>4, <2>5, FileFacts
  <2>7. i - 1 = k * S + r /\ j - 1 = l * S + s
    BY <1>3
  <2>8. k = l
    <3> HIDE DEF k, l
    <3> QED BY <2>5, <2>6
  <2>9. i - 1 = j - 1
    <3> HIDE DEF k, l, r, s
    <3> QED BY <2>3, <2>7, <2>8
  <2> QED BY <1>2, <2>9
<1> QED BY <1>2, <1>3, <1>4, <1>5, <1>6, <1>7 DEF L

\* Directories without a common cluster have no common slot.
LEMMA PositionsApart ==
  ASSUME NEW f \in DOMAIN Files, NEW g \in DOMAIN Files,
         ToSet(Files[f].clusters) \cap ToSet(Files[g].clusters) = {},
         NEW i \in 1..Len(Positions(f)), NEW j \in 1..Len(Positions(g))
  PROVE  Positions(f)[i] # Positions(g)[j]
<1> SUFFICES ASSUME Positions(f)[i] = Positions(g)[j] PROVE FALSE
  OBVIOUS
<1> DEFINE S == SlotsPerCluster
           c == ClusterAt(f, i) - 2
           e == ClusterAt(g, j) - 2
           r == RestAt(i)
           s == RestAt(j)
<1>0. S \in Nat \ {0}
  BY FatTreeAssumption
<1>1. c \in Int /\ e \in Int /\ r \in 0..(S - 1) /\ s \in 0..(S - 1)
  <2>1. /\ ClusterAt(f, i) \in 2..LastCluster /\ RestAt(i) \in 0..(S - 1)
        /\ ClusterAt(g, j) \in 2..LastCluster /\ RestAt(j) \in 0..(S - 1)
    BY PositionFacts
  <2> QED BY <2>1, FatTreeAssumption
<1>2. c * S + r = e * S + s
  <2>1. c * S + r + 1 = e * S + s + 1
    BY PositionFacts
  <2>2. c * S \in Int /\ e * S \in Int
    BY <1>0, <1>1, SMTT(40)
  <2> HIDE DEF c, e, r, s, S
  <2> QED BY <1>0, <1>1, <2>1, <2>2
<1>3. c = e
  <2> HIDE DEF c, e, r, s, S
  <2> QED BY <1>0, <1>1, <1>2, SameQuotient
<1>4. ClusterAt(f, i) = ClusterAt(g, j)
  BY <1>3, PositionFacts, SMTT(40)
<1> QED BY <1>4, PositionFacts

-----------------------------------------------------------------------------
(* The volume: what a table of slots holds of the files in L, but for the  *)
(* slots of x.                                                             *)

Kinds == {"zero", "label", "dot", "lfn", "short", "file", "stream", "name"}

SlotType == [kind : Kinds, file : Nat, seq : Nat, deleted : BOOLEAN]

\* A slot is free, has no file, or is one of the slots of a file.
Proper(s) ==
  \/ s \in {Zero, Label, Dot}
  \/ \E f \in DOMAIN Files \ {Root} : \E k \in 1..Len(SetOf(f)) :
       s = SetOf(f)[k] \/ s = [SetOf(f)[k] EXCEPT !.deleted = TRUE]

IsIn(T, p, f)  == T[p].file = f /\ ~T[p].deleted
FreeIn(T, p)   == T[p].kind = "zero" \/ T[p].deleted
DirsIn(L)      == {d \in L : Files[d].dir}

\* The slots of f stand in d from slot a on, and nowhere else.
SetAt(T, f, d, a) ==
  /\ a + Len(SetOf(f)) - 1 <= Len(Positions(d))
  /\ \A k \in 1..Len(SetOf(f)) : T[Positions(d)[a + k - 1]] = SetOf(f)[k]
  /\ \A p \in 1..SlotCount : IsIn(T, p, f) =>
       \E k \in 1..Len(SetOf(f)) : p = Positions(d)[a + k - 1]

\* Behind a slot that was never used there is none that was.
ZeroLast(T, d) ==
  \A i, j \in 1..Len(Positions(d)) :
    i < j /\ T[Positions(d)[i]].kind = "zero" => T[Positions(d)[j]].kind = "zero"

\* What a deleted entry set of exFAT counts as its own is not in use.
HeadsFree(T, d) ==
  \A i, j \in 1..Len(Positions(d)) :
    LET head == T[Positions(d)[i]]
    IN  head.kind = "file" /\ head.deleted /\ i <= j /\ j <= i + Secondaries(head.file)
          => FreeIn(T, Positions(d)[j])

ClustersApart(f, g) == ToSet(Files[f].clusters) \cap ToSet(Files[g].clusters) = {}

Table(T, L, x) ==
  /\ T \in [1..SlotCount -> SlotType] /\ \A p \in 1..SlotCount : Proper(T[p])
  /\ L \subseteq DOMAIN Files /\ Root \in L
  /\ \A f \in DOMAIN Files \ {Root} :
       f \in L \ {x} <=> \E p \in 1..SlotCount : IsIn(T, p, f)
  /\ \A f \in L \ {Root, x} : \E d \in DirsIn(L) : \E a \in Nat \ {0} : SetAt(T, f, d, a)
  /\ \A f, g \in L : f # g => ClustersApart(f, g)
  /\ \A d \in DirsIn(L) : ZeroLast(T, d) /\ HeadsFree(T, d)
  /\ fs = "exfat" => \A f \in L \ {Root} : Files[f].parts > 0

VolumeInv == fs \in {"fat16", "fat32", "exfat"} /\ Table(slots, Live, Root)

-----------------------------------------------------------------------------
\* The slots a file is made of.
SlotOf(f, k) ==
  LET n == Files[f].parts
  IN  IF fs = "exfat"
      THEN IF k = 1 THEN Slot("file", f, 0) ELSE IF k = 2 THEN Slot("stream", f, 0)
           ELSE Slot("name", f, k - 2)
      ELSE IF k <= n THEN Slot("lfn", f, n + 1 - k) ELSE Slot("short", f, 0)

\* The slots a file is made of: at least one, all of that file, none of them deleted.
LEMMA SetFacts ==
  ASSUME NEW f \in DOMAIN Files
  PROVE  /\ Len(SetOf(f)) = Files[f].parts + (IF fs = "exfat" THEN 2 ELSE 1)
         /\ Len(SetOf(f)) \in Nat \ {0} /\ DOMAIN SetOf(f) = 1..Len(SetOf(f))
         /\ \A k \in 1..Len(SetOf(f)) :
              /\ SetOf(f)[k] = SlotOf(f, k) /\ SetOf(f)[k] \in SlotType
              /\ SetOf(f)[k].file = f /\ ~SetOf(f)[k].deleted
              /\ SetOf(f)[k].kind \notin {"zero", "label", "dot"}
              /\ SetOf(f)[k].kind = "file" => k = 1
<1> DEFINE n == Files[f].parts
           L == n + (IF fs = "exfat" THEN 2 ELSE 1)
<1>1. n \in Nat /\ f \in Nat /\ f # 0
  BY FileFacts
<1>2. ASSUME NEW kind \in Kinds, NEW q \in Nat
      PROVE  Slot(kind, f, q) \in SlotType
  BY <1>1 DEF Slot, SlotType
<1>2a. {"file", "stream", "name", "lfn", "short"} \subseteq Kinds
  BY DEF Kinds
<1>3. SetOf(f) \in Seq(SlotType) /\ Len(SetOf(f)) = L
      /\ \A k \in 1..L : SetOf(f)[k] = SlotOf(f, k)
  <2>1. CASE fs = "exfat"
    <3> DEFINE x == Slot("file", f, 0)
               y == Slot("stream", f, 0)
               a == <<x, y>>
               b == [k \in 1..n |-> Slot("name", f, k)]
    <3>0. x \in SlotType /\ y \in SlotType
      BY <1>2, <1>2a
    <3>1. a \in Seq(SlotType) /\ Len(a) = 2 /\ a[1] = x /\ a[2] = y
      <4> HIDE DEF x, y
      <4> QED BY <3>0
    <3>2. b \in Seq(SlotType) /\ Len(b) = n /\ \A k \in 1..n : b[k] = Slot("name", f, k)
      <4>1. \A k \in 1..n : b[k] = Slot("name", f, k) /\ b[k] \in SlotType
        BY <1>1, <1>2, <1>2a
      <4>2. b = [k \in 1..n |-> b[k]]
        OBVIOUS
      <4> HIDE DEF b
      <4> QED BY <1>1, <4>1, <4>2, IsSequence
    <3>3. SetOf(f) = a \o b
      BY <2>1 DEF SetOf
    <3> HIDE DEF a, b
    <3>4. /\ a \o b \in Seq(SlotType) /\ Len(a \o b) = 2 + n
          /\ \A k \in 1..(2 + n) : (a \o b)[k] = IF k <= 2 THEN a[k] ELSE b[k - 2]
      <4> HIDE DEF n, L
      <4>1. a \in Seq(SlotType) /\ b \in Seq(SlotType) /\ Len(a) = 2 /\ Len(b) = n /\ n \in Nat
        BY ONLY <1>1, <3>1, <3>2
      <4>2. /\ a \o b \in Seq(SlotType) /\ Len(a \o b) = Len(a) + Len(b)
            /\ \A k \in 1..(Len(a) + Len(b)) : (a \o b)[k] = IF k <= Len(a) THEN a[k] ELSE b[k - Len(a)]
        BY ONLY <4>1, ConcatProperties
      <4> QED BY ONLY <4>1, <4>2
    <3>5. ASSUME NEW k \in 1..(2 + n) PROVE (a \o b)[k] = SlotOf(f, k)
      <4>1. CASE k <= 2
        <5>1. k = 1 \/ k = 2
          BY <4>1
        <5> QED BY <2>1, <3>1, <3>4, <5>1 DEF SlotOf
      <4>2. CASE ~(k <= 2)
        <5>1. k - 2 \in 1..n /\ k # 1 /\ k # 2
          BY <1>1, <4>2
        <5> QED BY <2>1, <3>2, <3>4, <4>2, <5>1 DEF SlotOf
      <4> QED BY <4>1, <4>2
    <3> QED BY <1>1, <2>1, <3>3, <3>4, <3>5, SMTT(40)
  <2>2. CASE fs # "exfat"
    <3> DEFINE a == [k \in 1..n |-> Slot("lfn", f, n + 1 - k)]
               b == <<Slot("short", f, 0)>>
    <3>1. \A k \in 1..n : n + 1 - k \in Nat
      BY <1>1
    <3>2. a \in Seq(SlotType) /\ Len(a) = n /\ \A k \in 1..n : a[k] = Slot("lfn", f, n + 1 - k)
      <4>1. \A k \in 1..n : a[k] = Slot("lfn", f, n + 1 - k) /\ a[k] \in SlotType
        BY <1>1, <1>2, <1>2a, <3>1
      <4>2. a = [k \in 1..n |-> a[k]]
        OBVIOUS
      <4> HIDE DEF a
      <4> QED BY <1>1, <4>1, <4>2, IsSequence
    <3>3. b \in Seq(SlotType) /\ Len(b) = 1 /\ b[1] = Slot("short", f, 0)
      <4> DEFINE x == Slot("short", f, 0)
      <4>1. x \in SlotType
        BY <1>2, <1>2a
      <4> HIDE DEF x
      <4> QED BY <4>1 DEF x
    <3>4. SetOf(f) = a \o b
      BY <2>2 DEF SetOf
    <3> HIDE DEF a, b
    <3>5. /\ a \o b \in Seq(SlotType) /\ Len(a \o b) = n + 1
          /\ \A k \in 1..(n + 1) : (a \o b)[k] = IF k <= n THEN a[k] ELSE b[k - n]
      <4> HIDE DEF n, L
      <4>1. a \in Seq(SlotType) /\ b \in Seq(SlotType) /\ Len(a) = n /\ Len(b) = 1 /\ n \in Nat
        BY ONLY <1>1, <3>2, <3>3
      <4>2. /\ a \o b \in Seq(SlotType) /\ Len(a \o b) = Len(a) + Len(b)
            /\ \A k \in 1..(Len(a) + Len(b)) : (a \o b)[k] = IF k <= Len(a) THEN a[k] ELSE b[k - Len(a)]
        BY ONLY <4>1, ConcatProperties
      <4> QED BY ONLY <4>1, <4>2
    <3>6. ASSUME NEW k \in 1..(n + 1) PROVE (a \o b)[k] = SlotOf(f, k)
      <4>1. CASE k <= n
        BY <1>1, <2>2, <3>2, <3>5, <4>1 DEF SlotOf
      <4>2. CASE ~(k <= n)
        <5>1. k = n + 1 /\ k - n = 1
          BY <1>1, <4>2
        <5> QED BY <2>2, <3>3, <3>5, <4>2, <5>1 DEF SlotOf
      <4> QED BY <4>1, <4>2
    <3> QED BY <1>1, <2>2, <3>4, <3>5, <3>6
  <2> QED BY <2>1, <2>2
<1>4. L \in Nat \ {0}
  BY <1>1
<1>5. \A k \in 1..L : SetOf(f)[k] \in SlotType
  BY <1>3
<1>6. ASSUME NEW k \in 1..L
      PROVE  /\ SlotOf(f, k).file = f /\ ~SlotOf(f, k).deleted
             /\ SlotOf(f, k).kind \notin {"zero", "label", "dot"}
             /\ SlotOf(f, k).kind = "file" => k = 1
  BY DEF SlotOf, Slot
<1> HIDE DEF L
<1>7. DOMAIN SetOf(f) = 1..Len(SetOf(f))
  BY <1>3
<1> QED BY <1>3, <1>4, <1>5, <1>6, <1>7 DEF L

\* A slot that has a file, or is in use, is one of that file's.
LEMMA ProperFacts ==
  ASSUME NEW s, Proper(s)
  PROVE  /\ s \in SlotType
         /\ s.file # 0 => s.file \in DOMAIN Files \ {Root}
         /\ s.file = 0 => s \in {Zero, Label, Dot}
         /\ s.kind = "zero" => s = Zero
         /\ s.kind \notin {"zero", "label", "dot"} => s.file \in DOMAIN Files \ {Root}
         /\ s.file # 0 /\ ~s.deleted => \E k \in 1..Len(SetOf(s.file)) : s = SetOf(s.file)[k]
         /\ s.file # 0 => /\ s.kind \notin {"zero", "label", "dot"}
                          /\ fs = "exfat" => s.kind \in {"file", "stream", "name"}
                          /\ fs # "exfat" => s.kind \in {"lfn", "short"}
<1>1. CASE s \in {Zero, Label, Dot}
  <2>0. ASSUME NEW kind \in {"zero", "label", "dot"}, s = Slot(kind, 0, 0)
        PROVE  s \in SlotType /\ s.file = 0 /\ s.kind \in {"zero", "label", "dot"}
    BY <2>0 DEF Slot, SlotType, Kinds
  <2>1. s \in SlotType /\ s.file = 0 /\ s.kind \in {"zero", "label", "dot"}
    BY <1>1, <2>0 DEF Zero, Label, Dot
  <2>2. s.kind = "zero" => s = Zero
    BY <1>1 DEF Zero, Label, Dot, Slot
  <2> QED BY <1>1, <2>1, <2>2
<1>2. CASE s \notin {Zero, Label, Dot}
  <2>0. PICK f \in DOMAIN Files \ {Root} : \E k \in 1..Len(SetOf(f)) :
          s = SetOf(f)[k] \/ s = [SetOf(f)[k] EXCEPT !.deleted = TRUE]
    BY <1>2 DEF Proper
  <2>1. PICK k \in 1..Len(SetOf(f)) :
          s = SetOf(f)[k] \/ s = [SetOf(f)[k] EXCEPT !.deleted = TRUE]
    BY <2>0
  <2> DEFINE t == SetOf(f)[k]
  <2>2. /\ t \in SlotType /\ t.file = f /\ ~t.deleted /\ t = SlotOf(f, k)
        /\ t.kind \notin {"zero", "label", "dot"} /\ f # 0
    BY SetFacts, FileFacts
  <2>3. fs = "exfat" => t.kind \in {"file", "stream", "name"}
    BY <2>2 DEF SlotOf, Slot
  <2>4. fs # "exfat" => t.kind \in {"lfn", "short"}
    BY <2>2 DEF SlotOf, Slot
  <2> HIDE DEF t
  <2>5. s = t \/ s = [t EXCEPT !.deleted = TRUE]
    BY <2>1 DEF t
  <2>6. s \in SlotType /\ s.file = f /\ s.kind = t.kind /\ (~s.deleted => s = t)
    BY <2>2, <2>5 DEF SlotType
  <2> QED BY <2>2, <2>3, <2>4, <2>6 DEF t
<1> QED BY <1>1, <1>2

\* A slot of one directory is no slot of another, and is one slot of its own.
LEMMA SlotInOne ==
  ASSUME NEW T, NEW L, NEW x, Table(T, L, x), NEW d \in L, NEW e \in L,
         NEW i \in 1..Len(Positions(d)), NEW j \in 1..Len(Positions(e)),
         Positions(d)[i] = Positions(e)[j]
  PROVE  d = e /\ i = j
<1>1. d \in DOMAIN Files /\ e \in DOMAIN Files
  BY DEF Table
<1>2. d = e
  <2>1. d # e => ClustersApart(d, e)
    BY DEF Table
  <2> QED BY <1>1, <2>1, PositionsApart DEF ClustersApart
<1> QED BY <1>1, <1>2, PositionFacts

\* Where the slots of a file are.
LEMMA SetInside ==
  ASSUME NEW T, NEW f \in DOMAIN Files, NEW d \in DOMAIN Files, NEW a \in Nat \ {0},
         SetAt(T, f, d, a), NEW k \in 1..Len(SetOf(f))
  PROVE  /\ a + k - 1 \in 1..Len(Positions(d)) /\ Positions(d)[a + k - 1] \in 1..SlotCount
         /\ T[Positions(d)[a + k - 1]] = SetOf(f)[k]
<1>1. Len(SetOf(f)) \in Nat /\ Len(Positions(d)) \in Nat
  BY SetFacts, PositionFacts
<1>2. a + k - 1 \in 1..Len(Positions(d))
  BY <1>1 DEF SetAt
<1> QED BY <1>2, PositionFacts DEF SetAt

\* The slots of a file stay where they are in a table that agrees on them.
LEMMA SetStays ==
  ASSUME NEW T, NEW E, NEW g \in DOMAIN Files \ {Root}, NEW e \in DOMAIN Files,
         NEW b \in Nat \ {0}, SetAt(T, g, e, b),
         \A p \in 1..SlotCount :
           (IsIn(E, p, g) <=> IsIn(T, p, g)) /\ (IsIn(T, p, g) => E[p] = T[p])
  PROVE  SetAt(E, g, e, b)
<1>1. ASSUME NEW k \in 1..Len(SetOf(g)) PROVE E[Positions(e)[b + k - 1]] = SetOf(g)[k]
  <2> DEFINE p == Positions(e)[b + k - 1]
  <2>1. p \in 1..SlotCount /\ T[p] = SetOf(g)[k]
    BY SetInside, SMTT(40)
  <2>2. IsIn(T, p, g)
    BY <2>1, SetFacts, SMTT(40) DEF IsIn
  <2> HIDE DEF p
  <2>3. E[p] = SetOf(g)[k]
    BY <2>1, <2>2
  <2> QED BY <2>3 DEF p
<1> QED BY <1>1 DEF SetAt

\* The slots of a file are marked as deleted.
LEMMA Erases ==
  ASSUME NEW T, NEW L, Table(T, L, Root), NEW f \in L \ {Root}, NEW E,
         E = [p \in 1..SlotCount |->
                IF T[p].file = f THEN [T[p] EXCEPT !.deleted = TRUE] ELSE T[p]]
  PROVE  Table(E, L, f)
<1>0. /\ T \in [1..SlotCount -> SlotType] /\ \A p \in 1..SlotCount : Proper(T[p])
      /\ L \subseteq DOMAIN Files /\ Root \in L
      /\ \A g \in DOMAIN Files \ {Root} :
           g \in L \ {Root} <=> \E p \in 1..SlotCount : IsIn(T, p, g)
      /\ \A g \in L \ {Root} : \E d \in DirsIn(L) : \E a \in Nat \ {0} : SetAt(T, g, d, a)
  BY DEF Table
<1>1. ASSUME NEW p \in 1..SlotCount
      PROVE  /\ T[p] \in SlotType /\ Proper(E[p]) /\ E[p] \in SlotType
             /\ E[p].kind = T[p].kind /\ E[p].file = T[p].file
             /\ E[p].deleted <=> T[p].deleted \/ T[p].file = f
             /\ T[p].file # f => E[p] = T[p]
  <2>1. T[p] \in SlotType /\ Proper(T[p])
    BY <1>0
  <2>2. CASE T[p].file # f
    BY <2>1, <2>2
  <2>3. CASE T[p].file = f
    <3>1. E[p] = [T[p] EXCEPT !.deleted = TRUE]
      BY <2>3
    <3>2. f # 0 /\ f \in DOMAIN Files
      BY <1>0, FileFacts
    <3>3. T[p] \notin {Zero, Label, Dot}
      BY <2>3, <3>2 DEF Zero, Label, Dot, Slot
    <3>4. PICK g \in DOMAIN Files \ {Root} : \E k \in 1..Len(SetOf(g)) :
            T[p] = SetOf(g)[k] \/ T[p] = [SetOf(g)[k] EXCEPT !.deleted = TRUE]
      BY <2>1, <3>3 DEF Proper
    <3>5. PICK k \in 1..Len(SetOf(g)) :
            T[p] = SetOf(g)[k] \/ T[p] = [SetOf(g)[k] EXCEPT !.deleted = TRUE]
      BY <3>4
    <3> DEFINE s == SetOf(g)[k]
    <3>6. s \in SlotType
      BY SetFacts
    <3>7. E[p] = [s EXCEPT !.deleted = TRUE]
      <4> HIDE DEF s
      <4> QED BY <3>1, <3>5, <3>6 DEF s, SlotType
    <3>8. Proper(E[p])
      BY <3>7 DEF Proper
    <3>9. /\ E[p] \in SlotType /\ E[p].kind = T[p].kind /\ E[p].file = T[p].file /\ E[p].deleted
      BY <2>1, <3>1 DEF SlotType
    <3> QED BY <2>1, <2>3, <3>8, <3>9
  <2> QED BY <2>2, <2>3
<1>2. E \in [1..SlotCount -> SlotType] /\ \A p \in 1..SlotCount : Proper(E[p])
  <2>1. \A p \in 1..SlotCount : E[p] \in SlotType
    BY <1>1
  <2>2. E = [p \in 1..SlotCount |-> E[p]]
    OBVIOUS
  <2> QED BY <1>1, <2>1, <2>2
<1>3. ASSUME NEW p \in 1..SlotCount, NEW g \in DOMAIN Files
      PROVE  IsIn(E, p, g) <=> g # f /\ IsIn(T, p, g)
  BY <1>1 DEF IsIn
<1>4. \A g \in DOMAIN Files \ {Root} : g \in L \ {f} <=> \E p \in 1..SlotCount : IsIn(E, p, g)
  BY <1>0, <1>3
<1>5. ASSUME NEW g \in L \ {Root, f}
      PROVE  \E d \in DirsIn(L) : \E a \in Nat \ {0} : SetAt(E, g, d, a)
  <2>1. PICK d \in DirsIn(L) : \E a \in Nat \ {0} : SetAt(T, g, d, a)
    BY <1>0
  <2>2. PICK a \in Nat \ {0} : SetAt(T, g, d, a)
    BY <2>1
  <2>3. g \in DOMAIN Files /\ d \in DOMAIN Files
    BY <1>0 DEF DirsIn
  <2>4. ASSUME NEW k \in 1..Len(SetOf(g)) PROVE E[Positions(d)[a + k - 1]] = SetOf(g)[k]
    <3>1. Positions(d)[a + k - 1] \in 1..SlotCount /\ T[Positions(d)[a + k - 1]] = SetOf(g)[k]
      BY <2>2, <2>3, SetInside, SMTT(40)
    <3>2. SetOf(g)[k].file = g
      BY <2>3, SetFacts
    <3> QED BY <1>1, <3>1, <3>2
  <2>5. SetAt(E, g, d, a)
    BY <1>3, <2>2, <2>3, <2>4 DEF SetAt
  <2> QED BY <2>5
<1>6. ASSUME NEW d \in DirsIn(L)
      PROVE  ZeroLast(E, d) /\ HeadsFree(E, d)
  <2>0. d \in L /\ d \in DOMAIN Files
    BY <1>0 DEF DirsIn
  <2>1. \A i \in 1..Len(Positions(d)) : Positions(d)[i] \in 1..SlotCount
    BY <2>0, PositionFacts
  <2>2. ZeroLast(T, d) /\ HeadsFree(T, d)
    BY DEF Table
  <2>3. ZeroLast(E, d)
    BY <1>1, <2>1, <2>2 DEF ZeroLast
  <2>4. ASSUME NEW i \in 1..Len(Positions(d)), NEW j \in 1..Len(Positions(d)),
               E[Positions(d)[i]].kind = "file", E[Positions(d)[i]].deleted, i <= j,
               j <= i + Secondaries(E[Positions(d)[i]].file)
        PROVE  FreeIn(E, Positions(d)[j])
    <3> DEFINE p == Positions(d)[i]
               q == Positions(d)[j]
    <3>1. p \in 1..SlotCount /\ q \in 1..SlotCount
      BY <2>1
    <3>2. T[p].kind = "file" /\ E[p].file = T[p].file
      BY <1>1, <2>4, <3>1
    <3>3. FreeIn(T, q) => FreeIn(E, q)
      BY <1>1, <3>1 DEF FreeIn
    <3>4. CASE T[p].deleted
      BY <2>2, <2>4, <3>2, <3>3, <3>4 DEF HeadsFree
    <3>5. CASE ~T[p].deleted
      <4>1. T[p].file = f
        BY <1>1, <2>4, <3>1, <3>5
      <4>2. PICK e \in DirsIn(L) : \E a \in Nat \ {0} : SetAt(T, f, e, a)
        BY <1>0
      <4>3. PICK a \in Nat \ {0} : SetAt(T, f, e, a)
        BY <4>2
      <4>4. e \in L /\ e \in DOMAIN Files /\ f \in DOMAIN Files
        BY <1>0 DEF DirsIn
      <4>5. PICK k \in 1..Len(SetOf(f)) : p = Positions(e)[a + k - 1]
        BY <3>1, <3>5, <4>1, <4>3 DEF SetAt, IsIn
      <4>6. a + k - 1 \in 1..Len(Positions(e)) /\ T[p] = SetOf(f)[k]
        BY <4>3, <4>4, <4>5, SetInside, SMTT(40)
      <4>7. k = 1 /\ T[p] = SlotOf(f, k)
        BY <3>2, <4>4, <4>6, SetFacts, SMTT(40)
      <4>8. fs = "exfat"
        BY <3>2, <4>7 DEF SlotOf, Slot
      <4>9. e = d /\ a = i
        <5>1. e = d /\ a + k - 1 = i
          BY <2>0, <4>4, <4>5, <4>6, SlotInOne, SMTT(40)
        <5> QED BY <4>7, <5>1
      <4>10. Len(SetOf(f)) = Secondaries(f) + 1 /\ Secondaries(f) \in Nat
        BY <4>4, <4>8, SetFacts, FileFacts, SMTT(40) DEF Secondaries
      <4>11. j - i + 1 \in 1..Len(SetOf(f)) /\ a + (j - i + 1) - 1 = j
        <5>1. j <= i + Secondaries(f)
          BY <2>4, <3>2, <4>1
        <5>2. i \in Int /\ j \in Int
          OBVIOUS
        <5> QED BY <2>4, <4>9, <4>10, <5>1, <5>2, SMTT(40)
      <4>12. T[q] = SetOf(f)[j - i + 1]
        BY <4>3, <4>4, <4>9, <4>11, SetInside, SMTT(40)
      <4>13. T[q].file = f
        <5>1. SetOf(f)[j - i + 1].file = f
          BY <4>4, <4>11, SetFacts
        <5> QED BY <4>12, <5>1
      <4> QED BY <1>1, <3>1, <4>13 DEF FreeIn
    <3> QED BY <3>4, <3>5
  <2>5. HeadsFree(E, d)
    BY <2>4 DEF HeadsFree
  <2> QED BY <2>3, <2>5
<1>7. /\ \A g, h \in L : g # h => ClustersApart(g, h)
      /\ fs = "exfat" => \A g \in L \ {Root} : Files[g].parts > 0
  BY DEF Table
<1> QED BY <1>0, <1>2, <1>4, <1>5, <1>6, <1>7 DEF Table

\* The clusters of a new directory are cleared, and those of a new file are its own.
LEMMA Clears ==
  ASSUME NEW T, NEW L, Table(T, L, Root), NEW f \in DOMAIN Files \ {Root}, f \notin L,
         \A g \in L : ClustersApart(f, g), fs = "exfat" => Files[f].parts > 0,
         NEW E, E = [p \in 1..SlotCount |-> E[p]],
         \A p \in 1..SlotCount : E[p] = T[p] \/ E[p] \in {Zero, Dot},
         \A p \in 1..SlotCount : (\A i \in 1..Len(Positions(f)) : p # Positions(f)[i]) => E[p] = T[p],
         Files[f].dir => /\ \A i \in 1..Len(Positions(f)) : E[Positions(f)[i]] \in {Zero, Dot}
                         /\ ZeroLast(E, f)
  PROVE  Table(E, L \cup {f}, f)
<1> DEFINE M == L \cup {f}
<1>0. /\ T \in [1..SlotCount -> SlotType] /\ \A p \in 1..SlotCount : Proper(T[p])
      /\ L \subseteq DOMAIN Files /\ Root \in L
      /\ \A g \in DOMAIN Files \ {Root} :
           g \in L \ {Root} <=> \E p \in 1..SlotCount : IsIn(T, p, g)
      /\ \A g \in L \ {Root} : \E d \in DirsIn(L) : \E a \in Nat \ {0} : SetAt(T, g, d, a)
      /\ \A g, h \in L : g # h => ClustersApart(g, h)
      /\ \A d \in DirsIn(L) : ZeroLast(T, d) /\ HeadsFree(T, d)
      /\ fs = "exfat" => \A g \in L \ {Root} : Files[g].parts > 0
  BY DEF Table
<1>1. E \in [1..SlotCount -> SlotType] /\ \A p \in 1..SlotCount : Proper(E[p])
  <2>1. \A p \in 1..SlotCount : Proper(E[p])
    <3>1. \A p \in 1..SlotCount : E[p] = T[p] \/ E[p] \in {Zero, Dot}
      OBVIOUS
    <3> QED BY <1>0, <3>1 DEF Proper
  <2>2. \A p \in 1..SlotCount : E[p] \in SlotType
    BY <2>1, ProperFacts
  <2> QED BY <2>1, <2>2
<1>2. ASSUME NEW d \in L, NEW i \in 1..Len(Positions(d))
      PROVE  Positions(d)[i] \in 1..SlotCount /\ E[Positions(d)[i]] = T[Positions(d)[i]]
  <2>1. d \in DOMAIN Files /\ ClustersApart(f, d)
    BY <1>0
  <2>2. Positions(d)[i] \in 1..SlotCount
    BY <2>1, PositionFacts
  <2>3. \A j \in 1..Len(Positions(f)) : Positions(d)[i] # Positions(f)[j]
    BY <2>1, PositionsApart DEF ClustersApart
  <2> QED BY <2>2, <2>3
<1>3. ASSUME NEW g \in L \ {Root}, NEW d \in DirsIn(L), NEW a \in Nat \ {0}, SetAt(T, g, d, a)
      PROVE  /\ \A k \in 1..Len(SetOf(g)) : E[Positions(d)[a + k - 1]] = SetOf(g)[k]
             /\ \A p \in 1..SlotCount : IsIn(T, p, g) => E[p] = T[p]
  <2>1. g \in DOMAIN Files /\ d \in L /\ d \in DOMAIN Files
    BY <1>0 DEF DirsIn
  <2>2. \A k \in 1..Len(SetOf(g)) :
          a + k - 1 \in 1..Len(Positions(d)) /\ T[Positions(d)[a + k - 1]] = SetOf(g)[k]
    <3> TAKE k \in 1..Len(SetOf(g))
    <3>1. SetAt(T, g, d, a)
      BY <1>3
    <3> QED BY ONLY <2>1, <3>1, SetInside, a \in Nat \ {0}, k \in 1..Len(SetOf(g)), SMTT(40)
  <2>3. \A p \in 1..SlotCount : IsIn(T, p, g) => \E k \in 1..Len(SetOf(g)) : p = Positions(d)[a + k - 1]
    BY <1>3 DEF SetAt
  <2>4. \A k \in 1..Len(SetOf(g)) : E[Positions(d)[a + k - 1]] = T[Positions(d)[a + k - 1]]
    BY <1>2, <2>1, <2>2
  <2> QED BY <2>2, <2>3, <2>4, SMTT(40)
<1>4. ASSUME NEW p \in 1..SlotCount, NEW g \in DOMAIN Files \ {Root}
      PROVE  IsIn(E, p, g) <=> IsIn(T, p, g)
  <2>1. ASSUME IsIn(E, p, g) PROVE IsIn(T, p, g)
    <3>1. g # 0
      BY FileFacts
    <3>2. E[p] \notin {Zero, Dot}
      BY <2>1, <3>1 DEF IsIn, Zero, Dot, Slot
    <3>3. E[p] = T[p]
      BY <3>2
    <3> QED BY <2>1, <3>3 DEF IsIn
  <2>2. ASSUME IsIn(T, p, g) PROVE IsIn(E, p, g)
    <3>1. g \in L \ {Root}
      BY <1>0, <2>2
    <3>2. PICK d \in DirsIn(L) : \E a \in Nat \ {0} : SetAt(T, g, d, a)
      BY <1>0, <3>1
    <3>3. E[p] = T[p]
      BY <1>3, <2>2, <3>1, <3>2
    <3> QED BY <2>2, <3>3 DEF IsIn
  <2> QED BY <2>1, <2>2
<1>5. \A g \in DOMAIN Files \ {Root} : g \in M \ {f} <=> \E p \in 1..SlotCount : IsIn(E, p, g)
  BY <1>0, <1>4
<1>6. ASSUME NEW g \in M \ {Root, f}
      PROVE  \E d \in DirsIn(M) : \E a \in Nat \ {0} : SetAt(E, g, d, a)
  <2>1. g \in L \ {Root} /\ g \in DOMAIN Files \ {Root}
    BY <1>0
  <2>2. PICK d \in DirsIn(L) : \E a \in Nat \ {0} : SetAt(T, g, d, a)
    BY <1>0, <2>1
  <2>3. PICK a \in Nat \ {0} : SetAt(T, g, d, a)
    BY <2>2
  <2>4. SetAt(E, g, d, a)
    <3>1. \A p \in 1..SlotCount : IsIn(E, p, g) => IsIn(T, p, g)
      BY <1>4, <2>1
    <3>2. \A k \in 1..Len(SetOf(g)) : E[Positions(d)[a + k - 1]] = SetOf(g)[k]
      BY <1>3, <2>1, <2>3
    <3> QED BY <2>3, <3>1, <3>2 DEF SetAt
  <2>5. d \in DirsIn(M)
    BY DEF DirsIn
  <2> QED BY <2>4, <2>5
<1>7. \A g, h \in M : g # h => ClustersApart(g, h)
  <2>1. \A g \in L : ClustersApart(f, g) /\ ClustersApart(g, f)
    BY DEF ClustersApart
  <2> QED BY <1>0, <2>1
<1>8. ASSUME NEW d \in DirsIn(M) PROVE ZeroLast(E, d) /\ HeadsFree(E, d)
  <2>1. CASE d = f
    <3>1. Files[f].dir
      BY <2>1 DEF DirsIn
    <3>2. \A i \in 1..Len(Positions(f)) : E[Positions(f)[i]].kind # "file"
      BY <3>1 DEF Zero, Dot, Slot
    <3> QED BY <2>1, <3>1, <3>2 DEF HeadsFree
  <2>2. CASE d # f
    <3>1. d \in L /\ d \in DirsIn(L)
      BY <2>2 DEF DirsIn
    <3>2. \A i \in 1..Len(Positions(d)) : E[Positions(d)[i]] = T[Positions(d)[i]]
      BY <1>2, <3>1
    <3>3. ZeroLast(T, d) /\ HeadsFree(T, d)
      BY <1>0, <3>1
    <3> QED BY <3>2, <3>3, SMTT(40) DEF ZeroLast, HeadsFree, FreeIn
  <2> QED BY <2>1, <2>2
<1>9. fs = "exfat" => \A g \in M \ {Root} : Files[g].parts > 0
  BY <1>0
<1> QED BY <1>0, <1>1, <1>5, <1>6, <1>7, <1>8, <1>9 DEF Table

\* The first n free slots in a row in d begin with slot a.
FirstPlace(T, d, n, a) ==
  LET Fits(b) == /\ b + n - 1 <= Len(Positions(d))
                 /\ \A j \in b..(b + n - 1) : FreeIn(T, Positions(d)[j])
  IN  Fits(a) /\ \A b \in 1..Len(Positions(d)) : Fits(b) => a <= b

\* E is T but for the slots of f, in d from slot a on.
Written(T, E, f, d, a) ==
  /\ E = [p \in 1..SlotCount |-> E[p]]
  /\ \A k \in 1..Len(SetOf(f)) : E[Positions(d)[a + k - 1]] = SetOf(f)[k]
  /\ \A p \in 1..SlotCount :
       (\A k \in 1..Len(SetOf(f)) : p # Positions(d)[a + k - 1]) => E[p] = T[p]

\* The slots of a file are written to the first place that has room for them.
LEMMA Enters ==
  ASSUME NEW T, NEW L, NEW f \in L \ {Root}, Table(T, L, f), NEW d \in DirsIn(L),
         NEW a \in Nat \ {0}, FirstPlace(T, d, Len(SetOf(f)), a), NEW E, Written(T, E, f, d, a)
  PROVE  Table(E, L, Root)
<1> USE DEF FirstPlace, Written
<1> DEFINE n  == Len(SetOf(f))
           at == Positions(d)
           Placed(p) == \E k \in 1..n : p = at[a + k - 1]
<1>0. /\ T \in [1..SlotCount -> SlotType] /\ \A p \in 1..SlotCount : Proper(T[p])
      /\ L \subseteq DOMAIN Files /\ Root \in L
      /\ \A g \in DOMAIN Files \ {Root} :
           g \in L \ {f} <=> \E p \in 1..SlotCount : IsIn(T, p, g)
      /\ \A g \in L \ {Root, f} : \E e \in DirsIn(L) : \E b \in Nat \ {0} : SetAt(T, g, e, b)
      /\ \A g, h \in L : g # h => ClustersApart(g, h)
      /\ \A e \in DirsIn(L) : ZeroLast(T, e) /\ HeadsFree(T, e)
      /\ fs = "exfat" => \A g \in L \ {Root} : Files[g].parts > 0
  BY DEF Table
<1>1. /\ f \in DOMAIN Files /\ f # 0 /\ d \in L /\ d \in DOMAIN Files
      /\ n \in Nat \ {0} /\ Len(at) \in Nat
  BY <1>0, SetFacts, PositionFacts, FileFacts DEF DirsIn
<1>2. ASSUME NEW k \in 1..n
      PROVE  /\ a + k - 1 \in 1..Len(at) /\ a + k - 1 \in a..(a + n - 1)
             /\ at[a + k - 1] \in 1..SlotCount
             /\ E[at[a + k - 1]] = SetOf(f)[k] /\ FreeIn(T, at[a + k - 1])
  <2>1. a + k - 1 \in 1..Len(at) /\ a + k - 1 \in a..(a + n - 1)
    BY <1>1
  <2>2. at[a + k - 1] \in 1..SlotCount
    BY <1>1, <2>1, PositionFacts
  <2> QED BY <2>1, <2>2
<1>3. ASSUME NEW p \in 1..SlotCount
      PROVE  E[p] = T[p] \/ \E k \in 1..n : p = at[a + k - 1] /\ E[p] = SetOf(f)[k]
  BY SMTT(40)
<1>4. E \in [1..SlotCount -> SlotType] /\ \A p \in 1..SlotCount : Proper(E[p])
  <2>1. \A p \in 1..SlotCount : Proper(E[p])
    BY <1>0, <1>1, <1>3 DEF Proper
  <2>2. \A p \in 1..SlotCount : E[p] \in SlotType
    BY <2>1, ProperFacts
  <2> QED BY <2>1, <2>2
<1>5. ASSUME NEW p \in 1..SlotCount, NEW g \in DOMAIN Files \ {Root}, g # f
      PROVE  (IsIn(E, p, g) <=> IsIn(T, p, g)) /\ (IsIn(T, p, g) => E[p] = T[p])
  <2>1. CASE ~Placed(p)
    <3>1. E[p] = T[p]
      BY <2>1
    <3> QED BY <3>1 DEF IsIn
  <2>2. CASE Placed(p)
    <3>1. PICK k \in 1..n : p = at[a + k - 1]
      BY <2>2
    <3>2. E[p].file = f
      <4>1. SetOf(f)[k].file = f
        BY <1>1, SetFacts
      <4> QED BY <1>2, <3>1, <4>1
    <3>3. FreeIn(T, p)
      BY <1>2, <3>1
    <3>4. g # 0 /\ (T[p].kind = "zero" => T[p] = Zero)
      BY <1>0, FileFacts, ProperFacts
    <3>5. ~IsIn(T, p, g)
      BY <3>3, <3>4 DEF FreeIn, IsIn, Zero, Slot
    <3> QED BY <1>5, <3>2, <3>5 DEF IsIn
  <2> QED BY <2>1, <2>2
<1>6. ASSUME NEW p \in 1..SlotCount
      PROVE  IsIn(E, p, f) <=> Placed(p)
  <2>1. ~IsIn(T, p, f)
    BY <1>0, <1>1
  <2>2. CASE Placed(p)
    <3>1. PICK k \in 1..n : p = at[a + k - 1]
      BY <2>2
    <3>2. E[p].file = f /\ ~E[p].deleted
      BY <1>1, <1>2, <3>1, SetFacts, SMTT(40)
    <3> QED BY <2>2, <3>2 DEF IsIn
  <2>3. CASE ~Placed(p)
    <3>1. E[p] = T[p]
      BY <2>3
    <3> QED BY <2>1, <2>3, <3>1 DEF IsIn
  <2> QED BY <2>2, <2>3
<1>7. SetAt(E, f, d, a)
  BY <1>6 DEF SetAt
<1>8. \A g \in DOMAIN Files \ {Root} : g \in L \ {Root} <=> \E p \in 1..SlotCount : IsIn(E, p, g)
  <2>1. \E p \in 1..SlotCount : IsIn(E, p, f)
    <3>1. 1 \in 1..n
      BY <1>1
    <3>2. at[a + 1 - 1] \in 1..SlotCount /\ Placed(at[a + 1 - 1])
      BY <1>2, <3>1
    <3> HIDE DEF Placed
    <3> QED BY <1>6, <3>2
  <2> QED BY <1>0, <1>5, <2>1
<1>9. ASSUME NEW g \in L \ {Root}
      PROVE  \E e \in DirsIn(L) : \E b \in Nat \ {0} : SetAt(E, g, e, b)
  <2>1. CASE g = f
    BY <1>7, <2>1
  <2>2. CASE g # f
    <3>0. g \in DOMAIN Files \ {Root}
      BY <1>0
    <3>1. PICK e \in DirsIn(L) : \E b \in Nat \ {0} : SetAt(T, g, e, b)
      BY <1>0, <2>2
    <3>2. PICK b \in Nat \ {0} : SetAt(T, g, e, b)
      BY <3>1
    <3>3. e \in DOMAIN Files
      BY <1>0 DEF DirsIn
    <3>4. \A p \in 1..SlotCount :
            (IsIn(E, p, g) <=> IsIn(T, p, g)) /\ (IsIn(T, p, g) => E[p] = T[p])
      BY <1>5, <2>2, <3>0
    <3>5. b \in Nat \ {0} /\ SetAt(T, g, e, b)
      BY <3>2
    <3>6. SetAt(E, g, e, b)
      BY ONLY <3>0, <3>3, <3>4, <3>5, SetStays, SMTT(40)
    <3> QED BY <3>6
  <2> QED BY <2>1, <2>2
<1>10. ASSUME NEW e \in DirsIn(L), e # d, NEW i \in 1..Len(Positions(e))
       PROVE  E[Positions(e)[i]] = T[Positions(e)[i]]
  <2>1. e \in L /\ e \in DOMAIN Files
    BY <1>0 DEF DirsIn
  <2>2. Positions(e)[i] \in 1..SlotCount
    BY <2>1, PositionFacts
  <2>3. \A k \in 1..n : Positions(e)[i] # at[a + k - 1]
    BY <1>1, <1>2, <1>10, <2>1, SlotInOne, SMTT(40)
  <2> QED BY <2>2, <2>3
<1>11. ASSUME NEW j \in 1..Len(at), ~(j \in a..(a + n - 1))
       PROVE  E[at[j]] = T[at[j]]
  <2>1. at[j] \in 1..SlotCount
    BY <1>1, PositionFacts
  <2>2. ASSUME NEW k \in 1..n, at[j] = at[a + k - 1] PROVE FALSE
    <3>1. j = a + k - 1
      BY <1>1, <1>2, <2>2, PositionFacts
    <3> QED BY <1>2, <1>11, <3>1
  <2> QED BY <2>1, <2>2
<1>12. ASSUME NEW j \in a..(a + n - 1)
       PROVE  /\ j \in 1..Len(at) /\ FreeIn(T, at[j])
              /\ E[at[j]].kind \notin {"zero", "label", "dot"} /\ ~E[at[j]].deleted
  <2>1. j - a + 1 \in 1..n /\ a + (j - a + 1) - 1 = j
    BY <1>1
  <2>2. E[at[j]] = SetOf(f)[j - a + 1] /\ j \in 1..Len(at) /\ FreeIn(T, at[j])
    BY <1>2, <2>1
  <2> QED BY <1>1, <2>1, <2>2, SetFacts, SMTT(40)
\* A free row that ends where the place begins would have been the place.
<1>13. ASSUME NEW i \in 1..Len(at), i < a, \A j \in i..(a - 1) : FreeIn(T, at[j])
       PROVE  FALSE
  <2>1. i + n - 1 <= Len(at)
    <3>1. a + n - 1 <= Len(at)
      OBVIOUS
    <3> QED BY <1>1, <1>13, <3>1
  <2>2. ASSUME NEW j \in i..(i + n - 1) PROVE FreeIn(T, at[j])
    <3>1. j \in i..(a - 1) \/ j \in a..(a + n - 1)
      BY <1>1, <1>13
    <3> QED BY <1>12, <1>13, <3>1
  <2>3. a <= i
    BY <2>1, <2>2
  <2> QED BY <1>13, <2>3
<1>14. ASSUME NEW e \in DirsIn(L) PROVE ZeroLast(E, e) /\ HeadsFree(E, e)
  <2>1. CASE e # d
    <3>1. \A i \in 1..Len(Positions(e)) : E[Positions(e)[i]] = T[Positions(e)[i]]
      BY <1>10, <2>1
    <3>2. ZeroLast(T, e) /\ HeadsFree(T, e)
      BY <1>0
    <3>3. ZeroLast(E, e)
      BY <3>1, <3>2, SMTT(40) DEF ZeroLast
    <3>4. HeadsFree(E, e)
      BY <3>1, <3>2, ZenonT(60) DEF HeadsFree, FreeIn
    <3> QED BY <3>3, <3>4
  <2>2. ASSUME NEW i \in 1..Len(at), NEW j \in 1..Len(at), i < j, E[at[i]].kind = "zero"
        PROVE  E[at[j]].kind = "zero"
    <3>1. ~(i \in a..(a + n - 1))
      BY <1>12, <2>2
    <3>2. T[at[i]].kind = "zero"
      BY <1>11, <2>2, <3>1
    <3>3. \A m \in 1..Len(at) : i <= m => T[at[m]].kind = "zero"
      <4>1. ZeroLast(T, d)
        BY <1>0
      <4>2. \A m \in 1..Len(at) : i < m => T[at[m]].kind = "zero"
        BY <3>2, <4>1 DEF ZeroLast
      <4>3. \A m \in 1..Len(at) : i <= m => i < m \/ i = m
        OBVIOUS
      <4> QED BY <3>2, <4>2, <4>3
    <3>4. CASE j \in a..(a + n - 1)
      <4>1. i < a
        BY <1>1, <2>2, <3>1, <3>4
      <4>2. \A m \in i..(a - 1) : m \in 1..Len(at) /\ i <= m
        BY <1>1, <1>12, <3>4
      <4>3. \A m \in i..(a - 1) : FreeIn(T, at[m])
        BY <3>3, <4>2 DEF FreeIn
      <4> QED BY <1>13, <4>1, <4>3
    <3>5. CASE ~(j \in a..(a + n - 1))
      BY <1>11, <2>2, <3>3, <3>5, SMTT(40)
    <3> QED BY <3>4, <3>5
  <2>3. ASSUME NEW i \in 1..Len(at), NEW j \in 1..Len(at),
               E[at[i]].kind = "file", E[at[i]].deleted, i <= j,
               j <= i + Secondaries(E[at[i]].file)
        PROVE  FreeIn(E, at[j])
    <3>1. ~(i \in a..(a + n - 1))
      BY <1>12, <2>3
    <3>2. T[at[i]] = E[at[i]]
      BY <1>11, <3>1
    <3>3. HeadsFree(T, d)
      BY <1>0
    <3>4. \A m \in 1..Len(at) : i <= m /\ m <= i + Secondaries(T[at[i]].file) => FreeIn(T, at[m])
      BY <2>3, <3>2, <3>3 DEF HeadsFree
    <3>5. CASE j \in a..(a + n - 1)
      <4>1. i < a
        BY <1>1, <2>3, <3>1, <3>5
      <4>2. Secondaries(T[at[i]].file) \in Int
        <5>1. at[i] \in 1..SlotCount
          BY <1>1, PositionFacts
        <5>2. T[at[i]].file \in DOMAIN Files
          BY <1>0, <2>3, <3>2, <5>1, ProperFacts
        <5> QED BY <5>2, FileFacts DEF Secondaries
      <4>3. \A m \in i..(a - 1) : m \in 1..Len(at) /\ i <= m /\ m <= i + Secondaries(T[at[i]].file)
        BY <1>1, <1>12, <2>3, <3>2, <3>5, <4>2, SMTT(40)
      <4>4. \A m \in i..(a - 1) : FreeIn(T, at[m])
        BY <3>4, <4>3
      <4> QED BY <1>13, <4>1, <4>4
    <3>6. CASE ~(j \in a..(a + n - 1))
      <4>1. FreeIn(T, at[j])
        BY <2>3, <3>2, <3>4
      <4> QED BY <1>11, <3>6, <4>1 DEF FreeIn
    <3> QED BY <3>5, <3>6
  <2> QED BY <2>1, <2>2, <2>3, ZenonT(60) DEF ZeroLast, HeadsFree
<1> QED BY <1>0, <1>4, <1>8, <1>9, <1>14 DEF Table

\* A file without slots is gone, and so is a directory in which no file stands.
LEMMA Vanishes ==
  ASSUME NEW T, NEW L, NEW f \in L \ {Root}, Table(T, L, f),
         \A g \in L \ {Root, f} : \A a \in Nat \ {0} : ~SetAt(T, g, f, a)
  PROVE  Table(T, L \ {f}, Root)
<1>1. ASSUME NEW g \in (L \ {f}) \ {Root}
      PROVE  \E d \in DirsIn(L \ {f}) : \E a \in Nat \ {0} : SetAt(T, g, d, a)
  <2>1. PICK d \in DirsIn(L) : \E a \in Nat \ {0} : SetAt(T, g, d, a)
    BY DEF Table
  <2>2. d # f
    BY <2>1
  <2> QED BY <2>1, <2>2 DEF DirsIn
<1>2. DirsIn(L \ {f}) \subseteq DirsIn(L)
  BY DEF DirsIn
<1> QED BY <1>1, <1>2 DEF Table

\* Who is in use, by the slots of the volume.
LEMMA LiveFacts ==
  /\ Root \in Live /\ Live \subseteq DOMAIN Files /\ LiveDirs = DirsIn(Live)
  /\ slots \in [1..SlotCount -> SlotType] =>
       \A f \in DOMAIN Files \ {Root} :
         f \in Live <=> \E p \in 1..SlotCount : IsIn(slots, p, f)
<1>1. Root \in Live /\ Live \subseteq DOMAIN Files /\ LiveDirs = DirsIn(Live)
  BY FatTreeAssumption DEF Live, LiveDirs, DirsIn
<1>2. ASSUME slots \in [1..SlotCount -> SlotType], NEW f \in DOMAIN Files \ {Root}
      PROVE  f \in Live <=> \E p \in 1..SlotCount : IsIn(slots, p, f)
  <2>1. DOMAIN slots = 1..SlotCount
    BY <1>2
  <2> QED BY <2>1 DEF Live, IsIn, IsOf
<1> QED BY <1>1, <1>2

\* A file in use stands whole in one directory, in a row.
LEMMA HomeFacts ==
  ASSUME VolumeInv, NEW f \in Live \ {Root}
  PROVE  /\ Home(f) \in LiveDirs /\ \E a \in Nat \ {0} : SetAt(slots, f, Home(f), a)
         /\ \A d \in Live : \A i \in 1..Len(Positions(d)) :
              IsOf(Positions(d)[i], f) => d = Home(f)
<1>0. /\ Table(slots, Live, Root) /\ f \in DOMAIN Files /\ Live \subseteq DOMAIN Files
      /\ LiveDirs = DirsIn(Live)
  BY LiveFacts DEF VolumeInv
<1>1. PICK d \in LiveDirs : \E a \in Nat \ {0} : SetAt(slots, f, d, a)
  BY <1>0 DEF Table
<1>2. PICK a \in Nat \ {0} : SetAt(slots, f, d, a)
  BY <1>1
<1>3. d \in Live /\ d \in DOMAIN Files
  BY <1>0 DEF DirsIn
<1>4. ASSUME NEW e \in Live, NEW i \in 1..Len(Positions(e)), IsOf(Positions(e)[i], f)
      PROVE  e = d
  <2>1. e \in DOMAIN Files /\ Positions(e)[i] \in 1..SlotCount
    BY <1>0, PositionFacts
  <2>2. IsIn(slots, Positions(e)[i], f)
    BY <1>4 DEF IsIn, IsOf
  <2>3. PICK k \in 1..Len(SetOf(f)) : Positions(e)[i] = Positions(d)[a + k - 1]
    BY <1>2, <2>1, <2>2 DEF SetAt
  <2>4. a + k - 1 \in 1..Len(Positions(d))
    BY ONLY <1>0, <1>2, <1>3, SetInside, a \in Nat \ {0}, k \in 1..Len(SetOf(f)), SMTT(40)
  <2> QED BY <1>0, <1>3, <2>3, <2>4, SlotInOne, SMTT(40)
<1>5. \E p \in ToSet(Positions(d)) : IsOf(p, f)
  <2>1. 1 \in 1..Len(SetOf(f))
    BY <1>0, SetFacts
  <2>2. a + 1 - 1 \in 1..Len(Positions(d)) /\ slots[Positions(d)[a + 1 - 1]] = SetOf(f)[1]
    BY ONLY <1>0, <1>2, <1>3, <2>1, SetInside, a \in Nat \ {0}, SMTT(40)
  <2>3. IsOf(Positions(d)[a + 1 - 1], f)
    BY <1>0, <2>1, <2>2, SetFacts DEF IsOf
  <2>4. Positions(d)[a + 1 - 1] \in ToSet(Positions(d))
    BY <1>3, <2>2, PositionFacts DEF ToSet
  <2> QED BY <2>3, <2>4
<1>6. Home(f) \in LiveDirs /\ \E p \in ToSet(Positions(Home(f))) : IsOf(p, f)
  BY <1>5 DEF Home
<1>7. Home(f) = d
  <2>1. Home(f) \in Live
    BY <1>0, <1>6 DEF DirsIn
  <2>2. PICK p \in ToSet(Positions(Home(f))) : IsOf(p, f)
    BY <1>6
  <2>3. PICK i \in 1..Len(Positions(Home(f))) : p = Positions(Home(f))[i]
    BY <1>0, <2>1, PositionFacts DEF ToSet
  <2> QED BY <1>4, <2>1, <2>2, <2>3
<1> QED BY <1>2, <1>4, <1>6, <1>7

-----------------------------------------------------------------------------
\* The place of a set, and what the volume is with it.
LEMMA PlaceFacts ==
  ASSUME NEW d \in DOMAIN Files, NEW f \in DOMAIN Files, Places(d, Len(SetOf(f))) # {}
  PROVE  LET n == Len(SetOf(f))
             a == Min(Places(d, n))
         IN  /\ a \in Nat \ {0} /\ a + n - 1 <= Len(Positions(d))
             /\ \A j \in a..(a + n - 1) : Free(Positions(d)[j])
             /\ \A b \in 1..Len(Positions(d)) :
                  /\ b + n - 1 <= Len(Positions(d))
                  /\ \A j \in b..(b + n - 1) : Free(Positions(d)[j])
                  => a <= b
<1> DEFINE n == Len(SetOf(f))
           P == Places(d, n)
           a == Min(P)
<1>1. DOMAIN Positions(d) = 1..Len(Positions(d)) /\ Len(Positions(d)) \in Nat
  BY PositionFacts
<1>2. P \subseteq Nat
  BY <1>1 DEF Places
<1>3. \E x \in P : \A y \in P : x <= y
  <2>1. P # {}
    OBVIOUS
  <2> HIDE DEF P
  <2> QED BY <1>2, <2>1, LeastNumber
<1>4. a \in P /\ \A y \in P : a <= y
  <2> HIDE DEF P
  <2> QED BY <1>3 DEF Min
<1>5. a \in 1..Len(Positions(d)) /\ a + n - 1 <= Len(Positions(d))
      /\ \A j \in a..(a + n - 1) : Free(Positions(d)[j])
  <2> HIDE DEF a
  <2> QED BY <1>1, <1>4 DEF Places
<1>6. ASSUME NEW b \in 1..Len(Positions(d)), b + n - 1 <= Len(Positions(d)),
             \A j \in b..(b + n - 1) : Free(Positions(d)[j])
      PROVE  a <= b
  <2>1. b \in P
    BY <1>1, <1>6 DEF Places
  <2> HIDE DEF a, P
  <2> QED BY <1>4, <2>1
<1>7. a \in Nat \ {0}
  <2> HIDE DEF a
  <2> QED BY <1>1, <1>5
<1> HIDE DEF a
<1> QED BY <1>5, <1>6, <1>7 DEF a

\* What is entered where.
LEMMA EnteredFacts ==
  ASSUME NEW T \in [1..SlotCount -> SlotType], NEW d \in DOMAIN Files, NEW f \in DOMAIN Files,
         Places(d, Len(SetOf(f))) # {}
  PROVE  LET n == Len(SetOf(f))
             a == Min(Places(d, n))
             E == Entered(T, f, d)
         IN  /\ E = [p \in 1..SlotCount |-> E[p]]
             /\ \A k \in 1..n : E[Positions(d)[a + k - 1]] = SetOf(f)[k]
             /\ \A p \in 1..SlotCount : (\A k \in 1..n : p # Positions(d)[a + k - 1]) => E[p] = T[p]
<1> DEFINE n  == Len(SetOf(f))
           at == Positions(d)
           a  == Min(Places(d, n))
           W  == {at[a + k - 1] : k \in DOMAIN SetOf(f)}
           of == [p \in W |-> CHOOSE k \in DOMAIN SetOf(f) : at[a + k - 1] = p]
           E  == [p \in DOMAIN T |-> IF p \in DOMAIN of THEN SetOf(f)[of[p]] ELSE T[p]]
<1>1. a \in Nat \ {0} /\ a + n - 1 <= Len(at)
  BY PlaceFacts
<1>2. n \in Nat /\ DOMAIN SetOf(f) = 1..n /\ Len(at) \in Nat
  BY SetFacts, PositionFacts
<1> HIDE DEF a, n
<1>3. \A k \in 1..n : a + k - 1 \in 1..Len(at)
  BY <1>1, <1>2
<1>4. \A k \in 1..n : at[a + k - 1] \in 1..SlotCount
  BY <1>3, PositionFacts
<1>5. \A k, l \in 1..n : at[a + k - 1] = at[a + l - 1] => k = l
  <2> TAKE k, l \in 1..n
  <2> HAVE at[a + k - 1] = at[a + l - 1]
  <2>1. a + k - 1 = a + l - 1
    BY <1>3, PositionFacts
  <2> QED BY <1>1, <1>2, <2>1
<1>6. DOMAIN of = W /\ DOMAIN T = 1..SlotCount
  OBVIOUS
<1>7. ASSUME NEW k \in 1..n PROVE E[at[a + k - 1]] = SetOf(f)[k]
  <2> DEFINE p == at[a + k - 1]
  <2>1. p \in W /\ p \in 1..SlotCount
    BY <1>2, <1>4
  <2>2. of[p] \in 1..n /\ at[a + of[p] - 1] = p
    <3>1. \E l \in 1..n : at[a + l - 1] = p
      OBVIOUS
    <3>2. of[p] = CHOOSE l \in 1..n : at[a + l - 1] = p
      BY <1>2, <2>1
    <3> HIDE DEF of, p
    <3> QED BY <3>1, <3>2
  <2>3. of[p] = k
    <3> HIDE DEF of
    <3> QED BY <1>5, <2>2
  <2> HIDE DEF of, W
  <2> QED BY <1>6, <2>1, <2>3
<1>8. ASSUME NEW p \in 1..SlotCount, \A k \in 1..n : p # at[a + k - 1] PROVE E[p] = T[p]
  <2>1. p \notin W
    BY <1>2, <1>8
  <2> HIDE DEF of, W
  <2> QED BY <1>6, <2>1
<1>9. E = [p \in 1..SlotCount |-> E[p]]
  <2>1. DOMAIN E = 1..SlotCount
    BY <1>6
  <2> QED BY <2>1
<1>10. E = Entered(T, f, d)
  BY DEF Entered, a, n
<1> HIDE DEF E
<1> QED BY <1>7, <1>8, <1>9, <1>10 DEF a, n

-----------------------------------------------------------------------------
\* A file is made.
LEMMA CreateKeeps ==
  ASSUME VolumeInv, NEW f \in DOMAIN Files \ {Root}, NEW d \in LiveDirs, Create(f, d)
  PROVE  Table(slots', Live \cup {f}, Root)
<1> DEFINE E == Cleared(f)
           n == Len(SetOf(f))
           a == Min(Places(d, n))
           M == Live \cup {f}
<1>0. /\ Table(slots, Live, Root) /\ slots \in [1..SlotCount -> SlotType]
      /\ d \in Live /\ d \in DOMAIN Files /\ Files[d].dir
      /\ f \notin Live /\ Places(d, n) # {} /\ slots' = Entered(E, f, d)
      /\ fs = "exfat" => Files[f].parts > 0
  BY LiveFacts DEF VolumeInv, Table, Create, Change, DirsIn
<1>1. \A g \in Live : ClustersApart(f, g)
  BY DEF Create, InUse, ClustersApart
<1>2. /\ E = [p \in 1..SlotCount |-> E[p]]
      /\ \A p \in 1..SlotCount : E[p] = slots[p] \/ E[p] \in {Zero, Dot}
      /\ \A p \in 1..SlotCount : (\A i \in 1..Len(Positions(f)) : p # Positions(f)[i]) => E[p] = slots[p]
      /\ Files[f].dir => /\ \A i \in 1..Len(Positions(f)) : E[Positions(f)[i]] \in {Zero, Dot}
                         /\ ZeroLast(E, f)
  <2> DEFINE at   == Positions(f)
             mine == IF Files[f].dir THEN at ELSE <<>>
  <2>1. /\ DOMAIN slots = 1..SlotCount /\ DOMAIN at = 1..Len(at) /\ Len(at) \in Nat
        /\ \A i \in 1..Len(at) : at[i] \in 1..SlotCount
        /\ \A i, j \in 1..Len(at) : at[i] = at[j] => i = j
    BY <1>0, PositionFacts
  <2>2. \A p \in 1..SlotCount :
          E[p] = IF p \notin ToSet(mine) THEN slots[p]
                 ELSE IF fs # "exfat" /\ p \in {mine[1], mine[2]} THEN Dot ELSE Zero
    BY <2>1 DEF Cleared
  <2>3. E = [p \in 1..SlotCount |-> E[p]]
    BY <2>1 DEF Cleared
  <2>4. \A p \in 1..SlotCount : E[p] = slots[p] \/ E[p] \in {Zero, Dot}
    <3> HIDE DEF E, mine
    <3> QED BY <2>2
  <2>5. ToSet(<<>>) = {}
    BY DEF ToSet
  <2>6. \A p \in 1..SlotCount : (\A i \in 1..Len(at) : p # at[i]) => E[p] = slots[p]
    <3>1. \A p : (\A i \in 1..Len(at) : p # at[i]) => p \notin ToSet(mine)
      BY <2>1, <2>5 DEF ToSet
    <3> HIDE DEF E, mine, at
    <3> QED BY <2>2, <3>1
  <2>7. ASSUME Files[f].dir
        PROVE  (\A i \in 1..Len(at) : E[at[i]] \in {Zero, Dot}) /\ ZeroLast(E, f)
    <3>1. \A i \in 1..Len(at) : at[i] \in ToSet(mine)
      BY <2>1, <2>7 DEF ToSet
    <3>2. \A i \in 1..Len(at) : E[at[i]] = IF fs # "exfat" /\ at[i] \in {at[1], at[2]} THEN Dot ELSE Zero
      <4>1. mine = at
        BY <2>7
      <4> HIDE DEF E, mine, at
      <4> QED BY <2>1, <2>2, <3>1, <4>1
    <3>3. ASSUME NEW i \in 1..Len(at), NEW j \in 1..Len(at), i < j, E[at[i]].kind = "zero"
          PROVE  E[at[j]].kind = "zero"
      <4>1. fs = "exfat" \/ (i # 1 /\ i # 2)
        <5>1. ASSUME fs # "exfat", i = 1 \/ i = 2 PROVE FALSE
          <6>1. E[at[i]] = Dot
            <7> HIDE DEF E, at
            <7> QED BY <3>2, <5>1
          <6> QED BY <3>3, <6>1 DEF Dot, Slot
        <5> QED BY <5>1
      <4>2. fs = "exfat" \/ at[j] \notin {at[1], at[2]}
        <5> HIDE DEF E, at
        <5>1. ASSUME fs # "exfat" PROVE j # 1 /\ j # 2 /\ 1 \in 1..Len(at) /\ 2 \in 1..Len(at)
          BY <2>1, <3>3, <4>1, <5>1
        <5> QED BY <2>1, <5>1
      <4>3. E[at[j]] = Zero
        <5> HIDE DEF E, at
        <5> QED BY <3>2, <4>2
      <4> QED BY <4>3 DEF Zero, Slot
    <3>4. ZeroLast(E, f)
      <4> HIDE DEF E
      <4> QED BY <3>3 DEF ZeroLast, at
    <3>5. \A i \in 1..Len(at) : E[at[i]] \in {Zero, Dot}
      <4> HIDE DEF E, at
      <4> QED BY <3>2
    <3> QED BY <3>4, <3>5
  <2> HIDE DEF E
  <2> QED BY <2>3, <2>4, <2>6, <2>7 DEF at
<1> HIDE DEF E
<1>3. Table(E, M, f)
  BY <1>0, <1>1, <1>2, Clears
<1>4. ASSUME NEW j \in 1..Len(Positions(d)) PROVE FreeIn(E, Positions(d)[j]) <=> Free(Positions(d)[j])
  <2>1. Positions(d)[j] \in 1..SlotCount
    BY <1>0, PositionFacts
  <2>2. \A i \in 1..Len(Positions(f)) : Positions(d)[j] # Positions(f)[i]
    BY <1>0, <1>1, PositionsApart DEF ClustersApart
  <2>3. E[Positions(d)[j]] = slots[Positions(d)[j]]
    BY <1>2, <2>1, <2>2
  <2> QED BY <2>3 DEF FreeIn, Free
<1>5. /\ a \in Nat \ {0} /\ a + n - 1 <= Len(Positions(d))
      /\ \A j \in a..(a + n - 1) : Free(Positions(d)[j])
      /\ \A b \in 1..Len(Positions(d)) :
           /\ b + n - 1 <= Len(Positions(d))
           /\ \A j \in b..(b + n - 1) : Free(Positions(d)[j])
           => a <= b
  BY <1>0, PlaceFacts
<1>6. n \in Nat \ {0} /\ Len(Positions(d)) \in Nat
  BY <1>0, SetFacts, PositionFacts
<1> HIDE DEF a, n
<1>7. \A j \in a..(a + n - 1) : FreeIn(E, Positions(d)[j])
  <2>1. \A j \in a..(a + n - 1) : j \in 1..Len(Positions(d))
    BY <1>5, <1>6
  <2> QED BY <1>4, <1>5, <2>1
<1>8. ASSUME NEW b \in 1..Len(Positions(d)), b + n - 1 <= Len(Positions(d)),
             \A j \in b..(b + n - 1) : FreeIn(E, Positions(d)[j])
      PROVE  a <= b
  <2>1. \A j \in b..(b + n - 1) : j \in 1..Len(Positions(d))
    BY <1>6, <1>8
  <2>2. \A j \in b..(b + n - 1) : Free(Positions(d)[j])
    BY <1>4, <1>8, <2>1
  <2> QED BY <1>5, <1>8, <2>2
<1>9. E \in [1..SlotCount -> SlotType]
  BY <1>3 DEF Table
<1>10. /\ slots' = [p \in 1..SlotCount |-> slots'[p]]
       /\ \A k \in 1..n : slots'[Positions(d)[a + k - 1]] = SetOf(f)[k]
       /\ \A p \in 1..SlotCount :
            (\A k \in 1..n : p # Positions(d)[a + k - 1]) => slots'[p] = E[p]
  <2> DEFINE F == Entered(E, f, d)
  <2>1. f \in DOMAIN Files /\ Places(d, Len(SetOf(f))) # {}
    BY <1>0 DEF n
  <2>2. /\ F = [p \in 1..SlotCount |-> F[p]]
        /\ \A k \in 1..n : F[Positions(d)[a + k - 1]] = SetOf(f)[k]
        /\ \A p \in 1..SlotCount : (\A k \in 1..n : p # Positions(d)[a + k - 1]) => F[p] = E[p]
    BY ONLY <1>0, <1>9, <2>1, EnteredFacts, ZenonT(60) DEF a, n
  <2>3. slots' = F
    BY <1>0
  <2> HIDE DEF F
  <2> QED BY <2>2, <2>3
<1>11. f \in M \ {Root} /\ d \in DirsIn(M)
  BY <1>0 DEF DirsIn
<1> HIDE DEF M
<1>12. Table(slots', M, Root)
  <2>1. FirstPlace(E, d, Len(SetOf(f)), a)
    BY <1>5, <1>7, <1>8 DEF FirstPlace, n
  <2>2. Written(E, slots', f, d, a)
    BY <1>10 DEF Written, n
  <2> QED BY ONLY <1>3, <1>5, <1>11, <2>1, <2>2, Enters
<1> QED BY <1>12 DEF M

\* A file is moved.
LEMMA MoveKeeps ==
  ASSUME VolumeInv, NEW f \in Live \ {Root}, NEW d \in LiveDirs, Move(f, d)
  PROVE  Table(slots', Live, Root)
<1> DEFINE E == Erased(f)
           n == Len(SetOf(f))
           a == Min(Places(d, n))
<1>0. /\ Table(slots, Live, Root) /\ slots \in [1..SlotCount -> SlotType]
      /\ d \in Live /\ d \in DOMAIN Files /\ f \in DOMAIN Files /\ d # Home(f)
      /\ Places(d, n) # {} /\ slots' = Entered(E, f, d) /\ d \in DirsIn(Live)
  BY LiveFacts DEF VolumeInv, Table, Move, Change, DirsIn
<1>2. E = [p \in 1..SlotCount |->
             IF slots[p].file = f THEN [slots[p] EXCEPT !.deleted = TRUE] ELSE slots[p]]
  <2>1. DOMAIN slots = 1..SlotCount
    BY <1>0
  <2> QED BY <2>1 DEF Erased
<1> HIDE DEF E
<1>3. Table(E, Live, f)
  BY <1>0, <1>2, Erases
<1>4. ASSUME NEW j \in 1..Len(Positions(d)) PROVE FreeIn(E, Positions(d)[j]) <=> Free(Positions(d)[j])
  <2> DEFINE p == Positions(d)[j]
  <2>1. p \in 1..SlotCount /\ slots[p] \in SlotType
    BY <1>0, PositionFacts
  <2>2. ~IsOf(p, f)
    BY <1>0, HomeFacts
  <2>3. CASE slots[p].file # f
    <3>1. E[p] = slots[p]
      BY <1>2, <2>1, <2>3
    <3> QED BY <3>1 DEF FreeIn, Free
  <2>4. CASE slots[p].file = f
    <3>1. slots[p].deleted
      BY <2>2, <2>4 DEF IsOf
    <3>2. E[p] = [slots[p] EXCEPT !.deleted = TRUE]
      BY <1>2, <2>1, <2>4
    <3>3. E[p].deleted
      BY <2>1, <3>2 DEF SlotType
    <3> QED BY <3>1, <3>3 DEF FreeIn, Free
  <2> QED BY <2>3, <2>4
<1>5. /\ a \in Nat \ {0} /\ a + n - 1 <= Len(Positions(d))
      /\ \A j \in a..(a + n - 1) : Free(Positions(d)[j])
      /\ \A b \in 1..Len(Positions(d)) :
           /\ b + n - 1 <= Len(Positions(d))
           /\ \A j \in b..(b + n - 1) : Free(Positions(d)[j])
           => a <= b
  BY <1>0, PlaceFacts
<1>6. n \in Nat \ {0} /\ Len(Positions(d)) \in Nat
  BY <1>0, SetFacts, PositionFacts
<1> HIDE DEF a, n
<1>7. \A j \in a..(a + n - 1) : FreeIn(E, Positions(d)[j])
  <2>1. \A j \in a..(a + n - 1) : j \in 1..Len(Positions(d))
    BY <1>5, <1>6
  <2> QED BY <1>4, <1>5, <2>1
<1>8. ASSUME NEW b \in 1..Len(Positions(d)), b + n - 1 <= Len(Positions(d)),
             \A j \in b..(b + n - 1) : FreeIn(E, Positions(d)[j])
      PROVE  a <= b
  <2>1. \A j \in b..(b + n - 1) : j \in 1..Len(Positions(d))
    BY <1>6, <1>8
  <2>2. \A j \in b..(b + n - 1) : Free(Positions(d)[j])
    BY <1>4, <1>8, <2>1
  <2> QED BY <1>5, <1>8, <2>2
<1>9. E \in [1..SlotCount -> SlotType]
  BY <1>3 DEF Table
<1>10. /\ slots' = [p \in 1..SlotCount |-> slots'[p]]
       /\ \A k \in 1..n : slots'[Positions(d)[a + k - 1]] = SetOf(f)[k]
       /\ \A p \in 1..SlotCount :
            (\A k \in 1..n : p # Positions(d)[a + k - 1]) => slots'[p] = E[p]
  <2> DEFINE F == Entered(E, f, d)
  <2>1. f \in DOMAIN Files /\ Places(d, Len(SetOf(f))) # {}
    BY <1>0 DEF n
  <2>2. /\ F = [p \in 1..SlotCount |-> F[p]]
        /\ \A k \in 1..n : F[Positions(d)[a + k - 1]] = SetOf(f)[k]
        /\ \A p \in 1..SlotCount : (\A k \in 1..n : p # Positions(d)[a + k - 1]) => F[p] = E[p]
    BY ONLY <1>0, <1>9, <2>1, EnteredFacts DEF a, n
  <2>3. slots' = F
    BY <1>0
  <2> HIDE DEF F
  <2> QED BY <2>2, <2>3
<1>11. f \in Live \ {Root} /\ d \in DirsIn(Live)
  BY <1>0
<1> QED
  <2>1. FirstPlace(E, d, Len(SetOf(f)), a)
    BY <1>5, <1>7, <1>8 DEF FirstPlace, n
  <2>2. Written(E, slots', f, d, a)
    BY <1>10 DEF Written, n
  <2> QED BY ONLY <1>3, <1>5, <1>11, <2>1, <2>2, Enters

\* A file is deleted, and a directory only when it is empty.
LEMMA DeleteKeeps ==
  ASSUME VolumeInv, NEW f \in Live \ {Root}, Delete(f)
  PROVE  Table(slots', Live \ {f}, Root)
<1>0. /\ Table(slots, Live, Root) /\ slots \in [1..SlotCount -> SlotType]
      /\ f \in DOMAIN Files /\ slots' = Erased(f) /\ \A g \in Live \ {Root} : Home(g) # f
      /\ Live \subseteq DOMAIN Files
  BY LiveFacts DEF VolumeInv, Table, Delete, Change
<1>2. slots' = [p \in 1..SlotCount |->
                  IF slots[p].file = f THEN [slots[p] EXCEPT !.deleted = TRUE] ELSE slots[p]]
  <2>1. DOMAIN slots = 1..SlotCount
    BY <1>0
  <2> QED BY <1>0, <2>1 DEF Erased
<1>3. Table(slots', Live, f)
  BY <1>0, <1>2, Erases
<1>4. ASSUME NEW g \in Live \ {Root, f}, NEW a \in Nat \ {0}, SetAt(slots', g, f, a)
      PROVE  FALSE
  <2>0. g \in DOMAIN Files
    BY <1>0
  <2>1. 1 \in 1..Len(SetOf(g))
    BY <2>0, SetFacts
  <2>2. /\ a + 1 - 1 \in 1..Len(Positions(f)) /\ Positions(f)[a + 1 - 1] \in 1..SlotCount
        /\ slots'[Positions(f)[a + 1 - 1]] = SetOf(g)[1]
    BY ONLY <1>0, <1>4, <2>0, <2>1, SetInside, a \in Nat \ {0}, SMTT(40)
  <2> DEFINE p == Positions(f)[a + 1 - 1]
  <2>3. SetOf(g)[1].file = g /\ ~SetOf(g)[1].deleted
    BY <2>0, <2>1, SetFacts
  <2>4. slots[p].file = g /\ ~slots[p].deleted
    <3>1. slots[p] \in SlotType /\ p \in 1..SlotCount
      BY <1>0, <2>2
    <3>2. slots[p].file # f
      <4>1. ASSUME slots[p].file = f PROVE FALSE
        <5>1. slots'[p] = [slots[p] EXCEPT !.deleted = TRUE]
          BY <1>2, <3>1, <4>1
        <5>2. slots'[p].deleted
          BY <3>1, <5>1 DEF SlotType
        <5> QED BY <2>2, <2>3, <5>2
      <4> QED BY <4>1
    <3>3. slots'[p] = slots[p]
      BY <1>2, <3>1, <3>2
    <3> QED BY <2>2, <2>3, <3>3
  <2>5. f = Home(g)
    <3>1. IsOf(p, g)
      BY <2>4 DEF IsOf
    <3> QED BY <2>2, <3>1, HomeFacts
  <2> QED BY <1>0, <2>5
<1> QED BY <1>3, <1>4, Vanishes

\* A new volume has no file.
LEMMA NewVolume == TreeInit => VolumeInv
<1> SUFFICES ASSUME TreeInit PROVE VolumeInv
  OBVIOUS
<1> DEFINE first == (Files[Root].clusters[1] - 2) * SlotsPerCluster + 1
<1>1. /\ fs \in {"fat16", "fat32", "exfat"}
      /\ slots = [p \in 1..SlotCount |-> IF p = first THEN Label ELSE Zero]
  BY DEF TreeInit, RootEntry
<1>2. Root \in DOMAIN Files /\ Root \in Nat \ {0}
  BY FatTreeAssumption, FilesAssumption
<1>3. \A p \in 1..SlotCount : slots[p] \in {Zero, Label}
  BY <1>1
<1>4. Zero.file = 0 /\ Label.file = 0 /\ Zero.kind = "zero"
      /\ Label.kind = "label" /\ Zero.deleted = FALSE
  BY DEF Zero, Label, Slot
<1>5. slots \in [1..SlotCount -> SlotType] /\ \A p \in 1..SlotCount : Proper(slots[p])
  <2>1. \A p \in 1..SlotCount : Proper(slots[p])
    BY <1>3 DEF Proper
  <2>2. \A p \in 1..SlotCount : slots[p] \in SlotType
    BY <2>1, ProperFacts
  <2>3. slots = [p \in 1..SlotCount |-> slots[p]]
    BY <1>1
  <2> QED BY <2>1, <2>2, <2>3
<1>6. ASSUME NEW p \in 1..SlotCount, NEW f \in DOMAIN Files PROVE ~IsIn(slots, p, f)
  <2>1. f # 0
    BY FilesAssumption
  <2> QED BY <1>3, <1>4, <2>1 DEF IsIn
<1>7. Live = {Root}
  BY <1>5, <1>6, LiveFacts
<1>8. ZeroLast(slots, Root)
  <2> DEFINE at == Positions(Root)
  <2>1. /\ Len(at) \in Nat /\ \A i, j \in 1..Len(at) : at[i] = at[j] => i = j
        /\ \A i \in 1..Len(at) : at[i] \in 1..SlotCount
    BY <1>2, PositionFacts
  <2>2. ASSUME 1 \in 1..Len(at) PROVE at[1] = first
    <3>1. at[1] = (ClusterAt(Root, 1) - 2) * SlotsPerCluster + RestAt(1) + 1
      BY <1>2, <2>2, PositionFacts
    <3>2. (1 - 1) \div SlotsPerCluster = 0 /\ (1 - 1) % SlotsPerCluster = 0
      <4>1. SlotsPerCluster \in Nat \ {0}
        BY FatTreeAssumption
      <4> DEFINE S == SlotsPerCluster
      <4> HIDE DEF S
      <4>2. 0 \div S \in Nat /\ 0 % S \in 0..(S - 1) /\ 0 = (0 \div S) * S + (0 % S)
        BY <4>1, Divide DEF S
      <4>3. S \in Nat \ {0} /\ 0 * S = 0
        BY <4>1 DEF S
      <4>4. 0 \div S = 0 /\ 0 % S = 0
        BY <4>2, <4>3, SameQuotient, 0 \in Int, 0 \in 0..(S - 1)
      <4> QED BY <4>4 DEF S
    <3>3. ClusterAt(Root, 1) = Files[Root].clusters[1] /\ RestAt(1) = 0
      BY <3>2 DEF ClusterAt, RestAt
    <3> DEFINE x == (Files[Root].clusters[1] - 2) * SlotsPerCluster
    <3>4. x \in Int
      <4>1. ClusterAt(Root, 1) \in 2..LastCluster /\ SlotsPerCluster \in Nat /\ LastCluster \in Nat
        BY <1>2, <2>2, PositionFacts, FatTreeAssumption
      <4>2. Files[Root].clusters[1] - 2 \in Int
        BY <3>3, <4>1
      <4> DEFINE y == Files[Root].clusters[1] - 2
      <4> HIDE DEF y
      <4>3. y \in Int => y * SlotsPerCluster \in Int
        BY <4>1
      <4> QED BY <4>2, <4>3 DEF y
    <3>5. at[1] = x + 0 + 1
      BY <3>1, <3>3
    <3> HIDE DEF x
    <3>6. at[1] = x + 1
      BY <3>4, <3>5
    <3> QED BY <3>6 DEF x
  <2>3. ASSUME NEW i \in 1..Len(at), NEW j \in 1..Len(at), i < j, slots[at[i]].kind = "zero"
        PROVE  slots[at[j]].kind = "zero"
    <3>1. 1 \in 1..Len(at) /\ j # 1
      BY <2>1, <2>3
    <3>2. at[j] # first /\ at[j] \in 1..SlotCount
      BY <2>1, <2>2, <2>3, <3>1
    <3>3. slots[at[j]] = Zero
      <4> HIDE DEF first, at
      <4> QED BY <1>1, <3>2
    <3> QED BY <1>4, <3>3
  <2> QED BY <2>3 DEF ZeroLast
<1>9. HeadsFree(slots, Root)
  <2>1. \A i \in 1..Len(Positions(Root)) : slots[Positions(Root)[i]].kind # "file"
    <3>1. \A i \in 1..Len(Positions(Root)) : Positions(Root)[i] \in 1..SlotCount
      BY <1>2, PositionFacts
    <3> QED BY <1>3, <1>4, <3>1
  <2> QED BY <2>1 DEF HeadsFree
<1>10. Table(slots, {Root}, Root)
  <2>1. \A d \in DirsIn({Root}) : d = Root
    BY DEF DirsIn
  <2> QED BY <1>2, <1>5, <1>6, <1>8, <1>9, <2>1 DEF Table
<1> QED BY <1>1, <1>7, <1>10 DEF VolumeInv

\* What a volume is depends on its file system and its slots.
LEMMA VolumeNext ==
  ASSUME fs \in {"fat16", "fat32", "exfat"}, fs' = fs,
         NEW L, L \subseteq DOMAIN Files, Table(slots', L, Root)
  PROVE  VolumeInv' /\ Live' = L
<1>1. /\ \A f : SetOf(f)' = SetOf(f)
      /\ \A T, p, f : IsIn(T, p, f)' <=> IsIn(T, p, f)
  BY DEF SetOf, IsIn
<1>2. DOMAIN slots' = 1..SlotCount
  BY DEF Table
<1>3. Live' = L
  <2>1. Root \in L /\ \A f \in DOMAIN Files \ {Root} :
          f \in L <=> \E p \in 1..SlotCount : IsIn(slots', p, f)
    BY DEF Table
  <2>2. Live' = {Root} \cup {f \in DOMAIN Files : \E p \in 1..SlotCount : IsIn(slots', p, f)}
    BY <1>2, SMTT(40) DEF Live, IsOf, IsIn
  <2> QED BY <2>1, <2>2
<1>4. Table(slots', L, Root) <=> Table(slots, Live, Root)'
  BY <1>3 DEF Table, SetAt, SetOf, Proper, IsIn, ZeroLast, HeadsFree, FreeIn, DirsIn, ClustersApart
<1> QED BY <1>3, <1>4 DEF VolumeInv

\* Each change keeps the volume in order; the image and the tree change nothing.
LEMMA VolumeStep == VolumeInv /\ [TreeNext]_tree_vars => VolumeInv'
<1> SUFFICES ASSUME VolumeInv, [TreeNext]_tree_vars PROVE VolumeInv'
  OBVIOUS
<1>0. fs \in {"fat16", "fat32", "exfat"} /\ Table(slots, Live, Root) /\ Live \subseteq DOMAIN Files
  BY LiveFacts DEF VolumeInv
<1>1. ASSUME NEW f \in DOMAIN Files \ {Root}, NEW d \in LiveDirs, Create(f, d) PROVE VolumeInv'
  <2>1. Table(slots', Live \cup {f}, Root) /\ fs' = fs
    BY <1>1, CreateKeeps DEF Create, Change
  <2> QED BY <1>0, <2>1, VolumeNext
<1>2. ASSUME NEW f \in Live \ {Root}, NEW d \in LiveDirs, Move(f, d) PROVE VolumeInv'
  <2>1. Table(slots', Live, Root) /\ fs' = fs
    BY <1>2, MoveKeeps DEF Move, Change
  <2> QED BY <1>0, <2>1, VolumeNext
<1>3. ASSUME NEW f \in Live \ {Root}, Delete(f) PROVE VolumeInv'
  <2>1. Table(slots', Live \ {f}, Root) /\ fs' = fs
    BY <1>3, DeleteKeeps DEF Delete, Change
  <2> QED BY <1>0, <2>1, VolumeNext
<1>4. ASSUME UNCHANGED volume PROVE VolumeInv'
  <2>1. fs' = fs /\ slots' = slots
    BY <1>4 DEF volume
  <2> QED BY <1>0, <2>1, VolumeNext
<1>5. CASE Read \/ FollowChain \/ AddRecord \/ SkipDeleted \/ TakeEntry \/ LeaveDirectory
  <2>1. UNCHANGED volume
    BY <1>5 DEF Read, FollowChain, AddRecord, SkipDeleted, TakeEntry, LeaveDirectory
  <2> QED BY <1>4, <2>1
<1>6. CASE UNCHANGED tree_vars
  <2>1. UNCHANGED volume
    BY <1>6 DEF tree_vars
  <2> QED BY <1>4, <2>1
<1> QED BY <1>0, <1>1, <1>2, <1>3, <1>5, <1>6 DEF TreeNext

\* The directory slots of a volume stay in order whatever is made, moved and
\* deleted: the slots of a file in use stand whole and in a row in one directory
\* and nowhere else, no slot behind a free one that was never used is in use, and
\* none that a deleted entry set counts as its own.
THEOREM FatVolumeInOrder == TreeSpec => []VolumeInv
BY NewVolume, VolumeStep, PTL DEF TreeSpec

-----------------------------------------------------------------------------
(* The parser of FAT, slot by slot.                                        *)

PartType == [file : Nat, part : Nat]

\* An entry has the first cluster of its file.
EntryRecord ==
  {e \in [file : DOMAIN Files, dir : BOOLEAN, deleted : BOOLEAN, name : Seq(PartType),
          start_cluster : Nat, contiguous : BOOLEAN] :
     /\ e.start_cluster = IF Files[e.file].clusters = <<>> THEN 0 ELSE Files[e.file].clusters[1]
     /\ e.contiguous = Files[e.file].contiguous}

SlotSeq(data) == data \in Seq(SlotType) /\ \A i \in 1..Len(data) : Proper(data[i])

\* An entry, by its fields.
LEMMA DirEntryFacts ==
  ASSUME NEW f \in DOMAIN Files, NEW dir \in BOOLEAN, NEW deleted \in BOOLEAN,
         NEW name \in Seq(PartType)
  PROVE  LET e == DirEntry(f, dir, deleted, name)
         IN  /\ e \in EntryRecord /\ e.file = f /\ e.dir = dir /\ e.deleted = deleted
             /\ e.name = name
<1>1. Files[f].contiguous \in BOOLEAN /\ Files[f].clusters \in Seq(Nat)
  BY FileFacts
<1>2. (IF Files[f].clusters = <<>> THEN 0 ELSE Files[f].clusters[1]) \in Nat
  BY <1>1
<1> QED BY <1>1, <1>2 DEF DirEntry, EntryRecord

\* What a part makes of a long name.
LEMMA WithPartFacts ==
  ASSUME NEW parts \in Seq(Seq(PartType)), NEW s \in SlotType, s.file \in DOMAIN Files
  PROVE  /\ WithPart(parts, s) \in Seq(Seq(PartType))
         /\ Len(WithPart(parts, s)) = IF s.seq = Files[s.file].parts THEN s.seq ELSE Len(parts)
         /\ \A k \in 1..Len(WithPart(parts, s)) :
              WithPart(parts, s)[k] = IF k = s.seq THEN <<Part(s.file, s.seq)>>
                                      ELSE IF s.seq = Files[s.file].parts THEN <<>> ELSE parts[k]
<1> DEFINE list == IF s.seq = Files[s.file].parts THEN [k \in 1..s.seq |-> <<>>] ELSE parts
           p    == <<Part(s.file, s.seq)>>
           r    == IF s.seq \in DOMAIN list THEN [list EXCEPT ![s.seq] = p] ELSE list
           n    == Len(list)
<1>1. s.seq \in Nat /\ s.file \in Nat
  BY DEF SlotType
<1>2. p \in Seq(PartType)
  <2>1. Part(s.file, s.seq) \in PartType
    BY <1>1 DEF Part, PartType
  <2> DEFINE q == Part(s.file, s.seq)
  <2> HIDE DEF q
  <2> QED BY <2>1 DEF q
<1>3. /\ list \in Seq(Seq(PartType)) /\ n = (IF s.seq = Files[s.file].parts THEN s.seq ELSE Len(parts))
      /\ \A k \in 1..n : list[k] = IF s.seq = Files[s.file].parts THEN <<>> ELSE parts[k]
  <2>1. CASE s.seq = Files[s.file].parts
    <3> DEFINE l == [k \in 1..s.seq |-> <<>>]
    <3>1. l = [k \in 1..s.seq |-> l[k]] /\ \A k \in 1..s.seq : l[k] \in Seq(PartType) /\ l[k] = <<>>
      OBVIOUS
    <3> HIDE DEF l
    <3>2. l \in Seq(Seq(PartType)) /\ Len(l) = s.seq
      BY <1>1, <3>1, IsSequence
    <3>3. list = l
      BY <2>1 DEF l
    <3> QED BY <2>1, <3>1, <3>2, <3>3
  <2>2. CASE s.seq # Files[s.file].parts
    BY <2>2
  <2> QED BY <2>1, <2>2
<1>4. WithPart(parts, s) = r
  BY DEF WithPart
<1> HIDE DEF list, p
<1>5. n \in Nat /\ DOMAIN list = 1..n
  BY <1>3
<1>6. /\ DOMAIN r = 1..n /\ r = [k \in 1..n |-> r[k]]
      /\ \A k \in 1..n : r[k] = IF k = s.seq THEN p ELSE list[k]
  <2>1. CASE s.seq \in 1..n
    <3> DEFINE q == [list EXCEPT ![s.seq] = p]
    <3>1. DOMAIN q = 1..n /\ \A k \in 1..n : q[k] = IF k = s.seq THEN p ELSE list[k]
      BY <1>5
    <3>2. q = [k \in 1..n |-> q[k]]
      BY <1>5
    <3>3. r = q
      BY <1>5, <2>1
    <3> HIDE DEF q, r
    <3> QED BY <3>1, <3>2, <3>3
  <2>2. CASE s.seq \notin 1..n
    <3>1. r = list
      BY <1>5, <2>2
    <3>2. list = [k \in 1..n |-> list[k]]
      BY <1>3, <1>5
    <3> HIDE DEF r
    <3> QED BY <1>5, <2>2, <3>1, <3>2
  <2> QED BY <2>1, <2>2
<1>7. \A k \in 1..n : r[k] \in Seq(PartType)
  <2>1. \A k \in 1..n : list[k] \in Seq(PartType)
    BY <1>3, <1>5
  <2> QED BY <1>2, <1>6, <2>1
<1> HIDE DEF r
<1>8. r \in Seq(Seq(PartType)) /\ Len(r) = n
  BY <1>5, <1>6, <1>7, IsSequence
<1> QED BY <1>3, <1>4, <1>6, <1>8 DEF p

FatWalkType == [ended : BOOLEAN, lfn_parts : Seq(Seq(PartType)), entries : Seq(EntryRecord)]

\* The entry that a short slot makes of the parts before it.
LEMMA FatEntryFacts ==
  ASSUME NEW parts \in Seq(Seq(PartType)), NEW s \in SlotType, s.file \in DOMAIN Files
  PROVE  LET e == FatEntry(s, parts)
         IN  /\ e \in EntryRecord /\ e.file = s.file /\ e.dir = Files[s.file].dir
             /\ e.deleted = s.deleted /\ FlattenSeq(parts) \in Seq(PartType)
             /\ e.name = IF FlattenSeq(parts) # <<>> THEN FlattenSeq(parts) ELSE <<Part(s.file, 0)>>
<1> DEFINE long == FlattenSeq(parts)
           name == IF long # <<>> THEN long ELSE <<Part(s.file, 0)>>
<1>1. long \in Seq(PartType)
  <2>1. <<>> \in Seq(PartType)
    OBVIOUS
  <2> QED BY <2>1, FlattenAppend
<1>2. <<Part(s.file, 0)>> \in Seq(PartType)
  <2>1. Part(s.file, 0) \in PartType
    BY DEF Part, PartType, SlotType
  <2> DEFINE q == Part(s.file, 0)
  <2> HIDE DEF q
  <2> QED BY <2>1 DEF q
<1>3. name \in Seq(PartType)
  BY <1>1, <1>2
<1>4. Files[s.file].dir \in BOOLEAN /\ s.deleted \in BOOLEAN
  BY FileFacts DEF SlotType
<1>5. FatEntry(s, parts) = DirEntry(s.file, Files[s.file].dir, s.deleted, name)
  BY DEF FatEntry
<1> HIDE DEF name, long
<1> DEFINE e == DirEntry(s.file, Files[s.file].dir, s.deleted, name)
<1>6. /\ e \in EntryRecord /\ e.file = s.file /\ e.dir = Files[s.file].dir
      /\ e.deleted = s.deleted /\ e.name = name
  BY <1>3, <1>4, DirEntryFacts
<1>7. FatEntry(s, parts) = e
  BY <1>5
<1> HIDE DEF e
<1> QED BY <1>1, <1>6, <1>7 DEF name, long

\* What a slot changes.
LEMMA FatSlotFacts ==
  ASSUME NEW walk \in FatWalkType, NEW s, Proper(s)
  PROVE  LET r == FatSlot(walk, s)
         IN  /\ r \in FatWalkType
             /\ r.ended <=> walk.ended \/ s.kind = "zero"
             /\ r.entries = IF ~r.ended /\ s.kind = "short"
                            THEN Append(walk.entries, FatEntry(s, walk.lfn_parts)) ELSE walk.entries
             /\ ~r.ended => r.lfn_parts = IF s.kind = "lfn" /\ ~s.deleted
                                          THEN WithPart(walk.lfn_parts, s) ELSE <<>>
<1> DEFINE r == FatSlot(walk, s)
<1>0. /\ s \in SlotType /\ s.kind \in Kinds
      /\ s.kind \in {"lfn", "short"} => s.file \in DOMAIN Files
  <2>1. s \in SlotType /\ (s.kind \notin {"zero", "label", "dot"} => s.file \in DOMAIN Files)
    BY ProperFacts
  <2> QED BY <2>1 DEF SlotType
<1>1. /\ walk.ended \in BOOLEAN /\ walk.lfn_parts \in Seq(Seq(PartType))
      /\ walk.entries \in Seq(EntryRecord)
  BY DEF FatWalkType
<1>2. <<>> \in Seq(Seq(PartType))
  OBVIOUS
<1>3. CASE walk.ended \/ s.kind = "zero"
  <2>1. r = [walk EXCEPT !.ended = TRUE]
    BY <1>3 DEF FatSlot
  <2>2. r \in FatWalkType /\ r.ended /\ r.entries = walk.entries
    BY <2>1 DEF FatWalkType
  <2> HIDE DEF r
  <2> QED BY <1>3, <2>2 DEF r
<1>4. CASE ~(walk.ended \/ s.kind = "zero") /\ s.kind = "lfn" /\ ~s.deleted
  <2> DEFINE w == WithPart(walk.lfn_parts, s)
  <2>1. r = [walk EXCEPT !.lfn_parts = w]
    BY <1>4 DEF FatSlot
  <2>2. w \in Seq(Seq(PartType))
    BY <1>0, <1>1, <1>4, WithPartFacts
  <2> HIDE DEF w
  <2>3. r \in FatWalkType /\ r.ended = walk.ended /\ r.entries = walk.entries /\ r.lfn_parts = w
    BY <2>1, <2>2 DEF FatWalkType
  <2> HIDE DEF r
  <2> QED BY <1>4, <2>3 DEF r, w
<1>5. CASE ~(walk.ended \/ s.kind = "zero") /\ s.kind = "short"
  <2> DEFINE e == FatEntry(s, walk.lfn_parts)
             a == Append(walk.entries, e)
  <2>1. r = [walk EXCEPT !.entries = a, !.lfn_parts = <<>>]
    BY <1>5 DEF FatSlot
  <2>2. e \in EntryRecord
    BY <1>0, <1>1, <1>5, FatEntryFacts
  <2>3. a \in Seq(EntryRecord)
    <3> HIDE DEF e
    <3> QED BY <1>1, <2>2
  <2> HIDE DEF a
  <2>4. r \in FatWalkType /\ r.ended = walk.ended /\ r.entries = a /\ r.lfn_parts = <<>>
    BY <1>2, <2>1, <2>3 DEF FatWalkType
  <2> HIDE DEF r
  <2> QED BY <1>5, <2>4 DEF r, a
<1>6. CASE ~(walk.ended \/ s.kind = "zero") /\ ~(s.kind = "lfn" /\ ~s.deleted) /\ s.kind # "short"
  <2>1. r = [walk EXCEPT !.lfn_parts = <<>>]
    BY <1>6 DEF FatSlot
  <2>2. r \in FatWalkType /\ r.ended = walk.ended /\ r.entries = walk.entries /\ r.lfn_parts = <<>>
    BY <1>2, <2>1 DEF FatWalkType
  <2> HIDE DEF r
  <2> QED BY <1>6, <2>2 DEF r
<1> QED BY <1>3, <1>4, <1>5, <1>6

\* The states of the parser, by how many slots it has seen.
FatWalk(data) ==
  CHOOSE walk : walk =
    [i \in 0..Len(data) |->
       IF i = 0 THEN [ended |-> FALSE, lfn_parts |-> <<>>, entries |-> <<>>]
       ELSE FatSlot(walk[i - 1], data[i])]

\* The walk of FAT over the slots exists and has its type at every slot.
LEMMA FatWalkFacts ==
  ASSUME NEW data, SlotSeq(data)
  PROVE  LET w == FatWalk(data)
         IN  /\ FatEntries(data) = w[Len(data)].entries
             /\ w[0] = [ended |-> FALSE, lfn_parts |-> <<>>, entries |-> <<>>]
             /\ \A i \in 1..Len(data) : w[i] = FatSlot(w[i - 1], data[i])
             /\ \A i \in 0..Len(data) : w[i] \in FatWalkType
<1> DEFINE L == Len(data)
           zero == [ended |-> FALSE, lfn_parts |-> <<>>, entries |-> <<>>]
           Is(g, m) == g = [i \in 0..m |-> IF i = 0 THEN zero ELSE FatSlot(g[i - 1], data[i])]
           M == {m \in Nat : \E g : Is(g, m)}
<1>0. L \in Nat
  BY DEF SlotSeq
<1>1. FatWalk(data) = CHOOSE g : Is(g, L)
  BY DEF FatWalk
<1>2. FatEntries(data) = FatWalk(data)[L].entries
  BY DEF FatEntries, FatWalk
<1>z. zero \in FatWalkType
  <2>1. <<>> \in Seq(Seq(PartType)) /\ <<>> \in Seq(EntryRecord)
    OBVIOUS
  <2> QED BY <2>1 DEF FatWalkType
<1> HIDE DEF zero
<1>3. 0 \in M
  <2>1. Is([i \in 0..0 |-> zero], 0)
    OBVIOUS
  <2> QED BY <2>1
<1>4. ASSUME NEW m \in M PROVE m + 1 \in M
  <2>1. m \in Nat
    OBVIOUS
  <2>2. PICK g : Is(g, m)
    OBVIOUS
  <2> DEFINE last == FatSlot(g[m], data[m + 1])
             h == [i \in 0..(m + 1) |-> IF i <= m THEN g[i] ELSE last]
  <2>3. \A i \in 0..m : g[i] = IF i = 0 THEN zero ELSE FatSlot(g[i - 1], data[i])
    BY <2>2
  <2>4. ASSUME NEW i \in 0..(m + 1)
        PROVE  h[i] = IF i = 0 THEN zero ELSE FatSlot(h[i - 1], data[i])
    <3>1. CASE i = 0
      BY <2>1, <2>3, <3>1
    <3>2. CASE i \in 1..m
      <4>1. h[i] = g[i] /\ h[i - 1] = g[i - 1]
        BY <2>1, <3>2
      <4> QED BY <4>1, <2>3, <2>1, <3>2
    <3>3. CASE i = m + 1
      <4>1. h[i] = last /\ h[i - 1] = g[m] /\ i # 0
        BY <2>1, <3>3
      <4> QED BY <3>3, <4>1
    <3> QED BY <2>1, <3>1, <3>2, <3>3
  <2>5. Is(h, m + 1)
    BY <2>4
  <2> HIDE DEF h, Is
  <2> QED BY <2>1, <2>5
<1>5. M = Nat
  <2>1. M \in SUBSET Nat
    OBVIOUS
  <2> HIDE DEF M
  <2> QED BY <1>3, <1>4, <2>1, Induction
<1>6. \E g : Is(g, L)
  <2> HIDE DEF Is, L
  <2> QED BY <1>0, <1>5
<1> DEFINE w == FatWalk(data)
<1>7. Is(w, L)
  <2> HIDE DEF Is, L
  <2> QED BY <1>1, <1>6
<1> HIDE DEF w
<1>8. w[0] = zero /\ \A i \in 1..L : w[i] = FatSlot(w[i - 1], data[i])
  BY <1>0, <1>7
<1> HIDE DEF Is
<1> DEFINE N == {n \in Nat : n <= L => w[n] \in FatWalkType}
<1>9. 0 \in N
  BY <1>8, <1>z
<1>10. ASSUME NEW n \in N PROVE n + 1 \in N
  <2>1. n \in Nat /\ (n + 1 <= L => n <= L /\ n + 1 \in 1..L /\ (n + 1) - 1 = n)
    BY <1>0
  <2>2. n + 1 <= L => w[n + 1] \in FatWalkType
    <3> SUFFICES ASSUME n + 1 <= L PROVE w[n + 1] \in FatWalkType
      OBVIOUS
    <3>1. w[n] \in FatWalkType /\ Proper(data[n + 1])
      BY <2>1 DEF SlotSeq
    <3>2. w[n + 1] = FatSlot(w[n], data[n + 1])
      BY <1>8, <2>1
    <3> QED BY <3>1, <3>2, FatSlotFacts
  <2> QED BY <2>1, <2>2
<1>11. N = Nat
  <2>1. N \in SUBSET Nat
    OBVIOUS
  <2> HIDE DEF N
  <2> QED BY <1>9, <1>10, <2>1, Induction
<1>12. \A i \in 0..L : w[i] \in FatWalkType
  BY <1>0, <1>11
<1> QED BY <1>2, <1>8, <1>12 DEF w, zero

\* Every entry of a directory is that of a short slot before the end.
LEMMA FatEntryOfSlot ==
  ASSUME NEW data, SlotSeq(data)
  PROVE  /\ FatEntries(data) \in Seq(EntryRecord)
         /\ \A j \in 1..Len(FatEntries(data)) : \E m \in 1..Len(data) :
              /\ data[m].kind = "short" /\ ~FatWalk(data)[m].ended
              /\ FatEntries(data)[j] = FatEntry(data[m], FatWalk(data)[m - 1].lfn_parts)
<1> DEFINE w == FatWalk(data)
           L == Len(data)
           Of(e, m) == /\ data[m].kind = "short" /\ ~w[m].ended
                       /\ e = FatEntry(data[m], w[m - 1].lfn_parts)
           Known(n) == \A j \in 1..Len(w[n].entries) : \E m \in 1..n : Of(w[n].entries[j], m)
           N == {n \in Nat : n <= L => Known(n)}
<1>0. /\ L \in Nat /\ FatEntries(data) = w[L].entries
      /\ w[0].entries = <<>> /\ \A i \in 1..L : w[i] = FatSlot(w[i - 1], data[i])
      /\ \A i \in 0..L : w[i] \in FatWalkType
  BY FatWalkFacts DEF SlotSeq
<1> HIDE DEF w
<1>1. 0 \in N
  BY <1>0
<1>2. ASSUME NEW n \in N, n + 1 <= L
      PROVE  Known(n + 1)
  <2>1. n \in Nat /\ n <= L /\ n \in 0..L /\ n + 1 \in 1..L /\ (n + 1) - 1 = n
    BY <1>0, <1>2
  <2>2. \A j \in 1..Len(w[n].entries) : \E m \in 1..(n + 1) : Of(w[n].entries[j], m)
    <3>1. \A j \in 1..Len(w[n].entries) : \E m \in 1..n : Of(w[n].entries[j], m)
      BY <2>1
    <3>2. \A m \in 1..n : m \in 1..(n + 1)
      BY <2>1
    <3> HIDE DEF Of
    <3> QED BY <3>1, <3>2
  <2>3. w[n + 1] = FatSlot(w[n], data[n + 1]) /\ w[n] \in FatWalkType /\ Proper(data[n + 1])
    BY <1>0, <2>1 DEF SlotSeq
  <2>4. w[n + 1].entries = IF ~w[n + 1].ended /\ data[n + 1].kind = "short"
                           THEN Append(w[n].entries, FatEntry(data[n + 1], w[n].lfn_parts))
                           ELSE w[n].entries
    BY <2>3, FatSlotFacts
  <2>5. CASE ~w[n + 1].ended /\ data[n + 1].kind = "short"
    <3> DEFINE e == FatEntry(data[n + 1], w[n].lfn_parts)
    <3>1. Of(e, n + 1)
      BY <2>1, <2>5
    <3>2. w[n].entries \in Seq(EntryRecord)
      BY <2>3 DEF FatWalkType
    <3>3. w[n + 1].entries = Append(w[n].entries, e)
      BY <2>4, <2>5
    <3> HIDE DEF e, Of
    <3> DEFINE a == w[n].entries
    <3>4. \A j \in 1..Len(Append(a, e)) : Append(a, e)[j] = e \/ (j \in 1..Len(a) /\ Append(a, e)[j] = a[j])
      BY <3>2
    <3>5. ASSUME NEW j \in 1..Len(Append(a, e))
          PROVE  \E m \in 1..(n + 1) : Of(Append(a, e)[j], m)
      <4>1. n + 1 \in 1..(n + 1)
        BY <2>1
      <4>2. CASE Append(a, e)[j] = e
        BY <3>1, <4>1, <4>2
      <4>3. CASE j \in 1..Len(a) /\ Append(a, e)[j] = a[j]
        BY <2>2, <4>3
      <4> QED BY <3>4, <4>2, <4>3
    <3> QED BY <3>3, <3>5
  <2>6. CASE ~(~w[n + 1].ended /\ data[n + 1].kind = "short")
    <3>1. w[n + 1].entries = w[n].entries
      BY <2>4, <2>6
    <3> HIDE DEF Of
    <3> QED BY <2>2, <3>1
  <2> QED BY <2>5, <2>6
<1>3. \A n \in N : n + 1 \in N
  <2> HIDE DEF Known
  <2> QED BY <1>2
<1>4. N = Nat
  <2>1. N \in SUBSET Nat
    OBVIOUS
  <2> HIDE DEF N
  <2> QED BY <1>1, <1>3, <2>1, Induction
<1>5. \A j \in 1..Len(w[L].entries) : \E m \in 1..L : Of(w[L].entries[j], m)
  <2>1. Known(L)
    <3> HIDE DEF Known
    <3> QED BY <1>0, <1>4
  <2> QED BY <2>1
<1>6. w[L].entries \in Seq(EntryRecord)
  BY <1>0 DEF FatWalkType
<1> QED BY <1>0, <1>5, <1>6 DEF w

-----------------------------------------------------------------------------
(* The parser of exFAT, slot by slot.                                      *)

\* Of some numbers up to n there is a greatest.
LEMMA MaxFacts ==
  ASSUME NEW n \in Nat, NEW T \in SUBSET (0..n), T # {}
  PROVE  Max(T) \in T /\ \A y \in T : y <= Max(T)
<1> DEFINE U == {x \in Nat : n - x \in T}
<1>1. \E x \in U : \A y \in U : x <= y
  <2>1. PICK t \in T : TRUE
    OBVIOUS
  <2>2. t \in 0..n /\ n - (n - t) = t
    OBVIOUS
  <2>3. n - t \in U
    BY <2>2
  <2>4. U \in SUBSET Nat /\ U # {}
    BY <2>3
  <2> HIDE DEF U
  <2> QED BY <2>4, LeastNumber
<1>2. PICK x \in U : \A y \in U : x <= y
  BY <1>1
<1>3. ASSUME NEW y \in T PROVE y <= n - x
  <2>1. y \in 0..n /\ n - (n - y) = y /\ n - y \in Nat
    OBVIOUS
  <2>2. x <= n - y
    BY <1>2, <2>1
  <2> QED BY <2>1, <2>2
<1>4. \E z \in T : \A y \in T : z >= y
  <2>1. \A y \in T : y \in Nat
    OBVIOUS
  <2> QED BY <1>3, <2>1
<1>5. Max(T) \in T /\ \A y \in T : Max(T) >= y
  BY <1>4 DEF Max
<1>6. \A y \in T : y \in Nat
  OBVIOUS
<1> QED BY <1>5, <1>6

\* The lesser of two numbers.
LEMMA MinOfTwo ==
  ASSUME NEW a \in Int, NEW b \in Int
  PROVE  Min({a, b}) = IF a <= b THEN a ELSE b
<1> DEFINE m == IF a <= b THEN a ELSE b
<1>1. m \in {a, b} /\ \A y \in {a, b} : m =< y
  OBVIOUS
<1>2. \A x \in {a, b} : (\A y \in {a, b} : x =< y) => x = m
  OBVIOUS
<1> HIDE DEF m
<1> QED BY <1>1, <1>2 DEF Min, m

\* The entry of a set: the file is that of the stream extension, the name is of
\* the slots behind it, as far as they are names.
\* What an entry of exFAT is made of: the slots behind the head at i.
EntryOf(data, i, e) ==
  \E n \in 1..Files[data[i].file].parts :
    /\ EntrySet(data, i) = <<e>> /\ IsKind(data, i + 1, "stream")
    /\ e.file = data[i + 1].file /\ e.dir = Files[data[i].file].dir
    /\ e.deleted = data[i].deleted
    /\ \A k \in 1..n : IsKind(data, i + 1 + k, "name")
    /\ n = Files[data[i].file].parts \/ ~IsKind(data, i + 2 + n, "name")
    /\ Len(e.name) = IF n <= Files[e.file].parts THEN n ELSE Files[e.file].parts
    /\ \A k \in 1..Len(e.name) :
         e.name[k] = Part(data[i + 1 + k].file, data[i + 1 + k].seq)

\* Why a set may give none.
NoEntry(data, i) ==
  /\ EntrySet(data, i) = <<>>
  /\ \/ Files[data[i].file].parts = 0 \/ ~IsKind(data, i + 1, "stream")
     \/ Files[data[i + 1].file].parts = 0 \/ ~IsKind(data, i + 2, "name")

\* A set of exFAT makes at most one entry, and of what.
LEMMA EntrySetFacts ==
  ASSUME NEW data, SlotSeq(data), NEW i \in 1..Len(data), data[i].kind = "file"
  PROVE  /\ data[i].file \in DOMAIN Files
         /\ NoEntry(data, i) \/ \E e \in EntryRecord : EntryOf(data, i, e)
<1> DEFINE head   == data[i].file
           P      == Files[head].parts
           Names(n) == \A k \in 2 .. (n + 1) : IsKind(data, i + k, "name")
           names  == {n \in 0 .. (Secondaries(head) - 1) : Names(n)}
           top    == Max(names)
           found  == [k \in 1 .. top |-> Part(data[i + 1 + k].file, data[i + 1 + k].seq)]
           stream == data[i + 1].file
           Q      == Files[stream].parts
           name   == SubSeq(found, 1, Min({Len(found), Q}))
           e      == DirEntry(stream, Files[head].dir, data[i].deleted, name)
<1>0. /\ Len(data) \in Nat /\ \A m \in 1..Len(data) : data[m] \in SlotType /\ Proper(data[m])
      /\ i \in Nat /\ i # 0
  BY DEF SlotSeq
<1>1. head \in DOMAIN Files /\ Files[head].dir \in BOOLEAN /\ P \in Nat /\ data[i].deleted \in BOOLEAN
  <2>1. Proper(data[i]) /\ data[i] \in SlotType
    BY <1>0
  <2>2. head \in DOMAIN Files
    BY <2>1, ProperFacts
  <2> QED BY <2>1, <2>2, FileFacts DEF SlotType
<1>2. Secondaries(head) = 1 + P
  BY DEF Secondaries
<1>3. EntrySet(data, i) = IF Secondaries(head) < 2 \/ ~IsKind(data, i + 1, "stream") \/ name = <<>>
                          THEN <<>> ELSE <<e>>
  BY DEF EntrySet
<1>4. names = {n \in 0..P : Names(n)} /\ top \in names /\ \A n \in names : n <= top
  <2>1. names = {n \in 0..P : Names(n)}
    BY <1>1, <1>2
  <2>2. Names(0)
    OBVIOUS
  <2> HIDE DEF Names
  <2>3. names \in SUBSET (0..P) /\ names # {}
    BY <1>1, <2>1, <2>2
  <2> HIDE DEF names
  <2> QED BY <1>1, <2>1, <2>3, MaxFacts
<1>5. top \in 0..P /\ Names(top) /\ \A n \in 0..P : Names(n) => n <= top
  <2> HIDE DEF top, Names
  <2> QED BY <1>4
<1> HIDE DEF top, names
<1>6. \A k \in 1..top : IsKind(data, i + 1 + k, "name")
  <2> TAKE k \in 1..top
  <2>1. k + 1 \in 2..(top + 1) /\ i + (k + 1) = i + 1 + k
    BY <1>0, <1>5
  <2> QED BY <1>5, <2>1
<1>7. ASSUME NEW k \in 1..top
      PROVE  Part(data[i + 1 + k].file, data[i + 1 + k].seq) \in PartType
  <2>1. i + 1 + k \in 1..Len(data)
    BY <1>0, <1>5, <1>6 DEF IsKind
  <2>2. data[i + 1 + k] \in SlotType
    BY <1>0, <2>1
  <2> QED BY <2>2 DEF SlotType, Part, PartType
<1>8. found \in Seq(PartType) /\ Len(found) = top
      /\ \A k \in 1..top : found[k] = Part(data[i + 1 + k].file, data[i + 1 + k].seq)
  <2>1. /\ found = [k \in 1..top |-> found[k]]
        /\ \A k \in 1..top : found[k] = Part(data[i + 1 + k].file, data[i + 1 + k].seq)
    OBVIOUS
  <2>2. \A k \in 1..top : found[k] \in PartType
    BY <1>7, <2>1
  <2> HIDE DEF found
  <2> QED BY <1>5, <2>1, <2>2, IsSequence
<1>9. top = P \/ ~IsKind(data, i + 2 + top, "name")
  <2> SUFFICES ASSUME top # P, IsKind(data, i + 2 + top, "name") PROVE FALSE
    OBVIOUS
  <2>1. top + 1 \in 0..P
    BY <1>1, <1>5
  <2>2. ASSUME NEW k \in 2..((top + 1) + 1) PROVE IsKind(data, i + k, "name")
    <3>0. top \in Int /\ k \in 2..((top + 1) + 1)
      BY <1>1, <1>5
    <3>1. k \in 2..(top + 1) \/ k = top + 2
      BY ONLY <3>0
    <3>2. CASE k \in 2..(top + 1)
      BY <1>5, <3>2
    <3>3. CASE k = top + 2
      <4>1. i + k = i + 2 + top
        BY <1>0, <1>5, <3>3
      <4> QED BY <4>1
    <3> QED BY <3>1, <3>2, <3>3
  <2>3. top + 1 <= top
    BY <1>5, <2>1, <2>2
  <2> QED BY <1>5, <2>3
<1> HIDE DEF found, Names
<1>10. CASE ~IsKind(data, i + 1, "stream")
  BY <1>1, <1>3, <1>10 DEF NoEntry
<1>11. CASE P = 0
  BY <1>1, <1>2, <1>3, <1>11 DEF NoEntry
<1>12. CASE IsKind(data, i + 1, "stream") /\ P # 0
  <2>1. stream \in DOMAIN Files /\ Q \in Nat
    <3>1. i + 1 \in 1..Len(data) /\ data[i + 1].kind = "stream"
      BY <1>0, <1>12 DEF IsKind
    <3>2. stream \in DOMAIN Files
      BY <1>0, <3>1, ProperFacts
    <3> QED BY <3>2, FileFacts
  <2> DEFINE m == IF top <= Q THEN top ELSE Q
  <2>2. name = SubSeq(found, 1, m) /\ m \in 0..top
    <3>1. top \in Int /\ Q \in Int /\ top >= 0 /\ Q >= 0
      BY <1>1, <1>5, <2>1
    <3>2. Min({top, Q}) = m
      BY ONLY <3>1, MinOfTwo
    <3>3. m \in 0..top
      BY ONLY <3>1
    <3> HIDE DEF m
    <3> QED BY <1>8, <3>2, <3>3
  <2>3. name \in Seq(PartType) /\ Len(name) = m /\ \A k \in 1..m : name[k] = found[k]
    <3> HIDE DEF m
    <3> DEFINE s == SubSeq(found, 1, m)
    <3>1. s \in Seq(PartType) /\ Len(s) = m /\ \A k \in 1..m : s[k] = found[k]
      BY <1>5, <1>8, <2>2
    <3>2. name = s
      BY <2>2
    <3> HIDE DEF name, s
    <3> QED BY <3>1, <3>2
  <2> HIDE DEF name
  <2>4. name = <<>> <=> m = 0
    BY <2>3, EmptySeq
  <2>5. CASE m = 0
    <3>1. EntrySet(data, i) = <<>>
      BY <1>3, <2>4, <2>5
    <3>2. Q = 0 \/ top = 0
      BY <2>5
    <3>3. top = 0 => ~IsKind(data, i + 2, "name")
      <4>1. top = 0 => i + 2 + top = i + 2
        BY <1>0
      <4> QED BY <1>9, <1>12, <4>1
    <3> QED BY <1>1, <3>1, <3>2, <3>3 DEF NoEntry
  <2>6. CASE m # 0
    <3>1. EntrySet(data, i) = <<e>>
      BY <1>1, <1>2, <1>3, <1>12, <2>4, <2>6
    <3>2. /\ e \in EntryRecord /\ e.file = stream /\ e.dir = Files[head].dir
          /\ e.deleted = data[i].deleted /\ e.name = name
      BY <1>1, <2>1, <2>3, DirEntryFacts
    <3> HIDE DEF e
    <3>3. top \in 1..P
      BY <1>1, <1>5, <2>1, <2>6
    <3>4. \A k \in 1..Len(e.name) : e.name[k] = Part(data[i + 1 + k].file, data[i + 1 + k].seq)
      <4>1. \A k \in 1..m : k \in 1..top
        BY <1>5, <2>2
      <4> HIDE DEF m
      <4> QED BY <1>8, <2>3, <3>2, <4>1, SMTT(40)
    <3>5. Len(e.name) = IF top <= Files[e.file].parts THEN top ELSE Files[e.file].parts
      BY <2>3, <3>2
    <3> QED BY <1>1, <1>6, <1>9, <1>12, <3>1, <3>2, <3>3, <3>4, <3>5 DEF EntryOf
  <2> QED BY <2>5, <2>6
<1> QED BY <1>10, <1>11, <1>12

-----------------------------------------------------------------------------
ExfatWalkType == [ended : BOOLEAN, pos : Nat, entries : Seq(EntryRecord)]

\* What a slot of exFAT changes.
LEMMA ExfatSlotFacts ==
  ASSUME NEW data, SlotSeq(data), NEW i \in 1..Len(data), NEW walk \in ExfatWalkType
  PROVE  LET r    == ExfatSlot(data, walk, i)
             IsHead == ~r.ended /\ walk.pos <= i /\ data[i].kind = "file"
         IN  /\ r \in ExfatWalkType
             /\ r.ended <=> walk.ended \/ (walk.pos <= i /\ data[i].kind = "zero")
             /\ r.entries = IF IsHead THEN walk.entries \o EntrySet(data, i) ELSE walk.entries
             /\ r.pos = IF ~IsHead THEN walk.pos
                        ELSE IF data[i].deleted /\ EntrySet(data, i) = <<>> THEN i + 1
                        ELSE Behind(data, i)
             /\ IsHead => Behind(data, i) = i + 2 + Files[data[i].file].parts
<1> DEFINE r == ExfatSlot(data, walk, i)
<1>0. walk.ended \in BOOLEAN /\ walk.pos \in Nat /\ walk.entries \in Seq(EntryRecord) /\ i \in Nat
  BY DEF ExfatWalkType, SlotSeq
<1>1. CASE walk.ended \/ i < walk.pos
  <2>1. r = walk
    BY <1>1 DEF ExfatSlot
  <2> HIDE DEF r
  <2> QED BY <1>0, <1>1, <2>1 DEF r
<1>2. CASE ~(walk.ended \/ i < walk.pos) /\ data[i].kind = "zero"
  <2>1. r = [walk EXCEPT !.ended = TRUE]
    BY <1>2 DEF ExfatSlot
  <2>2. r \in ExfatWalkType /\ r.ended /\ r.entries = walk.entries /\ r.pos = walk.pos
    BY <2>1 DEF ExfatWalkType
  <2> HIDE DEF r
  <2> QED BY <1>0, <1>2, <2>2 DEF r
<1>3. CASE ~(walk.ended \/ i < walk.pos) /\ data[i].kind \notin {"zero", "file"}
  <2>1. r = walk
    BY <1>3 DEF ExfatSlot
  <2> HIDE DEF r
  <2> QED BY <1>0, <1>3, <2>1 DEF r
<1>4. CASE ~(walk.ended \/ i < walk.pos) /\ data[i].kind = "file"
  <2> DEFINE all == walk.entries \o EntrySet(data, i)
             pos == IF data[i].deleted /\ EntrySet(data, i) = <<>> THEN i + 1 ELSE Behind(data, i)
  <2>1. r = [walk EXCEPT !.entries = all, !.pos = pos]
    BY <1>4 DEF ExfatSlot
  <2>2. data[i].file \in DOMAIN Files
    BY <1>4, EntrySetFacts
  <2>3. Behind(data, i) = i + 2 + Files[data[i].file].parts /\ pos \in Nat
    <3>1. Files[data[i].file].parts \in Nat
      BY <2>2, FileFacts
    <3>2. Behind(data, i) = i + 1 + (1 + Files[data[i].file].parts)
      BY DEF Behind, Secondaries
    <3> DEFINE p == Files[data[i].file].parts
    <3>3. p \in Nat /\ Behind(data, i) = i + 1 + (1 + p)
      BY <3>1, <3>2
    <3> HIDE DEF p
    <3>4. i + 1 + (1 + p) = i + 2 + p /\ i + 2 + p \in Nat /\ i + 1 \in Nat
      BY <1>0, <3>3
    <3> QED BY <3>3, <3>4 DEF p
  <2>4. EntrySet(data, i) \in Seq(EntryRecord)
    <3>1. EntrySet(data, i) = <<>> \/ \E e \in EntryRecord : EntrySet(data, i) = <<e>>
      BY <1>4, EntrySetFacts DEF NoEntry, EntryOf
    <3> DEFINE x == EntrySet(data, i)
    <3> HIDE DEF x
    <3>2. x = <<>> \/ \E e \in EntryRecord : x = <<e>>
      BY <3>1 DEF x
    <3>3. ASSUME x = <<>> PROVE x \in Seq(EntryRecord)
      BY ONLY <3>3
    <3>4. ASSUME NEW e \in EntryRecord, x = <<e>> PROVE x \in Seq(EntryRecord)
      BY ONLY <3>4
    <3>5. x \in Seq(EntryRecord)
      BY ONLY <3>2, <3>3, <3>4
    <3> QED BY <3>5 DEF x
  <2>5. all \in Seq(EntryRecord)
    <3> DEFINE x == EntrySet(data, i)
               y == walk.entries
    <3>1. x \in Seq(EntryRecord) /\ y \in Seq(EntryRecord)
      BY <1>0, <2>4
    <3> HIDE DEF x, y
    <3>2. y \o x \in Seq(EntryRecord)
      BY ONLY <3>1, ConcatProperties
    <3> QED BY <3>2 DEF x, y
  <2> HIDE DEF all, pos
  <2>6. r \in ExfatWalkType /\ r.ended = walk.ended /\ r.entries = all /\ r.pos = pos
    BY <2>1, <2>3, <2>5 DEF ExfatWalkType
  <2> HIDE DEF r
  <2> QED BY <1>0, <1>4, <2>3, <2>6, SMTT(40) DEF r, all, pos
<1> QED BY <1>0, <1>1, <1>2, <1>3, <1>4

\* The states of the parser, by how many slots it has seen.
ExfatWalk(data) ==
  CHOOSE walk : walk =
    [i \in 0..Len(data) |->
       IF i = 0 THEN [ended |-> FALSE, pos |-> 1, entries |-> <<>>]
       ELSE ExfatSlot(data, walk[i - 1], i)]

\* The walk of exFAT over the slots exists and has its type at every slot.
LEMMA ExfatWalkFacts ==
  ASSUME NEW data, SlotSeq(data)
  PROVE  LET w == ExfatWalk(data)
         IN  /\ ExfatEntries(data) = w[Len(data)].entries
             /\ w[0] = [ended |-> FALSE, pos |-> 1, entries |-> <<>>]
             /\ \A i \in 1..Len(data) : w[i] = ExfatSlot(data, w[i - 1], i)
             /\ \A i \in 0..Len(data) : w[i] \in ExfatWalkType
<1> DEFINE L == Len(data)
           zero == [ended |-> FALSE, pos |-> 1, entries |-> <<>>]
           Is(g, m) == g = [i \in 0..m |-> IF i = 0 THEN zero ELSE ExfatSlot(data, g[i - 1], i)]
           M == {m \in Nat : \E g : Is(g, m)}
<1>0. L \in Nat
  BY DEF SlotSeq
<1>1. ExfatWalk(data) = CHOOSE g : Is(g, L)
  BY DEF ExfatWalk
<1>2. ExfatEntries(data) = ExfatWalk(data)[L].entries
  BY DEF ExfatEntries, ExfatWalk
<1>z. zero \in ExfatWalkType
  BY DEF ExfatWalkType
<1> HIDE DEF zero
<1>3. 0 \in M
  <2>1. Is([i \in 0..0 |-> zero], 0)
    OBVIOUS
  <2> QED BY <2>1
<1>4. ASSUME NEW m \in M PROVE m + 1 \in M
  <2>1. m \in Nat
    OBVIOUS
  <2>2. PICK g : Is(g, m)
    OBVIOUS
  <2> DEFINE last == ExfatSlot(data, g[m], m + 1)
             h == [i \in 0..(m + 1) |-> IF i <= m THEN g[i] ELSE last]
  <2>3. \A i \in 0..m : g[i] = IF i = 0 THEN zero ELSE ExfatSlot(data, g[i - 1], i)
    BY <2>2
  <2>4. ASSUME NEW i \in 0..(m + 1)
        PROVE  h[i] = IF i = 0 THEN zero ELSE ExfatSlot(data, h[i - 1], i)
    <3>1. CASE i = 0
      BY <2>1, <2>3, <3>1
    <3>2. CASE i \in 1..m
      <4>1. h[i] = g[i] /\ h[i - 1] = g[i - 1]
        BY <2>1, <3>2
      <4> QED BY <4>1, <2>3, <2>1, <3>2
    <3>3. CASE i = m + 1
      <4>1. h[i] = last /\ h[i - 1] = g[m] /\ i # 0
        BY <2>1, <3>3
      <4> QED BY <3>3, <4>1
    <3> QED BY <2>1, <3>1, <3>2, <3>3
  <2>5. Is(h, m + 1)
    BY <2>4
  <2> HIDE DEF h, Is
  <2> QED BY <2>1, <2>5
<1>5. M = Nat
  <2>1. M \in SUBSET Nat
    OBVIOUS
  <2> HIDE DEF M
  <2> QED BY <1>3, <1>4, <2>1, Induction
<1>6. \E g : Is(g, L)
  <2> HIDE DEF Is, L
  <2> QED BY <1>0, <1>5
<1> DEFINE w == ExfatWalk(data)
<1>7. Is(w, L)
  <2> HIDE DEF Is, L
  <2> QED BY <1>1, <1>6
<1> HIDE DEF w
<1>8. w[0] = zero /\ \A i \in 1..L : w[i] = ExfatSlot(data, w[i - 1], i)
  BY <1>0, <1>7
<1> HIDE DEF Is
<1> DEFINE N == {n \in Nat : n <= L => w[n] \in ExfatWalkType}
<1>9. 0 \in N
  BY <1>8, <1>z
<1>10. ASSUME NEW n \in N PROVE n + 1 \in N
  <2>1. n \in Nat /\ (n + 1 <= L => n <= L /\ n + 1 \in 1..L /\ (n + 1) - 1 = n)
    BY <1>0
  <2>2. n + 1 <= L => w[n + 1] \in ExfatWalkType
    <3> SUFFICES ASSUME n + 1 <= L PROVE w[n + 1] \in ExfatWalkType
      OBVIOUS
    <3>1. w[n] \in ExfatWalkType
      BY <2>1
    <3>2. w[n + 1] = ExfatSlot(data, w[n], n + 1)
      BY <1>8, <2>1
    <3> QED BY <2>1, <3>1, <3>2, ExfatSlotFacts
  <2> QED BY <2>1, <2>2
<1>11. N = Nat
  <2>1. N \in SUBSET Nat
    OBVIOUS
  <2> HIDE DEF N
  <2> QED BY <1>9, <1>10, <2>1, Induction
<1>12. \A i \in 0..L : w[i] \in ExfatWalkType
  BY <1>0, <1>11
<1> QED BY <1>2, <1>8, <1>12 DEF w, zero

\* Every entry of a directory is that of a set whose head was looked at.
LEMMA ExfatEntryOfHead ==
  ASSUME NEW data, SlotSeq(data)
  PROVE  /\ ExfatEntries(data) \in Seq(EntryRecord)
         /\ \A j \in 1..Len(ExfatEntries(data)) : \E m \in 1..Len(data) :
              /\ data[m].kind = "file" /\ ExfatWalk(data)[m - 1].pos <= m
              /\ EntrySet(data, m) = <<ExfatEntries(data)[j]>>
<1> DEFINE w == ExfatWalk(data)
           L == Len(data)
           Of(e, m) == data[m].kind = "file" /\ w[m - 1].pos <= m /\ EntrySet(data, m) = <<e>>
           Known(n) == \A j \in 1..Len(w[n].entries) : \E m \in 1..n : Of(w[n].entries[j], m)
           N == {n \in Nat : n <= L => Known(n)}
<1>0. /\ L \in Nat /\ ExfatEntries(data) = w[L].entries
      /\ w[0].entries = <<>> /\ \A i \in 1..L : w[i] = ExfatSlot(data, w[i - 1], i)
      /\ \A i \in 0..L : w[i] \in ExfatWalkType
  BY ExfatWalkFacts DEF SlotSeq
<1> HIDE DEF w
<1>1. 0 \in N
  BY <1>0
<1>2. ASSUME NEW n \in N, n + 1 <= L
      PROVE  Known(n + 1)
  <2>1. n \in Nat /\ n <= L /\ n \in 0..L /\ n + 1 \in 1..L /\ (n + 1) - 1 = n
    BY <1>0, <1>2
  <2>2. \A j \in 1..Len(w[n].entries) : \E m \in 1..(n + 1) : Of(w[n].entries[j], m)
    <3>1. \A j \in 1..Len(w[n].entries) : \E m \in 1..n : Of(w[n].entries[j], m)
      BY <2>1
    <3>2. \A m \in 1..n : m \in 1..(n + 1)
      BY <2>1
    <3> HIDE DEF Of
    <3> QED BY <3>1, <3>2
  <2>3. w[n + 1] = ExfatSlot(data, w[n], n + 1) /\ w[n] \in ExfatWalkType
    BY <1>0, <2>1
  <2> DEFINE IsHead == ~w[n + 1].ended /\ w[n].pos <= n + 1 /\ data[n + 1].kind = "file"
  <2>4. w[n + 1].entries = IF IsHead THEN w[n].entries \o EntrySet(data, n + 1) ELSE w[n].entries
    BY <2>1, <2>3, ExfatSlotFacts
  <2> DEFINE a == w[n].entries
  <2>5. a \in Seq(EntryRecord)
    BY <2>3 DEF ExfatWalkType
  <2>6. CASE IsHead /\ EntrySet(data, n + 1) # <<>>
    <3>1. PICK e \in EntryRecord : EntrySet(data, n + 1) = <<e>>
      <4>1. EntrySet(data, n + 1) = <<>> \/ \E e \in EntryRecord : EntrySet(data, n + 1) = <<e>>
        BY <2>1, <2>6, EntrySetFacts DEF NoEntry, EntryOf
      <4> QED BY <2>6, <4>1
    <3>2. Of(e, n + 1)
      BY <2>1, <2>6, <3>1
    <3>3. w[n + 1].entries = a \o <<e>>
      BY <2>4, <2>6, <3>1
    <3> HIDE DEF Of, IsHead
    <3>4. ASSUME NEW j \in 1..Len(w[n + 1].entries)
          PROVE  \E m \in 1..(n + 1) : Of(w[n + 1].entries[j], m)
      <4> HIDE DEF a
      <4>1. w[n + 1].entries[j] = e \/ (j \in 1..Len(a) /\ w[n + 1].entries[j] = a[j])
        <5>1. <<e>> \in Seq(EntryRecord) /\ Len(<<e>>) = 1 /\ <<e>>[1] = e
          BY <3>1
        <5> DEFINE b == <<e>>
        <5> HIDE DEF b
        <5>2. b \in Seq(EntryRecord) /\ Len(b) = 1 /\ b[1] = e
          BY <5>1 DEF b
        <5>3. Len(a \o b) = Len(a) + 1 /\ \A k \in 1..(Len(a) + 1) :
                (a \o b)[k] = IF k <= Len(a) THEN a[k] ELSE b[k - Len(a)]
          <6>1. Len(a \o b) = Len(a) + Len(b) /\ \A k \in 1..(Len(a) + Len(b)) :
                  (a \o b)[k] = IF k <= Len(a) THEN a[k] ELSE b[k - Len(a)]
            BY ONLY <2>5, <5>2, ConcatProperties
          <6> QED BY ONLY <5>2, <6>1
        <5>4. Len(a) \in Nat
          BY <2>5
        <5>5. j \in 1..(Len(a) + 1) /\ w[n + 1].entries[j] = (a \o b)[j]
          BY <3>3, <5>3 DEF b
        <5>6. CASE j <= Len(a)
          BY <5>3, <5>4, <5>5, <5>6
        <5>7. CASE ~(j <= Len(a))
          <6>1. j - Len(a) = 1
            BY <5>4, <5>5, <5>7
          <6> QED BY <5>2, <5>3, <5>5, <5>7, <6>1
        <5> QED BY <5>6, <5>7
      <4>2. n + 1 \in 1..(n + 1)
        BY <2>1
      <4>3. CASE w[n + 1].entries[j] = e
        BY <3>2, <4>2, <4>3
      <4>4. CASE j \in 1..Len(a) /\ w[n + 1].entries[j] = a[j]
        BY <2>2, <4>4 DEF a
      <4> QED BY <4>1, <4>3, <4>4
    <3> QED BY <3>4
  <2>7. CASE ~IsHead \/ EntrySet(data, n + 1) = <<>>
    <3>1. w[n + 1].entries = a
      <4>1. a \o <<>> = a
        BY <2>5, ConcatEmptySeq
      <4> QED BY <2>4, <2>7, <4>1
    <3> HIDE DEF Of
    <3> QED BY <2>2, <3>1
  <2> QED BY <2>6, <2>7
<1>3. \A n \in N : n + 1 \in N
  <2> HIDE DEF Known
  <2> QED BY <1>2
<1>4. N = Nat
  <2>1. N \in SUBSET Nat
    OBVIOUS
  <2> HIDE DEF N
  <2> QED BY <1>1, <1>3, <2>1, Induction
<1>5. \A j \in 1..Len(w[L].entries) : \E m \in 1..L : Of(w[L].entries[j], m)
  <2>1. Known(L)
    <3> HIDE DEF Known
    <3> QED BY <1>0, <1>4
  <2> QED BY <2>1
<1>6. w[L].entries \in Seq(EntryRecord)
  BY <1>0 DEF ExfatWalkType
<1> QED BY <1>0, <1>5, <1>6 DEF w

-----------------------------------------------------------------------------
(* What is parsed of the slots of a directory.                             *)

\* Where the slots of a file in use begin.
At(f) == CHOOSE a \in Nat \ {0} : SetAt(slots, f, Home(f), a)

\* Where a file in use stands.
LEMMA AtFacts ==
  ASSUME VolumeInv, NEW f \in Live \ {Root}
  PROVE  /\ At(f) \in Nat \ {0} /\ SetAt(slots, f, Home(f), At(f))
         /\ f \in DOMAIN Files /\ Home(f) \in LiveDirs /\ Home(f) \in DOMAIN Files
         /\ Home(f) \in Live /\ Files[Home(f)].dir
<1>1. \E a \in Nat \ {0} : SetAt(slots, f, Home(f), a)
  BY HomeFacts
<1>2. At(f) \in Nat \ {0} /\ SetAt(slots, f, Home(f), At(f))
  BY <1>1 DEF At
<1>3. f \in DOMAIN Files /\ Home(f) \in LiveDirs
  BY HomeFacts, LiveFacts
<1> QED BY <1>2, <1>3, LiveFacts DEF DirsIn

\* The slots of a file in use, and whose slots there are in a directory.
LEMMA SlotsOfLive ==
  ASSUME VolumeInv, NEW f \in Live \ {Root}, NEW k \in 1..Len(SetOf(f))
  PROVE  /\ At(f) + k - 1 \in 1..Len(Positions(Home(f)))
         /\ slots[Positions(Home(f))[At(f) + k - 1]] = SetOf(f)[k]
<1>1. /\ At(f) \in Nat \ {0} /\ SetAt(slots, f, Home(f), At(f))
      /\ f \in DOMAIN Files /\ Home(f) \in DOMAIN Files
  BY AtFacts
<1> QED BY ONLY <1>1, SetInside, k \in 1..Len(SetOf(f)), SMTT(40)

\* A slot in use belongs to a file that is at home in that directory.
LEMMA LiveSlot ==
  ASSUME VolumeInv, NEW d \in LiveDirs, NEW i \in 1..Len(Positions(d)),
         NEW f \in DOMAIN Files \ {Root}, IsOf(Positions(d)[i], f)
  PROVE  /\ f \in Live \ {Root} /\ Home(f) = d
         /\ (i - At(f)) + 1 \in 1..Len(SetOf(f)) /\ At(f) \in Nat \ {0} /\ i \in Nat
         /\ slots[Positions(d)[i]] = SetOf(f)[(i - At(f)) + 1]
<1>1. d \in Live /\ d \in DOMAIN Files /\ slots \in [1..SlotCount -> SlotType]
  BY LiveFacts DEF DirsIn, VolumeInv, Table
<1>2. Positions(d)[i] \in 1..SlotCount /\ i \in Nat
  BY <1>1, PositionFacts
<1>3. f \in Live \ {Root}
  <2>1. IsIn(slots, Positions(d)[i], f)
    BY DEF IsIn, IsOf
  <2> QED BY <1>1, <1>2, <2>1, LiveFacts
<1>4. Home(f) = d
  BY <1>1, <1>3, HomeFacts
<1>5. At(f) \in Nat \ {0} /\ SetAt(slots, f, d, At(f)) /\ Len(SetOf(f)) \in Nat
  BY <1>3, <1>4, AtFacts, SetFacts
<1>6. PICK k \in 1..Len(SetOf(f)) : Positions(d)[i] = Positions(d)[At(f) + k - 1]
  BY <1>2, <1>5 DEF SetAt, IsIn, IsOf
<1>7. At(f) + k - 1 \in 1..Len(Positions(d)) /\ slots[Positions(d)[At(f) + k - 1]] = SetOf(f)[k]
  BY <1>3, <1>4, SlotsOfLive
<1>8. i = At(f) + k - 1
  BY <1>1, <1>6, <1>7, PositionFacts
<1>9. (i - At(f)) + 1 = k
  BY <1>2, <1>5, <1>8
<1> QED BY <1>2, <1>3, <1>4, <1>5, <1>6, <1>7, <1>9

\* What was read of d, from its first slot on.
Faithful(data, d) ==
  /\ data \in Seq(SlotType) /\ Len(data) <= Len(Positions(d))
  /\ \A i \in 1..Len(data) : data[i] = Sector(Positions(d)[i])

\* Data that is faithful is proper, and what is not zero in it is what the volume has.
LEMMA FaithfulFacts ==
  ASSUME VolumeInv, NEW d \in LiveDirs, NEW data, Faithful(data, d)
  PROVE  /\ SlotSeq(data) /\ Len(data) \in Nat
         /\ \A i \in 1..Len(data) :
              /\ i \in 1..Len(Positions(d)) /\ i \in Nat
              /\ data[i].kind # "zero" => data[i] = slots[Positions(d)[i]]
<1>1. /\ d \in DOMAIN Files /\ \A p \in 1..SlotCount : Proper(slots[p])
      /\ data \in Seq(SlotType) /\ Len(data) \in Nat
  BY LiveFacts DEF DirsIn, VolumeInv, Table, Faithful
<1>2. ASSUME NEW i \in 1..Len(data)
      PROVE  /\ i \in 1..Len(Positions(d)) /\ i \in Nat
             /\ data[i] = slots[Positions(d)[i]] \/ data[i] = Zero
             /\ Positions(d)[i] \in 1..SlotCount
  <2>1. i \in 1..Len(Positions(d))
    BY <1>1, PositionFacts DEF Faithful
  <2> QED BY <1>1, <2>1, PositionFacts, SMTT(40) DEF Faithful, Sector
<1>3. \A i \in 1..Len(data) : Proper(data[i])
  BY <1>1, <1>2, SMTT(40) DEF Proper
<1> QED BY <1>1, <1>2, <1>3 DEF SlotSeq, Zero, Slot

\* The name of a file is the list of its parts.
LEMMA NameFacts ==
  ASSUME NEW f \in DOMAIN Files
  PROVE  LET n == Files[f].parts
         IN  /\ NameOf(f) \in Seq(PartType) /\ Len(NameOf(f)) = IF n = 0 THEN 1 ELSE n
             /\ n = 0 => NameOf(f) = <<Part(f, 0)>>
             /\ n # 0 => \A k \in 1..n : NameOf(f)[k] = Part(f, k)
<1> DEFINE n == Files[f].parts
           l == [k \in 1..n |-> Part(f, k)]
<1>1. n \in Nat /\ \A k \in Nat : Part(f, k) \in PartType
  BY FileFacts DEF Part, PartType
<1>2. l = [k \in 1..n |-> l[k]] /\ \A k \in 1..n : l[k] = Part(f, k) /\ l[k] \in PartType
  BY <1>1
<1>3. CASE n # 0
  <2>1. NameOf(f) = l
    BY <1>3 DEF NameOf
  <2> HIDE DEF l, n
  <2>2. l \in Seq(PartType) /\ Len(l) = n
    BY <1>1, <1>2, IsSequence
  <2> QED BY <1>2, <1>3, <2>1, <2>2 DEF n
<1>4. CASE n = 0
  <2>1. NameOf(f) = <<Part(f, 0)>>
    BY <1>4 DEF NameOf
  <2> DEFINE p == Part(f, 0)
  <2>2. p \in PartType
    BY <1>1
  <2> HIDE DEF p
  <2>3. <<p>> \in Seq(PartType) /\ Len(<<p>>) = 1
    BY <2>2
  <2> QED BY <1>4, <2>1, <2>3 DEF p
<1> QED BY <1>3, <1>4

\* One part each, put together.
LEMMA FlattenSingles ==
  ASSUME NEW f \in Nat, NEW n \in Nat
  PROVE  FlattenSeq([q \in 1..n |-> <<Part(f, q)>>]) = [q \in 1..n |-> Part(f, q)]
<1> DEFINE lists(m) == [q \in 1..m |-> <<Part(f, q)>>]
           parts(m) == [q \in 1..m |-> Part(f, q)]
           M == {m \in Nat : FlattenSeq(lists(m)) = parts(m)}
<1>0. \A q \in Nat : Part(f, q) \in PartType
  BY DEF Part, PartType
<1>1. ASSUME NEW m \in Nat
      PROVE  /\ lists(m) \in Seq(Seq(PartType)) /\ Len(lists(m)) = m
             /\ \A q \in 1..m : lists(m)[q] = <<Part(f, q)>>
             /\ parts(m) \in Seq(PartType) /\ Len(parts(m)) = m
             /\ \A q \in 1..m : parts(m)[q] = Part(f, q)
  <2> DEFINE l == lists(m)
             p == parts(m)
  <2>1. \A q \in 1..m : l[q] \in Seq(PartType)
    <3> TAKE q \in 1..m
    <3> DEFINE x == Part(f, q)
    <3>1. x \in PartType /\ l[q] = <<x>>
      BY <1>0
    <3> HIDE DEF x, l
    <3> QED BY <3>1
  <2>2. \A q \in 1..m : p[q] \in PartType
    BY <1>0
  <2>3. l = [q \in 1..m |-> l[q]] /\ p = [q \in 1..m |-> p[q]]
    OBVIOUS
  <2>4. (\A q \in 1..m : l[q] = <<Part(f, q)>>) /\ (\A q \in 1..m : p[q] = Part(f, q))
    OBVIOUS
  <2> HIDE DEF l, p
  <2>5. l \in Seq(Seq(PartType)) /\ Len(l) = m
    BY <2>1, <2>3, IsSequence
  <2>6. p \in Seq(PartType) /\ Len(p) = m
    BY <2>2, <2>3, IsSequence
  <2> QED BY <2>4, <2>5, <2>6 DEF l, p
<1> HIDE DEF lists, parts
<1>2. 0 \in M
  <2>1. /\ lists(0) \in Seq(Seq(PartType)) /\ Len(lists(0)) = 0
        /\ parts(0) \in Seq(PartType) /\ Len(parts(0)) = 0
    BY <1>1
  <2>2. lists(0) = <<>> /\ parts(0) = <<>>
    BY <2>1, EmptySeq
  <2>3. FlattenSeq(<<>>) = <<>>
    BY DEF FlattenSeq
  <2> QED BY <2>2, <2>3
<1>3. ASSUME NEW m \in M PROVE m + 1 \in M
  <2>1. m \in Nat /\ m + 1 \in Nat /\ FlattenSeq(lists(m)) = parts(m)
    OBVIOUS
  <2> DEFINE x == Part(f, m + 1)
             t == <<x>>
             a == lists(m)
             b == lists(m + 1)
             c == parts(m)
             e == parts(m + 1)
  <2>2. x \in PartType
    BY <1>0, <2>1
  <2>3. /\ a \in Seq(Seq(PartType)) /\ Len(a) = m /\ \A q \in 1..m : a[q] = <<Part(f, q)>>
        /\ c \in Seq(PartType) /\ Len(c) = m /\ \A q \in 1..m : c[q] = Part(f, q)
    BY <1>1, <2>1
  <2>4. /\ b \in Seq(Seq(PartType)) /\ Len(b) = m + 1 /\ \A q \in 1..(m + 1) : b[q] = <<Part(f, q)>>
        /\ e \in Seq(PartType) /\ Len(e) = m + 1 /\ \A q \in 1..(m + 1) : e[q] = Part(f, q)
    BY <1>1, <2>1
  <2>5. t \in Seq(PartType) /\ Len(t) = 1 /\ t[1] = x
    <3> HIDE DEF x
    <3> QED BY <2>2
  <2> HIDE DEF a, b, c, e, t, M
  <2>6. b = Append(a, t)
    <3>1. /\ Append(a, t) \in Seq(Seq(PartType)) /\ Len(Append(a, t)) = m + 1
          /\ \A q \in 1..m : Append(a, t)[q] = a[q]
          /\ Append(a, t)[m + 1] = t
      BY <2>3, <2>5, AppendProperties
    <3>2. \A q \in 1..(m + 1) : b[q] = Append(a, t)[q]
      <4> TAKE q \in 1..(m + 1)
      <4>1. CASE q \in 1..m
        BY <2>3, <2>4, <3>1, <4>1
      <4>2. CASE q = m + 1
        BY <2>4, <3>1, <4>2 DEF t
      <4>3. q \in 1..m \/ q = m + 1
        BY ONLY <2>1
      <4> QED BY ONLY <4>1, <4>2, <4>3
    <3> QED BY ONLY <2>4, <3>1, <3>2, SeqEqual
  <2>7. FlattenSeq(b) = c \o t
    BY <2>1, <2>3, <2>5, <2>6, FlattenAppend DEF a, c
  <2>8. c \o t = e
    <3>0. Len(c) = m /\ Len(t) = 1 /\ m \in Nat /\ c \in Seq(PartType) /\ t \in Seq(PartType)
      BY <2>1, <2>3, <2>5
    <3>1. c \o t \in Seq(PartType) /\ Len(c \o t) = Len(c) + Len(t)
          /\ \A q \in 1..(Len(c) + Len(t)) : (c \o t)[q] = IF q <= Len(c) THEN c[q] ELSE t[q - Len(c)]
      BY ONLY <3>0, ConcatProperties
    <3>2. Len(c \o t) = m + 1 /\ \A q \in 1..(m + 1) : (c \o t)[q] = IF q <= m THEN c[q] ELSE t[q - m]
      BY ONLY <3>0, <3>1
    <3>3. \A q \in 1..(m + 1) : (c \o t)[q] = e[q]
      <4> TAKE q \in 1..(m + 1)
      <4>1. CASE q <= m
        BY <2>1, <2>3, <2>4, <3>2, <4>1
      <4>2. CASE ~(q <= m)
        <5>1. q = m + 1 /\ q - m = 1
          BY <2>1, <4>2
        <5> QED BY <2>4, <2>5, <3>2, <4>2, <5>1
      <4> QED BY <4>1, <4>2
    <3>4. Len(e) = m + 1 /\ e \in Seq(PartType)
      BY <2>4
    <3> QED BY ONLY <3>1, <3>2, <3>3, <3>4, SeqEqual
  <2> QED BY <2>1, <2>7, <2>8 DEF M, b, e
<1>4. M = Nat
  <2>1. M \in SUBSET Nat
    OBVIOUS
  <2> HIDE DEF M
  <2> QED BY <1>2, <1>3, <2>1, Induction
<1> QED BY <1>4 DEF lists, parts

\* The parts of a long name that were read when slot i was the last.
Partial(data, i) ==
  IF i \in 1..Len(data) /\ data[i].kind = "lfn" /\ ~data[i].deleted
  THEN [q \in 1..Files[data[i].file].parts |->
          IF q >= data[i].seq THEN <<Part(data[i].file, q)>> ELSE <<>>]
  ELSE <<>>

\* The slots of FAT, by their place in the set.
LEMMA FatSetFacts ==
  ASSUME fs # "exfat", NEW f \in DOMAIN Files, NEW k \in 1..Len(SetOf(f))
  PROVE  LET n == Files[f].parts
         IN  /\ n \in Nat /\ Len(SetOf(f)) = n + 1 /\ k \in Nat
             /\ SetOf(f)[k].kind = "lfn" <=> k <= n
             /\ SetOf(f)[k].kind = "short" <=> k = n + 1
             /\ k <= n => SetOf(f)[k].seq = n + 1 - k
             /\ SetOf(f)[k].file = f /\ ~SetOf(f)[k].deleted
<1>1. Files[f].parts \in Nat /\ Len(SetOf(f)) = Files[f].parts + 1
  BY FileFacts, SetFacts
<1>2. SetOf(f)[k] = IF k <= Files[f].parts THEN Slot("lfn", f, Files[f].parts + 1 - k) ELSE Slot("short", f, 0)
  BY SetFacts DEF SlotOf
<1>3. CASE k <= Files[f].parts
  <2>1. SetOf(f)[k] = Slot("lfn", f, Files[f].parts + 1 - k)
    BY <1>2, <1>3
  <2> QED BY <1>1, <1>3, <2>1 DEF Slot
<1>4. CASE ~(k <= Files[f].parts)
  <2>1. SetOf(f)[k] = Slot("short", f, 0) /\ k = Files[f].parts + 1
    BY <1>1, <1>2, <1>4, SMTT(40)
  <2> QED BY <1>1, <2>1 DEF Slot
<1> QED BY <1>3, <1>4

\* A slot of a long name: whose it is, and what stands before and behind it.
LEMMA LfnSlot ==
  ASSUME VolumeInv, fs # "exfat", NEW d \in LiveDirs, NEW data, Faithful(data, d),
         NEW i \in 1..Len(data), data[i].kind = "lfn", ~data[i].deleted
  PROVE  LET f == data[i].file
             s == data[i].seq
             n == Files[f].parts
         IN  /\ f \in Live \ {Root} /\ f \in DOMAIN Files /\ n \in Nat /\ s \in 1..n
             /\ i - At(f) = n - s /\ At(f) \in Nat \ {0} /\ i \in Nat
             /\ s < n => /\ i # 1
                         /\ data[i - 1].kind # "zero" =>
                              /\ data[i - 1].kind = "lfn" /\ ~data[i - 1].deleted
                              /\ data[i - 1].file = f /\ data[i - 1].seq = s + 1
             /\ i + 1 \in 1..Len(data) /\ data[i + 1].kind # "zero" => data[i + 1].file = f
<1> DEFINE f == data[i].file
           s == data[i].seq
           n == Files[f].parts
           p == Positions(d)[i]
<1>1. /\ SlotSeq(data) /\ Len(data) \in Nat /\ i \in 1..Len(Positions(d)) /\ i \in Nat
      /\ data[i] = slots[p]
  BY FaithfulFacts
<1>2. f \in DOMAIN Files \ {Root}
  BY <1>1, ProperFacts DEF SlotSeq
<1>3. IsOf(p, f)
  BY <1>1 DEF IsOf
<1>4. /\ f \in Live \ {Root} /\ Home(f) = d /\ (i - At(f)) + 1 \in 1..Len(SetOf(f))
      /\ At(f) \in Nat \ {0} /\ data[i] = SetOf(f)[(i - At(f)) + 1]
  BY <1>1, <1>2, <1>3, LiveSlot
<1> DEFINE k == (i - At(f)) + 1
<1>a. k \in 1..Len(SetOf(f)) /\ k = (i - At(f)) + 1 /\ data[i] = SetOf(f)[k] /\ f \in DOMAIN Files
  BY <1>2, <1>4
<1> HIDE DEF f, k
<1>5. /\ n \in Nat /\ Len(SetOf(f)) = n + 1 /\ k \in Nat
      /\ SetOf(f)[k].kind = "lfn" <=> k <= n
      /\ k <= n => SetOf(f)[k].seq = n + 1 - k
  BY <1>a, FatSetFacts
<1>6. k \in 1..n /\ s = n + 1 - k /\ s \in 1..n /\ i - At(f) = n - s
  <2>1. k \in 1..n /\ s = n + 1 - k
    BY <1>1, <1>a, <1>5
  <2> DEFINE x == At(f)
             q == s
             m == n
  <2>2. x \in Nat /\ i \in Nat /\ m \in Nat /\ k = (i - x) + 1 /\ k \in 1..m /\ q = m + 1 - k
    BY <1>1, <1>4, <1>5, <1>a, <2>1
  <2> HIDE DEF x, q, m
  <2>3. q \in 1..m /\ i - x = m - q
    BY ONLY <2>2
  <2> QED BY <2>1, <2>3 DEF x, q, m
<1>b. ASSUME NEW j \in Int PROVE At(f) + (k + j) - 1 = i + j
  <2> DEFINE x == At(f)
  <2>1. x \in Nat /\ i \in Nat /\ k \in Nat /\ k = (i - x) + 1
    BY <1>1, <1>4, <1>5, <1>a
  <2> HIDE DEF x
  <2>2. x + (k + j) - 1 = i + j
    BY <2>1, SMTT(40)
  <2> QED BY <2>2 DEF x
<1>7. ASSUME s < n
      PROVE  /\ i # 1
             /\ data[i - 1].kind # "zero" =>
                  /\ data[i - 1].kind = "lfn" /\ ~data[i - 1].deleted
                  /\ data[i - 1].file = f /\ data[i - 1].seq = s + 1
  <2>0. At(f) + (k - 1) - 1 = i - 1
    <3>1. At(f) + (k + (-1)) - 1 = i + (-1)
      BY <1>b
    <3> QED BY <1>1, <1>5, <3>1
  <2>1. k - 1 \in 1..Len(SetOf(f)) /\ k - 1 <= n
    <3>1. k \in Nat /\ n \in Nat /\ s = n + 1 - k /\ s < n /\ k \in 1..n /\ Len(SetOf(f)) = n + 1
      BY <1>5, <1>6, <1>7
    <3> DEFINE q == s
               m == n
    <3> HIDE DEF q, m
    <3>2. k \in Nat /\ m \in Nat /\ q = m + 1 - k /\ q < m /\ k \in 1..m /\ Len(SetOf(f)) = m + 1
      BY <3>1 DEF q, m
    <3>3. k - 1 \in 1..(m + 1) /\ k - 1 <= m
      BY ONLY <3>2
    <3> QED BY <3>2, <3>3 DEF m
  <2>2. i - 1 \in 1..Len(Positions(d)) /\ slots[Positions(d)[i - 1]] = SetOf(f)[k - 1]
    BY <1>4, <2>0, <2>1, SlotsOfLive, ZenonT(60)
  <2>3. i - 1 \in 1..Len(data) /\ i # 1
    BY <1>1, <2>2
  <2>4. data[i - 1].kind # "zero" => data[i - 1] = SetOf(f)[k - 1]
    BY <2>2, <2>3, FaithfulFacts
  <2>5. /\ SetOf(f)[k - 1].kind = "lfn" /\ SetOf(f)[k - 1].seq = n + 1 - (k - 1)
        /\ SetOf(f)[k - 1].file = f /\ ~SetOf(f)[k - 1].deleted
    BY <1>2, <2>1, FatSetFacts, SMTT(40)
  <2>6. n + 1 - (k - 1) = s + 1
    BY <1>5, <1>6, SMTT(40)
  <2> QED BY <2>3, <2>4, <2>5, <2>6
<1>8. ASSUME i + 1 \in 1..Len(data), data[i + 1].kind # "zero" PROVE data[i + 1].file = f
  <2>1. k + 1 \in 1..Len(SetOf(f)) /\ At(f) + (k + 1) - 1 = i + 1
    <3>1. At(f) + (k + 1) - 1 = i + 1
      BY <1>b
    <3> DEFINE m == n
    <3> HIDE DEF m
    <3>2. k \in 1..m /\ m \in Nat /\ Len(SetOf(f)) = m + 1
      BY <1>5, <1>6 DEF m
    <3>3. k + 1 \in 1..Len(SetOf(f))
      BY ONLY <3>2
    <3> QED BY <3>1, <3>3
  <2>2. slots[Positions(d)[i + 1]] = SetOf(f)[k + 1]
    BY <1>4, <2>1, SlotsOfLive, ZenonT(60)
  <2>3. data[i + 1] = slots[Positions(d)[i + 1]]
    BY <1>8, FaithfulFacts
  <2>4. SetOf(f)[k + 1].file = f
    BY <1>2, <2>1, FatSetFacts
  <2> QED BY <2>2, <2>3, <2>4
<1> QED BY <1>1, <1>a, <1>4, <1>5, <1>6, <1>7, <1>8 DEF f

\* Until the end is reached, the parts are those of the set that is being read.
LEMMA PartsSoFar ==
  ASSUME VolumeInv, fs # "exfat", NEW d \in LiveDirs, NEW data, Faithful(data, d)
  PROVE  \A i \in 0..Len(data) :
           ~FatWalk(data)[i].ended => /\ FatWalk(data)[i].lfn_parts = Partial(data, i)
                                      /\ i # 0 => data[i].kind # "zero"
<1> DEFINE w == FatWalk(data)
           L == Len(data)
           Right(i) == ~w[i].ended => w[i].lfn_parts = Partial(data, i) /\ (i # 0 => data[i].kind # "zero")
           N == {i \in Nat : i <= L => Right(i)}
<1>0. /\ SlotSeq(data) /\ L \in Nat
      /\ w[0] = [ended |-> FALSE, lfn_parts |-> <<>>, entries |-> <<>>]
      /\ \A i \in 1..L : w[i] = FatSlot(w[i - 1], data[i])
      /\ \A i \in 0..L : w[i] \in FatWalkType
      /\ \A i \in 1..L : Proper(data[i]) /\ data[i] \in SlotType
  <2>1. SlotSeq(data) /\ L \in Nat
    BY FaithfulFacts
  <2> QED BY <2>1, FatWalkFacts DEF SlotSeq
<1> HIDE DEF w
<1>1. 0 \in N
  <2>1. w[0].lfn_parts = <<>>
    BY <1>0
  <2>2. Partial(data, 0) = <<>>
    BY DEF Partial
  <2> QED BY <2>1, <2>2
<1>2. ASSUME NEW n \in N, n + 1 <= L, ~w[n + 1].ended
      PROVE  w[n + 1].lfn_parts = Partial(data, n + 1) /\ data[n + 1].kind # "zero"
  <2>1. n \in Nat /\ n <= L /\ n \in 0..L /\ n + 1 \in 1..L /\ (n + 1) - 1 = n
    BY <1>0, <1>2
  <2> DEFINE s == data[n + 1]
  <2>2. /\ w[n + 1] = FatSlot(w[n], s) /\ w[n] \in FatWalkType /\ Proper(s) /\ s \in SlotType
    BY <1>0, <2>1
  <2>3. /\ ~w[n].ended /\ s.kind # "zero"
        /\ w[n + 1].lfn_parts = IF s.kind = "lfn" /\ ~s.deleted THEN WithPart(w[n].lfn_parts, s) ELSE <<>>
    <3>1. w[n + 1].ended <=> w[n].ended \/ s.kind = "zero"
      BY <2>2, FatSlotFacts
    <3>2. ~w[n + 1].ended =>
            w[n + 1].lfn_parts = IF s.kind = "lfn" /\ ~s.deleted THEN WithPart(w[n].lfn_parts, s) ELSE <<>>
      BY <2>2, FatSlotFacts
    <3> QED BY <1>2, <3>1, <3>2
  <2>4. w[n].lfn_parts = Partial(data, n) /\ (n # 0 => data[n].kind # "zero")
    BY <2>1, <2>3
  <2>5. CASE ~(s.kind = "lfn" /\ ~s.deleted)
    <3>1. Partial(data, n + 1) = <<>>
      BY <2>5 DEF Partial
    <3> QED BY <2>3, <2>5, <3>1
  <2>6. CASE s.kind = "lfn" /\ ~s.deleted
    <3> DEFINE f == s.file
               q == s.seq
               m == Files[f].parts
               r == WithPart(w[n].lfn_parts, s)
               t == [k \in 1..m |-> IF k >= q THEN <<Part(f, k)>> ELSE <<>>]
    <3>1. /\ f \in DOMAIN Files /\ m \in Nat /\ q \in 1..m
          /\ q < m => /\ n + 1 # 1
                      /\ data[(n + 1) - 1].kind # "zero" =>
                           /\ data[(n + 1) - 1].kind = "lfn" /\ ~data[(n + 1) - 1].deleted
                           /\ data[(n + 1) - 1].file = f /\ data[(n + 1) - 1].seq = q + 1
      BY <2>1, <2>6, LfnSlot
    <3>2. Partial(data, n + 1) = t
      BY <2>1, <2>6 DEF Partial
    <3>3. w[n].lfn_parts \in Seq(Seq(PartType))
      BY <2>2 DEF FatWalkType
    <3>4. /\ r \in Seq(Seq(PartType)) /\ Len(r) = IF q = m THEN q ELSE Len(w[n].lfn_parts)
          /\ \A k \in 1..Len(r) :
               r[k] = IF k = q THEN <<Part(f, q)>> ELSE IF q = m THEN <<>> ELSE w[n].lfn_parts[k]
      BY <2>2, <3>1, <3>3, WithPartFacts
    <3> HIDE DEF r
    <3>5. Len(r) = m /\ \A k \in 1..m : r[k] = t[k]
      <4>1. CASE q = m
        BY <3>1, <3>4, <4>1
      <4>2. CASE q # m
        <5>1. q < m
          BY <3>1, <4>2
        <5>2. /\ n # 0 /\ data[n].kind = "lfn" /\ ~data[n].deleted
              /\ data[n].file = f /\ data[n].seq = q + 1
          BY <2>1, <2>4, <3>1, <5>1
        <5>3. w[n].lfn_parts = [k \in 1..m |-> IF k >= q + 1 THEN <<Part(f, k)>> ELSE <<>>]
          <6>1. n \in 1..Len(data)
            BY <2>1, <5>2
          <6> QED BY <2>4, <5>2, <6>1 DEF Partial
        <5>4. Len(w[n].lfn_parts) = m
          <6> DEFINE u == w[n].lfn_parts
          <6>1. DOMAIN u = 1..m /\ u \in Seq(Seq(PartType)) /\ m \in Nat
            BY <3>1, <3>3, <5>3
          <6> HIDE DEF u
          <6>2. Len(u) = m
            BY <6>1
          <6> QED BY <6>2 DEF u
        <5>5. Len(r) = m
          BY <3>4, <4>2, <5>4
        <5>6. ASSUME NEW k \in 1..m PROVE r[k] = t[k]
          <6>1. r[k] = IF k = q THEN <<Part(f, q)>> ELSE w[n].lfn_parts[k]
            BY <3>4, <4>2, <5>5
          <6>2. w[n].lfn_parts[k] = IF k >= q + 1 THEN <<Part(f, k)>> ELSE <<>>
            BY <5>3
          <6>3. k >= q <=> k = q \/ k >= q + 1
            BY <3>1
          <6> QED BY <6>1, <6>2, <6>3
        <5> QED BY <5>5, <5>6
      <4> QED BY <4>1, <4>2
    <3>6. r = t
      <4>1. DOMAIN r = 1..m
        BY <3>4, <3>5
      <4>2. r = [k \in 1..m |-> r[k]]
        BY <3>4, <4>1
      <4> HIDE DEF m, q, f
      <4> QED BY <3>5, <4>2
    <3> QED BY <2>3, <2>6, <3>2, <3>6 DEF r
  <2> QED BY <2>5, <2>6
<1>3. \A n \in N : n + 1 \in N
  <2> SUFFICES ASSUME NEW n \in N, n + 1 <= L PROVE Right(n + 1)
    OBVIOUS
  <2> QED BY <1>2
<1>4. N = Nat
  <2>1. N \in SUBSET Nat
    OBVIOUS
  <2> HIDE DEF N
  <2> QED BY <1>1, <1>3, <2>1, Induction
<1>5. \A i \in 0..L : Right(i)
  <2> HIDE DEF Right
  <2> QED BY <1>0, <1>4
<1> QED BY <1>5 DEF w

\* What a directory of a volume lists, but for deleted files.
Listed(e, d) ==
  /\ e.file \in Live \ {Root} /\ Home(e.file) = d /\ e.dir = Files[e.file].dir
  /\ e.name \in Seq(PartType) /\ Len(e.name) <= Len(NameOf(e.file))
  /\ \A k \in 1..Len(e.name) : e.name[k] = NameOf(e.file)[k]
  /\ fs # "exfat" => e.name = NameOf(e.file)

\* A slot that ends a set of FAT has its name read before it.
LEMMA FatNameRead ==
  ASSUME VolumeInv, fs # "exfat", NEW d \in LiveDirs, NEW data, Faithful(data, d),
         NEW m \in 1..Len(data), data[m].kind = "short", ~data[m].deleted,
         ~FatWalk(data)[m].ended
  PROVE  /\ data[m].file \in Live \ {Root} /\ Home(data[m].file) = d
         /\ FatEntry(data[m], FatWalk(data)[m - 1].lfn_parts).name = NameOf(data[m].file)
         /\ m = At(data[m].file) + Files[data[m].file].parts
<1> DEFINE w == FatWalk(data)
           s == data[m]
           f == s.file
           n == Files[f].parts
           k == (m - At(f)) + 1
           parts == w[m - 1].lfn_parts
<1>1. /\ SlotSeq(data) /\ Len(data) \in Nat /\ m \in 1..Len(Positions(d)) /\ m \in Nat
      /\ s = slots[Positions(d)[m]] /\ s \in SlotType
  BY FaithfulFacts DEF SlotSeq
<1>2. f \in DOMAIN Files \ {Root}
  BY <1>1, ProperFacts DEF SlotSeq
<1>3. IsOf(Positions(d)[m], f)
  BY <1>1 DEF IsOf
<1>4. /\ f \in Live \ {Root} /\ Home(f) = d /\ k \in 1..Len(SetOf(f))
      /\ At(f) \in Nat \ {0} /\ s = SetOf(f)[k]
  BY <1>1, <1>2, <1>3, LiveSlot
<1>5. n \in Nat /\ Len(SetOf(f)) = n + 1 /\ k = n + 1
  <2> DEFINE j == k
  <2>1. j \in 1..Len(SetOf(f)) /\ SetOf(f)[j].kind = "short"
    BY <1>4
  <2> HIDE DEF j
  <2>2. n \in Nat /\ Len(SetOf(f)) = n + 1 /\ j = n + 1
    BY <1>2, <2>1, FatSetFacts
  <2> QED BY <2>2 DEF j
<1>6. m = At(f) + n
  <2> DEFINE x == At(f)
             y == n
  <2>1. x \in Nat /\ y \in Nat /\ m \in Nat /\ (m - x) + 1 = y + 1
    BY <1>1, <1>4, <1>5
  <2> HIDE DEF x, y
  <2>2. m = x + y
    BY <2>1
  <2> QED BY <2>2 DEF x, y
<1>7. /\ w[m] = FatSlot(w[m - 1], s) /\ w[m - 1] \in FatWalkType /\ Proper(s)
      /\ m - 1 \in 0..Len(data)
  BY <1>1, FatWalkFacts, SMTT(40) DEF SlotSeq
<1>8. ~w[m - 1].ended
  BY <1>7, FatSlotFacts
<1>9. parts = Partial(data, m - 1) /\ (m - 1 # 0 => data[m - 1].kind # "zero")
  BY <1>7, <1>8, PartsSoFar
<1>10. parts \in Seq(Seq(PartType))
  BY <1>7 DEF FatWalkType
<1> DEFINE e == FatEntry(s, parts)
<1>11. e.name = IF FlattenSeq(parts) # <<>> THEN FlattenSeq(parts) ELSE <<Part(f, 0)>>
  BY <1>1, <1>2, <1>10, FatEntryFacts
<1>12. CASE n = 0
  <2>1. Partial(data, m - 1) = <<>>
    <3> SUFFICES ASSUME m - 1 \in 1..Len(data), data[m - 1].kind = "lfn", ~data[m - 1].deleted
                 PROVE  FALSE
      BY DEF Partial
    <3> DEFINE g == data[m - 1].file
               x == At(g)
               y == data[m - 1].seq
               z == Files[g].parts
    <3>1. /\ z \in Nat /\ y \in 1..z /\ (m - 1) - x = z - y /\ x \in Nat
          /\ (m - 1) + 1 \in 1..Len(data) /\ data[(m - 1) + 1].kind # "zero" => data[(m - 1) + 1].file = g
      BY LfnSlot
    <3>2. g = f
      <4>1. (m - 1) + 1 = m /\ s.kind # "zero"
        BY <1>1
      <4> QED BY <3>1, <4>1
    <3>3. z = 0
      BY <1>12, <3>2
    <3> QED BY <3>1, <3>3
  <2>2. FlattenSeq(<<>>) = <<>>
    BY DEF FlattenSeq
  <2>3. e.name = <<Part(f, 0)>>
    BY <1>9, <1>11, <2>1, <2>2
  <2>4. e.name = NameOf(f)
    BY <1>2, <1>12, <2>3, NameFacts
  <2> QED BY <1>4, <1>6, <2>4
<1>13. CASE n # 0
  <2>1. n \in 1..Len(SetOf(f)) /\ At(f) + n - 1 = m - 1
    <3> DEFINE x == At(f)
               y == n
    <3>1. x \in Nat /\ y \in Nat /\ y # 0 /\ m = x + y /\ Len(SetOf(f)) = y + 1
      BY <1>4, <1>5, <1>6, <1>13
    <3> HIDE DEF x, y
    <3>2. y \in 1..Len(SetOf(f)) /\ x + y - 1 = m - 1
      BY ONLY <3>1
    <3> QED BY <3>2 DEF x, y
  <2>2. m - 1 \in 1..Len(Positions(d)) /\ slots[Positions(d)[m - 1]] = SetOf(f)[n]
    BY <1>4, <2>1, SlotsOfLive, ZenonT(60)
  <2>3. m - 1 \in 1..Len(data) /\ m - 1 # 0
    BY <1>1, <2>2
  <2>4. data[m - 1] = SetOf(f)[n]
    BY <1>9, <2>2, <2>3, FaithfulFacts
  <2>5. /\ SetOf(f)[n].kind = "lfn" /\ SetOf(f)[n].seq = n + 1 - n
        /\ SetOf(f)[n].file = f /\ ~SetOf(f)[n].deleted
    <3>1. n <= n /\ f \in DOMAIN Files
      BY <1>2, <1>5
    <3> DEFINE j == n
    <3>2. j \in 1..Len(SetOf(f)) /\ j <= n
      BY <2>1, <3>1
    <3> HIDE DEF f, j
    <3>3. /\ SetOf(f)[j].kind = "lfn" /\ SetOf(f)[j].seq = n + 1 - j
          /\ SetOf(f)[j].file = f /\ ~SetOf(f)[j].deleted
      BY <3>1, <3>2, FatSetFacts, SMTT(40)
    <3> QED BY <3>3 DEF j
  <2>6. parts = [q \in 1..n |-> IF q >= n + 1 - n THEN <<Part(f, q)>> ELSE <<>>]
    BY <1>9, <2>3, <2>4, <2>5 DEF Partial
  <2>7. parts = [q \in 1..n |-> <<Part(f, q)>>]
    <3> DEFINE y == n
    <3>1. y \in Nat /\ parts = [q \in 1..y |-> IF q >= y + 1 - y THEN <<Part(f, q)>> ELSE <<>>]
      BY <1>5, <2>6
    <3> HIDE DEF y, parts, f
    <3>2. \A q \in 1..y : q >= y + 1 - y
      BY <3>1
    <3>3. parts = [q \in 1..y |-> <<Part(f, q)>>]
      BY <3>1, <3>2
    <3> QED BY <3>3 DEF y
  <2>8. FlattenSeq(parts) = [q \in 1..n |-> Part(f, q)]
    <3>1. f \in Nat
      BY <1>2, FileFacts
    <3> HIDE DEF parts, f
    <3> QED BY <1>5, <2>7, <3>1, FlattenSingles
  <2>9. NameOf(f) = [q \in 1..n |-> Part(f, q)]
    BY <1>13 DEF NameOf
  <2>10. FlattenSeq(parts) # <<>>
    <3>1. Len(NameOf(f)) = n
      BY <1>2, <1>13, NameFacts
    <3>2. Len(<<>>) = 0
      OBVIOUS
    <3> QED BY <1>13, <2>8, <2>9, <3>1, <3>2
  <2>11. e.name = NameOf(f)
    BY <1>11, <2>8, <2>9, <2>10
  <2> QED BY <1>4, <1>6, <2>11
<1> QED BY <1>12, <1>13

\* What is read of a directory of FAT is in it.
LEMMA FatSound ==
  ASSUME VolumeInv, fs # "exfat", NEW d \in LiveDirs, NEW data, Faithful(data, d),
         NEW j \in 1..Len(FatEntries(data)), ~FatEntries(data)[j].deleted
  PROVE  Listed(FatEntries(data)[j], d)
<1> DEFINE e == FatEntries(data)[j]
           w == FatWalk(data)
<1>1. SlotSeq(data)
  BY FaithfulFacts
<1>2. PICK m \in 1..Len(data) : /\ data[m].kind = "short" /\ ~w[m].ended
                                /\ e = FatEntry(data[m], w[m - 1].lfn_parts)
  BY <1>1, FatEntryOfSlot
<1>3. /\ m - 1 \in 0..Len(data) /\ data[m] \in SlotType /\ Proper(data[m])
      /\ w[m - 1] \in FatWalkType
  BY <1>1, FatWalkFacts DEF SlotSeq
<1>4. w[m - 1].lfn_parts \in Seq(Seq(PartType)) /\ data[m].file \in DOMAIN Files
  BY <1>2, <1>3, ProperFacts DEF FatWalkType
<1>5. e.file = data[m].file /\ e.dir = Files[data[m].file].dir /\ e.deleted = data[m].deleted
  BY <1>2, <1>3, <1>4, FatEntryFacts, ZenonT(60)
<1>6. ~data[m].deleted
  BY <1>5
<1>7. data[m].file \in Live \ {Root} /\ Home(data[m].file) = d /\ e.name = NameOf(data[m].file)
  BY <1>2, <1>6, FatNameRead
<1>8. NameOf(e.file) \in Seq(PartType) /\ Len(NameOf(e.file)) \in Nat
  BY <1>4, <1>5, NameFacts
<1> QED BY <1>5, <1>7, <1>8 DEF Listed

\* The slots of exFAT, by their place in the set.
LEMMA ExfatSetFacts ==
  ASSUME fs = "exfat", NEW f \in DOMAIN Files, NEW k \in 1..Len(SetOf(f))
  PROVE  LET n == Files[f].parts
         IN  /\ n \in Nat /\ Len(SetOf(f)) = n + 2 /\ k \in Nat
             /\ SetOf(f)[k].kind = "file" <=> k = 1
             /\ SetOf(f)[k].kind = "stream" <=> k = 2
             /\ SetOf(f)[k].kind = "name" <=> k >= 3
             /\ k >= 3 => SetOf(f)[k].seq = k - 2
             /\ SetOf(f)[k].file = f /\ ~SetOf(f)[k].deleted
<1>1. Files[f].parts \in Nat /\ Len(SetOf(f)) = Files[f].parts + 2
  BY FileFacts, SetFacts
<1>2. SetOf(f)[k] = IF k = 1 THEN Slot("file", f, 0) ELSE IF k = 2 THEN Slot("stream", f, 0)
                    ELSE Slot("name", f, k - 2)
  BY SetFacts DEF SlotOf
<1>3. CASE k = 1
  <2>1. SetOf(f)[k] = Slot("file", f, 0)
    BY <1>2, <1>3
  <2> QED BY <1>1, <1>3, <2>1 DEF Slot
<1>4. CASE k = 2
  <2>1. SetOf(f)[k] = Slot("stream", f, 0)
    BY <1>2, <1>4
  <2> QED BY <1>1, <1>4, <2>1 DEF Slot
<1>5. CASE k # 1 /\ k # 2
  <2>1. SetOf(f)[k] = Slot("name", f, k - 2) /\ k >= 3
    BY <1>1, <1>2, <1>5
  <2> QED BY <1>1, <1>5, <2>1 DEF Slot
<1> QED BY <1>3, <1>4, <1>5

\* The entry a set gives is what its slots say.
LEMMA EntrySetRead ==
  ASSUME NEW data, SlotSeq(data), NEW i \in 1..Len(data), data[i].kind = "file",
         NEW e, EntrySet(data, i) = <<e>>
  PROVE  e \in EntryRecord /\ EntryOf(data, i, e)
<1>1. EntrySet(data, i) # <<>>
  <2>1. <<e>> # <<>>
    OBVIOUS
  <2> QED BY <2>1
<1>2. \/ EntrySet(data, i) = <<>>
      \/ \E x \in EntryRecord : EntryOf(data, i, x)
  BY EntrySetFacts DEF NoEntry
<1>3. PICK x \in EntryRecord : EntryOf(data, i, x)
  BY <1>1, <1>2
<1>4. EntrySet(data, i) = <<x>>
  BY <1>3 DEF EntryOf
<1>5. <<x>> = <<e>>
  BY <1>4
<1>6. x = e
  BY <1>5
<1> QED BY <1>3, <1>6

\* The slots behind the head at m are those of its file, as far as they were read.
SetStands(data, m, f) ==
  \A k \in 1..(Files[f].parts + 1) :
    m + k \in 1..Len(data) /\ data[m + k].kind # "zero" => data[m + k] = SetOf(f)[k + 1]

\* The head of a set in use: whose it is, and what stands behind it.
LEMMA ExfatHead ==
  ASSUME VolumeInv, fs = "exfat", NEW d \in LiveDirs, NEW data, Faithful(data, d),
         NEW m \in 1..Len(data), data[m].kind = "file", ~data[m].deleted
  PROVE  /\ data[m].file \in Live \ {Root} /\ data[m].file \in DOMAIN Files
         /\ Home(data[m].file) = d /\ m = At(data[m].file)
         /\ Files[data[m].file].parts \in Nat \ {0} /\ m \in Nat
         /\ SetStands(data, m, data[m].file)
<1> DEFINE f == data[m].file
           n == Files[f].parts
<1>1. /\ SlotSeq(data) /\ Len(data) \in Nat /\ m \in 1..Len(Positions(d)) /\ m \in Nat
      /\ data[m] = slots[Positions(d)[m]]
  BY FaithfulFacts
<1>2. f \in DOMAIN Files \ {Root}
  BY <1>1, ProperFacts DEF SlotSeq
<1>3. IsOf(Positions(d)[m], f)
  BY <1>1 DEF IsOf
<1>4. /\ f \in Live \ {Root} /\ Home(f) = d /\ (m - At(f)) + 1 \in 1..Len(SetOf(f))
      /\ At(f) \in Nat \ {0} /\ data[m] = SetOf(f)[(m - At(f)) + 1]
  BY <1>1, <1>2, <1>3, LiveSlot
<1> DEFINE j == (m - At(f)) + 1
<1>5. j \in 1..Len(SetOf(f)) /\ SetOf(f)[j].kind = "file"
  BY <1>4
<1> HIDE DEF j
<1>6. j = 1 /\ n \in Nat /\ Len(SetOf(f)) = n + 2
  BY <1>2, <1>5, ExfatSetFacts
<1>7. m = At(f)
  <2>1. (m - At(f)) + 1 = 1
    BY <1>6 DEF j
  <2> QED BY <1>1, <1>4, <2>1
<1>8. n # 0
  <2>1. Files[f].parts > 0
    BY <1>4 DEF VolumeInv, Table
  <2> QED BY <1>6, <2>1
<1>9. ASSUME NEW k \in 1..(n + 1), m + k \in 1..Len(data), data[m + k].kind # "zero"
      PROVE  data[m + k] = SetOf(f)[k + 1]
  <2>1. k + 1 \in 1..Len(SetOf(f))
    <3> DEFINE y == n
    <3>1. y \in Nat /\ k \in 1..(y + 1) /\ Len(SetOf(f)) = y + 2
      BY <1>6
    <3> HIDE DEF y
    <3>2. k + 1 \in 1..(y + 2)
      BY ONLY <3>1
    <3> QED BY <3>1, <3>2
  <2>2. At(f) + (k + 1) - 1 = m + k
    BY <1>1, <1>7
  <2>3. slots[Positions(d)[m + k]] = SetOf(f)[k + 1]
    BY <1>4, <2>1, <2>2, SlotsOfLive, ZenonT(60)
  <2>4. data[m + k] = slots[Positions(d)[m + k]]
    BY <1>9, FaithfulFacts
  <2> QED BY <2>3, <2>4
<1>10. SetStands(data, m, f)
  BY <1>9 DEF SetStands
<1> QED BY <1>1, <1>2, <1>4, <1>6, <1>7, <1>8, <1>10

\* The entry of a set that was read without the slots of others.
LEMMA ExfatEntryRead ==
  ASSUME fs = "exfat", NEW data, SlotSeq(data), NEW m \in 1..Len(data), data[m].kind = "file",
         data[m].file \in DOMAIN Files, Files[data[m].file].parts \in Nat \ {0},
         SetStands(data, m, data[m].file), NEW e, EntrySet(data, m) = <<e>>
  PROVE  LET f == data[m].file
         IN  /\ e \in EntryRecord /\ e.file = f /\ e.deleted = data[m].deleted
             /\ e.dir = Files[f].dir
             /\ e.name \in Seq(PartType) /\ Len(e.name) <= Len(NameOf(f))
             /\ \A k \in 1..Len(e.name) : e.name[k] = NameOf(f)[k]
             /\ (\A k \in 1..(Files[f].parts + 1) :
                   m + k \in 1..Len(data) /\ data[m + k].kind # "zero")
                => e.name = NameOf(f)
<1> DEFINE f == data[m].file
           N == Files[f].parts
<1>2. SlotSeq(data) /\ Len(data) \in Nat
  BY DEF SlotSeq
<1>0. \A k \in 1..(N + 1) :
        m + k \in 1..Len(data) /\ data[m + k].kind # "zero" => data[m + k] = SetOf(f)[k + 1]
  BY Zenon DEF SetStands
<1>1. /\ f \in DOMAIN Files /\ m \in Nat /\ N \in Nat \ {0}
      /\ \A k \in 1..(N + 1) :
           m + k \in 1..Len(data) /\ data[m + k].kind # "zero" => data[m + k] = SetOf(f)[k + 1]
  <2>1. m \in Nat
    BY <1>2
  <2> QED BY <1>0, <2>1
<1>3. e \in EntryRecord /\ EntryOf(data, m, e)
  BY <1>2, EntrySetRead, SMTT(40)
<1>4. PICK n \in 1..N :
        /\ EntrySet(data, m) = <<e>> /\ IsKind(data, m + 1, "stream")
        /\ e.file = data[m + 1].file /\ e.dir = Files[f].dir
        /\ e.deleted = data[m].deleted
        /\ \A k \in 1..n : IsKind(data, m + 1 + k, "name")
        /\ n = N \/ ~IsKind(data, m + 2 + n, "name")
        /\ Len(e.name) = IF n <= Files[e.file].parts THEN n ELSE Files[e.file].parts
        /\ \A k \in 1..Len(e.name) :
             e.name[k] = Part(data[m + 1 + k].file, data[m + 1 + k].seq)
  BY <1>3 DEF EntryOf
<1> HIDE DEF f
<1>6. Len(SetOf(f)) = N + 2
  BY <1>1, SetFacts
<1>7. ASSUME NEW k \in 0..N, m + 1 + k <= Len(data), data[m + 1 + k].kind # "zero"
      PROVE  data[m + 1 + k] = SetOf(f)[k + 2] /\ k + 2 \in 1..Len(SetOf(f))
  <2> DEFINE y == N
  <2>1. y \in Nat /\ k \in 0..y /\ m \in Nat /\ Len(SetOf(f)) = y + 2
    BY <1>1, <1>6
  <2> HIDE DEF y
  <2>2. /\ k + 1 \in 1..(y + 1) /\ m + (k + 1) = m + 1 + k /\ (k + 1) + 1 = k + 2
        /\ k + 2 \in 1..(y + 2) /\ m + 1 + k >= 1 /\ m + 1 + k \in Nat
    BY ONLY <2>1
  <2>3. m + (k + 1) \in 1..Len(data)
    BY <1>2, <1>7, <2>2
  <2>4. data[m + (k + 1)] = SetOf(f)[(k + 1) + 1]
    BY <1>1, <1>7, <2>2, <2>3 DEF y
  <2> QED BY <2>1, <2>2, <2>4
<1>8. e.file = f
  <2>1. m + 1 + 0 <= Len(data) /\ m + 1 + 0 = m + 1 /\ data[m + 1].kind = "stream" /\ 0 \in 0..N
    BY <1>1, <1>4 DEF IsKind
  <2>2. data[m + 1] = SetOf(f)[0 + 2] /\ 0 + 2 \in 1..Len(SetOf(f))
    BY <1>7, <2>1
  <2>3. SetOf(f)[0 + 2].file = f
    BY <1>1, <2>2, SetFacts
  <2> QED BY <1>4, <2>2, <2>3
<1>9. Len(e.name) = n /\ n \in 1..N
  <2>1. n <= N /\ n \in 1..N
    BY <1>1
  <2> QED BY <1>4, <1>8, <2>1
<1>10. ASSUME NEW k \in 1..n PROVE e.name[k] = Part(f, k)
  <2>1. k \in 0..N /\ k >= 1 /\ k \in Nat
    BY <1>1, <1>9
  <2>2. m + 1 + k <= Len(data) /\ data[m + 1 + k].kind = "name"
    BY <1>4 DEF IsKind
  <2>3. data[m + 1 + k] = SetOf(f)[k + 2] /\ k + 2 \in 1..Len(SetOf(f))
    BY <1>7, <2>1, <2>2
  <2>4. k + 2 >= 3 /\ (k + 2) - 2 = k
    BY <2>1
  <2> DEFINE j == k + 2
  <2> HIDE DEF j
  <2>5. j \in 1..Len(SetOf(f)) /\ j >= 3
    BY <2>3, <2>4 DEF j
  <2>6. SetOf(f)[j].file = f /\ SetOf(f)[j].seq = j - 2
    BY <1>1, <2>5, ExfatSetFacts
  <2>7. data[m + 1 + k].file = f /\ data[m + 1 + k].seq = k
    BY <2>3, <2>4, <2>6 DEF j
  <2>8. e.name[k] = Part(data[m + 1 + k].file, data[m + 1 + k].seq)
    BY <1>4, <1>9
  <2> QED BY <2>7, <2>8
<1>11. /\ NameOf(f) \in Seq(PartType) /\ Len(NameOf(f)) = N
       /\ \A k \in 1..N : NameOf(f)[k] = Part(f, k)
  BY <1>1, NameFacts
<1>12. \A k \in 1..n : k \in 1..N /\ e.name[k] = NameOf(f)[k]
  <2>1. \A k \in 1..n : k \in 1..N
    BY <1>1, <1>9
  <2> QED BY <1>10, <1>11, <2>1
<1>13. e.name \in Seq(PartType)
  BY <1>3 DEF EntryRecord
<1>14. Len(e.name) <= Len(NameOf(f))
  <2>1. n <= N
    BY <1>1, <1>9
  <2> QED BY <1>9, <1>11, <2>1
<1>15. ASSUME \A k \in 1..(N + 1) : m + k \in 1..Len(data) /\ data[m + k].kind # "zero"
       PROVE  e.name = NameOf(f)
  <2>1. n = N
    <3> SUFFICES ASSUME n # N PROVE FALSE
      OBVIOUS
    <3> DEFINE y == N
    <3>1. y \in Nat /\ n \in 1..y /\ n # y /\ m \in Nat /\ Len(SetOf(f)) = y + 2
      BY <1>1, <1>6, <1>9
    <3> HIDE DEF y
    <3>2. /\ n + 2 \in 1..(y + 1) /\ n + 1 \in 0..y /\ m + (n + 2) = m + 2 + n
          /\ m + 1 + (n + 1) = m + 2 + n /\ (n + 1) + 2 >= 3
      BY ONLY <3>1
    <3>3. m + 2 + n \in 1..Len(data) /\ data[m + 2 + n].kind # "zero"
      <4>1. m + (n + 2) \in 1..Len(data) /\ data[m + (n + 2)].kind # "zero"
        BY <1>15, <3>2 DEF y
      <4> QED BY <3>2, <4>1
    <3>4. data[m + 2 + n] = SetOf(f)[(n + 1) + 2] /\ (n + 1) + 2 \in 1..Len(SetOf(f))
      BY <1>2, <1>7, <3>2, <3>3 DEF y
    <3>5. SetOf(f)[(n + 1) + 2].kind = "name"
      BY <1>1, <3>2, <3>4, ExfatSetFacts
    <3>6. IsKind(data, m + 2 + n, "name")
      BY <1>2, <3>3, <3>4, <3>5 DEF IsKind
    <3> QED BY <1>4, <3>1, <3>6 DEF y
  <2>2. Len(e.name) = Len(NameOf(f)) /\ \A k \in 1..Len(e.name) : e.name[k] = NameOf(f)[k]
    BY <1>9, <1>11, <1>12, <2>1
  <2>3. NameOf(f) \in Seq(PartType)
    BY <1>11
  <2> QED BY ONLY <1>13, <2>2, <2>3, SeqEqual
<1>16. \A k \in 1..Len(e.name) : e.name[k] = NameOf(f)[k]
  BY <1>9, <1>12
<1> QED BY <1>3, <1>4, <1>8, <1>13, <1>14, <1>15, <1>16 DEF f

\* The entry of a set in use.
LEMMA ExfatSetRead ==
  ASSUME VolumeInv, fs = "exfat", NEW d \in LiveDirs, NEW data, Faithful(data, d),
         NEW m \in 1..Len(data), data[m].kind = "file", ~data[m].deleted,
         NEW e, EntrySet(data, m) = <<e>>
  PROVE  e.file = data[m].file /\ Listed(e, d)
<1> DEFINE f == data[m].file
<1>1. SlotSeq(data)
  BY FaithfulFacts
<1>2. /\ f \in Live \ {Root} /\ f \in DOMAIN Files /\ Home(f) = d
      /\ Files[f].parts \in Nat \ {0} /\ SetStands(data, m, f)
  BY ExfatHead
<1>3. /\ e.file = f /\ e.dir = Files[f].dir
      /\ e.name \in Seq(PartType) /\ Len(e.name) <= Len(NameOf(f))
      /\ \A k \in 1..Len(e.name) : e.name[k] = NameOf(f)[k]
  BY <1>1, <1>2, ExfatEntryRead
<1> QED BY <1>2, <1>3 DEF Listed

\* What is read of a directory of exFAT is in it.
LEMMA ExfatSound ==
  ASSUME VolumeInv, fs = "exfat", NEW d \in LiveDirs, NEW data, Faithful(data, d),
         NEW j \in 1..Len(ExfatEntries(data)), ~ExfatEntries(data)[j].deleted
  PROVE  Listed(ExfatEntries(data)[j], d)
<1> DEFINE e == ExfatEntries(data)[j]
<1>1. SlotSeq(data)
  BY FaithfulFacts
<1>2. PICK m \in 1..Len(data) : data[m].kind = "file" /\ EntrySet(data, m) = <<e>>
  BY <1>1, ExfatEntryOfHead
<1>3. e.deleted = data[m].deleted
  <2> HIDE DEF e
  <2>1. EntryOf(data, m, e)
    BY <1>1, <1>2, EntrySetRead
  <2> QED BY <2>1 DEF EntryOf
<1>4. ~data[m].deleted
  BY <1>3
<1> HIDE DEF e
<1>5. Listed(e, d)
  BY <1>2, <1>4, ExfatSetRead
<1> QED BY <1>5 DEF e

\* What is read of a directory is in it.
LEMMA ParseSound ==
  ASSUME VolumeInv, NEW d \in LiveDirs, NEW data, Faithful(data, d),
         NEW j \in 1..Len(ParseDirectory(data)), ~ParseDirectory(data)[j].deleted
  PROVE  Listed(ParseDirectory(data)[j], d)
<1>1. CASE fs = "exfat"
  <2>1. ParseDirectory(data) = ExfatEntries(data)
    BY <1>1 DEF ParseDirectory
  <2> QED BY <1>1, <2>1, ExfatSound
<1>2. CASE fs # "exfat"
  <2>1. ParseDirectory(data) = FatEntries(data)
    BY <1>2 DEF ParseDirectory
  <2> QED BY <1>2, <2>1, FatSound
<1> QED BY <1>1, <1>2

\* What is parsed are entries, whatever was read.
LEMMA ParseTyped ==
  ASSUME NEW data, SlotSeq(data)
  PROVE  ParseDirectory(data) \in Seq(EntryRecord)
BY FatEntryOfSlot, ExfatEntryOfHead DEF ParseDirectory

-----------------------------------------------------------------------------
(* The clusters of a list of runs, run by run.                             *)

ClustersTo(rs, k) == ClustersOf(SubSeq(rs, 1, k))

\* One run more.
LEMMA ClustersToNext ==
  ASSUME NEW rs \in Seq(RunType), NEW m \in Nat, m < Len(rs)
  PROVE  /\ ClustersTo(rs, m) \in Seq(Nat) /\ ClustersTo(rs, m + 1) \in Seq(Nat)
         /\ rs[m + 1] \in RunType /\ rs[m + 1].count \in Nat /\ rs[m + 1].cluster \in Nat
         /\ Len(ClustersTo(rs, m)) \in Nat
         /\ Len(ClustersTo(rs, m + 1)) = Len(ClustersTo(rs, m)) + rs[m + 1].count
         /\ \A i \in 1..Len(ClustersTo(rs, m)) : ClustersTo(rs, m + 1)[i] = ClustersTo(rs, m)[i]
         /\ \A j \in 1..rs[m + 1].count :
              ClustersTo(rs, m + 1)[Len(ClustersTo(rs, m)) + j] = rs[m + 1].cluster + j - 1
<1> DEFINE f == SubSeq(rs, 1, m)
           g == SubSeq(rs, 1, m + 1)
           r == rs[m + 1]
<1>1. Len(rs) \in Nat /\ m + 1 \in 1..Len(rs) /\ r \in RunType
  <2>1. Len(rs) \in Nat /\ m + 1 \in 1..Len(rs)
    OBVIOUS
  <2> QED BY <2>1
<1>2. /\ f \in Seq(RunType) /\ Len(f) = m /\ \A k \in 1..m : f[k] = rs[k]
      /\ g \in Seq(RunType) /\ Len(g) = m + 1 /\ \A k \in 1..(m + 1) : g[k] = rs[k]
  BY <1>1
<1> HIDE DEF f, g
<1>3. g = Append(f, r)
  <2>1. /\ Append(f, r) \in Seq(RunType) /\ Len(Append(f, r)) = m + 1
        /\ \A k \in 1..m : Append(f, r)[k] = f[k]
        /\ Append(f, r)[m + 1] = r
    BY <1>1, <1>2, AppendProperties
  <2>2. \A k \in 1..(m + 1) : g[k] = Append(f, r)[k]
    <3>1. \A k \in 1..(m + 1) : k \in 1..m \/ k = m + 1
      OBVIOUS
    <3> QED BY <1>2, <2>1, <3>1
  <2> QED BY ONLY <1>2, <2>1, <2>2, SeqEqual
<1>4. r.count \in Nat /\ r.cluster \in Nat
  BY <1>1 DEF RunType
<1>5. ClustersTo(rs, m) = ClustersOf(f) /\ ClustersTo(rs, m + 1) = ClustersOf(Append(f, r))
  BY <1>3 DEF ClustersTo, f, g
<1> HIDE DEF r
<1>6. /\ ClustersOf(f) \in Seq(Nat) /\ ClustersOf(Append(f, r)) \in Seq(Nat)
      /\ Len(ClustersOf(Append(f, r))) = Len(ClustersOf(f)) + r.count
      /\ \A k \in 1..Len(ClustersOf(f)) : ClustersOf(Append(f, r))[k] = ClustersOf(f)[k]
      /\ \A j \in 1..r.count :
           ClustersOf(Append(f, r))[Len(ClustersOf(f)) + j] = r.cluster + j - 1
  BY <1>1, <1>2, ClustersAppend, ZenonT(60)
<1>7. Len(ClustersOf(f)) \in Nat
  BY <1>6
<1> QED BY <1>1, <1>4, <1>5, <1>6, <1>7 DEF r

\* From none to all.
LEMMA ClustersToAll ==
  ASSUME NEW rs \in Seq(RunType)
  PROVE  /\ ClustersTo(rs, 0) = <<>> /\ ClustersTo(rs, Len(rs)) = ClustersOf(rs)
         /\ ClustersOf(rs) \in Seq(Nat) /\ Len(ClustersOf(rs)) \in Nat /\ Len(rs) \in Nat
<1>0. Len(rs) \in Nat
  OBVIOUS
<1>1. SubSeq(rs, 1, 0) = <<>>
  OBVIOUS
<1>2. ClustersOf(<<>>) = <<>>
  BY DEF ClustersOf, FlattenSeq
<1>3. SubSeq(rs, 1, Len(rs)) = rs
  <2> DEFINE f == SubSeq(rs, 1, Len(rs))
  <2>1. f \in Seq(RunType) /\ Len(f) = Len(rs) /\ \A k \in 1..Len(f) : f[k] = rs[k]
    BY <1>0
  <2>2. rs \in Seq(RunType)
    OBVIOUS
  <2> HIDE DEF f
  <2> QED BY <2>1, <2>2, SeqEqual DEF f
<1>4. ClustersOf(rs) \in Seq(Nat)
  <2>1. Run(0, 0) \in RunType
    BY DEF Run, RunType
  <2> QED BY <2>1, ClustersAppend
<1>5. Len(ClustersOf(rs)) \in Nat
  BY <1>4
<1> QED BY <1>0, <1>1, <1>2, <1>3, <1>4, <1>5 DEF ClustersTo

\* The clusters of the first runs are the first clusters.
LEMMA ClustersToPrefix ==
  ASSUME NEW rs \in Seq(RunType), NEW m \in Nat, m <= Len(rs)
  PROVE  /\ ClustersTo(rs, m) \in Seq(Nat) /\ Len(ClustersTo(rs, m)) \in Nat
         /\ Len(ClustersTo(rs, m)) <= Len(ClustersOf(rs))
         /\ \A i \in 1..Len(ClustersTo(rs, m)) : ClustersOf(rs)[i] = ClustersTo(rs, m)[i]
<1> DEFINE L == Len(rs)
           Good(k) == /\ ClustersTo(rs, k) \in Seq(Nat) /\ Len(ClustersTo(rs, k)) \in Nat
                      /\ Len(ClustersTo(rs, k)) <= Len(ClustersOf(rs))
                      /\ \A i \in 1..Len(ClustersTo(rs, k)) : ClustersOf(rs)[i] = ClustersTo(rs, k)[i]
           M == {q \in Nat : q <= L => Good(L - q)}
<1>0. L \in Nat
  OBVIOUS
<1>1. 0 \in M
  <2>1. Good(L)
    BY ClustersToAll
  <2>2. L - 0 = L
    BY <1>0
  <2> HIDE DEF Good
  <2> QED BY <2>1, <2>2
<1>2. ASSUME NEW q \in M PROVE q + 1 \in M
  <2>1. q \in Nat /\ (q <= L => Good(L - q))
    OBVIOUS
  <2>2. ASSUME q + 1 <= L PROVE Good(L - (q + 1))
    <3> DEFINE k == L - (q + 1)
    <3>1. k \in Nat /\ k < L /\ k + 1 = L - q /\ q <= L
      BY <1>0, <2>1, <2>2, SMTT(40)
    <3>2. Good(k + 1)
      <4> HIDE DEF Good
      <4> QED BY <2>1, <3>1
    <3> HIDE DEF k
    <3> DEFINE a == ClustersTo(rs, k)
               b == ClustersTo(rs, k + 1)
               c == ClustersOf(rs)
               n == rs[k + 1].count
    <3>3. /\ a \in Seq(Nat) /\ b \in Seq(Nat) /\ Len(a) \in Nat /\ n \in Nat
          /\ Len(b) = Len(a) + n /\ \A i \in 1..Len(a) : b[i] = a[i]
      BY <3>1, ClustersToNext
    <3>4. Len(b) <= Len(c) /\ (\A i \in 1..Len(b) : c[i] = b[i]) /\ Len(c) \in Nat
      BY <3>2, ClustersToAll
    <3> HIDE DEF a, b, c, n
    <3>5. Len(a) <= Len(c) /\ \A i \in 1..Len(a) : c[i] = a[i]
      BY <3>3, <3>4, SMTT(40)
    <3> QED BY <3>3, <3>5 DEF k, a, b, c
  <2> HIDE DEF Good
  <2> QED BY <2>1, <2>2
<1>3. M = Nat
  <2>1. M \in SUBSET Nat
    OBVIOUS
  <2> HIDE DEF M
  <2> QED BY <1>1, <1>2, <2>1, Induction
<1>4. Good(m)
  <2>1. L - m \in Nat /\ L - m <= L /\ L - (L - m) = m
    BY <1>0
  <2>2. L - m \in M
    BY <1>3, <2>1
  <2> HIDE DEF Good
  <2> QED BY <2>1, <2>2
<1> QED BY <1>4

\* Where the clusters of a run are among all.
LEMMA RunInClusters ==
  ASSUME NEW rs \in Seq(RunType), NEW m \in Nat, m < Len(rs), NEW j \in 1..rs[m + 1].count
  PROVE  /\ Len(ClustersTo(rs, m)) + j \in 1..Len(ClustersOf(rs))
         /\ ClustersOf(rs)[Len(ClustersTo(rs, m)) + j] = rs[m + 1].cluster + j - 1
<1> DEFINE a == ClustersTo(rs, m)
           b == ClustersTo(rs, m + 1)
           c == ClustersOf(rs)
           n == rs[m + 1].count
           q == rs[m + 1].cluster
<1>1. Len(rs) \in Nat /\ m + 1 \in Nat /\ m + 1 <= Len(rs)
  OBVIOUS
<1>2. /\ Len(a) \in Nat /\ n \in Nat /\ Len(b) = Len(a) + n
      /\ \A i \in 1..n : b[Len(a) + i] = q + i - 1
  BY ClustersToNext
<1>3. Len(b) <= Len(c) /\ (\A i \in 1..Len(b) : c[i] = b[i]) /\ Len(c) \in Nat
  BY <1>1, ClustersToPrefix, ClustersToAll
<1>4. j \in 1..n
  OBVIOUS
<1> HIDE DEF a, b, c, n, q
<1>5. Len(a) + j \in 1..Len(b) /\ Len(a) + j \in 1..Len(c)
  BY <1>2, <1>3, <1>4
<1>6. c[Len(a) + j] = q + j - 1
  BY <1>2, <1>3, <1>4, <1>5
<1> QED BY <1>5, <1>6 DEF a, c, q

\* Runs that follow a chain are of clusters of the data area.
OnDisk(rs) == rs \in Seq(RunType) /\ \A k \in 1..Len(rs) : rs[k].count = 0 \/ rs[k].cluster >= 2

\* The runs of a chain that was followed lie in the data area.
LEMMA FollowsOnDisk ==
  ASSUME NEW rs \in Seq(RunType), NEW n \in Nat, Follows(rs, n)
  PROVE  OnDisk(rs)
<1>1. ASSUME NEW k \in 1..Len(rs), rs[k].count # 0 PROVE rs[k].cluster >= 2
  <2>1. k - 1 \in Nat /\ k - 1 < Len(rs) /\ (k - 1) + 1 = k
    OBVIOUS
  <2> DEFINE m == k - 1
  <2> HIDE DEF m
  <2>2. m \in Nat /\ m < Len(rs) /\ rs[m + 1] = rs[k]
    BY <2>1 DEF m
  <2>3. rs[k].count \in Nat /\ rs[k].cluster \in Nat
    BY <2>2, ClustersToNext
  <2>4. 1 \in 1..rs[m + 1].count
    BY <1>1, <2>2, <2>3
  <2> DEFINE i == Len(ClustersTo(rs, m)) + 1
  <2>5. i \in 1..Len(ClustersOf(rs)) /\ ClustersOf(rs)[i] = rs[m + 1].cluster + 1 - 1
    BY <2>2, <2>4, RunInClusters
  <2> HIDE DEF i
  <2>6. ClustersOf(rs)[i] >= 2
    BY <2>5 DEF Follows
  <2> QED BY <2>2, <2>3, <2>5, <2>6
<1> QED BY <1>1 DEF OnDisk

-----------------------------------------------------------------------------
(* What is read of a directory, whatever its runs are.                     *)

\* The greater of two numbers.
LEMMA MaxOfTwo ==
  ASSUME NEW a \in Int, NEW b \in Int
  PROVE  Max({a, b}) = IF a >= b THEN a ELSE b
<1> DEFINE m == IF a >= b THEN a ELSE b
<1>1. m \in {a, b} /\ \A y \in {a, b} : m >= y
  OBVIOUS
<1>2. \A x \in {a, b} : (\A y \in {a, b} : x >= y) => x = m
  OBVIOUS
<1> HIDE DEF m
<1> QED BY <1>1, <1>2 DEF Max, m

\* A slot that is read is as it stands or, if it was lost, zero.
LEMMA SectorFacts ==
  ASSUME VolumeInv, NEW p \in 1..SlotCount
  PROVE  Sector(p) \in SlotType /\ Proper(Sector(p)) /\ (Sector(p) = Zero \/ Sector(p) = slots[p])
<1>1. slots[p] \in SlotType /\ Proper(slots[p])
  BY DEF VolumeInv, Table
<1>2. Proper(Zero)
  BY DEF Proper
<1>3. Zero \in SlotType
  BY <1>2, ProperFacts
<1> QED BY <1>1, <1>2, <1>3 DEF Sector

\* The slot before the first of a run.
Before(run) == (run.cluster - 2) * SlotsPerCluster

\* Of a run what stands before the end of the image is read.
LEMMA ChunkFacts ==
  ASSUME VolumeInv, image_end \in 0..SlotCount,
         NEW run \in RunType, run.count = 0 \/ run.cluster >= 2
  PROVE  /\ Before(run) \in Int /\ run.count * SlotsPerCluster \in Nat
         /\ Chunk(run) \in Seq(SlotType) /\ Len(Chunk(run)) \in Nat
         /\ Len(Chunk(run)) <= run.count * SlotsPerCluster
         /\ \A i \in 1..Len(Chunk(run)) :
              Chunk(run)[i] = Sector(Before(run) + i) /\ Before(run) + i \in 1..SlotCount
         /\ \A i \in 1..(run.count * SlotsPerCluster) :
              i <= Len(Chunk(run)) <=> Before(run) + i <= image_end
<1> DEFINE first == Before(run)
           size  == run.count * SlotsPerCluster
           last  == Min({first + size, image_end})
           n     == Max({last - first, 0})
           c     == [i \in 1..n |-> Sector(first + i)]
<1>0. SlotCount \in Int /\ image_end \in Nat /\ image_end <= SlotCount
  <2>1. LastCluster \in Nat /\ SlotsPerCluster \in Nat
    BY FatTreeAssumption
  <2>2. (LastCluster - 1) * SlotsPerCluster \in Int
    <3> DEFINE y == LastCluster - 1
    <3>1. y \in Int
      BY <2>1
    <3> HIDE DEF y
    <3>2. y * SlotsPerCluster \in Int
      BY <2>1, <3>1
    <3> QED BY <3>2 DEF y
  <2>3. SlotCount \in Int
    BY <2>2 DEF SlotCount
  <2> QED BY <2>3
<1>1. first \in Int /\ size \in Nat /\ (size = 0 \/ first >= 0)
  <2>1. run.count \in Nat /\ run.cluster \in Nat /\ SlotsPerCluster \in Nat
    BY FatTreeAssumption DEF RunType
  <2> DEFINE y == run.cluster - 2
             k == run.count
             S == SlotsPerCluster
  <2>2. y \in Int /\ (k = 0 \/ y >= 0) /\ k \in Nat /\ S \in Nat
    BY <2>1
  <2> HIDE DEF y, k, S
  <2>3. y * S \in Int /\ k * S \in Nat /\ (k = 0 => k * S = 0) /\ (y >= 0 => y * S >= 0)
    BY <2>2
  <2> QED BY <2>2, <2>3 DEF y, k, S, Before
<1>2. Chunk(run) = c
  BY DEF Chunk, Before
<1> HIDE DEF first, size
<1>3. last = IF first + size <= image_end THEN first + size ELSE image_end
  <2>1. first + size \in Int /\ image_end \in Int
    BY <1>0, <1>1
  <2> QED BY <2>1, MinOfTwo
<1>4. n = IF last >= first THEN last - first ELSE 0
  <2> HIDE DEF last
  <2>1. last \in Int
    BY <1>0, <1>1, <1>3
  <2>2. last - first \in Int
    BY <1>1, <2>1
  <2>3. n = IF last - first >= 0 THEN last - first ELSE 0
    BY <2>2, MaxOfTwo
  <2> QED BY <1>1, <2>1, <2>3
<1> HIDE DEF n, last
<1>5. n \in Nat /\ n <= size
  BY <1>0, <1>1, <1>3, <1>4
<1>6. \A i \in 1..n : first + i \in 1..SlotCount
  BY <1>0, <1>1, <1>3, <1>4
<1>7. \A i \in 1..size : i <= n <=> first + i <= image_end
  BY <1>0, <1>1, <1>3, <1>4
<1>8. \A i \in 1..n : c[i] = Sector(first + i) /\ c[i] \in SlotType
  BY <1>6, SectorFacts
<1>9. c = [i \in 1..n |-> c[i]]
  OBVIOUS
<1> HIDE DEF c
<1>10. c \in Seq(SlotType) /\ Len(c) = n
  BY <1>5, <1>8, <1>9, IsSequence
<1> QED BY <1>1, <1>2, <1>5, <1>6, <1>7, <1>8, <1>10 DEF first, size

\* Slots of the image.
Sectors(data) ==
  data \in Seq(SlotType) /\ \A i \in 1..Len(data) : \E p \in 1..SlotCount : data[i] = Sector(p)

\* Sectors of the volume are proper slots.
LEMMA SectorsProper ==
  ASSUME VolumeInv, NEW data, Sectors(data)
  PROVE  SlotSeq(data) /\ Len(data) \in Nat
<1>1. \A i \in 1..Len(data) : Proper(data[i])
  BY SectorFacts DEF Sectors
<1> QED BY <1>1 DEF Sectors, SlotSeq

\* A run more.
LEMMA WithRunFacts ==
  ASSUME VolumeInv, image_end \in 0..SlotCount,
         NEW run \in RunType, run.count = 0 \/ run.cluster >= 2,
         NEW data, Sectors(data)
  PROVE  /\ Sectors(WithRun(data, run)) /\ Len(data) \in Nat
         /\ Len(data) >= MaxSize => WithRun(data, run) = data
         /\ Len(data) < MaxSize =>
              /\ Len(WithRun(data, run)) = Len(data) + Len(Chunk(run))
              /\ \A i \in 1..Len(data) : WithRun(data, run)[i] = data[i]
              /\ \A i \in 1..Len(Chunk(run)) :
                   WithRun(data, run)[Len(data) + i] = Sector(Before(run) + i)
<1> DEFINE c == Chunk(run)
           w == WithRun(data, run)
<1>0. MaxSize \in Nat /\ data \in Seq(SlotType) /\ Len(data) \in Nat
  BY FatTreeAssumption DEF Sectors
<1>1. /\ c \in Seq(SlotType) /\ Len(c) \in Nat
      /\ \A i \in 1..Len(c) : c[i] = Sector(Before(run) + i) /\ Before(run) + i \in 1..SlotCount
  BY ChunkFacts
<1>2. CASE Len(data) >= MaxSize
  <2>1. w = data
    BY <1>2 DEF WithRun
  <2> QED BY <1>0, <1>2, <2>1
<1>3. CASE ~(Len(data) >= MaxSize)
  <2>1. w = data \o c
    BY <1>3 DEF WithRun
  <2> HIDE DEF c, w
  <2>2. /\ data \o c \in Seq(SlotType) /\ Len(data \o c) = Len(data) + Len(c)
        /\ \A k \in 1..(Len(data) + Len(c)) :
             (data \o c)[k] = IF k <= Len(data) THEN data[k] ELSE c[k - Len(data)]
    BY ONLY <1>0, <1>1, ConcatProperties
  <2>3. \A i \in 1..Len(data) : w[i] = data[i]
    BY <1>0, <1>1, <2>1, <2>2
  <2>4. \A i \in 1..Len(c) : w[Len(data) + i] = c[i]
    <3> TAKE i \in 1..Len(c)
    <3> DEFINE m == Len(data)
    <3>1. m + i \in 1..(m + Len(c)) /\ ~(m + i <= m) /\ (m + i) - m = i
      BY <1>0, <1>1
    <3> HIDE DEF m
    <3>2. (data \o c)[m + i] = c[(m + i) - m]
      BY <2>2, <3>1 DEF m
    <3> QED BY <2>1, <3>1, <3>2 DEF m
  <2>5. ASSUME NEW k \in 1..Len(w) PROVE \E p \in 1..SlotCount : w[k] = Sector(p)
    <3>1. k \in 1..(Len(data) + Len(c))
      BY <2>1, <2>2
    <3>2. CASE k <= Len(data)
      <4>1. k \in 1..Len(data)
        BY <1>0, <1>1, <3>1, <3>2
      <4> QED BY <2>3, <4>1 DEF Sectors
    <3>3. CASE ~(k <= Len(data))
      <4>1. k - Len(data) \in 1..Len(c) /\ w[k] = c[k - Len(data)]
        BY <1>0, <1>1, <2>1, <2>2, <3>1, <3>3
      <4> QED BY <1>1, <4>1
    <3> QED BY <3>2, <3>3
  <2>6. Sectors(w)
    BY <2>1, <2>2, <2>5 DEF Sectors
  <2>7. Len(w) = Len(data) + Len(c)
    BY <2>1, <2>2
  <2>8. \A i \in 1..Len(c) : w[Len(data) + i] = Sector(Before(run) + i)
    BY <1>1, <2>4
  <2> QED BY <1>0, <1>3, <2>3, <2>6, <2>7, <2>8 DEF w, c
<1> QED BY <1>2, <1>3

\* What has been read of the runs of a chain, by how many were looked at.
ChainData(rs) ==
  CHOOSE data : data =
    [k \in 0..Len(rs) |-> IF k = 0 THEN <<>> ELSE WithRun(data[k - 1], rs[k])]

\* What is read of a chain, run by run.
LEMMA ChainDataFacts ==
  ASSUME VolumeInv, image_end \in 0..SlotCount, NEW rs, OnDisk(rs)
  PROVE  /\ ChainData(rs)[0] = <<>> /\ Len(rs) \in Nat
         /\ \A k \in 1..Len(rs) : ChainData(rs)[k] = WithRun(ChainData(rs)[k - 1], rs[k])
         /\ \A k \in 0..Len(rs) : Sectors(ChainData(rs)[k])
<1> DEFINE L == Len(rs)
           Is(g, m) == g = [k \in 0..m |-> IF k = 0 THEN <<>> ELSE WithRun(g[k - 1], rs[k])]
           M == {m \in Nat : \E g : Is(g, m)}
<1>0. L \in Nat /\ rs \in Seq(RunType)
  BY DEF OnDisk
<1>1. ChainData(rs) = CHOOSE g : Is(g, L)
  BY DEF ChainData
<1>3. 0 \in M
  <2>1. Is([k \in 0..0 |-> <<>>], 0)
    OBVIOUS
  <2> QED BY <2>1
<1>4. ASSUME NEW m \in M PROVE m + 1 \in M
  <2>1. m \in Nat
    OBVIOUS
  <2>2. PICK g : Is(g, m)
    OBVIOUS
  <2> DEFINE last == WithRun(g[m], rs[m + 1])
             h == [k \in 0..(m + 1) |-> IF k <= m THEN g[k] ELSE last]
  <2>3. \A k \in 0..m : g[k] = IF k = 0 THEN <<>> ELSE WithRun(g[k - 1], rs[k])
    BY <2>2
  <2>4. ASSUME NEW k \in 0..(m + 1)
        PROVE  h[k] = IF k = 0 THEN <<>> ELSE WithRun(h[k - 1], rs[k])
    <3>1. CASE k = 0
      BY <2>1, <2>3, <3>1
    <3>2. CASE k \in 1..m
      <4>1. h[k] = g[k] /\ h[k - 1] = g[k - 1]
        BY <2>1, <3>2
      <4> QED BY <4>1, <2>3, <2>1, <3>2
    <3>3. CASE k = m + 1
      <4>1. h[k] = last /\ h[k - 1] = g[m] /\ k # 0
        BY <2>1, <3>3
      <4> QED BY <3>3, <4>1
    <3> QED BY <2>1, <3>1, <3>2, <3>3
  <2>5. Is(h, m + 1)
    BY <2>4
  <2> HIDE DEF h, Is
  <2> QED BY <2>1, <2>5
<1>5. M = Nat
  <2>1. M \in SUBSET Nat
    OBVIOUS
  <2> HIDE DEF M
  <2> QED BY <1>3, <1>4, <2>1, Induction
<1>6. \E g : Is(g, L)
  <2> HIDE DEF Is, L
  <2> QED BY <1>0, <1>5
<1> DEFINE w == ChainData(rs)
<1>7. Is(w, L)
  <2> HIDE DEF Is, L
  <2> QED BY <1>1, <1>6
<1> HIDE DEF w
<1>8. w[0] = <<>> /\ \A k \in 1..L : w[k] = WithRun(w[k - 1], rs[k])
  BY <1>0, <1>7
<1> HIDE DEF Is
<1> DEFINE N == {n \in Nat : n <= L => Sectors(w[n])}
<1>9. 0 \in N
  <2>1. Sectors(<<>>)
    BY DEF Sectors
  <2> QED BY <1>8, <2>1
<1>10. ASSUME NEW n \in N PROVE n + 1 \in N
  <2>1. n \in Nat /\ (n + 1 <= L => n <= L /\ n + 1 \in 1..L /\ (n + 1) - 1 = n)
    BY <1>0
  <2>2. n + 1 <= L => Sectors(w[n + 1])
    <3> SUFFICES ASSUME n + 1 <= L PROVE Sectors(w[n + 1])
      OBVIOUS
    <3>1. Sectors(w[n])
      BY <2>1
    <3>2. w[n + 1] = WithRun(w[n], rs[n + 1])
      BY <1>8, <2>1
    <3>3. rs[n + 1] \in RunType /\ (rs[n + 1].count = 0 \/ rs[n + 1].cluster >= 2)
      BY <1>0, <2>1 DEF OnDisk
    <3> QED BY <3>1, <3>2, <3>3, WithRunFacts
  <2> QED BY <2>1, <2>2
<1>11. N = Nat
  <2>1. N \in SUBSET Nat
    OBVIOUS
  <2> HIDE DEF N
  <2> QED BY <1>9, <1>10, <2>1, Induction
<1>12. \A k \in 0..L : Sectors(w[k])
  BY <1>0, <1>11
<1> QED BY <1>0, <1>8, <1>12 DEF w

\* What DirectoryData is made of.
LEMMA DirectoryTyped ==
  ASSUME VolumeInv, image_end \in 0..SlotCount, OnDisk(runs)
  PROVE  Sectors(DirectoryData)
<1>1. CASE fs = "fat16" /\ entry.file = Root
  <2> DEFINE area == Positions(Root)
             all  == [i \in DOMAIN area |-> Sector(area[i])]
  <2>1. /\ Len(area) \in Nat /\ DOMAIN area = 1..Len(area)
        /\ \A i \in 1..Len(area) : area[i] \in 1..SlotCount
    BY FatTreeAssumption, PositionFacts
  <2>2. DirectoryData = IF \E i \in DOMAIN area : area[i] > image_end THEN <<>> ELSE all
    BY <1>1 DEF DirectoryData
  <2>3. Sectors(<<>>)
    BY DEF Sectors
  <2>4. Sectors(all)
    <3> DEFINE n == Len(area)
    <3>1. all = [i \in 1..n |-> all[i]] /\ n \in Nat
      BY <2>1
    <3>2. \A i \in 1..n : all[i] = Sector(area[i]) /\ area[i] \in 1..SlotCount /\ all[i] \in SlotType
      BY <2>1, SectorFacts
    <3> HIDE DEF all
    <3>3. all \in Seq(SlotType) /\ Len(all) = n
      BY <3>1, <3>2, IsSequence
    <3> QED BY <3>2, <3>3 DEF Sectors
  <2> QED BY <2>2, <2>3, <2>4
<1>2. CASE ~(fs = "fat16" /\ entry.file = Root)
  <2>1. DirectoryData = ChainData(runs)[Len(runs)]
    BY <1>2 DEF DirectoryData, ChainData
  <2> QED BY <2>1, ChainDataFacts
<1> QED BY <1>1, <1>2

-----------------------------------------------------------------------------
(* The state of the tree's builder, and its chains.                        *)

Frame      == [id : Nat, entries : Seq(EntryRecord)]
RecordType == [entry : EntryRecord, runs : Seq(RunType), parent : Nat]

\* Where no chain is followed, what the runs are.
Known ==
  \/ fs = "fat16" /\ entry = RootEntry /\ runs = <<>>
  \/ /\ fs = "exfat" /\ entry.contiguous
     /\ runs = <<Run(entry.start_cluster, Len(Files[entry.file].clusters))>>

TreeTyped ==
  /\ phase \in {"volume", "tree", "end"}
  /\ ChainInv /\ runs \in Seq(RunType)
  /\ image_end \in 0..SlotCount
  /\ entry \in EntryRecord /\ stack \in Seq(Frame) /\ records \in Seq(RecordType)
  /\ phase = "volume" => pc = "start" /\ entry = RootEntry /\ stack = <<>> /\ records = <<>>
  /\ pc = "known" => Known

\* The table links each cluster of a file that is chained to its next.
LEMMA TableFacts ==
  ASSUME VolumeInv
  PROVE  /\ DOMAIN TableOf = 2..LastCluster /\ \A c \in DOMAIN TableOf : TableOf[c] \in Nat
         /\ \A f \in Live : ~Contiguous(f) =>
              \A i \in 1..Len(Files[f].clusters) :
                TableOf[Files[f].clusters[i]] =
                  IF i = Len(Files[f].clusters) THEN EOC ELSE Files[f].clusters[i + 1]
<1> DEFINE chained == {f \in Live : ~Contiguous(f)}
           C(f) == Files[f].clusters
           index(f, c) == CHOOSE i \in DOMAIN C(f) : C(f)[i] = c
           after(f, c) == IF index(f, c) = Len(C(f)) THEN EOC ELSE C(f)[index(f, c) + 1]
           of(c) == CHOOSE f \in chained : c \in ToSet(C(f))
           T == [c \in 2..LastCluster |->
                   IF \E f \in chained : c \in ToSet(C(f)) THEN after(of(c), c) ELSE 0]
<1>1. TableOf = T
  BY DEF TableOf
<1>2. EOC \in Nat /\ LastCluster \in Nat
  BY FatChainAssumption, FatTreeAssumption
<1>3. \A f \in Live : f \in DOMAIN Files
  BY LiveFacts
<1>4. ASSUME NEW f \in Live, NEW i \in 1..Len(C(f))
      PROVE  /\ C(f)[i] \in 2..LastCluster /\ C(f)[i] \in ToSet(C(f)) /\ index(f, C(f)[i]) = i
             /\ Len(C(f)) \in Nat /\ DOMAIN C(f) = 1..Len(C(f))
  <2>1. /\ C(f) \in Seq(Nat) /\ Len(C(f)) \in Nat /\ C(f)[i] \in 2..LastCluster
        /\ \A k \in 1..Len(C(f)) : C(f)[k] = C(f)[i] => k = i
    BY <1>3, FileFacts
  <2>2. DOMAIN C(f) = 1..Len(C(f))
    BY <2>1
  <2> QED BY <2>1, <2>2 DEF ToSet
<1>5. ASSUME NEW f \in Live, NEW i \in 1..Len(C(f))
      PROVE  /\ after(f, C(f)[i]) = IF i = Len(C(f)) THEN EOC ELSE C(f)[i + 1]
             /\ after(f, C(f)[i]) \in Nat
  <2>1. index(f, C(f)[i]) = i /\ Len(C(f)) \in Nat
    BY <1>4
  <2>2. after(f, C(f)[i]) = IF i = Len(C(f)) THEN EOC ELSE C(f)[i + 1]
    <3> HIDE DEF index
    <3> QED BY <2>1
  <2> HIDE DEF after
  <2>3. ASSUME i # Len(C(f)) PROVE C(f)[i + 1] \in Nat
    <3>1. i + 1 \in 1..Len(C(f))
      BY <2>1, <2>3
    <3>2. C(f)[i + 1] \in 2..LastCluster
      BY <1>4, <3>1
    <3> QED BY <1>2, <3>2
  <2> QED BY <1>2, <2>2, <2>3
<1>6. ASSUME NEW c, NEW f \in chained, c \in ToSet(C(f))
      PROVE  of(c) = f
  <2>1. \A g \in chained : c \in ToSet(C(g)) => g = f
    <3>1. \A g \in chained : g # f => ToSet(C(g)) \cap ToSet(C(f)) = {}
      BY DEF VolumeInv, Table, ClustersApart
    <3> QED BY <1>6, <3>1
  <2> HIDE DEF chained
  <2> QED BY <1>6, <2>1
<1>7. ASSUME NEW f \in chained, NEW i \in 1..Len(C(f))
      PROVE  C(f)[i] \in 2..LastCluster /\ T[C(f)[i]] = after(f, C(f)[i])
  <2>1. C(f)[i] \in 2..LastCluster /\ C(f)[i] \in ToSet(C(f))
    BY <1>4
  <2>2. of(C(f)[i]) = f
    BY <1>6, <2>1, SMTT(40)
  <2> HIDE DEF chained, after, of
  <2> QED BY <2>1, <2>2
<1>8. ASSUME NEW c \in 2..LastCluster PROVE T[c] \in Nat
  <2>1. CASE \E f \in chained : c \in ToSet(C(f))
    <3>1. PICK f \in chained : c \in ToSet(C(f))
      BY <2>1
    <3>2. C(f) \in Seq(Nat)
      BY <1>3, FileFacts
    <3>3. PICK i \in 1..Len(C(f)) : c = C(f)[i]
      BY <3>1, <3>2 DEF ToSet
    <3> HIDE DEF T, after
    <3>4. T[c] = after(f, c) /\ after(f, c) \in Nat
      BY <1>5, <1>7, <3>3, SMTT(40)
    <3> QED BY <3>4
  <2>2. CASE ~\E f \in chained : c \in ToSet(C(f))
    BY <2>2
  <2> QED BY <2>1, <2>2
<1>9. DOMAIN T = 2..LastCluster
  OBVIOUS
<1>10. \A f \in Live : ~Contiguous(f) => \A i \in 1..Len(C(f)) :
         T[C(f)[i]] = IF i = Len(C(f)) THEN EOC ELSE C(f)[i + 1]
  <2> HIDE DEF T, after
  <2> QED BY <1>5, <1>7
<1> HIDE DEF T
<1> QED BY <1>1, <1>8, <1>9, <1>10

\* A step that leaves the chain alone.
LEMMA ChainStutter == ChainInv /\ UNCHANGED vars => ChainInv'
<1> SUFFICES ASSUME ChainInv, UNCHANGED vars PROVE ChainInv'
  OBVIOUS
<1>1. input' = input
  BY DEF vars
<1>2. (ChainTyped => ChainTyped') /\ Walk' = Walk
  BY <1>1, SameChain
<1>3. LoopInv => LoopInv'
  BY <1>2 DEF LoopInv, Follows, vars
<1>4. RunsFollowChain'
  BY <1>2 DEF RunsFollowChain, Follows, EndsWithin, vars, ChainInv
<1> QED BY <1>2, <1>3, <1>4 DEF ChainInv, vars

\* The entry of the root.
LEMMA RootFacts ==
  /\ RootEntry \in EntryRecord /\ RootEntry.file = Root /\ RootEntry.dir /\ ~RootEntry.deleted
  /\ ~RootEntry.contiguous /\ RootEntry.start_cluster = Files[Root].clusters[1]
  /\ RootEntry.start_cluster \in 2..LastCluster /\ Root \in DOMAIN Files
<1>1. /\ Root \in DOMAIN Files /\ Files[Root].dir /\ ~Files[Root].contiguous
      /\ Files[Root].clusters # <<>>
  BY FatTreeAssumption
<1>2. /\ Files[Root].clusters \in Seq(Nat) /\ Files[Root].contiguous \in BOOLEAN
      /\ \A i \in 1..Len(Files[Root].clusters) : Files[Root].clusters[i] \in 2..LastCluster
  BY <1>1, FileFacts
<1>3. 1 \in 1..Len(Files[Root].clusters)
  <2>1. Len(Files[Root].clusters) # 0
    BY <1>1, <1>2, EmptySeq
  <2> QED BY <1>2, <2>1
<1>4. Files[Root].clusters[1] \in 2..LastCluster
  BY <1>2, <1>3
<1> DEFINE e == RootEntry
<1>5. /\ e = [file |-> Root, dir |-> TRUE, deleted |-> FALSE, name |-> <<>>,
              start_cluster |-> Files[Root].clusters[1], contiguous |-> FALSE]
  BY DEF RootEntry
<1>6. <<>> \in Seq(PartType) /\ Files[Root].clusters[1] \in Nat
  BY <1>4, FatTreeAssumption
<1>7. e \in [file : DOMAIN Files, dir : BOOLEAN, deleted : BOOLEAN, name : Seq(PartType),
             start_cluster : Nat, contiguous : BOOLEAN]
  BY <1>1, <1>5, <1>6
<1>8. /\ e.file = Root /\ e.dir /\ ~e.deleted /\ e.contiguous = FALSE
      /\ e.start_cluster = Files[Root].clusters[1]
  BY <1>5
<1> HIDE DEF e
<1>9. e \in EntryRecord
  BY <1>1, <1>2, <1>7, <1>8 DEF EntryRecord
<1> QED BY <1>1, <1>4, <1>8, <1>9 DEF e

\* What the runs of an entry are, once they are known, lies in the data area.
LEMMA RunsOnDisk ==
  ASSUME TreeTyped, pc \in {"done", "known"}
  PROVE  OnDisk(runs)
<1>1. CASE pc = "done"
  <2>1. RunsFollowChain /\ runs \in Seq(RunType)
    BY DEF TreeTyped, ChainInv
  <2>2. PICK n \in 0..MaxClusters : Follows(runs, n)
    BY <1>1, <2>1 DEF RunsFollowChain
  <2>3. n \in Nat
    BY FatChainAssumption
  <2> QED BY <2>1, <2>2, <2>3, FollowsOnDisk
<1>2. CASE pc = "known"
  <2>1. Known /\ entry \in EntryRecord /\ runs \in Seq(RunType)
    BY <1>2 DEF TreeTyped
  <2>2. CASE runs = <<>>
    BY <2>1, <2>2 DEF OnDisk
  <2>3. CASE runs # <<>>
    <3> DEFINE C == Files[entry.file].clusters
               r == Run(entry.start_cluster, Len(C))
    <3>1. runs = <<r>>
      BY <2>1, <2>3 DEF Known
    <3>2. /\ entry.file \in DOMAIN Files
          /\ entry.start_cluster = IF C = <<>> THEN 0 ELSE C[1]
      BY <2>1 DEF EntryRecord
    <3>3. C \in Seq(Nat) /\ \A i \in 1..Len(C) : C[i] \in 2..LastCluster
      BY <3>2, FileFacts
    <3>4. C # <<>> => 1 \in 1..Len(C)
      <4> HIDE DEF C
      <4> QED BY <3>3, EmptySeq
    <3>5. r.count = 0 \/ r.cluster >= 2
      <4>1. r.count = Len(C) /\ r.cluster = entry.start_cluster
        BY DEF Run
      <4>2. C = <<>> => Len(C) = 0
        BY EmptySeq, <3>3
      <4>3. C # <<>> => C[1] >= 2
        BY <3>3, <3>4
      <4> HIDE DEF C, r
      <4> QED BY <3>2, <4>1, <4>2, <4>3
    <3> HIDE DEF r
    <3>6. Len(runs) = 1 /\ runs[1] = r
      BY <3>1, SMTT(40)
    <3> QED BY <2>1, <3>5, <3>6 DEF OnDisk
  <2> QED BY <2>2, <2>3
<1> QED BY <1>1, <1>2

\* Its first entry is taken from the directory that is read.
LEMMA PoppedFacts ==
  ASSUME stack \in Seq(Frame), stack # <<>>, Entries # <<>>
  PROVE  /\ Popped \in Seq(Frame) /\ Len(Popped) = Len(stack) /\ Len(stack) \in Nat \ {0}
         /\ Entries = stack[Len(stack)].entries /\ Entries \in Seq(EntryRecord)
         /\ Head(Entries) \in EntryRecord /\ Head(Entries) = Entries[1] /\ 1 \in 1..Len(Entries)
         /\ \A q \in 1..Len(stack) : Popped[q].id = stack[q].id /\ stack[q] \in Frame
         /\ \A q \in 1..(Len(stack) - 1) : Popped[q].entries = stack[q].entries
         /\ Popped[Len(stack)].entries = Tail(Entries)
<1> DEFINE L == Len(stack)
           E == stack[L].entries
<1>1. L \in Nat \ {0} /\ DOMAIN stack = 1..L /\ \A q \in 1..L : stack[q] \in Frame
  <2>1. L \in Nat /\ L # 0
    BY EmptySeq
  <2> QED BY <2>1
<1>2. L \in 1..L
  BY <1>1
<1>3. Entries = E /\ E \in Seq(EntryRecord)
  <2>1. stack[L] \in Frame
    BY <1>1, <1>2
  <2> QED BY <2>1 DEF Entries, Last, Frame
<1>4. E # <<>>
  BY <1>3
<1> DEFINE t == [stack[L] EXCEPT !.entries = Tail(@)]
<1>5. t \in Frame /\ t.id = stack[L].id /\ t.entries = Tail(E)
  <2>1. stack[L] \in Frame
    BY <1>1, <1>2
  <2>2. Tail(E) \in Seq(EntryRecord)
    BY <1>3, <1>4
  <2> DEFINE x == stack[L]
  <2> HIDE DEF L
  <2>3. x \in [id : Nat, entries : Seq(EntryRecord)]
    BY <2>1 DEF Frame
  <2>4. Tail(x.entries) \in Seq(EntryRecord)
    BY <2>2
  <2> HIDE DEF x
  <2>5. LET y == [x EXCEPT !.entries = Tail(@)]
        IN  /\ y \in [id : Nat, entries : Seq(EntryRecord)] /\ y.id = x.id
            /\ y.entries = Tail(x.entries)
    BY <2>3, <2>4
  <2> QED BY <2>5 DEF x, Frame
<1>6. Popped = [stack EXCEPT ![L] = t]
  BY DEF Popped
<1> HIDE DEF t, L
<1>7. Popped \in Seq(Frame) /\ Len(Popped) = L
  BY <1>1, <1>2, <1>5, <1>6 DEF L
<1>8. /\ \A q \in 1..(L - 1) : Popped[q] = stack[q]
      /\ Popped[L] = t
  BY <1>1, <1>2, <1>6
<1>9. \A q \in 1..L : q \in 1..(L - 1) \/ q = L
  BY <1>1
<1>10. Head(E) \in EntryRecord /\ Head(E) = E[1] /\ 1 \in 1..Len(E)
  <2> HIDE DEF E
  <2>1. Len(E) \in Nat /\ Len(E) # 0
    BY <1>3, <1>4, EmptySeq
  <2> QED BY <1>3, <1>4, <2>1
<1> QED BY <1>1, <1>3, <1>5, <1>7, <1>8, <1>9, <1>10 DEF L

\* Of a chain that is not begun nothing is said.
LEMMA ChainStart == Init => ChainInv
<1> SUFFICES ASSUME Init PROVE ChainInv
  OBVIOUS
<1>1. fat \in Tables /\ geometry \in Geometries /\ start_cluster \in {0} \cup DOMAIN fat
      /\ pc = "start" /\ visited = 0 /\ runs = <<>>
  BY DEF Init
<1>2. ChainTyped
  BY <1>1, FatChainAssumption DEF ChainTyped
<1> QED BY <1>1, <1>2 DEF ChainInv, RunsFollowChain

\* The first state of the volume and of the tree.
LEMMA TreeTypedInit == TreeInit => TreeTyped
<1> SUFFICES ASSUME TreeInit PROVE TreeTyped
  OBVIOUS
<1>1. /\ Init /\ entry = RootEntry /\ stack = <<>> /\ records = <<>> /\ image_end = SlotCount
      /\ phase \in {"tree", "volume"} /\ pc = "start" /\ runs = <<>>
  BY DEF TreeInit, Init
<1>2. ChainInv
  BY <1>1, ChainStart
<1>3. SlotCount \in Nat
  <2>1. LastCluster - 1 \in Nat /\ SlotsPerCluster \in Nat
    BY FatTreeAssumption
  <2> DEFINE y == LastCluster - 1
  <2> HIDE DEF y
  <2>2. y \in Nat => y * SlotsPerCluster \in Nat
    BY <2>1
  <2> QED BY <2>1, <2>2 DEF y, SlotCount
<1> QED BY <1>1, <1>2, <1>3, RootFacts DEF TreeTyped

\* A step that changes none of it.
LEMMA TreeStays ==
  ASSUME TreeTyped, UNCHANGED <<phase, chain, fs, image, entry, stack, records>>
  PROVE  TreeTyped'
<1>1. UNCHANGED vars /\ UNCHANGED <<phase, pc, runs, fs, image_end, entry, stack, records>>
  BY DEF chain, vars, image
<1>2. ChainInv'
  BY <1>1, ChainStutter DEF TreeTyped
<1>3. Known => Known'
  BY <1>1 DEF Known
<1> QED BY <1>1, <1>2, <1>3 DEF TreeTyped

\* The image is taken.
LEMMA ReadTyped ==
  ASSUME VolumeInv, TreeTyped, Read
  PROVE  TreeTyped'
<1>1. /\ phase = "volume" /\ phase' = "tree" /\ pc = "start" /\ pc' \in {"known", "start"}
      /\ (pc' = "known" => fs = "fat16") /\ fs' = fs
      /\ runs' = runs /\ visited' = visited /\ geometry' = geometry
      /\ fat' = TableOf /\ start_cluster' = RootEntry.start_cluster
      /\ entry' = entry /\ stack' = stack /\ records' = records
  BY DEF Read, TreeTyped, volume
<1>2. visited = 0 /\ runs = <<>> /\ geometry \in Geometry
  BY <1>1 DEF TreeTyped, ChainInv, ChainTyped
<1>3. image_end' \in 0..SlotCount
  <2>1. PICK damage \in Damages : image_end' = damage.image_end
    BY DEF Read
  <2>2. damage \in Damage
    BY FatTreeAssumption
  <2> QED BY <2>1, <2>2 DEF Damage
<1>4. \A c \in DOMAIN fat' : fat'[c] \in Nat
  BY <1>1, TableFacts
<1>5. start_cluster' \in Nat
  BY <1>1, RootFacts DEF EntryRecord
<1>6. ChainInv'
  BY <1>1, <1>2, <1>4, <1>5 DEF ChainInv, ChainTyped, RunsFollowChain
<1>7. entry = RootEntry
  BY <1>1 DEF TreeTyped
<1>8. pc' = "known" => Known'
  BY <1>1, <1>2, <1>7 DEF Known
<1> QED BY <1>1, <1>2, <1>3, <1>6, <1>8 DEF TreeTyped

\* follow_chain, a step of it.
LEMMA FollowTyped ==
  ASSUME TreeTyped, FollowChain
  PROVE  TreeTyped'
<1>1. /\ phase = "tree" /\ Next /\ UNCHANGED <<phase, volume, image, entry, stack, records>>
      /\ ChainInv
  BY DEF FollowChain, TreeTyped
<1>2. ChainInv'
  BY <1>1, ChainStep
<1>3. pc' \in {"loop", "done"}
  BY <1>1 DEF Next, NoChain, Begin, EndChain, Consecutive, NewRun, GiveUp, Looking
<1>4. runs' \in Seq(RunType)
  BY <1>2, <1>3 DEF ChainInv
<1> QED BY <1>1, <1>2, <1>3, <1>4 DEF TreeTyped, image

\* What is added for an entry, and for its directory.
AddedRecord ==
  [entry |-> entry, runs |-> IF stack = <<>> THEN <<>> ELSE runs,
   parent |-> IF stack = <<>> THEN 1 ELSE Last(stack).id]
AddedFrame == [id |-> Len(records) + 1, entries |-> ParseDirectory(DirectoryData)]

\* The record of an entry, and what its directory lists.
LEMMA AddTyped ==
  ASSUME VolumeInv, TreeTyped, AddRecord
  PROVE  /\ TreeTyped' /\ OnDisk(runs) /\ Sectors(DirectoryData)
         /\ ParseDirectory(DirectoryData) \in Seq(EntryRecord)
         /\ AddedRecord \in RecordType /\ AddedFrame \in Frame
         /\ records' = Append(records, AddedRecord)
         /\ stack' = IF entry.dir /\ Len(stack) <= MaxDepth THEN Append(stack, AddedFrame) ELSE stack
<1>1. /\ phase = "tree" /\ pc \in {"done", "known"} /\ pc' = "entries"
      /\ UNCHANGED <<phase, input, current, run_start, run_count, visited, runs, volume, image, entry>>
  BY DEF AddRecord
<1>2. OnDisk(runs) /\ runs \in Seq(RunType) /\ image_end \in 0..SlotCount
  BY <1>1, RunsOnDisk DEF TreeTyped
<1>3. Sectors(DirectoryData)
  BY <1>2, DirectoryTyped
<1>4. ParseDirectory(DirectoryData) \in Seq(EntryRecord)
  BY <1>3, SectorsProper, ParseTyped
<1>5. /\ records \in Seq(RecordType) /\ entry \in EntryRecord /\ stack \in Seq(Frame)
      /\ Len(records) \in Nat
  BY DEF TreeTyped
<1> DEFINE r == AddedRecord
           t == AddedFrame
<1>6. r \in RecordType
  <2>1. stack # <<>> => Last(stack).id \in Nat
    <3> SUFFICES ASSUME stack # <<>> PROVE Last(stack).id \in Nat
      OBVIOUS
    <3>1. stack[Len(stack)] \in Frame
      <4>1. Len(stack) \in Nat /\ Len(stack) # 0
        BY <1>5, EmptySeq
      <4>2. Len(stack) \in 1..Len(stack)
        BY <4>1
      <4> QED BY <1>5, <4>2
    <3> QED BY <3>1 DEF Last, Frame
  <2>2. <<>> \in Seq(RunType)
    OBVIOUS
  <2> QED BY <1>2, <1>5, <2>1, <2>2 DEF RecordType, AddedRecord
<1>7. t \in Frame
  <2> DEFINE es == ParseDirectory(DirectoryData)
             n == Len(records) + 1
  <2>1. es \in Seq(EntryRecord) /\ n \in Nat
    BY <1>4, <1>5
  <2> HIDE DEF es, n
  <2>2. [id |-> n, entries |-> es] \in Frame
    BY <2>1 DEF Frame
  <2> QED BY <2>2 DEF es, n, AddedFrame
<1>8. /\ records' = Append(records, r)
      /\ stack' = IF entry.dir /\ Len(stack) <= MaxDepth THEN Append(stack, t) ELSE stack
  BY DEF AddRecord, AddedRecord, AddedFrame
<1>9. records' \in Seq(RecordType) /\ stack' \in Seq(Frame)
  BY <1>5, <1>6, <1>7, <1>8
<1>10. ChainInv'
  <2>1. ChainTyped'
    BY <1>1, SameChain DEF TreeTyped, ChainInv
  <2> QED BY <1>1, <2>1 DEF ChainInv, RunsFollowChain
<1>11. image_end' = image_end
  BY <1>1 DEF image
<1> QED BY <1>1, <1>2, <1>3, <1>4, <1>5, <1>6, <1>7, <1>8, <1>9, <1>10, <1>11 DEF TreeTyped

\* An entry that is not shown is passed over.
LEMMA SkipTyped ==
  ASSUME TreeTyped, SkipDeleted
  PROVE  TreeTyped'
<1>1. /\ phase = "tree" /\ pc = "entries" /\ stack # <<>> /\ Entries # <<>> /\ stack' = Popped
      /\ UNCHANGED <<phase, chain, volume, image, entry, records>>
  BY DEF SkipDeleted, InDirectory
<1>2. Popped \in Seq(Frame)
  BY <1>1, PoppedFacts DEF TreeTyped
<1>3. UNCHANGED vars /\ UNCHANGED <<pc, runs, image_end, fs>>
  BY <1>1 DEF chain, vars, image, volume
<1>4. ChainInv'
  BY <1>3, ChainStutter DEF TreeTyped
<1> QED BY <1>1, <1>2, <1>3, <1>4 DEF TreeTyped

\* The next entry is taken.
LEMMA TakeTyped ==
  ASSUME TreeTyped, TakeEntry
  PROVE  TreeTyped'
<1>1. /\ phase = "tree" /\ pc = "entries" /\ stack # <<>> /\ Entries # <<>> /\ stack' = Popped
      /\ entry' = Head(Entries) /\ start_cluster' = entry'.start_cluster /\ visited' = 0
      /\ UNCHANGED <<phase, fat, unread, geometry, volume, image, records>>
  BY DEF TakeEntry, InDirectory
<1>2. \/ /\ fs = "exfat" /\ entry'.contiguous /\ pc' = "known"
         /\ runs' = <<Run(start_cluster', Len(Files[entry'.file].clusters))>>
      \/ pc' = "start" /\ runs' = <<>>
  BY DEF TakeEntry
<1>3. Popped \in Seq(Frame) /\ entry' \in EntryRecord
  BY <1>1, PoppedFacts DEF TreeTyped
<1>4. entry'.file \in DOMAIN Files /\ start_cluster' \in Nat
  BY <1>1, <1>3 DEF EntryRecord
<1>5. runs' \in Seq(RunType)
  <2> DEFINE q == Run(start_cluster', Len(Files[entry'.file].clusters))
  <2>1. q \in RunType
    BY <1>4, FileFacts DEF Run, RunType
  <2>2. runs' = <<q>> \/ runs' = <<>>
    BY <1>2
  <2> HIDE DEF q
  <2>3. <<q>> \in Seq(RunType) /\ <<>> \in Seq(RunType)
    BY <2>1
  <2>4. ASSUME NEW x, x = <<q>> \/ x = <<>> PROVE x \in Seq(RunType)
    BY <2>3, <2>4
  <2> QED BY <2>2, <2>4
<1>6. ChainInv'
  <2>1. ChainTyped
    BY DEF TreeTyped, ChainInv
  <2>2. ChainTyped'
    BY <1>1, <1>4, <2>1 DEF ChainTyped
  <2> QED BY <1>1, <1>2, <1>5, <2>2 DEF ChainInv, RunsFollowChain
<1>7. UNCHANGED <<fs, image_end>>
  BY <1>1 DEF volume, image
<1>8. pc' = "known" => Known'
  BY <1>1, <1>2, <1>7 DEF Known
<1>9. phase' # "volume"
  BY <1>1
<1> QED BY <1>1, <1>3, <1>5, <1>6, <1>7, <1>8, <1>9 DEF TreeTyped

\* A directory is left.
LEMMA LeaveTyped ==
  ASSUME TreeTyped, LeaveDirectory
  PROVE  TreeTyped'
<1>1. /\ phase = "tree" /\ pc = "entries" /\ stack # <<>> /\ stack' = Front(stack)
      /\ phase' \in {"tree", "end"} /\ UNCHANGED <<chain, volume, image, entry, records>>
  BY DEF LeaveDirectory, InDirectory
<1>2. Front(stack) \in Seq(Frame)
  <2>1. stack \in Seq(Frame) /\ Len(stack) \in Nat /\ Len(stack) # 0
    BY <1>1, EmptySeq DEF TreeTyped
  <2>2. SubSeq(stack, 1, Len(stack) - 1) \in Seq(Frame)
    BY <2>1
  <2> QED BY <2>2 DEF Front
<1>3. UNCHANGED vars /\ UNCHANGED <<pc, runs, image_end, fs>>
  BY <1>1 DEF chain, vars, image, volume
<1>4. ChainInv'
  BY <1>3, ChainStutter DEF TreeTyped
<1> QED BY <1>1, <1>2, <1>3, <1>4 DEF TreeTyped

\* Each step of the tree keeps its types and its chains.
LEMMA TreeTypedStep == VolumeInv /\ TreeTyped /\ [TreeNext]_tree_vars => TreeTyped'
<1> SUFFICES ASSUME VolumeInv, TreeTyped, [TreeNext]_tree_vars PROVE TreeTyped'
  OBVIOUS
<1>1. ASSUME NEW table, Change(table) PROVE TreeTyped'
  BY <1>1, TreeStays DEF Change
<1>2. CASE UNCHANGED tree_vars
  BY <1>2, TreeStays DEF tree_vars, volume
<1>3. ASSUME NEW f, NEW d, Create(f, d) \/ Delete(f) \/ Move(f, d) PROVE TreeTyped'
  BY <1>1, <1>3 DEF Create, Delete, Move
<1> QED BY <1>2, <1>3, ReadTyped, FollowTyped, AddTyped, SkipTyped, TakeTyped, LeaveTyped DEF TreeNext

\* The invariant of the tree's builder: each chain it follows is followed as on
\* its own.
THEOREM FatTreeInvariant == TreeSpec => [](VolumeInv /\ TreeTyped)
<1>1. TreeInit => VolumeInv /\ TreeTyped
  BY NewVolume, TreeTypedInit
<1>2. VolumeInv /\ TreeTyped /\ [TreeNext]_tree_vars => (VolumeInv /\ TreeTyped)'
  BY VolumeStep, TreeTypedStep
<1> QED BY <1>1, <1>2, PTL DEF TreeSpec

\* In the tree as on its own, the runs of a chain are its clusters.
THEOREM FatTreeRunsFollowChain == TreeSpec => []RunsFollowChain
<1>1. VolumeInv /\ TreeTyped => RunsFollowChain
  BY DEF TreeTyped, ChainInv
<1> QED BY <1>1, FatTreeInvariant, PTL

\* In the tree as on its own, what is read of a file is what its clusters have.
THEOREM FatTreeAlignedSectors == TreeSpec => []AlignedSectors
<1>1. VolumeInv /\ TreeTyped => AlignedSectors
  BY RunsAligned DEF TreeTyped
<1> QED BY <1>1, FatTreeInvariant, PTL

-----------------------------------------------------------------------------
(* Where the table has what the volume has, the chain of a file is its     *)
(* clusters, and what is read for them its slots.                          *)

\* The chain leads from a cluster of the file to its next, or ends.
LEMMA WalkOfFile ==
  ASSUME VolumeInv, fat = TableOf, NEW d \in Live, ~Contiguous(d),
         start_cluster = IF Files[d].clusters = <<>> THEN 0 ELSE Files[d].clusters[1]
  PROVE  \A k \in 0..MaxClusters :
           \/ Walk[k] = 0
           \/ k < Len(Files[d].clusters) /\ Walk[k] = Files[d].clusters[k + 1]
<1> DEFINE C == Files[d].clusters
           Of(k) == Walk[k] = 0 \/ (k < Len(C) /\ Walk[k] = C[k + 1])
           N == {k \in Nat : k <= MaxClusters => Of(k)}
<1>0. /\ d \in DOMAIN Files /\ C \in Seq(Nat) /\ Len(C) \in Nat
      /\ \A i \in 1..Len(C) : C[i] \in 2..LastCluster
      /\ MaxClusters \in Nat /\ LastCluster \in Nat /\ EOC \in Nat
  BY LiveFacts, FileFacts, FatChainAssumption, FatTreeAssumption
<1>1. 0 \in N
  <2>1. Walk[0] = start_cluster
    BY WalkFacts
  <2>2. C # <<>> => 0 < Len(C)
    <3> HIDE DEF C
    <3> QED BY <1>0, EmptySeq
  <2>3. Of(0)
    BY <2>1, <2>2
  <2> HIDE DEF Of
  <2> QED BY <2>3
<1>2. ASSUME NEW k \in N PROVE k + 1 \in N
  <2>1. k \in Nat /\ (k <= MaxClusters => Of(k))
    OBVIOUS
  <2>2. ASSUME k + 1 <= MaxClusters PROVE Of(k + 1)
    <3>1. k <= MaxClusters /\ k + 1 \in 1..MaxClusters /\ (k + 1) - 1 = k
      BY <1>0, <2>1, <2>2
    <3>2. Walk[k + 1] = IF Walk[k] < 2 \/ Ends(Entry(Walk[k])) THEN 0 ELSE Entry(Walk[k])
      BY <3>1, WalkFacts
    <3>3. CASE Walk[k] = 0
      <4>1. Walk[k] < 2
        BY <3>3
      <4> QED BY <3>2, <4>1
    <3>4. CASE Walk[k] # 0
      <4>1. k < Len(C) /\ Walk[k] = C[k + 1]
        BY <2>1, <3>1, <3>4
      <4>2. k + 1 \in 1..Len(C) /\ (k + 1) + 1 = k + 2
        BY <1>0, <2>1, <4>1
      <4> DEFINE c == C[k + 1]
      <4>3. /\ DOMAIN fat = 2..LastCluster /\ c \in 2..LastCluster
            /\ fat[c] = IF k + 1 = Len(C) THEN EOC ELSE C[(k + 1) + 1]
        BY <1>0, <4>2, TableFacts
      <4>4. Entry(c) = IF c \in unread THEN 0 ELSE fat[c]
        BY <4>3 DEF Entry
      <4>5. Walk[k] = c
        BY <4>1
      <4> HIDE DEF c
      <4>6. Walk[k + 1] = IF c < 2 \/ Ends(Entry(c)) THEN 0 ELSE Entry(c)
        BY <3>2, <4>5
      <4>7. CASE c \in unread \/ k + 1 = Len(C)
        <5>1. Entry(c) = 0 \/ Entry(c) = EOC
          BY <4>3, <4>4, <4>7
        <5>2. Ends(0) /\ Ends(EOC)
          BY <1>0 DEF Ends
        <5>3. Ends(Entry(c))
          BY <5>1, <5>2
        <5> QED BY <4>6, <5>3
      <4>8. CASE ~(c \in unread \/ k + 1 = Len(C))
        <5>1. Entry(c) = C[k + 2]
          BY <4>2, <4>3, <4>4, <4>8
        <5>2. k + 1 < Len(C) /\ C[k + 2] = C[(k + 1) + 1]
          BY <1>0, <4>2, <4>8
        <5> QED BY <4>6, <5>1, <5>2
      <4> QED BY <4>7, <4>8
    <3> QED BY <3>3, <3>4
  <2> HIDE DEF Of
  <2> QED BY <2>1, <2>2
<1>3. N = Nat
  <2>1. N \in SUBSET Nat
    OBVIOUS
  <2> HIDE DEF N
  <2> QED BY <1>1, <1>2, <2>1, Induction
<1>4. \A k \in 0..MaxClusters : Of(k)
  <2> HIDE DEF Of
  <2> QED BY <1>0, <1>3
<1> QED BY <1>4

\* The clusters of the runs are the first clusters of the file.
FirstOf(rs, d) ==
  /\ Len(ClustersOf(rs)) <= Len(Files[d].clusters)
  /\ \A k \in 1..Len(ClustersOf(rs)) : ClustersOf(rs)[k] = Files[d].clusters[k]

\* The chain of a file in use leads along its clusters, as far as it was followed.
LEMMA ChainFirst ==
  ASSUME VolumeInv, fat = TableOf, NEW d \in Live, ~Contiguous(d),
         start_cluster = IF Files[d].clusters = <<>> THEN 0 ELSE Files[d].clusters[1],
         NEW rs, NEW n \in 0..MaxClusters, Follows(rs, n)
  PROVE  FirstOf(rs, d)
<1> DEFINE C == Files[d].clusters
           a == ClustersOf(rs)
<1>1. Len(C) \in Nat /\ MaxClusters \in Nat
  BY LiveFacts, FileFacts, FatChainAssumption
<1>2. Len(a) = n /\ \A k \in 1..n : a[k] = Walk[k - 1] /\ Walk[k - 1] >= 2
  BY DEF Follows
<1>3. ASSUME NEW k \in 1..n PROVE k - 1 < Len(C) /\ a[k] = C[k]
  <2>1. k - 1 \in 0..MaxClusters /\ (k - 1) + 1 = k
    BY <1>1
  <2>2. Walk[k - 1] = 0 \/ (k - 1 < Len(C) /\ Walk[k - 1] = C[(k - 1) + 1])
    BY <2>1, WalkOfFile
  <2>3. Walk[k - 1] # 0
    <3>1. Walk[k - 1] >= 2
      BY <1>2
    <3> QED BY <3>1
  <2> QED BY <1>2, <2>1, <2>2, <2>3
<1>4. n <= Len(C)
  <2>1. n \in Nat /\ (n # 0 => n \in 1..n)
    BY <1>1
  <2>2. n # 0 => n - 1 < Len(C)
    BY <1>3, <2>1
  <2> HIDE DEF C
  <2> QED BY <1>1, <2>1, <2>2
<1> QED BY <1>2, <1>3, <1>4 DEF FirstOf

\* A contiguous file is one run.
LEMMA ContiguousFirst ==
  ASSUME NEW d \in DOMAIN Files, Files[d].contiguous, NEW c \in Nat,
         c = IF Files[d].clusters = <<>> THEN 0 ELSE Files[d].clusters[1],
         NEW rs, rs = <<Run(c, Len(Files[d].clusters))>>
  PROVE  FirstOf(rs, d) /\ ClustersOf(rs) \in Seq(Nat) /\ ClustersOf(rs) = Files[d].clusters
<1> DEFINE C == Files[d].clusters
           r == Run(c, Len(C))
           a == ClustersOf(rs)
<1>1. /\ C \in Seq(Nat) /\ Len(C) \in Nat /\ \A i \in 1..Len(C) : C[i] \in Nat
      /\ \A i, j \in 1..Len(C) : C[j] = C[i] + (j - i)
  <2>1. /\ C \in Seq(Nat) /\ Len(C) \in Nat
        /\ \A i, j \in 1..Len(C) : C[j] = C[i] + (j - i)
    BY FileFacts
  <2>2. \A i \in 1..Len(C) : C[i] \in Nat
    BY <2>1, SMTT(40)
  <2> QED BY <2>1, <2>2
<1>2. r \in RunType /\ r.cluster = c /\ r.count = Len(C)
  BY <1>1 DEF RunType, Run
<1> HIDE DEF r
<1>3. rs = Append(<<>>, r) /\ <<>> \in Seq(RunType)
  BY DEF r
<1>4. /\ ClustersOf(<<>>) = <<>> /\ ClustersOf(Append(<<>>, r)) \in Seq(Nat)
      /\ Len(ClustersOf(Append(<<>>, r))) = Len(ClustersOf(<<>>)) + r.count
      /\ \A j \in 1..r.count :
           ClustersOf(Append(<<>>, r))[Len(ClustersOf(<<>>)) + j] = r.cluster + j - 1
  BY <1>2, <1>3, ClustersAppend
<1>5. Len(<<>>) = 0
  OBVIOUS
<1>6. a \in Seq(Nat) /\ Len(a) = 0 + Len(C) /\ \A j \in 1..Len(C) : a[0 + j] = c + j - 1
  BY <1>2, <1>3, <1>4, <1>5
<1> HIDE DEF a
<1>7. ASSUME NEW j \in 1..Len(C) PROVE a[j] = C[j]
  <2>1. 1 \in 1..Len(C) /\ 0 + j = j
    BY <1>1
  <2>2. C # <<>>
    <3> HIDE DEF C
    <3> QED BY <1>1, <2>1
  <2>3. c = C[1] /\ C[j] = C[1] + (j - 1) /\ C[1] \in Nat
    BY <1>1, <2>1, <2>2
  <2>4. a[j] = c + j - 1
    BY <1>6, <2>1
  <2> QED BY <2>1, <2>3, <2>4
<1>8. Len(a) = Len(C)
  BY <1>1, <1>6
<1>9. a = C
  <2> HIDE DEF C
  <2> QED BY <1>1, <1>6, <1>7, <1>8, SeqEqual
<1> QED BY <1>1, <1>6, <1>7, <1>8, <1>9, SMTT(40) DEF FirstOf, a

\* The clusters of d from the one behind P on are n in a row, from c on.
InRow(d, P, n, c) ==
  /\ P + n <= Len(Files[d].clusters)
  /\ \A j \in 1..n : Files[d].clusters[P + j] = c + j - 1

\* The positions of clusters in a row are in a row.
LEMMA RunPositions ==
  ASSUME NEW d \in DOMAIN Files, NEW P \in Nat, NEW n \in Nat, NEW c \in Nat, InRow(d, P, n, c)
  PROVE  \A i \in 1..(n * SlotsPerCluster) :
           /\ P * SlotsPerCluster + i \in 1..Len(Positions(d))
           /\ Positions(d)[P * SlotsPerCluster + i] = (c - 2) * SlotsPerCluster + i
<1> SUFFICES ASSUME NEW i \in 1..(n * SlotsPerCluster)
             PROVE  /\ P * SlotsPerCluster + i \in 1..Len(Positions(d))
                    /\ Positions(d)[P * SlotsPerCluster + i] = (c - 2) * SlotsPerCluster + i
  OBVIOUS
<1> DEFINE S == SlotsPerCluster
           C == Files[d].clusters
           q == (i - 1) \div S
           r == (i - 1) % S
           x == P * S + i
<1>0. /\ S \in Nat \ {0} /\ Len(C) \in Nat /\ Len(Positions(d)) = Len(C) * S
      /\ P + n <= Len(C) /\ \A j \in 1..n : C[P + j] = c + j - 1
  BY FatTreeAssumption, FileFacts, PositionFacts DEF InRow
<1>1. /\ i - 1 \in Nat /\ q \in Nat /\ r \in 0..(S - 1) /\ i - 1 = q * S + r
  <2>1. n * S \in Nat
    BY <1>0
  <2>2. i - 1 \in Nat
    BY <2>1
  <2> QED BY <1>0, <2>2, Divide
<1>2. q + 1 \in 1..n
  BY <1>0, WithinClusters
<1> HIDE DEF q, r, S
<1>3. x \in 1..Len(Positions(d))
  <2>1. i \in Nat /\ i >= 1 /\ i <= n * S /\ P * S \in Nat /\ n * S \in Nat
    BY <1>0 DEF S
  <2>2. (P + n) * S <= Len(C) * S
    <3> DEFINE u == P + n
               v == Len(C)
    <3>1. u \in Nat /\ v \in Nat /\ u <= v /\ S \in Nat
      BY <1>0
    <3> HIDE DEF u, v
    <3>2. u * S <= v * S
      BY <3>1
    <3> QED BY <3>2 DEF u, v
  <2>3. (P + n) * S = P * S + n * S
    BY <1>0
  <2>4. Len(C) * S \in Nat
    BY <1>0
  <2> DEFINE y == P * S
             z == n * S
             w == Len(C) * S
  <2>5. y \in Nat /\ z \in Nat /\ w \in Nat /\ y + z <= w /\ i \in 1..z
    BY <2>1, <2>2, <2>3, <2>4
  <2> HIDE DEF y, z, w
  <2>6. y + i \in 1..w
    BY ONLY <2>5
  <2> QED BY <1>0, <2>6 DEF y, w
<1>4. x - 1 = (P + q) * S + r
  <2>1. (P + q) * S = P * S + q * S /\ P * S \in Nat /\ q * S \in Nat
    BY <1>0, <1>1
  <2> QED BY <1>1, <2>1
<1> HIDE DEF x
<1>5. (x - 1) \div S = P + q /\ (x - 1) % S = r
  <2>1. x - 1 \in Nat
    <3>1. Len(C) * S \in Nat
      BY <1>0
    <3> QED BY <1>0, <1>3, <3>1
  <2> DEFINE e == (x - 1) \div S
             s == (x - 1) % S
             b == P + q
  <2>2. e \in Nat /\ s \in 0..(S - 1) /\ x - 1 = e * S + s
    BY <1>0, <2>1, Divide
  <2>3. b \in Nat /\ x - 1 = b * S + r
    BY <1>1, <1>4
  <2> HIDE DEF e, s, b
  <2>4. e \in Int /\ b \in Int /\ e * S + s = b * S + r /\ S \in Nat \ {0}
        /\ s \in 0..(S - 1) /\ r \in 0..(S - 1)
    BY <1>0, <1>1, <2>2, <2>3
  <2>5. e = b /\ s = r
    BY ONLY <2>4, SameQuotient
  <2> QED BY <2>5 DEF e, s, b
<1>6. /\ Positions(d)[x] = (ClusterAt(d, x) - 2) * S + RestAt(x) + 1
  BY <1>3, PositionFacts DEF S
<1>7. ClusterAt(d, x) = c + q /\ RestAt(x) = r
  <2>1. ClusterAt(d, x) = C[(P + q) + 1] /\ RestAt(x) = r
    BY <1>5 DEF ClusterAt, RestAt, S
  <2>2. (P + q) + 1 = P + (q + 1) /\ c + (q + 1) - 1 = c + q
    BY <1>1
  <2>3. C[P + (q + 1)] = c + (q + 1) - 1
    BY <1>0, <1>2
  <2> QED BY <2>1, <2>2, <2>3
<1>8. ((c + q) - 2) * S + r + 1 = (c - 2) * S + i
  <2>1. ((c + q) - 2) * S = (c - 2) * S + q * S /\ (c - 2) * S \in Int /\ q * S \in Nat
    BY <1>0, <1>1
  <2> QED BY <1>1, <2>1
<1>9. Positions(d)[x] = ((c + q) - 2) * S + r + 1
  BY <1>6, <1>7
<1>10. Positions(d)[x] = (c - 2) * S + i
  BY ONLY <1>8, <1>9
<1> QED BY <1>3, <1>10 DEF x, S

\* The first i slots of d are before the end of the image.
Intact(d, i) == \A j \in 1..i : Positions(d)[j] <= image_end

\* data is what is read of the first P clusters of d.
ReadTo(data, d, P) ==
  /\ Len(data) <= P * SlotsPerCluster
  /\ \A i \in 1..Len(data) : Intact(d, i) => data[i] = Sector(Positions(d)[i])
  /\ Len(data) < P * SlotsPerCluster /\ Len(data) < MaxSize => ~Intact(d, Len(data) + 1)
  /\ ~Glued(d) => Intact(d, Len(data))

\* A run more of a directory, read where it leads.
LEMMA WithRunReads ==
  ASSUME VolumeInv, image_end \in 0..SlotCount, NEW d \in DOMAIN Files, NEW P \in Nat,
         NEW run \in RunType, run.count = 0 \/ run.cluster >= 2,
         P + run.count <= Len(Files[d].clusters),
         \A j \in 1..run.count : Files[d].clusters[P + j] = run.cluster + j - 1,
         NEW data, Sectors(data), ReadTo(data, d, P)
  PROVE  ReadTo(WithRun(data, run), d, P + run.count)
<1> DEFINE S  == SlotsPerCluster
           m  == Len(data)
           n  == run.count
           L  == Len(Chunk(run))
           w  == WithRun(data, run)
           f  == Before(run)
           at == Positions(d)
           PS == P * S
           NS == n * S
           A  == Len(at)
<1>0. MaxSize \in Nat /\ m \in Nat /\ n \in Nat /\ run.cluster \in Nat /\ image_end \in Nat
  <2>1. image_end \in Nat
    OBVIOUS
  <2> QED BY <2>1, FatTreeAssumption DEF Sectors, RunType
<1>1. /\ f \in Int /\ NS \in Nat /\ L \in Nat /\ L <= NS
      /\ \A i \in 1..NS : i <= L <=> f + i <= image_end
  BY ChunkFacts
<1>2. /\ PS \in Nat /\ (P + n) * S = PS + NS /\ PS + NS <= A /\ A \in Nat
      /\ \A j \in 1..A : at[j] \in Int
  <2>1. S \in Nat /\ Len(Files[d].clusters) \in Nat /\ A = Len(Files[d].clusters) * S /\ A \in Nat
    BY FatTreeAssumption, FileFacts, PositionFacts
  <2>2. PS \in Nat /\ (P + n) * S = PS + NS
    BY <1>0, <2>1
  <2>3. (P + n) * S <= A
    <3> DEFINE u == P + n
               v == Len(Files[d].clusters)
    <3>1. u \in Nat /\ v \in Nat /\ u <= v /\ S \in Nat /\ A = v * S
      BY <1>0, <2>1, SMTT(40)
    <3> HIDE DEF u, v, A
    <3>2. u * S <= v * S
      BY <3>1
    <3> QED BY <3>1, <3>2 DEF u
  <2>4. \A j \in 1..A : at[j] \in Int
    <3>1. \A j \in 1..A : at[j] \in 1..SlotCount
      BY PositionFacts
    <3> QED BY <3>1
  <2> QED BY <2>1, <2>2, <2>3, <2>4
<1>3. \A i \in 1..NS : PS + i \in 1..A /\ at[PS + i] = f + i
  <2>1. InRow(d, P, n, run.cluster)
    BY DEF InRow
  <2> HIDE DEF n, at
  <2>2. \A i \in 1..(n * SlotsPerCluster) :
           /\ P * SlotsPerCluster + i \in 1..Len(Positions(d))
           /\ Positions(d)[P * SlotsPerCluster + i] = (run.cluster - 2) * SlotsPerCluster + i
    BY <1>0, <2>1, RunPositions
  <2> QED BY <2>2 DEF Before, at
<1>4. /\ m <= PS
      /\ \A i \in 1..m : Intact(d, i) => data[i] = Sector(at[i])
      /\ m < PS /\ m < MaxSize => ~Intact(d, m + 1)
      /\ ~Glued(d) => Intact(d, m)
  BY DEF ReadTo
<1>5. /\ m >= MaxSize => w = data
      /\ m < MaxSize => /\ Len(w) = m + L
                        /\ \A i \in 1..m : w[i] = data[i]
                        /\ \A i \in 1..L : w[m + i] = Sector(f + i)
  BY WithRunFacts
<1> SUFFICES /\ Len(w) <= PS + NS
             /\ \A i \in 1..Len(w) : Intact(d, i) => w[i] = Sector(at[i])
             /\ Len(w) < PS + NS /\ Len(w) < MaxSize => ~Intact(d, Len(w) + 1)
             /\ ~Glued(d) => Intact(d, Len(w))
  BY <1>2 DEF ReadTo
<1>6. CASE m >= MaxSize
  <2>1. w = data
    BY <1>5, <1>6
  <2> HIDE DEF w, PS, NS
  <2>2. m <= PS + NS /\ ~(m < MaxSize)
    BY <1>0, <1>1, <1>2, <1>4, <1>6, SMTT(40)
  <2> QED BY <1>4, <2>1, <2>2
<1>7. CASE m < MaxSize /\ m = PS
  <2>1. /\ Len(w) = m + L /\ (\A i \in 1..m : w[i] = data[i])
        /\ \A i \in 1..L : w[m + i] = Sector(f + i)
    BY <1>5, <1>7
  <2>2. \A i \in 1..NS : m + i \in 1..A /\ at[m + i] = f + i
    BY <1>3, <1>7
  <2> HIDE DEF m, L, w, f, at, PS, NS, A, n, S
  <2>3. \A i \in 1..L : i \in 1..NS /\ f + i <= image_end
    BY <1>1, SMTT(40)
  <2>4. \A i \in 1..(m + L) : i \in 1..m \/ (i - m \in 1..L /\ m + (i - m) = i)
    BY <1>0, <1>1
  <2>5. \A i \in 1..Len(w) : Intact(d, i) => w[i] = Sector(at[i])
    <3> SUFFICES ASSUME NEW i \in 1..(m + L), Intact(d, i) PROVE w[i] = Sector(at[i])
      BY <2>1
    <3>1. CASE i \in 1..m
      BY <1>4, <2>1, <3>1
    <3>2. CASE i - m \in 1..L /\ m + (i - m) = i
      <4> DEFINE k == i - m
      <4>1. k \in 1..L /\ m + k = i /\ k \in 1..NS
        BY <2>3, <3>2
      <4> HIDE DEF k
      <4>2. w[m + k] = Sector(f + k) /\ at[m + k] = f + k
        BY <2>1, <2>2, <4>1
      <4> QED BY <4>1, <4>2
    <3> QED BY <2>4, <3>1, <3>2
  <2>6. ASSUME m + L < PS + NS PROVE ~Intact(d, (m + L) + 1)
    <3>1. L + 1 \in 1..NS /\ ~(L + 1 <= L) /\ m + (L + 1) = (m + L) + 1
          /\ (m + L) + 1 \in 1..((m + L) + 1)
      BY <1>0, <1>1, <1>2, <1>7, <2>6
    <3>2. ~(at[(m + L) + 1] <= image_end)
      BY <1>1, <2>2, <3>1
    <3> QED BY <3>1, <3>2 DEF Intact, at
  <2>7. ASSUME ~Glued(d) PROVE Intact(d, m + L)
    <3> SUFFICES ASSUME NEW i \in 1..(m + L) PROVE at[i] <= image_end
      BY DEF Intact, at
    <3>1. CASE i \in 1..m
      BY <1>4, <2>7, <3>1 DEF Intact, at
    <3>2. CASE i - m \in 1..L /\ m + (i - m) = i
      <4> DEFINE k == i - m
      <4>1. k \in 1..L /\ m + k = i /\ k \in 1..NS /\ f + k <= image_end
        BY <2>3, <3>2
      <4> HIDE DEF k
      <4>2. at[m + k] = f + k
        BY <2>2, <4>1
      <4> QED BY <4>1, <4>2
    <3> QED BY <2>4, <3>1, <3>2
  <2>8. m + L <= PS + NS
    BY <1>0, <1>1, <1>2, <1>7
  <2> QED BY <2>1, <2>5, <2>6, <2>7, <2>8
<1>8. CASE m < MaxSize /\ m < PS
  <2>1. /\ Len(w) = m + L /\ (\A i \in 1..m : w[i] = data[i])
    BY <1>5, <1>8
  <2>2. ~Intact(d, m + 1)
    BY <1>4, <1>8
  <2>3. PICK j \in 1..(m + 1) : ~(at[j] <= image_end)
    BY <2>2 DEF Intact
  <2> HIDE DEF m, L, w, f, at, PS, NS, A, n, S
  <2>4. j \in 1..A /\ j \in Nat /\ j <= m + 1
    BY <1>0, <1>1, <1>2, <1>8
  <2>5. ASSUME NEW i \in Nat, i >= m + 1 PROVE ~Intact(d, i)
    <3>1. j \in 1..i
      BY <1>0, <2>4, <2>5
    <3> QED BY <2>3, <3>1 DEF Intact, at
  <2>6. ASSUME NEW i \in 1..(m + L), Intact(d, i) PROVE w[i] = Sector(at[i])
    <3>1. ~(i >= m + 1) /\ i \in Nat
      BY <2>5, <2>6
    <3>2. i \in 1..m
      BY <1>0, <1>1, <3>1
    <3> QED BY <1>4, <2>1, <2>6, <3>2
  <2>7. ~Intact(d, (m + L) + 1)
    <3>1. (m + L) + 1 \in Nat /\ (m + L) + 1 >= m + 1
      BY <1>0, <1>1
    <3> QED BY <2>5, <3>1
  <2>8. ASSUME ~Glued(d) PROVE Intact(d, m + L)
    <3>1. L = 0
      <4> SUFFICES ASSUME L # 0 PROVE FALSE
        OBVIOUS
      <4>1. 1 \in 1..NS /\ 1 <= L
        BY <1>1
      <4>2. PS + 1 \in 1..A /\ at[PS + 1] <= image_end
        BY <1>1, <1>3, <4>1
      <4>3. j < PS + 1 /\ at[j] > image_end
        BY <1>0, <1>2, <1>8, <2>3, <2>4
      <4>4. DOMAIN at = 1..A
        BY PositionFacts DEF at, A
      <4> QED BY <2>4, <2>8, <4>2, <4>3, <4>4 DEF Glued, at
    <3>2. m + L = m
      BY <1>0, <3>1
    <3> QED BY <1>4, <2>8, <3>2
  <2>9. m + L <= PS + NS
    BY <1>0, <1>1, <1>2, <1>8
  <2> QED BY <2>1, <2>6, <2>7, <2>8, <2>9
<1>9. m >= MaxSize \/ (m < MaxSize /\ m = PS) \/ (m < MaxSize /\ m < PS)
  <2> HIDE DEF m, PS
  <2> QED BY <1>0, <1>2, <1>4
<1> QED BY <1>6, <1>7, <1>8, <1>9

\* What is read of a chain of d.
LEMMA ChainDataReads ==
  ASSUME VolumeInv, image_end \in 0..SlotCount, NEW d \in DOMAIN Files,
         NEW rs, OnDisk(rs), FirstOf(rs, d)
  PROVE  ReadTo(ChainData(rs)[Len(rs)], d, Len(ClustersOf(rs))) /\ Len(ClustersOf(rs)) \in Nat
<1> DEFINE w == ChainData(rs)
           P(k) == Len(ClustersTo(rs, k))
           N == {k \in Nat : k <= Len(rs) => ReadTo(w[k], d, P(k))}
<1>0. rs \in Seq(RunType) /\ Len(rs) \in Nat
  BY DEF OnDisk
<1>1. /\ w[0] = <<>> /\ \A k \in 1..Len(rs) : w[k] = WithRun(w[k - 1], rs[k])
      /\ \A k \in 0..Len(rs) : Sectors(w[k])
  BY ChainDataFacts
<1> HIDE DEF w
<1>2. 0 \in N
  <2>1. ClustersTo(rs, 0) = <<>> /\ Len(<<>>) = 0
    BY <1>0, ClustersToAll
  <2>2. P(0) = 0
    BY <2>1
  <2>3. Intact(d, 0)
    BY DEF Intact
  <2>4. 0 * SlotsPerCluster = 0
    BY FatTreeAssumption
  <2>5. ReadTo(<<>>, d, 0)
    BY <2>1, <2>3, <2>4 DEF ReadTo
  <2> HIDE DEF P
  <2> QED BY <1>1, <2>2, <2>5
<1>3. ASSUME NEW k \in N PROVE k + 1 \in N
  <2>1. k \in Nat /\ (k <= Len(rs) => ReadTo(w[k], d, P(k)))
    OBVIOUS
  <2>2. ASSUME k + 1 <= Len(rs) PROVE ReadTo(w[k + 1], d, P(k + 1))
    <3>1. k < Len(rs) /\ k <= Len(rs) /\ k + 1 \in 1..Len(rs) /\ (k + 1) - 1 = k /\ k \in 0..Len(rs)
      BY <1>0, <2>1, <2>2
    <3> DEFINE r == rs[k + 1]
               a == ClustersOf(rs)
               C == Files[d].clusters
    <3>2. /\ r \in RunType /\ r.count \in Nat /\ P(k) \in Nat /\ P(k + 1) = P(k) + r.count
      BY <1>0, <2>1, <3>1, ClustersToNext
    <3>3. r.count = 0 \/ r.cluster >= 2
      BY <3>1 DEF OnDisk
    <3>4. \A j \in 1..r.count : P(k) + j \in 1..Len(a) /\ a[P(k) + j] = r.cluster + j - 1
      BY <1>0, <2>1, <3>1, RunInClusters
    <3>5. P(k + 1) <= Len(a) /\ P(k + 1) \in Nat /\ Len(a) \in Nat
      BY <1>0, <2>1, <3>1, ClustersToPrefix, ClustersToAll
    <3>6. Len(a) <= Len(C) /\ (\A i \in 1..Len(a) : a[i] = C[i]) /\ Len(C) \in Nat
      BY FileFacts DEF FirstOf
    <3> HIDE DEF P, r, a, C
    <3>7. P(k) + r.count <= Len(C)
      BY <3>2, <3>5, <3>6
    <3>8. \A j \in 1..r.count : C[P(k) + j] = r.cluster + j - 1
      BY <3>4, <3>6
    <3>9. Sectors(w[k]) /\ ReadTo(w[k], d, P(k)) /\ w[k + 1] = WithRun(w[k], r)
      BY <1>1, <2>1, <3>1 DEF r
    <3>10. ReadTo(WithRun(w[k], r), d, P(k) + r.count)
      BY <3>2, <3>3, <3>7, <3>8, <3>9, WithRunReads DEF C
    <3> QED BY <3>2, <3>9, <3>10
  <2> HIDE DEF P
  <2> QED BY <2>1, <2>2
<1>4. N = Nat
  <2>1. N \in SUBSET Nat
    OBVIOUS
  <2> HIDE DEF N
  <2> QED BY <1>2, <1>3, <2>1, Induction
<1>5. Len(rs) \in N /\ Len(rs) <= Len(rs)
  BY <1>0, <1>4
<1>6. ReadTo(w[Len(rs)], d, P(Len(rs)))
  <2> HIDE DEF P
  <2> QED BY <1>5
<1>7. P(Len(rs)) = Len(ClustersOf(rs)) /\ Len(ClustersOf(rs)) \in Nat
  BY <1>0, ClustersToAll
<1> HIDE DEF P
<1> QED BY <1>6, <1>7 DEF w

\* Once the image is taken: its table links the volume's files, and the chain that
\* is followed begins where the entry says; or there is no file at all.
NoFiles == \A p \in 1..SlotCount : slots[p] \in {Zero, Label}
Linked ==
  fat = TableOf /\ (pc \in {"start", "loop", "done", "known"} => start_cluster = entry.start_cluster)
LinkInv ==
  phase # "volume" =>
    /\ pc \in {"start", "loop", "done"} => ~(fs = "exfat" /\ entry.contiguous)
    /\ NoFiles \/ Linked

\* At the beginning there is no file, or no image yet.
LEMMA LinkInit == TreeInit => LinkInv
<1> SUFFICES ASSUME TreeInit, phase # "volume" PROVE LinkInv
  BY DEF LinkInv
<1>1. fs = "fat32"
  BY DEF TreeInit
<1>2. NoFiles
  <2> DEFINE first == (RootEntry.start_cluster - 2) * SlotsPerCluster + 1
  <2>1. slots = [p \in 1..SlotCount |-> IF p = first THEN Label ELSE Zero]
    BY DEF TreeInit
  <2> HIDE DEF first
  <2> QED BY <2>1 DEF NoFiles
<1> QED BY <1>1, <1>2 DEF LinkInv

\* The table of the image stays that of the volume it was taken of.
LEMMA LinkStep == TreeTyped /\ LinkInv /\ [TreeNext]_tree_vars => LinkInv'
<1> SUFFICES ASSUME TreeTyped, LinkInv, [TreeNext]_tree_vars PROVE LinkInv'
  OBVIOUS
<1>1. ASSUME UNCHANGED volume PROVE NoFiles' = NoFiles /\ TableOf' = TableOf /\ fs' = fs
  <2>1. slots' = slots /\ fs' = fs
    BY <1>1 DEF volume
  <2>2. NoFiles' <=> NoFiles
    BY <2>1 DEF NoFiles
  <2> QED BY <2>1, <2>2 DEF NoFiles, TableOf, Live, Contiguous, IsOf
<1>2. ASSUME NEW table, Change(table) PROVE LinkInv'
  BY <1>2 DEF Change, LinkInv
<1>3. CASE UNCHANGED tree_vars
  <2>1. UNCHANGED volume /\ UNCHANGED <<phase, pc, entry, fat, start_cluster>>
    BY <1>3 DEF tree_vars, chain, input
  <2> QED BY <1>1, <2>1 DEF LinkInv, Linked
<1>4. CASE Read
  <2>1. /\ UNCHANGED volume /\ fat' = TableOf /\ start_cluster' = RootEntry.start_cluster
        /\ entry' = entry /\ entry = RootEntry
    BY <1>4 DEF Read, TreeTyped
  <2>2. TableOf' = TableOf
    BY <1>1, <2>1
  <2>3. ~entry'.contiguous
    BY <2>1, RootFacts
  <2> QED BY <2>1, <2>2, <2>3 DEF LinkInv, Linked
<1>5. CASE FollowChain
  <2>1. /\ UNCHANGED volume /\ UNCHANGED <<phase, entry>> /\ input' = input /\ phase = "tree"
        /\ pc \in {"start", "loop"}
    BY <1>5 DEF FollowChain, Next, NoChain, Begin, EndChain, Consecutive, NewRun, GiveUp, Looking
  <2>2. fat' = fat /\ start_cluster' = start_cluster
    BY <2>1 DEF input
  <2> QED BY <1>1, <2>1, <2>2 DEF LinkInv, Linked
<1>6. CASE AddRecord
  <2>1. UNCHANGED volume /\ phase = "tree" /\ pc' = "entries" /\ input' = input
    BY <1>6 DEF AddRecord
  <2>2. fat' = fat
    BY <2>1 DEF input
  <2> QED BY <1>1, <2>1, <2>2 DEF LinkInv, Linked
<1>7. CASE SkipDeleted \/ LeaveDirectory
  <2>1. /\ UNCHANGED volume /\ phase = "tree" /\ pc = "entries" /\ UNCHANGED chain
    BY <1>7 DEF SkipDeleted, LeaveDirectory, InDirectory
  <2>2. pc' = pc /\ fat' = fat
    BY <2>1 DEF chain, input
  <2> QED BY <1>1, <2>1, <2>2 DEF LinkInv, Linked
<1>8. CASE TakeEntry
  <2>1. /\ UNCHANGED volume /\ phase = "tree" /\ fat' = fat /\ start_cluster' = entry'.start_cluster
    BY <1>8 DEF TakeEntry, InDirectory
  <2>2. pc' = "start" => ~(fs = "exfat" /\ entry'.contiguous)
    BY <1>8 DEF TakeEntry
  <2>3. pc' \in {"start", "known"}
    BY <1>8 DEF TakeEntry
  <2> QED BY <1>1, <2>1, <2>2, <2>3 DEF LinkInv, Linked
<1>9. ASSUME NEW f, NEW d, Create(f, d) \/ Delete(f) \/ Move(f, d) PROVE LinkInv'
  BY <1>2, <1>9 DEF Create, Delete, Move
<1> QED BY <1>3, <1>4, <1>5, <1>6, <1>7, <1>8, <1>9 DEF TreeNext

\* Without files nothing is listed.
LEMMA NothingListed ==
  ASSUME VolumeInv, NoFiles, NEW data, Sectors(data)
  PROVE  ParseDirectory(data) = <<>>
<1>1. \A m \in 1..Len(data) : data[m].kind \notin {"short", "file"}
  <2> TAKE m \in 1..Len(data)
  <2>1. PICK p \in 1..SlotCount : data[m] = Sector(p)
    BY DEF Sectors
  <2>2. data[m] \in {Zero, Label}
    BY <2>1 DEF Sector, NoFiles
  <2>3. Zero.kind = "zero" /\ Label.kind = "label"
    BY DEF Zero, Label, Slot
  <2> QED BY <2>2, <2>3
<1>2. SlotSeq(data)
  BY SectorsProper
<1> DEFINE p == ParseDirectory(data)
<1>3. p \in Seq(EntryRecord)
  BY <1>2, ParseTyped
<1>4. 1 \notin 1..Len(p)
  <2> SUFFICES ASSUME 1 \in 1..Len(p) PROVE FALSE
    OBVIOUS
  <2>1. CASE fs = "exfat"
    <3>1. p = ExfatEntries(data)
      BY <2>1 DEF ParseDirectory
    <3>2. \E m \in 1..Len(data) : data[m].kind = "file"
      BY <1>2, <3>1, ExfatEntryOfHead
    <3> QED BY <1>1, <3>2
  <2>2. CASE fs # "exfat"
    <3>1. p = FatEntries(data)
      BY <2>2 DEF ParseDirectory
    <3>2. \E m \in 1..Len(data) : data[m].kind = "short"
      BY <1>2, <3>1, FatEntryOfSlot
    <3> QED BY <1>1, <3>2
  <2> QED BY <2>1, <2>2
<1> HIDE DEF p
<1>5. p = <<>>
  <2>1. Len(p) = 0
    BY <1>3, <1>4
  <2> QED BY <1>3, <2>1, EmptySeq
<1> QED BY <1>5 DEF p

\* What is read of a directory in use, where its chain leads.
LEMMA DirectoryReads ==
  ASSUME VolumeInv, TreeTyped, LinkInv, Linked, phase # "volume", pc \in {"done", "known"},
         entry.file \in Live
  PROVE  /\ ~(fs = "fat16" /\ entry = RootEntry /\ pc = "known") =>
              FirstOf(runs, entry.file)
         /\ ~(fs = "fat16" /\ entry.file = Root) =>
              ReadTo(DirectoryData, entry.file, Len(ClustersOf(runs)))
         /\ fs = "fat16" /\ entry.file = Root =>
              LET area == Positions(Root)
              IN  DirectoryData = IF \E i \in 1..Len(area) : area[i] > image_end THEN <<>>
                                  ELSE [i \in 1..Len(area) |-> Sector(area[i])]
<1> DEFINE d == entry.file
           C == Files[d].clusters
<1>1. /\ d \in DOMAIN Files /\ OnDisk(runs) /\ entry \in EntryRecord /\ image_end \in 0..SlotCount
      /\ start_cluster = entry.start_cluster
      /\ entry.start_cluster = IF C = <<>> THEN 0 ELSE C[1]
      /\ entry.start_cluster \in Nat /\ entry.contiguous = Files[d].contiguous
  <2>1. d \in DOMAIN Files /\ OnDisk(runs) /\ entry \in EntryRecord /\ image_end \in 0..SlotCount
    BY LiveFacts, RunsOnDisk DEF TreeTyped
  <2>2. start_cluster = entry.start_cluster
    BY DEF Linked
  <2> QED BY <2>1, <2>2 DEF EntryRecord
<1>2. ASSUME ~(fs = "fat16" /\ entry = RootEntry /\ pc = "known")
      PROVE  FirstOf(runs, d)
  <2>1. CASE pc = "done"
    <3>1. ~Contiguous(d)
      BY <1>1, <2>1 DEF LinkInv, Contiguous
    <3>2. RunsFollowChain
      BY DEF TreeTyped, ChainInv
    <3>3. PICK n \in 0..MaxClusters : Follows(runs, n)
      BY <2>1, <3>2 DEF RunsFollowChain
    <3>4. fat = TableOf
      BY DEF Linked
    <3>5. d \in Live /\ start_cluster = IF Files[d].clusters = <<>> THEN 0 ELSE Files[d].clusters[1]
      BY <1>1
    <3> HIDE DEF d, C
    <3> QED BY <3>1, <3>3, <3>4, <3>5, ChainFirst
  <2>2. CASE pc = "known"
    <3>1. /\ fs = "exfat" /\ entry.contiguous
          /\ runs = <<Run(entry.start_cluster, Len(C))>>
      BY <1>2, <2>2 DEF TreeTyped, Known
    <3> QED BY <1>1, <3>1, ContiguousFirst
  <2> QED BY <2>1, <2>2
<1>3. ASSUME ~(fs = "fat16" /\ d = Root)
      PROVE  ReadTo(DirectoryData, d, Len(ClustersOf(runs)))
  <2>1. entry = RootEntry => d = Root
    BY RootFacts
  <2>2. FirstOf(runs, d)
    BY <1>2, <1>3, <2>1
  <2>3. DirectoryData = ChainData(runs)[Len(runs)]
    BY <1>3 DEF DirectoryData, ChainData
  <2> HIDE DEF d
  <2> QED BY <1>1, <2>2, <2>3, ChainDataReads
<1>4. ASSUME fs = "fat16", d = Root
      PROVE  DirectoryData = IF \E i \in 1..Len(Positions(Root)) : Positions(Root)[i] > image_end
                             THEN <<>>
                             ELSE [i \in 1..Len(Positions(Root)) |-> Sector(Positions(Root)[i])]
  <2>1. DOMAIN Positions(Root) = 1..Len(Positions(Root))
    BY <1>1, <1>4, PositionFacts
  <2> QED BY <1>4, <2>1 DEF DirectoryData
<1> QED BY <1>2, <1>3, <1>4

\* Where no clusters are read as if they stood elsewhere, what is read is faithful.
LEMMA DirectoryFaithful ==
  ASSUME VolumeInv, TreeTyped, LinkInv, Linked, phase # "volume", pc \in {"done", "known"},
         entry.file \in Live, ~Glued(entry.file)
  PROVE  Faithful(DirectoryData, entry.file)
<1> DEFINE d == entry.file
           x == DirectoryData
<1>0. /\ d \in DOMAIN Files /\ Len(Positions(d)) \in Nat
      /\ Len(Positions(d)) = Len(Files[d].clusters) * SlotsPerCluster
      /\ Len(Files[d].clusters) \in Nat /\ SlotsPerCluster \in Nat
      /\ \A i \in 1..Len(Positions(d)) : Positions(d)[i] \in 1..SlotCount
  <2>1. d \in DOMAIN Files
    BY LiveFacts
  <2> HIDE DEF d
  <2>2. Len(Files[d].clusters) \in Nat /\ SlotsPerCluster \in Nat
    BY <2>1, FileFacts, FatTreeAssumption
  <2>3. /\ Len(Positions(d)) \in Nat
        /\ Len(Positions(d)) = Len(Files[d].clusters) * SlotsPerCluster
        /\ \A i \in 1..Len(Positions(d)) : Positions(d)[i] \in 1..SlotCount
    BY <2>1, PositionFacts
  <2> QED BY <2>1, <2>2, <2>3
<1>1. Sectors(x)
  BY RunsOnDisk, DirectoryTyped DEF TreeTyped
<1>2. CASE ~(fs = "fat16" /\ d = Root)
  <2> DEFINE P == Len(ClustersOf(runs))
  <2>1. ReadTo(x, d, P) /\ FirstOf(runs, d)
    <3>1. ~(fs = "fat16" /\ entry = RootEntry /\ pc = "known")
      BY <1>2, RootFacts
    <3> QED BY <1>2, <3>1, DirectoryReads
  <2>2. P \in Nat /\ P <= Len(Files[d].clusters)
    <3>1. runs \in Seq(RunType)
      BY DEF TreeTyped
    <3> QED BY <2>1, <3>1, ClustersToAll DEF FirstOf
  <2> HIDE DEF x, d, P
  <2>3. P * SlotsPerCluster <= Len(Positions(d)) /\ P * SlotsPerCluster \in Nat
    <3> DEFINE v == Len(Files[d].clusters)
               w == Len(Positions(d))
    <3>1. v \in Nat /\ P <= v /\ w = v * SlotsPerCluster /\ P \in Nat /\ SlotsPerCluster \in Nat
      BY <1>0, <2>2
    <3> HIDE DEF v, w
    <3>2. P * SlotsPerCluster <= w /\ P * SlotsPerCluster \in Nat
      BY <3>1
    <3> QED BY <3>2 DEF w
  <2>4. /\ Len(x) <= P * SlotsPerCluster
        /\ \A i \in 1..Len(x) : Intact(d, i) => x[i] = Sector(Positions(d)[i])
        /\ Intact(d, Len(x))
    BY <2>1 DEF ReadTo, d
  <2>5. Len(x) \in Nat /\ x \in Seq(SlotType)
    BY <1>1 DEF Sectors
  <2>6. \A i \in 1..Len(x) : Intact(d, i)
    BY <2>4, <2>5 DEF Intact
  <2>7. Len(x) <= Len(Positions(d))
    BY <1>0, <2>3, <2>4, <2>5
  <2> QED BY <2>4, <2>5, <2>6, <2>7 DEF Faithful, x, d
<1>3. CASE fs = "fat16" /\ d = Root
  <2> DEFINE area == Positions(Root)
             all  == [i \in 1..Len(area) |-> Sector(area[i])]
  <2>1. x = IF \E i \in 1..Len(area) : area[i] > image_end THEN <<>> ELSE all
    BY <1>3, DirectoryReads
  <2>2. Len(area) \in Nat
    BY <1>0, <1>3
  <2>3. CASE x = <<>>
    <3>1. x \in Seq(SlotType) /\ Len(x) = 0
      BY <2>3
    <3> QED BY <1>0, <3>1 DEF Faithful
  <2>4. CASE x = all
    <3>1. \A i \in 1..Len(area) : all[i] = Sector(area[i]) /\ all[i] \in SlotType
      BY <1>0, <1>3, SectorFacts
    <3>2. all = [i \in 1..Len(area) |-> all[i]]
      OBVIOUS
    <3> HIDE DEF all, x
    <3>3. all \in Seq(SlotType) /\ Len(all) = Len(area)
      BY <2>2, <3>1, <3>2, IsSequence
    <3> QED BY <1>3, <2>2, <2>4, <3>1, <3>3 DEF Faithful, x
  <2> QED BY <2>1, <2>3, <2>4
<1> QED BY <1>2, <1>3

-----------------------------------------------------------------------------
(* The tree: every record is of an entry of the directory of its parent.   *)

\* The entry of a file in use, as its directory lists it.
Genuine(e) == e = RootEntry \/ (~e.deleted /\ Listed(e, Home(e.file)))

\* e was read in the directory of p: if that one is in use and e is not deleted, e is
\* listed there.
Child(e, p) == Genuine(p) /\ ~e.deleted => Listed(e, p.file)

Shaped(rs, st) ==
  /\ rs # <<>> => rs[1].entry = RootEntry
  /\ \A i \in 2..Len(rs) : rs[i].parent \in 1..(i - 1)
  /\ \A q \in 1..Len(st) : st[q].id \in 1..Len(rs)

Fits(rs, st) ==
  /\ \A i \in 2..Len(rs) : Child(rs[i].entry, rs[rs[i].parent].entry)
  /\ \A q \in 1..Len(st) : \A j \in 1..Len(st[q].entries) :
       Child(st[q].entries[j], rs[st[q].id].entry)

Unglued == \A d \in LiveDirs : ~Glued(d)

AtEntry == pc \in {"start", "loop", "done", "known"}

SoundInv ==
  /\ Shaped(records, stack)
  /\ AtEntry /\ stack = <<>> => entry = RootEntry /\ records = <<>>
  /\ phase # "volume" /\ Unglued =>
       /\ Fits(records, stack)
       /\ AtEntry /\ stack # <<>> => Child(entry, records[Last(stack).id].entry)

\* A record more.
LEMMA ShapedRecord ==
  ASSUME NEW rs \in Seq(RecordType), NEW st \in Seq(Frame), Shaped(rs, st), NEW r \in RecordType,
         rs # <<>> => r.parent \in 1..Len(rs), rs = <<>> => r.entry = RootEntry
  PROVE  /\ Shaped(Append(rs, r), st)
         /\ Fits(rs, st) /\ (rs # <<>> => Child(r.entry, rs[r.parent].entry))
              => Fits(Append(rs, r), st)
<1> DEFINE n == Len(rs)
           a == Append(rs, r)
<1>1. /\ n \in Nat /\ a \in Seq(RecordType) /\ Len(a) = n + 1
      /\ (\A i \in 1..n : a[i] = rs[i]) /\ a[n + 1] = r
  BY AppendProperties
<1>2. n = 0 <=> rs = <<>>
  BY EmptySeq
<1> HIDE DEF a
<1>3. Shaped(a, st)
  <2>1. a[1].entry = RootEntry
    <3>1. CASE n = 0
      <4>1. n + 1 = 1
        BY <3>1
      <4> QED BY <1>1, <1>2, <3>1, <4>1
    <3>2. CASE n # 0
      <4>1. 1 \in 1..n
        BY <1>1, <3>2
      <4> QED BY <1>1, <1>2, <3>2, <4>1 DEF Shaped
    <3> QED BY <3>1, <3>2
  <2>2. ASSUME NEW i \in 2..(n + 1) PROVE a[i].parent \in 1..(i - 1)
    <3>1. CASE i = n + 1
      <4>1. n # 0 /\ i - 1 = n
        BY <1>1, <3>1
      <4> QED BY <1>1, <1>2, <3>1, <4>1
    <3>2. CASE i # n + 1
      <4>1. i \in 2..n /\ i \in 1..n
        BY <1>1, <3>2
      <4> QED BY <1>1, <4>1 DEF Shaped
    <3> QED BY <3>1, <3>2
  <2>3. ASSUME NEW q \in 1..Len(st) PROVE st[q].id \in 1..(n + 1)
    <3>1. st[q].id \in 1..n
      BY DEF Shaped
    <3> QED BY <1>1, <3>1
  <2> QED BY <1>1, <2>1, <2>2, <2>3 DEF Shaped
<1>4. ASSUME Fits(rs, st), rs # <<>> => Child(r.entry, rs[r.parent].entry)
      PROVE  Fits(a, st)
  <2>1. ASSUME NEW i \in 2..(n + 1) PROVE Child(a[i].entry, a[a[i].parent].entry)
    <3>1. CASE i = n + 1
      <4>1. n # 0
        BY <1>1, <3>1
      <4>2. a[i] = r /\ r.parent \in 1..n
        BY <1>1, <1>2, <3>1, <4>1
      <4>3. a[r.parent] = rs[r.parent]
        BY <1>1, <4>2
      <4> QED BY <1>2, <1>4, <4>1, <4>2, <4>3
    <3>2. CASE i # n + 1
      <4>1. i \in 2..n /\ i \in 1..n
        BY <1>1, <3>2
      <4>2. rs[i].parent \in 1..(i - 1)
        BY <4>1 DEF Shaped
      <4>3. rs[i].parent \in 1..n
        BY <1>1, <4>1, <4>2
      <4>4. a[i] = rs[i] /\ a[rs[i].parent] = rs[rs[i].parent]
        BY <1>1, <4>1, <4>3
      <4> QED BY <1>4, <4>1, <4>4 DEF Fits
    <3> QED BY <3>1, <3>2
  <2>2. ASSUME NEW q \in 1..Len(st), NEW j \in 1..Len(st[q].entries)
        PROVE  Child(st[q].entries[j], a[st[q].id].entry)
    <3>1. st[q].id \in 1..n
      BY DEF Shaped
    <3>2. a[st[q].id] = rs[st[q].id]
      BY <1>1, <3>1
    <3> QED BY <1>4, <3>2 DEF Fits
  <2> QED BY <1>1, <2>1, <2>2 DEF Fits
<1> QED BY <1>3, <1>4 DEF a

\* A directory more.
LEMMA ShapedPush ==
  ASSUME NEW rs \in Seq(RecordType), NEW st \in Seq(Frame), Shaped(rs, st), NEW t \in Frame,
         t.id \in 1..Len(rs)
  PROVE  /\ Shaped(rs, Append(st, t))
         /\ Fits(rs, st) /\ (\A j \in 1..Len(t.entries) : Child(t.entries[j], rs[t.id].entry))
              => Fits(rs, Append(st, t))
<1> DEFINE n == Len(st)
           a == Append(st, t)
<1>1. /\ n \in Nat /\ Len(a) = n + 1
      /\ (\A i \in 1..n : a[i] = st[i]) /\ a[n + 1] = t
  BY AppendProperties
<1>2. \A q \in 1..(n + 1) : q \in 1..n \/ q = n + 1
  BY <1>1
<1> HIDE DEF a, n
<1>3. Shaped(rs, a)
  BY <1>1, <1>2 DEF Shaped, n
<1>4. ASSUME Fits(rs, st), \A j \in 1..Len(t.entries) : Child(t.entries[j], rs[t.id].entry)
      PROVE  Fits(rs, a)
  <2>1. ASSUME NEW q \in 1..(n + 1), NEW j \in 1..Len(a[q].entries)
        PROVE  Child(a[q].entries[j], rs[a[q].id].entry)
    <3>1. CASE q = n + 1
      BY <1>1, <1>4, <3>1
    <3>2. CASE q \in 1..n
      <4>1. a[q] = st[q] /\ q \in 1..Len(st)
        BY <1>1, <3>2 DEF n
      <4> QED BY <1>4, <2>1, <4>1 DEF Fits
    <3> QED BY <1>2, <3>1, <3>2
  <2> QED BY <1>1, <1>4, <2>1 DEF Fits
<1> QED BY <1>3, <1>4 DEF a

\* An entry less.
LEMMA ShapedPopped ==
  ASSUME NEW rs, stack \in Seq(Frame), stack # <<>>, Entries # <<>>, Shaped(rs, stack)
  PROVE  /\ Shaped(rs, Popped) /\ Popped # <<>> /\ Last(Popped).id = Last(stack).id
         /\ Fits(rs, stack) => Fits(rs, Popped) /\ Child(Head(Entries), rs[Last(stack).id].entry)
<1> DEFINE L == Len(stack)
<1>1. /\ Popped \in Seq(Frame) /\ Len(Popped) = L /\ L \in Nat \ {0}
      /\ Entries = stack[L].entries /\ Entries \in Seq(EntryRecord)
      /\ Head(Entries) = Entries[1] /\ 1 \in 1..Len(Entries)
      /\ \A q \in 1..L : Popped[q].id = stack[q].id
      /\ \A q \in 1..(L - 1) : Popped[q].entries = stack[q].entries
      /\ Popped[L].entries = Tail(Entries)
  BY PoppedFacts
<1> DEFINE p == Popped
           E == Entries
<1>2. Shaped(rs, p)
  BY <1>1 DEF Shaped
<1>3. p # <<>>
  <2>1. Len(p) # 0
    BY <1>1
  <2> QED BY <1>1, <2>1, EmptySeq
<1> HIDE DEF L, p, E
<1>4. Last(p).id = Last(stack).id /\ Last(stack) = stack[L]
  <2>1. L \in 1..L
    BY <1>1
  <2> QED BY <1>1, <2>1 DEF Last, L, p
<1>5. ASSUME Fits(rs, stack) PROVE Fits(rs, p) /\ Child(E[1], rs[Last(stack).id].entry)
  <2>0. L \in 1..L /\ L = Len(stack)
    BY <1>1 DEF L
  <2>1. ASSUME NEW q \in 1..L, NEW j \in 1..Len(p[q].entries)
        PROVE  Child(p[q].entries[j], rs[p[q].id].entry)
    <3>1. CASE q \in 1..(L - 1)
      <4>1. p[q].entries = stack[q].entries /\ p[q].id = stack[q].id /\ q \in 1..Len(stack)
        BY <1>1, <2>0, <3>1 DEF p
      <4> QED BY <1>5, <2>1, <4>1 DEF Fits
    <3>2. CASE q = L
      <4>1. p[q].entries = Tail(E) /\ p[q].id = stack[L].id /\ E = stack[L].entries
        BY <1>1, <2>0, <3>2 DEF p, E
      <4>2. E \in Seq(EntryRecord) /\ 1 \in 1..Len(E)
        BY <1>1 DEF E
      <4>3. j + 1 \in 1..Len(E) /\ Tail(E)[j] = E[j + 1]
        <5>1. E # <<>> /\ j \in 1..Len(Tail(E))
          BY <2>1, <4>1, <4>2
        <5>2. Len(Tail(E)) = Len(E) - 1 /\ Tail(E)[j] = E[j + 1] /\ Len(E) \in Nat
          BY <4>2, <5>1, HeadTailProperties
        <5> QED BY <5>1, <5>2
      <4> QED BY <1>5, <2>0, <4>1, <4>3 DEF Fits
    <3>3. q \in 1..(L - 1) \/ q = L
      BY <1>1
    <3> QED BY <3>1, <3>2, <3>3
  <2>2. Fits(rs, p)
    BY <1>1, <1>5, <2>1 DEF Fits, p
  <2>3. Child(E[1], rs[stack[L].id].entry)
    BY <1>1, <1>5, <2>0 DEF Fits, E
  <2> QED BY <1>4, <2>2, <2>3
<1> QED BY <1>1, <1>2, <1>3, <1>4, <1>5 DEF p, E

\* All but the last of a list of directories.
LEMMA FrontFacts ==
  ASSUME NEW st \in Seq(Frame), st # <<>>
  PROVE  /\ Len(Front(st)) = Len(st) - 1
         /\ \A q \in 1..(Len(st) - 1) : Front(st)[q] = st[q] /\ q \in 1..Len(st)
<1> DEFINE n == Len(st)
           a == Front(st)
<1>1. n \in Nat /\ n # 0
  BY EmptySeq
<1>2. Len(a) = n - 1 /\ \A q \in 1..(n - 1) : a[q] = st[q]
  <2>1. a = SubSeq(st, 1, n - 1)
    BY DEF Front
  <2>2. \A i \in 1..(n - 1) : st[i] \in Frame
    <3>1. \A i \in 1..(n - 1) : i \in 1..n
      BY <1>1
    <3> QED BY <3>1
  <2> DEFINE m == n - 1
  <2> HIDE DEF n
  <2>3. m \in Nat /\ 1 \in Int /\ (m - 1) + 1 = m /\ \A i \in 1..m : (1 + i) - 1 = i
    BY <1>1
  <2>4. m \in Int /\ Len(SubSeq(st, 1, m)) = m /\ \A q \in 1..m : SubSeq(st, 1, m)[q] = st[q]
    <3> HIDE DEF m
    <3>1. /\ Len(SubSeq(st, 1, m)) = IF 1 <= m THEN (m - 1) + 1 ELSE 0
          /\ \A i \in 1..((m - 1) + 1) : SubSeq(st, 1, m)[i] = st[(1 + i) - 1]
      BY <2>2, <2>3, SubSeqProperties DEF m
    <3> QED BY <2>3, <3>1
  <2> QED BY <2>1, <2>4
<1>3. \A q \in 1..(n - 1) : q \in 1..n
  BY <1>1
<1> QED BY <1>2, <1>3

\* A directory less.
LEMMA ShapedFront ==
  ASSUME NEW rs, NEW st \in Seq(Frame), st # <<>>, Shaped(rs, st)
  PROVE  Shaped(rs, Front(st)) /\ (Fits(rs, st) => Fits(rs, Front(st)))
<1> DEFINE n == Len(st)
           a == Front(st)
<1>1. Len(a) = n - 1 /\ \A q \in 1..(n - 1) : a[q] = st[q] /\ q \in 1..n
  BY FrontFacts
<1> HIDE DEF a
<1> QED BY <1>1 DEF Shaped, Fits, a

\* What the volume lists stays as it is once the image is taken.
LEMMA SameChild ==
  ASSUME slots' = slots, fs' = fs, NEW e, NEW p
  PROVE  Child(e, p)' <=> Child(e, p)
BY DEF Child, Genuine, Listed, Home, LiveDirs, Live, IsOf, NameOf, Positions

\* The tree fits the volume as long as neither changes.
LEMMA SameFits ==
  ASSUME slots' = slots, fs' = fs, Fits(records', stack')
  PROVE  Fits(records, stack)'
BY SameChild DEF Fits

\* Whether the end of the image cuts a directory stays as it is.
LEMMA SameUnglued ==
  ASSUME slots' = slots, image_end' = image_end
  PROVE  Unglued' <=> Unglued
BY DEF Unglued, Glued, LiveDirs, Live, IsOf, Positions

\* At the beginning there is no tree.
LEMMA SoundInit == TreeInit => SoundInv
<1> SUFFICES ASSUME TreeInit PROVE SoundInv
  OBVIOUS
<1>1. entry = RootEntry /\ stack = <<>> /\ records = <<>>
  BY DEF TreeInit
<1>2. Len(stack) = 0 /\ Len(records) = 0
  BY <1>1
<1>3. Shaped(records, stack) /\ Fits(records, stack)
  BY <1>1, <1>2 DEF Shaped, Fits
<1> QED BY <1>1, <1>3 DEF SoundInv

\* A step that leaves the tree alone.
LEMMA SoundStays ==
  ASSUME SoundInv, UNCHANGED <<fs, slots, image_end, entry, stack, records>>, AtEntry' => AtEntry,
         phase = "volume" => phase' = "volume"
  PROVE  SoundInv'
<1>1. Shaped(records, stack)'
  BY DEF SoundInv, Shaped
<1>2. phase' # "volume" /\ Unglued' => Fits(records, stack)'
  BY SameFits, SameUnglued DEF SoundInv
<1>3. phase' # "volume" /\ Unglued' /\ AtEntry' /\ stack' # <<>> =>
        Child(entry, records[Last(stack).id].entry)'
  BY SameChild, SameUnglued DEF SoundInv
<1> QED BY <1>1, <1>2, <1>3 DEF SoundInv

\* While the volume lives and when its image is taken there is no tree yet.
LEMMA SoundBefore ==
  ASSUME TreeTyped, phase = "volume", UNCHANGED <<entry, stack, records>>
  PROVE  SoundInv'
<1>1. entry' = RootEntry /\ stack' = <<>> /\ records' = <<>>
  BY DEF TreeTyped
<1>2. Len(stack') = 0 /\ Len(records') = 0
  BY <1>1
<1>3. RootEntry' = RootEntry
  BY DEF RootEntry
<1>4. Shaped(records, stack)' /\ Fits(records, stack)'
  BY <1>1, <1>2 DEF Shaped, Fits
<1> QED BY <1>1, <1>3, <1>4 DEF SoundInv

\* The directory of a file in use is read for what is in it.
LEMMA ReadIsChild ==
  ASSUME VolumeInv, TreeTyped, LinkInv, Unglued, phase # "volume", pc \in {"done", "known"},
         entry.dir, Sectors(DirectoryData),
         NEW j \in 1..Len(ParseDirectory(DirectoryData))
  PROVE  Child(ParseDirectory(DirectoryData)[j], entry)
<1> SUFFICES ASSUME Genuine(entry), ~ParseDirectory(DirectoryData)[j].deleted
             PROVE  Listed(ParseDirectory(DirectoryData)[j], entry.file)
  BY DEF Child
<1>1. entry.file \in LiveDirs
  <2>1. CASE entry = RootEntry
    BY <2>1, RootFacts, FatTreeAssumption DEF LiveDirs, Live
  <2>2. CASE Listed(entry, Home(entry.file))
    BY <2>2 DEF Listed, LiveDirs
  <2> QED BY <2>1, <2>2 DEF Genuine
<1>2. CASE NoFiles
  <2>1. ParseDirectory(DirectoryData) = <<>>
    BY <1>2, NothingListed
  <2>2. Len(ParseDirectory(DirectoryData)) = 0
    BY <2>1
  <2> QED BY <2>2
<1>3. CASE Linked
  <2>1. entry.file \in Live /\ ~Glued(entry.file)
    BY <1>1 DEF Unglued, LiveDirs
  <2>2. Faithful(DirectoryData, entry.file)
    BY <1>3, <2>1, DirectoryFaithful
  <2> QED BY <1>1, <2>2, ParseSound
<1> QED BY <1>2, <1>3 DEF LinkInv

\* The record of an entry, and what its directory lists.
LEMMA SoundAdd ==
  ASSUME VolumeInv, TreeTyped, LinkInv, SoundInv, AddRecord
  PROVE  SoundInv'
<1>1. /\ phase = "tree" /\ pc \in {"done", "known"} /\ pc' = "entries"
      /\ UNCHANGED <<phase, slots, fs, image_end, entry>>
  BY DEF AddRecord, volume, image
<1>2. /\ Sectors(DirectoryData)
      /\ AddedRecord \in RecordType /\ AddedFrame \in Frame
      /\ records' = Append(records, AddedRecord)
      /\ stack' = IF entry.dir /\ Len(stack) <= MaxDepth THEN Append(stack, AddedFrame) ELSE stack
  BY AddTyped
<1>3. /\ records \in Seq(RecordType) /\ stack \in Seq(Frame) /\ records' \in Seq(RecordType)
      /\ Len(records) \in Nat /\ Shaped(records, stack)
  BY AddTyped DEF TreeTyped, SoundInv
<1>4. AtEntry
  BY <1>1 DEF AtEntry
<1>5. /\ AddedRecord.entry = entry
      /\ stack = <<>> => AddedRecord.parent = 1
      /\ stack # <<>> => AddedRecord.parent = Last(stack).id
  BY DEF AddedRecord
<1>6. stack # <<>> => Last(stack).id \in 1..Len(records)
  <2> SUFFICES ASSUME stack # <<>> PROVE Last(stack).id \in 1..Len(records)
    OBVIOUS
  <2>1. Len(stack) \in 1..Len(stack)
    <3>1. Len(stack) \in Nat /\ Len(stack) # 0
      BY <1>3, EmptySeq
    <3> QED BY <3>1
  <2> QED BY <1>3, <2>1 DEF Shaped, Last
<1>7. records # <<>> => stack # <<>> /\ AddedRecord.parent \in 1..Len(records)
  BY <1>4, <1>5, <1>6 DEF SoundInv
<1>8. records = <<>> => AddedRecord.entry = RootEntry
  <2> SUFFICES ASSUME records = <<>> PROVE AddedRecord.entry = RootEntry
    OBVIOUS
  <2>1. Len(records) = 0
    BY <1>3, EmptySeq
  <2>2. stack = <<>>
    BY <1>6, <2>1
  <2> QED BY <1>4, <1>5, <2>2 DEF SoundInv
<1>9. Shaped(records', stack)
  BY <1>2, <1>3, <1>7, <1>8, ShapedRecord
<1>10. /\ AddedFrame.id = Len(records) + 1 /\ AddedFrame.entries = ParseDirectory(DirectoryData)
       /\ AddedFrame.id \in 1..Len(records') /\ records'[AddedFrame.id].entry = entry
  <2>1. AddedFrame.id = Len(records) + 1 /\ AddedFrame.entries = ParseDirectory(DirectoryData)
    BY DEF AddedFrame
  <2>2. Len(records') = Len(records) + 1 /\ records'[Len(records) + 1] = AddedRecord
    BY <1>2, <1>3, AppendProperties
  <2>3. Len(records) + 1 \in 1..(Len(records) + 1)
    BY <1>3
  <2> QED BY <1>5, <2>1, <2>2, <2>3
<1>11. Shaped(records', stack')
  BY <1>2, <1>3, <1>9, <1>10, ShapedPush
<1>12. ASSUME Unglued PROVE Fits(records', stack')
  <2>1. Fits(records, stack) /\ (stack # <<>> => Child(entry, records[Last(stack).id].entry))
    BY <1>1, <1>4, <1>12 DEF SoundInv
  <2>2. Fits(records', stack)
    BY <1>2, <1>3, <1>5, <1>7, <1>8, <2>1, ShapedRecord
  <2>3. ASSUME entry.dir
        PROVE  \A j \in 1..Len(AddedFrame.entries) :
                 Child(AddedFrame.entries[j], records'[AddedFrame.id].entry)
    BY <1>1, <1>2, <1>10, <1>12, <2>3, ReadIsChild
  <2> QED BY <1>2, <1>3, <1>9, <1>10, <2>2, <2>3, ShapedPush
<1>13. Shaped(records, stack)'
  BY <1>11 DEF Shaped
<1>14. Unglued' => Fits(records, stack)'
  BY <1>1, <1>12, SameFits, SameUnglued
<1>15. ~AtEntry'
  BY <1>1 DEF AtEntry
<1> QED BY <1>13, <1>14, <1>15 DEF SoundInv

\* An entry is passed over or taken.
LEMMA SoundPop ==
  ASSUME TreeTyped, SoundInv, SkipDeleted \/ TakeEntry
  PROVE  SoundInv'
<1>1. /\ phase = "tree" /\ pc = "entries" /\ stack # <<>> /\ Entries # <<>> /\ stack' = Popped
      /\ UNCHANGED <<phase, slots, fs, image_end, records>>
      /\ pc' = "entries" \/ entry' = Head(Entries)
  BY DEF SkipDeleted, TakeEntry, InDirectory, volume, image, chain
<1>2. stack \in Seq(Frame) /\ Shaped(records, stack)
  BY DEF TreeTyped, SoundInv
<1>3. /\ Shaped(records, Popped) /\ Popped # <<>> /\ Last(Popped).id = Last(stack).id
      /\ Fits(records, stack) =>
           Fits(records, Popped) /\ Child(Head(Entries), records[Last(stack).id].entry)
  BY <1>1, <1>2, ShapedPopped
<1>4. Shaped(records, stack)'
  BY <1>1, <1>3 DEF Shaped
<1>5. ASSUME Unglued'
      PROVE  Fits(records, stack)' /\ (AtEntry' => Child(entry, records[Last(stack).id].entry)')
  <2>1. Fits(records, stack)
    BY <1>1, <1>5, SameUnglued DEF SoundInv
  <2>2. Fits(records', stack')
    BY <1>1, <1>3, <2>1
  <2>3. Child(Head(Entries), records[Last(stack).id].entry)
    BY <1>3, <2>1
  <2>4. AtEntry' => entry' = Head(Entries)
    BY <1>1 DEF AtEntry
  <2>5. Last(stack)'.id = Last(stack).id /\ records' = records
    BY <1>1, <1>3 DEF Last
  <2>6. AtEntry' => Child(entry', records'[Last(stack)'.id].entry)
    BY <2>3, <2>4, <2>5
  <2> QED BY <1>1, <2>2, <2>6, SameFits, SameChild
<1>6. stack' # <<>>
  BY <1>1, <1>3
<1> QED BY <1>1, <1>4, <1>5, <1>6 DEF SoundInv

\* A directory is done.
LEMMA SoundLeave ==
  ASSUME TreeTyped, SoundInv, LeaveDirectory
  PROVE  SoundInv'
<1>1. /\ phase = "tree" /\ pc = "entries" /\ pc' = "entries" /\ stack # <<>> /\ stack' = Front(stack)
      /\ UNCHANGED <<slots, fs, image_end, records>> /\ phase' # "volume"
  BY DEF LeaveDirectory, InDirectory, chain, volume, image
<1>2. stack \in Seq(Frame) /\ Shaped(records, stack)
  BY DEF TreeTyped, SoundInv
<1>3. Shaped(records', stack') /\ (Fits(records, stack) => Fits(records', stack'))
  BY <1>1, <1>2, ShapedFront
<1>4. Shaped(records, stack)'
  BY <1>3 DEF Shaped
<1>5. Unglued' => Fits(records, stack)'
  BY <1>1, <1>3, SameUnglued, SameFits DEF SoundInv
<1>6. ~AtEntry'
  BY <1>1 DEF AtEntry
<1> QED BY <1>4, <1>5, <1>6 DEF SoundInv

\* Each step of the tree keeps it as the volume has it.
LEMMA SoundStep ==
  VolumeInv /\ TreeTyped /\ LinkInv /\ SoundInv /\ [TreeNext]_tree_vars => SoundInv'
<1> SUFFICES ASSUME VolumeInv, TreeTyped, LinkInv, SoundInv, [TreeNext]_tree_vars PROVE SoundInv'
  OBVIOUS
<1>1. ASSUME NEW table, Change(table) PROVE SoundInv'
  BY <1>1, SoundBefore DEF Change
<1>2. CASE UNCHANGED tree_vars
  <2>1. UNCHANGED <<pc, phase, fs, slots, image_end, entry, stack, records>>
    BY <1>2 DEF tree_vars, volume, image, chain
  <2>2. AtEntry' => AtEntry
    BY <2>1 DEF AtEntry
  <2> QED BY <2>1, <2>2, SoundStays
<1>3. ASSUME NEW f, NEW d, Create(f, d) \/ Delete(f) \/ Move(f, d) PROVE SoundInv'
  BY <1>1, <1>3 DEF Create, Delete, Move
<1>4. CASE Read
  BY <1>4, SoundBefore DEF Read
<1>5. CASE FollowChain
  <2>1. /\ UNCHANGED <<phase, fs, slots, image_end, entry, stack, records>>
        /\ pc \in {"start", "loop"}
    BY <1>5 DEF FollowChain, Next, NoChain, Begin, EndChain, Consecutive, NewRun, GiveUp, Looking,
                volume, image
  <2>2. AtEntry
    BY <2>1 DEF AtEntry
  <2> QED BY <2>1, <2>2, SoundStays
<1> QED BY <1>2, <1>3, <1>4, <1>5, SoundAdd, SoundPop, SoundLeave DEF TreeNext

-----------------------------------------------------------------------------
(* Nothing is invented.                                                    *)

\* The beginning of a list.
LEMMA Prefix ==
  ASSUME NEW S, NEW s \in Seq(S), NEW t \in Seq(S), Len(s) <= Len(t),
         \A k \in 1..Len(s) : s[k] = t[k]
  PROVE  SubSeq(t, 1, Len(s)) = s
<1> DEFINE n == Len(s)
           r == SubSeq(t, 1, n)
<1>1. n \in Nat /\ Len(t) \in Nat
  OBVIOUS
<1> HIDE DEF n
<1>2. n \in Int /\ 1 \in Int /\ \A i \in 1..n : t[i] \in S /\ (1 + i) - 1 = i
  BY <1>1 DEF n
<1>3. (n - 1) + 1 = n /\ (1 <= n \/ n = 0)
  BY <1>1
<1>4. r \in Seq(S) /\ Len(r) = n /\ \A i \in 1..n : r[i] = t[i]
  <2> HIDE DEF r
  <2>1. /\ r \in Seq(S) /\ Len(r) = IF 1 <= n THEN (n - 1) + 1 ELSE 0
        /\ \A i \in 1..((n - 1) + 1) : r[i] = t[(1 + i) - 1]
    BY <1>2, SubSeqProperties DEF r
  <2> QED BY <1>2, <1>3, <2>1
<1> HIDE DEF r
<1>5. Len(r) = Len(s) /\ \A i \in 1..Len(r) : r[i] = s[i]
  BY <1>4 DEF n
<1>6. s \in Seq(S) /\ r \in Seq(S)
  BY <1>4
<1>7. r = s
  BY ONLY <1>5, <1>6, SeqEqual
<1> QED BY <1>7 DEF r, n

\* The way to a record, one after the other.
LEMMA PathFacts ==
  ASSUME records \in Seq(RecordType), NEW st, Shaped(records, st)
  PROVE  \A i \in 1..Len(records) :
           Path[i] = IF i = 1 THEN {} ELSE {i} \cup Path[records[i].parent]
<1> DEFINE L == Len(records)
           up(i) == records[i].parent
           Is(g, m) == g = [i \in 1..m |-> IF i = 1 THEN {} ELSE {i} \cup g[up(i)]]
           M == {m \in Nat : m <= L => \E g : Is(g, m)}
<1>0. L \in Nat /\ DOMAIN records = 1..L
  OBVIOUS
<1>1. \A i \in 1..L : i # 1 => up(i) \in 1..(i - 1)
  <2> TAKE i \in 1..L
  <2>1. i # 1 => i \in 2..L
    BY <1>0
  <2> QED BY <2>1 DEF Shaped
<1>2. Path = CHOOSE g : Is(g, L)
  BY <1>0 DEF Path
<1> HIDE DEF up
<1>3. 0 \in M
  <2>1. Is([i \in 1..0 |-> {}], 0)
    OBVIOUS
  <2> HIDE DEF Is
  <2> QED BY <2>1
<1>4. ASSUME NEW m \in M PROVE m + 1 \in M
  <2> SUFFICES ASSUME m + 1 <= L PROVE \E g : Is(g, m + 1)
    OBVIOUS
  <2>1. m \in Nat /\ m <= L /\ m + 1 \in 1..L
    BY <1>0
  <2>2. PICK g : Is(g, m)
    BY <2>1
  <2> DEFINE last == IF m + 1 = 1 THEN {} ELSE {m + 1} \cup g[up(m + 1)]
             h == [i \in 1..(m + 1) |-> IF i <= m THEN g[i] ELSE last]
  <2>3. \A i \in 1..m : g[i] = IF i = 1 THEN {} ELSE {i} \cup g[up(i)]
    BY <2>2
  <2>4. ASSUME NEW i \in 1..(m + 1)
        PROVE  h[i] = IF i = 1 THEN {} ELSE {i} \cup h[up(i)]
    <3>0. i # 1 => up(i) \in 1..m /\ h[up(i)] = g[up(i)]
      <4>1. i \in 1..L
        BY <1>0, <2>1
      <4>2. i # 1 => up(i) \in 1..(i - 1)
        BY <1>1, <4>1
      <4>3. i # 1 => up(i) \in 1..m /\ up(i) \in 1..(m + 1) /\ up(i) <= m
        BY <2>1, <4>2
      <4> QED BY <4>3
    <3>1. CASE i \in 1..m
      <4>1. h[i] = g[i]
        BY <2>1, <3>1
      <4> QED BY <2>3, <3>0, <3>1, <4>1
    <3>2. CASE i = m + 1
      <4>1. h[i] = last
        BY <2>1, <3>2
      <4> QED BY <3>0, <3>2, <4>1
    <3> QED BY <2>1, <3>1, <3>2
  <2>5. Is(h, m + 1)
    BY <2>4
  <2> HIDE DEF h, Is
  <2> QED BY <2>5
<1>5. M = Nat
  <2>1. M \in SUBSET Nat
    OBVIOUS
  <2> HIDE DEF M
  <2> QED BY <1>3, <1>4, <2>1, Induction
<1>6. \E g : Is(g, L)
  <2> HIDE DEF Is, L
  <2>1. L <= L
    BY <1>0
  <2>2. L \in M
    BY <1>0, <1>5
  <2> QED BY <2>1, <2>2
<1> DEFINE w == Path
<1>7. Is(w, L)
  <2> HIDE DEF Is, L
  <2> QED BY <1>2, <1>6
<1> HIDE DEF w
<1>8. \A i \in 1..L : w[i] = IF i = 1 THEN {} ELSE {i} \cup w[up(i)]
  BY <1>0, <1>7
<1> QED BY <1>8 DEF w, up

\* What is in the tree is below what is in it, and not deleted.
LEMMA InTreeAbove ==
  ASSUME records \in Seq(RecordType), NEW st, Shaped(records, st), NEW i \in InTree, i # 1
  PROVE  /\ i \in 2..Len(records) /\ ~records[i].entry.deleted
         /\ records[i].parent \in 1..(i - 1) /\ records[i].parent \in InTree
<1>1. i \in 1..Len(records) /\ DOMAIN records = 1..Len(records) /\ Len(records) \in Nat
  BY DEF InTree
<1>2. i \in 2..Len(records)
  BY <1>1
<1>3. records[i].parent \in 1..(i - 1)
  BY <1>2 DEF Shaped
<1>4. records[i].parent \in DOMAIN records
  BY <1>1, <1>2, <1>3
<1>5. Path[i] = {i} \cup Path[records[i].parent]
  BY <1>1, PathFacts
<1>6. \A j \in Path[i] : ~records[j].entry.deleted
  BY DEF InTree
<1> QED BY <1>2, <1>3, <1>4, <1>5, <1>6 DEF InTree

\* What is in the tree is as its directory lists it.
LEMMA InTreeGenuine ==
  ASSUME records \in Seq(RecordType), NEW st, Shaped(records, st), Fits(records, st)
  PROVE  \A i \in InTree : Genuine(records[i].entry)
<1> DEFINE P(i) == Genuine(records[i].entry)
           N == {n \in Nat : \A i \in InTree : i <= n => P(i)}
<1>0. InTree \subseteq 1..Len(records) /\ Len(records) \in Nat
  BY DEF InTree
<1>1. 0 \in N
  BY <1>0
<1>2. ASSUME NEW n \in N PROVE n + 1 \in N
  <2> SUFFICES ASSUME NEW i \in InTree, i = n + 1 PROVE P(i)
    <3>1. \A i \in InTree : i <= n + 1 => i <= n \/ i = n + 1
      BY <1>0
    <3> HIDE DEF P
    <3> QED BY <3>1
  <2>1. CASE i = 1
    <3>1. records # <<>>
      <4>1. Len(records) # 0
        BY <1>0, SMTT(40)
      <4> QED BY <4>1, EmptySeq
    <3> QED BY <2>1, <3>1 DEF Shaped, Genuine
  <2>2. CASE i # 1
    <3> DEFINE p == records[i].parent
    <3>1. i \in 2..Len(records) /\ ~records[i].entry.deleted /\ p \in 1..(i - 1) /\ p \in InTree
      BY <2>2, InTreeAbove
    <3>2. p <= n
      BY <3>1
    <3>3. P(p)
      <4> HIDE DEF P, p
      <4> QED BY <3>1, <3>2
    <3>4. Child(records[i].entry, records[p].entry)
      BY <3>1 DEF Fits
    <3>5. Listed(records[i].entry, records[p].entry.file)
      BY <3>1, <3>3, <3>4 DEF Child
    <3> QED BY <3>1, <3>5 DEF Genuine, Listed
  <2> QED BY <2>1, <2>2
<1>3. N = Nat
  <2>1. N \in SUBSET Nat
    OBVIOUS
  <2> HIDE DEF N
  <2> QED BY <1>1, <1>2, <2>1, Induction
<1> TAKE i \in InTree
<1>4. i \in Nat /\ i <= i
  BY <1>0
<1> HIDE DEF P
<1>5. P(i)
  BY <1>3, <1>4
<1> QED BY <1>5 DEF P

\* A tree whose records fit those above them holds nothing else.
LEMMA SoundMeansNothingInvented ==
  TreeTyped /\ SoundInv => NothingInvented
<1> SUFFICES ASSUME TreeTyped, SoundInv, Built, \A d \in LiveDirs : ~Glued(d), NEW i \in InTree \ {1}
             PROVE  /\ records[i].entry.file \in Live
                    /\ records[records[i].parent].entry.file = Home(records[i].entry.file)
                    /\ IsPrefix(records[i].entry.name, NameOf(records[i].entry.file))
                    /\ fs # "exfat" => records[i].entry.name = NameOf(records[i].entry.file)
  BY DEF NothingInvented
<1>1. records \in Seq(RecordType) /\ Shaped(records, stack) /\ Fits(records, stack)
  BY DEF TreeTyped, SoundInv, Built, Unglued
<1> DEFINE e == records[i].entry
           p == records[i].parent
<1>2. i \in 2..Len(records) /\ ~e.deleted /\ p \in InTree
  BY <1>1, InTreeAbove
<1>3. Genuine(records[p].entry)
  BY <1>1, <1>2, InTreeGenuine
<1>4. Child(e, records[p].entry)
  BY <1>1, <1>2 DEF Fits
<1>5. Listed(e, records[p].entry.file)
  BY <1>2, <1>3, <1>4 DEF Child
<1> DEFINE s == e.name
           t == NameOf(e.file)
<1>6. /\ e.file \in Live /\ Home(e.file) = records[p].entry.file
      /\ s \in Seq(PartType) /\ Len(s) <= Len(t) /\ (\A k \in 1..Len(s) : s[k] = t[k])
      /\ fs # "exfat" => s = t
  BY <1>5 DEF Listed
<1>7. t \in Seq(PartType)
  <2>1. e.file \in DOMAIN Files
    BY <1>6, LiveFacts
  <2> QED BY <2>1, NameFacts
<1> HIDE DEF s, t
<1>8. IsPrefix(s, t)
  <2>1. Len(s) \in Nat /\ Len(t) \in Nat
    BY <1>6, <1>7
  <2>2. SubSeq(t, 1, Len(s)) = s /\ SubSeq(s, 1, Len(s)) = s
    BY <1>6, <1>7, <2>1, Prefix
  <2> QED BY <1>6, <2>1, <2>2 DEF IsPrefix
<1> QED BY <1>6, <1>8 DEF s, t

\* Nothing that is in the tree was invented.
THEOREM FatTreeNothingInvented == TreeSpec => []NothingInvented
<1> DEFINE I == VolumeInv /\ TreeTyped /\ LinkInv /\ SoundInv
<1>1. TreeInit => I
  BY NewVolume, TreeTypedInit, LinkInit, SoundInit
<1>2. I /\ [TreeNext]_tree_vars => I'
  BY VolumeStep, TreeTypedStep, LinkStep, SoundStep
<1>3. I => NothingInvented
  BY SoundMeansNothingInvented
<1> HIDE DEF I
<1> QED BY <1>1, <1>2, <1>3, PTL DEF TreeSpec

-----------------------------------------------------------------------------
(* What was read is found: how far a chain is followed, and what is read of *)
(* a directory.                                                            *)

\* Where the table was read the chain leads from cluster to cluster.
LEMMA WalkReaches ==
  ASSUME VolumeInv, fat = TableOf, NEW d \in Live, ~Contiguous(d),
         start_cluster = IF Files[d].clusters = <<>> THEN 0 ELSE Files[d].clusters[1],
         NEW q \in Nat, q < Len(Files[d].clusters), \A i \in 1..q : Files[d].clusters[i] \notin unread
  PROVE  \A k \in 0..q : k <= MaxClusters => Walk[k] = Files[d].clusters[k + 1]
<1> DEFINE C == Files[d].clusters
           N == {k \in Nat : k <= q /\ k <= MaxClusters => Walk[k] = C[k + 1]}
<1>0. /\ d \in DOMAIN Files /\ C \in Seq(Nat) /\ Len(C) \in Nat
      /\ \A i \in 1..Len(C) : C[i] \in 2..LastCluster
      /\ MaxClusters \in Nat /\ LastCluster \in Nat /\ BAD \in Nat /\ EOC \in Nat
      /\ LastCluster < BAD /\ BAD < EOC
  BY LiveFacts, FileFacts, FatChainAssumption, FatTreeAssumption
<1>1. 0 \in N
  <2>1. Walk[0] = start_cluster
    BY WalkFacts
  <2>2. C # <<>>
    BY <1>0
  <2> QED BY <2>1, <2>2
<1>2. ASSUME NEW k \in N PROVE k + 1 \in N
  <2>1. k \in Nat /\ (k <= q /\ k <= MaxClusters => Walk[k] = C[k + 1])
    OBVIOUS
  <2>2. ASSUME k + 1 <= q, k + 1 <= MaxClusters PROVE Walk[k + 1] = C[(k + 1) + 1]
    <3> DEFINE c == C[k + 1]
               e == C[(k + 1) + 1]
    <3>1. /\ k <= q /\ k <= MaxClusters /\ k + 1 \in 1..MaxClusters /\ (k + 1) - 1 = k
          /\ k + 1 \in 1..Len(C) /\ (k + 1) + 1 \in 1..Len(C) /\ k + 1 # Len(C) /\ k + 1 \in 1..q
      BY <1>0, <2>1, <2>2
    <3>2. Walk[k + 1] = IF Walk[k] < 2 \/ Ends(Entry(Walk[k])) THEN 0 ELSE Entry(Walk[k])
      BY <3>1, WalkFacts
    <3>3. Walk[k] = c
      BY <2>1, <3>1
    <3>4. c \in 2..LastCluster /\ e \in 2..LastCluster /\ c \notin unread
      BY <1>0, <3>1
    <3>5. DOMAIN fat = 2..LastCluster /\ fat[c] = e
      BY <3>1, TableFacts
    <3> HIDE DEF c, e, C
    <3>6. Entry(c) = e
      BY <3>4, <3>5 DEF Entry
    <3>7. ~Ends(e) /\ ~(c < 2)
      BY <1>0, <3>4 DEF Ends
    <3>8. Walk[k + 1] = e
      BY <3>2, <3>3, <3>6, <3>7
    <3> QED BY <3>8 DEF e
  <2> QED BY <2>1, <2>2
<1>3. N = Nat
  <2>1. N \in SUBSET Nat
    OBVIOUS
  <2> HIDE DEF N
  <2> QED BY <1>1, <1>2, <2>1, Induction
<1>4. ASSUME NEW k \in 0..q, k <= MaxClusters PROVE Walk[k] = C[k + 1]
  <2>1. k \in N
    <3>1. k \in Nat
      OBVIOUS
    <3> HIDE DEF N
    <3> QED BY <1>3, <3>1
  <2> QED BY <1>4, <2>1
<1> QED BY <1>4

\* A chain within the limit is followed to where the table was not read.
LEMMA ChainReaches ==
  ASSUME VolumeInv, fat = TableOf, NEW d \in Live, ~Contiguous(d),
         start_cluster = IF Files[d].clusters = <<>> THEN 0 ELSE Files[d].clusters[1],
         RunsFollowChain, pc = "done", Len(Files[d].clusters) <= MaxClusters,
         NEW q \in Nat, q < Len(Files[d].clusters), \A i \in 1..q : Files[d].clusters[i] \notin unread
  PROVE  q < Len(ClustersOf(runs))
<1> DEFINE C == Files[d].clusters
<1>0. /\ d \in DOMAIN Files /\ Len(C) \in Nat /\ MaxClusters \in Nat
      /\ \A i \in 1..Len(C) : C[i] >= 2
  BY LiveFacts, FileFacts, FatChainAssumption
<1>1. PICK n \in 0..MaxClusters : Follows(runs, n) /\ (EndsWithin(MaxClusters) => Walk[n] < 2)
  BY DEF RunsFollowChain
<1>2. Len(C) \in 0..MaxClusters /\ Walk[Len(C)] < 2
  <2>1. Len(C) \in 0..MaxClusters
    BY <1>0
  <2>2. Walk[Len(C)] = 0 \/ (Len(C) < Len(C) /\ Walk[Len(C)] = C[Len(C) + 1])
    BY <2>1, WalkOfFile
  <2> QED BY <1>0, <2>1, <2>2
<1>3. Walk[n] < 2
  BY <1>1, <1>2 DEF EndsWithin
<1>4. Len(ClustersOf(runs)) = n
  BY <1>1 DEF Follows
<1>5. ASSUME n <= q PROVE FALSE
  <2>1. n \in 0..q /\ n <= MaxClusters /\ n + 1 \in 1..Len(C)
    BY <1>0, <1>5
  <2>2. Walk[n] = C[n + 1]
    BY <2>1, WalkReaches
  <2>3. C[n + 1] >= 2
    BY <1>0, <2>1
  <2>4. C[n + 1] < 2
    BY <1>3, <2>2
  <2>5. C[n + 1] \in Nat
    BY <1>0, <2>1, FileFacts
  <2> HIDE DEF C
  <2> QED BY <2>3, <2>4, <2>5
<1>6. n \in Nat
  BY <1>0
<1> QED BY <1>4, <1>5, <1>6

\* Runs whose chain was read are all clusters of the file.
LEMMA RunsWhole ==
  ASSUME VolumeInv, TreeTyped, LinkInv, Linked, phase # "volume", pc \in {"done", "known"},
         entry.file \in Live, fs = "fat16" => pc # "known",
         Len(Files[entry.file].clusters) <= MaxClusters,
         ToSet(Files[entry.file].clusters) \cap unread = {}
  PROVE  ClustersOf(runs) = Files[entry.file].clusters
<1> DEFINE d == entry.file
           C == Files[d].clusters
           a == ClustersOf(runs)
<1>0. /\ d \in DOMAIN Files /\ C \in Seq(Nat) /\ Len(C) \in Nat /\ runs \in Seq(RunType)
      /\ entry \in EntryRecord /\ start_cluster = entry.start_cluster
  BY LiveFacts, FileFacts DEF TreeTyped, Linked
<1>1. start_cluster = IF C = <<>> THEN 0 ELSE C[1]
  BY <1>0 DEF EntryRecord
<1>2. FirstOf(runs, d)
  BY DirectoryReads
<1>3. a \in Seq(Nat) /\ Len(a) \in Nat
  BY <1>0, ClustersToAll
<1>4. CASE pc = "known"
  <2>1. /\ fs = "exfat" /\ entry.contiguous
        /\ runs = <<Run(entry.start_cluster, Len(C))>>
    BY <1>4 DEF TreeTyped, Known
  <2>2. Files[d].contiguous /\ entry.start_cluster \in Nat
    BY <1>0, <2>1 DEF EntryRecord
  <2> QED BY <1>0, <1>1, <2>1, <2>2, ContiguousFirst
<1>5. CASE pc = "done"
  <2>1. Len(C) # 0 => Len(C) - 1 < Len(a)
    <3>1. ASSUME Len(C) # 0 PROVE Len(C) - 1 < Len(a)
      <4>1. Len(C) - 1 \in Nat /\ Len(C) - 1 < Len(C)
        BY <1>0, <3>1
      <4>2. ASSUME NEW i \in 1..(Len(C) - 1) PROVE C[i] \notin unread
        <5>1. i \in DOMAIN C
          BY <1>0
        <5>2. C[i] \in ToSet(C)
          BY <5>1 DEF ToSet
        <5> QED BY <5>2
      <4>3. ~Contiguous(d)
        BY <1>0, <1>5 DEF LinkInv, Contiguous, EntryRecord
      <4>4. fat = TableOf /\ RunsFollowChain
        BY DEF Linked, TreeTyped, ChainInv
      <4> QED BY <1>1, <1>5, <4>1, <4>2, <4>3, <4>4, ChainReaches
    <3> QED BY <3>1
  <2>2. Len(a) <= Len(C) /\ \A k \in 1..Len(a) : a[k] = C[k]
    BY <1>2 DEF FirstOf
  <2> HIDE DEF a, C
  <2>3. Len(a) = Len(C)
    BY <1>0, <1>3, <2>1, <2>2
  <2>4. a = C
    BY <1>0, <1>3, <2>2, <2>3, SeqEqual
  <2> QED BY <2>4 DEF a, C
<1> QED BY <1>4, <1>5

\* The last slot of a file in use.
EndOf(f) == At(f) + Len(SetOf(f)) - 1

\* It is the last one that is its own.
LEMMA LastFacts ==
  ASSUME VolumeInv, NEW f \in Live \ {Root}
  PROVE  LET at == Positions(Home(f))
         IN  /\ Max({i \in DOMAIN at : IsOf(at[i], f)}) = EndOf(f)
             /\ EndOf(f) \in 1..Len(at) /\ EndOf(f) \in Nat /\ Len(at) \in Nat
             /\ At(f) \in 1..EndOf(f)
             /\ slots[at[EndOf(f)]] = SetOf(f)[Len(SetOf(f))]
<1> DEFINE d  == Home(f)
           at == Positions(d)
           n  == Len(SetOf(f))
           T  == {i \in DOMAIN at : IsOf(at[i], f)}
<1>0. /\ d \in LiveDirs /\ d \in DOMAIN Files /\ f \in DOMAIN Files
      /\ At(f) \in Nat \ {0} /\ n \in Nat \ {0} /\ n \in 1..n
  BY AtFacts, SetFacts
<1>1. Len(at) \in Nat /\ DOMAIN at = 1..Len(at)
  BY <1>0, PositionFacts
<1>2. EndOf(f) \in 1..Len(at) /\ slots[at[EndOf(f)]] = SetOf(f)[n]
  BY <1>0, SlotsOfLive DEF EndOf
<1>3. SetOf(f)[n].file = f /\ ~SetOf(f)[n].deleted
  BY <1>0, SetFacts
<1>4. EndOf(f) \in T
  BY <1>1, <1>2, <1>3 DEF IsOf
<1>5. ASSUME NEW i \in T PROVE i <= EndOf(f)
  <2>1. i \in 1..Len(at) /\ IsOf(at[i], f)
    BY <1>1
  <2>2. f \in DOMAIN Files \ {Root}
    BY <1>0
  <2>3. (i - At(f)) + 1 \in 1..n /\ i \in Nat
    BY <1>0, <2>1, <2>2, LiveSlot
  <2> HIDE DEF n, T
  <2> QED BY <1>0, <2>3 DEF EndOf, n
<1>6. T \in SUBSET (0..Len(at)) /\ T # {}
  BY <1>1, <1>4
<1>7. Max(T) = EndOf(f)
  <2> HIDE DEF T
  <2>1. Max(T) \in T /\ \A y \in T : y <= Max(T)
    BY <1>1, <1>6, MaxFacts
  <2>2. Max(T) <= EndOf(f) /\ EndOf(f) <= Max(T)
    BY <1>4, <1>5, <2>1
  <2>3. Max(T) \in Int /\ EndOf(f) \in Int
    <3>1. Max(T) \in 0..Len(at)
      BY <1>6, <2>1
    <3> DEFINE u == Max(T)
               v == Len(at)
    <3>2. u \in 0..v /\ v \in Nat /\ EndOf(f) \in 1..v
      BY <1>1, <1>2, <3>1
    <3> HIDE DEF u, v
    <3>3. u \in Int /\ EndOf(f) \in Int
      BY <3>2
    <3> QED BY <3>3 DEF u
  <2> QED BY <2>2, <2>3
<1>8. EndOf(f) \in Nat /\ At(f) \in 1..EndOf(f)
  <2> HIDE DEF n
  <2> QED BY <1>0 DEF EndOf, n
<1> QED BY <1>1, <1>2, <1>7, <1>8

\* What was read of d, up to slot m, is what stands there.
ReadUpTo(data, d, m) ==
  /\ m <= Len(data)
  /\ \A i \in 1..m : Positions(d)[i] \notin lost /\ data[i] = slots[Positions(d)[i]]

\* A directory is read up to the last slot of every file whose way was read.
LEMMA DirectoryReaches ==
  ASSUME VolumeInv, TreeTyped, LinkInv, Linked, phase # "volume", pc \in {"done", "known"},
         NEW f \in Live \ {Root}, Home(f) = entry.file, IsRead(f)
  PROVE  ReadUpTo(DirectoryData, entry.file, EndOf(f))
<1> DEFINE d == entry.file
           C == Files[d].clusters
           at == Positions(d)
           S == SlotsPerCluster
           x == DirectoryData
           m == EndOf(f)
<1>0. /\ d \in Live /\ d \in DOMAIN Files /\ S \in Nat \ {0} /\ MaxSize \in Nat
      /\ Len(C) \in Nat /\ image_end \in Nat
      /\ entry \in EntryRecord /\ start_cluster = entry.start_cluster
  <2>1. d \in Live /\ d \in DOMAIN Files
    BY AtFacts
  <2>2. image_end \in 0..SlotCount
    BY DEF TreeTyped
  <2> QED BY <2>1, <2>2, FileFacts, FatTreeAssumption DEF TreeTyped, Linked
<1>1. m \in 1..Len(at) /\ m \in Nat /\ Len(at) \in Nat /\ Len(at) = Len(C) * S
      /\ DOMAIN at = 1..Len(at)
  BY <1>0, LastFacts, PositionFacts
<1>2. /\ \A i \in 1..m : at[i] \notin lost /\ at[i] <= image_end
      /\ IF fs = "fat16" /\ d = Root THEN \A i \in 1..Len(at) : at[i] <= image_end
         ELSE /\ m <= MaxSize
              /\ Contiguous(d) \/ (/\ Len(C) <= MaxClusters
                                   /\ \A i \in 1..((m - 1) \div S) : C[i] \notin unread)
  <2>1. Max({i \in DOMAIN at : IsOf(at[i], f)}) = m
    BY LastFacts
  <2> QED BY <1>1, <2>1 DEF IsRead
<1>3. Sectors(x) /\ Len(x) \in Nat
  <2>1. Sectors(x)
    BY RunsOnDisk, DirectoryTyped DEF TreeTyped
  <2> QED BY <2>1, SectorsProper
<1>4. \A i \in 1..m : Sector(at[i]) = slots[at[i]]
  BY <1>2 DEF Sector
<1>5. SUFFICES m <= Len(x) /\ \A i \in 1..m : x[i] = Sector(at[i])
  BY <1>2, <1>4 DEF ReadUpTo
<1>6. CASE fs = "fat16" /\ d = Root
  <2> DEFINE all == [i \in 1..Len(at) |-> Sector(at[i])]
  <2>1. x = IF \E i \in 1..Len(at) : at[i] > image_end THEN <<>> ELSE all
    BY <1>0, <1>6, DirectoryReads
  <2>2. ASSUME NEW i \in 1..Len(at) PROVE ~(at[i] > image_end)
    <3>1. at[i] <= image_end /\ at[i] \in 1..SlotCount
      BY <1>0, <1>2, <1>6, PositionFacts
    <3>2. at[i] \in Nat
      BY <3>1
    <3> QED BY <1>0, <3>1, <3>2
  <2>3. x = all
    BY <2>1, <2>2
  <2>4. Len(all) = Len(at)
    <3>1. \A i \in 1..Len(at) : all[i] \in SlotType
      BY <1>0, SectorFacts, PositionFacts
    <3>2. all = [i \in 1..Len(at) |-> all[i]]
      OBVIOUS
    <3> HIDE DEF all
    <3> QED BY <1>1, <3>1, <3>2, IsSequence
  <2> QED BY <1>1, <2>3, <2>4
<1>7. CASE ~(fs = "fat16" /\ d = Root)
  <2> DEFINE P == Len(ClustersOf(runs))
  <2>1. ReadTo(x, d, P)
    BY <1>0, <1>7, DirectoryReads
  <2>2. FirstOf(runs, d) /\ P \in Nat
    <3>1. ~(fs = "fat16" /\ entry = RootEntry /\ pc = "known")
      BY <1>7, RootFacts
    <3>2. runs \in Seq(RunType)
      BY DEF TreeTyped
    <3> QED BY <1>0, <3>1, <3>2, DirectoryReads, ClustersToAll
  <2>3. start_cluster = IF C = <<>> THEN 0 ELSE C[1]
    BY <1>0 DEF EntryRecord
  <2>4. (m - 1) \div S \in Nat /\ (m - 1) \div S + 1 \in 1..Len(C)
    <3>1. (m - 1) \in Nat
      BY <1>1
    <3>2. (m - 1) \div S \in Nat
      BY <1>0, <3>1, Divide
    <3>3. m \in 1..(Len(C) * S)
      BY <1>1
    <3> QED BY <1>0, <3>2, <3>3, WithinClusters
  <2>5. (m - 1) \div S < P
    <3>1. CASE pc = "known"
      <4>1. /\ fs = "exfat" /\ entry.contiguous
            /\ runs = <<Run(entry.start_cluster, Len(C))>>
        BY <1>7, <3>1, RootFacts DEF TreeTyped, Known
      <4>2. Files[d].contiguous /\ entry.start_cluster \in Nat
        BY <1>0, <4>1 DEF EntryRecord
      <4>3. ClustersOf(runs) = C
        BY <1>0, <2>3, <4>1, <4>2, ContiguousFirst
      <4> HIDE DEF C, m
      <4> QED BY <1>0, <2>4, <4>3
    <3>2. CASE pc = "done"
      <4>1. ~Contiguous(d)
        BY <1>0, <3>2 DEF LinkInv, Contiguous, EntryRecord
      <4>2. fat = TableOf /\ RunsFollowChain
        BY DEF Linked, TreeTyped, ChainInv
      <4>3. (m - 1) \div S < Len(C)
        <5> HIDE DEF C, m
        <5> QED BY <1>0, <2>4
      <4>4. Len(C) <= MaxClusters /\ \A i \in 1..((m - 1) \div S) : C[i] \notin unread
        BY <1>2, <1>7, <4>1
      <4> HIDE DEF m
      <4> QED BY <1>0, <2>3, <2>4, <3>2, <4>1, <4>2, <4>3, <4>4, ChainReaches
    <3> QED BY <3>1, <3>2
  <2>6. m <= P * S
    <3> DEFINE q == (m - 1) \div S
    <3>1. (m - 1) \in Nat /\ q \in Nat /\ (m - 1) % S \in 0..(S - 1)
          /\ m - 1 = q * S + ((m - 1) % S)
      <4>1. (m - 1) \in Nat
        BY <1>1
      <4> QED BY <1>0, <4>1, Divide
    <3> HIDE DEF m, P
    <3>2. q + 1 <= P
      BY <2>2, <2>4, <2>5
    <3>3. m <= (q + 1) * S
      <4>1. q * S \in Nat /\ (q + 1) * S = q * S + S
        <5> HIDE DEF q
        <5> QED BY <1>0, <3>1
      <4> DEFINE r == (m - 1) % S
                 qs == q * S
                 rs == (q + 1) * S
      <4>2. r \in 0..(S - 1) /\ m - 1 = qs + r /\ qs \in Nat /\ rs = qs + S /\ m \in Nat
        BY <1>1, <3>1, <4>1
      <4> HIDE DEF r, q, qs, rs
      <4>3. m <= rs
        BY <1>0, <4>2
      <4> QED BY <4>3 DEF rs
    <3>4. (q + 1) * S <= P * S /\ (q + 1) * S \in Nat /\ P * S \in Nat
      <4>1. q \in Nat
        BY <3>1
      <4> HIDE DEF q
      <4> QED BY <1>0, <2>2, <3>2, <4>1
    <3> DEFINE u == (q + 1) * S
               v == P * S
    <3>5. m <= u /\ u <= v /\ u \in Nat /\ v \in Nat /\ m \in Nat
      BY <1>1, <3>3, <3>4
    <3> HIDE DEF u, v
    <3>6. m <= v
      BY <3>5
    <3> QED BY <3>6 DEF v
  <2>7. \A i \in 0..m : Intact(d, i)
    BY <1>1, <1>2 DEF Intact
  <2>8. /\ \A i \in 1..Len(x) : Intact(d, i) => x[i] = Sector(at[i])
        /\ Len(x) < P * S /\ Len(x) < MaxSize => ~Intact(d, Len(x) + 1)
    BY <2>1 DEF ReadTo
  <2>9. m <= Len(x)
    <3>1. ASSUME Len(x) < m PROVE FALSE
      <4>1. Len(x) + 1 \in 0..m /\ m <= MaxSize
        BY <1>1, <1>2, <1>3, <1>7, <3>1
      <4>2. P * S \in Nat
        <5> HIDE DEF P
        <5> QED BY <1>0, <2>2
      <4> HIDE DEF x, m, P
      <4>3. Len(x) < P * S /\ Len(x) < MaxSize
        <5> DEFINE v == P * S
        <5>1. v \in Nat /\ m <= v /\ Len(x) < m /\ Len(x) \in Nat /\ m \in Nat
          BY <1>1, <1>3, <2>6, <3>1, <4>2
        <5> HIDE DEF v
        <5>2. Len(x) < v /\ Len(x) < MaxSize
          BY <1>0, <4>1, <5>1
        <5> QED BY <5>2 DEF v
      <4> QED BY <2>7, <2>8, <4>1, <4>3
    <3> QED BY <1>1, <1>3, <3>1
  <2>10. ASSUME NEW i \in 1..m PROVE x[i] = Sector(at[i])
    <3>1. i \in 1..Len(x) /\ i \in 0..m
      BY <1>1, <1>3, <2>9
    <3> QED BY <2>7, <2>8, <3>1
  <2> QED BY <2>9, <2>10
<1> QED BY <1>6, <1>7

-----------------------------------------------------------------------------
(* What was read of a directory is listed, once.                           *)

\* h[i] is what has been listed when slot i was seen: those in B list one more each.
Lists(h, made, B, n) ==
  /\ h[0] = <<>>
  /\ \A i \in 1..n : h[i] = IF i \in B THEN Append(h[i - 1], made[i]) ELSE h[i - 1]

\* What was listed stays.
LEMMA ListedStays ==
  ASSUME NEW n \in Nat, NEW h, NEW made, NEW B, Lists(h, made, B, n),
         \A i \in 0..n : h[i] \in Seq(EntryRecord), \A i \in B : made[i] \in EntryRecord,
         NEW m \in 1..n, m \in B
  PROVE  Contains(h[n], made[m])
<1> DEFINE In(i) == \E j \in 1..Len(h[i]) : h[i][j] = made[m]
           N == {k \in Nat : m + k <= n => In(m + k)}
<1>1. 0 \in N
  <2>0. m - 1 \in 0..n /\ m + 0 = m
    OBVIOUS
  <2>1. h[m] = Append(h[m - 1], made[m]) /\ h[m - 1] \in Seq(EntryRecord) /\ made[m] \in EntryRecord
    BY <2>0 DEF Lists
  <2>2. /\ Len(h[m]) = Len(h[m - 1]) + 1 /\ h[m][Len(h[m - 1]) + 1] = made[m]
        /\ Len(h[m - 1]) \in Nat
    BY <2>1, AppendProperties
  <2>3. In(m)
    BY <2>2
  <2> HIDE DEF In
  <2> QED BY <2>0, <2>3
<1>2. ASSUME NEW k \in N PROVE k + 1 \in N
  <2>1. k \in Nat /\ (m + k <= n => In(m + k))
    OBVIOUS
  <2>2. ASSUME m + (k + 1) <= n PROVE In(m + (k + 1))
    <3> DEFINE i == m + (k + 1)
    <3>1. i \in 1..n /\ i - 1 = m + k /\ m + k <= n /\ i - 1 \in 0..n
      BY <2>1, <2>2
    <3>2. PICK j \in 1..Len(h[i - 1]) : h[i - 1][j] = made[m]
      BY <2>1, <3>1
    <3>3. h[i - 1] \in Seq(EntryRecord) /\ h[i] = IF i \in B THEN Append(h[i - 1], made[i]) ELSE h[i - 1]
      BY <3>1 DEF Lists
    <3> HIDE DEF i
    <3>4. CASE i \in B
      <4>1. /\ Len(h[i]) = Len(h[i - 1]) + 1 /\ h[i][j] = h[i - 1][j] /\ Len(h[i - 1]) \in Nat
        BY <3>2, <3>3, <3>4, AppendProperties
      <4>2. j \in 1..Len(h[i])
        BY <4>1
      <4>3. In(i)
        BY <3>2, <4>1, <4>2
      <4> QED BY <4>3 DEF i
    <3>5. CASE i \notin B
      <4>1. In(i)
        BY <3>2, <3>3, <3>5
      <4> QED BY <4>1 DEF i
    <3> QED BY <3>4, <3>5
  <2> HIDE DEF In
  <2> QED BY <2>1, <2>2
<1>3. N = Nat
  <2>1. N \in SUBSET Nat
    OBVIOUS
  <2> HIDE DEF N
  <2> QED BY <1>1, <1>2, <2>1, Induction
<1>4. n - m \in N /\ m + (n - m) = n
  <2>1. n - m \in Nat /\ m + (n - m) = n
    OBVIOUS
  <2> HIDE DEF N
  <2> QED BY <1>3, <2>1
<1>5. In(n)
  <2> HIDE DEF In
  <2>1. m + (n - m) <= n
    BY <1>4
  <2>2. In(m + (n - m))
    BY <1>4, <2>1
  <2> QED BY <1>4, <2>2
<1> QED BY <1>5 DEF Contains

\* No file twice, but for deleted entries.
Distinct(es) ==
  \A j, k \in 1..Len(es) :
    ~es[j].deleted /\ ~es[k].deleted /\ es[j].file = es[k].file => j = k

\* What each slot lists is another file.
LEMMA ListedOnce ==
  ASSUME NEW n \in Nat, NEW h, NEW made, NEW B, Lists(h, made, B, n),
         \A i \in 0..n : h[i] \in Seq(EntryRecord), \A i \in B : made[i] \in EntryRecord,
         \A i, j \in (1..n) \cap B :
           ~made[i].deleted /\ ~made[j].deleted /\ made[i].file = made[j].file => i = j
  PROVE  Distinct(h[n])
<1> DEFINE Of(i) == \A j \in 1..Len(h[i]) : \E m \in 1..i : m \in B /\ h[i][j] = made[m]
           N == {k \in Nat : k <= n => Of(k) /\ Distinct(h[k])}
<1>1. 0 \in N
  <2>1. Len(h[0]) = 0
    BY DEF Lists
  <2>2. Of(0) /\ Distinct(h[0])
    BY <2>1 DEF Distinct
  <2> HIDE DEF Of
  <2> QED BY <2>2
<1>2. ASSUME NEW k \in N PROVE k + 1 \in N
  <2>1. k \in Nat /\ (k <= n => Of(k) /\ Distinct(h[k]))
    OBVIOUS
  <2>2. ASSUME k + 1 <= n PROVE Of(k + 1) /\ Distinct(h[k + 1])
    <3> DEFINE i == k + 1
               a == h[k]
               b == h[k + 1]
    <3>0. k \in Nat
      OBVIOUS
    <3>1. i \in 1..n /\ i - 1 = k /\ k <= n /\ k \in 0..n
      BY ONLY <2>2, <3>0, n \in Nat
    <3>2. \A j \in 1..Len(a) : \E m \in 1..k : m \in B /\ a[j] = made[m]
      BY <2>1, <3>1
    <3>3. Distinct(a)
      BY <2>1, <3>1
    <3>4. a \in Seq(EntryRecord) /\ b = IF i \in B THEN Append(a, made[i]) ELSE a
      BY <3>1 DEF Lists
    <3>5. Len(a) \in Nat
      BY <3>4
    <3> SUFFICES /\ \A j \in 1..Len(b) : \E m \in 1..i : m \in B /\ b[j] = made[m]
                 /\ Distinct(b)
      OBVIOUS
    <3>6. CASE i \notin B
      <4>1. b = a
        BY <3>4, <3>6
      <4> HIDE DEF a, b
      <4>2. ASSUME NEW j \in 1..Len(b) PROVE \E m \in 1..i : m \in B /\ b[j] = made[m]
        <5>1. PICK m \in 1..k : m \in B /\ a[j] = made[m]
          BY <3>2, <4>1
        <5>2. m \in 1..i
          BY <2>1
        <5> QED BY <4>1, <5>1, <5>2
      <4> QED BY <3>3, <4>1, <4>2
    <3>7. CASE i \in B
      <4>1. /\ b = Append(a, made[i]) /\ made[i] \in EntryRecord
        BY <3>4, <3>7
      <4> HIDE DEF a, b
      <4>2. /\ Len(b) = Len(a) + 1 /\ b[Len(a) + 1] = made[i]
            /\ \A j \in 1..Len(a) : b[j] = a[j]
        BY <3>4, <4>1, AppendProperties
      <4>3. ASSUME NEW j \in 1..Len(a) PROVE \E m \in 1..k : m \in B /\ b[j] = made[m]
        BY <3>2, <4>2
      <4>4. \A j \in 1..Len(b) : j \in 1..Len(a) \/ j = Len(a) + 1
        BY <3>5, <4>2
      <4>5. \A m \in 1..k : m \in 1..i /\ m # i /\ m \in 1..n
        BY <2>1, <2>2
      <4>6. ASSUME NEW j \in 1..Len(b) PROVE \E m \in 1..i : m \in B /\ b[j] = made[m]
        <5>1. CASE j \in 1..Len(a)
          BY <4>3, <4>5, <5>1
        <5>2. CASE j = Len(a) + 1
          <6>1. i \in 1..i
            BY <3>1
          <6> QED BY <3>7, <4>2, <5>2, <6>1
        <5> QED BY <4>4, <5>1, <5>2
      <4>7. ASSUME NEW j \in 1..Len(a), ~b[j].deleted, ~made[i].deleted, b[j].file = made[i].file
            PROVE  FALSE
        <5>1. PICK m \in 1..k : m \in B /\ b[j] = made[m]
          BY <4>3
        <5>2. m = i
          BY <3>1, <3>7, <4>5, <4>7, <5>1
        <5> QED BY <4>5, <5>2
      <4>8. Distinct(b)
        <5> SUFFICES ASSUME NEW j \in 1..Len(b), NEW l \in 1..Len(b), ~b[j].deleted, ~b[l].deleted,
                            b[j].file = b[l].file
                     PROVE  j = l
          BY DEF Distinct
        <5>1. CASE j \in 1..Len(a) /\ l \in 1..Len(a)
          BY <3>3, <4>2, <5>1 DEF Distinct
        <5>2. CASE j \in 1..Len(a) /\ l = Len(a) + 1
          BY <4>2, <4>7, <5>2
        <5>3. CASE j = Len(a) + 1 /\ l \in 1..Len(a)
          BY <4>2, <4>7, <5>3
        <5> QED BY <4>4, <5>1, <5>2, <5>3
      <4> QED BY <4>6, <4>8
    <3> QED BY <3>6, <3>7
  <2> HIDE DEF Of
  <2> QED BY <2>1, <2>2
<1>3. N = Nat
  <2>1. N \in SUBSET Nat
    OBVIOUS
  <2> HIDE DEF N
  <2> QED BY <1>1, <1>2, <2>1, Induction
<1>4. n \in N
  <2> HIDE DEF N
  <2> QED BY <1>3
<1> HIDE DEF Of
<1> QED BY <1>4

\* What FAT lists slot by slot, and which slots list what.
FatListed(data) == [i \in 0..Len(data) |-> FatWalk(data)[i].entries]
FatMakers(data) == {m \in 1..Len(data) : data[m].kind = "short" /\ ~FatWalk(data)[m].ended}
FatMade(data)   == [m \in 1..Len(data) |-> FatEntry(data[m], FatWalk(data)[m - 1].lfn_parts)]

\* The entries of FAT are those of the short slots, in their order.
LEMMA FatLists ==
  ASSUME NEW data, SlotSeq(data)
  PROVE  /\ Len(data) \in Nat /\ FatListed(data)[Len(data)] = FatEntries(data)
         /\ Lists(FatListed(data), FatMade(data), FatMakers(data), Len(data))
         /\ \A i \in 0..Len(data) : FatListed(data)[i] \in Seq(EntryRecord)
         /\ \A m \in FatMakers(data) :
              /\ m \in 1..Len(data) /\ FatMade(data)[m] \in EntryRecord
              /\ data[m].file \in DOMAIN Files /\ FatMade(data)[m].file = data[m].file
              /\ FatMade(data)[m].dir = Files[data[m].file].dir
              /\ FatMade(data)[m].deleted = data[m].deleted
<1> DEFINE w == FatWalk(data)
           L == Len(data)
           h == FatListed(data)
           B == FatMakers(data)
           made == FatMade(data)
<1>0. L \in Nat
  BY DEF SlotSeq
<1>1. /\ FatEntries(data) = w[L].entries
      /\ w[0] = [ended |-> FALSE, lfn_parts |-> <<>>, entries |-> <<>>]
      /\ \A i \in 1..L : w[i] = FatSlot(w[i - 1], data[i])
      /\ \A i \in 0..L : w[i] \in FatWalkType
  BY FatWalkFacts
<1>2. \A i \in 0..L : h[i] = w[i].entries
  BY DEF FatListed
<1>3. ASSUME NEW i \in 1..L
      PROVE  /\ i - 1 \in 0..L /\ i \in 0..L /\ data[i] \in SlotType /\ Proper(data[i])
             /\ w[i - 1].lfn_parts \in Seq(Seq(PartType)) /\ w[i - 1] \in FatWalkType
  <2>1. i - 1 \in 0..L /\ i \in 0..L
    BY <1>0
  <2>2. data[i] \in SlotType /\ Proper(data[i])
    BY DEF SlotSeq
  <2> HIDE DEF w
  <2> QED BY <1>1, <2>1, <2>2 DEF FatWalkType
<1>4. ASSUME NEW m \in B
      PROVE  /\ m \in 1..L /\ data[m].kind = "short" /\ made[m] \in EntryRecord
             /\ data[m].file \in DOMAIN Files /\ made[m].file = data[m].file
             /\ made[m].dir = Files[data[m].file].dir /\ made[m].deleted = data[m].deleted
  <2>1. m \in 1..L /\ data[m].kind = "short"
    BY DEF FatMakers
  <2>2. made[m] = FatEntry(data[m], w[m - 1].lfn_parts)
    BY <2>1 DEF FatMade
  <2>3. data[m].file \in DOMAIN Files
    BY <1>3, <2>1, ProperFacts
  <2>4. data[m] \in SlotType /\ w[m - 1].lfn_parts \in Seq(Seq(PartType))
    BY <1>3, <2>1
  <2> HIDE DEF made, w
  <2> QED BY <2>1, <2>2, <2>3, <2>4, FatEntryFacts
<1>5. ASSUME NEW i \in 1..L
      PROVE  h[i] = IF i \in B THEN Append(h[i - 1], made[i]) ELSE h[i - 1]
  <2>1. w[i].entries = IF ~w[i].ended /\ data[i].kind = "short"
                       THEN Append(w[i - 1].entries, FatEntry(data[i], w[i - 1].lfn_parts))
                       ELSE w[i - 1].entries
    <3>1. w[i] = FatSlot(w[i - 1], data[i])
      BY <1>1
    <3> HIDE DEF w
    <3> QED BY <1>3, <3>1, FatSlotFacts
  <2>2. i \in B <=> ~w[i].ended /\ data[i].kind = "short"
    BY DEF FatMakers
  <2>3. made[i] = FatEntry(data[i], w[i - 1].lfn_parts)
    BY DEF FatMade
  <2>4. h[i] = w[i].entries /\ h[i - 1] = w[i - 1].entries
    BY <1>2, <1>3
  <2> QED BY <2>1, <2>2, <2>3, <2>4
<1>6. h[0] = <<>>
  BY <1>0, <1>1, <1>2
<1>7. Lists(h, made, B, L)
  BY <1>5, <1>6 DEF Lists
<1>8. \A i \in 0..L : h[i] \in Seq(EntryRecord)
  <2> HIDE DEF w, h
  <2> QED BY <1>1, <1>2 DEF FatWalkType
<1>9. h[L] = FatEntries(data)
  BY <1>0, <1>1, <1>2
<1> QED BY <1>0, <1>4, <1>7, <1>8, <1>9

\* FAT lists no file twice.
LEMMA FatDistinct ==
  ASSUME VolumeInv, fs # "exfat", NEW d \in LiveDirs, NEW data, Faithful(data, d)
  PROVE  Distinct(FatEntries(data))
<1> DEFINE B == FatMakers(data)
           made == FatMade(data)
<1>1. SlotSeq(data)
  BY FaithfulFacts
<1>2. ASSUME NEW i \in B, ~made[i].deleted
      PROVE  i = At(made[i].file) + Files[made[i].file].parts
  <2>1. i \in 1..Len(data) /\ data[i].kind = "short" /\ ~FatWalk(data)[i].ended
    BY DEF FatMakers
  <2>2. made[i].file = data[i].file /\ ~data[i].deleted
    BY <1>1, <1>2, FatLists
  <2> QED BY <2>1, <2>2, FatNameRead
<1>3. \A i, j \in (1..Len(data)) \cap B :
        ~made[i].deleted /\ ~made[j].deleted /\ made[i].file = made[j].file => i = j
  BY <1>2
<1>4. /\ Len(data) \in Nat /\ Lists(FatListed(data), made, B, Len(data))
      /\ \A i \in 0..Len(data) : FatListed(data)[i] \in Seq(EntryRecord)
      /\ \A i \in B : made[i] \in EntryRecord
      /\ FatListed(data)[Len(data)] = FatEntries(data)
  BY <1>1, FatLists
<1>5. Distinct(FatListed(data)[Len(data)])
  <2> HIDE DEF B, made
  <2> QED BY <1>3, <1>4, ListedOnce
<1> QED BY <1>4, <1>5

\* The first slots are parsed alike, whatever follows.
LEMMA FatPrefix ==
  ASSUME NEW data, SlotSeq(data), NEW n \in Nat, n <= Len(data)
  PROVE  LET pre == SubSeq(data, 1, n)
         IN  /\ SlotSeq(pre) /\ Len(pre) = n /\ \A i \in 1..n : pre[i] = data[i]
             /\ \A i \in 0..n : FatWalk(pre)[i] = FatWalk(data)[i]
<1> DEFINE pre == SubSeq(data, 1, n)
           v == FatWalk(pre)
           w == FatWalk(data)
           N == {i \in Nat : i <= n => v[i] = w[i]}
<1>0. Len(data) \in Nat /\ data \in Seq(SlotType)
  BY DEF SlotSeq
<1>1. pre \in Seq(SlotType) /\ Len(pre) = n /\ \A i \in 1..n : pre[i] = data[i]
  <2>1. \A i \in 1..n : data[i] \in SlotType
    BY <1>0
  <2> QED BY <1>0, <2>1, SubSeqProperties
<1>2. SlotSeq(pre)
  <2>1. \A i \in 1..n : i \in 1..Len(data)
    BY <1>0
  <2> QED BY <1>1, <2>1 DEF SlotSeq
<1>3. /\ v[0] = [ended |-> FALSE, lfn_parts |-> <<>>, entries |-> <<>>]
      /\ \A i \in 1..n : v[i] = FatSlot(v[i - 1], pre[i])
  <2> HIDE DEF pre
  <2> QED BY <1>1, <1>2, FatWalkFacts
<1>4. /\ w[0] = [ended |-> FALSE, lfn_parts |-> <<>>, entries |-> <<>>]
      /\ \A i \in 1..Len(data) : w[i] = FatSlot(w[i - 1], data[i])
  BY FatWalkFacts
<1> HIDE DEF v, w, pre
<1>5. 0 \in N
  BY <1>3, <1>4
<1>6. ASSUME NEW i \in N PROVE i + 1 \in N
  <2>1. i \in Nat /\ (i <= n => v[i] = w[i])
    OBVIOUS
  <2>2. ASSUME i + 1 <= n PROVE v[i + 1] = w[i + 1]
    <3>1. i + 1 \in 1..n /\ i + 1 \in 1..Len(data) /\ (i + 1) - 1 = i /\ i <= n
      BY <1>0, <2>1, <2>2
    <3>2. v[i + 1] = FatSlot(v[i], pre[i + 1])
      BY <1>3, <3>1
    <3>3. w[i + 1] = FatSlot(w[i], data[i + 1])
      BY <1>4, <3>1
    <3>4. v[i] = w[i] /\ pre[i + 1] = data[i + 1]
      BY <1>1, <2>1, <3>1
    <3> QED BY <3>2, <3>3, <3>4
  <2> QED BY <2>1, <2>2
<1>7. N = Nat
  <2>1. N \in SUBSET Nat
    OBVIOUS
  <2> HIDE DEF N
  <2> QED BY <1>5, <1>6, <2>1, Induction
<1>8. ASSUME NEW i \in 0..n PROVE v[i] = w[i]
  <2>1. i \in N /\ i <= n
    <3>1. i \in Nat /\ i <= n
      OBVIOUS
    <3> HIDE DEF N
    <3> QED BY <1>7, <3>1
  <2> QED BY <2>1
<1>9. \A i \in 0..n : FatWalk(pre)[i] = FatWalk(data)[i]
  BY <1>8 DEF v, w
<1> QED BY <1>1, <1>2, <1>9 DEF pre

\* No slot before the last one of a file in use was never used.
LEMMA UsedBefore ==
  ASSUME VolumeInv, NEW f \in Live \ {Root}
  PROVE  \A i \in 1..EndOf(f) : slots[Positions(Home(f))[i]].kind # "zero"
<1> DEFINE d  == Home(f)
           at == Positions(d)
           m  == EndOf(f)
<1>1. /\ m \in 1..Len(at) /\ m \in Nat /\ Len(at) \in Nat
      /\ slots[at[m]] = SetOf(f)[Len(SetOf(f))]
  BY LastFacts
<1>2. slots[at[m]].kind # "zero"
  BY <1>1, AtFacts, SetFacts
<1>3. ZeroLast(slots, d)
  BY AtFacts, LiveFacts DEF VolumeInv, Table
<1> SUFFICES ASSUME NEW i \in 1..m, slots[at[i]].kind = "zero" PROVE FALSE
  OBVIOUS
<1>4. i \in 1..Len(at) /\ (i < m \/ i = m)
  BY <1>1
<1> QED BY <1>1, <1>2, <1>3, <1>4 DEF ZeroLast

\* The entry of a file in use.
Good(e, f) ==
  /\ e.file = f /\ ~e.deleted /\ e.dir = Files[f].dir /\ e.name = NameOf(f)

\* What FAT read of a file in use is listed.
LEMMA FatComplete ==
  ASSUME VolumeInv, fs # "exfat", NEW f \in Live \ {Root}, NEW data, SlotSeq(data),
         ReadUpTo(data, Home(f), EndOf(f))
  PROVE  \E j \in 1..Len(FatEntries(data)) : Good(FatEntries(data)[j], f)
<1> DEFINE d == Home(f)
           at == Positions(d)
           m == EndOf(f)
           w == FatWalk(data)
           pre == SubSeq(data, 1, m)
           n == Files[f].parts
<1>0. /\ d \in LiveDirs /\ d \in DOMAIN Files /\ f \in DOMAIN Files
      /\ m \in 1..Len(at) /\ m \in Nat /\ Len(at) \in Nat
      /\ slots[at[m]] = SetOf(f)[Len(SetOf(f))] /\ data \in Seq(SlotType) /\ Len(data) \in Nat
  <2>1. data \in Seq(SlotType) /\ Len(data) \in Nat
    BY DEF SlotSeq
  <2>2. /\ d \in LiveDirs /\ d \in DOMAIN Files /\ f \in DOMAIN Files
    BY AtFacts
  <2> QED BY <2>1, <2>2, LastFacts
<1>1. /\ m <= Len(data) /\ m \in 1..Len(data)
      /\ \A i \in 1..m : at[i] \notin lost /\ data[i] = slots[at[i]]
  BY <1>0 DEF ReadUpTo
<1>2. \A i \in 1..m : data[i].kind # "zero"
  BY <1>1, UsedBefore
<1>3. /\ data[m].kind = "short" /\ ~data[m].deleted /\ data[m].file = f
  <2> DEFINE k == Len(SetOf(f))
  <2>1. k \in 1..k
    BY <1>0, SetFacts
  <2>2. k = n + 1
    BY <1>0, <2>1, FatSetFacts
  <2>3. data[m] = SetOf(f)[k]
    BY <1>0, <1>1
  <2> HIDE DEF k
  <2>4. k \in 1..Len(SetOf(f))
    BY <2>1 DEF k
  <2> QED BY <1>0, <2>2, <2>3, <2>4, FatSetFacts
<1>4. \A i \in 0..m : ~w[i].ended
  <2> DEFINE N == {i \in Nat : i <= m => ~w[i].ended}
  <2>1. 0 \in N
    BY FatWalkFacts
  <2>2. ASSUME NEW i \in N PROVE i + 1 \in N
    <3>1. i \in Nat /\ (i <= m => ~w[i].ended)
      OBVIOUS
    <3>2. ASSUME i + 1 <= m PROVE ~w[i + 1].ended
      <4>1. i + 1 \in 1..m /\ i + 1 \in 1..Len(data) /\ (i + 1) - 1 = i /\ i <= m /\ i \in 0..Len(data)
        BY <1>0, <1>1, <3>1, <3>2
      <4>2. w[i + 1] = FatSlot(w[i], data[i + 1]) /\ w[i] \in FatWalkType
        BY <4>1, FatWalkFacts
      <4>3. Proper(data[i + 1]) /\ data[i + 1].kind # "zero" /\ ~w[i].ended
        BY <1>2, <3>1, <4>1 DEF SlotSeq
      <4> HIDE DEF w
      <4> QED BY <4>2, <4>3, FatSlotFacts
    <3> QED BY <3>1, <3>2
  <2>3. N = Nat
    <3>1. N \in SUBSET Nat
      OBVIOUS
    <3> HIDE DEF N
    <3> QED BY <2>1, <2>2, <3>1, Induction
  <2>4. ASSUME NEW i \in 0..m PROVE ~w[i].ended
    <3>1. i \in Nat /\ i <= m
      BY <1>0
    <3>2. i \in N
      <4> HIDE DEF N
      <4> QED BY <2>3, <3>1
    <3> HIDE DEF w
    <3> QED BY <3>1, <3>2
  <2> QED BY <2>4
<1>5. m \in FatMakers(data)
  <2>1. ~w[m].ended
    BY <1>0, <1>4
  <2> QED BY <1>1, <1>3, <2>1 DEF FatMakers
<1>6. PICK j \in 1..Len(FatEntries(data)) : FatEntries(data)[j] = FatMade(data)[m]
  <2> DEFINE L == Len(data)
             h == FatListed(data)
             made == FatMade(data)
             B == FatMakers(data)
  <2>1. /\ L \in Nat /\ Lists(h, made, B, L)
        /\ \A i \in 0..L : h[i] \in Seq(EntryRecord)
        /\ \A i \in B : made[i] \in EntryRecord
        /\ h[L] = FatEntries(data)
    BY FatLists
  <2>2. m \in 1..L /\ m \in B
    BY <1>1, <1>5
  <2> HIDE DEF m, h, made, B, L
  <2>3. Contains(h[L], made[m])
    BY <2>1, <2>2, ListedStays
  <2> QED BY <2>1, <2>3 DEF Contains, h, made, L
<1>7. /\ FatMade(data)[m].file = f /\ ~FatMade(data)[m].deleted
      /\ FatMade(data)[m].dir = Files[f].dir
  BY <1>3, <1>5, FatLists
<1>8. /\ SlotSeq(pre) /\ Len(pre) = m /\ \A i \in 1..m : pre[i] = data[i]
      /\ \A i \in 0..m : FatWalk(pre)[i] = w[i]
  BY <1>0, <1>1, FatPrefix
<1>9. Faithful(pre, d)
  <2>1. ASSUME NEW i \in 1..m PROVE pre[i] = Sector(at[i])
    BY <1>1, <1>8 DEF Sector
  <2>2. pre \in Seq(SlotType) /\ m <= Len(at)
    BY <1>0, <1>8 DEF SlotSeq
  <2> HIDE DEF pre
  <2> QED BY <1>8, <2>1, <2>2 DEF Faithful
<1>10. FatMade(data)[m].name = NameOf(f)
  <2>1. /\ m \in 1..Len(pre) /\ pre[m] = data[m] /\ m - 1 \in 0..m /\ m \in 0..m
    BY <1>0, <1>8
  <2>2. FatWalk(pre)[m] = w[m] /\ FatWalk(pre)[m - 1] = w[m - 1]
    BY <1>8, <2>1
  <2>3. ~FatWalk(pre)[m].ended
    BY <1>4, <2>1, <2>2
  <2> HIDE DEF pre
  <2>4. FatEntry(pre[m], FatWalk(pre)[m - 1].lfn_parts).name = NameOf(f)
    BY <1>0, <1>3, <1>9, <2>1, <2>3, FatNameRead
  <2>5. FatMade(data)[m] = FatEntry(data[m], w[m - 1].lfn_parts)
    BY <1>1 DEF FatMade
  <2> QED BY <2>1, <2>2, <2>4, <2>5
<1>11. Good(FatMade(data)[m], f)
  BY <1>7, <1>10 DEF Good
<1> QED BY <1>6, <1>11

\* What exFAT lists slot by slot, and which slots list what.
ExfatListed(data) == [i \in 0..Len(data) |-> ExfatWalk(data)[i].entries]
ExfatMakers(data) ==
  {m \in 1..Len(data) : /\ data[m].kind = "file" /\ ~ExfatWalk(data)[m].ended
                        /\ ExfatWalk(data)[m - 1].pos <= m /\ EntrySet(data, m) # <<>>}
ExfatMade(data)   == [m \in 1..Len(data) |-> EntrySet(data, m)[1]]

\* The entries of exFAT are those of the sets that are looked at, in their order.
LEMMA ExfatLists ==
  ASSUME NEW data, SlotSeq(data)
  PROVE  /\ Len(data) \in Nat /\ ExfatListed(data)[Len(data)] = ExfatEntries(data)
         /\ Lists(ExfatListed(data), ExfatMade(data), ExfatMakers(data), Len(data))
         /\ \A i \in 0..Len(data) : ExfatListed(data)[i] \in Seq(EntryRecord)
         /\ \A m \in ExfatMakers(data) :
              /\ m \in 1..Len(data) /\ ExfatMade(data)[m] \in EntryRecord
              /\ EntrySet(data, m) = <<ExfatMade(data)[m]>>
<1> DEFINE w == ExfatWalk(data)
           L == Len(data)
           h == ExfatListed(data)
           B == ExfatMakers(data)
           made == ExfatMade(data)
<1>0. L \in Nat
  BY DEF SlotSeq
<1>1. /\ ExfatEntries(data) = w[L].entries
      /\ w[0] = [ended |-> FALSE, pos |-> 1, entries |-> <<>>]
      /\ \A i \in 1..L : w[i] = ExfatSlot(data, w[i - 1], i)
      /\ \A i \in 0..L : w[i] \in ExfatWalkType
  BY ExfatWalkFacts
<1>2. \A i \in 0..L : h[i] = w[i].entries
  BY DEF ExfatListed
<1>3. ASSUME NEW m \in 1..L, data[m].kind = "file", EntrySet(data, m) # <<>>
      PROVE  made[m] \in EntryRecord /\ EntrySet(data, m) = <<made[m]>>
  <2>1. PICK e \in EntryRecord : EntrySet(data, m) = <<e>>
    <3>1. EntrySet(data, m) = <<>> \/ \E e \in EntryRecord : EntrySet(data, m) = <<e>>
      BY <1>3, EntrySetFacts DEF NoEntry, EntryOf
    <3> QED BY <1>3, <3>1
  <2>2. made[m] = e
    BY <2>1 DEF ExfatMade
  <2> QED BY <2>1, <2>2
<1>4. ASSUME NEW m \in B
      PROVE  m \in 1..L /\ made[m] \in EntryRecord /\ EntrySet(data, m) = <<made[m]>>
  <2>1. m \in 1..L /\ data[m].kind = "file" /\ EntrySet(data, m) # <<>>
    BY DEF ExfatMakers
  <2> QED BY <1>3, <2>1
<1>5. ASSUME NEW i \in 1..L
      PROVE  h[i] = IF i \in B THEN Append(h[i - 1], made[i]) ELSE h[i - 1]
  <2>0. i - 1 \in 0..L /\ i \in 0..L
    BY <1>0
  <2>1. w[i].entries = IF ~w[i].ended /\ w[i - 1].pos <= i /\ data[i].kind = "file"
                       THEN w[i - 1].entries \o EntrySet(data, i)
                       ELSE w[i - 1].entries
    <3>1. w[i] = ExfatSlot(data, w[i - 1], i) /\ w[i - 1] \in ExfatWalkType
      BY <1>1, <2>0
    <3> HIDE DEF w
    <3> QED BY <3>1, ExfatSlotFacts
  <2>2. i \in B <=> /\ data[i].kind = "file" /\ ~w[i].ended
                    /\ w[i - 1].pos <= i /\ EntrySet(data, i) # <<>>
    BY DEF ExfatMakers
  <2>3. h[i] = w[i].entries /\ h[i - 1] = w[i - 1].entries
    BY <1>2, <2>0
  <2>4. w[i - 1].entries \in Seq(EntryRecord)
    BY <1>1, <2>0 DEF ExfatWalkType
  <2> HIDE DEF h, made, B, w
  <2>5. CASE i \in B
    <3>1. EntrySet(data, i) = <<made[i]>> /\ made[i] \in EntryRecord
      BY <1>4, <2>5
    <3>2. h[i] = h[i - 1] \o <<made[i]>>
      BY <2>1, <2>2, <2>3, <2>5, <3>1
    <3>3. h[i - 1] \o <<made[i]>> = Append(h[i - 1], made[i])
      BY <2>3, <2>4, <3>1, AppendIsConcat
    <3> QED BY <2>5, <3>2, <3>3
  <2>6. CASE i \notin B
    <3>1. w[i - 1].entries \o <<>> = w[i - 1].entries
      BY <2>4, ConcatEmptySeq
    <3> QED BY <2>1, <2>2, <2>3, <2>6, <3>1
  <2> QED BY <2>5, <2>6
<1>6. h[0] = <<>>
  BY <1>0, <1>1, <1>2
<1>7. Lists(h, made, B, L)
  BY <1>5, <1>6 DEF Lists
<1>8. \A i \in 0..L : h[i] \in Seq(EntryRecord)
  <2> HIDE DEF w, h
  <2> QED BY <1>1, <1>2 DEF ExfatWalkType
<1>9. h[L] = ExfatEntries(data)
  BY <1>0, <1>1, <1>2
<1> QED BY <1>0, <1>4, <1>7, <1>8, <1>9

\* exFAT lists no file twice.
LEMMA ExfatDistinct ==
  ASSUME VolumeInv, fs = "exfat", NEW d \in LiveDirs, NEW data, Faithful(data, d)
  PROVE  Distinct(ExfatEntries(data))
<1> DEFINE B == ExfatMakers(data)
           made == ExfatMade(data)
           h == ExfatListed(data)
           L == Len(data)
<1>1. SlotSeq(data)
  BY FaithfulFacts
<1>2. ASSUME NEW i \in B, ~made[i].deleted
      PROVE  i = At(made[i].file)
  <2>1. i \in 1..Len(data) /\ data[i].kind = "file"
    BY DEF ExfatMakers
  <2>2. EntrySet(data, i) = <<made[i]>>
    BY <1>1, ExfatLists
  <2>3. ~data[i].deleted
    <3> HIDE DEF made
    <3>1. EntryOf(data, i, made[i])
      BY <1>1, <2>1, <2>2, EntrySetRead
    <3> QED BY <1>2, <3>1 DEF EntryOf
  <2> HIDE DEF made
  <2>4. made[i].file = data[i].file
    BY <2>1, <2>2, <2>3, ExfatSetRead
  <2>5. i = At(data[i].file)
    BY <2>1, <2>3, ExfatHead
  <2> QED BY <2>4, <2>5
<1>3. \A i, j \in (1..L) \cap B :
        ~made[i].deleted /\ ~made[j].deleted /\ made[i].file = made[j].file => i = j
  BY <1>2
<1>4. /\ L \in Nat /\ Lists(h, made, B, L)
      /\ \A i \in 0..L : h[i] \in Seq(EntryRecord)
      /\ \A i \in B : made[i] \in EntryRecord
      /\ h[L] = ExfatEntries(data)
  BY <1>1, ExfatLists
<1>5. Distinct(h[L])
  <2> HIDE DEF B, made, h, L
  <2> QED BY <1>3, <1>4, ListedOnce
<1> QED BY <1>4, <1>5

\* What a set before that of f counts as its own ends before it.
LEMMA SetBefore ==
  ASSUME VolumeInv, fs = "exfat", NEW f \in Live \ {Root}, NEW i \in Nat \ {0}, i < At(f),
         slots[Positions(Home(f))[i]].kind = "file"
  PROVE  /\ slots[Positions(Home(f))[i]].file \in DOMAIN Files
         /\ Files[slots[Positions(Home(f))[i]].file].parts \in Nat
         /\ i + 2 + Files[slots[Positions(Home(f))[i]].file].parts <= At(f)
<1> DEFINE d  == Home(f)
           at == Positions(d)
           s  == slots[at[i]]
           g  == s.file
           n  == Files[g].parts
           m  == At(f)
<1>0. /\ d \in LiveDirs /\ d \in DOMAIN Files /\ f \in DOMAIN Files /\ m \in Nat \ {0}
  BY AtFacts
<1>1. m \in 1..Len(at) /\ Len(at) \in Nat /\ i \in 1..Len(at)
  <2>1. m \in 1..EndOf(f) /\ EndOf(f) \in 1..Len(at) /\ Len(at) \in Nat
    BY LastFacts
  <2> QED BY <1>0, <2>1
<1>2. at[i] \in 1..SlotCount /\ Proper(s)
  BY <1>0, <1>1, PositionFacts DEF VolumeInv, Table
<1>3. g \in DOMAIN Files \ {Root} /\ n \in Nat
  BY <1>2, ProperFacts, FileFacts
<1>4. slots[at[m]] = SetOf(f)[1] /\ 1 \in 1..Len(SetOf(f))
  <2>1. 1 \in 1..Len(SetOf(f))
    BY <1>0, SetFacts
  <2>2. m + 1 - 1 = m
    BY <1>0
  <2>3. slots[at[m + 1 - 1]] = SetOf(f)[1]
    BY <2>1, SlotsOfLive
  <2> QED BY <2>1, <2>2, <2>3
<1>5. slots[at[m]].file = f /\ ~slots[at[m]].deleted /\ slots[at[m]].kind = "file"
  BY <1>0, <1>4, ExfatSetFacts
<1>6. CASE s.deleted
  <2>1. ~FreeIn(slots, at[m])
    BY <1>5 DEF FreeIn
  <2>2. HeadsFree(slots, d)
    BY <1>0, LiveFacts DEF VolumeInv, Table
  <2>3. ~(m <= i + Secondaries(g))
    <3>1. i <= m
      BY <1>0
    <3> QED BY <1>1, <1>6, <2>1, <2>2, <3>1 DEF HeadsFree
  <2>4. Secondaries(g) = 1 + n
    BY DEF Secondaries
  <2> HIDE DEF g, n, m
  <2>5. i + 2 + n <= m
    BY <1>0, <1>3, <2>3, <2>4
  <2> QED BY <1>3, <2>5 DEF g, n, m
<1>7. CASE ~s.deleted
  <2>1. IsOf(at[i], g)
    BY <1>7 DEF IsOf
  <2>2. /\ g \in Live \ {Root} /\ Home(g) = d /\ At(g) \in Nat \ {0}
        /\ (i - At(g)) + 1 \in 1..Len(SetOf(g)) /\ s = SetOf(g)[(i - At(g)) + 1]
    BY <1>0, <1>1, <1>3, <2>1, LiveSlot
  <2> DEFINE j == (i - At(g)) + 1
             p == At(g)
  <2>3. j \in 1..Len(SetOf(g)) /\ SetOf(g)[j].kind = "file"
    BY <2>2
  <2>4. j = 1 /\ Len(SetOf(g)) = n + 2
    <3> HIDE DEF j
    <3> QED BY <1>3, <2>3, ExfatSetFacts
  <2>5. p = i
    <3> HIDE DEF p
    <3> QED BY <2>2, <2>4 DEF p
  <2>6. ASSUME m < i + 2 + n PROVE FALSE
    <3> DEFINE k == (m - i) + 1
    <3>1. k \in 1..Len(SetOf(g)) /\ p + k - 1 = m
      <4> HIDE DEF m, n, p, j
      <4> QED BY <1>0, <1>3, <2>4, <2>5, <2>6 DEF m
    <3>2. slots[at[p + k - 1]] = SetOf(g)[k]
      <4> HIDE DEF k
      <4> QED BY <2>2, <3>1, SlotsOfLive
    <3>3. SetOf(g)[k].kind = "file" /\ SetOf(g)[k].file = g
      <4> HIDE DEF k
      <4> QED BY <1>3, <1>5, <3>1, <3>2, ExfatSetFacts
    <3>4. k = 1
      <4> HIDE DEF k
      <4> QED BY <1>3, <3>1, <3>3, ExfatSetFacts
    <3> HIDE DEF m
    <3> QED BY <1>0, <3>4 DEF m
  <2> HIDE DEF m, n
  <2>7. i + 2 + n <= m
    BY <1>0, <1>3, <2>6
  <2> QED BY <1>3, <2>7 DEF m, n
<1> QED BY <1>6, <1>7

\* No set before that of f passes over it.
LEMMA HeadReached ==
  ASSUME VolumeInv, fs = "exfat", NEW f \in Live \ {Root}, NEW data, SlotSeq(data),
         ReadUpTo(data, Home(f), EndOf(f))
  PROVE  ~ExfatWalk(data)[At(f) - 1].ended /\ ExfatWalk(data)[At(f) - 1].pos <= At(f)
<1> DEFINE d  == Home(f)
           at == Positions(d)
           m  == At(f)
           w  == ExfatWalk(data)
           Ok(i) == ~w[i].ended /\ w[i].pos <= m
           N  == {i \in Nat : i < m => Ok(i)}
<1>0. /\ m \in Nat \ {0} /\ EndOf(f) \in Nat /\ m <= EndOf(f) /\ EndOf(f) <= Len(data)
      /\ Len(data) \in Nat /\ \A i \in 1..EndOf(f) : data[i] = slots[at[i]]
  <2>1. Len(data) \in Nat
    BY DEF SlotSeq
  <2>2. m \in 1..EndOf(f) /\ EndOf(f) \in Nat
    BY LastFacts
  <2>3. m \in Nat \ {0}
    BY AtFacts
  <2> HIDE DEF m
  <2> QED BY <2>1, <2>2, <2>3 DEF ReadUpTo
<1>1. /\ w[0] = [ended |-> FALSE, pos |-> 1, entries |-> <<>>]
      /\ \A i \in 1..Len(data) : w[i] = ExfatSlot(data, w[i - 1], i)
      /\ \A i \in 0..Len(data) : w[i] \in ExfatWalkType
  BY ExfatWalkFacts
<1> HIDE DEF w
<1>2. 0 \in N
  BY <1>0, <1>1
<1>3. ASSUME NEW i \in N PROVE i + 1 \in N
  <2>1. i \in Nat /\ (i < m => Ok(i))
    OBVIOUS
  <2>2. ASSUME i + 1 < m PROVE Ok(i + 1)
    <3> DEFINE j == i + 1
               s == data[j]
    <3>1. /\ j \in 1..Len(data) /\ j - 1 = i /\ i \in 0..Len(data) /\ j \in Nat \ {0} /\ j < m
          /\ j \in 1..EndOf(f) /\ i < m
      <4> HIDE DEF m, Ok
      <4> QED BY <1>0, <2>1, <2>2
    <3>2. w[j] = ExfatSlot(data, w[i], j) /\ w[i] \in ExfatWalkType
      BY <1>1, <3>1
    <3>3. ~w[i].ended /\ w[i].pos <= m
      BY <2>1, <3>1
    <3>4. s = slots[at[j]] /\ s.kind # "zero"
      BY <1>0, <3>1, UsedBefore
    <3> DEFINE IsHead == ~w[j].ended /\ w[i].pos <= j /\ s.kind = "file"
    <3> HIDE DEF j
    <3>5. /\ w[j].ended <=> w[i].ended \/ (w[i].pos <= j /\ s.kind = "zero")
          /\ w[j].pos = IF ~IsHead THEN w[i].pos
                        ELSE IF s.deleted /\ EntrySet(data, j) = <<>> THEN j + 1
                        ELSE Behind(data, j)
          /\ IsHead => Behind(data, j) = j + 2 + Files[s.file].parts
      BY <3>1, <3>2, ExfatSlotFacts
    <3>6. ~w[j].ended
      BY <3>3, <3>4, <3>5
    <3>7. CASE ~IsHead
      BY <3>3, <3>5, <3>6, <3>7 DEF j
    <3>8. CASE IsHead
      <4>1. slots[at[j]].kind = "file" /\ j \in Nat \ {0} /\ j < At(f)
        BY <3>1, <3>4, <3>8
      <4>2. j + 2 + Files[slots[at[j]].file].parts <= m
        BY <4>1, SetBefore
      <4>3. j + 2 + Files[s.file].parts <= m
        BY <3>4, <4>2
      <4>4. j + 1 <= m
        <5> HIDE DEF m
        <5> QED BY <1>0, <3>1
      <4>5. w[j].pos <= m
        BY <3>5, <3>8, <4>3, <4>4
      <4> QED BY <3>6, <4>5 DEF j
    <3> QED BY <3>7, <3>8
  <2> HIDE DEF Ok
  <2> QED BY <2>1, <2>2
<1>4. N = Nat
  <2>1. N \in SUBSET Nat
    OBVIOUS
  <2> HIDE DEF N
  <2> QED BY <1>2, <1>3, <2>1, Induction
<1>5. Ok(m - 1)
  <2>1. m - 1 \in Nat /\ m - 1 < m
    <3> HIDE DEF m
    <3> QED BY <1>0
  <2>2. m - 1 \in N
    <3> HIDE DEF N, m
    <3> QED BY <1>4, <2>1
  <2> HIDE DEF Ok
  <2> QED BY <2>1, <2>2
<1> QED BY <1>5 DEF w

\* What exFAT read of a file in use is listed.
LEMMA ExfatComplete ==
  ASSUME VolumeInv, fs = "exfat", NEW f \in Live \ {Root}, NEW data, SlotSeq(data),
         ReadUpTo(data, Home(f), EndOf(f))
  PROVE  \E j \in 1..Len(ExfatEntries(data)) : Good(ExfatEntries(data)[j], f)
<1> DEFINE d == Home(f)
           at == Positions(d)
           m == At(f)
           n == Files[f].parts
           w == ExfatWalk(data)
<1>0. /\ f \in DOMAIN Files /\ m \in Nat \ {0} /\ n \in Nat \ {0} /\ Len(SetOf(f)) = n + 2
      /\ EndOf(f) = m + n + 1 /\ m + n + 1 <= Len(data) /\ Len(data) \in Nat
      /\ \A i \in 1..(m + n + 1) : data[i] = slots[at[i]]
  <2>1. Len(data) \in Nat
    BY DEF SlotSeq
  <2>2. f \in DOMAIN Files /\ m \in Nat \ {0}
    BY AtFacts
  <2>3. n \in Nat /\ Len(SetOf(f)) = n + 2
    BY <2>2, FileFacts, SetFacts
  <2>4. n # 0
    <3>1. Files[f].parts > 0
      BY DEF VolumeInv, Table
    <3> QED BY <2>3, <3>1
  <2>5. EndOf(f) = m + n + 1
    <3> HIDE DEF m, n
    <3> QED BY <2>2, <2>3 DEF EndOf, m
  <2> HIDE DEF m, n
  <2> QED BY <2>1, <2>2, <2>3, <2>4, <2>5 DEF ReadUpTo
<1>1. ASSUME NEW k \in 1..(n + 2)
      PROVE  /\ m + k - 1 \in 1..(m + n + 1) /\ m + k - 1 \in 1..Len(data) /\ k \in 1..Len(SetOf(f))
             /\ data[m + k - 1] = SetOf(f)[k]
  <2>1. m + k - 1 \in 1..(m + n + 1) /\ m + k - 1 \in 1..Len(data) /\ k \in 1..Len(SetOf(f))
    <3> HIDE DEF m, n
    <3> QED BY <1>0
  <2>2. slots[at[m + k - 1]] = SetOf(f)[k]
    BY <2>1, SlotsOfLive
  <2> QED BY <1>0, <2>1, <2>2
<1>2. /\ m \in 1..Len(data) /\ data[m] = SetOf(f)[1] /\ data[m].kind = "file"
      /\ data[m].file = f /\ ~data[m].deleted
  <2>1. 1 \in 1..(n + 2) /\ m + 1 - 1 = m
    <3> HIDE DEF m, n
    <3> QED BY <1>0
  <2>2. m + 1 - 1 \in 1..Len(data) /\ 1 \in 1..Len(SetOf(f)) /\ data[m + 1 - 1] = SetOf(f)[1]
    BY <1>1, <2>1
  <2> QED BY <1>0, <2>1, <2>2, ExfatSetFacts
<1>3. SetStands(data, m, f)
  <2> SUFFICES ASSUME NEW k \in 1..(n + 1) PROVE data[m + k] = SetOf(f)[k + 1]
    BY DEF SetStands
  <2>1. k + 1 \in 1..(n + 2) /\ m + (k + 1) - 1 = m + k
    <3> HIDE DEF m, n
    <3> QED BY <1>0
  <2>2. data[m + (k + 1) - 1] = SetOf(f)[k + 1]
    BY <1>1, <2>1
  <2> QED BY <2>1, <2>2
<1>4. \A k \in 1..(n + 1) : m + k \in 1..Len(data) /\ data[m + k].kind # "zero"
  <2> SUFFICES ASSUME NEW k \in 1..(n + 1)
               PROVE  m + k \in 1..Len(data) /\ data[m + k].kind # "zero"
    OBVIOUS
  <2>1. k + 1 \in 1..(n + 2) /\ m + (k + 1) - 1 = m + k
    <3> HIDE DEF m, n
    <3> QED BY <1>0
  <2>2. /\ m + k \in 1..Len(data) /\ data[m + k] = SetOf(f)[k + 1] /\ k + 1 \in 1..Len(SetOf(f))
    BY <1>1, <2>1
  <2> QED BY <1>0, <2>2, SetFacts
<1>5. EntrySet(data, m) # <<>>
  <2>1. NoEntry(data, m) \/ \E e \in EntryRecord : EntryOf(data, m, e)
    BY <1>2, EntrySetFacts
  <2>2. ~NoEntry(data, m)
    <3>1. IsKind(data, m + 1, "stream") /\ data[m + 1].file = f
      <4>1. 2 \in 1..(n + 2) /\ m + 2 - 1 = m + 1
        <5> HIDE DEF m, n
        <5> QED BY <1>0
      <4>2. m + 1 \in 1..Len(data) /\ 2 \in 1..Len(SetOf(f)) /\ data[m + 1] = SetOf(f)[2]
        BY <1>1, <4>1
      <4>3. data[m + 1].kind = "stream" /\ data[m + 1].file = f
        BY <1>0, <4>2, ExfatSetFacts
      <4>4. m + 1 <= Len(data)
        <5> HIDE DEF m
        <5> QED BY <1>0, <4>2
      <4> QED BY <4>3, <4>4 DEF IsKind
    <3>2. IsKind(data, m + 2, "name")
      <4>1. 3 \in 1..(n + 2) /\ m + 3 - 1 = m + 2
        <5> HIDE DEF m, n
        <5> QED BY <1>0
      <4>2. m + 2 \in 1..Len(data) /\ 3 \in 1..Len(SetOf(f)) /\ data[m + 2] = SetOf(f)[3]
        BY <1>1, <4>1
      <4>3. data[m + 2].kind = "name"
        <5>1. 3 >= 3
          OBVIOUS
        <5> QED BY <1>0, <4>2, <5>1, ExfatSetFacts
      <4>4. m + 2 <= Len(data)
        <5> HIDE DEF m
        <5> QED BY <1>0, <4>2
      <4> QED BY <4>3, <4>4 DEF IsKind
    <3> QED BY <1>0, <1>2, <3>1, <3>2 DEF NoEntry
  <2>3. PICK e \in EntryRecord : EntrySet(data, m) = <<e>>
    BY <2>1, <2>2 DEF EntryOf
  <2> QED BY <2>3
<1>6. m \in ExfatMakers(data)
  <2>1. ~w[m - 1].ended /\ w[m - 1].pos <= m
    BY HeadReached
  <2>2. m - 1 \in 0..Len(data)
    <3> HIDE DEF m
    <3> QED BY <1>0, <1>2
  <2>3. w[m] = ExfatSlot(data, w[m - 1], m) /\ w[m - 1] \in ExfatWalkType
    BY <1>2, <2>2, ExfatWalkFacts
  <2>4. w[m].ended <=> w[m - 1].ended \/ (w[m - 1].pos <= m /\ data[m].kind = "zero")
    <3> HIDE DEF w, m
    <3> QED BY <1>2, <2>3, ExfatSlotFacts
  <2>5. ~w[m].ended
    BY <1>2, <2>1, <2>4
  <2> QED BY <1>2, <1>5, <2>1, <2>5 DEF ExfatMakers
<1> DEFINE L == Len(data)
           h == ExfatListed(data)
           made == ExfatMade(data)
           B == ExfatMakers(data)
<1>7. PICK j \in 1..Len(ExfatEntries(data)) : ExfatEntries(data)[j] = made[m]
  <2>1. /\ L \in Nat /\ Lists(h, made, B, L)
        /\ \A i \in 0..L : h[i] \in Seq(EntryRecord)
        /\ \A i \in B : made[i] \in EntryRecord
        /\ h[L] = ExfatEntries(data)
    BY ExfatLists
  <2>2. m \in 1..L /\ m \in B
    BY <1>2, <1>6
  <2> HIDE DEF m, h, made, B, L
  <2>3. Contains(h[L], made[m])
    BY <2>1, <2>2, ListedStays
  <2> QED BY <2>1, <2>3 DEF Contains
<1>8. EntrySet(data, m) = <<made[m]>>
  BY <1>6, ExfatLists
<1>9. Good(made[m], f)
  <2> DEFINE e == made[m]
  <2> HIDE DEF e
  <2>1. EntrySet(data, m) = <<e>>
    BY <1>8 DEF e
  <2>2. /\ e.file = f /\ e.deleted = data[m].deleted /\ e.dir = Files[f].dir
        /\ (\A k \in 1..(n + 1) : m + k \in 1..Len(data) /\ data[m + k].kind # "zero")
             => e.name = NameOf(f)
    <3> DEFINE i == m
    <3>1. /\ i \in 1..Len(data) /\ data[i].kind = "file" /\ data[i].file = f
          /\ SetStands(data, i, f) /\ EntrySet(data, i) = <<e>> /\ f \in DOMAIN Files
          /\ Files[f].parts \in Nat \ {0}
      BY <1>0, <1>2, <1>3, <2>1
    <3> HIDE DEF i
    <3>2. /\ e.file = f /\ e.deleted = data[i].deleted /\ e.dir = Files[f].dir
          /\ (\A k \in 1..(n + 1) : i + k \in 1..Len(data) /\ data[i + k].kind # "zero")
               => e.name = NameOf(f)
      BY <3>1, ExfatEntryRead
    <3> QED BY <3>2 DEF i
  <2>3. Good(e, f)
    BY <1>2, <1>4, <2>2 DEF Good
  <2> QED BY <2>3 DEF e
<1> QED BY <1>7, <1>9

\* What was read of a file in use is listed.
LEMMA ParseComplete ==
  ASSUME VolumeInv, NEW f \in Live \ {Root}, NEW data, SlotSeq(data),
         ReadUpTo(data, Home(f), EndOf(f))
  PROVE  \E j \in 1..Len(ParseDirectory(data)) : Good(ParseDirectory(data)[j], f)
<1>1. CASE fs = "exfat"
  BY <1>1, ExfatComplete DEF ParseDirectory
<1>2. CASE fs # "exfat"
  BY <1>2, FatComplete DEF ParseDirectory
<1> QED BY <1>1, <1>2

\* What was read of a directory is listed once.
LEMMA ParseDistinct ==
  ASSUME VolumeInv, NEW d \in LiveDirs, NEW data, Faithful(data, d)
  PROVE  Distinct(ParseDirectory(data))
<1>1. CASE fs = "exfat"
  BY <1>1, ExfatDistinct DEF ParseDirectory
<1>2. CASE fs # "exfat"
  BY <1>2, FatDistinct DEF ParseDirectory
<1> QED BY <1>1, <1>2

-----------------------------------------------------------------------------
(* The tree is complete: what was read and has no record yet is still to   *)
(* come.                                                                   *)

\* The files of d whose way was read.
Owed(d) == {f \in Live \ {Root} : Home(f) = d /\ IsRead(f)}

\* The entry whose chain is followed.
Now == IF AtEntry THEN {entry} ELSE {}

\* How far below the root the records are, and the directories that are being read.
Level(D, rs, st) ==
  /\ D \in Seq(Nat) /\ Len(D) = Len(rs)
  /\ \A i \in 1..Len(rs) : D[i] = IF i = 1 THEN 0 ELSE D[rs[i].parent] + 1
  /\ \A q \in 1..Len(st) : D[st[q].id] = q - 1

Placed(rs, i, f) == \E j \in 2..Len(rs) : rs[j].parent = i /\ Good(rs[j].entry, f)
Taken(st, now, i, f) == st # <<>> /\ st[Len(st)].id = i /\ \E e \in now : Good(e, f)
Coming(st, i, f) ==
  \E q \in 1..Len(st) : st[q].id = i /\ \E k \in 1..Len(st[q].entries) : Good(st[q].entries[k], f)

\* The directories of which everything is owed.
Opened(D, rs, i) == rs[i].entry.dir /\ rs[i].entry.file \in LiveDirs /\ D[i] <= MaxDepth

Complete(D, rs, st, now) ==
  \A i \in 1..Len(rs) : Opened(D, rs, i) =>
    \A f \in Owed(rs[i].entry.file) : Placed(rs, i, f) \/ Taken(st, now, i, f) \/ Coming(st, i, f)

\* A record more, and a directory more if it is not too deep.
LEMMA CompleteAdd ==
  ASSUME NEW rs \in Seq(RecordType), NEW st \in Seq(Frame), Shaped(rs, st), NEW r \in RecordType,
         NEW t \in Frame, t.id = Len(rs) + 1, NEW D, Level(D, rs, st),
         Complete(D, rs, st, {r.entry}), st = <<>> => rs = <<>>,
         st # <<>> => r.parent = st[Len(st)].id,
         NEW su, su = IF r.entry.dir /\ Len(st) <= MaxDepth THEN Append(st, t) ELSE st,
         r.entry.dir /\ r.entry.file \in LiveDirs =>
           \A f \in Owed(r.entry.file) : \E k \in 1..Len(t.entries) : Good(t.entries[k], f)
  PROVE  /\ Level(Append(D, Len(st)), Append(rs, r), su)
         /\ Complete(Append(D, Len(st)), Append(rs, r), su, {})
<1> DEFINE n == Len(rs)
           l == Len(st)
           a == Append(rs, r)
           F == Append(D, l)
           push == r.entry.dir /\ l <= MaxDepth
<1>1. /\ n \in Nat /\ Len(a) = n + 1 /\ (\A i \in 1..n : a[i] = rs[i]) /\ a[n + 1] = r
  BY AppendProperties
<1>2. /\ l \in Nat /\ Len(F) = n + 1 /\ (\A i \in 1..n : F[i] = D[i]) /\ F[n + 1] = l
      /\ F \in Seq(Nat) /\ \A i \in 1..n : D[i] \in Nat
  <2>1. l \in Nat /\ D \in Seq(Nat) /\ Len(D) = n
    BY DEF Level
  <2>2. \A i \in 1..n : D[i] \in Nat
    BY <2>1
  <2> HIDE DEF l, n
  <2> QED BY <2>1, <2>2, AppendProperties
<1>3. /\ su = IF push THEN Append(st, t) ELSE st
      /\ \A q \in 1..l : su[q] = st[q]
      /\ push => Len(su) = l + 1 /\ su[l + 1] = t
      /\ ~push => Len(su) = l
  BY AppendProperties
<1>4. \A i \in 1..(n + 1) : i \in 1..n \/ i = n + 1
  BY <1>1
<1>5. st # <<>> => l \in 1..l /\ r.parent \in 1..n /\ D[r.parent] = l - 1 /\ n # 0
  <2> SUFFICES ASSUME st # <<>> PROVE l \in 1..l /\ r.parent \in 1..n /\ D[r.parent] = l - 1 /\ n # 0
    OBVIOUS
  <2>1. l \in 1..l
    BY <1>2, EmptySeq
  <2>2. r.parent \in 1..n
    BY <2>1 DEF Shaped
  <2>3. D[r.parent] = l - 1
    BY <2>1 DEF Level
  <2> HIDE DEF l
  <2> QED BY <1>1, <2>1, <2>2, <2>3
<1>6. st = <<>> => n = 0 /\ l = 0
  BY EmptySeq
<1>7. \A i \in 2..n : rs[i].parent \in 1..n /\ i \in 1..n
  <2>1. \A i \in 2..n : rs[i].parent \in 1..(i - 1)
    BY DEF Shaped
  <2> HIDE DEF n
  <2> QED BY <1>1, <2>1
<1>8. \A q \in 1..l : st[q].id \in 1..n /\ D[st[q].id] = q - 1
  BY DEF Shaped, Level
<1>9. \A i \in 1..n : D[i] = IF i = 1 THEN 0 ELSE D[rs[i].parent] + 1
  BY DEF Level
<1>10. \A i \in 1..n : Opened(D, rs, i) =>
         \A f \in Owed(rs[i].entry.file) :
           Placed(rs, i, f) \/ Taken(st, {r.entry}, i, f) \/ Coming(st, i, f)
  BY DEF Complete
<1> HIDE DEF a, F, n, l, push
<1>11. ASSUME NEW i \in 1..(n + 1)
       PROVE  F[i] = IF i = 1 THEN 0 ELSE F[a[i].parent] + 1
  <2>1. CASE i \in 1..n
    <3>1. i # 1 => rs[i].parent \in 1..n
      <4>1. i # 1 => i \in 2..n
        BY <1>1, <2>1
      <4> QED BY <1>7, <4>1
    <3>2. a[i] = rs[i] /\ F[i] = D[i] /\ D[i] = IF i = 1 THEN 0 ELSE D[rs[i].parent] + 1
      BY <1>1, <1>2, <1>9, <2>1
    <3>3. CASE i = 1
      BY <3>2, <3>3
    <3>4. CASE i # 1
      <4>1. F[rs[i].parent] = D[rs[i].parent]
        BY <1>2, <3>1, <3>4
      <4> QED BY <3>2, <3>4, <4>1
    <3> QED BY <3>3, <3>4
  <2>2. CASE i = n + 1
    <3>1. CASE st = <<>>
      BY <1>2, <1>6, <2>2, <3>1
    <3>2. CASE st # <<>>
      <4>1. i # 1 /\ a[i].parent = r.parent
        BY <1>1, <1>5, <2>2, <3>2
      <4>2. F[r.parent] = l - 1
        BY <1>2, <1>5, <3>2
      <4> QED BY <1>2, <2>2, <4>1, <4>2
    <3> QED BY <3>1, <3>2
  <2> QED BY <1>4, <2>1, <2>2
<1>12. ASSUME NEW q \in 1..Len(su)
       PROVE  F[su[q].id] = q - 1
  <2>1. CASE q \in 1..l
    BY <1>2, <1>3, <1>8, <2>1
  <2>2. CASE q \notin 1..l
    <3>1. push /\ q = l + 1
      BY <1>2, <1>3, <2>2
    <3>2. su[q].id = n + 1
      BY <1>3, <3>1 DEF n
    <3> QED BY <1>2, <3>1, <3>2
  <2> QED BY <2>1, <2>2
<1>13. Level(F, a, su)
  BY <1>1, <1>2, <1>11, <1>12 DEF Level
<1>14. ASSUME NEW i \in 1..(n + 1), Opened(F, a, i), NEW f \in Owed(a[i].entry.file)
       PROVE  Placed(a, i, f) \/ Coming(su, i, f)
  <2>1. CASE i \in 1..n
    <3>1. a[i] = rs[i] /\ F[i] = D[i]
      BY <1>1, <1>2, <2>1
    <3>2. Placed(rs, i, f) \/ Taken(st, {r.entry}, i, f) \/ Coming(st, i, f)
      BY <1>10, <1>14, <2>1, <3>1 DEF Opened
    <3>3. CASE Placed(rs, i, f)
      <4>1. PICK j \in 2..n : rs[j].parent = i /\ Good(rs[j].entry, f)
        BY <3>3 DEF Placed, n
      <4>2. j \in 2..(n + 1) /\ a[j] = rs[j]
        BY <1>1, <4>1
      <4> QED BY <1>1, <4>1, <4>2 DEF Placed
    <3>4. CASE Taken(st, {r.entry}, i, f)
      <4>1. st # <<>> /\ r.parent = i /\ Good(r.entry, f)
        BY <3>4 DEF Taken
      <4>2. n + 1 \in 2..(n + 1)
        BY <1>1, <1>5, <4>1
      <4> QED BY <1>1, <4>1, <4>2 DEF Placed
    <3>5. CASE Coming(st, i, f)
      <4>1. PICK q \in 1..l :
              st[q].id = i /\ \E k \in 1..Len(st[q].entries) : Good(st[q].entries[k], f)
        BY <3>5 DEF Coming, l
      <4>2. q \in 1..Len(su) /\ su[q] = st[q]
        BY <1>2, <1>3, <4>1
      <4> QED BY <4>1, <4>2 DEF Coming
    <3> QED BY <3>2, <3>3, <3>4, <3>5
  <2>2. CASE i = n + 1
    <3>1. a[i] = r /\ F[i] = l
      BY <1>1, <1>2, <2>2
    <3>2. push /\ r.entry.file \in LiveDirs
      BY <1>14, <3>1 DEF Opened, push
    <3>3. PICK k \in 1..Len(t.entries) : Good(t.entries[k], f)
      BY <1>14, <3>1, <3>2 DEF push
    <3>4. l + 1 \in 1..Len(su) /\ su[l + 1] = t /\ t.id = i
      BY <1>2, <1>3, <2>2, <3>2 DEF n
    <3> QED BY <3>3, <3>4 DEF Coming
  <2> QED BY <1>4, <2>1, <2>2
<1>15. Complete(F, a, su, {})
  BY <1>1, <1>14 DEF Complete
<1> QED BY <1>13, <1>15 DEF F, a, l

\* The next entry is passed over or taken.
LEMMA CompletePop ==
  ASSUME stack \in Seq(Frame), stack # <<>>, Entries # <<>>, NEW rs, NEW D, Level(D, rs, stack),
         Complete(D, rs, stack, {}), NEW now,
         Head(Entries) \in now \/ (now = {} /\ Head(Entries).deleted)
  PROVE  Level(D, rs, Popped) /\ Complete(D, rs, Popped, now)
<1> DEFINE l == Len(stack)
           p == Popped
           E == Entries
<1>1. /\ p \in Seq(Frame) /\ Len(p) = l /\ l \in Nat \ {0}
      /\ E = stack[l].entries /\ E \in Seq(EntryRecord)
      /\ Head(E) = E[1] /\ 1 \in 1..Len(E)
      /\ \A q \in 1..l : p[q].id = stack[q].id
      /\ \A q \in 1..(l - 1) : p[q].entries = stack[q].entries
      /\ p[l].entries = Tail(E)
  BY PoppedFacts
<1>2. p # <<>>
  <2>1. Len(p) # 0
    BY <1>1
  <2> QED BY <1>1, <2>1, EmptySeq
<1>3. /\ Len(E) \in Nat /\ Len(Tail(E)) = Len(E) - 1
      /\ \A k \in 1..(Len(E) - 1) : Tail(E)[k] = E[k + 1]
  <2>1. E # <<>>
    OBVIOUS
  <2> HIDE DEF E
  <2> QED BY <1>1, <2>1, HeadTailProperties
<1>4. Level(D, rs, p)
  BY <1>1 DEF Level
<1> HIDE DEF l, p, E
<1>5. ASSUME NEW i, NEW f, Coming(stack, i, f)
      PROVE  Taken(p, now, i, f) \/ Coming(p, i, f)
  <2>1. PICK q \in 1..l : stack[q].id = i /\ \E k \in 1..Len(stack[q].entries) : Good(stack[q].entries[k], f)
    BY <1>5 DEF Coming, l
  <2>2. PICK k \in 1..Len(stack[q].entries) : Good(stack[q].entries[k], f)
    BY <2>1
  <2>3. CASE q # l
    <3>1. q \in 1..(l - 1) /\ q \in 1..Len(p)
      BY <1>1, <2>3
    <3> QED BY <1>1, <2>1, <2>2, <3>1 DEF Coming
  <2>4. CASE q = l
    <3>1. k \in 1..Len(E) /\ Good(E[k], f)
      BY <1>1, <2>2, <2>4
    <3>2. CASE k = 1
      <4>1. Good(Head(E), f)
        BY <1>1, <3>1, <3>2
      <4>2. Head(E) \in now
        BY <4>1 DEF Good, E
      <4> QED BY <1>1, <1>2, <2>1, <2>4, <4>1, <4>2 DEF Taken
    <3>3. CASE k # 1
      <4>1. k - 1 \in 1..(Len(E) - 1) /\ (k - 1) + 1 = k
        BY <1>3, <3>1, <3>3
      <4>2. k - 1 \in 1..Len(p[q].entries) /\ p[q].entries[k - 1] = E[k]
        BY <1>1, <1>3, <2>4, <4>1
      <4>3. q \in 1..Len(p) /\ p[q].id = i
        BY <1>1, <2>1
      <4> QED BY <3>1, <4>2, <4>3 DEF Coming
    <3> QED BY <3>2, <3>3
  <2> QED BY <2>3, <2>4
<1>6. Complete(D, rs, p, now)
  BY <1>5 DEF Complete, Taken
<1> QED BY <1>4, <1>6 DEF p

\* A directory of which nothing is to come is left.
LEMMA CompleteFront ==
  ASSUME NEW st \in Seq(Frame), st # <<>>, st[Len(st)].entries = <<>>, NEW rs, NEW D,
         Level(D, rs, st), Complete(D, rs, st, {})
  PROVE  Level(D, rs, Front(st)) /\ Complete(D, rs, Front(st), {})
<1> DEFINE l == Len(st)
           a == Front(st)
<1>1. l \in Nat /\ l # 0
  BY EmptySeq
<1>2. Len(a) = l - 1 /\ \A q \in 1..(l - 1) : a[q] = st[q] /\ q \in 1..l
  BY FrontFacts
<1> HIDE DEF a, l
<1>3. Level(D, rs, a)
  BY <1>2 DEF Level, l
<1>4. ASSUME NEW i, NEW f, Coming(st, i, f) PROVE Coming(a, i, f)
  <2>1. PICK q \in 1..l : st[q].id = i /\ \E k \in 1..Len(st[q].entries) : Good(st[q].entries[k], f)
    BY <1>4 DEF Coming, l
  <2>2. q # l
    <3>1. Len(st[l].entries) = 0
      BY DEF l
    <3> QED BY <2>1, <3>1
  <2>3. q \in 1..(l - 1)
    BY <1>1, <2>2
  <2> QED BY <1>2, <2>1, <2>3 DEF Coming
<1>5. Complete(D, rs, a, {})
  BY <1>4 DEF Complete, Taken
<1> QED BY <1>3, <1>5 DEF a

\* The runs of the records are those of the files.
RunsRight ==
  \A j \in 2..Len(records) :
    LET C == Files[records[j].entry.file].clusters
    IN  records[j].entry.file \in Live \ {Root} /\ Len(C) <= MaxClusters /\ ToSet(C) \cap unread = {}
          => ClustersOf(records[j].runs) = C

CompleteInv ==
  phase # "volume" =>
    /\ \E D : Level(D, records, stack) /\ Complete(D, records, stack, Now)
    /\ RunsRight
    /\ phase = "end" => stack = <<>> /\ records # <<>> /\ pc = "entries"

\* What is owed stays as it is once the image is taken.
LEMMA SameOwed ==
  ASSUME UNCHANGED <<fs, slots, lost, image_end, unread>>
  PROVE  Live' = Live /\ LiveDirs' = LiveDirs /\ \A d : Owed(d)' = Owed(d)
<1>1. Live' = Live /\ \A f : Home(f)' = Home(f)
  BY DEF Live, Home, LiveDirs, IsOf, Positions
<1>2. LiveDirs' = LiveDirs
  BY <1>1 DEF LiveDirs
<1>3. ASSUME NEW f PROVE IsRead(f)' <=> IsRead(f)
  <2>1. Home(f)' = Home(f)
    BY <1>1
  <2> QED BY <2>1 DEF IsRead, Positions, IsOf, Contiguous
<1> QED BY <1>1, <1>2, <1>3 DEF Owed

\* The tree is complete as long as neither it nor the volume changes.
LEMMA SameComplete ==
  ASSUME UNCHANGED <<fs, slots, lost, image_end, unread>>, NEW D,
         Level(D, records', stack'), Complete(D, records', stack', Now')
  PROVE  (\E F : Level(F, records, stack) /\ Complete(F, records, stack, Now))'
<1>1. Level(D, records, stack)'
  BY DEF Level
<1>2. Complete(D, records, stack, Now)'
  BY SameOwed DEF Complete, Opened, Placed, Taken, Coming
<1> QED BY <1>1, <1>2

\* The runs stay as long as the records do.
LEMMA SameRuns ==
  ASSUME UNCHANGED <<fs, slots, lost, image_end, unread, records>>, RunsRight
  PROVE  RunsRight'
BY SameOwed DEF RunsRight

\* Where there is no tree yet nothing is owed.
LEMMA CompleteEmpty ==
  ASSUME NEW rs, NEW st, rs = <<>>, st = <<>>, NEW now
  PROVE  Level(<<>>, rs, st) /\ Complete(<<>>, rs, st, now)
<1>1. Len(rs) = 0 /\ Len(st) = 0 /\ <<>> \in Seq(Nat)
  OBVIOUS
<1> QED BY <1>1 DEF Level, Complete

\* At the beginning there is no tree.
LEMMA CompleteInit == TreeInit => CompleteInv
<1> SUFFICES ASSUME TreeInit PROVE CompleteInv
  OBVIOUS
<1>1. stack = <<>> /\ records = <<>> /\ phase # "end"
  BY DEF TreeInit
<1>2. Len(records) = 0
  BY <1>1
<1>3. RunsRight
  BY <1>2 DEF RunsRight
<1>4. Level(<<>>, records, stack) /\ Complete(<<>>, records, stack, Now)
  BY <1>1, CompleteEmpty
<1> QED BY <1>1, <1>3, <1>4 DEF CompleteInv

\* While the volume lives and when its image is taken there is no tree yet.
LEMMA CompleteBefore ==
  ASSUME TreeTyped, phase = "volume", UNCHANGED <<entry, stack, records>>, phase' # "end"
  PROVE  CompleteInv'
<1>1. stack' = <<>> /\ records' = <<>>
  BY DEF TreeTyped
<1>2. Len(records') = 0
  BY <1>1
<1>3. RunsRight'
  BY <1>2 DEF RunsRight
<1>4. (\E D : Level(D, records, stack) /\ Complete(D, records, stack, Now))'
  <2>1. (Level(<<>>, records, stack) /\ Complete(<<>>, records, stack, Now))'
    <3>1. Len(stack') = 0 /\ <<>> \in Seq(Nat)
      BY <1>1
    <3> QED BY <1>2, <3>1 DEF Level, Complete
  <2> QED BY <2>1
<1> QED BY <1>3, <1>4 DEF CompleteInv

\* A step that leaves the tree alone.
LEMMA CompleteStays ==
  ASSUME CompleteInv, phase # "volume", Now' = Now,
         UNCHANGED <<fs, slots, lost, image_end, unread, stack, records, phase>>,
         phase = "end" => pc' = pc
  PROVE  CompleteInv'
<1>1. PICK D : Level(D, records, stack) /\ Complete(D, records, stack, Now)
  BY DEF CompleteInv
<1>2. Level(D, records', stack') /\ Complete(D, records', stack', Now')
  BY <1>1
<1>3. (\E F : Level(F, records, stack) /\ Complete(F, records, stack, Now))'
  BY <1>2, SameComplete
<1>4. RunsRight'
  BY SameRuns DEF CompleteInv
<1> QED BY <1>3, <1>4 DEF CompleteInv

\* Without files only the root is in use.
LEMMA NobodyLives ==
  ASSUME VolumeInv, NoFiles, NEW f \in Live \ {Root}
  PROVE  FALSE
<1>1. f \in DOMAIN Files /\ slots \in [1..SlotCount -> SlotType]
  BY LiveFacts DEF VolumeInv, Table
<1>2. f # 0
  BY <1>1, FileFacts
<1>3. PICK p \in 1..SlotCount : slots[p].file = f
  BY <1>1, LiveFacts DEF IsIn
<1>4. slots[p] \in {Zero, Label}
  BY <1>3 DEF NoFiles
<1>5. slots[p].file = 0
  BY <1>4 DEF Zero, Label, Slot
<1> QED BY <1>2, <1>3, <1>5

\* What the directory of an entry lists.
LEMMA EntryOwed ==
  ASSUME VolumeInv, TreeTyped, LinkInv, phase # "volume", pc \in {"done", "known"},
         Sectors(DirectoryData), NEW f \in Owed(entry.file)
  PROVE  \E k \in 1..Len(ParseDirectory(DirectoryData)) : Good(ParseDirectory(DirectoryData)[k], f)
<1>1. f \in Live \ {Root} /\ Home(f) = entry.file /\ IsRead(f)
  BY DEF Owed
<1>2. CASE NoFiles
  BY <1>1, <1>2, NobodyLives
<1>3. CASE Linked
  <2>1. ReadUpTo(DirectoryData, entry.file, EndOf(f))
    BY <1>1, <1>3, DirectoryReaches
  <2>2. SlotSeq(DirectoryData)
    BY SectorsProper
  <2> QED BY <1>1, <2>1, <2>2, ParseComplete
<1> QED BY <1>2, <1>3 DEF LinkInv

\* The record of an entry, and what its directory lists.
LEMMA CompleteAdds ==
  ASSUME VolumeInv, TreeTyped, LinkInv, SoundInv, CompleteInv, AddRecord
  PROVE  CompleteInv'
<1>1. /\ phase = "tree" /\ pc \in {"done", "known"} /\ pc' = "entries" /\ phase' = phase
      /\ UNCHANGED <<fs, slots, lost, image_end, unread, runs, entry>>
  BY DEF AddRecord, volume, image, input
<1>2. /\ OnDisk(runs) /\ Sectors(DirectoryData)
      /\ AddedRecord \in RecordType /\ AddedFrame \in Frame
      /\ records' = Append(records, AddedRecord)
      /\ stack' = IF entry.dir /\ Len(stack) <= MaxDepth THEN Append(stack, AddedFrame) ELSE stack
  BY AddTyped
<1>3. /\ records \in Seq(RecordType) /\ stack \in Seq(Frame) /\ Len(records) \in Nat
      /\ Shaped(records, stack)
  BY DEF TreeTyped, SoundInv
<1>4. AtEntry /\ Now = {AddedRecord.entry} /\ AddedRecord.entry = entry
  BY <1>1 DEF AtEntry, Now, AddedRecord
<1>5. ~AtEntry' /\ Now' = {}
  BY <1>1 DEF AtEntry, Now
<1>6. /\ stack = <<>> => records = <<>> /\ entry = RootEntry
      /\ stack # <<>> => AddedRecord.parent = stack[Len(stack)].id
      /\ stack # <<>> => AddedRecord.runs = runs
  BY <1>4 DEF SoundInv, AddedRecord, Last
<1>7. /\ AddedFrame.id = Len(records) + 1 /\ AddedFrame.entries = ParseDirectory(DirectoryData)
  BY DEF AddedFrame
<1>8. (\E D : Level(D, records, stack) /\ Complete(D, records, stack, Now))'
  <2>1. PICK D : Level(D, records, stack) /\ Complete(D, records, stack, Now)
    BY <1>1 DEF CompleteInv
  <2>2. \A f \in Owed(entry.file) :
          \E k \in 1..Len(AddedFrame.entries) : Good(AddedFrame.entries[k], f)
    BY <1>1, <1>2, <1>7, EntryOwed
  <2>3. /\ Level(Append(D, Len(stack)), records', stack')
        /\ Complete(Append(D, Len(stack)), records', stack', {})
    BY <1>2, <1>3, <1>4, <1>6, <1>7, <2>1, <2>2, CompleteAdd
  <2> DEFINE F == Append(D, Len(stack))
  <2>4. Level(F, records', stack') /\ Complete(F, records', stack', Now')
    BY <1>5, <2>3
  <2> HIDE DEF F
  <2> QED BY <1>1, <2>4, SameComplete
<1>9. RunsRight'
  <2> SUFFICES ASSUME NEW j \in 2..Len(records'),
                      records'[j].entry.file \in Live \ {Root},
                      Len(Files[records'[j].entry.file].clusters) <= MaxClusters,
                      ToSet(Files[records'[j].entry.file].clusters) \cap unread = {}
               PROVE  ClustersOf(records'[j].runs) = Files[records'[j].entry.file].clusters
    BY <1>1, SameOwed DEF RunsRight
  <2>1. /\ Len(records') = Len(records) + 1 /\ records'[Len(records) + 1] = AddedRecord
        /\ \A i \in 1..Len(records) : records'[i] = records[i]
    BY <1>2, <1>3, AppendProperties
  <2>2. CASE j # Len(records) + 1
    <3>1. j \in 2..Len(records) /\ j \in 1..Len(records)
      BY <1>3, <2>1, <2>2
    <3>2. records'[j] = records[j]
      BY <2>1, <3>1
    <3> QED BY <1>1, <3>1, <3>2 DEF CompleteInv, RunsRight
  <2>3. CASE j = Len(records) + 1
    <3>1. records # <<>>
      <4>1. Len(records) # 0
        BY <1>3, <2>3
      <4> QED BY <4>1
    <3>2. records'[j].entry = entry /\ records'[j].runs = runs
      BY <1>4, <1>6, <2>1, <2>3, <3>1
    <3>3. entry.file \in Live /\ entry.file # Root
      BY <3>2
    <3>4. Linked
      BY <1>1, <3>3, NobodyLives DEF LinkInv
    <3>5. fs = "fat16" => pc # "known"
      BY <3>3, RootFacts DEF TreeTyped, Known
    <3> QED BY <1>1, <3>2, <3>3, <3>4, <3>5, RunsWhole
  <2> QED BY <2>2, <2>3
<1> QED BY <1>1, <1>8, <1>9 DEF CompleteInv

\* An entry is passed over or taken.
LEMMA CompletePops ==
  ASSUME TreeTyped, SoundInv, CompleteInv, SkipDeleted \/ TakeEntry
  PROVE  CompleteInv'
<1>1. /\ phase = "tree" /\ pc = "entries" /\ stack # <<>> /\ Entries # <<>> /\ stack' = Popped
      /\ UNCHANGED <<phase, slots, fs, lost, image_end, unread, records>>
  BY DEF SkipDeleted, TakeEntry, InDirectory, volume, image, chain, input
<1>2. stack \in Seq(Frame)
  BY DEF TreeTyped
<1>3. Head(Entries) \in Now' \/ (Now' = {} /\ Head(Entries).deleted)
  <2>1. CASE SkipDeleted
    <3>1. pc' = "entries" /\ Head(Entries).deleted
      BY <1>1, <2>1 DEF SkipDeleted, chain
    <3> QED BY <3>1 DEF Now, AtEntry
  <2>2. CASE TakeEntry
    <3>1. pc' \in {"known", "start"} /\ entry' = Head(Entries)
      BY <2>2 DEF TakeEntry
    <3> QED BY <3>1 DEF Now, AtEntry
  <2> QED BY <2>1, <2>2
<1>4. Now = {}
  BY <1>1 DEF Now, AtEntry
<1>5. PICK D : Level(D, records, stack) /\ Complete(D, records, stack, {})
  BY <1>1, <1>4 DEF CompleteInv
<1>6. Level(D, records, Popped) /\ Complete(D, records, Popped, Now')
  BY <1>1, <1>2, <1>3, <1>5, CompletePop
<1>7. Level(D, records', stack') /\ Complete(D, records', stack', Now')
  BY <1>1, <1>6
<1>8. (\E F : Level(F, records, stack) /\ Complete(F, records, stack, Now))'
  BY <1>1, <1>7, SameComplete
<1>9. RunsRight'
  BY <1>1, SameRuns DEF CompleteInv
<1> QED BY <1>1, <1>8, <1>9 DEF CompleteInv

\* A directory is done.
LEMMA CompleteLeaves ==
  ASSUME TreeTyped, SoundInv, CompleteInv, LeaveDirectory
  PROVE  CompleteInv'
<1>1. /\ phase = "tree" /\ pc = "entries" /\ pc' = "entries" /\ stack # <<>> /\ stack' = Front(stack)
      /\ stack[Len(stack)].entries = <<>>
      /\ phase' = IF Len(stack) = 1 THEN "end" ELSE "tree"
      /\ UNCHANGED <<slots, fs, lost, image_end, unread, records>>
  BY DEF LeaveDirectory, InDirectory, chain, volume, image, input, Entries, Last
<1>2. /\ stack \in Seq(Frame) /\ records \in Seq(RecordType) /\ Shaped(records, stack)
      /\ Len(stack) \in Nat /\ Len(stack) # 0
  BY <1>1, EmptySeq DEF TreeTyped, SoundInv
<1>3. Now = {} /\ Now' = {}
  BY <1>1 DEF Now, AtEntry
<1>4. PICK D : Level(D, records, stack) /\ Complete(D, records, stack, {})
  BY <1>1, <1>3 DEF CompleteInv
<1>5. Level(D, records, Front(stack)) /\ Complete(D, records, Front(stack), {})
  BY <1>1, <1>2, <1>4, CompleteFront
<1>6. Level(D, records', stack') /\ Complete(D, records', stack', Now')
  BY <1>1, <1>3, <1>5
<1>7. (\E F : Level(F, records, stack) /\ Complete(F, records, stack, Now))'
  BY <1>1, <1>6, SameComplete
<1>8. RunsRight'
  BY <1>1, SameRuns DEF CompleteInv
<1>9. ASSUME phase' = "end" PROVE stack' = <<>> /\ records' # <<>>
  <2>1. Len(stack) = 1
    BY <1>1, <1>9
  <2>2. Len(Front(stack)) = Len(stack) - 1
    BY <1>1, <1>2, FrontFacts
  <2>3. stack' \in Seq(Frame) /\ Len(stack') = 0
    BY <1>1, <2>1, <2>2, LeaveTyped DEF TreeTyped
  <2>4. stack' = <<>>
    BY <2>3, EmptySeq
  <2>5. 1 \in 1..Len(stack)
    BY <2>1
  <2>6. stack[1].id \in 1..Len(records)
    BY <1>2, <2>5 DEF Shaped
  <2>7. records # <<>>
    <3>1. records = <<>> => Len(records) = 0
      OBVIOUS
    <3> QED BY <2>6, <3>1
  <2> QED BY <1>1, <2>4, <2>7
<1> QED BY <1>1, <1>7, <1>8, <1>9 DEF CompleteInv

\* Each step of the tree leaves it complete.
LEMMA CompleteStep ==
  VolumeInv /\ TreeTyped /\ LinkInv /\ SoundInv /\ CompleteInv /\ [TreeNext]_tree_vars => CompleteInv'
<1> SUFFICES ASSUME VolumeInv, TreeTyped, LinkInv, SoundInv, CompleteInv, [TreeNext]_tree_vars
             PROVE  CompleteInv'
  OBVIOUS
<1>1. ASSUME NEW table, Change(table) PROVE CompleteInv'
  BY <1>1, CompleteBefore DEF Change
<1>2. CASE UNCHANGED tree_vars
  <2>1. UNCHANGED <<pc, phase, fs, slots, lost, image_end, unread, entry, stack, records>>
    BY <1>2 DEF tree_vars, volume, image, chain, input
  <2>2. Now' = Now
    BY <2>1 DEF Now, AtEntry
  <2>3. CASE phase = "volume"
    BY <2>1, <2>3, CompleteBefore
  <2>4. CASE phase # "volume"
    BY <2>1, <2>2, <2>4, CompleteStays
  <2> QED BY <2>3, <2>4
<1>3. ASSUME NEW f, NEW d, Create(f, d) \/ Delete(f) \/ Move(f, d) PROVE CompleteInv'
  BY <1>1, <1>3 DEF Create, Delete, Move
<1>4. CASE Read
  BY <1>4, CompleteBefore DEF Read
<1>5. CASE FollowChain
  <2>1. /\ UNCHANGED <<phase, fs, slots, lost, image_end, unread, entry, stack, records>>
        /\ pc \in {"start", "loop"} /\ pc' \in {"loop", "done"} /\ phase = "tree"
    BY <1>5 DEF FollowChain, Next, NoChain, Begin, EndChain, Consecutive, NewRun, GiveUp, Looking,
                volume, image, input
  <2>2. Now' = Now
    BY <2>1 DEF Now, AtEntry
  <2> QED BY <2>1, <2>2, CompleteStays
<1> QED BY <1>2, <1>3, <1>4, <1>5, CompleteAdds, CompletePops, CompleteLeaves DEF TreeNext

-----------------------------------------------------------------------------
(* The tree lists a file once.                                             *)

Same(e, g) == ~e.deleted /\ ~g.deleted /\ e.file = g.file

\* No two records of a directory in use are of the same file, nor is a record and what
\* is to come, nor are two of what is to come.
Once(rs, st) ==
  /\ \A j, k \in 2..Len(rs) :
       rs[rs[j].parent].entry.file \in LiveDirs /\ rs[j].parent = rs[k].parent
         /\ Same(rs[j].entry, rs[k].entry) => j = k
  /\ \A q \in 1..Len(st) : rs[st[q].id].entry.file \in LiveDirs =>
       /\ Distinct(st[q].entries)
       /\ \A j \in 2..Len(rs) : rs[j].parent = st[q].id =>
            \A k \in 1..Len(st[q].entries) : ~Same(rs[j].entry, st[q].entries[k])

\* Nor is the entry whose chain is followed one of these.
Apart(e, rs, st) ==
  LET t == st[Len(st)]
  IN  rs[t.id].entry.file \in LiveDirs =>
        /\ \A j \in 2..Len(rs) : rs[j].parent = t.id => ~Same(rs[j].entry, e)
        /\ \A k \in 1..Len(t.entries) : ~Same(t.entries[k], e)

UniqueInv ==
  phase # "volume" /\ Unglued =>
    /\ Once(records, stack)
    /\ AtEntry /\ stack # <<>> => Apart(entry, records, stack)

\* A record more, and a directory more.
LEMMA OnceAdd ==
  ASSUME NEW rs \in Seq(RecordType), NEW st \in Seq(Frame), Shaped(rs, st), NEW r \in RecordType,
         NEW t \in Frame, t.id = Len(rs) + 1, NEW D, Level(D, rs, st), Once(rs, st),
         st = <<>> => rs = <<>>, st # <<>> => r.parent = st[Len(st)].id /\ Apart(r.entry, rs, st),
         NEW su, su = IF r.entry.dir /\ Len(st) <= MaxDepth THEN Append(st, t) ELSE st,
         r.entry.dir /\ r.entry.file \in LiveDirs => Distinct(t.entries)
  PROVE  Once(Append(rs, r), su)
<1> DEFINE n == Len(rs)
           l == Len(st)
           a == Append(rs, r)
           push == r.entry.dir /\ l <= MaxDepth
<1>1. /\ n \in Nat /\ Len(a) = n + 1 /\ (\A i \in 1..n : a[i] = rs[i]) /\ a[n + 1] = r
  BY AppendProperties
<1>2. l \in Nat
  OBVIOUS
<1>3. /\ su = IF push THEN Append(st, t) ELSE st
      /\ \A q \in 1..l : su[q] = st[q]
      /\ push => Len(su) = l + 1 /\ su[l + 1] = t
      /\ ~push => Len(su) = l
  BY AppendProperties
<1>4. \A i \in 2..n : rs[i].parent \in 1..n /\ i \in 1..n
  <2>1. \A i \in 2..n : rs[i].parent \in 1..(i - 1)
    BY DEF Shaped
  <2> HIDE DEF n
  <2> QED BY <1>1, <2>1
<1>5. \A q \in 1..l : st[q].id \in 1..n /\ D[st[q].id] = q - 1
  BY DEF Shaped, Level
<1>6. n # 0 => st # <<>> /\ l \in 1..l /\ r.parent = st[l].id /\ r.parent \in 1..n
  <2> SUFFICES ASSUME n # 0 PROVE st # <<>> /\ l \in 1..l /\ r.parent = st[l].id /\ r.parent \in 1..n
    OBVIOUS
  <2>1. st # <<>>
    OBVIOUS
  <2>2. l \in 1..l
    BY <1>2, <2>1, EmptySeq
  <2> QED BY <1>5, <2>1, <2>2
<1>7. n # 0 => /\ rs[r.parent].entry.file \in LiveDirs =>
                    /\ \A j \in 2..n : rs[j].parent = r.parent => ~Same(rs[j].entry, r.entry)
                    /\ \A k \in 1..Len(st[l].entries) : ~Same(st[l].entries[k], r.entry)
  BY <1>6 DEF Apart
<1>8. /\ \A j, k \in 2..n :
           rs[rs[j].parent].entry.file \in LiveDirs /\ rs[j].parent = rs[k].parent
             /\ Same(rs[j].entry, rs[k].entry) => j = k
      /\ \A q \in 1..l : rs[st[q].id].entry.file \in LiveDirs =>
           /\ Distinct(st[q].entries)
           /\ \A j \in 2..n : rs[j].parent = st[q].id =>
                \A k \in 1..Len(st[q].entries) : ~Same(rs[j].entry, st[q].entries[k])
  BY DEF Once
<1> HIDE DEF a, n, l, push
<1>9. \A j \in 2..(n + 1) :
        \/ j \in 2..n /\ a[j] = rs[j] /\ rs[j].parent \in 1..n /\ a[a[j].parent] = rs[rs[j].parent]
        \/ j = n + 1 /\ n # 0 /\ a[j] = r /\ a[a[j].parent] = rs[r.parent]
  <2> TAKE j \in 2..(n + 1)
  <2>1. CASE j \in 2..n
    BY <1>1, <1>4, <2>1
  <2>2. CASE j \notin 2..n
    <3>1. j = n + 1 /\ n # 0
      BY <1>1, <2>2
    <3> QED BY <1>1, <1>6, <3>1
  <2> QED BY <2>1, <2>2
<1>10. ASSUME NEW j \in 2..(n + 1), NEW k \in 2..(n + 1), a[a[j].parent].entry.file \in LiveDirs,
              a[j].parent = a[k].parent, Same(a[j].entry, a[k].entry)
       PROVE  j = k
  <2>1. Same(a[k].entry, a[j].entry)
    BY <1>10 DEF Same
  <2>2. CASE j \in 2..n /\ k \in 2..n
    BY <1>1, <1>4, <1>8, <1>10, <2>2
  <2>3. CASE j = n + 1 /\ k \in 2..n
    <3>1. n # 0 /\ a[j] = r /\ a[a[j].parent] = rs[r.parent] /\ a[k] = rs[k]
      BY <1>1, <1>4, <1>9, <2>3
    <3> QED BY <1>7, <1>10, <2>1, <2>3, <3>1
  <2>4. CASE j \in 2..n /\ k = n + 1
    <3>1. n # 0 /\ a[k] = r /\ a[a[k].parent] = rs[r.parent] /\ a[j] = rs[j]
      BY <1>1, <1>4, <1>9, <2>4
    <3> QED BY <1>7, <1>10, <2>4, <3>1
  <2> QED BY <1>9, <2>2, <2>3, <2>4
<1>11. ASSUME NEW q \in 1..Len(su), a[su[q].id].entry.file \in LiveDirs
       PROVE  /\ Distinct(su[q].entries)
              /\ \A j \in 2..(n + 1) : a[j].parent = su[q].id =>
                   \A k \in 1..Len(su[q].entries) : ~Same(a[j].entry, su[q].entries[k])
  <2>1. CASE q \in 1..l
    <3>1. su[q] = st[q] /\ st[q].id \in 1..n /\ a[st[q].id] = rs[st[q].id]
      BY <1>1, <1>3, <1>5, <2>1
    <3>2. rs[st[q].id].entry.file \in LiveDirs
      BY <1>11, <3>1
    <3>3. ASSUME NEW j \in 2..(n + 1), a[j].parent = st[q].id,
                 NEW k \in 1..Len(st[q].entries)
          PROVE  ~Same(a[j].entry, st[q].entries[k])
      <4>1. CASE j \in 2..n
        <5>1. a[j] = rs[j]
          BY <1>1, <1>4, <4>1
        <5> QED BY <1>8, <2>1, <3>2, <3>3, <4>1, <5>1
      <4>2. CASE j = n + 1
        <5>1. n # 0 /\ a[j] = r
          BY <1>1, <4>2
        <5>2. r.parent = st[l].id /\ r.parent = st[q].id /\ l \in 1..l
          BY <1>6, <3>3, <5>1
        <5>3. D[st[l].id] = l - 1 /\ D[st[q].id] = q - 1
          BY <1>5, <2>1, <5>2
        <5>4. q = l
          BY <1>2, <2>1, <5>2, <5>3
        <5>5. ~Same(st[l].entries[k], r.entry)
          BY <1>7, <3>2, <3>3, <5>1, <5>2, <5>4
        <5> QED BY <5>1, <5>4, <5>5 DEF Same
      <4> QED BY <1>9, <4>1, <4>2
    <3> QED BY <1>8, <2>1, <3>1, <3>2, <3>3
  <2>2. CASE q \notin 1..l
    <3>1. push /\ q = l + 1
      BY <1>2, <1>3, <2>2
    <3>2. su[q] = t /\ t.id = n + 1 /\ a[t.id] = r
      BY <1>1, <1>3, <3>1 DEF n
    <3>3. Distinct(su[q].entries)
      BY <1>11, <3>1, <3>2 DEF push
    <3>4. \A j \in 2..(n + 1) : a[j].parent # n + 1
      <4> TAKE j \in 2..(n + 1)
      <4>1. a[j].parent \in 1..n
        BY <1>6, <1>9
      <4> QED BY <1>1, <4>1
    <3> QED BY <3>2, <3>3, <3>4
  <2> QED BY <2>1, <2>2
<1>12. Once(a, su)
  BY <1>1, <1>10, <1>11 DEF Once
<1> QED BY <1>12 DEF a

\* The next entry is passed over or taken.
LEMMA OncePop ==
  ASSUME stack \in Seq(Frame), stack # <<>>, Entries # <<>>, NEW rs, Once(rs, stack)
  PROVE  Once(rs, Popped) /\ Apart(Head(Entries), rs, Popped)
<1> DEFINE l == Len(stack)
           p == Popped
           E == Entries
           h == Head(E)
<1>1. /\ p \in Seq(Frame) /\ Len(p) = l /\ l \in Nat \ {0}
      /\ E = stack[l].entries /\ E \in Seq(EntryRecord)
      /\ h = E[1] /\ 1 \in 1..Len(E)
      /\ \A q \in 1..l : p[q].id = stack[q].id
      /\ \A q \in 1..(l - 1) : p[q].entries = stack[q].entries
      /\ p[l].entries = Tail(E)
  BY PoppedFacts
<1>2. /\ Len(E) \in Nat /\ Len(Tail(E)) = Len(E) - 1
      /\ \A k \in 1..(Len(E) - 1) : Tail(E)[k] = E[k + 1]
  <2>1. E # <<>>
    OBVIOUS
  <2> HIDE DEF E
  <2> QED BY <1>1, <2>1, HeadTailProperties
<1>3. /\ \A j, k \in 2..Len(rs) :
           rs[rs[j].parent].entry.file \in LiveDirs /\ rs[j].parent = rs[k].parent
             /\ Same(rs[j].entry, rs[k].entry) => j = k
      /\ \A q \in 1..l : rs[stack[q].id].entry.file \in LiveDirs =>
           /\ Distinct(stack[q].entries)
           /\ \A j \in 2..Len(rs) : rs[j].parent = stack[q].id =>
                \A k \in 1..Len(stack[q].entries) : ~Same(rs[j].entry, stack[q].entries[k])
  BY DEF Once
<1> HIDE DEF l, p, E, h
<1>4. \A k \in 1..Len(Tail(E)) : k \in Nat /\ k + 1 \in 1..Len(E) /\ k + 1 # 1 /\ Tail(E)[k] = E[k + 1]
  BY <1>2
<1>5. ASSUME NEW q \in 1..l, rs[stack[q].id].entry.file \in LiveDirs
      PROVE  /\ Distinct(p[q].entries)
             /\ \A j \in 2..Len(rs) : rs[j].parent = stack[q].id =>
                  \A k \in 1..Len(p[q].entries) : ~Same(rs[j].entry, p[q].entries[k])
  <2>1. CASE q # l
    <3>1. p[q].entries = stack[q].entries
      <4>1. q \in 1..(l - 1)
        BY <1>1, <2>1
      <4> QED BY <1>1, <4>1
    <3> QED BY <1>3, <1>5, <3>1
  <2>2. CASE q = l
    <3>1. /\ Distinct(E)
          /\ \A j \in 2..Len(rs) : rs[j].parent = stack[q].id =>
               \A k \in 1..Len(E) : ~Same(rs[j].entry, E[k])
      BY <1>1, <1>3, <1>5, <2>2
    <3>2. Distinct(Tail(E))
      <4> SUFFICES ASSUME NEW j \in 1..Len(Tail(E)), NEW k \in 1..Len(Tail(E)),
                          ~Tail(E)[j].deleted, ~Tail(E)[k].deleted, Tail(E)[j].file = Tail(E)[k].file
                   PROVE  j = k
        BY DEF Distinct
      <4>1. j + 1 = k + 1
        BY <1>4, <3>1 DEF Distinct
      <4> QED BY <1>4, <4>1
    <3>3. p[q].entries = Tail(E)
      BY <1>1, <2>2
    <3>4. \A j \in 2..Len(rs) : rs[j].parent = stack[q].id =>
            \A k \in 1..Len(Tail(E)) : ~Same(rs[j].entry, Tail(E)[k])
      BY <1>4, <3>1
    <3> QED BY <3>2, <3>3, <3>4
  <2> QED BY <2>1, <2>2
<1>6. Once(rs, p)
  BY <1>1, <1>3, <1>5 DEF Once
<1>7. Apart(h, rs, p)
  <2> SUFFICES ASSUME rs[p[l].id].entry.file \in LiveDirs
               PROVE  /\ \A j \in 2..Len(rs) : rs[j].parent = p[l].id => ~Same(rs[j].entry, h)
                      /\ \A k \in 1..Len(p[l].entries) : ~Same(p[l].entries[k], h)
    BY <1>1 DEF Apart
  <2>1. l \in 1..l /\ p[l].id = stack[l].id
    BY <1>1
  <2>2. /\ Distinct(E)
        /\ \A j \in 2..Len(rs) : rs[j].parent = stack[l].id =>
             \A k \in 1..Len(E) : ~Same(rs[j].entry, E[k])
    BY <1>1, <1>3, <2>1
  <2>3. \A k \in 1..Len(Tail(E)) : ~Same(Tail(E)[k], h)
    <3> TAKE k \in 1..Len(Tail(E))
    <3>1. k + 1 \in 1..Len(E) /\ k + 1 # 1 /\ Tail(E)[k] = E[k + 1]
      BY <1>4
    <3> QED BY <1>1, <2>2, <3>1 DEF Distinct, Same
  <2> QED BY <1>1, <2>1, <2>2, <2>3
<1> QED BY <1>6, <1>7 DEF p, h, E

\* A directory is left.
LEMMA OnceFront ==
  ASSUME NEW st \in Seq(Frame), st # <<>>, NEW rs, Once(rs, st)
  PROVE  Once(rs, Front(st))
<1> DEFINE l == Len(st)
           a == Front(st)
<1>1. Len(a) = l - 1 /\ \A q \in 1..(l - 1) : a[q] = st[q] /\ q \in 1..l
  BY FrontFacts
<1> HIDE DEF a, l
<1>2. Once(rs, a)
  BY <1>1 DEF Once, l
<1> QED BY <1>2 DEF a

\* What is known of the tree stays as long as neither it nor the volume changes.
LEMMA SameUnique ==
  ASSUME slots' = slots
  PROVE  /\ Once(records', stack') => Once(records, stack)'
         /\ Apart(entry', records', stack') => Apart(entry, records, stack)'
<1>1. LiveDirs' = LiveDirs
  BY DEF LiveDirs, Live, IsOf
<1> QED BY <1>1 DEF Once, Apart, Same, Distinct

\* Where there is no tree yet nothing is listed.
LEMMA UniqueEmpty ==
  ASSUME stack' = <<>>, records' = <<>>
  PROVE  UniqueInv'
<1>1. Len(stack') = 0 /\ Len(records') = 0
  OBVIOUS
<1> QED BY <1>1 DEF UniqueInv, Once

\* At the beginning there is no tree.
LEMMA UniqueInit == TreeInit => UniqueInv
<1> SUFFICES ASSUME TreeInit PROVE UniqueInv
  OBVIOUS
<1>1. stack = <<>> /\ records = <<>>
  BY DEF TreeInit
<1>2. Len(stack) = 0 /\ Len(records) = 0
  BY <1>1
<1> QED BY <1>1, <1>2 DEF UniqueInv, Once

\* A step that leaves the tree alone.
LEMMA UniqueStays ==
  ASSUME UniqueInv, phase # "volume", AtEntry' => AtEntry,
         UNCHANGED <<fs, slots, image_end, entry, stack, records>>
  PROVE  UniqueInv'
<1> SUFFICES ASSUME Unglued'
             PROVE  Once(records, stack)' /\ (AtEntry' /\ stack' # <<>> => Apart(entry, records, stack)')
  BY DEF UniqueInv
<1>1. Once(records, stack) /\ (AtEntry /\ stack # <<>> => Apart(entry, records, stack))
  BY SameUnglued DEF UniqueInv
<1>2. Once(records', stack') /\ (AtEntry' /\ stack' # <<>> => Apart(entry', records', stack'))
  BY <1>1
<1> QED BY <1>2, SameUnique

\* The record of an entry, and what its directory lists.
LEMMA UniqueAdds ==
  ASSUME VolumeInv, TreeTyped, LinkInv, SoundInv, CompleteInv, UniqueInv, AddRecord
  PROVE  UniqueInv'
<1>1. /\ phase = "tree" /\ pc \in {"done", "known"} /\ pc' = "entries" /\ phase' = phase
      /\ UNCHANGED <<slots, image_end>>
  BY DEF AddRecord, volume, image
<1>2. /\ Sectors(DirectoryData) /\ AddedRecord \in RecordType /\ AddedFrame \in Frame
      /\ records' = Append(records, AddedRecord)
      /\ stack' = IF entry.dir /\ Len(stack) <= MaxDepth THEN Append(stack, AddedFrame) ELSE stack
  BY AddTyped
<1>3. /\ records \in Seq(RecordType) /\ stack \in Seq(Frame) /\ Shaped(records, stack)
  BY DEF TreeTyped, SoundInv
<1>4. AtEntry /\ ~AtEntry'
  BY <1>1 DEF AtEntry
<1>5. /\ stack = <<>> => records = <<>>
      /\ stack # <<>> => AddedRecord.parent = stack[Len(stack)].id
      /\ AddedRecord.entry = entry
      /\ AddedFrame.id = Len(records) + 1 /\ AddedFrame.entries = ParseDirectory(DirectoryData)
  BY <1>4 DEF SoundInv, AddedRecord, AddedFrame, Last
<1>6. PICK D : Level(D, records, stack)
  BY <1>1 DEF CompleteInv
<1> SUFFICES ASSUME Unglued' PROVE Once(records, stack)'
  BY <1>4 DEF UniqueInv
<1>7. Unglued
  BY <1>1, SameUnglued
<1>8. Once(records, stack) /\ (stack # <<>> => Apart(entry, records, stack))
  BY <1>1, <1>4, <1>7 DEF UniqueInv
<1>9. ASSUME entry.file \in LiveDirs PROVE Distinct(ParseDirectory(DirectoryData))
  <2>1. CASE NoFiles
    <3>1. ParseDirectory(DirectoryData) = <<>>
      BY <1>2, <2>1, NothingListed
    <3>2. Len(ParseDirectory(DirectoryData)) = 0
      BY <3>1
    <3> QED BY <3>2 DEF Distinct
  <2>2. CASE Linked
    <3>1. entry.file \in Live /\ ~Glued(entry.file)
      BY <1>7, <1>9 DEF Unglued, LiveDirs
    <3>2. Faithful(DirectoryData, entry.file)
      BY <1>1, <2>2, <3>1, DirectoryFaithful
    <3> QED BY <1>9, <3>2, ParseDistinct
  <2> QED BY <1>1, <2>1, <2>2 DEF LinkInv
<1>10. Once(records', stack')
  BY <1>2, <1>3, <1>5, <1>6, <1>8, <1>9, OnceAdd
<1> QED BY <1>1, <1>10, SameUnique

\* An entry is passed over or taken.
LEMMA UniquePops ==
  ASSUME TreeTyped, UniqueInv, SkipDeleted \/ TakeEntry
  PROVE  UniqueInv'
<1>1. /\ phase = "tree" /\ stack # <<>> /\ Entries # <<>> /\ stack' = Popped
      /\ UNCHANGED <<slots, image_end, records>>
      /\ pc' = "entries" \/ entry' = Head(Entries)
  BY DEF SkipDeleted, TakeEntry, InDirectory, volume, image, chain
<1>2. stack \in Seq(Frame)
  BY DEF TreeTyped
<1> SUFFICES ASSUME Unglued'
             PROVE  Once(records, stack)' /\ (AtEntry' => Apart(entry, records, stack)')
  BY DEF UniqueInv
<1>3. Once(records, stack)
  BY <1>1, SameUnglued DEF UniqueInv
<1>4. Once(records, Popped) /\ Apart(Head(Entries), records, Popped)
  BY <1>1, <1>2, <1>3, OncePop
<1>5. AtEntry' => entry' = Head(Entries)
  BY <1>1 DEF AtEntry
<1>6. Once(records', stack') /\ (AtEntry' => Apart(entry', records', stack'))
  BY <1>1, <1>4, <1>5
<1> QED BY <1>1, <1>6, SameUnique

\* A directory is done.
LEMMA UniqueLeaves ==
  ASSUME TreeTyped, UniqueInv, LeaveDirectory
  PROVE  UniqueInv'
<1>1. /\ phase = "tree" /\ pc' = "entries" /\ stack # <<>> /\ stack' = Front(stack)
      /\ UNCHANGED <<slots, image_end, records>>
  BY DEF LeaveDirectory, InDirectory, chain, volume, image
<1>2. stack \in Seq(Frame) /\ ~AtEntry'
  BY <1>1 DEF TreeTyped, AtEntry
<1> SUFFICES ASSUME Unglued' PROVE Once(records, stack)'
  BY <1>2 DEF UniqueInv
<1>3. Once(records, stack)
  BY <1>1, SameUnglued DEF UniqueInv
<1>4. Once(records', stack')
  BY <1>1, <1>2, <1>3, OnceFront
<1> QED BY <1>1, <1>4, SameUnique

\* Each step of the tree lists a file once.
LEMMA UniqueStep ==
  VolumeInv /\ TreeTyped /\ LinkInv /\ SoundInv /\ CompleteInv /\ UniqueInv /\ [TreeNext]_tree_vars
    => UniqueInv'
<1> SUFFICES ASSUME VolumeInv, TreeTyped, LinkInv, SoundInv, CompleteInv, UniqueInv,
                    [TreeNext]_tree_vars
             PROVE  UniqueInv'
  OBVIOUS
<1>1. ASSUME phase = "volume", UNCHANGED <<stack, records>> PROVE UniqueInv'
  BY <1>1, UniqueEmpty DEF TreeTyped
<1>2. CASE UNCHANGED tree_vars
  <2>1. UNCHANGED <<pc, phase, fs, slots, image_end, entry, stack, records>>
    BY <1>2 DEF tree_vars, volume, image, chain
  <2>2. AtEntry' => AtEntry
    BY <2>1 DEF AtEntry
  <2> QED BY <1>1, <2>1, <2>2, UniqueStays
<1>3. ASSUME NEW table, Change(table) PROVE UniqueInv'
  BY <1>1, <1>3 DEF Change
<1>4. ASSUME NEW f, NEW d, Create(f, d) \/ Delete(f) \/ Move(f, d) PROVE UniqueInv'
  BY <1>3, <1>4 DEF Create, Delete, Move
<1>5. CASE Read
  BY <1>1, <1>5 DEF Read
<1>6. CASE FollowChain
  <2>1. /\ UNCHANGED <<fs, slots, image_end, entry, stack, records>>
        /\ pc \in {"start", "loop"} /\ phase = "tree"
    BY <1>6 DEF FollowChain, Next, NoChain, Begin, EndChain, Consecutive, NewRun, GiveUp, Looking,
                volume, image
  <2>2. AtEntry
    BY <2>1 DEF AtEntry
  <2> QED BY <2>1, <2>2, UniqueStays
<1> QED BY <1>2, <1>4, <1>5, <1>6, UniqueAdds, UniquePops, UniqueLeaves DEF TreeNext

-----------------------------------------------------------------------------
(* Every file in use whose way was read is listed, and once.               *)

\* Those no more than n directories below the root, one directory after the other.
LEMMA ReachedFacts ==
  \A n \in 0..(MaxDepth + 1) :
    Reached[n] = IF n = 0 THEN {Root}
                 ELSE Reached[n - 1]
                        \cup {f \in Live \ {Root} : Home(f) \in Reached[n - 1] /\ IsRead(f)}
<1> DEFINE L == MaxDepth + 1
           below(s) == s \cup {f \in Live \ {Root} : Home(f) \in s /\ IsRead(f)}
           Is(g, m) == g = [n \in 0..m |-> IF n = 0 THEN {Root} ELSE below(g[n - 1])]
           M == {m \in Nat : \E g : Is(g, m)}
<1>0. L \in Nat
  BY FatTreeAssumption
<1>1. Reached = CHOOSE g : Is(g, L)
  BY DEF Reached
<1> HIDE DEF L, below
<1>2. 0 \in M
  <2>1. Is([n \in 0..0 |-> {Root}], 0)
    OBVIOUS
  <2> HIDE DEF Is
  <2> QED BY <2>1
<1>3. ASSUME NEW m \in M PROVE m + 1 \in M
  <2>1. m \in Nat /\ m + 1 \in Nat
    OBVIOUS
  <2>2. PICK g : Is(g, m)
    OBVIOUS
  <2> DEFINE h == [n \in 0..(m + 1) |-> IF n <= m THEN g[n] ELSE below(g[m])]
  <2>3. \A n \in 0..m : g[n] = IF n = 0 THEN {Root} ELSE below(g[n - 1])
    BY <2>2
  <2>4. ASSUME NEW n \in 0..(m + 1)
        PROVE  h[n] = IF n = 0 THEN {Root} ELSE below(h[n - 1])
    <3>1. n # 0 => n - 1 \in 0..(m + 1) /\ n - 1 <= m /\ h[n - 1] = g[n - 1]
      BY <2>1
    <3>2. CASE n \in 0..m
      <4>1. h[n] = g[n]
        BY <2>1, <3>2
      <4> QED BY <2>3, <3>1, <3>2, <4>1
    <3>3. CASE n = m + 1
      <4>1. h[n] = below(g[m]) /\ n # 0 /\ n - 1 = m
        BY <2>1, <3>3
      <4> QED BY <3>1, <4>1
    <3> QED BY <2>1, <3>2, <3>3
  <2>5. Is(h, m + 1)
    BY <2>4
  <2> HIDE DEF h, Is
  <2> QED BY <2>1, <2>5
<1>4. M = Nat
  <2>1. M \in SUBSET Nat
    OBVIOUS
  <2> HIDE DEF M
  <2> QED BY <1>2, <1>3, <2>1, Induction
<1> DEFINE w == Reached
<1>5. Is(w, L)
  <2> HIDE DEF Is
  <2>1. \E g : Is(g, L)
    BY <1>0, <1>4
  <2> QED BY <1>1, <2>1
<1> HIDE DEF w
<1>6. \A n \in 0..L : w[n] = IF n = 0 THEN {Root} ELSE below(w[n - 1])
  BY <1>5
<1> QED BY <1>6 DEF w, L, below

\* What is in the tree but for the root is listed in the directory of its parent.
LEMMA InTreeListed ==
  ASSUME records \in Seq(RecordType), Shaped(records, stack), Fits(records, stack),
         NEW i \in InTree, i # 1
  PROVE  /\ i \in 2..Len(records) /\ ~records[i].entry.deleted
         /\ records[i].parent \in 1..(i - 1) /\ records[i].parent \in InTree
         /\ Listed(records[i].entry, records[records[i].parent].entry.file)
<1> DEFINE p == records[i].parent
<1>1. i \in 2..Len(records) /\ ~records[i].entry.deleted /\ p \in 1..(i - 1) /\ p \in InTree
  BY InTreeAbove
<1>2. Genuine(records[p].entry)
  BY <1>1, InTreeGenuine
<1>3. Child(records[i].entry, records[p].entry)
  BY <1>1 DEF Fits
<1> QED BY <1>1, <1>2, <1>3 DEF Child

\* The tree lists a file once.
LEMMA TreeOnce ==
  ASSUME VolumeInv, records \in Seq(RecordType), Shaped(records, stack), Fits(records, stack),
         Once(records, stack)
  PROVE  \A i, j \in InTree : records[i].entry.file = records[j].entry.file => i = j
<1> DEFINE file(i) == records[i].entry.file
           up(i) == records[i].parent
           N == {n \in Nat : \A i, j \in InTree : i <= n /\ j <= n /\ file(i) = file(j) => i = j}
<1>1. InTree \subseteq 1..Len(records) /\ Len(records) \in Nat
  BY DEF InTree
<1>2. ASSUME NEW i \in InTree, i # 1
      PROVE  /\ i \in 2..Len(records) /\ ~records[i].entry.deleted
             /\ up(i) \in InTree /\ up(i) < i /\ file(i) # Root
             /\ file(up(i)) = Home(file(i)) /\ file(up(i)) \in LiveDirs
  <2>1. /\ i \in 2..Len(records) /\ ~records[i].entry.deleted
        /\ up(i) \in 1..(i - 1) /\ up(i) \in InTree /\ Listed(records[i].entry, file(up(i)))
    BY <1>2, InTreeListed
  <2>2. file(i) \in Live \ {Root} /\ file(up(i)) = Home(file(i))
    BY <2>1 DEF Listed
  <2>3. Home(file(i)) \in LiveDirs
    BY <2>2, HomeFacts
  <2>4. up(i) < i
    BY <2>1
  <2> QED BY <2>1, <2>2, <2>3, <2>4
<1>3. 1 \in InTree => file(1) = Root
  <2> SUFFICES ASSUME 1 \in InTree PROVE file(1) = Root
    OBVIOUS
  <2>1. records # <<>>
    <3>1. Len(records) # 0
      BY <1>1
    <3> QED BY <3>1
  <2> QED BY <2>1, RootFacts DEF Shaped
<1>4. \A j, k \in 2..Len(records) :
        file(up(j)) \in LiveDirs /\ up(j) = up(k) /\ ~records[j].entry.deleted
          /\ ~records[k].entry.deleted /\ file(j) = file(k) => j = k
  BY DEF Once, Same
<1> HIDE DEF file, up
<1>5. 0 \in N
  BY <1>1
<1>6. ASSUME NEW n \in N PROVE n + 1 \in N
  <2> SUFFICES ASSUME NEW i \in InTree, NEW j \in InTree, i <= n + 1, j <= n + 1, file(i) = file(j)
               PROVE  i = j
    OBVIOUS
  <2>1. CASE i = 1 \/ j = 1
    BY <1>2, <1>3, <2>1
  <2>2. CASE i # 1 /\ j # 1
    <3>1. up(i) <= n /\ up(j) <= n /\ file(up(i)) = file(up(j))
      <4>1. up(i) < i /\ up(j) < j /\ file(up(i)) = file(up(j))
        BY <1>2, <2>2
      <4>2. up(i) \in InTree /\ up(j) \in InTree
        BY <1>2, <2>2
      <4>3. up(i) \in Nat /\ up(j) \in Nat /\ i \in Nat /\ j \in Nat /\ n \in Nat
        <5>1. \A x \in InTree : x \in Nat
          BY <1>1
        <5> QED BY <4>2, <5>1
      <4> QED BY <4>1, <4>3
    <3>2. up(i) = up(j)
      BY <1>2, <2>2, <3>1
    <3> QED BY <1>2, <1>4, <2>2, <3>2
  <2> QED BY <2>1, <2>2
<1>7. N = Nat
  <2>1. N \in SUBSET Nat
    OBVIOUS
  <2> HIDE DEF N
  <2> QED BY <1>5, <1>6, <2>1, Induction
<1> TAKE i, j \in InTree
<1>8. i <= Len(records) /\ j <= Len(records) /\ Len(records) \in N
  <2> HIDE DEF N
  <2> QED BY <1>1, <1>7
<1> QED BY <1>8 DEF file

\* The record of a file, as it should be.
Stands(i, f) ==
  /\ i \in InTree /\ records[i].entry.file = f /\ records[i].entry.dir = Files[f].dir
  /\ f # Root => /\ i \in 2..Len(records)
                 /\ records[records[i].parent].entry.file = Home(f)
                 /\ records[i].entry.name = NameOf(f)

\* Every file whose way was read is in the tree that is built.
LEMMA TreeReaches ==
  ASSUME VolumeInv, TreeTyped, SoundInv, CompleteInv, Built, NEW n \in 0..(MaxDepth + 1),
         NEW f \in Reached[n]
  PROVE  f \in Live /\ \E i \in 1..Len(records) : Stands(i, f)
<1>1. /\ records \in Seq(RecordType) /\ Shaped(records, stack) /\ stack = <<>> /\ records # <<>>
      /\ Now = {} /\ Len(stack) = 0 /\ Len(records) \in Nat /\ DOMAIN records = 1..Len(records)
  BY DEF TreeTyped, SoundInv, CompleteInv, Built, Now, AtEntry
<1>2. PICK D : Level(D, records, stack) /\ Complete(D, records, stack, {})
  BY <1>1 DEF CompleteInv, Built
<1>3. 1 \in 1..Len(records)
  <2>1. Len(records) # 0
    BY <1>1, EmptySeq
  <2> QED BY <1>1, <2>1
<1> DEFINE P(m, g) == g \in Live /\ \E i \in 1..Len(records) : Stands(i, g) /\ D[i] <= m
           N == {m \in Nat : m <= MaxDepth + 1 => \A g \in Reached[m] : P(m, g)}
<1>4. MaxDepth \in Nat /\ \A i \in 1..Len(records) : D[i] \in Nat
  BY <1>1, <1>2, FatTreeAssumption DEF Level
<1>5. 0 \in N
  <2>1. Reached[0] = {Root}
    <3>1. 0 \in 0..(MaxDepth + 1)
      BY <1>4
    <3> QED BY <3>1, ReachedFacts
  <2>2. 1 \in InTree
    <3>1. Path[1] = {}
      BY <1>1, <1>3, PathFacts
    <3> QED BY <1>1, <1>3, <3>1 DEF InTree
  <2>3. records[1].entry = RootEntry /\ Files[Root].dir
    BY <1>1, FatTreeAssumption DEF Shaped
  <2>4. Stands(1, Root)
    BY <2>2, <2>3, RootFacts DEF Stands
  <2>5. D[1] <= 0
    BY <1>2, <1>3 DEF Level
  <2> QED BY <1>3, <2>1, <2>4, <2>5, LiveFacts
<1>6. ASSUME NEW m \in N PROVE m + 1 \in N
  <2> SUFFICES ASSUME m + 1 <= MaxDepth + 1, NEW g \in Reached[m + 1] PROVE P(m + 1, g)
    OBVIOUS
  <2>1. /\ m \in Nat /\ m <= MaxDepth /\ m + 1 \in 0..(MaxDepth + 1) /\ m + 1 # 0
        /\ (m + 1) - 1 = m /\ m <= MaxDepth + 1
    BY <1>4
  <2>2. g \in Reached[m] \/ (g \in Live \ {Root} /\ Home(g) \in Reached[m] /\ IsRead(g))
    <3>1. Reached[m + 1] = Reached[m]
             \cup {x \in Live \ {Root} : Home(x) \in Reached[m] /\ IsRead(x)}
      <4> DEFINE k == m + 1
      <4>1. k \in 0..(MaxDepth + 1) /\ k # 0 /\ k - 1 = m
        BY <2>1
      <4> HIDE DEF k
      <4>2. Reached[k] = Reached[k - 1]
               \cup {x \in Live \ {Root} : Home(x) \in Reached[k - 1] /\ IsRead(x)}
        BY <4>1, ReachedFacts
      <4> QED BY <4>1, <4>2 DEF k
    <3> QED BY <3>1
  <2>3. \A x \in Reached[m] : P(m, x)
    BY <2>1
  <2>4. CASE g \in Reached[m]
    <3>1. g \in Live
      BY <2>3, <2>4
    <3>2. PICK i \in 1..Len(records) : Stands(i, g) /\ D[i] <= m
      BY <2>3, <2>4
    <3>3. D[i] <= m + 1
      BY <1>4, <2>1, <3>2
    <3> QED BY <3>1, <3>2, <3>3
  <2>5. CASE g \in Live \ {Root} /\ Home(g) \in Reached[m] /\ IsRead(g)
    <3> DEFINE d == Home(g)
    <3>1. d \in LiveDirs
      BY <2>5, HomeFacts
    <3>2. PICK i \in 1..Len(records) : Stands(i, d) /\ D[i] <= m
      BY <2>3, <2>5
    <3>3. i \in InTree /\ records[i].entry.file = d /\ records[i].entry.dir
      BY <3>1, <3>2 DEF Stands, LiveDirs
    <3>4. Opened(D, records, i)
      <4>1. D[i] <= MaxDepth
        BY <1>4, <2>1, <3>2
      <4> QED BY <3>1, <3>3, <4>1 DEF Opened
    <3>5. g \in Owed(records[i].entry.file)
      BY <2>5, <3>3 DEF Owed
    <3>6. Placed(records, i, g)
      BY <1>1, <1>2, <3>4, <3>5 DEF Complete, Taken, Coming
    <3>7. PICK j \in 2..Len(records) : records[j].parent = i /\ Good(records[j].entry, g)
      BY <3>6 DEF Placed
    <3>8. j \in 1..Len(records) /\ j # 1
      BY <1>1, <3>7
    <3>9. j \in InTree
      <4>1. Path[j] = {j} \cup Path[i]
        BY <1>1, <3>7, <3>8, PathFacts
      <4>2. ~records[j].entry.deleted
        BY <3>7 DEF Good
      <4> QED BY <1>1, <3>3, <3>8, <4>1, <4>2 DEF InTree
    <3>10. Stands(j, g)
      BY <3>3, <3>7, <3>9 DEF Stands, Good
    <3>11. D[j] <= m + 1
      <4>1. D[j] = D[i] + 1
        BY <1>2, <3>7, <3>8 DEF Level
      <4> QED BY <1>4, <2>1, <3>2, <4>1
    <3> QED BY <2>5, <3>8, <3>10, <3>11
  <2> QED BY <2>2, <2>4, <2>5
<1>7. N = Nat
  <2>1. N \in SUBSET Nat
    OBVIOUS
  <2> HIDE DEF N
  <2> QED BY <1>5, <1>6, <2>1, Induction
<1>8. n \in N /\ n <= MaxDepth + 1
  <2> HIDE DEF N
  <2> QED BY <1>4, <1>7
<1> QED BY <1>8

\* A complete tree lists what can be read.
LEMMA CompleteMeansLiveListed ==
  VolumeInv /\ TreeTyped /\ SoundInv /\ CompleteInv /\ UniqueInv => LiveListed
<1> SUFFICES ASSUME VolumeInv, TreeTyped, SoundInv, CompleteInv, UniqueInv, Built,
                    NEW f \in Reached[MaxDepth + 1] \ {Root}
             PROVE  \E i \in InTree :
                      /\ records[i].entry.file = f
                      /\ records[records[i].parent].entry.file = Home(f)
                      /\ records[i].entry.name = NameOf(f)
                      /\ Len(Files[f].clusters) <= MaxClusters
                           /\ ToSet(Files[f].clusters) \cap unread = {}
                           => ClustersOf(records[i].runs) = Files[f].clusters
                      /\ (\A d \in LiveDirs : ~Glued(d)) =>
                           \A j \in InTree : records[j].entry.file = f => j = i
  BY DEF LiveListed
<1>1. MaxDepth + 1 \in 0..(MaxDepth + 1)
  BY FatTreeAssumption
<1>2. f \in Live /\ \E i \in 1..Len(records) : Stands(i, f)
  BY <1>1, TreeReaches
<1>3. PICK i \in 1..Len(records) : Stands(i, f)
  BY <1>2
<1>4. /\ i \in InTree /\ i \in 2..Len(records) /\ records[i].entry.file = f
      /\ records[records[i].parent].entry.file = Home(f) /\ records[i].entry.name = NameOf(f)
  BY <1>3 DEF Stands
<1>5. Len(Files[f].clusters) <= MaxClusters /\ ToSet(Files[f].clusters) \cap unread = {}
        => ClustersOf(records[i].runs) = Files[f].clusters
  BY <1>2, <1>4 DEF CompleteInv, RunsRight, Built
<1>6. ASSUME \A d \in LiveDirs : ~Glued(d), NEW j \in InTree, records[j].entry.file = f
      PROVE  j = i
  <2>1. records \in Seq(RecordType) /\ Shaped(records, stack) /\ Fits(records, stack)
    BY <1>6 DEF TreeTyped, SoundInv, Built, Unglued
  <2>2. Once(records, stack)
    BY <1>6 DEF UniqueInv, Built, Unglued
  <2> QED BY <1>4, <1>6, <2>1, <2>2, TreeOnce
<1> QED BY <1>4, <1>5, <1>6

\* Every file in use whose way was read is in the tree, in its place, whole and once.
THEOREM FatTreeLiveListed == TreeSpec => []LiveListed
<1> DEFINE I == VolumeInv /\ TreeTyped /\ LinkInv /\ SoundInv /\ CompleteInv /\ UniqueInv
<1>1. TreeInit => I
  BY NewVolume, TreeTypedInit, LinkInit, SoundInit, CompleteInit, UniqueInit
<1>2. I /\ [TreeNext]_tree_vars => I'
  BY VolumeStep, TreeTypedStep, LinkStep, SoundStep, CompleteStep, UniqueStep
<1>3. I => LiveListed
  BY CompleteMeansLiveListed
<1> HIDE DEF I
<1> QED BY <1>1, <1>2, <1>3, PTL DEF TreeSpec
=============================================================================
