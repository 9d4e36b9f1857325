---------------------------- MODULE SessionProofs ----------------------------
(***************************************************************************)
(* As long as --image and --mapfile name one pair, no sequence of commands *)
(* separates a mapfile from its image: for any drive and any directory,    *)
(* and for any command lines, which CommandLine shows to be no more than   *)
(* the commands of Session.  And a line with a device and no command       *)
(* starts the workflow on the device.                                      *)
(***************************************************************************)
EXTENDS CommandLine, SequenceTheorems, WellFoundedInduction, TLAPS

\* A command that is given a pair, or nothing, works on a pair.
LEMMA LoadPairs ==
  ASSUME IInv, PairedOptions, NEW o \in Overrides, Known(o)
  PROVE  Load(o).image = Load(o).map /\ Load(o).image \in Pairs
BY SessionAssumption DEF IInv, PairedOptions, Load, Known

\* A pass on a pair keeps the truth of the mapfiles.
LEMMA RescueKeepsTruth ==
  ASSUME IInv, NEW p \in Pairs, NEW domain \in SUBSET Sectors, Rescue(p, p, domain)
  PROVE  /\ data' \in [Pairs -> SUBSET Sectors] /\ claims' \in [Pairs -> SUBSET Sectors]
         /\ \A q \in Pairs \ {p} : claims'[q] = claims[q]
         /\ SourceOfTruth'
<1>1. PICK got \in SUBSET (domain \ claims[p]) :
         /\ data' = [data EXCEPT ![p] = @ \cup got]
         /\ claims' = [claims EXCEPT ![p] = @ \cup got]
  BY DEF Rescue
<1>2. data \in [Pairs -> SUBSET Sectors] /\ claims \in [Pairs -> SUBSET Sectors]
  BY DEF IInv, TypeOK
<1>3. /\ data' \in [Pairs -> SUBSET Sectors] /\ claims' \in [Pairs -> SUBSET Sectors]
      /\ \A q \in Pairs \ {p} : claims'[q] = claims[q]
  BY <1>1, <1>2
<1>4. \A q \in Pairs : claims'[q] \subseteq data'[q]
  BY <1>1, <1>2 DEF IInv, SourceOfTruth
<1> QED BY <1>3, <1>4 DEF SourceOfTruth

\* An extraction on a pair reports what its image has.
LEMMA ReportIsTrue ==
  ASSUME NEW p \in Pairs, NEW had \in SUBSET Sectors, Report(p, p, had),
         data' \in [Pairs -> SUBSET Sectors], had \subseteq data'[p]
  PROVE  reported' \subseteq Files /\ copied' \subseteq Sectors /\ ReportTrue'
BY DEF Report, ReportTrue

\* The invariant of the working directory.
THEOREM SessionInvariant == ASSUME PairedOptions PROVE Spec => []IInv
<1>1. Init => IInv
  <2> SUFFICES ASSUME Init PROVE IInv
    OBVIOUS
  <2>1. Own \in Pairs
    BY DEF Pairs
  <2>2. TypeOK
    BY <2>1 DEF Init, TypeOK, None, State, Pairs
  <2> QED BY <2>2 DEF Init, IInv, SourceOfTruth, ReportTrue, None
<1>2. IInv /\ [Next]_vars => IInv'
  <2> SUFFICES ASSUME IInv, [Next]_vars PROVE IInv'
    OBVIOUS
  <2>0. Own \in Pairs /\ {"meta"} \in SUBSET Sectors /\ Files \in SUBSET Sectors /\ TypeOK
    BY DEF Pairs, Sectors, IInv
  <2>1. ASSUME NEW c \in BOOLEAN, Bootstrap(c) PROVE IInv'
    <3>1. /\ data' \in [Pairs -> SUBSET Sectors] /\ claims' \in [Pairs -> SUBSET Sectors]
          /\ \A q \in Pairs \ {Own} : claims'[q] = claims[q]
          /\ SourceOfTruth'
      BY <2>0, <2>1, RescueKeepsTruth DEF Bootstrap
    <3>2. /\ maps' = maps \cup {Own} /\ reported' = reported /\ copied' = copied
          /\ state' = [kind |-> "ok", image |-> Own, map |-> Own, complete |-> c]
      BY <2>1 DEF Bootstrap, Reported
    <3>3. TypeOK'
      BY <2>0, <3>1, <3>2 DEF TypeOK, State
    <3> QED BY <3>1, <3>2, <3>3 DEF IInv, ReportTrue
  <2>2. CASE BootstrapDies
    <3>1. /\ data' \in [Pairs -> SUBSET Sectors] /\ claims' \in [Pairs -> SUBSET Sectors]
          /\ \A q \in Pairs \ {Own} : claims'[q] = claims[q]
          /\ SourceOfTruth'
      BY <2>0, <2>2, RescueKeepsTruth DEF BootstrapDies
    <3>2. /\ maps' = maps \cup {Own} /\ reported' = reported /\ copied' = copied
          /\ state' = state \/ state' = Torn
      BY <2>2 DEF BootstrapDies, Reported
    <3>3. TypeOK' /\ state'.image = state'.map
      BY <2>0, <3>1, <3>2 DEF IInv, TypeOK, State, Torn, None
    <3> QED BY <3>1, <3>2, <3>3 DEF IInv, ReportTrue
  <2>3. CASE InteractiveDeletes
    BY <2>3 DEF InteractiveDeletes, CleanUp, IInv, TypeOK, State, None, SourceOfTruth,
                ReportTrue
  <2>4. ASSUME NEW o \in Overrides, Known(o), Scan(o) PROVE IInv'
    <3>1. /\ data' = data /\ claims' = claims /\ maps' = maps
          /\ reported' = reported /\ copied' = copied
          /\ state' = [kind |-> "ok", image |-> Load(o).image, map |-> Load(o).map,
                       complete |-> state.complete]
      BY <2>4 DEF Scan, Untouched, Reported
    <3>2. TypeOK'
      BY <2>0, <2>4, <3>1 DEF TypeOK, State, Known
    <3> QED BY <2>4, <3>1, <3>2, LoadPairs DEF IInv, SourceOfTruth, ReportTrue
  <2>5. ASSUME NEW o \in Overrides, Known(o), Recover(o) PROVE IInv'
    <3> DEFINE p == Load(o).image
    <3>1. p \in Pairs /\ Load(o).map = p
      BY <2>5, LoadPairs
    <3>2. /\ p \in maps /\ maps' = maps /\ state' = state
          /\ Rescue(p, p, Files) /\ Report(p, p, claims'[p])
      BY <2>5, <3>1 DEF Recover
    <3> HIDE DEF p
    <3>3. /\ data' \in [Pairs -> SUBSET Sectors] /\ claims' \in [Pairs -> SUBSET Sectors]
          /\ \A q \in Pairs \ {p} : claims'[q] = claims[q]
          /\ SourceOfTruth'
      BY <2>0, <3>1, <3>2, RescueKeepsTruth
    <3>4. claims'[p] \in SUBSET Sectors /\ claims'[p] \subseteq data'[p]
      BY <3>1, <3>3 DEF SourceOfTruth
    <3>5. reported' \subseteq Files /\ copied' \subseteq Sectors /\ ReportTrue'
      BY <3>1, <3>2, <3>3, <3>4, ReportIsTrue
    <3>6. TypeOK'
      BY <2>0, <3>1, <3>2, <3>3, <3>5 DEF TypeOK
    <3> QED BY <3>2, <3>3, <3>5, <3>6 DEF IInv
  <2>6. ASSUME NEW o \in Overrides, Known(o), Extract(o) PROVE IInv'
    <3> DEFINE p == Load(o).image
    <3>1. p \in Pairs /\ Load(o).map = p
      BY <2>6, LoadPairs
    <3>2. /\ data' = data /\ claims' = claims /\ maps' = maps /\ state' = state
          /\ Report(p, p, claims[p])
      BY <2>6, <3>1 DEF Extract, Untouched
    <3> HIDE DEF p
    <3>3. claims[p] \in SUBSET Sectors /\ claims[p] \subseteq data'[p]
      BY <2>0, <3>1, <3>2 DEF IInv, TypeOK, SourceOfTruth
    <3>4. reported' \subseteq Files /\ copied' \subseteq Sectors /\ ReportTrue'
      BY <2>0, <3>1, <3>2, <3>3, ReportIsTrue DEF TypeOK
    <3>5. TypeOK'
      BY <2>0, <3>2, <3>4 DEF TypeOK
    <3> QED BY <3>2, <3>4, <3>5 DEF IInv, SourceOfTruth
  <2>7. CASE UNCHANGED vars
    BY <2>7 DEF vars, IInv, TypeOK, SourceOfTruth, ReportTrue
  <2> QED BY <2>1, <2>2, <2>3, <2>4, <2>5, <2>6, <2>7 DEF Next
<1> QED BY <1>1, <1>2, PTL DEF Spec

\* A mapfile claims only what its image has, whatever commands came before.
THEOREM SessionSourceOfTruth == ASSUME PairedOptions PROVE Spec => []SourceOfTruth
<1>1. IInv => SourceOfTruth
  BY DEF IInv
<1> QED BY <1>1, SessionInvariant, PTL

\* A file that is reported complete was copied from sectors that were read.
THEOREM SessionReportTrue == ASSUME PairedOptions PROVE Spec => []ReportTrue
<1>1. IInv => ReportTrue
  BY DEF IInv
<1> QED BY <1>1, SessionInvariant, PTL
-----------------------------------------------------------------------------
\* A set of numbers that is not empty has a least one.
LEMMA LeastNumber ==
  ASSUME NEW T \in SUBSET Nat, T # {}
  PROVE  \E x \in T : \A y \in T : x <= y
<1>1. \E x \in T : \A y \in T : ~(<<y, x>> \in OpToRel(<, Nat))
  <2> HIDE DEF OpToRel
  <2> QED BY NatLessThanWellFounded, WFMin
<1>2. PICK x \in T : \A y \in T : ~(<<y, x>> \in OpToRel(<, Nat))
  BY <1>1
<1>3. OpToRel(<, Nat) = {ss \in Nat \X Nat : ss[1] < ss[2]}
  BY DEF OpToRel
<1>4. ASSUME NEW y \in T, ~(x <= y) PROVE FALSE
  <2>1. y \in Nat /\ x \in Nat /\ y < x
    BY <1>4
  <2>2. <<y, x>> \in {ss \in Nat \X Nat : ss[1] < ss[2]}
    BY <2>1
  <2> QED BY <1>2, <1>3, <2>2
<1> QED BY <1>2, <1>4

\* What holds of 0 and, with a number, of the next, holds of all.
LEMMA Induction ==
  ASSUME NEW S \in SUBSET Nat, 0 \in S, \A n \in S : n + 1 \in S
  PROVE  S = Nat
<1> SUFFICES ASSUME Nat \ S # {} PROVE FALSE
  OBVIOUS
<1>1. PICK x \in Nat \ S : \A y \in Nat \ S : x <= y
  BY LeastNumber
<1>2. x # 0 /\ x - 1 \in Nat /\ ~(x <= x - 1)
  BY <1>1
<1>3. x - 1 \in S
  BY <1>1, <1>2
<1>4. (x - 1) + 1 \in S
  BY <1>3
<1> QED BY <1>1, <1>4

\* The words are read from the first to the last.
LEMMA ReadFacts ==
  ASSUME NEW words \in Seq(STRING)
  PROVE  /\ Read(words)[0] = Nothing
         /\ \A n \in 1..Len(words) : Read(words)[n] = ReadWord(Read(words)[n - 1], words[n])
<1> DEFINE L == Len(words)
           Is(g, m) == g = [n \in 0..m |-> IF n = 0 THEN Nothing ELSE ReadWord(g[n - 1], words[n])]
           S == {m \in Nat : \E g : Is(g, m)}
<1>1. 0 \in S
  <2>1. Is([n \in 0..0 |-> Nothing], 0)
    OBVIOUS
  <2> QED BY <2>1
<1>2. ASSUME NEW m \in S PROVE m + 1 \in S
  <2>1. m \in Nat
    OBVIOUS
  <2>2. PICK g : Is(g, m)
    OBVIOUS
  <2> DEFINE h == [n \in 0..(m + 1) |-> IF n <= m THEN g[n] ELSE ReadWord(g[m], words[n])]
  <2>3. /\ \A n \in 0..m : g[n] = IF n = 0 THEN Nothing ELSE ReadWord(g[n - 1], words[n])
    BY <2>2
  <2>4. ASSUME NEW n \in 0..(m + 1)
        PROVE  h[n] = IF n = 0 THEN Nothing ELSE ReadWord(h[n - 1], words[n])
    <3>1. CASE n = 0
      BY <2>1, <2>3, <3>1
    <3>2. CASE n \in 1..m
      <4>1. h[n] = g[n] /\ h[n - 1] = g[n - 1]
        BY <2>1, <3>2
      <4> QED BY <4>1, <2>3, <2>1, <3>2
    <3>3. CASE n = m + 1
      <4>1. h[n] = ReadWord(g[m], words[n]) /\ h[n - 1] = g[m] /\ n # 0
        BY <2>1, <3>3
      <4> QED BY <4>1
    <3> QED BY <2>1, <3>1, <3>2, <3>3
  <2>5. Is(h, m + 1)
    BY <2>4
  <2> HIDE DEF h, Is
  <2> QED BY <2>1, <2>5
<1>3. S = Nat
  <2> HIDE DEF Is
  <2> QED BY <1>1, <1>2, Induction
<1>4. L \in Nat
  OBVIOUS
<1>5. \E g : Is(g, L)
  <2> HIDE DEF Is, L
  <2> QED BY <1>3, <1>4
<1>6. Read(words) = CHOOSE g : Is(g, L)
  BY DEF Read
<1>7. Is(Read(words), L)
  <2> HIDE DEF Is, L
  <2> QED BY <1>5, <1>6
<1> QED BY <1>4, <1>7

\* Taking out the first device takes no option and no value of an option.
LEMMA RestGives ==
  ASSUME NEW words \in Seq(STRING), NEW o \in Options, NEW v, Gives(words, o, v)
  PROVE  Rest(words) \in Seq(STRING) /\ Gives(Rest(words), o, v)
<1>1. CASE DevicePaths(words) = {}
  BY <1>1 DEF Rest
<1>2. CASE DevicePaths(words) # {}
  <2> DEFINE i == FirstDevice(words)
             rest == Rest(words)
  <2>1. /\ DevicePaths(words) \subseteq 1..Len(words) /\ DevicePaths(words) \in SUBSET Nat
        /\ Len(words) \in Nat /\ DOMAIN words = 1..Len(words)
    BY DEF DevicePaths
  <2>2. i \in DevicePaths(words)
    <3>1. \E k \in DevicePaths(words) : \A j \in DevicePaths(words) : k <= j
      BY <1>2, <2>1, LeastNumber
    <3> QED BY <3>1 DEF FirstDevice
  <2>3. i \in 1..Len(words) /\ words[i] \in Devices
    BY <2>1, <2>2 DEF DevicePaths, IsDevice
  <2>4. rest = SubSeq(words, 1, i - 1) \o SubSeq(words, i + 1, Len(words))
    BY <1>2 DEF Rest, RemoveAt
  <2> HIDE DEF i, rest
  <2>5. /\ rest \in Seq(STRING) /\ Len(rest) = Len(words) - 1 /\ DOMAIN rest = 1..(Len(words) - 1)
        /\ \A k \in 1..(Len(words) - 1) : rest[k] = words[IF k < i THEN k ELSE k + 1]
    <3> DEFINE left == SubSeq(words, 1, i - 1)
               right == SubSeq(words, i + 1, Len(words))
    <3>1. /\ left \in Seq(STRING) /\ Len(left) = i - 1
          /\ \A k \in 1..(i - 1) : left[k] = words[k]
      BY <2>1, <2>3
    <3>2. /\ right \in Seq(STRING) /\ Len(right) = Len(words) - i
          /\ \A k \in 1..(Len(words) - i) : right[k] = words[k + i]
      <4>1. /\ i + 1 \in Int /\ Len(words) \in Int
            /\ \A k \in (i + 1)..Len(words) : words[k] \in STRING
        BY <2>1, <2>3
      <4>2. /\ right \in Seq(STRING)
            /\ Len(right) = IF i + 1 <= Len(words) THEN Len(words) - (i + 1) + 1 ELSE 0
            /\ \A k \in 1..(Len(words) - (i + 1) + 1) : right[k] = words[(i + 1) + k - 1]
        BY <4>1, SubSeqProperties
      <4> HIDE DEF right
      <4>3. Len(right) = Len(words) - i
        <5>1. i \in Int /\ Len(words) \in Int /\ i <= Len(words)
          BY <2>1, <2>3
        <5>2. (IF i + 1 <= Len(words) THEN Len(words) - (i + 1) + 1 ELSE 0) = Len(words) - i
          BY <5>1
        <5> QED BY <4>2, <5>2
      <4>4. ASSUME NEW k \in 1..(Len(words) - i) PROVE right[k] = words[k + i]
        <5>1. k \in 1..(Len(words) - (i + 1) + 1) /\ (i + 1) + k - 1 = k + i
          BY <2>1, <2>3
        <5> QED BY <4>2, <5>1
      <4> QED BY <4>2, <4>3, <4>4
    <3> HIDE DEF left, right
    <3>3. /\ left \o right \in Seq(STRING) /\ Len(left \o right) = Len(left) + Len(right)
          /\ \A k \in 1..Len(left \o right) :
               (left \o right)[k] = IF k <= Len(left) THEN left[k] ELSE right[k - Len(left)]
      <4>1. left \in Seq(STRING) /\ right \in Seq(STRING)
        BY <3>1, <3>2
      <4> QED BY ONLY <4>1, ConcatProperties
    <3>4. rest = left \o right
      BY <2>4 DEF left, right
    <3>5. Len(rest) = Len(words) - 1 /\ DOMAIN rest = 1..(Len(words) - 1)
      <4>1. rest \in Seq(STRING) /\ Len(rest) = Len(left) + Len(right)
        BY <3>3, <3>4
      <4>2. Len(rest) = Len(words) - 1
        BY <2>1, <2>3, <3>1, <3>2, <4>1
      <4> QED BY <4>1, <4>2
    <3>6. ASSUME NEW k \in 1..(Len(words) - 1)
          PROVE  rest[k] = words[IF k < i THEN k ELSE k + 1]
      <4>1. rest[k] = IF k <= i - 1 THEN left[k] ELSE right[k - (i - 1)]
        BY <3>1, <3>3, <3>4, <3>5
      <4>2. CASE k < i
        BY <2>1, <2>3, <3>1, <4>1, <4>2
      <4>3. CASE ~(k < i)
        <5>1. k - (i - 1) \in 1..(Len(words) - i) /\ (k - (i - 1)) + i = k + 1 /\ ~(k <= i - 1)
          BY <2>1, <2>3, <4>3
        <5>2. right[k - (i - 1)] = words[(k - (i - 1)) + i]
          BY <3>2, <5>1
        <5> QED BY <4>1, <4>3, <5>1, <5>2
      <4> QED BY <4>2, <4>3
    <3> QED BY <3>3, <3>4, <3>5, <3>6
  <2>6. Devices \cap Options = {}
    BY CommandLineAssumption
  <2>7. ASSUME NEW k \in DOMAIN words, words[k] = o
        PROVE  /\ k # i /\ k + 1 # i /\ k < Len(words)
               /\ \E j \in DOMAIN rest : rest[j] = o
    <3>1. k < Len(words) /\ words[k + 1] = v /\ v \notin Devices /\ k # i
      BY <2>3, <2>6, <2>7 DEF Gives
    <3>2. k + 1 # i
      BY <2>3, <3>1
    <3>3. CASE k < i
      <4>1. k \in 1..(Len(words) - 1)
        BY <2>1, <3>1
      <4>2. k \in DOMAIN rest /\ rest[k] = o
        BY <2>5, <2>7, <3>3, <4>1
      <4> QED BY <3>1, <3>2, <4>2
    <3>4. CASE k > i
      <4>1. k - 1 \in 1..(Len(words) - 1) /\ ~(k - 1 < i) /\ (k - 1) + 1 = k
        BY <2>1, <2>3, <3>4
      <4>2. k - 1 \in DOMAIN rest /\ rest[k - 1] = o
        BY <2>5, <2>7, <4>1
      <4> QED BY <3>1, <3>2, <4>2
    <3> QED BY <2>1, <2>3, <3>1, <3>3, <3>4
  <2>8. ASSUME NEW k \in DOMAIN rest, rest[k] = o
        PROVE  /\ k < Len(rest) /\ rest[k + 1] = v /\ v \notin Options \cup Devices
               /\ \E j \in DOMAIN words : words[j] = o
    <3> DEFINE j == IF k < i THEN k ELSE k + 1
    <3>1. j \in DOMAIN words /\ words[j] = o
      BY <2>1, <2>5, <2>8
    <3>2. j < Len(words) /\ words[j + 1] = v /\ v \notin Options \cup Devices /\ j + 1 # i
      BY <2>7, <3>1 DEF Gives
    <3>3. k + 1 \in 1..(Len(words) - 1) /\ (IF k + 1 < i THEN k + 1 ELSE (k + 1) + 1) = j + 1
      BY <2>1, <2>3, <2>5, <3>1, <3>2
    <3>4. rest[k + 1] = v /\ k < Len(rest)
      BY <2>1, <2>5, <3>2, <3>3
    <3> QED BY <3>1, <3>2, <3>4
  <2> QED BY <2>5, <2>7, <2>8 DEF Gives, rest
<1> QED BY <1>1, <1>2

\* The value that is read wherever the option stands is the value that is given.
LEMMA LastValueIsGiven ==
  ASSUME NEW words \in Seq(STRING), NEW o \in Options, NEW v, Gives(words, o, v)
  PROVE  LastValue(words, o) = v
<1> DEFINE at == {k \in 2..Len(words) : words[k - 1] = o /\ words[k] \notin Options}
<1>0. Len(words) \in Nat /\ DOMAIN words = 1..Len(words)
  OBVIOUS
<1>1. ASSUME NEW k \in at PROVE words[k] = v
  <2>1. k - 1 \in DOMAIN words /\ words[k - 1] = o /\ (k - 1) + 1 = k
    BY <1>0
  <2> QED BY <2>1 DEF Gives
<1>2. CASE v = Unset
  <2>1. \A k \in 2..Len(words) : k - 1 \in DOMAIN words
    BY <1>0
  <2>2. at = {}
    BY <1>2, <2>1 DEF Gives
  <2> QED BY <1>2, <2>2 DEF LastValue
<1>3. CASE v # Unset
  <2>1. PICK k \in DOMAIN words : words[k] = o
    BY <1>3 DEF Gives
  <2>2. k < Len(words) /\ words[k + 1] = v /\ v \notin Options
    BY <2>1 DEF Gives
  <2>3. k + 1 \in at
    <3>1. k + 1 \in 2..Len(words) /\ (k + 1) - 1 = k
      BY <1>0, <2>2
    <3> QED BY <2>1, <2>2, <3>1
  <2> DEFINE above == {Len(words) - j : j \in at}
  <2>4. above \in SUBSET Nat /\ above # {}
    BY <1>0, <2>3
  <2>5. PICK x \in above : \A y \in above : x <= y
    <3> HIDE DEF above
    <3> QED BY <2>4, LeastNumber
  <2>6. PICK m \in at : x = Len(words) - m
    BY <2>5
  <2>7. \A j \in at : j <= m
    <3>1. ASSUME NEW j \in at PROVE j <= m
      <4>1. Len(words) - j \in above
        OBVIOUS
      <4>2. x <= Len(words) - j
        BY <2>5, <4>1
      <4> QED BY <1>0, <2>6, <4>2
    <3> QED BY <3>1
  <2> HIDE DEF at
  <2>8. (CHOOSE p \in at : \A j \in at : j <= p) \in at
    BY <2>6, <2>7
  <2>9. LastValue(words, o) = words[CHOOSE p \in at : \A j \in at : j <= p]
    BY <2>3 DEF LastValue, at
  <2> QED BY <1>1, <2>8, <2>9
<1> QED BY <1>2, <1>3

\* The words, and what has no value.
Words == STRING \cup {Unset}

\* What the parser may have read.
Parser == [ok : BOOLEAN, command : Words, wants : Options \cup {Unset}, value : [Options -> Words]]

\* What it has read before it wants, or has, a value of o.
Without(o) == {a \in Parser : a.wants # o /\ a.value[o] = Unset}

\* An option is not nothing.
LEMMA OptionsAreSet == Unset \notin Options
BY DEF Options, Shared, Unset

\* The parser starts with nothing.
LEMMA NothingFacts ==
  /\ Nothing \in Parser
  /\ Nothing.wants = Unset
  /\ \A o \in Options : Nothing.value[o] = Unset
BY DEF Nothing, Parser, Words

\* A word leaves the parser with an option, or nothing, that wants a value.
LEMMA ReadWordTyped ==
  ASSUME NEW a \in Parser, NEW w \in Words
  PROVE  ReadWord(a, w) \in Parser
<1>1. Wrong(a) \in Parser
  BY DEF Parser, Wrong
<1>2. ASSUME NEW x \in Options PROVE Value(a, x, w) \in Parser
  BY DEF Parser, Value
<1>3. ASSUME w \in Options PROVE [a EXCEPT !.wants = w] \in Parser
  BY <1>3 DEF Parser
<1>4. [a EXCEPT !.command = w, !.value = Nothing.value] \in Parser
  BY NothingFacts DEF Parser
<1>5. ReadPlain(a, w) \in Parser
  <2>1. "--device" \in Options
    BY DEF Options
  <2>2. \/ ReadPlain(a, w) = [a EXCEPT !.command = w, !.value = Nothing.value]
        \/ ReadPlain(a, w) = Value(a, "--device", w)
        \/ ReadPlain(a, w) = Wrong(a)
    BY DEF ReadPlain
  <2> QED BY <1>1, <1>2, <1>4, <2>1, <2>2
<1>6. \/ ReadWord(a, w) = a
      \/ ReadWord(a, w) = Wrong(a)
      \/ a.wants # Unset /\ ReadWord(a, w) = Value(a, a.wants, w)
      \/ w \in Options /\ ReadWord(a, w) = [a EXCEPT !.wants = w]
      \/ ReadWord(a, w) = ReadPlain(a, w)
  BY DEF ReadWord
<1>7. a.wants # Unset => a.wants \in Options
  BY DEF Parser
<1> QED BY <1>1, <1>2, <1>3, <1>5, <1>6, <1>7

\* A word that is not o gives o no value.
LEMMA ReadWordWithout ==
  ASSUME NEW o \in Shared, NEW a \in Without(o), NEW w \in Words, w # o
  PROVE  ReadWord(a, w) \in Without(o)
<1> DEFINE b == ReadWord(a, w)
<1>0. a \in Parser /\ a.wants # o /\ a.value[o] = Unset /\ o \in Options /\ o # Unset
  BY OptionsAreSet DEF Without, Options
<1>1. b \in Parser
  BY <1>0, ReadWordTyped
<1> HIDE DEF b
<1>2. ASSUME b = a \/ b = Wrong(a) PROVE b.wants # o /\ b.value[o] = Unset
  BY <1>0, <1>2 DEF Wrong, Parser
<1>3. ASSUME NEW x \in Options, x # o, b = Value(a, x, w) PROVE b.wants # o /\ b.value[o] = Unset
  BY <1>0, <1>3 DEF Value, Parser
<1>4. ASSUME w \in Options, b = [a EXCEPT !.wants = w] PROVE b.wants # o /\ b.value[o] = Unset
  BY <1>0, <1>4 DEF Parser
<1>5. ASSUME b = [a EXCEPT !.command = w, !.value = Nothing.value]
      PROVE  b.wants # o /\ b.value[o] = Unset
  BY <1>0, <1>5, NothingFacts DEF Parser
<1>6. \/ b = a
      \/ b = Wrong(a)
      \/ a.wants # Unset /\ b = Value(a, a.wants, w)
      \/ w \in Options /\ b = [a EXCEPT !.wants = w]
      \/ b = ReadPlain(a, w)
  BY DEF ReadWord, b
<1>7. \/ ReadPlain(a, w) = [a EXCEPT !.command = w, !.value = Nothing.value]
      \/ ReadPlain(a, w) = Value(a, "--device", w)
      \/ ReadPlain(a, w) = Wrong(a)
  BY DEF ReadPlain
<1>8. /\ "--device" \in Options /\ "--device" # o
      /\ a.wants # Unset => a.wants \in Options
  BY <1>0 DEF Options, Shared, Parser
<1>9. b.wants # o /\ b.value[o] = Unset
  BY <1>0, <1>2, <1>3, <1>4, <1>5, <1>6, <1>7, <1>8
<1> QED BY <1>1, <1>9 DEF Without, b

\* An option that is not given has no value when the words are read.
LEMMA NothingGiven ==
  ASSUME NEW words \in Seq(STRING), NEW o \in Shared, Gives(words, o, Unset)
  PROVE  Parsed(words).value[o] = Unset
<1> DEFINE S == {n \in Nat : n <= Len(words) => Read(words)[n] \in Without(o)}
<1>0. Len(words) \in Nat /\ DOMAIN words = 1..Len(words)
  OBVIOUS
<1>1. 0 \in S
  <2>1. o \in Options /\ Nothing.wants # o
    BY NothingFacts, OptionsAreSet DEF Options
  <2> QED BY <2>1, NothingFacts, ReadFacts DEF Without
<1>2. ASSUME NEW n \in S PROVE n + 1 \in S
  <2>1. CASE n + 1 <= Len(words)
    <3>1. n + 1 \in 1..Len(words) /\ n <= Len(words) /\ (n + 1) - 1 = n
      BY <1>0, <2>1
    <3>2. words[n + 1] # o /\ words[n + 1] \in Words
      <4>1. ~(\E k \in DOMAIN words : words[k] = o)
        BY DEF Gives
      <4>2. n + 1 \in DOMAIN words
        BY <1>0, <3>1
      <4> QED BY <4>1, <4>2 DEF Words
    <3>3. Read(words)[n + 1] = ReadWord(Read(words)[n], words[n + 1])
      BY <3>1, ReadFacts
    <3>4. Read(words)[n + 1] \in Without(o)
      BY <3>1, <3>2, <3>3, ReadWordWithout
    <3> QED BY <3>4
  <2> QED BY <1>0, <2>1
<1>3. S = Nat
  <2> HIDE DEF S
  <2>1. S \in SUBSET Nat
    BY DEF S
  <2> QED BY <1>1, <1>2, <2>1, Induction
<1>4. Read(words)[Len(words)] \in Without(o)
  BY <1>0, <1>3
<1>5. ASSUME NEW a \in Without(o) PROVE a.value[o] = Unset /\ Wrong(a).value[o] = Unset
  BY DEF Without, Wrong, Parser
<1> QED BY <1>4, <1>5 DEF Parsed

\* The options of a line that is well typed are overrides of Session, wherever
\* the device and the options stand.
LEMMA LineGivesOverrides ==
  ASSUME NEW words \in Lines
  PROVE  Overriding(Args(words)) \in Overrides
<1>1. words \in Seq(STRING)
  BY CommandLineAssumption
<1>2. PICK over \in Overrides :
         Gives(words, "--image", over.image) /\ Gives(words, "--mapfile", over.map)
  BY CommandLineAssumption
<1>3. ASSUME NEW o \in Shared, NEW v, Gives(words, o, v)
      PROVE  Args(words).value[o] = v
  <2>1. o \in Options
    BY DEF Options
  <2>2. Rest(words) \in Seq(STRING) /\ Gives(Rest(words), o, v)
    BY <1>1, <1>3, <2>1, RestGives
  <2>3. LastValue(Rest(words), o) = v
    BY <2>1, <2>2, LastValueIsGiven
  <2>4. v = Unset => Parsed(Rest(words)).value[o] = Unset
    BY <2>2, NothingGiven
  <2>5. SharedValue(Rest(words), o) = v
    BY <2>3, <2>4 DEF SharedValue
  <2> QED BY <2>1, <2>5 DEF Args
<1>4. Overriding(Args(words)) = [image |-> over.image, map |-> over.map]
  BY <1>2, <1>3 DEF Overriding, Shared
<1>5. over = [image |-> over.image, map |-> over.map]
  BY SessionAssumption
<1> QED BY <1>4, <1>5

-----------------------------------------------------------------------------
\* The words of a command that is to be run were typed by a user.
TypedInv == waiting \/ typed \in Lines

\* What main runs was typed, and is run once.
LEMMA CommandTyped == CommandSpec => []TypedInv
<1>1. CommandInit => TypedInv
  BY DEF CommandInit, TypedInv
<1>2. TypedInv /\ [CommandNext]_command_vars => TypedInv'
  BY DEF TypedInv, CommandNext, Type, Run, ChangesNothing, command_vars
<1> QED BY <1>1, <1>2, PTL DEF CommandSpec

\* A step of main is a step of Session, with the options of the line, or none.
LEMMA CommandStep == TypedInv /\ [CommandNext]_command_vars => [Next]_vars
<1> SUFFICES ASSUME TypedInv, [CommandNext]_command_vars PROVE [Next]_vars
  OBVIOUS
<1>1. CASE Type \/ ChangesNothing \/ UNCHANGED command_vars
  BY <1>1 DEF Type, ChangesNothing, command_vars
<1>2. CASE Run
  <2> DEFINE o == Overriding(Args(typed))
  <2>1. ~waiting /\ Args(typed).ok
    BY <1>2 DEF Run
  <2>2. o \in Overrides /\ NoOptions \in Overrides
    BY <2>1, CommandLineAssumption, LineGivesOverrides DEF TypedInv
  <2> HIDE DEF o
  <2>3. CASE Interactive
    BY <2>2, <2>3 DEF Interactive, Next
  <2>4. CASE (\E c \in BOOLEAN : Bootstrap(c)) \/ BootstrapDies
    BY <2>4 DEF Next
  <2>5. CASE WithOptions(o)
    BY <2>2, <2>5 DEF WithOptions, Next
  <2> QED BY <1>2, <2>3, <2>4, <2>5 DEF Run, o
<1> QED BY <1>1, <1>2 DEF CommandNext

\* Whatever is typed, the commands do no more than Session says (main: a
\* device taken out of the words, two parses, one command).
THEOREM CommandImplementsSession == CommandSpec => ImplementsSession
<1>1. CommandInit => Init
  BY DEF CommandInit
<1> QED BY <1>1, CommandStep, CommandTyped, PTL DEF CommandSpec, ImplementsSession, Spec

\* Hence a mapfile claims only what its image has, whatever lines were typed.
THEOREM CommandSourceOfTruth == ASSUME PairedOptions PROVE CommandSpec => []SourceOfTruth
<1>1. ImplementsSession => []SourceOfTruth
  BY SessionSourceOfTruth DEF ImplementsSession
<1> QED BY <1>1, CommandImplementsSession, PTL

\* And what the last report calls complete was copied from what was read.
THEOREM CommandReportTrue == ASSUME PairedOptions PROVE CommandSpec => []ReportTrue
<1>1. ImplementsSession => []ReportTrue
  BY SessionReportTrue DEF ImplementsSession
<1> QED BY <1>1, CommandImplementsSession, PTL
-----------------------------------------------------------------------------
\* As long as there is no command, a word is an option or the value of one.
LEMMA ReadWordBefore ==
  ASSUME NEW a \in Parser, NEW w \in Words,
         ReadWord(a, w).ok, ReadWord(a, w).command = Unset
  PROVE  /\ a.ok /\ a.command = Unset
         /\ \/ a.wants = Unset /\ w \in Options /\ ReadWord(a, w) = [a EXCEPT !.wants = w]
            \/ a.wants # Unset /\ w \notin Options /\ ReadWord(a, w) = Value(a, a.wants, w)
<1>1. ~Wrong(a).ok
  BY DEF Wrong, Parser
<1>2. a.ok
  <2>1. CASE ~a.ok
    <3>1. ReadWord(a, w) = a
      BY <2>1 DEF ReadWord
    <3> QED BY <2>1, <3>1
  <2> QED BY <2>1
<1>3. CASE a.wants # Unset
  <2>1. ReadWord(a, w) = IF w \in Options THEN Wrong(a) ELSE Value(a, a.wants, w)
    BY <1>2, <1>3 DEF ReadWord
  <2>2. w \notin Options /\ ReadWord(a, w) = Value(a, a.wants, w)
    BY <1>1, <2>1
  <2>3. a.command = Unset
    BY <2>2 DEF Value, Parser
  <2> QED BY <1>2, <1>3, <2>2, <2>3
<1>4. CASE a.wants = Unset /\ w \in Options
  <2>1. ReadWord(a, w) =
          IF w = "--device" /\ a.command # "recover" THEN Wrong(a) ELSE [a EXCEPT !.wants = w]
    BY <1>2, <1>4 DEF ReadWord
  <2>2. ReadWord(a, w) = [a EXCEPT !.wants = w]
    BY <1>1, <2>1
  <2>3. a.command = Unset
    BY <2>2 DEF Parser
  <2> QED BY <1>2, <1>4, <2>2, <2>3
<1>5. CASE a.wants = Unset /\ w \notin Options
  <2>1. ReadWord(a, w) = ReadPlain(a, w)
    BY <1>2, <1>5 DEF ReadWord
  <2>2. Unset \notin Commands /\ Unset # "bootstrap"
    BY DEF Commands, Unset
  <2>3. CASE a.command = Unset /\ w \in Commands
    <3>1. ReadPlain(a, w) = [a EXCEPT !.command = w, !.value = Nothing.value]
      BY <2>2, <2>3 DEF ReadPlain
    <3>2. ReadWord(a, w).command = w
      BY <2>1, <3>1 DEF Parser
    <3> QED BY <2>2, <2>3, <3>2
  <2>4. CASE a.command = "bootstrap" /\ a.value["--device"] = Unset
    <3>1. ReadPlain(a, w) = Value(a, "--device", w)
      BY <2>2, <2>4 DEF ReadPlain
    <3>2. ReadWord(a, w).command = "bootstrap"
      BY <2>1, <2>4, <3>1 DEF Value, Parser
    <3> QED BY <2>2, <3>2
  <2>5. CASE /\ ~(a.command = Unset /\ w \in Commands)
             /\ ~(a.command = "bootstrap" /\ a.value["--device"] = Unset)
    <3>1. ReadPlain(a, w) = Wrong(a)
      BY <2>5 DEF ReadPlain
    <3> QED BY <1>1, <2>1, <3>1
  <2> QED BY <2>3, <2>4, <2>5
<1> QED BY <1>3, <1>4, <1>5

\* The first n words have been read: if there was no command among them, the
\* value v that stands behind each o is the value of o, or is the next word.
Behind(words, o, v, n) ==
  LET a == Read(words)[n]
  IN  /\ a \in Parser
      /\ a.ok /\ a.command = Unset =>
           /\ a.wants = o => n > 0 /\ words[n] = o
           /\ (\E k \in 1..n : words[k] = o) => a.wants = o \/ a.value[o] = v

\* A word more.
LEMMA BehindNext ==
  ASSUME NEW words \in Seq(STRING), NEW o \in Options, NEW v, Gives(words, o, v),
         NEW n \in Nat, n + 1 <= Len(words), Behind(words, o, v, n)
  PROVE  Behind(words, o, v, n + 1)
<1> DEFINE a == Read(words)[n]
           w == words[n + 1]
           b == Read(words)[n + 1]
<1>0. Len(words) \in Nat /\ DOMAIN words = 1..Len(words) /\ n + 1 \in DOMAIN words
  OBVIOUS
<1>1. w \in Words /\ b = ReadWord(a, w) /\ (n + 1) - 1 = n
  BY <1>0, ReadFacts DEF Words
<1>2. a \in Parser /\ b \in Parser
  BY <1>1, ReadWordTyped DEF Behind
<1>3. ASSUME b.ok, b.command = Unset
      PROVE  /\ b.wants = o => w = o
             /\ (\E k \in 1..(n + 1) : words[k] = o) => b.wants = o \/ b.value[o] = v
  <2>1. /\ a.ok /\ a.command = Unset
        /\ \/ a.wants = Unset /\ w \in Options /\ b = [a EXCEPT !.wants = w]
           \/ a.wants # Unset /\ w \notin Options /\ b = Value(a, a.wants, w)
    BY <1>1, <1>2, <1>3, ReadWordBefore
  <2>2. /\ a.wants = o => n > 0 /\ words[n] = o
        /\ (\E k \in 1..n : words[k] = o) => a.wants = o \/ a.value[o] = v
    BY <2>1 DEF Behind
  <2>3. (\E k \in 1..(n + 1) : words[k] = o) => w = o \/ \E k \in 1..n : words[k] = o
    <3>1. \A k \in 1..(n + 1) : k = n + 1 \/ k \in 1..n
      OBVIOUS
    <3> QED BY <3>1
  <2> HIDE DEF a, b, w
  <2>4. CASE a.wants = Unset /\ w \in Options /\ b = [a EXCEPT !.wants = w]
    <3>1. b.wants = w /\ b.value = a.value
      BY <1>2, <2>4 DEF Parser
    <3> QED BY <2>2, <2>3, <2>4, <3>1, OptionsAreSet
  <2>5. CASE a.wants # Unset /\ w \notin Options /\ b = Value(a, a.wants, w)
    <3>1. b.wants = Unset /\ b.value = [a.value EXCEPT ![a.wants] = w]
      BY <1>2, <2>5 DEF Parser, Value
    <3>2. a.value \in [Options -> Words]
      BY <1>2 DEF Parser
    <3>3. CASE a.wants = o
      <4>1. n \in DOMAIN words /\ words[n] = o
        BY <1>0, <2>2, <3>3
      <4>2. w = v
        BY <4>1 DEF Gives, w
      <4>3. b.value[o] = v
        BY <3>1, <3>2, <3>3, <4>2
      <4> QED BY <3>1, <4>3, OptionsAreSet
    <3>4. CASE a.wants # o
      <4>1. b.value[o] = a.value[o]
        BY <3>1, <3>2, <3>4
      <4>2. w # o
        BY <2>5
      <4> QED BY <2>2, <2>3, <3>1, <3>4, <4>1, <4>2, OptionsAreSet
    <3> QED BY <3>3, <3>4
  <2> QED BY <2>1, <2>4, <2>5
<1> QED BY <1>2, <1>3 DEF Behind

\* Words without a command give an option the value that stands behind it.
LEMMA GivenIsParsed ==
  ASSUME NEW words \in Seq(STRING), NEW o \in Options, NEW v, Gives(words, o, v)
  PROVE  /\ Parsed(words) \in Parser
         /\ Parsed(words).ok /\ Parsed(words).command = Unset /\ v # Unset
              => Parsed(words).value[o] = v
<1> DEFINE S == {n \in Nat : n <= Len(words) => Behind(words, o, v, n)}
           a == Read(words)[Len(words)]
<1>0. Len(words) \in Nat /\ DOMAIN words = 1..Len(words)
  OBVIOUS
<1>1. 0 \in S
  <2>1. Read(words)[0] = Nothing
    BY ReadFacts
  <2>2. Nothing.wants # o /\ Nothing \in Parser
    BY NothingFacts, OptionsAreSet
  <2>3. ~(\E k \in 1..0 : words[k] = o)
    OBVIOUS
  <2>4. Behind(words, o, v, 0)
    BY <2>1, <2>2, <2>3 DEF Behind
  <2> QED BY <2>4
<1>2. ASSUME NEW n \in S PROVE n + 1 \in S
  <2>1. CASE n + 1 <= Len(words)
    <3>1. n \in Nat /\ n <= Len(words)
      BY <1>0, <2>1
    <3>2. Behind(words, o, v, n + 1)
      BY <2>1, <3>1, BehindNext
    <3> QED BY <3>1, <3>2
  <2> QED BY <1>0, <2>1
<1>3. S = Nat
  <2> HIDE DEF S
  <2>1. S \in SUBSET Nat
    BY DEF S
  <2> QED BY <1>1, <1>2, <2>1, Induction
<1>4. Behind(words, o, v, Len(words))
  BY <1>0, <1>3
<1>5. a \in Parser
  BY <1>4 DEF Behind
<1>6. Parsed(words) = IF a.wants # Unset THEN Wrong(a) ELSE a
  BY DEF Parsed
<1>7. Wrong(a) \in Parser /\ ~Wrong(a).ok
  BY <1>5 DEF Wrong, Parser
<1>8. Parsed(words) \in Parser
  BY <1>5, <1>6, <1>7
<1>9. ASSUME Parsed(words).ok, Parsed(words).command = Unset, v # Unset
      PROVE  Parsed(words).value[o] = v
  <2>1. Parsed(words) = a /\ a.wants = Unset
    BY <1>6, <1>7, <1>9
  <2>2. a.ok /\ a.command = Unset /\ a.wants # o
    BY <1>9, <2>1, OptionsAreSet
  <2>3. \E k \in 1..Len(words) : words[k] = o
    BY <1>0, <1>9 DEF Gives
  <2>4. a.value[o] = v
    BY <1>4, <2>2, <2>3 DEF Behind
  <2> QED BY <2>1, <2>4
<1> QED BY <1>8, <1>9

\* The line that is run, or no words at all.
LineInv == typed = <<>> \/ typed \in Lines

\* The words come from a user and go when the command ends.
LEMMA LineTyped == CommandSpec => []LineInv
<1>1. CommandInit => LineInv
  BY DEF CommandInit, LineInv
<1>2. LineInv /\ [CommandNext]_command_vars => LineInv'
  BY DEF LineInv, CommandNext, Type, Run, ChangesNothing, command_vars
<1> QED BY <1>1, <1>2, PTL DEF CommandSpec

\* A line with a device and no command is the workflow on that device, with the
\* options that the other words give.
LEMMA DeviceStarts == LineInv => WorkflowStarts
<1> SUFFICES ASSUME LineInv,
                    NEW k \in DOMAIN typed, {j \in DOMAIN typed : IsDevice(typed[j])} = {k},
                    Parsed(RemoveAt(typed, k)).ok, Parsed(RemoveAt(typed, k)).command = Unset
             PROVE  /\ Args(typed).ok /\ Args(typed).command = Unset
                    /\ Args(typed).value =
                         [Parsed(RemoveAt(typed, k)).value EXCEPT !["--device"] = typed[k]]
  BY DEF WorkflowStarts
<1> DEFINE a == Parsed(RemoveAt(typed, k))
<1>1. typed \in Lines /\ typed \in Seq(STRING)
  <2>1. typed # <<>>
    OBVIOUS
  <2> QED BY <2>1, CommandLineAssumption DEF LineInv
<1>2. DevicePaths(typed) = {k} /\ FirstDevice(typed) = k
  <2>1. DevicePaths(typed) = {k}
    BY DEF DevicePaths
  <2>2. k \in Nat /\ k <= k
    BY <1>1
  <2> QED BY <2>1, <2>2 DEF FirstDevice
<1>3. Rest(typed) = RemoveAt(typed, k) /\ DeviceOverride(typed) = typed[k]
  BY <1>2 DEF Rest, DeviceOverride
<1>4. PICK over \in Overrides :
         Gives(typed, "--image", over.image) /\ Gives(typed, "--mapfile", over.map)
  BY <1>1, CommandLineAssumption
<1>5. ASSUME NEW o \in Shared, NEW v, Gives(typed, o, v)
      PROVE  a \in Parser /\ SharedValue(Rest(typed), o) = a.value[o]
  <2>1. o \in Options
    BY DEF Options
  <2>2. Rest(typed) \in Seq(STRING) /\ Gives(Rest(typed), o, v)
    BY <1>1, <1>5, <2>1, RestGives
  <2>3. LastValue(Rest(typed), o) = v
    BY <2>1, <2>2, LastValueIsGiven
  <2>4. a \in Parser /\ (v # Unset => a.value[o] = v)
    BY <1>3, <2>1, <2>2, GivenIsParsed
  <2> QED BY <1>3, <2>3, <2>4 DEF SharedValue
<1>6. a \in Parser /\ \A o \in Shared : SharedValue(Rest(typed), o) = a.value[o]
  BY <1>4, <1>5 DEF Shared
<1> DEFINE value == [o \in Options |->
             IF o \in Shared THEN SharedValue(Rest(typed), o)
             ELSE IF a.command \in {"bootstrap", "recover"} THEN a.value[o] ELSE typed[k]]
<1>7. Args(typed) = [a EXCEPT !.value = value]
  BY <1>3 DEF Args
<1>8. a.command \notin {"bootstrap", "recover"}
  BY DEF Unset
<1>9. value = [a.value EXCEPT !["--device"] = typed[k]]
  <2>1. a.value \in [Options -> Words]
    BY <1>6 DEF Parser
  <2>2. Options = Shared \cup {"--device"} /\ "--device" \notin Shared
    BY DEF Options, Shared
  <2> HIDE DEF a
  <2> QED BY <1>6, <1>8, <2>1, <2>2
<1> HIDE DEF a, value
<1>10. Args(typed).ok = a.ok /\ Args(typed).command = a.command /\ Args(typed).value = value
  BY <1>6, <1>7 DEF Parser
<1> QED BY <1>9, <1>10 DEF a

\* "ddtriage [device]" starts the workflow on the device, and the options hold
\* wherever they stand (cli.py: the device is taken out, the words parsed twice).
THEOREM CommandStartsWorkflow == CommandSpec => []WorkflowStarts
BY LineTyped, DeviceStarts, PTL
=============================================================================
