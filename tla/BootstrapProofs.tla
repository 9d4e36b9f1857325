--------------------------- MODULE BootstrapProofs ---------------------------
(***************************************************************************)
(* The bootstrap never mixes the two views of an encrypted volume, never   *)
(* reads the MFT without a domain, and its state file says what is in the  *)
(* image it names: for any volume, however often the command is run and    *)
(* wherever a run ends.  Of a FAT, exFAT or ext volume it maps the whole   *)
(* tree, and asks for nothing twice.                                       *)
(***************************************************************************)
EXTENDS Bootstrap, DirDiscovery, WellFoundedInduction, TLAPS

\* What an image has, it keeps.
Grows == \A v \in Views, a \in Areas : image[v][a] # "none" => image'[v][a] = image[v][a]

ImageOK == image \in [Views -> [Areas -> {"none"} \cup Views]] /\ ImagesUnmixed

\* A pass from a view into the image of that view keeps the images unmixed,
\* and what they had.
LEMMA RescueKeepsImages ==
  ASSUME ImageOK, NEW v \in Views, NEW region \in SUBSET Areas, NEW ok \in BOOLEAN,
         Rescue(v, v, region, ok)
  PROVE  ImageOK' /\ Grows
<1> DEFINE old == image[v]
<1>1. PICK got \in SUBSET region :
        image' = [image EXCEPT ![v] =
                    [a \in Areas |-> IF a \in got /\ @[a] = "none" THEN v ELSE @[a]]]
  BY DEF Rescue
<1>2. image'[v] = [a \in Areas |-> IF a \in got /\ old[a] = "none" THEN v ELSE old[a]]
  BY <1>1 DEF ImageOK
<1>3. \A w \in Views \ {v} : image'[w] = image[w]
  BY <1>1 DEF ImageOK
<1>4. \A a \in Areas : image'[v][a] \in {"none", v} /\ (old[a] # "none" => image'[v][a] = old[a])
  BY <1>2 DEF ImageOK, ImagesUnmixed
<1>5. DOMAIN image' = Views /\ image' = [w \in Views |-> image'[w]]
  BY <1>1 DEF ImageOK
<1>6. image'[v] \in [Areas -> {"none"} \cup Views]
  BY <1>2 DEF ImageOK, Views
<1>7. \A w \in Views : image'[w] \in [Areas -> {"none"} \cup Views]
  BY <1>3, <1>6 DEF ImageOK
<1>8. image' \in [Views -> [Areas -> {"none"} \cup Views]]
  BY <1>5, <1>7
<1>9. ImagesUnmixed' /\ Grows
  BY <1>3, <1>4 DEF ImageOK, ImagesUnmixed, Grows
<1> QED BY <1>8, <1>9 DEF ImageOK

\* A state file that is left alone stays true of images that only grow.
LEMMA SavedStands ==
  ASSUME IInv, saved' = saved, encrypted' = encrypted, chunk' = chunk, Grows
  PROVE  saved' \in State /\ NeverOnCiphertext' /\ CoverageTrue'
<1>1. \A v \in Views, a \in Areas : image[v][a] = v => image'[v][a] = v
  BY DEF Grows, Views
<1>2. saved.view \in Views /\ saved \in State
  BY DEF IInv, TypeOK, State
<1>3. CoverageTrue'
  BY <1>1, <1>2 DEF CoverageTrue, IInv, Areas
<1> QED BY <1>2, <1>3 DEF IInv, NeverOnCiphertext

\* A state file that claims nothing is true of anything.
LEMMA ClaimsNothing ==
  ASSUME saved' \in State, ~saved'.complete, saved'.coverage # "full"
  PROVE  NeverOnCiphertext' /\ CoverageTrue'
BY DEF NeverOnCiphertext, CoverageTrue

\* A run that ends, with a state file that is true, keeps the invariant.
LEMMA EndOfRun ==
  ASSUME IInv, pc' = "idle", opt' = NoOption, retry' = 0, source' = "disk", target' = "disk",
         UNCHANGED volume, mft_domain' \in Domain, fuse' \in BOOLEAN,
         ImageOK', saved' \in State, NeverOnCiphertext', CoverageTrue'
  PROVE  IInv'
<1>1. TypeOK'
  BY DEF IInv, TypeOK, ImageOK, volume, NoOption, Views, Steps
<1> QED BY <1>1 DEF IInv, PlainText, AsksRightRegion, ImageOK

\* Returning with an incomplete state keeps the invariant.
LEMMA ReturnsIncomplete ==
  ASSUME IInv, NEW s \in State, ~s.complete, s.coverage # "full", Return(s),
         UNCHANGED volume, mft_domain' \in Domain, fuse' \in BOOLEAN, ImageOK'
  PROVE  IInv'
<1>1. saved' \in State /\ NeverOnCiphertext' /\ CoverageTrue'
  BY ClaimsNothing DEF Return
<1> QED BY <1>1, EndOfRun DEF Return

\* The two incomplete states a run may save.
LEMMA IncompleteStates ==
  ASSUME IInv
  PROVE  /\ Incomplete \in State /\ ~Incomplete.complete /\ Incomplete.coverage # "full"
         /\ LET none == [NoState EXCEPT !.bitlocker = TRUE] IN
            none \in State /\ ~none.complete /\ none.coverage # "full"
BY DEF IInv, TypeOK, State, Incomplete, NoState, Views

\* A raised exception keeps the invariant, whatever was read before it.
LEMMA RaiseKeeps ==
  ASSUME IInv, Raise, UNCHANGED volume, mft_domain' = mft_domain, fuse' \in BOOLEAN,
         ImageOK', Grows
  PROVE  IInv'
<1>1. saved' \in State /\ NeverOnCiphertext' /\ CoverageTrue'
  BY SavedStands DEF Raise, volume
<1>2. mft_domain' \in Domain
  BY DEF IInv, TypeOK
<1> QED BY <1>1, <1>2, EndOfRun DEF Raise

\* A step to a later point of a run keeps the invariant if it keeps the view,
\* the images, and what holds at that point.
LEMMA GoesOn ==
  ASSUME IInv, UNCHANGED <<volume, saved, opt, source, target>>, fuse' \in BOOLEAN,
         ImageOK', Grows, pc' \in Steps, retry' \in {0, 1},
         mft_domain' \in Domain, AsksRightRegion', PlainText'
  PROVE  IInv'
<1>1. saved' \in State /\ NeverOnCiphertext' /\ CoverageTrue'
  BY SavedStands DEF volume
<1>2. TypeOK'
  BY <1>1 DEF IInv, TypeOK, ImageOK, volume
<1> QED BY <1>1, <1>2 DEF IInv, ImageOK

\* Images that are left alone stay what they are.
LEMMA SameImages == ASSUME IInv, image' = image PROVE ImageOK' /\ Grows
BY DEF IInv, TypeOK, ImageOK, ImagesUnmixed, Grows

\* A boot sector that says what the filesystem is was not read as ciphertext.
LEMMA SeenIsPlain ==
  ASSUME IInv, NEW sector \in Areas, Seen(target, sector) \in {"ntfs", "tree"}, encrypted
  PROVE  source = "fuse"
<1>1. image[target][sector] \in {"none", target} /\ target = source /\ source \in Views
  BY DEF IInv, TypeOK, ImagesUnmixed
<1> QED BY <1>1 DEF Seen, Views

\* What the disk says of an encrypted volume, and of no other.
LEMMA SeenBitLocker ==
  ASSUME NEW v \in Views, NEW sector \in Areas, Seen(v, sector) = "bitlocker", fs \in Filesystems
  PROVE  encrypted
BY BootstrapAssumption DEF Seen
\* The invariant of the bootstrap.
THEOREM BootstrapInvariant == Spec => []IInv
<1>1. Init => IInv
  <2> SUFFICES ASSUME Init PROVE IInv
    OBVIOUS
  <2>1. TypeOK
    BY BootstrapAssumption DEF Init, TypeOK, NoState, NoOption, State, Steps, Views, Domain,
       NoDomain
  <2> QED
    BY <2>1 DEF Init, IInv, PlainText, ImagesUnmixed, AsksRightRegion, NeverOnCiphertext,
                CoverageTrue, NoState, Views
<1>2. IInv /\ [Next]_vars => IInv'
  <2> SUFFICES ASSUME IInv, [Next]_vars PROVE IInv'
    OBVIOUS
  <2>0. /\ TypeOK /\ ImageOK /\ target = source /\ source \in Views /\ pc \in Steps
        /\ fuse \in BOOLEAN /\ mft_domain \in Domain /\ retry \in {0, 1}
        /\ PlainText /\ AsksRightRegion
    BY DEF IInv, TypeOK, ImageOK
  <2>a. Meta \in SUBSET Areas /\ {"boot"} \in SUBSET Areas /\ {"backup"} \in SUBSET Areas
        /\ "disk" \in Views /\ "fuse" \in Views /\ TRUE \in BOOLEAN /\ FALSE \in BOOLEAN
    BY DEF Areas, Views
  <2>d. chunk \in SUBSET Areas /\ Asked \in SUBSET Areas
    BY <2>0, <2>a, BootstrapAssumption DEF Asked, TypeOK
  <2>b. ASSUME UNCHANGED image PROVE ImageOK' /\ Grows
    BY <2>b, SameImages
  <2>c. ASSUME NEW region \in SUBSET Areas, NEW ok \in BOOLEAN,
               Rescue(source, target, region, ok)
        PROVE  ImageOK' /\ Grows
    BY <2>0, <2>c, RescueKeepsImages
  <2>1. ASSUME NEW o \in Options, Begin(o) PROVE IInv'
    <3>1. ImageOK' /\ Grows
      BY <2>0, <2>1, <2>a, RescueKeepsImages DEF Begin
    <3>2. saved' \in State /\ NeverOnCiphertext' /\ CoverageTrue'
      BY <2>1, <3>1, SavedStands DEF Begin, volume
    <3>3. opt' \in [retry : {0, 1}, sized : BOOLEAN] /\ retry' \in {0, 1}
      BY <2>1, BootstrapAssumption DEF Begin
    <3>4. TypeOK'
      BY <2>0, <2>1, <2>a, <3>1, <3>2, <3>3 DEF Begin, TypeOK, ImageOK, volume, Steps
    <3> QED BY <2>1, <3>1, <3>2, <3>4 DEF Begin, IInv, ImageOK, PlainText, AsksRightRegion
  <2>2. CASE CheckBitLocker
    <3>1. pc' = "mount" => encrypted
      BY <2>0, <2>2, <2>a, SeenBitLocker DEF CheckBitLocker, TypeOK
    <3> QED BY <2>0, <2>2, <2>b, <3>1, GoesOn
            DEF CheckBitLocker, volume, Steps, AsksRightRegion, PlainText
  <2>3. CASE MountFails
    BY <2>0, <2>3, <2>b, IncompleteStates, ReturnsIncomplete DEF MountFails
  <2>4. CASE Mount
    <3>1. ImageOK' /\ Grows
      BY <2>0, <2>4, <2>a, RescueKeepsImages DEF Mount
    <3>2. saved' \in State /\ NeverOnCiphertext' /\ CoverageTrue'
      BY <2>4, <3>1, SavedStands DEF Mount, volume
    <3>3. TypeOK'
      BY <2>0, <2>4, <2>a, <3>1, <3>2 DEF Mount, TypeOK, ImageOK, volume, Steps
    <3> QED BY <2>0, <2>4, <3>1, <3>2, <3>3
            DEF Mount, IInv, ImageOK, PlainText, AsksRightRegion, volume
  <2>5. CASE MountTimesOut
    BY <2>0, <2>5, <2>b, RaiseKeeps DEF MountTimesOut
  <2>6. CASE Detect
    <3>1. pc' = "tree" /\ encrypted => source = "fuse"
      BY <2>6, SeenIsPlain DEF Detect, Areas
    <3> QED BY <2>0, <2>6, <2>b, <3>1, GoesOn
            DEF Detect, volume, Steps, AsksRightRegion, PlainText
  <2>7. CASE RecoverTree
    <3>1. ImageOK' /\ Grows
      BY <2>7, <2>a, <2>c DEF RecoverTree
    <3> QED BY <2>0, <2>7, <3>1, GoesOn
            DEF RecoverTree, volume, Steps, AsksRightRegion, PlainText
  <2>8. CASE DdruFinds
    <3>1. mft_domain' \in Domain /\ mft_domain'.view = source
      BY <2>0, <2>8 DEF DdruFinds, Domain
    <3> QED BY <2>0, <2>8, <2>b, <3>1, GoesOn
            DEF DdruFinds, volume, Steps, AsksRightRegion, PlainText
  <2>9. CASE DdruFails
    BY <2>0, <2>9, <2>b, GoesOn DEF DdruFails, volume, Steps, AsksRightRegion, PlainText
  <2>10. CASE RecoverMft
    <3>1. ImageOK' /\ Grows /\ retry' \in {0, 1}
      BY <2>0, <2>10, <2>a, <2>c, <2>d DEF RecoverMft
    <3> QED BY <2>0, <2>10, <3>1, GoesOn
            DEF RecoverMft, volume, Steps, AsksRightRegion, PlainText
  <2>11. ASSUME StopManual, ImageOK' PROVE IInv'
    BY <2>0, <2>11, IncompleteStates, ReturnsIncomplete DEF StopManual
  <2>12. CASE ManualBoot
    <3>1. ImageOK' /\ Grows
      BY <2>12, <2>a, <2>c DEF ManualBoot
    <3> QED BY <2>0, <2>11, <2>12, <3>1, GoesOn
            DEF ManualBoot, volume, Steps, AsksRightRegion, PlainText
  <2>13. CASE ManualParse
    <3>1. encrypted => source = "fuse"
      BY <2>13, SeenIsPlain DEF ManualParse, Areas
    <3> QED BY <2>0, <2>13, <2>b, <3>1, GoesOn
            DEF ManualParse, volume, Steps, AsksRightRegion, PlainText
  <2>14. CASE ManualBitLocker
    BY <2>11, <2>14, <2>b DEF ManualBitLocker
  <2>15. CASE ManualBackup
    <3>1. ImageOK' /\ Grows
      BY <2>15, <2>a, <2>b, <2>c DEF ManualBackup
    <3>2. CASE StopManual
      BY <2>11, <3>1, <3>2
    <3>3. CASE pc' = "parse_backup"
          /\ UNCHANGED <<volume, mft_domain, saved, fuse, opt, source, target, retry>>
      BY <2>0, <2>15, <3>1, <3>3, GoesOn DEF ManualBackup, Steps, AsksRightRegion, PlainText,
         volume
    <3> QED BY <2>15, <3>2, <3>3 DEF ManualBackup
  <2>16. CASE ManualParseBackup
    <3>1. encrypted => source = "fuse"
      BY <2>16, SeenIsPlain DEF ManualParseBackup, Areas
    <3> QED BY <2>0, <2>16, <2>b, <3>1, GoesOn
            DEF ManualParseBackup, volume, Steps, AsksRightRegion, PlainText
  <2>17. CASE ManualNoBackup
    BY <2>0, <2>11, <2>17, <2>b, RaiseKeeps DEF ManualNoBackup
  <2>18. CASE ManualMft
    <3>1. ImageOK' /\ Grows
      BY <2>18, <2>a, <2>c, <2>d DEF ManualMft
    <3>2. mft_domain' \in Domain /\ mft_domain'.view = source /\ fuse' \in BOOLEAN
      BY <2>0, <2>18 DEF ManualMft, Domain
    <3>3. CASE pc' = "retry" /\ UNCHANGED <<saved, opt, source, target, retry>>
      BY <2>0, <2>18, <3>1, <3>2, <3>3, GoesOn
         DEF ManualMft, volume, Steps, AsksRightRegion, PlainText
    <3>4. CASE Return(Incomplete)
      BY <2>18, <3>1, <3>2, <3>4, IncompleteStates, ReturnsIncomplete DEF ManualMft
    <3> QED BY <2>18, <3>3, <3>4 DEF ManualMft
  <2>19. CASE Retry
    <3>1. ImageOK' /\ Grows
      BY <2>19, <2>a, <2>b, <2>c, <2>d DEF Retry
    <3> QED BY <2>0, <2>19, <3>1, GoesOn
            DEF Retry, volume, Steps, AsksRightRegion, PlainText
  <2>20. CASE Finish
    <3> DEFINE s == [complete |-> TRUE, bitlocker |-> source = "fuse", view |-> target,
                     mft_lcn |-> Seen(target, "boot") = "ntfs", coverage |-> Coverage,
                     manual |-> mft_domain.manual]
    <3>1. Coverage \in {"none", "part", "full"} /\ s \in State
      BY <2>0 DEF Coverage, State, Domain
    <3>2. (source = "fuse") = encrypted
      BY <2>0, <2>20 DEF Finish, PlainText, TypeOK
    <3>3. Coverage = "full" => \A a \in Asked : image[target][a] = target
      BY <2>0, <2>d DEF Coverage, ImageOK, ImagesUnmixed
    <3>4. saved' = s /\ image' = image /\ encrypted' = encrypted /\ chunk' = chunk
      BY <2>20 DEF Finish, Return, volume
    <3>5. NeverOnCiphertext' /\ CoverageTrue'
      BY <2>0, <3>2, <3>3, <3>4 DEF NeverOnCiphertext, CoverageTrue, Asked
    <3> HIDE DEF s
    <3>6. saved' \in State /\ ImageOK' /\ fuse' \in BOOLEAN
      BY <2>0, <2>20, <2>b, <3>1, <3>4 DEF Finish
    <3> QED BY <2>0, <2>20, <3>5, <3>6, EndOfRun DEF Finish, Return
  <2>21. CASE Stop
    BY <2>0, <2>21, <2>b, RaiseKeeps DEF Stop
  <2>22. CASE UNCHANGED vars
    BY <2>0, <2>22, <2>b, GoesOn DEF vars, AsksRightRegion, PlainText, volume
  <2> QED
    BY <2>1, <2>2, <2>3, <2>4, <2>5, <2>6, <2>7, <2>8, <2>9, <2>10, <2>12, <2>13, <2>14,
       <2>15, <2>16, <2>17, <2>18, <2>19, <2>20, <2>21, <2>22 DEF Next
<1> QED BY <1>1, <1>2, PTL DEF Spec

\* What is read through the mount and what is read from the disk are never
\* written to one image, although they share the offsets.
THEOREM BootstrapImagesUnmixed == Spec => []ImagesUnmixed
<1>1. IInv => ImagesUnmixed
  BY DEF IInv
<1> QED BY <1>1, BootstrapInvariant, PTL

\* gddrescue is never sent over the drive without a domain, or with the domain
\* of the other view.
THEOREM BootstrapAsksRightRegion == Spec => []AsksRightRegion
<1>1. IInv => AsksRightRegion
  BY DEF IInv
<1> QED BY <1>1, BootstrapInvariant, PTL

\* A bootstrap that says it is complete worked on plain text, and its state
\* file says through which view.
THEOREM BootstrapNeverOnCiphertext == Spec => []NeverOnCiphertext
<1>1. IInv => NeverOnCiphertext
  BY DEF IInv
<1> QED BY <1>1, BootstrapInvariant, PTL

\* A state file that says the MFT is read in full says so of the image it names,
\* and after a manual bootstrap of what the MFT has in the 64 MB from its start.
THEOREM BootstrapCoverageTrue == Spec => []CoverageTrue
<1>1. IInv => CoverageTrue
  BY DEF IInv
<1> QED BY <1>1, BootstrapInvariant, PTL

(***************************************************************************)
(* The discovery of directories: where the walks may come to, in what they *)
(* read or did not read, and that what the tree builders list is covered.  *)
(***************************************************************************)
\* A set of numbers that is not empty has a least one.
LEMMA LeastNumber ==
  ASSUME NEW T \in SUBSET Nat, T # {}
  PROVE  \E x \in T : \A y \in T : x <= y
<1>1. \E x \in T : \A y \in T : ~(<<y, x>> \in OpToRel(<, Nat))
  <2> HIDE DEF OpToRel
  <2> QED BY NatLessThanWellFounded, WFMin
<1>2. PICK x \in T : \A y \in T : ~(<<y, x>> \in OpToRel(<, Nat))
  BY <1>1
<1>3. OpToRel(<, Nat) = {ss \in Nat \X Nat : ss[1] < ss[2]}
  BY DEF OpToRel
<1>4. ASSUME NEW y \in T, ~(x <= y) PROVE FALSE
  <2>1. y \in Nat /\ x \in Nat /\ y < x
    BY <1>4
  <2>2. <<y, x>> \in {ss \in Nat \X Nat : ss[1] < ss[2]}
    BY <2>1
  <2> QED BY <1>2, <1>3, <2>2
<1> QED BY <1>2, <1>4

\* What holds of 0 and, with a number, of the next, holds of all.
LEMMA Induction ==
  ASSUME NEW S \in SUBSET Nat, 0 \in S, \A n \in S : n + 1 \in S
  PROVE  S = Nat
<1> SUFFICES ASSUME Nat \ S # {} PROVE FALSE
  OBVIOUS
<1>1. PICK x \in Nat \ S : \A y \in Nat \ S : x <= y
  BY LeastNumber
<1>2. x # 0 /\ x - 1 \in Nat /\ ~(x <= x - 1)
  BY <1>1
<1>3. x - 1 \in S
  BY <1>1, <1>2
<1>4. (x - 1) + 1 \in S
  BY <1>3
<1> QED BY <1>1, <1>4

-----------------------------------------------------------------------------
\* Of a depth, the walk has been where it was before and one step further.
LEMMA WalkedFacts ==
  /\ WalkedTo[0] = {vol.root}
  /\ \A n \in 1..MaxDepth :
       WalkedTo[n] = WalkedTo[n - 1] \cup UNION {StepsInto(d) : d \in WalkedTo[n - 1]}
<1> DEFINE Further(ds) == ds \cup UNION {StepsInto(d) : d \in ds}
           Is(g, m) == g = [n \in 0..m |-> IF n = 0 THEN {vol.root} ELSE Further(g[n - 1])]
           M == {m \in Nat : \E g : Is(g, m)}
<1>0. MaxDepth \in Nat
  BY VolumeAssumption
<1>1. WalkedTo = CHOOSE g : Is(g, MaxDepth)
  BY DEF WalkedTo
<1> HIDE DEF Further
<1>2. 0 \in M
  <2>1. Is([n \in 0..0 |-> {vol.root}], 0)
    OBVIOUS
  <2> QED BY <2>1
<1>3. ASSUME NEW m \in M PROVE m + 1 \in M
  <2>1. m \in Nat
    OBVIOUS
  <2>2. PICK g : Is(g, m)
    OBVIOUS
  <2> DEFINE h == [n \in 0..(m + 1) |-> IF n <= m THEN g[n] ELSE Further(g[m])]
  <2>3. \A n \in 0..m : g[n] = IF n = 0 THEN {vol.root} ELSE Further(g[n - 1])
    BY <2>2
  <2>4. ASSUME NEW n \in 0..(m + 1)
        PROVE  h[n] = IF n = 0 THEN {vol.root} ELSE Further(h[n - 1])
    <3>1. CASE n = 0
      BY <2>1, <2>3, <3>1
    <3>2. CASE n \in 1..m
      <4>1. h[n] = g[n] /\ h[n - 1] = g[n - 1]
        BY <2>1, <3>2
      <4> QED BY <4>1, <2>3, <2>1, <3>2
    <3>3. CASE n = m + 1
      <4>1. h[n] = Further(g[m]) /\ h[n - 1] = g[m] /\ n # 0
        BY <2>1, <3>3
      <4> QED BY <4>1
    <3> QED BY <2>1, <3>1, <3>2, <3>3
  <2>5. Is(h, m + 1)
    BY <2>4
  <2> HIDE DEF h, Is
  <2> QED BY <2>1, <2>5
<1>4. M = Nat
  <2>1. M \in SUBSET Nat
    OBVIOUS
  <2> HIDE DEF M
  <2> QED BY <1>2, <1>3, <2>1, Induction
<1>5. \E g : Is(g, MaxDepth)
  <2> HIDE DEF Is
  <2> QED BY <1>0, <1>4
<1>6. Is(WalkedTo, MaxDepth)
  <2> HIDE DEF Is
  <2> QED BY <1>1, <1>5
<1>7. WalkedTo[0] = {vol.root}
  BY <1>0, <1>6
<1>8. ASSUME NEW n \in 1..MaxDepth PROVE WalkedTo[n] = Further(WalkedTo[n - 1])
  <2>1. n \in 0..MaxDepth /\ n # 0
    BY <1>0
  <2> QED BY <1>6, <2>1
<1> QED BY <1>7, <1>8 DEF Further

\* Of a depth, the tree has the directories it had before and those they list.
LEMMA BuiltFacts ==
  /\ BuiltTo[0] = {d \in {vol.root} : vol.index[d] = 0}
  /\ \A n \in 1..MaxDepth :
       BuiltTo[n] = BuiltTo[n - 1] \cup
         UNION {{k \in Listed(BuilderRuns(d)) : ~OutOfReach(k, d)} : d \in BuiltTo[n - 1]}
<1> DEFINE First == {d \in {vol.root} : vol.index[d] = 0}
           Further(ds) == ds \cup UNION {{k \in Listed(BuilderRuns(d)) : ~OutOfReach(k, d)} : d \in ds}
           Is(g, m) == g = [n \in 0..m |-> IF n = 0 THEN First ELSE Further(g[n - 1])]
           M == {m \in Nat : \E g : Is(g, m)}
<1>0. MaxDepth \in Nat
  BY VolumeAssumption
<1>1. BuiltTo = CHOOSE g : Is(g, MaxDepth)
  BY DEF BuiltTo
<1> HIDE DEF First, Further
<1>2. 0 \in M
  <2>1. Is([n \in 0..0 |-> First], 0)
    OBVIOUS
  <2> QED BY <2>1
<1>3. ASSUME NEW m \in M PROVE m + 1 \in M
  <2>1. m \in Nat
    OBVIOUS
  <2>2. PICK g : Is(g, m)
    OBVIOUS
  <2> DEFINE h == [n \in 0..(m + 1) |-> IF n <= m THEN g[n] ELSE Further(g[m])]
  <2>3. \A n \in 0..m : g[n] = IF n = 0 THEN First ELSE Further(g[n - 1])
    BY <2>2
  <2>4. ASSUME NEW n \in 0..(m + 1)
        PROVE  h[n] = IF n = 0 THEN First ELSE Further(h[n - 1])
    <3>1. CASE n = 0
      BY <2>1, <2>3, <3>1
    <3>2. CASE n \in 1..m
      <4>1. h[n] = g[n] /\ h[n - 1] = g[n - 1]
        BY <2>1, <3>2
      <4> QED BY <4>1, <2>3, <2>1, <3>2
    <3>3. CASE n = m + 1
      <4>1. h[n] = Further(g[m]) /\ h[n - 1] = g[m] /\ n # 0
        BY <2>1, <3>3
      <4> QED BY <4>1
    <3> QED BY <2>1, <3>1, <3>2, <3>3
  <2>5. Is(h, m + 1)
    BY <2>4
  <2> HIDE DEF h, Is
  <2> QED BY <2>1, <2>5
<1>4. M = Nat
  <2>1. M \in SUBSET Nat
    OBVIOUS
  <2> HIDE DEF M
  <2> QED BY <1>2, <1>3, <2>1, Induction
<1>5. \E g : Is(g, MaxDepth)
  <2> HIDE DEF Is
  <2> QED BY <1>0, <1>4
<1>6. Is(BuiltTo, MaxDepth)
  <2> HIDE DEF Is
  <2> QED BY <1>1, <1>5
<1>7. BuiltTo[0] = First
  BY <1>0, <1>6
<1>8. ASSUME NEW n \in 1..MaxDepth PROVE BuiltTo[n] = Further(BuiltTo[n - 1])
  <2>1. n \in 0..MaxDepth /\ n # 0
    BY <1>0
  <2> QED BY <1>6, <2>1
<1> QED BY <1>7, <1>8 DEF First, Further

\* What is listed is a subdirectory of a cluster of the runs.
LEMMA ListedFacts ==
  ASSUME NEW rs, NEW k \in Listed(rs)
  PROVE  \E c \in DOMAIN vol.kids : k \in vol.kids[c] /\ \E i \in DOMAIN rs : c \in Cells(rs[i])
BY DEF Listed

\* The volumes are volumes.
LEMMA VolumeFacts ==
  ASSUME vol \in Volumes
  PROVE  /\ \A d \in DOMAIN vol.runs : vol.runs[d] \in Runs
         /\ \A c \in DOMAIN vol.kids : vol.kids[c] \subseteq DOMAIN vol.runs
         /\ vol.contiguous \subseteq DOMAIN vol.runs
         /\ \A d \in vol.contiguous : Len(vol.runs[d]) = 1 /\ vol.runs[d] \in Runs
         /\ \A d \in vol.contiguous : /\ DOMAIN vol.runs[d] = {1}
                                      /\ vol.runs[d][1] \in (Nat \ {0}) \X (Nat \ {0})
         /\ vol.root \in DOMAIN vol.runs /\ vol.root \notin vol.contiguous
<1>1. IsVolume(vol)
  BY VolumeAssumption
<1>2. \A d \in vol.contiguous : d \in DOMAIN vol.runs /\ Len(vol.runs[d]) = 1 /\ vol.runs[d] \in Runs
  BY <1>1 DEF IsVolume
<1>3. ASSUME NEW d \in vol.contiguous
      PROVE  /\ DOMAIN vol.runs[d] = {1}
             /\ vol.runs[d][1] \in (Nat \ {0}) \X (Nat \ {0})
  BY <1>2 DEF Runs
<1> QED BY <1>1, <1>2, <1>3 DEF IsVolume

-----------------------------------------------------------------------------
\* The subdirectories of a directory, read or not.
AllKids(d) ==
  UNION {vol.kids[c] : c \in {c \in DOMAIN vol.kids :
                                \E i \in DOMAIN vol.runs[d] : c \in Cells(vol.runs[d][i])}}

\* A chain has no cluster that is not the directory's.
LEMMA ChainFacts ==
  ASSUME vol \in Volumes, NEW d \in DOMAIN vol.runs
  PROVE  /\ d \in vol.contiguous => /\ ChainOf(d) = <<<<vol.runs[d][1][1], 1>>>>
                                    /\ Cells(<<vol.runs[d][1][1], 1>>) \subseteq Cells(vol.runs[d][1])
         /\ d \notin vol.contiguous => ChainOf(d) = <<>> \/ ChainOf(d) = vol.runs[d]
         /\ ChainOf(d) \in Runs
<1>1. CASE d \in vol.contiguous
  <2>1. vol.runs[d][1] \in (Nat \ {0}) \X (Nat \ {0})
    BY <1>1, VolumeFacts
  <2>2. ChainOf(d) = <<<<vol.runs[d][1][1], 1>>>>
    BY <1>1 DEF ChainOf
  <2>3. Cells(<<vol.runs[d][1][1], 1>>) \subseteq Cells(vol.runs[d][1])
    BY <2>1 DEF Cells
  <2>4. <<<<vol.runs[d][1][1], 1>>>> \in Runs
    BY <2>1 DEF Runs
  <2> QED BY <1>1, <2>2, <2>3, <2>4
<1>2. CASE d \notin vol.contiguous
  <2>1. ChainOf(d) = <<>> \/ ChainOf(d) = vol.runs[d]
    BY <1>2 DEF ChainOf
  <2>2. vol.runs[d] \in Runs /\ <<>> \in Runs
    BY VolumeFacts DEF Runs
  <2> QED BY <1>2, <2>1, <2>2
<1> QED BY <1>1, <1>2

\* What the walk meets in a directory is a subdirectory of it.
LEMMA MetFacts ==
  ASSUME vol \in Volumes, NEW d \in DOMAIN vol.runs
  PROVE  Met(d) \subseteq AllKids(d)
<1> SUFFICES ASSUME NEW k \in Met(d) PROVE k \in AllKids(d)
  OBVIOUS
<1> DEFINE rs == ChainOf(d)
<1>1. PICK c \in DOMAIN vol.kids :
        k \in vol.kids[c] /\ \E i \in DOMAIN Inside(rs) : c \in Cells(Inside(rs)[i])
  BY ListedFacts DEF Met
<1>2. PICK i \in DOMAIN rs : c \in Cells(Inside(rs)[i])
  BY <1>1 DEF Inside
<1>3. rs \in Runs /\ rs[i] \in (Nat \ {0}) \X (Nat \ {0})
  <2>1. rs \in Runs
    BY ChainFacts
  <2> HIDE DEF rs
  <2> QED BY <2>1 DEF Runs
<1>4. c \in Cells(rs[i])
  <2>1. Inside(rs)[i] = rs[i] \/ Inside(rs)[i] = <<rs[i][1], 0>>
    BY DEF Inside
  <2>2. Cells(<<rs[i][1], 0>>) = {}
    BY <1>3 DEF Cells
  <2> QED BY <1>2, <2>1, <2>2
<1>5. \E j \in DOMAIN vol.runs[d] : c \in Cells(vol.runs[d][j])
  <2>1. CASE d \in vol.contiguous
    <3>1. rs = <<<<vol.runs[d][1][1], 1>>>> /\ DOMAIN vol.runs[d] = {1}
          /\ Cells(<<vol.runs[d][1][1], 1>>) \subseteq Cells(vol.runs[d][1])
      BY <2>1, ChainFacts, VolumeFacts
    <3>2. i = 1 /\ rs[i] = <<vol.runs[d][1][1], 1>>
      <4>1. i \in DOMAIN rs
        OBVIOUS
      <4> HIDE DEF rs
      <4> DEFINE x == vol.runs[d][1][1]
      <4> HIDE DEF x
      <4>2. rs = <<<<x, 1>>>>
        BY <3>1 DEF x
      <4>3. i = 1 /\ rs[i] = <<x, 1>>
        BY ONLY <4>1, <4>2
      <4> QED BY <4>3 DEF x
    <3> QED BY <3>1, <3>2, <1>4
  <2>2. CASE d \notin vol.contiguous
    <3>1. ChainOf(d) = <<>> \/ ChainOf(d) = vol.runs[d]
      BY <2>2, ChainFacts
    <3>2. i \in DOMAIN ChainOf(d)
      OBVIOUS
    <3>3. rs = vol.runs[d]
      BY ONLY <3>1, <3>2
    <3> QED BY <1>4, <3>3
  <2> QED BY <2>1, <2>2
<1> QED BY <1>1, <1>5 DEF AllKids

-----------------------------------------------------------------------------
\* Directories the walk steps into, and contiguous ones it reads ranges of: a step
\* leads from either to what it may meet.
IsClosed(W, C) ==
  /\ vol.root \in W
  /\ \A d \in W : AllKids(d) \ vol.contiguous \subseteq W /\ AllKids(d) \cap vol.contiguous \subseteq C
  /\ \A k \in C : AllKids(k) \subseteq W

\* Those the walk may come to, whatever was read.
AllWalked ==
  {d \in DOMAIN vol.runs : \A W, C \in SUBSET DOMAIN vol.runs : IsClosed(W, C) => d \in W}
AllContiguous ==
  {k \in vol.contiguous : \A W, C \in SUBSET DOMAIN vol.runs : IsClosed(W, C) => k \in C}

\* They are the least that are closed, and have no directory in common: the one
\* that lists it would be in both as well.
LEMMA ClosedFacts ==
  ASSUME vol \in Volumes
  PROVE  /\ IsClosed(AllWalked, AllContiguous)
         /\ AllWalked \subseteq DOMAIN vol.runs /\ AllContiguous \subseteq vol.contiguous
         /\ IsTree(vol) => AllWalked \cap AllContiguous = {}
<1> DEFINE W0 == AllWalked
           C0 == AllContiguous
           D  == DOMAIN vol.runs
<1>1. \A d \in D : AllKids(d) \subseteq D
  BY VolumeFacts DEF AllKids
<1>2. W0 \subseteq D /\ C0 \subseteq vol.contiguous /\ C0 \subseteq D /\ vol.contiguous \subseteq D
  BY VolumeFacts DEF AllWalked, AllContiguous
<1>3. \A W, C \in SUBSET D : IsClosed(W, C) => W0 \subseteq W /\ C0 \subseteq C
  BY DEF AllWalked, AllContiguous
<1>4. IsClosed(W0, C0)
  <2>1. vol.root \in W0
    BY VolumeFacts DEF AllWalked, IsClosed
  <2>2. ASSUME NEW d \in W0, NEW k \in AllKids(d), k \notin vol.contiguous PROVE k \in W0
    BY <1>1, <1>2, <2>2 DEF AllWalked, IsClosed
  <2>3. ASSUME NEW d \in W0, NEW k \in AllKids(d), k \in vol.contiguous PROVE k \in C0
    BY <1>1, <1>2, <2>3 DEF AllWalked, AllContiguous, IsClosed
  <2>4. ASSUME NEW c \in C0, NEW k \in AllKids(c) PROVE k \in W0
    BY <1>1, <1>2, <2>4 DEF AllWalked, AllContiguous, IsClosed
  <2> QED BY <2>1, <2>2, <2>3, <2>4 DEF IsClosed
<1>5. ASSUME IsTree(vol) PROVE W0 \cap C0 = {}
  <2> HIDE DEF W0, C0, D
  <2>1. ASSUME NEW d \in D, NEW e \in D, NEW k \in AllKids(d), k \in AllKids(e) PROVE d = e
    <3>1. PICK c \in DOMAIN vol.kids :
            k \in vol.kids[c] /\ \E i \in DOMAIN vol.runs[d] : c \in Cells(vol.runs[d][i])
      BY <2>1 DEF AllKids
    <3>2. PICK b \in DOMAIN vol.kids :
            k \in vol.kids[b] /\ \E i \in DOMAIN vol.runs[e] : b \in Cells(vol.runs[e][i])
      BY <2>1 DEF AllKids
    <3>3. b = c
      BY <1>5, <3>1, <3>2 DEF IsTree
    <3>4. PICK i \in DOMAIN vol.runs[d] : c \in Cells(vol.runs[d][i])
      BY <3>1
    <3>5. PICK j \in DOMAIN vol.runs[e] : c \in Cells(vol.runs[e][j])
      BY <3>2, <3>3
    <3> QED BY <1>5, <3>4, <3>5 DEF IsTree, D
  \* What is in one of the sets came there by a step.
  <2> DEFINE W1 == {d \in W0 : \/ d \notin vol.contiguous
                               \/ \E c \in C0 : d \in AllKids(c)}
             C1 == {k \in C0 : \E d \in W0 : k \in AllKids(d)}
  <2>2. W0 \subseteq W1 /\ C0 \subseteq C1
    <3>1. IsClosed(W1, C1)
      BY <1>2, <1>4, VolumeFacts DEF IsClosed
    <3> QED BY <1>2, <1>3, <3>1
  <2> DEFINE W2 == W0 \ C0
             C2 == C0 \ W0
  <2>3. IsClosed(W2, C2)
    <3>1. vol.root \in W2
      BY <1>2, <1>4, VolumeFacts DEF IsClosed
    <3>2. ASSUME NEW d \in W2, NEW k \in AllKids(d) \ vol.contiguous PROVE k \in W2
      BY <1>2, <1>4 DEF IsClosed
    <3>3. ASSUME NEW d \in W2, NEW k \in AllKids(d) \cap vol.contiguous PROVE k \in C2
      <4>1. k \in C0
        BY <1>4 DEF IsClosed
      <4>2. ASSUME k \in W0 PROVE FALSE
        <5>1. PICK c \in C0 : k \in AllKids(c)
          BY <2>2, <4>2
        <5>2. c = d
          BY <1>2, <2>1, <5>1
        <5> QED BY <5>2
      <4> QED BY <4>1, <4>2
    <3>4. ASSUME NEW c \in C2, NEW k \in AllKids(c) PROVE k \in W2
      <4>1. k \in W0
        BY <1>4 DEF IsClosed
      <4>2. ASSUME k \in C0 PROVE FALSE
        <5>1. PICK d \in W0 : k \in AllKids(d)
          BY <2>2, <4>2
        <5>2. c = d
          BY <1>2, <2>1, <5>1
        <5> QED BY <5>2
      <4> QED BY <4>1, <4>2
    <3> QED BY <3>1, <3>2, <3>3, <3>4 DEF IsClosed
  <2>4. W0 \subseteq W2
    BY <1>2, <1>3, <2>3
  <2> QED BY <2>4
<1> QED BY <1>2, <1>4, <1>5

\* The walk comes to no others.
LEMMA WalkedAreWalked ==
  ASSUME vol \in Volumes, NEW n \in 0..MaxDepth
  PROVE  WalkedTo[n] \subseteq AllWalked
<1> DEFINE N == {m \in Nat : m \in 0..MaxDepth => WalkedTo[m] \subseteq AllWalked}
<1>0. MaxDepth \in Nat
  BY VolumeAssumption
<1>1. 0 \in N
  BY WalkedFacts, ClosedFacts DEF IsClosed
<1>2. ASSUME NEW m \in N PROVE m + 1 \in N
  <2>1. CASE m + 1 \in 0..MaxDepth
    <3>1. m \in Nat /\ m \in 0..MaxDepth /\ m + 1 \in 1..MaxDepth /\ (m + 1) - 1 = m
      BY <1>0, <2>1
    <3>2. WalkedTo[m] \subseteq AllWalked
      BY <3>1
    <3>3. WalkedTo[m + 1] = WalkedTo[m] \cup UNION {StepsInto(d) : d \in WalkedTo[m]}
      BY <3>1, WalkedFacts
    <3>4. ASSUME NEW d \in WalkedTo[m] PROVE StepsInto(d) \subseteq AllWalked
      <4>1. d \in AllWalked /\ d \in DOMAIN vol.runs /\ Met(d) \subseteq AllKids(d)
        BY <3>2, ClosedFacts, MetFacts
      <4>2. Chained(Met(d)) \subseteq AllWalked
        BY <4>1, ClosedFacts DEF Chained, IsClosed
      <4>3. ASSUME NEW k \in Whole(Met(d)), NEW l \in Listed(vol.runs[k]) PROVE l \in AllWalked
        <5>1. k \in AllContiguous
          BY <4>1, ClosedFacts DEF Whole, IsClosed
        <5>2. l \in AllKids(k)
          BY ListedFacts DEF AllKids
        <5> QED BY <5>1, <5>2, ClosedFacts DEF IsClosed
      <4> QED BY <4>2, <4>3 DEF StepsInto
    <3>5. WalkedTo[m + 1] \subseteq AllWalked
      BY <3>2, <3>3, <3>4
    <3> QED BY <3>1, <3>5
  <2> QED BY <2>1
<1>3. N = Nat
  <2>1. N \in SUBSET Nat
    OBVIOUS
  <2> HIDE DEF N
  <2> QED BY <1>1, <1>2, <2>1, Induction
<1> QED BY <1>0, <1>3

\* A range that may be asked for.
MayAsk(r) ==
  \/ \E d \in AllWalked \ vol.contiguous : \E i \in DOMAIN vol.runs[d] : r = vol.runs[d][i]
  \/ \E d \in AllWalked \cap vol.contiguous : r = <<vol.runs[d][1][1], 1>>
  \/ \E d \in AllContiguous : r = vol.runs[d][1]

\* What the walk asks for: the chains of the directories it has been in, and the runs
\* of the contiguous ones it met there.
LEMMA DirRangesAre ==
  ASSUME NEW r
  PROVE  r \in DirRanges <=>
           \/ \E d \in Walked : \E i \in DOMAIN ChainOf(d) : r = ChainOf(d)[i]
           \/ \E d \in Walked : \E k \in Met(d) \cap vol.contiguous : r = vol.runs[k][1]
<1> DEFINE Ranges(d) == Range(ChainOf(d)) \cup {vol.runs[k][1] : k \in Met(d) \cap vol.contiguous}
<1>1. DirRanges = UNION {Ranges(d) : d \in Walked}
  BY DEF DirRanges
<1>2. \A d : r \in Ranges(d) <=> \/ \E i \in DOMAIN ChainOf(d) : r = ChainOf(d)[i]
                                 \/ \E k \in Met(d) \cap vol.contiguous : r = vol.runs[k][1]
  BY DEF Range
<1> HIDE DEF Ranges
<1>3. r \in DirRanges <=> \E d \in Walked : r \in Ranges(d)
  BY <1>1
<1> QED BY <1>2, <1>3

\* No others are.
LEMMA DirRangesFacts ==
  ASSUME vol \in Volumes, NEW r \in DirRanges
  PROVE  MayAsk(r)
<1>0. MaxDepth \in 0..MaxDepth
  BY VolumeAssumption
<1>1. \A d \in Walked : d \in AllWalked /\ d \in DOMAIN vol.runs
  BY <1>0, WalkedAreWalked, ClosedFacts DEF Walked
<1>2. CASE \E d \in Walked : \E i \in DOMAIN ChainOf(d) : r = ChainOf(d)[i]
  <2>1. PICK d \in Walked : \E i \in DOMAIN ChainOf(d) : r = ChainOf(d)[i]
    BY <1>2
  <2>2. PICK i \in DOMAIN ChainOf(d) : r = ChainOf(d)[i]
    BY <2>1
  <2>3. CASE d \in vol.contiguous
    <3> DEFINE x == <<vol.runs[d][1][1], 1>>
    <3>1. ChainOf(d) = <<x>>
      BY <1>1, <2>3, ChainFacts
    <3> HIDE DEF x
    <3>2. r = x
      BY <2>2, <3>1
    <3> QED BY <1>1, <2>3, <3>2 DEF MayAsk, x
  <2>4. CASE d \notin vol.contiguous
    <3>1. ChainOf(d) = <<>> \/ ChainOf(d) = vol.runs[d]
      BY <1>1, <2>4, ChainFacts
    <3>2. i \in DOMAIN vol.runs[d] /\ r = vol.runs[d][i]
      BY <2>2, <3>1
    <3> QED BY <1>1, <2>4, <3>2 DEF MayAsk
  <2> QED BY <2>3, <2>4
<1>3. CASE \E d \in Walked : \E k \in Met(d) \cap vol.contiguous : r = vol.runs[k][1]
  <2>1. PICK d \in Walked : \E k \in Met(d) \cap vol.contiguous : r = vol.runs[k][1]
    BY <1>3
  <2>2. PICK k \in Met(d) \cap vol.contiguous : r = vol.runs[k][1]
    BY <2>1
  <2>3. k \in AllKids(d) /\ d \in AllWalked
    BY <1>1, MetFacts
  <2>4. IsClosed(AllWalked, AllContiguous)
    BY ClosedFacts
  <2>5. k \in AllContiguous
    BY <2>3, <2>4 DEF IsClosed
  <2> QED BY <2>2, <2>5 DEF MayAsk
<1> QED BY <1>2, <1>3, DirRangesAre

\* Two of them that have a cluster in common are the same.
LEMMA RangesApart ==
  ASSUME vol \in Volumes, IsTree(vol), NEW r, NEW s, MayAsk(r), MayAsk(s),
         Cells(r) \cap Cells(s) # {}
  PROVE  r = s
<1> DEFINE Walks(x, d)  == d \in AllWalked \ vol.contiguous
           Starts(x, d) == d \in AllWalked \cap vol.contiguous /\ x = <<vol.runs[d][1][1], 1>>
           Lists(x, d)  == d \in AllContiguous /\ x = vol.runs[d][1]
<1>1. ASSUME NEW x, MayAsk(x)
      PROVE  \E d \in DOMAIN vol.runs : \E i \in DOMAIN vol.runs[d] :
               /\ Cells(x) \subseteq Cells(vol.runs[d][i])
               /\ \/ Walks(x, d) /\ x = vol.runs[d][i]
                  \/ Starts(x, d)
                  \/ Lists(x, d)
  <2>1. CASE \E d \in AllWalked \ vol.contiguous : \E i \in DOMAIN vol.runs[d] : x = vol.runs[d][i]
    BY <2>1, ClosedFacts
  <2>2. CASE \E d : Starts(x, d)
    <3>1. PICK d : Starts(x, d)
      BY <2>2
    <3>2. d \in DOMAIN vol.runs /\ 1 \in DOMAIN vol.runs[d] /\ Cells(x) \subseteq Cells(vol.runs[d][1])
      BY <3>1, ClosedFacts, ChainFacts, VolumeFacts
    <3> QED BY <3>1, <3>2
  <2>3. CASE \E d : Lists(x, d)
    <3>1. PICK d : Lists(x, d)
      BY <2>3
    <3>2. d \in DOMAIN vol.runs /\ 1 \in DOMAIN vol.runs[d]
      BY <3>1, ClosedFacts, VolumeFacts
    <3> QED BY <3>1, <3>2
  <2> QED BY <1>1, <2>1, <2>2, <2>3 DEF MayAsk
<1>2. PICK d \in DOMAIN vol.runs : \E i \in DOMAIN vol.runs[d] :
        /\ Cells(r) \subseteq Cells(vol.runs[d][i])
        /\ (Walks(r, d) /\ r = vol.runs[d][i]) \/ Starts(r, d) \/ Lists(r, d)
  BY <1>1
<1>3. PICK e \in DOMAIN vol.runs : \E j \in DOMAIN vol.runs[e] :
        /\ Cells(s) \subseteq Cells(vol.runs[e][j])
        /\ (Walks(s, e) /\ s = vol.runs[e][j]) \/ Starts(s, e) \/ Lists(s, e)
  BY <1>1
<1>4. PICK i \in DOMAIN vol.runs[d] :
        /\ Cells(r) \subseteq Cells(vol.runs[d][i])
        /\ (Walks(r, d) /\ r = vol.runs[d][i]) \/ Starts(r, d) \/ Lists(r, d)
  BY <1>2
<1>5. PICK j \in DOMAIN vol.runs[e] :
        /\ Cells(s) \subseteq Cells(vol.runs[e][j])
        /\ (Walks(s, e) /\ s = vol.runs[e][j]) \/ Starts(s, e) \/ Lists(s, e)
  BY <1>3
<1>6. d = e /\ i = j
  <2>1. Cells(vol.runs[d][i]) \cap Cells(vol.runs[e][j]) # {}
    BY <1>4, <1>5
  <2> QED BY <2>1 DEF IsTree
<1>7. ~(d \in AllWalked /\ d \in AllContiguous) /\ AllContiguous \subseteq vol.contiguous
  BY ClosedFacts
<1> QED BY <1>4, <1>5, <1>6, <1>7

-----------------------------------------------------------------------------
\* What was tried are ranges of the volume, and the passes end when the walk finds
\* no other.
DiscoveryInv ==
  /\ vol \in Volumes /\ passes \in Nat
  /\ \A r \in tried : MayAsk(r)
  /\ stage = "done" => passes = MaxPasses \/ DirRanges \subseteq tried

\* Discovery keeps to the ranges of the directories.
THEOREM DiscoveryInvariant == DiscoverySpec => []DiscoveryInv
<1>1. DiscoveryInit => DiscoveryInv
  BY DEF DiscoveryInit, DiscoveryInv
<1>2. DiscoveryInv /\ [DiscoveryNext]_discovery_vars => DiscoveryInv'
  <2> SUFFICES ASSUME DiscoveryInv, [DiscoveryNext]_discovery_vars PROVE DiscoveryInv'
    OBVIOUS
  <2>0. vol' = vol
    BY DEF DiscoveryNext, ReadMetadata, Pass, EndPasses, Again, discovery_vars
  <2>1. \A r : MayAsk(r)' <=> MayAsk(r)
    BY <2>0 DEF MayAsk, AllWalked, AllContiguous, IsClosed, AllKids
  <2>2. CASE ReadMetadata
    BY <2>0, <2>1, <2>2 DEF DiscoveryInv, ReadMetadata
  <2>3. CASE Pass
    <3>1. \A r \in tried' : MayAsk(r)
      BY <2>3, DirRangesFacts DEF DiscoveryInv, Pass
    <3> QED BY <2>0, <2>1, <2>3, <3>1 DEF DiscoveryInv, Pass
  <2>4. ASSUME rescued' = rescued PROVE DirRanges' = DirRanges
    BY <2>0, <2>4 DEF DirRanges, Walked, WalkedTo, StepsInto, Chained, Whole, Met, Listed, Inside,
                      ChainOf, InImage
  <2>5. CASE EndPasses
    BY <2>0, <2>1, <2>4, <2>5 DEF DiscoveryInv, EndPasses
  <2>6. CASE Again
    BY <2>0, <2>1, <2>6 DEF DiscoveryInv, Again
  <2>7. CASE UNCHANGED discovery_vars
    BY <2>0, <2>1, <2>4, <2>7 DEF DiscoveryInv, discovery_vars
  <2> QED BY <2>2, <2>3, <2>5, <2>6, <2>7 DEF DiscoveryNext
<1> QED BY <1>1, <1>2, PTL DEF DiscoverySpec

\* On a volume whose directories share no cluster, no two passes of a bootstrap ask
\* the drive for the same cluster.
THEOREM DiscoveryAsksOnce ==
  ASSUME \A v \in Volumes : IsTree(v)
  PROVE  DiscoverySpec => AskedOnce
<1>1. DiscoveryInv /\ [DiscoveryNext]_discovery_vars
      => [passes' > passes => CellsOf(domain') \cap CellsOf(tried) = {}]_discovery_vars
  <2> SUFFICES ASSUME DiscoveryInv, DiscoveryNext, passes' > passes
               PROVE  CellsOf(domain') \cap CellsOf(tried) = {}
    OBVIOUS
  <2>1. Pass
    BY DEF DiscoveryNext, ReadMetadata, EndPasses, Again, DiscoveryInv
  <2>2. vol \in Volumes /\ IsTree(vol) /\ \A r \in tried : MayAsk(r)
    BY DEF DiscoveryInv
  <2>3. domain' = DirRanges \ tried
    BY <2>1 DEF Pass
  <2>4. ASSUME NEW r \in domain', NEW s \in tried, Cells(r) \cap Cells(s) # {} PROVE FALSE
    <3>1. MayAsk(r) /\ MayAsk(s)
      BY <2>2, <2>3, DirRangesFacts
    <3>2. r = s
      BY <2>2, <2>4, <3>1, RangesApart
    <3> QED BY <2>3, <3>2
  <2> QED BY <2>4 DEF CellsOf
<1> QED BY <1>1, DiscoveryInvariant, PTL DEF DiscoverySpec, AskedOnce

-----------------------------------------------------------------------------
\* A directory the walk has been in with the runs it has, or one whose run it has
\* asked for.
IsCovered(d, n) ==
  /\ d \in DOMAIN vol.runs /\ vol.index[d] = 0
  /\ \/ d \in WalkedTo[n] /\ ChainOf(d) = vol.runs[d]
     \/ d \in vol.contiguous /\ \E m \in 0..MaxDepth : m + 1 = n /\ \E e \in WalkedTo[m] : d \in Met(e)

\* The walk goes on from where it has been.
LEMMA WalkedGrows ==
  ASSUME NEW m \in Nat, m + 1 \in 1..MaxDepth
  PROVE  /\ WalkedTo[m] \subseteq WalkedTo[m + 1]
         /\ \A d \in WalkedTo[m] : StepsInto(d) \subseteq WalkedTo[m + 1]
<1>1. WalkedTo[m + 1] = WalkedTo[m] \cup UNION {StepsInto(d) : d \in WalkedTo[m]}
  <2>1. (m + 1) - 1 = m
    OBVIOUS
  <2> QED BY <2>1, WalkedFacts
<1> QED BY <1>1

\* It has been everywhere in the end.
LEMMA WalkedAtLast ==
  ASSUME NEW n \in 0..MaxDepth
  PROVE  WalkedTo[n] \subseteq Walked
<1> DEFINE N == {m \in Nat : n + m <= MaxDepth => WalkedTo[n] \subseteq WalkedTo[n + m]}
<1>0. MaxDepth \in Nat /\ n \in Nat /\ n <= MaxDepth /\ n + 0 = n
  BY VolumeAssumption
<1>1. 0 \in N
  BY <1>0
<1>2. ASSUME NEW m \in N PROVE m + 1 \in N
  <2>1. CASE n + (m + 1) <= MaxDepth
    <3>1. m \in Nat /\ n + m \in Nat /\ n + m <= MaxDepth /\ (n + m) + 1 \in 1..MaxDepth
          /\ (n + m) + 1 = n + (m + 1)
      BY <1>0, <2>1
    <3>2. WalkedTo[n] \subseteq WalkedTo[n + m]
      BY <3>1
    <3>3. WalkedTo[n + m] \subseteq WalkedTo[(n + m) + 1]
      BY <3>1, WalkedGrows
    <3>4. WalkedTo[n] \subseteq WalkedTo[n + (m + 1)]
      BY <3>1, <3>2, <3>3
    <3> QED BY <3>1, <3>4
  <2> QED BY <2>1
<1>3. N = Nat
  <2>1. N \in SUBSET Nat
    OBVIOUS
  <2> HIDE DEF N
  <2> QED BY <1>1, <1>2, <2>1, Induction
<1>4. MaxDepth - n \in N /\ n + (MaxDepth - n) = MaxDepth
  <2> HIDE DEF N
  <2> QED BY <1>0, <1>3
<1> QED BY <1>0, <1>4 DEF Walked

\* Where every range the walk asks for ends in the image, a covered directory is
\* read as the tree builder reads it, and so covers the directories it lists.
LEMMA CoveredStep ==
  ASSUME vol \in Volumes, \A r \in DirRanges : InImage(r),
         NEW m \in Nat, m + 1 \in 1..MaxDepth, NEW p, IsCovered(p, m),
         NEW d \in Listed(BuilderRuns(p)), ~OutOfReach(d, p)
  PROVE  IsCovered(d, m + 1)
<1>0. MaxDepth \in Nat /\ m \in 0..MaxDepth
  BY VolumeAssumption
<1>1. /\ p \in DOMAIN vol.runs /\ BuilderRuns(p) = vol.runs[p]
      /\ d \in Listed(vol.runs[p])
  BY DEF IsCovered, BuilderRuns
<1>2. d \in DOMAIN vol.runs /\ vol.index[d] = 0
  <2>1. d \in DOMAIN vol.runs
    BY <1>1, ListedFacts, VolumeFacts
  <2> QED BY <2>1 DEF OutOfReach
<1>3. d \notin vol.contiguous => ChainOf(d) = vol.runs[d]
  BY <1>2 DEF ChainOf
<1>4. CASE p \in WalkedTo[m] /\ ChainOf(p) = vol.runs[p]
  <2>1. p \in Walked
    BY <1>0, <1>4, WalkedAtLast
  <2>2. \A i \in DOMAIN vol.runs[p] : InImage(vol.runs[p][i])
    BY <1>4, <2>1, DirRangesAre
  <2>3. Inside(vol.runs[p]) = vol.runs[p]
    <3>1. vol.runs[p] = [i \in DOMAIN vol.runs[p] |-> vol.runs[p][i]]
      BY <1>1, VolumeFacts DEF Runs
    <3> QED BY <2>2, <3>1 DEF Inside
  <2>4. d \in Met(p)
    BY <1>1, <1>4, <2>3 DEF Met
  <2>5. CASE d \in vol.contiguous
    BY <1>0, <1>2, <1>4, <2>4, <2>5 DEF IsCovered
  <2>6. CASE d \notin vol.contiguous
    <3>1. d \in WalkedTo[m + 1]
      BY <1>4, <2>4, <2>6, WalkedGrows DEF StepsInto, Chained
    <3> QED BY <1>2, <1>3, <2>6, <3>1 DEF IsCovered
  <2> QED BY <2>5, <2>6
<1>5. ASSUME p \in vol.contiguous, NEW l \in 0..MaxDepth, l + 1 = m, NEW e \in WalkedTo[l], p \in Met(e)
      PROVE  IsCovered(d, m + 1)
  <2>1. e \in Walked
    BY <1>5, WalkedAtLast
  <2>2. vol.runs[p][1] \in DirRanges
    BY <1>5, <2>1, DirRangesAre
  <2>3. d \in StepsInto(e)
    BY <1>1, <1>5, <2>2 DEF StepsInto, Whole
  <2>4. d \in WalkedTo[m + 1]
    <3>1. l \in Nat /\ l + 1 \in 1..MaxDepth
      BY <1>0, <1>5
    <3>2. d \in WalkedTo[m]
      BY <1>5, <2>3, <3>1, WalkedGrows
    <3> QED BY <3>2, WalkedGrows
  <2>5. ChainOf(d) = vol.runs[d]
    <3>1. CASE d \in vol.contiguous
      <4> DEFINE run == vol.runs[d][1]
      <4>1. ~(run[2] > 1)
        BY <1>5, <3>1 DEF OutOfReach
      <4>2. run \in (Nat \ {0}) \X (Nat \ {0}) /\ Len(vol.runs[d]) = 1 /\ vol.runs[d] \in Runs
        BY <3>1, VolumeFacts
      <4>3. ChainOf(d) = <<<<run[1], 1>>>>
        BY <3>1 DEF ChainOf
      <4>4. vol.runs[d] = <<run>>
        BY <4>2 DEF Runs
      <4>5. run = <<run[1], run[2]>> /\ run[2] = 1
        BY <4>1, <4>2
      <4> HIDE DEF run
      <4> QED BY <4>3, <4>4, <4>5
    <3> QED BY <1>3, <3>1
  <2> QED BY <1>2, <2>4, <2>5 DEF IsCovered
<1> QED BY <1>4, <1>5 DEF IsCovered

\* Every directory of the tree is covered.
LEMMA BuiltIsCovered ==
  ASSUME vol \in Volumes, \A r \in DirRanges : InImage(r), NEW n \in 0..MaxDepth, NEW d \in BuiltTo[n]
  PROVE  \E m \in 0..MaxDepth : IsCovered(d, m)
<1> DEFINE N == {m \in Nat : m \in 0..MaxDepth =>
                   \A k \in BuiltTo[m] : \E l \in 0..m : IsCovered(k, l)}
<1>0. MaxDepth \in Nat
  BY VolumeAssumption
<1>1. 0 \in N
  <2>1. ASSUME NEW k \in BuiltTo[0] PROVE IsCovered(k, 0)
    <3>1. k = vol.root /\ vol.index[k] = 0
      BY BuiltFacts
    <3>2. k \in DOMAIN vol.runs /\ ChainOf(k) = vol.runs[k]
      BY <3>1, VolumeFacts DEF ChainOf
    <3>3. k \in WalkedTo[0]
      BY <3>1, WalkedFacts
    <3> QED BY <3>1, <3>2, <3>3 DEF IsCovered
  <2> QED BY <2>1
<1>2. ASSUME NEW m \in N PROVE m + 1 \in N
  <2>1. CASE m + 1 \in 0..MaxDepth
    <3>1. m \in Nat /\ m \in 0..MaxDepth /\ m + 1 \in 1..MaxDepth /\ (m + 1) - 1 = m
      BY <1>0, <2>1
    <3>2. \A k \in BuiltTo[m] : \E l \in 0..m : IsCovered(k, l)
      BY <3>1
    <3>3. ASSUME NEW k \in BuiltTo[m + 1] PROVE \E l \in 0..(m + 1) : IsCovered(k, l)
      <4>1. BuiltTo[m + 1] = BuiltTo[m] \cup
              UNION {{x \in Listed(BuilderRuns(p)) : ~OutOfReach(x, p)} : p \in BuiltTo[m]}
        BY <3>1, BuiltFacts
      <4>2. CASE k \in BuiltTo[m]
        BY <3>1, <3>2, <4>2
      <4>3. CASE \E p \in BuiltTo[m] : k \in Listed(BuilderRuns(p)) /\ ~OutOfReach(k, p)
        <5>1. PICK p \in BuiltTo[m] : k \in Listed(BuilderRuns(p)) /\ ~OutOfReach(k, p)
          BY <4>3
        <5>2. PICK l \in 0..m : IsCovered(p, l)
          BY <3>2
        <5>3. l \in Nat /\ l + 1 \in 1..MaxDepth /\ l + 1 \in 0..(m + 1)
          BY <1>0, <3>1
        <5>4. IsCovered(k, l + 1)
          BY <5>1, <5>2, <5>3, CoveredStep
        <5> QED BY <5>3, <5>4
      <4> QED BY <4>1, <4>2, <4>3
    <3> QED BY <3>1, <3>3
  <2> QED BY <2>1
<1>3. N = Nat
  <2>1. N \in SUBSET Nat
    OBVIOUS
  <2> HIDE DEF N
  <2> QED BY <1>1, <1>2, <2>1, Induction
<1>4. PICK l \in 0..n : IsCovered(d, l)
  BY <1>0, <1>3
<1> QED BY <1>0, <1>4

\* When the passes end, every directory the tree builders list was asked for,
\* whatever was read and whatever else was listed.
THEOREM DiscoveryMapsTree == DiscoverySpec => []TreeMappedInside
<1>1. DiscoveryInv => TreeMappedInside
  <2> SUFFICES ASSUME DiscoveryInv, stage = "done", passes < MaxPasses, \A r \in tried : InImage(r),
                      NEW d \in BuiltDirs
               PROVE  Mapped(d)
    BY DEF TreeMappedInside
  <2>1. vol \in Volumes /\ DirRanges \subseteq tried
    <3>1. passes # MaxPasses
      BY VolumeAssumption DEF DiscoveryInv
    <3> QED BY <3>1 DEF DiscoveryInv
  <2>2. PICK n \in 0..MaxDepth : IsCovered(d, n)
    <3>1. MaxDepth \in 0..MaxDepth /\ d \in BuiltTo[MaxDepth]
      BY VolumeAssumption DEF BuiltDirs
    <3> QED BY <2>1, <3>1, BuiltIsCovered
  <2>3. ASSUME NEW i \in DOMAIN vol.runs[d] PROVE vol.runs[d][i] \in tried
    <3>1. CASE d \in WalkedTo[n] /\ ChainOf(d) = vol.runs[d]
      <4>1. d \in Walked
        BY <3>1, WalkedAtLast
      <4> QED BY <2>1, <3>1, <4>1, DirRangesAre
    <3>2. ASSUME d \in vol.contiguous, NEW m \in 0..MaxDepth, NEW e \in WalkedTo[m], d \in Met(e)
          PROVE  vol.runs[d][i] \in tried
      <4>1. e \in Walked /\ i = 1
        BY <2>1, <3>2, WalkedAtLast, VolumeFacts
      <4> QED BY <2>1, <3>2, <4>1, DirRangesAre
    <3> QED BY <2>2, <3>1, <3>2 DEF IsCovered
  <2> QED BY <2>3 DEF Mapped, CellsOf, Range
<1> QED BY <1>1, DiscoveryInvariant, PTL
=============================================================================
