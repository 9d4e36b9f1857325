--------------------------- MODULE RecoveryProofs ---------------------------
(***************************************************************************)
(* For any drive, tree and sequence of sessions: the copies of the mapfile *)
(* never run ahead of the image, a verdict never ahead of the mapfile, and *)
(* Recovery implements ProgressiveImage.                                   *)
(***************************************************************************)
EXTENDS Recovery, TLAPS

LEMMA InitIInv == Init => IInv
<1> SUFFICES ASSUME Init PROVE IInv
  OBVIOUS
<1>1. Records = {} /\ DOMAIN results = {}
  BY DEF Init, Records, NoOption, NoResult
<1>2. opt \in Option /\ report \in Report
  BY DEF Init, NoOption, NoReport, Option, Report
<1>3. TypeOK
  BY <1>1, <1>2, RecoveryAssumption DEF Init, TypeOK
<1> QED
  BY <1>1, <1>3 DEF Init, IInv, MapBehindImage, SessionInv, VerdictInv, Certified,
     MountReleased, Try

LEMMA DataInSectors ==
  ASSUME TypeOK, NEW f \in Files PROVE Data(f) \subseteq Sectors
<1>1. layout[f].runs \in Seq(SUBSET Sectors)
  BY RecoveryAssumption DEF TypeOK, FileRecord
<1>2. \A k \in DOMAIN layout[f].runs : layout[f].runs[k] \in SUBSET Sectors
  BY <1>1
<1> QED
  BY <1>2 DEF Data

-----------------------------------------------------------------------------
\* What the end of a session leaves.
LEMMA EndSessionInv ==
  ASSUME IInv, EndSession, UNCHANGED drive,
         image' \in SUBSET Sectors, saved' \in SUBSET image',
         output' \in [Files -> {"none", "whole", "holes"}],
         report' \in Report, fuse' \in BOOLEAN, abandoned' \in BOOLEAN,
         fuse' => bitlocker /\ abandoned'
  PROVE  IInv'
<1>1. DOMAIN results' = {}
  BY DEF EndSession, NoResult
<1>2. opt' \in Option
  BY DEF EndSession, NoOption, Option
<1>3. TypeOK'
  BY <1>1, <1>2 DEF IInv, TypeOK, EndSession, drive
<1>4. MapBehindImage' /\ SessionInv'
  BY DEF EndSession, MapBehindImage, SessionInv, Try, drive, mapKnown
<1>5. VerdictInv' /\ Certified' /\ MountReleased'
  BY <1>1 DEF VerdictInv, Certified, MountReleased
<1> QED
  BY <1>3, <1>4, <1>5 DEF IInv

\* A verdict stays true as long as the mapfile only grows.
LEMMA VerdictsStay ==
  ASSUME IInv, UNCHANGED <<drive, opt, results, output>>, saved \subseteq saved'
  PROVE  VerdictInv' /\ Certified'
<1>1. Records' = Records /\ Content' = Content /\ mapKnown' = mapKnown
  BY DEF Records, Content, Data, mapKnown, drive
<1> QED
  BY <1>1 DEF IInv, VerdictInv, Certified

\* A file is called complete only if it comes out whole: every run was rescued,
\* hence in the image, or the file has none.
LEMMA CompleteIsWhole ==
  ASSUME IInv, NEW f \in Files, HasData(f), Complete(f), mapKnown
  PROVE  Written(f) = "whole" /\ Content[f] \subseteq saved
<1>1. layout[f] \in FileRecord
  BY RecoveryAssumption DEF IInv, TypeOK
<1>2. CASE layout[f].resident
  BY <1>2 DEF Written, Content
<1>3. CASE ~layout[f].resident /\ layout[f].runs = <<>>
  <2>1. Data(f) = {}
    BY <1>3 DEF Data
  <2> QED
    BY <1>3, <2>1 DEF HasData, Written, Content
<1>4. CASE ~layout[f].resident /\ layout[f].runs # <<>>
  <2>1. Gaps(f) = {} /\ layout[f].size \in {"zero", "within"}
    BY <1>1, <1>4 DEF Complete, FileRecord
  <2>2. Data(f) \subseteq mapfile
    BY <2>1 DEF Gaps, Data
  <2>3. mapfile \subseteq saved /\ saved \subseteq image
    BY DEF IInv, MapBehindImage
  <2> QED
    BY <2>1, <2>2, <2>3 DEF Written, Content
<1> QED
  BY <1>2, <1>3, <1>4

LEMMA ExtractInv ==
  ASSUME IInv, NEW f \in Files, Extract(f)
  PROVE  IInv'
<1> USE DEF drive
<1>1. PICK r \in Verdict :
        /\ results' = WithResult(f, r)
        /\ \/ /\ HasData(f) /\ output' = [output EXCEPT ![f] = Written(f)]
              /\ r.complete = Complete(f)
           \/ output' \in Torn(f) /\ r.complete = FALSE
  <2>1. CASE HasData(f) /\ output' = [output EXCEPT ![f] = Written(f)]
             /\ results' = WithResult(f, Result(Complete(f), layout[f].size # "zero", FALSE))
    <3>1. Result(Complete(f), layout[f].size # "zero", FALSE) \in Verdict
      <4>1. Complete(f) \in BOOLEAN /\ (layout[f].size # "zero") \in BOOLEAN
        BY RecoveryAssumption DEF Complete, IInv, TypeOK, FileRecord
      <4> QED
        BY <4>1 DEF Result, Verdict
    <3> QED
      BY <2>1, <3>1 DEF Result
  <2>2. CASE output' \in Torn(f) /\ results' = WithResult(f, Result(FALSE, FALSE, TRUE))
    <3>1. Result(FALSE, FALSE, TRUE) \in Verdict
      BY DEF Result, Verdict
    <3> QED
      BY <2>2, <3>1 DEF Result
  <2> QED
    BY <2>1, <2>2 DEF Extract
<1>2. f \in Records /\ f \notin DOMAIN results
  BY DEF Extract, IsNext, Remaining
<1>3. /\ DOMAIN results' = DOMAIN results \cup {f} /\ results'[f] = r
      /\ \A g \in DOMAIN results : results'[g] = results[g]
  BY <1>1, <1>2 DEF WithResult
<1>4. /\ output' \in [Files -> {"none", "whole", "holes"}]
      /\ \A g \in Files \ {f} : output'[g] = output[g]
  BY <1>1 DEF Torn, Written, IInv, TypeOK
<1>5. TypeOK'
  BY <1>3, <1>4 DEF Extract, IInv, TypeOK
<1>6. Records' = Records /\ Content' = Content /\ mapKnown' = mapKnown
  BY DEF Extract, Records, Content, Data, mapKnown
<1>7. r.complete /\ mapKnown => output'[f] = "whole" /\ Content[f] \subseteq saved
  BY <1>1, CompleteIsWhole DEF IInv, TypeOK
<1>8. VerdictInv' /\ Certified'
  BY <1>2, <1>3, <1>4, <1>6, <1>7 DEF Extract, IInv, TypeOK, VerdictInv, Certified
<1> QED
  BY <1>5, <1>6, <1>8 DEF Extract, IInv, MapBehindImage, SessionInv, MountReleased

LEMMA StepIInv == IInv /\ [Next]_vars => IInv'
<1> SUFFICES ASSUME IInv, [Next]_vars PROVE IInv'
  OBVIOUS
<1> USE DEF drive
<1>1. CASE UNCHANGED vars
  <2>1. VerdictInv' /\ Certified'
    BY <1>1, VerdictsStay DEF vars, session
  <2> QED
    BY <1>1, <2>1 DEF vars, session, IInv, TypeOK, MapBehindImage, SessionInv,
       MountReleased, mapKnown
<1>2. ASSUME NEW o \in Options, Start(o) PROVE IInv'
  <2>1. results = NoResult /\ results' = results /\ DOMAIN results' = {}
    BY <1>2 DEF Start, IInv, SessionInv, NoResult
  <2>2. TypeOK'
    BY <1>2, <2>1, RecoveryAssumption DEF Start, IInv, TypeOK, MapBehindImage, Try
  <2>3. MapBehindImage' /\ SessionInv' /\ MountReleased'
    BY <1>2, <2>1 DEF Start, IInv, TypeOK, MapBehindImage, SessionInv, MountReleased,
       Try, mapKnown
  <2> QED
    BY <2>1, <2>2, <2>3 DEF IInv, VerdictInv, Certified
<1>3. CASE Mount
  <2>1. VerdictInv' /\ Certified'
    BY <1>3, VerdictsStay DEF Mount, session
  <2>2. bitlocker /\ fuse' = TRUE /\ pc' = "plan"
    BY <1>3 DEF Mount, IInv, SessionInv
  <2> QED
    BY <1>3, <2>1, <2>2 DEF Mount, session, IInv, TypeOK, MapBehindImage, SessionInv,
       MountReleased, Try, mapKnown
<1>4. CASE Plan
  <2>1. VerdictInv' /\ Certified'
    BY <1>4, VerdictsStay DEF Plan
  <2>2. domain' \in SUBSET Sectors
    <3>1. \A f \in Records : Data(f) \subseteq Sectors
      BY DataInSectors DEF Records, IInv, TypeOK, Option
    <3>2. Needed(Records) \subseteq Sectors
      BY <3>1 DEF Needed
    <3> QED
      BY <1>4, <3>2 DEF Plan
  <2>3. /\ fuse' \in BOOLEAN /\ abandoned' \in BOOLEAN
        /\ fuse' => fuse /\ (abandoned' \/ pc' = "confirm")
    BY <1>4 DEF Plan, Unmount, IInv, TypeOK, SessionInv
  <2> QED
    BY <1>4, <2>1, <2>2, <2>3 DEF Plan, IInv, TypeOK, MapBehindImage, SessionInv,
       MountReleased, Try, mapKnown
<1>5. CASE Confirm
  <2>1. VerdictInv' /\ Certified'
    BY <1>5, VerdictsStay DEF Confirm
  <2> QED
    BY <1>5, <2>1 DEF Confirm, IInv, TypeOK, MapBehindImage, SessionInv,
       MountReleased, Try, mapKnown
<1>6. ASSUME NEW s \in Sectors, ReadSector(s) PROVE IInv'
  <2>1. VerdictInv' /\ Certified'
    BY <1>6, VerdictsStay DEF ReadSector
  <2> QED
    BY <1>6, <2>1 DEF ReadSector, IInv, TypeOK, MapBehindImage, SessionInv,
       MountReleased, Try, mapKnown
<1>7. CASE SaveMap \/ PassSucceeds \/ PassFails \/ RetryEnds
  <2>1. UNCHANGED <<drive, opt, results, output, mapfile, image, ddmap, report, fuse,
                    abandoned, domain, assessed>>
    BY <1>7 DEF SaveMap, PassSucceeds, PassFails, RetryEnds, session
  <2>2. saved' \in {saved, ddmap} /\ success' \in BOOLEAN
    BY <1>7 DEF SaveMap, PassSucceeds, PassFails, RetryEnds, session, IInv, TypeOK
  <2>3. pc \in {"pass", "retry"} /\ pc' \in {pc, "retry", "reload"}
    BY <1>7 DEF SaveMap, PassSucceeds, PassFails, RetryEnds
  <2>4. saved \subseteq saved'
    BY <2>2, <2>3 DEF IInv, MapBehindImage
  <2>5. VerdictInv' /\ Certified'
    BY <2>1, <2>4, VerdictsStay
  <2> QED
    BY <2>1, <2>2, <2>3, <2>4, <2>5 DEF IInv, TypeOK, MapBehindImage, SessionInv,
       MountReleased, Try, mapKnown
<1>8. CASE Reload
  <2>1. VerdictInv' /\ Certified'
    BY <1>8, VerdictsStay DEF Reload
  <2>2. assessed' \in SUBSET Files
    BY <1>8 DEF Reload, Records, IInv, TypeOK, Option
  <2>3. fuse' \in BOOLEAN /\ abandoned' \in BOOLEAN /\ (fuse' => fuse /\ abandoned')
    <3>1. Unmount /\ fuse \in BOOLEAN /\ abandoned \in BOOLEAN /\ (fuse => bitlocker)
      BY <1>8 DEF Reload, IInv, TypeOK, SessionInv
    <3>2. CASE bitlocker /\ fuse' = FALSE /\ abandoned' = abandoned
      BY <3>1, <3>2
    <3>3. CASE fuse' = fuse /\ abandoned' = TRUE
      BY <3>1, <3>3
    <3>4. CASE ~bitlocker /\ fuse' = fuse /\ abandoned' = abandoned
      <4>1. fuse = FALSE
        BY <3>1, <3>4
      <4> QED
        BY <3>1, <3>4, <4>1
    <3> QED
      BY <3>1, <3>2, <3>3, <3>4 DEF Unmount
  <2> QED
    BY <1>8, <2>1, <2>2, <2>3 DEF Reload, IInv, TypeOK, MapBehindImage, SessionInv,
       MountReleased, Try, mapKnown
<1>9. ASSUME NEW f \in Files, Extract(f) PROVE IInv'
  BY <1>9, ExtractInv
<1>10. CASE MountFails \/ MountTimesOut \/ DryRun \/ Decline \/ WriteReport
            \/ Interrupt \/ Crash
  <2>1. EndSession /\ UNCHANGED <<drive, image>>
    BY <1>10 DEF MountFails, MountTimesOut, DryRun, Decline, WriteReport, Interrupt, Crash
  <2>2. image' \in SUBSET Sectors /\ saved' \in SUBSET image'
    BY <1>10, <2>1 DEF MountFails, MountTimesOut, DryRun, Decline, WriteReport, Interrupt,
       Crash, IInv, TypeOK, MapBehindImage
  <2>3. output' \in [Files -> {"none", "whole", "holes"}]
    BY <1>10 DEF MountFails, MountTimesOut, DryRun, Decline, WriteReport, Interrupt,
       Crash, StopWriting, Torn, IInv, TypeOK
  <2>4. report' \in Report
    <3>1. CASE WriteReport
      <4>1. DOMAIN results \subseteq Files /\ mapKnown \in BOOLEAN
        BY DEF IInv, TypeOK, mapKnown
      <4> QED
        BY <3>1, <4>1 DEF WriteReport, Report
    <3>2. CASE ~WriteReport
      BY <1>10, <3>2 DEF MountFails, MountTimesOut, DryRun, Decline, Interrupt, Crash,
         IInv, TypeOK
    <3> QED
      BY <3>1, <3>2
  <2>5. fuse' \in BOOLEAN /\ abandoned' \in BOOLEAN
    BY <1>10 DEF MountFails, MountTimesOut, DryRun, Decline, WriteReport, Interrupt,
       Crash, Unmount, IInv, TypeOK
  <2>6. ASSUME fuse' PROVE bitlocker /\ abandoned'
    BY <1>10, <2>6 DEF MountFails, MountTimesOut, DryRun, Decline, WriteReport, Interrupt,
       Crash, Unmount, IInv, TypeOK, SessionInv, MountReleased, Try
  <2> QED
    BY <2>1, <2>2, <2>3, <2>4, <2>5, <2>6, EndSessionInv
<1>11. CASE CleanUp
  <2>1. VerdictInv' /\ Certified'
    BY <1>11, VerdictsStay DEF CleanUp, session
  <2> QED
    BY <1>11, <2>1 DEF CleanUp, session, IInv, TypeOK, MapBehindImage, SessionInv,
       MountReleased, Try, mapKnown
<1> QED
  BY <1>1, <1>2, <1>3, <1>4, <1>5, <1>6, <1>7, <1>8, <1>9, <1>10, <1>11
  DEF Next, Program
-----------------------------------------------------------------------------
\* The inductive invariant of the session, for any drive and any options.
THEOREM RecoveryInvariant == Spec => []IInv
<1> QED
  BY InitIInv, StepIInv, PTL DEF Spec

\* What extract_file calls complete with a mapfile at hand is whole on disk.
THEOREM RecoveryCertified == Spec => []Certified
<1>1. IInv => Certified
  BY DEF IInv
<1> QED
  BY <1>1, RecoveryInvariant, PTL

\* A mount is left behind only by a session that was killed, whose mount timed out
\* or whose unmount failed: every way out of the try block has tried it.
THEOREM RecoveryMountReleased == Spec => []MountReleased
<1>1. IInv => MountReleased
  BY DEF IInv
<1> QED
  BY <1>1, RecoveryInvariant, PTL

\* plan_recovery asks the drive for what the selection needs and the mapfile on
\* disk has not: the copy parsed at the start of the session is not stale yet.
LEMMA StepAsks ==
  ASSUME IInv, Next, pc' = "confirm"
  PROVE  domain' = {s \in Sectors \ saved : \E f \in opt.selected : s \in Content[f]}
<1>1. CASE Plan
  <2>1. mapfile = saved /\ domain' = Needed(Records) \ mapfile
    BY <1>1 DEF Plan, IInv, SessionInv
  <2>2. opt.selected \subseteq Files
    BY DEF IInv, TypeOK, Option
  <2>3. \A s : s \in Needed(Records) <=> \E f \in opt.selected : s \in Content[f]
    BY <2>2 DEF Needed, Records, Content
  <2>4. Needed(Records) \subseteq Sectors
    BY <2>2, <2>3, DataInSectors DEF Content, IInv
  <2> QED
    BY <2>1, <2>3, <2>4
<1>2. CASE \E o \in Options : Start(o)
  BY <1>2 DEF Start
<1>3. CASE ~Plan /\ ~\E o \in Options : Start(o)
  BY <1>3 DEF Next, Program, ReadSector, Mount, MountFails, DryRun, Reload, WriteReport,
     PassSucceeds, PassFails, RetryEnds, Extract, Confirm, Decline, SaveMap,
     MountTimesOut, Interrupt, Crash, CleanUp, EndSession
<1> QED
  BY <1>1, <1>2, <1>3

\* The same, of the specification (plan_recovery).
THEOREM RecoveryAsksForWhatIsMissing == Spec => AsksForWhatIsMissing
<1>1. IInv /\ [Next]_vars =>
        [pc' = "confirm" =>
           domain' = {s \in Sectors \ saved : \E f \in opt.selected : s \in Content[f]}]_vars
  BY StepAsks
<1> QED
  BY <1>1, RecoveryInvariant, PTL DEF Spec, AsksForWhatIsMissing

-----------------------------------------------------------------------------
\* Every step of a session is a step of ProgressiveImage, or none.
LEMMA InitImplements == Init => Promise!Init
<1> SUFFICES ASSUME Init PROVE Promise!Init
  OBVIOUS
<1>1. TypeOK
  BY InitIInv DEF IInv
<1>2. Content \in [Files -> SUBSET Sectors]
  BY <1>1, DataInSectors DEF Content
<1> QED
  BY <1>2 DEF Init, Promise!Init, NoReport

LEMMA StepImplements == IInv /\ [Next]_vars => [Promise!Next]_Promise!vars
<1> SUFFICES ASSUME IInv, [Next]_vars PROVE [Promise!Next]_Promise!vars
  OBVIOUS
<1>1. Content' = Content
  <2>1. layout' = layout
    BY DEF Next, Program, vars, drive, Start, ReadSector, Mount, MountFails, Plan,
       DryRun, Reload, WriteReport, PassSucceeds, PassFails, RetryEnds, Extract, Confirm,
       Decline, SaveMap, MountTimesOut, Interrupt, Crash, CleanUp
  <2> QED
    BY <2>1 DEF Content, Data
<1>2. CASE WriteReport
  <2>1. report'.checked = mapKnown /\ report'.complete = {f \in DOMAIN results : results[f].complete}
    BY <1>2 DEF WriteReport
  <2>2. report'.checked =>
          report'.complete \in SUBSET {f \in Files : Content[f] \subseteq saved}
    BY <2>1 DEF IInv, TypeOK, VerdictInv
  <2>3. Promise!Certify
    BY <1>1, <1>2, <2>2 DEF Promise!Certify, WriteReport
  <2> QED
    BY <2>3 DEF Promise!Next
<1>3. CASE ~WriteReport
  <2>1. UNCHANGED report
    BY <1>3 DEF Next, Program, vars, drive, Start, ReadSector, Mount, MountFails, Plan,
       DryRun, Reload, PassSucceeds, PassFails, RetryEnds, Extract, Confirm,
       Decline, SaveMap, MountTimesOut, Interrupt, Crash, CleanUp
  <2>2. image' \in SUBSET Sectors /\ saved' \in SUBSET image'
    BY StepIInv DEF IInv, TypeOK, MapBehindImage
  <2>3. image \subseteq image' /\ saved \subseteq saved'
    BY <1>3 DEF Next, Program, vars, drive, Start, ReadSector, Mount, MountFails, Plan,
       DryRun, Reload, PassSucceeds, PassFails, RetryEnds, Extract, Confirm,
       Decline, SaveMap, MountTimesOut, Interrupt, Crash, CleanUp, IInv, MapBehindImage
  <2>4. Promise!Gain
    BY <1>1, <2>1, <2>2, <2>3 DEF Promise!Gain
  <2> QED
    BY <2>4 DEF Promise!Next
<1> QED
  BY <1>2, <1>3

\* What a session does to the image, the mapfile and the report is what
\* ProgressiveImage promises.
THEOREM RecoveryImplements == Spec => ImplementsProgressiveImage
<1> QED
  BY InitImplements, StepImplements, RecoveryInvariant, PTL
  DEF Spec, ImplementsProgressiveImage, Promise!Spec
-----------------------------------------------------------------------------
\* The end of a session keeps PassInv: nothing is left of the session.
LEMMA EndSessionPassInv == ASSUME EndSession PROVE PassInv'
BY DEF EndSession, PassInv, NoResult

\* So does a step that leaves the locals of the session alone and loses
\* nothing of the mapfile on disk.
LEMMA PassInvStays ==
  ASSUME PassInv, IInv, UNCHANGED <<drive, opt, mapfile, domain, success, assessed, results>>,
         saved \subseteq saved', success \/ pc = "extract" => pc' = pc,
         pc = "extract" => saved' = saved,
         pc' \in {"confirm", "pass", "retry", "reload"} =>
           pc \in {"confirm", "pass", "retry", "reload"}
  PROVE  PassInv'
<1>1. /\ Records' = Records /\ Needed(Records)' = Needed(Records)
      /\ \A f : Assess(f, mapfile)' <=> Assess(f, mapfile)
  BY DEF drive, Records, Needed, Data, Assess
<1>2. good' = good /\ mapfile' = mapfile /\ domain' = domain /\ results' = results
      /\ success' = success /\ assessed' = assessed
  BY DEF drive
<1>3. success' => /\ pc' \in {"retry", "reload", "extract"}
                  /\ Needed(Records)' \cap good' \subseteq saved'
                  /\ pc' = "extract" => mapfile' = saved'
  BY <1>1, <1>2 DEF PassInv
<1>4. \A f \in assessed' : pc' = "extract" /\ f \in Records' /\ Assess(f, mapfile)'
  BY <1>1, <1>2 DEF PassInv
<1>5. \A f \in DOMAIN results' : results'[f].error \/ results'[f].complete = Complete(f)'
  <2> SUFFICES ASSUME NEW f \in DOMAIN results, ~results[f].error
               PROVE  results[f].complete = Complete(f)'
    BY <1>2
  <2>1. Complete(f)' = Complete(f)
    BY DEF drive, Complete, Gaps, mapKnown
  <2> QED BY <2>1 DEF PassInv
<1>6. pc' \in {"confirm", "pass", "retry", "reload"} => domain' = Needed(Records)' \ mapfile'
  BY <1>1, <1>2 DEF PassInv
<1> QED
  BY <1>3, <1>4, <1>5, <1>6 DEF PassInv

\* What each step does to the plan, the assessment and the verdicts.
LEMMA StepPassInv == IInv /\ PassInv /\ [Next]_vars => PassInv'
<1> SUFFICES ASSUME IInv, PassInv, [Next]_vars PROVE PassInv'
  OBVIOUS
<1> USE DEF drive
<1>1. CASE UNCHANGED vars \/ CleanUp \/ Mount
  BY <1>1, PassInvStays DEF vars, session, CleanUp, Mount, PassInv
<1>2. ASSUME NEW o \in Options, Start(o) PROVE PassInv'
  <2>1. results' = NoResult /\ assessed' = {} /\ success' = FALSE
    BY <1>2 DEF Start, IInv, SessionInv, PassInv
  <2> QED BY <1>2, <2>1 DEF Start, PassInv, NoResult
<1>3. CASE Plan
  <2>1. results' = NoResult /\ assessed' = {} /\ success' = FALSE
    BY <1>3 DEF Plan, IInv, SessionInv, PassInv, TypeOK
  <2>2. Records' = Records /\ Needed(Records)' = Needed(Records) /\ mapfile' = mapfile
    BY <1>3 DEF Plan, Records, Needed, Data
  <2>3. domain' = Needed(Records) \ mapfile
    BY <1>3 DEF Plan
  <2> QED BY <2>1, <2>2, <2>3 DEF PassInv, NoResult
<1>4. CASE Confirm
  BY <1>4, PassInvStays DEF Confirm, PassInv
<1>5. ASSUME NEW s \in Sectors, ReadSector(s) PROVE PassInv'
  BY <1>5, PassInvStays DEF ReadSector
<1>6. CASE SaveMap
  BY <1>6, PassInvStays DEF SaveMap, session, IInv, MapBehindImage
<1>7. CASE PassSucceeds
  <2>1. /\ Records' = Records /\ Needed(Records)' = Needed(Records)
        /\ mapfile' = mapfile /\ domain' = domain /\ good' = good
    BY <1>7 DEF PassSucceeds, Records, Needed, Data
  <2>2. results' = NoResult /\ assessed' = {}
    BY <1>7 DEF PassSucceeds, IInv, SessionInv, PassInv
  <2>3. domain = Needed(Records) \ mapfile /\ mapfile \subseteq saved /\ saved \subseteq ddmap
    BY <1>7 DEF PassSucceeds, PassInv, IInv, MapBehindImage
  <2>4. Needed(Records) \cap good \subseteq saved'
    BY <1>7, <2>3 DEF PassSucceeds
  <2>5. pc' \in {"retry", "reload"}
    BY <1>7 DEF PassSucceeds
  <2> QED BY <2>1, <2>2, <2>3, <2>4, <2>5 DEF PassInv, NoResult
<1>8. CASE PassFails \/ RetryEnds
  <2>1. /\ Records' = Records /\ Needed(Records)' = Needed(Records)
        /\ mapfile' = mapfile /\ domain' = domain /\ good' = good /\ success' = success
    BY <1>8 DEF PassFails, RetryEnds, session, Records, Needed, Data
  <2>2. results' = NoResult /\ assessed' = {}
    BY <1>8 DEF PassFails, RetryEnds, session, IInv, SessionInv, PassInv
  <2>3. saved \subseteq saved' /\ pc' = "reload" /\ pc \in {"pass", "retry"}
    BY <1>8 DEF PassFails, RetryEnds, IInv, MapBehindImage
  <2> QED BY <2>1, <2>2, <2>3 DEF PassInv, NoResult
<1>9. CASE Reload
  <2>1. /\ Records' = Records /\ Needed(Records)' = Needed(Records)
        /\ mapfile' = saved /\ saved' = saved /\ good' = good /\ success' = success
        /\ pc' = "extract" /\ results' = NoResult
    BY <1>9 DEF Reload, Records, Needed, Data, IInv, SessionInv
  <2>2. \A f \in assessed' : f \in Records' /\ Assess(f, mapfile)'
    BY <1>9, <2>1 DEF Reload, Assess, Data
  <2> QED BY <2>1, <2>2 DEF PassInv, NoResult
<1>10. ASSUME NEW f \in Files, Extract(f) PROVE PassInv'
  <2>1. /\ pc' = pc /\ success' = success /\ assessed' = assessed /\ saved' = saved
        /\ mapfile' = mapfile /\ good' = good /\ pc = "extract" /\ f \notin DOMAIN results
    BY <1>10 DEF Extract, IsNext, Remaining
  <2>2. /\ Records' = Records /\ Needed(Records)' = Needed(Records)
        /\ \A g : Assess(g, mapfile)' <=> Assess(g, mapfile)
        /\ \A g : Complete(g)' = Complete(g)
    BY <1>10 DEF Extract, Records, Needed, Data, Assess, Complete, Gaps, mapKnown
  <2>3. \E r : /\ results' = WithResult(f, r)
               /\ r.error \/ r.complete = Complete(f)
    BY <1>10 DEF Extract, Result
  <2>4. \A g \in DOMAIN results' :
          \/ g = f /\ (results'[g].error \/ results'[g].complete = Complete(f))
          \/ g \in DOMAIN results /\ results'[g] = results[g]
    BY <2>1, <2>3 DEF WithResult
  <2>5. \A g \in DOMAIN results' : results'[g].error \/ results'[g].complete = Complete(g)'
    BY <2>2, <2>4 DEF PassInv
  <2> QED BY <2>1, <2>2, <2>5 DEF PassInv
<1>11. CASE MountFails \/ MountTimesOut \/ DryRun \/ Decline \/ WriteReport
            \/ Interrupt \/ Crash
  BY <1>11, EndSessionPassInv
     DEF MountFails, MountTimesOut, DryRun, Decline, WriteReport, Interrupt, Crash
<1> QED
  BY <1>1, <1>2, <1>3, <1>4, <1>5, <1>6, <1>7, <1>8, <1>9, <1>10, <1>11
  DEF Next, Program

\* What a session assesses and reports answers for its plan and one mapfile.
THEOREM RecoveryPassInv == Spec => []PassInv
<1>1. Init => PassInv
  BY DEF Init, PassInv, NoResult
<1> QED
  BY <1>1, StepPassInv, RecoveryInvariant, PTL DEF Spec

\* The report has a verdict on every file that was selected.
LEMMA ReportCoversRecords ==
  ASSUME IInv, pc = "extract", report' # report, Next
  PROVE  /\ Records \subseteq DOMAIN results
         /\ report'.complete = {f \in DOMAIN results : results[f].complete}
<1>1. WriteReport
  BY DEF Next, Program, vars, drive, Start, ReadSector, Mount, MountFails, Plan, DryRun,
     Reload, PassSucceeds, PassFails, RetryEnds, Extract, Confirm, Decline, SaveMap,
     MountTimesOut, Interrupt, Crash, CleanUp
<1> QED
  BY <1>1 DEF WriteReport, Remaining

\* A verdict falls short of complete for want of sectors, of runs that reach
\* the size, or of an output.
LEMMA VerdictMeans ==
  ASSUME IInv, PassInv, NEW f \in DOMAIN results, ~results[f].complete, ~results[f].error,
         layout[f].size # "beyond"
  PROVE  ~layout[f].resident /\ ~(Data(f) \subseteq mapfile)
<1>1. ~Complete(f)
  BY DEF PassInv
<1>2. ~layout[f].resident /\ Gaps(f) # {}
  BY <1>1 DEF Complete
<1>3. PICK k \in DOMAIN layout[f].runs : ~(layout[f].runs[k] \subseteq mapfile)
  BY <1>2 DEF Gaps
<1> QED BY <1>2, <1>3 DEF Data

\* After a pass that ended well, no selected file that lies on readable
\* sectors is missing from the list of complete files (run_recovery, then
\* extract_selected and write_report).
THEOREM RecoveryRecoversWhatItCan == Spec => RecoversWhatItCan
<1>1. ASSUME IInv, PassInv, [Next]_vars
      PROVE  [pc = "extract" /\ report' # report /\ success =>
                \A f \in Records :
                  \/ f \in report'.complete \/ results[f].error
                  \/ layout[f].size = "beyond" \/ ~(Data(f) \subseteq good)]_vars
  <2> SUFFICES ASSUME Next, pc = "extract", report' # report, success, NEW f \in Records,
                      f \notin report'.complete, ~results[f].error, layout[f].size # "beyond"
               PROVE  ~(Data(f) \subseteq good)
    BY <1>1
  <2>1. f \in DOMAIN results /\ ~results[f].complete
    BY <1>1, ReportCoversRecords
  <2>2. ~layout[f].resident /\ ~(Data(f) \subseteq mapfile)
    BY <1>1, <2>1, VerdictMeans
  <2>3. Data(f) \subseteq Needed(Records) /\ Needed(Records) \cap good \subseteq mapfile
    BY <1>1, <2>2 DEF Needed, PassInv
  <2> QED BY <2>2, <2>3
<1> QED
  BY <1>1, RecoveryInvariant, RecoveryPassInv, PTL DEF Spec, RecoversWhatItCan

\* assess_results and the report agree: a file the first calls complete is
\* complete in the second, unless it could not be written or its runs end
\* before its size.
THEOREM RecoveryAssessmentStands == Spec => AssessmentStands
<1>1. ASSUME IInv, PassInv, [Next]_vars
      PROVE  [pc = "extract" /\ report' # report =>
                \A f \in assessed :
                  f \in report'.complete \/ results[f].error \/ layout[f].size = "beyond"]_vars
  <2> SUFFICES ASSUME Next, pc = "extract", report' # report, NEW f \in assessed,
                      f \notin report'.complete, ~results[f].error, layout[f].size # "beyond"
               PROVE  FALSE
    BY <1>1
  <2>1. f \in Records /\ Assess(f, mapfile)
    BY <1>1 DEF PassInv
  <2>2. f \in DOMAIN results /\ ~results[f].complete
    BY <1>1, <2>1, ReportCoversRecords
  <2> QED BY <1>1, <2>1, <2>2, VerdictMeans DEF Assess
<1> QED
  BY <1>1, RecoveryInvariant, RecoveryPassInv, PTL DEF Spec, AssessmentStands
=============================================================================
