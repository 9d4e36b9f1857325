------------------------------ MODULE Recovery ------------------------------
(***************************************************************************)
(* A recovery session, _do_recover of cli.py, run any number of times on   *)
(* one working directory: plan_recovery, run_recovery and assess_results   *)
(* of recovery/orchestrator.py, extract_selected and write_report of       *)
(* recovery/extractor.py.  The drive is a set of sectors and the mapfile   *)
(* the set of those it has as '+': that the list computations on mapfiles  *)
(* answer as the sets do is what DomainLog and RangeStatus show.           *)
(* gddrescue and the BitLocker FUSE mount are external:                    *)
(* a pass reads sectors of its domain in any order and saves its mapfile   *)
(* now and then, always after the data; both may fail at any time.         *)
(***************************************************************************)
EXTENDS Integers, Sequences, FiniteSets

CONSTANTS Sectors,       \* of the drive
          Files,         \* the mft_index of every record of the tree
          Layouts,       \* the trees: a FileRecord for each of Files
          Options,       \* the arguments of _do_recover
          Disks,         \* which of image and mapfile are there
          Ciphers        \* whether the volume may be BitLocker-encrypted

FileRecord == [directory : BOOLEAN, resident : BOOLEAN,
               runs : Seq(SUBSET Sectors),      \* {} for a sparse run
               size : {"zero", "within", "beyond"}]   \* against the runs

Option == [selected : SUBSET Files, dry_run : BOOLEAN, retry : BOOLEAN,
           device : BOOLEAN]

ASSUME RecoveryAssumption ==
  /\ Files \subseteq Nat /\ IsFiniteSet(Files)
  /\ Layouts \subseteq [Files -> FileRecord]
  /\ Options \subseteq Option
  /\ Disks \subseteq SUBSET {"image", "mapfile"}
  /\ \A d \in Disks : "mapfile" \in d => "image" \in d
  /\ Ciphers \subseteq BOOLEAN

VARIABLES
  layout, good, disk, bitlocker,   \* the tree, the sectors that read at once
  image, saved,          \* sectors in the image, sectors '+' in its mapfile
  output,                \* each file in the output directory
  report,                \* recovery_report.txt
  fuse,                  \* whether the FUSE mount is there
  abandoned,             \* no unmount of it succeeded: the session was killed, or
                         \* its mount timed out, or the unmount failed
  pc, opt,               \* the session: where it is, its arguments
  mapfile,               \* the sectors '+' in the mapfile parsed last
  domain,                \* recovery_domain.log
  ddmap,                 \* the sectors gddrescue has, not all saved yet
  success,               \* what run_recovery returns
  assessed,              \* the files assess_results calls complete
  results                \* the ExtractionResults so far

drive   == <<layout, good, disk, bitlocker>>
session == <<opt, mapfile, domain, ddmap, success, assessed, results>>
vars == <<drive, image, saved, output, report, fuse, abandoned, pc, session>>

Try == {"plan", "confirm", "pass", "retry", "reload"}   \* try ... finally

NoOption == [selected |-> {}, dry_run |-> TRUE, retry |-> FALSE, device |-> FALSE]
NoReport == [complete |-> {}, partial |-> {}, failed |-> {}, checked |-> FALSE]
NoResult == [f \in {} |-> TRUE]

Init ==
  /\ layout \in Layouts /\ good \in SUBSET Sectors
  /\ disk \in Disks /\ bitlocker \in Ciphers
  /\ image \in SUBSET Sectors /\ saved \in SUBSET image
  /\ disk = {} => image = {}
  /\ output = [f \in Files |-> "none"] /\ report = NoReport
  /\ fuse = FALSE /\ abandoned = FALSE
  /\ pc = "idle" /\ opt = NoOption
  /\ mapfile = {} /\ domain = {} /\ ddmap = {} /\ success = FALSE
  /\ assessed = {} /\ results = NoResult

-----------------------------------------------------------------------------
\* Directories are left out of every per-file list.
Records == {f \in opt.selected : ~layout[f].directory}

Data(f) == UNION {layout[f].runs[k] : k \in DOMAIN layout[f].runs}

\* collect_byte_ranges: resident files, and sparse runs, need no read.
Needed(fs) == UNION {Data(f) : f \in {g \in fs : ~layout[g].resident}}

mapKnown == "mapfile" \in disk

\* The session is over, and its variables with it.
EndSession ==
  /\ pc' = "idle" /\ opt' = NoOption
  /\ mapfile' = {} /\ domain' = {} /\ ddmap' = {} /\ success' = FALSE
  /\ assessed' = {} /\ results' = NoResult

\* finally: the mount point is set only for an encrypted volume.  Whether the
\* unmount succeeds is not looked at: it may fail, hang or be interrupted.
Unmount ==
  \/ bitlocker /\ fuse' = FALSE /\ UNCHANGED abandoned
  \/ bitlocker /\ UNCHANGED fuse /\ abandoned' = TRUE
  \/ ~bitlocker /\ UNCHANGED <<fuse, abandoned>>

Start(o) ==
  /\ pc = "idle"
  /\ mapKnown \/ ~o.dry_run
  /\ opt' = o
  /\ mapfile' = IF mapKnown THEN saved ELSE {}
  /\ pc' = IF ~mapKnown THEN "extract" ELSE IF bitlocker THEN "mount" ELSE "plan"
  /\ UNCHANGED <<drive, image, saved, output, report, fuse, abandoned,
                 domain, ddmap, success, assessed, results>>

\* No credentials, or no way to mount: return 1.  A tool that ends well and leaves
\* no file is unmounted, which may fail.
MountFails ==
  /\ pc = "mount"
  /\ \/ UNCHANGED <<fuse, abandoned>>
     \/ fuse' = TRUE /\ abandoned' = TRUE
  /\ EndSession
  /\ UNCHANGED <<drive, image, saved, output, report>>

Mount ==
  /\ pc = "mount" /\ ~fuse
  /\ fuse' = TRUE /\ abandoned' = FALSE /\ pc' = "plan"
  /\ UNCHANGED <<drive, image, saved, output, report, session>>

\* The mount command hangs or is interrupted: its exception is raised before
\* the try, whether or not the mount is there by then.
MountTimesOut ==
  /\ pc = "mount"
  /\ fuse' \in {fuse, TRUE} /\ abandoned' = TRUE
  /\ EndSession
  /\ UNCHANGED <<drive, image, saved, output, report>>

\* Seeded fault: what earlier sessions rescued is not taken off the domain.
PlanAll ==
  /\ pc = "plan" /\ ~opt.dry_run
  /\ domain' = Needed(Records)
  /\ IF domain' # {} /\ (opt.device \/ bitlocker)
     THEN pc' = "confirm" /\ UNCHANGED <<fuse, abandoned>>
     ELSE pc' = "extract" /\ Unmount
  /\ UNCHANGED <<drive, image, saved, output, report, opt, mapfile,
                 ddmap, success, assessed, results>>

\* Seeded fault: a selection an earlier session began counts as read.
PlanOnce ==
  /\ pc = "plan" /\ ~opt.dry_run
  /\ domain' = IF Needed(Records) \cap mapfile = {} THEN Needed(Records) ELSE {}
  /\ IF domain' # {} /\ (opt.device \/ bitlocker)
     THEN pc' = "confirm" /\ UNCHANGED <<fuse, abandoned>>
     ELSE pc' = "extract" /\ Unmount
  /\ UNCHANGED <<drive, image, saved, output, report, opt, mapfile,
                 ddmap, success, assessed, results>>

\* plan_recovery, then the early ends: a dry run prints and stops, nothing to
\* read (or no device to read from) goes straight to the extraction.
Plan ==
  /\ pc = "plan"
  /\ domain' = Needed(Records) \ mapfile
  /\ IF domain' # {} /\ (opt.device \/ bitlocker)
     THEN pc' = "confirm" /\ UNCHANGED <<fuse, abandoned>>
     ELSE pc' = "extract" /\ Unmount
  /\ ~opt.dry_run
  /\ UNCHANGED <<drive, image, saved, output, report, opt, mapfile,
                 ddmap, success, assessed, results>>

DryRun ==
  /\ pc = "plan" /\ opt.dry_run
  /\ Unmount /\ EndSession
  /\ UNCHANGED <<drive, image, saved, output, report>>

\* Seeded fault: the unmount comes after the confirmation, not in the finally.
DeclineKeepsMount ==
  /\ pc = "confirm"
  /\ EndSession
  /\ UNCHANGED <<drive, image, saved, output, report, fuse, abandoned>>

\* The answer is no, or there is none: return 0, nothing is extracted.
Decline ==
  /\ pc = "confirm"
  /\ Unmount /\ EndSession
  /\ UNCHANGED <<drive, image, saved, output, report>>

\* gddrescue starts from the mapfile on disk.
Confirm ==
  /\ pc = "confirm"
  /\ ddmap' = saved /\ pc' = "pass"
  /\ UNCHANGED <<drive, image, saved, output, report, fuse, abandoned, opt,
                 mapfile, domain, success, assessed, results>>

ReadSector(s) ==
  /\ pc \in {"pass", "retry"}
  /\ s \in domain \ ddmap
  /\ image' = image \cup {s} /\ ddmap' = ddmap \cup {s}
  /\ UNCHANGED <<drive, saved, output, report, fuse, abandoned, pc, opt,
                 mapfile, domain, success, assessed, results>>

SaveMap ==
  /\ pc \in {"pass", "retry"} /\ ddmap # saved
  /\ saved' = ddmap
  /\ UNCHANGED <<drive, image, output, report, fuse, abandoned, pc, session>>

\* Exit code 0: every sector that reads was read, the others are marked bad.
PassSucceeds ==
  /\ pc = "pass" /\ domain \cap good \subseteq ddmap
  /\ saved' = ddmap /\ success' = TRUE
  /\ pc' = IF opt.retry THEN "retry" ELSE "reload"
  /\ UNCHANGED <<drive, image, output, report, fuse, abandoned, opt, mapfile,
                 domain, ddmap, assessed, results>>

\* Another exit code: no retry pass, but all that follows is done.
PassFails ==
  /\ pc = "pass"
  /\ saved' \in {saved, ddmap} /\ pc' = "reload"
  /\ UNCHANGED <<drive, image, output, report, fuse, abandoned, session>>

\* The exit code of the retry pass is only logged.
RetryEnds ==
  /\ pc = "retry"
  /\ saved' \in {saved, ddmap} /\ pc' = "reload"
  /\ UNCHANGED <<drive, image, output, report, fuse, abandoned, session>>

\* assess_results: a file without runs, or with sparse runs only, is at 0%.
Assess(f, map) ==
  layout[f].resident \/ (Data(f) # {} /\ Data(f) \subseteq map)

\* Seeded fault: the mapfile is not parsed again after the pass.
ReloadStale ==
  /\ pc = "reload"
  /\ assessed' = {f \in Records : Assess(f, mapfile)}
  /\ Unmount /\ pc' = "extract"
  /\ UNCHANGED <<drive, image, saved, output, report, opt, mapfile,
                 domain, ddmap, success, results>>

\* The mapfile is parsed again, the results are printed, finally.
Reload ==
  /\ pc = "reload"
  /\ mapfile' = saved
  /\ assessed' = {f \in Records : Assess(f, mapfile')}
  /\ Unmount /\ pc' = "extract"
  /\ UNCHANGED <<drive, image, saved, output, report, opt, domain,
                 ddmap, success, results>>

-----------------------------------------------------------------------------
\* Seeded fault: only the first run of a file is looked up.
GapsOfFirstRun(f) == {k \in DOMAIN layout[f].runs :
                        mapKnown /\ k = 1 /\ ~(layout[f].runs[k] \subseteq mapfile)}

\* Seeded fault: a sparse run falls through to the lookup and counts as a gap.
GapsInHoles(f) == {k \in DOMAIN layout[f].runs :
                     mapKnown /\ \/ layout[f].runs[k] = {}
                                 \/ ~(layout[f].runs[k] \subseteq mapfile)}

\* is_range_rescued fails on a data run; without a mapfile it is not asked.
Gaps(f) == {k \in DOMAIN layout[f].runs :
              mapKnown /\ ~(layout[f].runs[k] \subseteq mapfile)}

\* extract_file writes something: not for a file with a size and no runs, and
\* not for one whose runs cannot be read for want of an image.
HasData(f) ==
  \/ layout[f].resident
  \/ layout[f].runs = <<>> /\ layout[f].size = "zero"
  \/ layout[f].runs # <<>> /\ "image" \in disk

\* Seeded fault: the length of the output decides alone.
CompleteIgnoresGaps(f) ==
  layout[f].resident \/ layout[f].runs = <<>> \/ layout[f].size # "beyond"

Complete(f) ==
  \/ layout[f].resident \/ layout[f].runs = <<>>
  \/ Gaps(f) = {} /\ layout[f].size # "beyond"

Result(complete, bytes, error) ==
  [complete |-> complete, bytes |-> bytes, error |-> error]

\* What the file on disk then is: the drive's bytes, or zeros among them.
Written(f) ==
  IF \/ layout[f].resident \/ layout[f].size = "zero"
     \/ layout[f].size = "within" /\ Data(f) \subseteq image
  THEN "whole" ELSE "holes"

\* extract_selected goes through the records in the order of their index.
Remaining == Records \ DOMAIN results
IsNext(f) == f \in Remaining /\ \A g \in Remaining : f <= g

WithResult(f, r) ==
  [g \in DOMAIN results \cup {f} |-> IF g = f THEN r ELSE results[g]]

\* A write that stops half-way leaves a broken file behind.
Torn(f) ==
  {output} \cup (IF HasData(f) THEN {[output EXCEPT ![f] = "holes"]} ELSE {})

Extract(f) ==
  /\ pc = "extract" /\ IsNext(f)
  /\ \/ /\ HasData(f)
        /\ output' = [output EXCEPT ![f] = Written(f)]
        /\ results' = WithResult(f, Result(Complete(f), layout[f].size # "zero", FALSE))
     \/ /\ output' \in Torn(f)                     \* OSError, or nothing to read
        /\ results' = WithResult(f, Result(FALSE, FALSE, TRUE))
  /\ UNCHANGED <<drive, image, saved, report, fuse, abandoned, pc, opt,
                 mapfile, domain, ddmap, success, assessed>>

WriteReport ==
  /\ pc = "extract" /\ Remaining = {}
  /\ report' =
       [complete |-> {f \in DOMAIN results : results[f].complete},
        partial  |-> {f \in DOMAIN results :
                        ~results[f].complete /\ ~results[f].error /\ results[f].bytes},
        failed   |-> {f \in DOMAIN results : results[f].error \/ ~results[f].bytes},
        checked  |-> mapKnown]
  /\ EndSession
  /\ UNCHANGED <<drive, image, saved, output, fuse, abandoned>>

-----------------------------------------------------------------------------
\* The session stops, perhaps in the middle of a write.
StopWriting ==
  \/ UNCHANGED output
  \/ pc = "extract" /\ \E f \in Files : IsNext(f) /\ output' \in Torn(f)

\* Ctrl-C: gddrescue may still save its mapfile; in the try, finally is run.
Interrupt ==
  /\ pc \in (Try \ {"confirm"}) \cup {"extract"}
  /\ saved' \in IF pc \in {"pass", "retry"} THEN {saved, ddmap} ELSE {saved}
  /\ StopWriting
  /\ IF pc \in Try THEN Unmount ELSE UNCHANGED <<fuse, abandoned>>
  /\ EndSession
  /\ UNCHANGED <<drive, image, report>>

\* The process is killed, or the machine goes down: no finally, and what
\* gddrescue had not saved is lost from the mapfile, not from the image.
Crash ==
  /\ pc # "idle"
  /\ fuse' \in {fuse, FALSE} /\ abandoned' = TRUE
  /\ StopWriting
  /\ EndSession
  /\ UNCHANGED <<drive, image, saved, report>>

\* The user unmounts by hand what a session left.
CleanUp ==
  /\ pc = "idle" /\ fuse
  /\ fuse' = FALSE
  /\ UNCHANGED <<drive, image, saved, output, report, abandoned, pc, session>>

Program ==
  \/ Mount \/ MountFails \/ Plan \/ DryRun \/ Reload \/ WriteReport
  \/ PassSucceeds \/ PassFails \/ RetryEnds
  \/ \E f \in Files : Extract(f)

Next ==
  \/ \E o \in Options : Start(o)
  \/ \E s \in Sectors : ReadSector(s)
  \/ Program \/ Confirm \/ Decline \/ SaveMap
  \/ MountTimesOut \/ Interrupt \/ Crash \/ CleanUp

Spec == Init /\ [][Next]_vars

\* The program, once running, goes on.  The user does not give up: every
\* session is started, and confirmed, again and again.  A failure does not hit
\* the same step for ever: it is taken in the end.  FairSpec adds that a mount
\* a session left is removed by hand: the program does not try again.
Fairness ==
  /\ WF_vars(Program)
  /\ \A o \in Options : SF_vars(Start(o))
  /\ SF_vars(Mount) /\ SF_vars(Plan) /\ SF_vars(Confirm)
  /\ \A s \in Sectors : SF_vars(s \in good /\ ReadSector(s))
  /\ SF_vars(SaveMap)

FairSpec == Spec /\ Fairness /\ SF_vars(CleanUp)

-----------------------------------------------------------------------------
Verdict == [complete : BOOLEAN, bytes : BOOLEAN, error : BOOLEAN]
Report  == [complete : SUBSET Files, partial : SUBSET Files,
            failed : SUBSET Files, checked : BOOLEAN]

\* The types of what is on disk and of the locals of _do_recover.
TypeOK ==
  /\ layout \in Layouts /\ good \in SUBSET Sectors
  /\ disk \in Disks /\ bitlocker \in BOOLEAN
  /\ image \in SUBSET Sectors /\ saved \in SUBSET Sectors
  /\ output \in [Files -> {"none", "whole", "holes"}]
  /\ report \in Report
  /\ fuse \in BOOLEAN /\ abandoned \in BOOLEAN
  /\ pc \in Try \cup {"idle", "mount", "extract"}
  /\ opt \in Option
  /\ mapfile \in SUBSET Sectors /\ domain \in SUBSET Sectors
  /\ ddmap \in SUBSET Sectors /\ success \in BOOLEAN
  /\ assessed \in SUBSET Files
  /\ DOMAIN results \subseteq Files
  /\ \A f \in DOMAIN results : results[f] \in Verdict

\* The sectors that hold a file on the drive, but for a directory's own.
Content == [f \in Files |->
              IF layout[f].directory \/ layout[f].resident THEN {} ELSE Data(f)]

\* The image is never behind a mapfile, in whatever copy: on disk, parsed at
\* the start of the session, or in the hands of gddrescue.
MapBehindImage ==
  /\ saved \subseteq image /\ ddmap \subseteq image /\ mapfile \subseteq saved
  /\ pc \in {"pass", "retry"} => saved \subseteq ddmap

\* The drive is asked for exactly what the selection needs and the image
\* lacks, whatever earlier sessions, finished or killed, left behind.
AsksForWhatIsMissing ==
  [][pc' = "confirm" =>
       domain' = {s \in Sectors \ saved :
                    \E f \in opt.selected : s \in Content[f]}]_vars

\* A file an extraction calls complete with a mapfile at hand is, on disk, the
\* file that is on the drive.
Certified ==
  \A f \in DOMAIN results :
    results[f].complete /\ mapKnown => output[f] = "whole"

\* The report lists as complete every selected file the drive could still
\* give: after a pass that ended well no file on readable sectors is missing.
RecoversWhatItCan ==
  [][pc = "extract" /\ report' # report /\ success =>
       \A f \in Records :
         \/ f \in report'.complete \/ results[f].error
         \/ layout[f].size = "beyond" \/ ~(Data(f) \subseteq good)]_vars

\* What print_results called complete, the report calls complete, unless the
\* file could not be written or is longer than its runs.
AssessmentStands ==
  [][pc = "extract" /\ report' # report =>
       \A f \in assessed :
         f \in report'.complete \/ results[f].error \/ layout[f].size = "beyond"]_vars

\* The decrypted view of the volume outlives the try block that made it only if
\* the unmount failed, or the session was killed: no way out of the block, by a
\* return, an exception or its end, goes without an attempt to unmount.
MountReleased == fuse => pc \in Try \/ abandoned

\* A recovery that is interrupted, killed or fails is resumed: a sector that
\* reads, of a file someone keeps asking for, is in the mapfile in the end.
Resumes ==
  \A s \in Sectors :
    (/\ s \in good /\ mapKnown
     /\ \E o \in Options : /\ ~o.dry_run /\ (o.device \/ bitlocker)
                           /\ \E f \in o.selected : ~layout[f].directory /\ s \in Data(f))
      => <>(s \in saved)

-----------------------------------------------------------------------------
Promise == INSTANCE ProgressiveImage WITH
  content <- Content, mapped <- saved,
  certified <- IF report.checked THEN report.complete ELSE {}

\* A session does what ProgressiveImage promises of the image, the mapfile and
\* the report together.
ImplementsProgressiveImage == Promise!Spec

\* The inductive invariant: where the session is fixes how the copies of the
\* mapfile are related, and a verdict is never ahead of the mapfile on disk.
SessionInv ==
  /\ pc \in Try \cup {"mount"} => mapKnown
  /\ pc # "extract" => results = NoResult
  /\ pc = "mount" \/ fuse => bitlocker
  /\ pc \in {"mount", "plan", "confirm"} => mapfile = saved
  /\ ~mapKnown => mapfile = {}

VerdictInv ==
  \A f \in DOMAIN results :
    /\ f \in Records
    /\ results[f].complete /\ mapKnown => Content[f] \subseteq saved

IInv == TypeOK /\ MapBehindImage /\ SessionInv /\ VerdictInv /\ Certified /\ MountReleased

\* What the end of a session rests on, from the plan to the report: the domain
\* is what the selection lacked, a pass that ended well leaves none of it that
\* reads, and assessment and verdicts answer for one mapfile.
PassInv ==
  /\ pc \in {"confirm", "pass", "retry", "reload"} => domain = Needed(Records) \ mapfile
  /\ success => /\ pc \in {"retry", "reload", "extract"}
                /\ Needed(Records) \cap good \subseteq saved
                /\ pc = "extract" => mapfile = saved
  /\ \A f \in assessed : pc = "extract" /\ f \in Records /\ Assess(f, mapfile)
  /\ \A f \in DOMAIN results : results[f].error \/ results[f].complete = Complete(f)
=============================================================================
