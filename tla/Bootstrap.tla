------------------------------ MODULE Bootstrap ------------------------------
(***************************************************************************)
(* run_bootstrap of bootstrap.py, run any number of times on one working   *)
(* directory: the boot sector, the BitLocker mount, the detection of the   *)
(* filesystem, the MFT by ddru_ntfsbitmap or by _bootstrap_manual, the     *)
(* retry pass, the coverage and the state file.  A volume is seen through  *)
(* the disk or, if it is encrypted, through the FUSE mount, and each view  *)
(* has an image of its own.  An area of the volume is in an image with the *)
(* view it was read through.  gddrescue reads the areas in good for sure   *)
(* when it exits with 0, and any others by luck; the mapfile is taken to   *)
(* list what is in the image (see Recovery).                               *)
(***************************************************************************)
EXTENDS Integers

CONSTANTS Meta,          \* the parts of the MFT, or of the tables and directories
          Others,        \* parts of the volume that hold none of these
          Chunks,        \* what may lie in the 64 MB from the start of the MFT
          Filesystems,   \* of the volume: "ntfs", "tree" (FAT, exFAT or ext)
          Ciphers,       \* whether it may be BitLocker-encrypted
          GoodSets,      \* the sets of areas that read at once
          Options        \* the arguments of run_bootstrap

Areas == Meta \cup Others \cup {"boot", "backup"}

ASSUME BootstrapAssumption ==
  /\ Meta # {} /\ "boot" \notin Meta /\ "backup" \notin Meta
  /\ Chunks \subseteq SUBSET Areas
  /\ Filesystems \subseteq {"ntfs", "tree"}
  /\ Ciphers \subseteq BOOLEAN
  /\ GoodSets \subseteq SUBSET Areas
  /\ Options \subseteq [retry : {0, 1}, sized : BOOLEAN]

VARIABLES
  fs, encrypted, good, chunk,   \* the volume
  image,                 \* of each view: for each area, the view it came from
  mft_domain,            \* the MFT domain log: the view it was made for, by which
                         \* bootstrap
  saved,                 \* the state file
  fuse,                  \* whether the FUSE mount is there
  pc, opt,
  source,                \* source_device and source_offset: the view read
  target,                \* image_path and state.image: the view it is kept for
  retry

volume == <<fs, encrypted, good, chunk>>
vars == <<volume, image, mft_domain, saved, fuse, pc, opt, source, target, retry>>

Views   == {"disk", "fuse"}
NoState == [complete |-> FALSE, bitlocker |-> FALSE, view |-> "disk",
            mft_lcn |-> FALSE, coverage |-> "none", manual |-> FALSE]
NoDomain == [view |-> "none", manual |-> FALSE]
NoOption == [retry |-> 0, sized |-> FALSE]

Init ==
  /\ fs \in Filesystems /\ encrypted \in Ciphers /\ good \in GoodSets
  /\ chunk \in Chunks
  /\ image = [v \in Views |-> [a \in Areas |-> "none"]]
  /\ mft_domain = NoDomain /\ saved = NoState /\ fuse = FALSE
  /\ pc = "idle" /\ opt = NoOption /\ source = "disk" /\ target = "disk"
  /\ retry = 0

-----------------------------------------------------------------------------
\* A run of gddrescue from the source into the image, with a domain: on exit
\* code 0 it has every good area of the domain, on another whatever it got.
Rescue(from, into, domain, ok) ==
  \E got \in SUBSET domain :
    /\ ok => good \cap domain \subseteq got
    /\ image' = [image EXCEPT ![into] =
                   [a \in Areas |-> IF a \in got /\ @[a] = "none" THEN from ELSE @[a]]]

\* The entries of the MFT domain log: ddru_ntfsbitmap follows the MFT, the manual
\* bootstrap writes one of 64 MB, however long the MFT is and wherever it goes on.
Asked == IF mft_domain.manual THEN chunk ELSE Meta

\* What a boot sector of an image says: nothing if it was not read.
Seen(v, sector) ==
  CASE image[v][sector] = "none"                -> "none"
    [] image[v][sector] = "disk" /\ encrypted   -> "bitlocker"
    [] OTHER                                    -> fs

\* run_bootstrap returns, and the state file is written.
Return(state) ==
  /\ saved' = state
  /\ pc' = "idle" /\ opt' = NoOption /\ retry' = 0
  /\ source' = "disk" /\ target' = "disk"

\* An exception ends the command: nothing is saved, nothing is unmounted.
Raise ==
  /\ pc' = "idle" /\ opt' = NoOption /\ retry' = 0
  /\ source' = "disk" /\ target' = "disk"
  /\ UNCHANGED saved

Incomplete == [NoState EXCEPT !.bitlocker = (source = "fuse"), !.view = target]

Begin(o) ==
  /\ pc = "idle"
  /\ \E ok \in BOOLEAN : Rescue("disk", "disk", {"boot"}, ok)
  /\ opt' = o /\ retry' = o.retry /\ source' = "disk" /\ target' = "disk"
  /\ pc' = "check"
  /\ UNCHANGED <<volume, mft_domain, saved, fuse>>

CheckBitLocker ==
  /\ pc = "check"
  /\ pc' = IF Seen("disk", "boot") = "bitlocker" THEN "mount" ELSE "detect"
  /\ UNCHANGED <<volume, image, mft_domain, saved, fuse, opt, source, target, retry>>

\* No credentials, or neither tool can mount: the state says BitLocker, and
\* still names the image of the disk.  A tool that ends well and leaves no file is
\* unmounted, which may fail.
MountFails ==
  /\ pc = "mount"
  /\ fuse' \in {fuse, TRUE}
  /\ Return([NoState EXCEPT !.bitlocker = TRUE])
  /\ UNCHANGED <<volume, image, mft_domain>>

\* Seeded fault: what is read through the mount goes to the first image.
MountSameImage ==
  /\ pc = "mount" /\ ~fuse
  /\ fuse' = TRUE /\ source' = "fuse"
  /\ \E ok \in BOOLEAN : Rescue("fuse", "disk", {"boot"}, ok)
  /\ pc' = "detect"
  /\ UNCHANGED <<volume, mft_domain, saved, opt, target, retry>>

\* A mount point in use is refused.  Everything now goes through the mount,
\* into a fresh image at offset 0.
Mount ==
  /\ pc = "mount" /\ ~fuse
  /\ fuse' = TRUE /\ source' = "fuse" /\ target' = "fuse"
  /\ \E ok \in BOOLEAN : Rescue("fuse", "fuse", {"boot"}, ok)
  /\ pc' = "detect"
  /\ UNCHANGED <<volume, mft_domain, saved, opt, retry>>

MountTimesOut ==
  /\ pc = "mount"
  /\ fuse' \in {fuse, TRUE} /\ Raise
  /\ UNCHANGED <<volume, image, mft_domain>>

\* A boot sector that was not read leaves the filesystem unknown: NTFS is tried.
Detect ==
  /\ pc = "detect"
  /\ pc' = IF Seen(target, "boot") = "tree" THEN "tree" ELSE "ntfs"
  /\ UNCHANGED <<volume, image, mft_domain, saved, fuse, opt, source, target, retry>>

\* _bootstrap_fat, _bootstrap_ext4: the tables and directories.
RecoverTree ==
  /\ pc = "tree"
  /\ \E ok \in BOOLEAN : Rescue(source, target, Meta, ok)
  /\ pc' = "finish"
  /\ UNCHANGED <<volume, mft_domain, saved, fuse, opt, source, target, retry>>

\* ddru_ntfsbitmap finds the MFT, of a volume it can read as NTFS only.
DdruFinds ==
  /\ pc = "ntfs" /\ fs = "ntfs" /\ (encrypted => source = "fuse")
  /\ mft_domain' = [view |-> source, manual |-> FALSE]
  /\ pc' = "mft"
  /\ UNCHANGED <<volume, image, saved, fuse, opt, source, target, retry>>

\* Not installed, or failed.
DdruFails ==
  /\ pc = "ntfs"
  /\ pc' = "manual"
  /\ UNCHANGED <<volume, image, mft_domain, saved, fuse, opt, source, target, retry>>

\* An error of the first pass makes sure of a retry pass.
RecoverMft ==
  /\ pc = "mft"
  /\ \E ok \in BOOLEAN :
       /\ Rescue(source, target, Asked, ok)
       /\ retry' = IF ok THEN retry ELSE 1
  /\ pc' = "retry"
  /\ UNCHANGED <<volume, mft_domain, saved, fuse, opt, source, target>>

-----------------------------------------------------------------------------
\* _bootstrap_manual.  Its RuntimeError, and BitLockerDetected, are caught:
\* the state is saved and run_bootstrap returns from the handler.
StopManual == Return(Incomplete) /\ UNCHANGED <<volume, mft_domain, fuse>>

ManualBoot ==
  /\ pc = "manual"
  /\ \/ /\ Rescue(source, target, {"boot"}, TRUE)
        /\ pc' = "parse"
        /\ UNCHANGED <<volume, mft_domain, saved, fuse, opt, source, target, retry>>
     \/ Rescue(source, target, {"boot"}, FALSE) /\ StopManual

\* parse_boot_sector: the boot sector of NTFS, of BitLocker, or neither.
ManualParse ==
  /\ pc = "parse" /\ Seen(target, "boot") = "ntfs"
  /\ pc' = "manual_mft"
  /\ UNCHANGED <<volume, image, mft_domain, saved, fuse, opt, source, target, retry>>

\* Seeded fault: BitLockerDetected is only printed.
ManualBitLockerGoesOn ==
  /\ pc = "parse" /\ Seen(target, "boot") = "bitlocker"
  /\ pc' = "retry"
  /\ UNCHANGED <<volume, image, mft_domain, saved, fuse, opt, source, target, retry>>

ManualBitLocker ==
  /\ pc = "parse" /\ Seen(target, "boot") = "bitlocker"
  /\ StopManual /\ UNCHANGED image

\* The backup is in the last sector of a partition whose size is known.
ManualBackup ==
  /\ pc = "parse" /\ Seen(target, "boot") \in {"none", "tree"}
  /\ \/ ~opt.sized /\ StopManual /\ UNCHANGED image
     \/ opt.sized /\ Rescue(source, target, {"backup"}, FALSE) /\ StopManual
     \/ /\ opt.sized /\ Rescue(source, target, {"backup"}, TRUE)
        /\ pc' = "parse_backup"
        /\ UNCHANGED <<volume, mft_domain, saved, fuse, opt, source, target, retry>>

ManualParseBackup ==
  /\ pc = "parse_backup" /\ Seen(target, "backup") = "ntfs"
  /\ pc' = "manual_mft"
  /\ UNCHANGED <<volume, image, mft_domain, saved, fuse, opt, source, target, retry>>

\* Not a boot sector either: parse_boot_sector raises what nobody catches
\* (a ValueError), or BitLockerDetected.
ManualNoBackup ==
  /\ pc = "parse_backup" /\ Seen(target, "backup") # "ntfs"
  /\ \/ Raise /\ UNCHANGED <<volume, image, mft_domain, fuse>>
     \/ Seen(target, "backup") = "bitlocker" /\ StopManual /\ UNCHANGED image

\* Seeded fault: no domain log is kept for the retry pass.
ManualMftNoDomain ==
  /\ pc = "manual_mft"
  /\ \/ /\ Rescue(source, target, chunk, TRUE)
        /\ pc' = "retry"
        /\ UNCHANGED <<saved, opt, source, target, retry>>
     \/ Rescue(source, target, chunk, FALSE) /\ Return(Incomplete)
  /\ UNCHANGED <<volume, mft_domain, fuse>>

\* The 64 MB from where the boot sector says that the MFT is.  An error of this
\* pass, unlike one of RecoverMft, is fatal.
ManualMft ==
  /\ pc = "manual_mft"
  /\ mft_domain' = [view |-> source, manual |-> TRUE]
  /\ \/ /\ Rescue(source, target, chunk, TRUE)
        /\ pc' = "retry"
        /\ UNCHANGED <<saved, opt, source, target, retry>>
     \/ Rescue(source, target, chunk, FALSE) /\ Return(Incomplete)
  /\ UNCHANGED <<volume, fuse>>

-----------------------------------------------------------------------------
\* The retry pass takes its domain from the log of the first one.
Retry ==
  /\ pc = "retry"
  /\ IF retry > 0
     THEN \E ok \in BOOLEAN : Rescue(source, target, Asked, ok)
     ELSE UNCHANGED image
  /\ pc' = "finish"
  /\ UNCHANGED <<volume, mft_domain, saved, fuse, opt, source, target, retry>>

\* Seeded fault: whatever was read counts as the whole.
CoverageRoundsUp ==
  LET read == {a \in Asked : image[target][a] # "none"} IN
  IF Seen(target, "boot") = "tree" \/ read = {} THEN "none" ELSE "full"

\* _compute_mft_coverage, of the MFT domain log; the other filesystems have none.
Coverage ==
  LET read == {a \in Asked : image[target][a] # "none"} IN
  IF Seen(target, "boot") = "tree" \/ read = {} THEN "none"
  ELSE IF read = Asked THEN "full" ELSE "part"

\* The unmount is tried, and the boot sector of the image parsed: for NTFS
\* it says where the MFT is, whatever the manual bootstrap went by.  The state
\* file has no manual: it is kept here for CoverageTrue.
Finish ==
  /\ pc = "finish"
  /\ fuse' \in IF source = "disk" THEN {fuse} ELSE {fuse, FALSE}
  /\ Return([complete |-> TRUE, bitlocker |-> source = "fuse", view |-> target,
             mft_lcn |-> Seen(target, "boot") = "ntfs", coverage |-> Coverage,
             manual |-> mft_domain.manual])
  /\ UNCHANGED <<volume, image, mft_domain>>

\* Ctrl-C or a kill: run_bootstrap has no finally.
Stop ==
  /\ pc # "idle"
  /\ Raise
  /\ UNCHANGED <<volume, image, mft_domain, fuse>>

Next ==
  \/ \E o \in Options : Begin(o)
  \/ CheckBitLocker \/ MountFails \/ Mount \/ MountTimesOut \/ Detect
  \/ RecoverTree \/ DdruFinds \/ DdruFails \/ RecoverMft
  \/ ManualBoot \/ ManualParse \/ ManualBitLocker \/ ManualBackup
  \/ ManualParseBackup \/ ManualNoBackup \/ ManualMft
  \/ Retry \/ Finish \/ Stop

Spec == Init /\ [][Next]_vars

-----------------------------------------------------------------------------
\* An image never mixes two views: offsets from the disk and offsets from the
\* mount, ciphertext and plain text, are not written to one file.
ImagesUnmixed ==
  \A v \in Views, a \in Areas : image[v][a] \in {"none", v}

\* Every pass over the MFT has a domain, and one made for the view it reads:
\* without it gddrescue would read the whole failing drive.
AsksRightRegion == pc \in {"mft", "retry"} => mft_domain.view = source

\* A bootstrap is never declared complete on ciphertext: the state it leaves
\* names the decrypted image exactly when it says BitLocker.
NeverOnCiphertext ==
  saved.complete => /\ saved.bitlocker = (saved.view = "fuse")
                    /\ saved.bitlocker = encrypted

\* A coverage of 100% means that the whole MFT is in the image the state names,
\* and after the manual bootstrap that all of it is which lies in the 64 MB from
\* its start: whatever domain log and image earlier bootstraps left behind.
CoverageTrue ==
  saved.coverage = "full" =>
    \A a \in IF saved.manual THEN Meta \cap chunk ELSE Meta : image[saved.view][a] = saved.view
-----------------------------------------------------------------------------
Steps == {"idle", "check", "mount", "detect", "tree", "ntfs", "mft", "manual", "parse",
          "parse_backup", "manual_mft", "retry", "finish"}

State == [complete : BOOLEAN, bitlocker : BOOLEAN, view : Views, mft_lcn : BOOLEAN,
          coverage : {"none", "part", "full"}, manual : BOOLEAN]

Domain == [view : {"none"} \cup Views, manual : BOOLEAN]

TypeOK ==
  /\ fs \in Filesystems /\ encrypted \in BOOLEAN /\ chunk \in Chunks
  /\ image \in [Views -> [Areas -> {"none"} \cup Views]]
  /\ mft_domain \in Domain /\ saved \in State
  /\ fuse \in BOOLEAN /\ pc \in Steps /\ opt \in [retry : {0, 1}, sized : BOOLEAN]
  /\ source \in Views /\ target \in Views /\ retry \in {0, 1}

\* The mount is there for an encrypted volume only, and from the step on that
\* reads the metadata by what a boot sector said, nothing reads ciphertext.
PlainText ==
  /\ pc = "mount" \/ source = "fuse" => encrypted
  /\ pc \in {"tree", "mft", "manual_mft", "retry", "finish"} /\ encrypted => source = "fuse"

\* The inductive invariant of the proofs.
IInv ==
  /\ TypeOK /\ target = source /\ PlainText
  /\ ImagesUnmixed /\ AsksRightRegion /\ NeverOnCiphertext /\ CoverageTrue
=============================================================================
