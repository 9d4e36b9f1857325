# ddtriage in TLA+

ddtriage recovers chosen files from a failing drive: it has gddrescue read the
metadata of a volume, builds the directory tree from the image, lets the user
choose, has gddrescue read the sectors of the chosen files and extracts them.
The drive gets worse with every read, the work is interrupted for days and
resumed, and what the program says about a file ("complete") is all its user
has. This directory holds a formal model of the program, the configurations
TLC checks it with, and proofs TLAPS checks.

Paths of the form `x.py:n` are below `src/ddtriage/`; `README.md:n` and
`PLAYBOOK.md:n` are the repository's own documents.

1. [The system](#1-the-system)
2. [The modules](#2-the-modules)
3. [The runs](#3-the-runs)
4. [The proofs](#4-the-proofs)
5. [Where the code and its documents disagree](#5-where-the-code-and-its-documents-disagree)
6. [What is not modelled](#6-what-is-not-modelled)
7. [Plan](#7-plan)

## 1. The system

The program is one synchronous process (PLAYBOOK.md:763) that starts others:
gddrescue, ddru_ntfsbitmap, dislocker-fuse or bdemount, fusermount. Its parts
talk through the files of a working directory: the image, the mapfile gddrescue
keeps for it, domain logs, the state file, the selection, the output and its
report. Concurrency is therefore not between threads but between sessions: any
of them may be stopped (Ctrl-C, a kill, a power cut, an exit code) between any
two writes, and the next one starts from what is on disk.

| Component | State it keeps | Operations | Hard behaviour | What makes it correct |
|---|---|---|---|---|
| mapfile (`mapfile/`) | ranges and their status | merge, subtract, write a domain log, query | boundaries of ranges, unsorted and overlapping input | list computations agree with the sets of bytes they stand for; a domain log is contiguous |
| recovery (`recovery/orchestrator.py`, `cli.py` `_do_recover`) | domain log, mapfile in memory, results, report | plan, pass, retry, reload, assess, extract, report | passes that fail or are killed, a mapfile saved late, resuming, encrypted volumes | only what is missing is read; "complete" is true; no way out of a session forgets its mount; interrupted work is finished in the end |
| extraction (`recovery/extractor.py`) | output directory, results, gaps | read runs, decompress, trim, write, report | runs that were not read, holes, paths that collide, failed writes | a complete file is what the volume has; every lost byte is named; each file is reported once, but for known exceptions |
| bootstrap (`bootstrap.py`) | image, MFT domain, FUSE mount, state being built | boot sector, BitLocker mount, detection, ddru or manual MFT, retry, coverage | two views of one disk, a damaged boot sector, early returns | one image never mixes two views; a pass has the right domain; the coverage is true of what was asked for |
| directory discovery (`bootstrap.py`) | ranges tried, pass number | walk, collect new ranges, pass | the walk sees what the last pass read; limits on depth and passes | every directory the tree can show was asked for, and once |
| session (`cli.py`, `SessionState`) | state file, files in the directory | load, save, override, clean up | torn state files, deletion, mixed options | mapfile and image belong together over any sequence of commands |
| command line (`cli.py` `main`) | words, parsed arguments | pre-parse, parse twice, dispatch | order of options, device and command | options are heard wherever they stand, and a command does what its session allows |
| selection (`selection.py`, `tui/browser.py`) | ticked ids, widget nodes, selection file | tick, select all, save, load, recover | ids that outlive the tree they were made in | what is recovered is what was chosen |
| NTFS scan (`ntfs/mft_parser.py`) | index, run of empty slots | read a slot | unread and torn records | no record before a gap is lost, none is invented |
| NTFS tree (`ntfs/tree.py`) | records by number | merge extensions, link parents, orphans | records lost, reused, spread over others | each file has its own data and its own place |
| health (`health.py`) | none | sum the rescued bytes of a file | three places of the program compute a verdict | it agrees with the verdict of the extraction |
| FAT table (`fat32/`, `exfat/`) | position in a chain | follow, to runs | loops, bad and unread entries, limits | the runs are the chain, in order |
| FAT directories and trees (`fat32/`, `exfat/`) | slots, stack of directories, records | parse slots, descend | deleted and reused slots and clusters, slots that were not read | what was read is in its place with its name, and nothing else |
| ext (`ext4/`) | none | inodes, extents, directories | blocks that say where blocks are | each block of a file at its own place |
| decoders (`ntfs/attributes.py`, `data_runs.py`, `lznt1.py`, boot sectors) | none | decode bytes | bounds | (pure; by their outcome) |

`PROJECT.json` lists under "hazards", at its line, everything in this code that
is hard to test, with the properties that would catch it going wrong.

## 2. The modules

```
ProgressiveImage  <--refines--  Recovery  --uses the answers of-->  DomainLog
                                   |  certifies what it writes         |
                                   |                 \                 | both on
                              one step of             Extraction --> RangeStatus
                                   v                      ^            Mapfile
CommandLine  --refines, EXTENDS-->  Session               |
                                   ^                  ExtBlocks (runs of inodes)
                              one step of
                                Bootstrap --> DirDiscovery

Selection <-- ids -- { NtfsTree --EXTENDS--> MftScan
                     { FatTree  --EXTENDS--> FatChain, FatDirectory
```

| Module | Models | How its state and actions correspond to the code |
|---|---|---|
| `Mapfile` | `MapEntry`, `Mapfile` of `mapfile/parser.py` | an entry is a record `pos, size, status`; `BytesOfList` is what a list of ranges stands for, `Rescued` what a mapfile has as `+` |
| `DomainLog` | `mapfile/generator.py`: `generate_targeted_domain` with the three calls of `merge_ranges`, `subtract_rescued`, `generate_domain_log` | one action per branch of each loop; `caller` is the place `merge_ranges` returns to; `cur`, `merged`, `cursor`, `result` are the locals; `domain` the entries written |
| `RangeStatus` | `get_range_status`, `is_range_rescued`, `coverage_percentage` | one action per branch of the loop; the two summaries are operators |
| `Extraction` | `recovery/extractor.py`, with `compute_file_health` of `health.py`, byte by byte | extends `RangeStatus`: `Ask` hands the range of a run to its loop and `Answer` takes the verdict; `output` is the directory tree on disk, `tree` the records, `report` the three lists |
| `ExtBlocks` | `walk_extent_tree`, `inode_to_data_runs`, `_parse_indirect_blocks` of `ext4/inode.py` | functions from an inode and the blocks that were read to runs; `MCExtraction` gives them to `Extraction` as records |
| `ProgressiveImage` | what the program promises | abstract: an image that only grows, files certified from it |
| `Recovery` | `_do_recover` with `plan_recovery`, `run_recovery`, `assess_results`, `extract_selected`, `write_report` | `pc` is the place in `_do_recover`; `saved` is the mapfile on disk, `mapfile` the parsed copy, `ddmap` the one gddrescue holds; `Interrupt` runs the `finally`, `Crash` does not; `Unmount` may fail without notice, which `abandoned` remembers |
| `Bootstrap` | `run_bootstrap`, `_bootstrap_manual`, `_compute_mft_coverage` | `source` and `target` are `source_device` and `image_path`; an area of an image remembers the view it was read through; `chunk` is what lies in the 64 MB that the manual bootstrap asks for |
| `DirDiscovery` | `_bootstrap_fat`, `_bootstrap_ext4`, the walks and what the tree builders list | `tried` is `all_recovered_ranges`; `Pass` is one turn of the loop |
| `Session` | the commands of `cli.py` on one directory, `cleanup_session_files` | a whole bootstrap or pass is one step; pairs of image and mapfile, `state` may be torn |
| `CommandLine` | `main` of `cli.py` and the words it is given | extends `Session`: `Type` chooses a line, `Run` is the command its words come to, `Args` the device that is taken out and the two passes of the parser |
| `Selection` | `selection.py`, the selection of `tui/browser.py`, the commands that use it | the tree may change between any two steps; ids as each filesystem gives them |
| `MftScan` | `iter_mft_records` | one action per branch of the loop |
| `NtfsTree` | `parse_mft_record`, `build_tree`, `extract_file` on a lost extension | extends `MftScan`: the volume lives (make, spread, delete, reuse), is read with damage, scanned slot by slot and built from what the scan returned |
| `FatChain` | `follow_chain`, `chain_to_data_runs` | one action per branch of the loop, on any table |
| `FatDirectory` | `parse_directory` of FAT and of exFAT | walks over the slots: a slot is free, a label, a part of a name, an entry or a member of an entry set, in use or deleted |
| `FatTree` | `build_fat_tree`, `build_exfat_tree` | extends the two above: the volume lives (make, move, delete, reuse of slots and clusters), is read with holes, and `stack` descends as the recursion does |

`MC*` modules give the constants their values. Definitions marked "Seeded
fault" are not part of the model: each is a mutation of the definition behind
it that a property is known to catch.

## 3. The runs

Twelve runs: ten that pass, and two, `HalfCleaned` and `CompressedFiles`, that
are expected to find a violation (section 5).

| Configuration | Question | Bounds, and why they are enough |
|---|---|---|
| `DomainLog` | does merging keep the bytes and separate the ranges, and is the domain log contiguous, exactly the unrescued part, and counted once? | every list of up to 2 ranges of up to 3 bytes at 4 positions, in any order, with empty ones, and every mapfile of up to 2 entries of up to 3 bytes: ranges touch, overlap, nest; an entry lies before, inside, across and behind a range, or across two of them, and cuts a range in up to three |
| `Extraction` | is a file that is called complete what the volume has, is every lost byte in a gap, is every file in one list of the report (but for `TwiceListed`), does the browser show green what has no gap; and, inside it, do the pieces of `get_range_status` tile the range and is its verdict right? | clusters of 2 bytes; every pair of runs of up to 2 clusters (overlapping, sparse, out of order), a file end inside and behind them, every mapfile of up to 2 entries: a run is rescued, cut, or lost; six trees whose paths collide; six inodes with holes, unordered leaves and pointers two steps deep; every write may fail, and every decompression |
| `CompressedFiles` | is a compressed file decompressed? (violated) | one unit of two clusters |
| `Recovery` | do image, mapfile, verdicts and report stay consistent over any number of sessions? | 2 sectors, 2 files, 5 trees (shared and sparse runs, resident, empty, lost, too short, directory): every way two files and a mapfile can disagree; sessions and crashes are unbounded. Implements `ProgressiveImage` |
| `RecoveryResumes` | is interrupted work finished? | one tree; liveness, see the fairness below |
| `Bootstrap` | are images unmixed, domains right and the coverage true? | an MFT of two parts; of the 64 MB that the manual bootstrap asks for, the MFT is longer or goes on elsewhere, or it ends inside; four sets of readable areas, all options; bootstraps are unbounded |
| `DirDiscovery` | is every directory asked for, and once? | a FAT, an exFAT and an ext volume with fragmented, contiguous and nested directories and one with an index block, any two bad clusters, two bootstraps, failing passes |
| `CommandLine` | do mapfile and image belong together over any sequence of command lines, do these implement `Session`, and does a device alone start the workflow? | the session's pair and one other, two files; every command with and without a device and the pair of options, in every order, and every line of up to three words of a few that make little sense; commands are unbounded |
| `HalfCleaned` | is a clean-up that is killed harmless? (violated) | as above, without the words |
| `Selection` | is what is recovered what was chosen? | NTFS, FAT and ext trees of six records with a deleted one, an orphan and an impossible parent; ticks, saves, loads and recoveries are unbounded |
| `NtfsTree` | does the scan return the records before the first gap, and has every file its own data and place, complete only with all of it? | 5 slots, 6 operations on the volume, 2 damaged slots: enough to reuse the record of a deleted parent and to lose an extension; a threshold of 1 for 32, a first stop of 2 for 16: the comparison is the same, and the proofs cover all values |
| `FatTree` | are the runs the chain, and is what was read in the tree, in its place and by its name, and nothing else? | every table of 4 clusters, or cut off, with unread pairs: loops, shared tails, free and bad entries; a limit of 4. Volumes of FAT12/16, FAT32 and exFAT with 4 files (one fragmented, two directories, one of them on the cluster of a file), 6 operations, and a slot, a table sector or the end of the image missing: enough for stale entries that lead back to an ancestor, where only the depth limit ends the walk |

A deadlock is checked wherever the program goes on for ever; the loops and a
bootstrap with a bounded number of passes end, and say so in their
configurations. No state constraint is used: every bound is in a guard or a
constant (`MaxOps`, `MaxDamage`,
`MaxRuns`, `MaxPos`, `MaxEntry`, `MaxEntries`).

**Properties worth knowing.**

* `Certified`: a file that is called complete with a mapfile at hand is, byte
  for byte, the file on the drive.
* `MountReleased` (`Recovery`): every way out of the `try` block, by a return, an
  exception, Ctrl-C or its end, tries to unmount. It cannot promise more: the
  unmount may fail, hang or be killed and nothing looks at it
  (bootstrap.py:570-577). So a mount is left behind only by such an attempt, by
  a mount command that hung, or by a kill.
* `AsksForWhatIsMissing`: a pass asks the drive for exactly what the selection
  needs and no earlier session rescued.
* `Resumes`: however often sessions are interrupted, a readable sector of a
  wanted file is rescued in the end.
* `ImagesUnmixed` (`Bootstrap`): bytes read through the decrypted view and bytes
  of the raw disk never meet in one image.
* `CoverageTrue` (`Bootstrap`): a stored coverage of 100% is of the whole MFT
  after ddru_ntfsbitmap, and only of the part of it in the 64 MB from its start
  after the manual bootstrap: that is all its domain log asks for
  (bootstrap.py:1422), and an MFT that is longer or goes on elsewhere is not
  noticed.
* `TreeMappedInside` (`DirDiscovery`): when the passes end, every directory the
  tree builders will list was asked for, but for those `OutOfReach` names.
* `CompleteIsWhole` (`NtfsTree`): a file with a size is called complete only
  with all of its extents.
* `CompleteIsTrue` and `GapsTellLosses` (`Extraction`): a file that is called
  complete is byte for byte the volume's, whatever runs, holes and index blocks
  it has; of another of full length every wrong byte is in a gap of the report.
* `ReportedOnce` (`Extraction`): each file is in one list of the report, and the
  exceptions (`TwiceListed`) are in two, complete and failed: empty files, and
  files that were read whole and whose decompression raised, whose raw data is
  written and stays complete (extractor.py:126-142).
* `HealthAgrees` (`Extraction`): the browser, which sums the rescued bytes of a
  file, and the extraction, which asks for each run, come to the same verdict.
* `ImplementsSession` (`CommandLine`): with options given in pairs, on whatever
  side of the command each stands, a command line does no more than `Session`.
* `LiveListed` and `NothingInvented` (`FatTree`): what was read of a directory
  is in the tree once, in its place, by its whole name, and nothing else is,
  whatever was deleted, moved and written over before. Once, and nothing else,
  unless an image that ends early cuts a cluster of a directory before its last
  one (`Glued`): `_read_cluster_chain` appends what is left of each run
  (fat32/tree.py:31-37), so that the slots of a later cluster are read where
  those of the cut one should be, and a name or a set that spans the cut may be
  put together from both. Read (`IsRead`) means within the limits the code reads
  up to: a chained directory has no more than `MaxClusters` clusters and the file
  stands in its first `MaxSize` slots.
* `OwnData` (`NtfsTree`): no file gets the data of another, whatever records
  were lost or used again.

**Fairness.** Only `RecoveryResumes` needs it. The program, once running, goes
on (weak fairness of its steps): it is synchronous and waits for nothing but its
children. Everything else is the user's and the drive's part and is assumed
strongly: the user does not give up (sessions are started and confirmed again
and again), a step that can succeed is not hit by a crash every single time,
and a sector that reads is read when it is asked for often enough. The property
is false without the first two, as it should be. A FUSE mount that a killed
session or a failed unmount left is removed by hand (`CleanUp`, fair in `FairSpec`): the program never
does that, and without it every later session of an encrypted volume fails.

## 4. The proofs

TLC shows the properties for small instances, TLAPS for every value of the
constants. Assumptions are only those named in the modules (`...Assumption`);
they say what kind of value a constant is. Two theorems about extraction, five
about sessions and one about discovery have a condition of their own, `RunsLead`,
`PairedOptions` and `IsTree`: it is part of their statement and explained below.

| Module | Theorem | What it shows |
|---|---|---|
| `DomainLogProofs` | `DomainLogExact`, `DomainLogContiguous`, `DomainLogPlanCounts`, `MergeRangesKeepsBytes`, `MergeRangesSeparates`, `DomainLogInvariant` | for any list of ranges in any order and any sorted mapfile, the domain log is the unrescued part of the request, contiguous from position 0, and the plan counts each byte once; each of the three merges keeps the bytes and leaves ranges that increase and never touch |
| `ExtractionProofs` | `RangeStatusTiles`, `RangeStatusCoverageExact`, `RangeStatusVerdictExact`, `RangeStatusInvariant` | for any range and mapfile, the pieces tile the range; the coverage counts the rescued bytes; the verdict is "all rescued" |
| | `ExtractionInvariant`, `ExtractionStatusTiles`, `ExtractionVerdictExact`, `ExtractionReportedOnce` | for any tree, mapfile and image: the same of every range an extraction asks about; each file is in one list of the report, and in two, complete and failed, exactly if it is `TwiceListed` |
| | `ExtractionHealthAgrees` | for any tree and mapfile, the health that is shown of a file agrees with the gaps its extraction finds |
| | `ExtractionGapsTellLosses`, `ExtractionCompleteIsTrue` | if the runs of each record lead to its content (`RunsLead`), a file that is called complete is byte for byte the volume's and of another of full length every wrong byte is in a gap |
| `RecoveryProofs` | `RecoveryInvariant`, `RecoveryCertified`, `RecoveryMountReleased`, `RecoveryAsksForWhatIsMissing`, `RecoveryImplements` | the safety of recovery sessions for any drive, any trees, any options and any number of sessions, and that `Recovery` implements `ProgressiveImage` |
| | `RecoveryPassInv`, `RecoveryRecoversWhatItCan`, `RecoveryAssessmentStands` | a pass that succeeds makes every file complete whose sectors can be read, and the report does not take back what the assessment said |
| `BootstrapProofs` | `BootstrapInvariant`, `BootstrapImagesUnmixed`, `BootstrapAsksRightRegion`, `BootstrapNeverOnCiphertext`, `BootstrapCoverageTrue` | every safety property of the bootstrap, for any areas of the disk, any extent of the 64 MB chunk, any options and any number of bootstraps |
| | `DiscoveryInvariant`, `DiscoveryMapsTree` | for any volume, any unreadable clusters and any failing passes: when the passes end, every directory the tree builders list was asked for, but for those `OutOfReach` names |
| | `DiscoveryAsksOnce` | if no directories share a cluster and none is listed twice (`IsTree`), no two passes of a bootstrap ask for the same cluster |
| `SessionProofs` | `SessionInvariant`, `SessionSourceOfTruth`, `SessionReportTrue` | for any drive and directory and any sequence of commands whose options name one pair or none (`PairedOptions`), a mapfile claims only what its image has and the report is true |
| | `CommandImplementsSession`, `CommandSourceOfTruth`, `CommandReportTrue` | any words that are typed do no more than `Session` says, so the same holds of every sequence of command lines |
| | `CommandStartsWorkflow` | a line that names a device and no command starts the whole workflow on that device, with the options that were typed, wherever among the words the device stands |
| `SelectionProofs` | `SelectionInvariant`, `SelectionBoxesAreSelection`, `SelectionNothingUnchosen`, `SelectionRecoversWithChildren` | for any trees and any ticks, saves, loads and recoveries: the boxes are the selection, and what is recovered is what was chosen with what is below it |
| `NtfsTreeProofs` | `MftScanInvariant`, `MftScanFinds` | for any image, threshold and first stop, the scan returns the records before the first gap and nothing else |
| | `NtfsTreeInvariant`, `NtfsTreeFindsUpToTheGap`, `NtfsTreeLiveFound`, `NtfsTreeNoneUnreachable`, `NtfsTreeLivePlaced`, `NtfsTreeOwnData`, `NtfsTreeCompleteIsWhole` | for a volume of any size, used for any time and read with any damage: every file that was read is in the tree, in its place and within reach, with its own data, and is complete only with all of it |
| `FatTreeProofs` | `FatChainInvariant`, `FatChainRunsFollowChain`, `FatChainAlignedSectors` | for any allocation table, cluster limit, size and geometry: the runs of a chain are its clusters in order, all of them unless the chain is longer than the limit; on a volume whose data area is aligned to clusters the sectors asked for are those of the clusters of the runs |
| | `FatTreeInvariant`, `FatTreeRunsFollowChain`, `FatTreeAlignedSectors` | the same of every chain that a tree follows, on a volume of FAT12/16, FAT32 or exFAT of any size, used for any time and read with any damage |
| | `FatTreeNothingInvented` | on such a volume, unless one cluster of a directory is read in the place of another (`Glued`), every record of the tree that is not deleted is of a file in use, under the directory it is in and by its name (of exFAT: the beginning of it) |
| | `FatTreeLiveListed` | the converse: on such a volume every file in use that is not below the depth limit and whose way was read (`IsRead`, for its directory and each one above) is in the tree that is built, under its directory, by its whole name and with all of its clusters if they are within the limit; once, unless `Glued` |

**The argument for the loops.** Each loop has an invariant `IInv` that says what
the part of the input behind the index stands for: `merged` and the current
interval together cover the bytes of the ranges taken so far (`LoopInv`), the
ranges found so far are the unrescued bytes below `cursor` (`InnerInv`), the
entries written tile up to `cursor` (`WriteInv`), the pieces tile the range up
to `cursor` (`RangeStatus`). `merge_ranges` is called three times in `DomainLog`,
and `CallInv` says what each call is given, so that its two facts are proved
once and used three times. A chain of a FAT is such a loop, too (`ChainInv`): the
runs so far and the current one, written out cluster by cluster, are the walk
up to the current cluster. That writing out a list of runs and appending to it go
together is proved by induction on the list (`FlattenAppend`); that the
sectors are those of the clusters needs that the division in `cluster_offset`
is exact when the data area is aligned (`DivideExact`).

`PlanCounts` and `HealthAgrees` compare a sum over a list with a number of
bytes. The sum is a recursive function (`SumOf`), and what is said of it is
proved by induction on how much of the list is summed (`Induction`, from
`LeastNumber`, as for sessions below). For the plan, ranges that never touch have
as many bytes as their sizes add up to (`SeparatedSum`); `PlanInv` keeps that
the lists of the plan are such ranges and which bytes they have. For the
health, of each run no more is counted than its size, and all of it only if all
of it was rescued; sums of such numbers are equal only if the numbers are
(`SumsCompare`). That the extraction records a gap for exactly the other runs is
an invariant, `GapsInv`.

**The argument for recovery.** `Certified` is not inductive: the mapfile a
verdict was taken from may be older than the one on disk. `IInv` adds that the
parsed copy is behind the one on disk, which is behind the image
(`MapBehindImage`; that gddrescue saves its mapfile after the data is an
assumption, and no step of the program may spoil it), how `pc` fixes which copies are equal (`SessionInv`), and
that a verdict of the running extraction rests on sectors the mapfile on disk
has (`VerdictInv`). Each action then touches one link of the chain
`mapfile <= saved <= ddmap <= image`. The refinement maps the report that was
checked against a mapfile to the certified files of `ProgressiveImage`; steps
that only move `pc` are stutters.

`RecoversWhatItCan` and `AssessmentStands` are about one step, the report, and
need what the steps before it left: `PassInv` says that the domain of a pass is
what the parsed mapfile lacks, that after a success the mapfile on disk has all
of the selection that reads, and that an assessment was made from the copy
the extraction uses.

**The argument for the extraction.** `ExtractInv` follows one file through the
loop of `_read_data_runs`: the buffer ends where the next run begins, and each
byte of it is the volume's or in a gap (`BufferInv`); a file that was written
keeps its bytes as long as no later record has its path (`WrittenInv`), which
is why records are written in the order of their numbers; a verdict that was
taken is that of the mapfile (`LoopTrue`, from the invariant of `RangeStatus`).
What a file "really" holds is data of the model, so that "the runs lead to it"
is a hypothesis there, `RunsLead`: a record is a list of runs with the offset
of each in the file, and `RunsLead` says that the content has the bytes of each
run at its offset, if the record is one `CompleteIsTrue` speaks of and its runs
reach its size (`Faithful`). It is the decoders' part of the claim. TLC evaluates
it for the records of the run that are written down as such (`LayoutsLead` of
`MCExtraction`); those of inodes come from `ExtBlocks`, and of them the run
checks the properties themselves. The theorems that do not speak of contents do without.

**The argument for the bootstrap.** The four properties are conjuncts of one
invariant. What they lack is that `target` always belongs to the view `source`
names, so that a pass writes only to the image of the view it reads, and
`PlainText`: there is a mount only on an encrypted volume, and from the step on
that reads the metadata by what a boot sector said the source of an encrypted
volume is the mount.

**The argument for discovery.** The tree builders step into every directory, the
walk into every chained one and through a contiguous one at once, so a directory
of the tree is either one the walk has been in, with the same runs, or a
contiguous one it met a level higher and asked for (`IsCovered`). When nothing new is
left to ask for, this goes down the levels of both recursions together
(`BuiltIsCovered`). What the walk shows may also shrink: a run behind the end of
the image is left out, and once the image is longer it is read, as zeros
perhaps, which end the directory. So what was tried is not compared with an earlier
walk but with all that any walk may come to, the least sets that are closed under
steps (`IsClosed`). A contiguous directory is asked for as a whole by who meets it and by its
first cluster by who steps into it; that none is in both sets follows from
the least ones alone, since its parent, of which there is one (`IsTree`), would be in both
as well. TLC evaluates `IsTree` for the volumes of the run.

**The argument for sessions.** `SourceOfTruth` needs that the state file always
names an image and its own mapfile, which `IInv` of `Session` adds, and that is
where `PairedOptions` is needed. `CommandLine` is shown to implement `Session`
step by step: a line is one command with the options the two passes leave it,
and these must be options `Session` allows. What is assumed of a line is what
can be seen in it (`CommandLineAssumption`): a shared option stands in front of
one value, the same wherever it is repeated, and the two values name a pair or
are both left out. That the passes find these values is proved: the device that
is taken out is never an option or the value of one (`RestGives`), the second
pass finds the value of each option that is there (`LastValueIsGiven`), and
the first pass, a recursive function of the words, gives no value to one that is
not (`NothingGiven`). This last is an induction over the words: its hypothesis
is a set of numbers, and the least number that is not in it would be the
successor of one that is (`LeastNumber`, from the library's well-foundedness of
the natural numbers; the library's own induction rule takes an operator and
cannot be used). `WorkflowStarts` compares two readings of a line: that of `Args`, which takes the
device out and reads the rest twice, and one pass over the words without the
device. If the one pass finds no command and no error, it gives each option the
value behind it, from word to word (`BehindNext`, `GivenIsParsed`), and so do the
two.

**The argument for selections.** What is below a node is the least set that is
closed under children (`Below`), so that facts about it follow without
induction: to be in it is to be in every closed set. Ticking adds or removes
such sets; `IInv` says that the boxes of the widget are the selection and that
entries of the file, where ids are numbers of the volume, stand for nodes.

**The argument for the tree of NTFS.** The volume has an invariant of its own
(`VolumeInv`): what is in use is in a directory in use, with the life its
reference names (`PlaceInv`); a base record has no extent but its own, and an
extension record in use belongs to a base record in use (`ExtentInv`). Deleted
records keep references to slots that were used again, and that these never
close a cycle is the hard part: the slots can be ranked with every parent below
its children (`RankInv`). When a slot is used again, the deleted records below
it are ranked anew, above its new parent; nothing in use is among them, since
a directory is empty when it is deleted. That no set of records contains all
of its own parents follows from the least rank in it. `ScanInv` joins this to
the invariant of the scan, whose lemmas are used as they are.

**The argument for the trees of FAT.** `VolumeInv` says what a volume holds after
any history: the slots of a file in use stand in one directory in use, one after
the other and nowhere else; no two files in use share a cluster; behind the first
slot of a directory that was never used all are unused (`ZeroLast`); and the slots
that a deleted set of exFAT counts as its own are not in use again as long as its
first slot stands (`HeadsFree`), or the parser would pass over a file behind it. Of
each change of the volume it is shown that it keeps this: the two are so because
the first free places are taken. `TreeTyped` has `ChainInv` of the chain that is followed at
present; with `LinkInv`, which says that the table is the one of the volume, the
runs of a directory in use are the first of its clusters (`ChainFirst`). What is
read of them is, slot by slot, what the directory has, zeros for what is missing
(`DirectoryFaithful`). The walks of both parsers are recursive functions over the
slots; that they exist and have a type is proved by induction on the slots, and so
is what they have gathered at each slot (`PartsSoFar`). So an entry in use
that a parser makes of such data is listed in that directory, by its name
(`ParseSound`), whatever deleted slots stand between. `SoundInv` keeps of every
record, and of every entry that waits on the stack, that it is listed where the
record above it is, if that one is in use itself (`Child`): stale directories may
list anything, and what is below them is not in `InTree`. By induction on the
records, everything in `InTree` is a file in use in its place. Volumes without
files, on which the run tries every torn table, are the case `NoFiles`: nothing is
listed at all.

The converse, `LiveListed`, takes each of these steps the other way. Where the
table was read, the walk goes from cluster to cluster of the file
(`WalkReaches`), so the runs reach as far (`ChainReaches`; the whole file,
`RunsWhole`), and what is read of a directory has every slot up to the last one
of the file that is looked for (`DirectoryReaches`, `ReadUpTo`). In such data
the parsers list it: no slot in front of it ends the directory (`UsedBefore`;
what was not read behind it does not matter, `FatPrefix`), and the position of
the exFAT parser, which jumps behind each set it takes, never jumps over the
first slot of a set in use (`SetBefore`, `HeadReached`, from `HeadsFree`). They
list it once because an entry is made at one slot of its set only, the last of
FAT and the first of exFAT (`ListedOnce`).

`CompleteInv` is the account of the builder: a directory it entered that is in
use owes each of its files whose way was read (`Owed`) as a record, as the entry
whose chain is followed, or as one that waits on the stack; and a directory is
entered as long as it is not too deep, for which `D` counts the levels of the
records: a record is one below that of its parent, and the stack holds one
directory of each level (`Level`). When the stack is empty, all that is owed has
its record (`TreeReaches`, by induction on the level). `UniqueInv` keeps the
records, the stack and the entry in hand apart below each directory in use
(`Once`, `Apart`); of two records in the tree of one file, both are below a
record of its directory, which is one by induction, so they are one
(`TreeOnce`).

The inductive invariants are proved, and no run repeats them.
`RangeStatus` and `MftScan` are proved twice: as loops of their own, `Spec`, for
any input, and as parts of `Extraction` and `NtfsTree`, as the runs check them.
So is `FatChain`, alone and as a part of `FatTree`, with the chains that a tree
asks for.

**Only model-checked.**

* `Resumes`: liveness under fairness is out of the prover's reach.
* The functions of `ExtBlocks`, through the run of `Extraction`.

## 5. Where the code and its documents disagree

Two of them are runs.

`CompressedFiles.cfg`: `CompressedIsTrue` of `Extraction` is violated. The
documents say that LZNT1 compression is handled (README.md:30,
extractor.py:207-209). `_read_data_runs` replaces the sparse run that marks a
compressed unit by zeros (extractor.py:166-170), so that every unit has its full
size and is taken as stored (extractor.py:218): the output has the compressed
bytes and zeros, and is called complete.

`HalfCleaned.cfg`: with `SpecKilled`, `SourceOfTruth` of `Session` is
violated. `cleanup_session_files` deletes in the order of the names, so that a
clean-up killed between `X.img` and `X.log` leaves a mapfile that claims what no
image has, and the next gddrescue reads nothing of it (bootstrap.py:150).

The following was met while modelling. The models have the code's behaviour in
each case; the passing properties are stated so that they speak of the others,
in the way the last column says.

| Code | Document | What happens | In the models |
|---|---|---|---|
| recovery/extractor.py:176 | PLAYBOOK.md:549 | without a mapfile every gap check is skipped, so files of zeros are listed as complete | `Certified` and `ReportTrue` are about verdicts taken with a mapfile |
| recovery/extractor.py:308 | PLAYBOOK.md:549-551 | an empty file is counted as complete and as failed | `TwiceListed` |
| recovery/extractor.py:132 | PLAYBOOK.md:549-551 | a compressed file whose decompression raises is written raw; `complete` does not look at the error, so that it is counted as complete and as failed | `WriteRaw`, `TwiceListed` |
| recovery/extractor.py:218 | README.md:30 | a unit whose sparse run is in a record that was lost is cut short, decompressed and padded, and can be called complete | `CompleteIsTrue` is about `OnlyStored` |
| recovery/extractor.py:56 | PLAYBOOK.md:549 | records with one path overwrite one another and both are called complete; orphans of one name share a path | `Keeps` |
| recovery/extractor.py:310 | PLAYBOOK.md:549 | a file named like the report is overwritten by it; a directory of that name ends the command with an error | `Keeps`, `ReportFails` |
| recovery/extractor.py:134 | PLAYBOOK.md:549 | the clusters behind the end of a file count for its verdict: lost ones make a whole file partial | `CompleteIsTrue` is one direction |
| ntfs/attributes.py:232 | PLAYBOOK.md:549 | the initialized size of NTFS and the valid length of exFAT are not used: what is stale behind them is extracted | not modelled |
| ext4/inode.py:173 | PLAYBOOK.md:549 | an extent index that was not read is a hole, and the file is called complete; such blocks are never asked for | `known` in `CompleteIsTrue` |
| ext4/inode.py:221 | PLAYBOOK.md:549 | zero pointers are left out and the data behind them moves forward; the file is short | `GapsTellLosses` is about files of full length |
| ext4/inode.py:161 | PLAYBOOK.md:549 | uninitialized extents are read as data | not modelled |
| ntfs/lznt1.py:140 | ntfs/lznt1.py:138 | the number of length bits is one off at powers of two of the position | not modelled |
| cli.py:797 | README.md:325 | nothing removes a FUSE mount a killed session left, and later sessions fail on it | `CleanUp` is the user |
| cli.py:277 | README.md:29 | `state.mft_coverage_pct or 100.0`: a coverage of 0 is shown as 100% | `CoverageTrue` is about the number that is stored |
| bootstrap.py:1422 | README.md:29 | the manual bootstrap asks for 64 MB of the MFT, wherever it goes on, and reports the percentage of these | `Asked`, `CoverageTrue` |
| bootstrap.py:573 | bootstrap.py:571 | an unmount that fails is not noticed (the exit code) or only logged, and later sessions fail on the mount | `Unmount`, `MountReleased` |
| bootstrap.py:830 | bootstrap.py:846 | the handlers of the manual bootstrap return with the FUSE mount in place | `StopManual` leaves it |
| bootstrap.py:858 | PLAYBOOK.md:112 | the geometry found in the backup boot sector is not stored | `Finish` reads the primary one |
| bootstrap.py:829 | README.md:325 | a second bootstrap that fails overwrites the state of a complete session | `StopManual` saves it |
| cli.py:604 | PLAYBOOK.md:765 | `--image` without `--mapfile` uses the mapfile of another image | `Session` is checked with paired options |
| bootstrap.py:127 | bootstrap.py:145 | every `.img` and `.log` of the directory counts as a session file and is deleted | `CleanUp` deletes all pairs |
| bootstrap.py:1109 | README.md:351 | a contiguous exFAT directory inside a contiguous one is walked through the FAT | `OutOfReach` |
| bootstrap.py:1290 | bootstrap.py:1227 | blocks that hold the extents of an ext directory are never asked for | `OutOfReach` |
| bootstrap.py:1049 | bootstrap.py:950 | a directory run that ends behind the image is skipped as a whole | `TreeMappedInside` is about runs inside it |
| bootstrap.py:956 | bootstrap.py:951 | 32 passes map 32 levels, the walks go down to 64 | `TreeMappedInside` is about fewer passes than `MaxPasses` |
| fat32/tree.py:130 | README.md:392 | FAT and exFAT ids are places in a traversal that changes as the image grows and with `--show-deleted` | `SameIds`, `NothingUnchosen` |
| cli.py:314 | README.md:174 | deleted files that were chosen are dropped by `recover` | `RecoversWithChildren` is about those that are not deleted |
| tui/browser.py:461 | README.md:277 | loading a selection ticks again what was unticked in a ticked directory | `LoadSelection` expands |
| tui/browser.py:235 | PLAYBOOK.md:284 | no key can select an orphan | `Widget` |
| ntfs/mft_parser.py:226 | PLAYBOOK.md:757 | 33 unreadable records in a row end the scan | `FindsUpToTheGap` says where |
| ntfs/tree.py:100 | README.md:339 | of two extension records with `$DATA` only one is used | `OwnData`: own data, not all of it |
| recovery/extractor.py:106 | PLAYBOOK.md:551 | a file whose extension record was lost is empty and complete | `CompleteIsWhole` is about files with a size |
| ntfs/tree.py:261 | PLAYBOOK.md:284 | a deleted file is listed below the new owner of its parent's record | `LivePlaced` is about live files |
| fat32/fat_table.py:106 | README.md:345 | a chain longer than the limit loses its last run | `RunsFollowChain` is about what is returned |
| fat32/fat_table.py:139 | fat32/fat_table.py:136 | a data area not aligned to clusters is read from the wrong sectors | `AlignedSectors` |
| fat32/tree.py:31 | README.md:345 | a run that ends behind the image is cut and the next one glued to it: names of two files can mix | `Glued` |
| fat32/dir_entry.py:93 | README.md:345 | a slot that was not read is zeros and ends the directory; the files behind it are not listed | `IsRead` |
| exfat/dir_entry.py:147 | README.md:351 | a name whose last slots were lost is cut without notice | `NothingInvented`: a prefix |
| fat32/tree.py:156 | README.md:345 | a deleted directory whose cluster was used again lists the files of the new owner, down to the depth limit if that is above it | the part of the tree that is not deleted (`InTree`) |
| fat32/tree.py:131 | README.md:346 | a deleted file whose cluster was used again gets the chain of the new owner | `InTree` |
| cli.py:43 | README.md:162, README.md:184 | `bootstrap /dev/x` and `recover --device /dev/x` lose their device: it is taken out of the words before they are parsed | `Args` |
| cli.py:443 | README.md:216 | the interactive workflow ignores `--image` and `--mapfile` | `NoOptions` |
| cli.py:392 | README.md:220 | `status` without a mapfile ends in a TypeError | `ChangesNothing` |
| recovery/orchestrator.py:98 | README.md:274 | the number of ranges shown counts the fillers between them | not modelled |

## 6. What is not modelled

* The bytes of boot sectors, attributes, directory entries, run headers, LZNT1
  tokens and mapfile text: conversions without state. Where one decides something
  (a torn record, an unread cluster, a unit that is compressed) its outcome is a
  value in the model.
* Timestamps, wording and layout; which of several NTFS names is taken.
* The tree builder of ext, its directory entries, and the tables of inodes and
  groups; uninitialized extents.
* `Extraction` is one `extract_selected` on an image that does not change: that
  `Certified` of `Recovery` abstracts what it writes is argued in their comments
  and not a refinement TLC checks.
* The fragments of the MFT itself in the scan: it takes what was read of the MFT
  to be one piece. (That the manual bootstrap asks for 64 MB only is in
  `Bootstrap`.)
* Words of a command line that argparse completes or splits: abbreviated options
  and `--option=value`.
* Renames on NTFS, and names of one inode in several directories of ext.
* Inodes of ext with inline data, which have no runs: `DataRuns` is of extents or
  of block pointers.
* A file that `cleanup_session_files` cannot delete (an `OSError`): it goes on with
  the next, which leaves what `SpecKilled` leaves when a kill falls between two.
* FAT12/16: 12-bit entries are not unpacked. The inode tables of ext count as
  read.
* `gddrescue`, `ddru_ntfsbitmap`, FUSE: external, modelled by what the code
  relies on (a pass reads sectors of its domain, saves its mapfile after the
  data, its exit code). That gddrescue keeps its mapfile behind its image is an
  assumption, on which `Certified` and `ImplementsProgressiveImage` rest; it is not
  checked.
* The text of mapfiles (`parse_mapfile`), and the domain logs the bootstrap
  writes by hand.
* Search, key bindings, the information panel, progress bars, disk lists.

## 7. Plan

Done: the recovery core with its abstract specification, the mapfile
computations and the domain log, the extraction down to the byte with the block
maps of ext, the bootstrap, discovery, sessions and the command lines that drive
them, selections, the NTFS scan and tree, the FAT tables, directories and
trees. Proved: every safety property of the passing runs.

Next, in this order:

1. The domain logs the bootstrap writes itself (bootstrap.py:934, not merged),
   with `DomainContiguous` as their specification; `DataRuns` as a recursive
   function against a reference.
2. The tree builder of ext, on inodes that are reused.
