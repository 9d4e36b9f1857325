----------------------------- MODULE Extraction -----------------------------
(***************************************************************************)
(* extract_selected of recovery/extractor.py, byte by byte: the selected   *)
(* records, in the order of their index, become files of the output        *)
(* directory and then lines of the report.  For every data run the mapfile *)
(* is asked whether it was rescued, by the loop of RangeStatus; what was   *)
(* not is zero in the image.  The image has what the mapfile calls         *)
(* finished (that it does is shown by Recovery).                           *)
(***************************************************************************)
EXTENDS RangeStatus, FiniteSets, FiniteSetsExt

CONSTANTS ClusterSize, PartitionOffset,
          UnitClusters,  \* comp_unit_clusters, 16
          Root,          \* ROOT_MFT_INDEX
          ReportName,    \* recovery_report.txt
          Trees(_)       \* all_records, given the mapfile that says what was read

\* A run: its first cluster, None if it is sparse, and how many there are.
None == -1

\* A byte of the drive is its position plus one; what is not there is zero.
\* starts is where in the file each run begins, and where the last one ends;
\* content is what the volume has of the file: a byte that was compressed is a
\* negative number.
FileRecord == [name : STRING, parent : Int, directory : BOOLEAN, resident : BOOLEAN,
               runs : Seq([lcn : Int, count : Nat]), starts : Seq(Nat), size : Nat,
               compressed : BOOLEAN, content : Seq(Int),
               known : BOOLEAN]   \* the runs are those on the volume, if not all

RangeOf(run) == [pos |-> run.lcn * ClusterSize + PartitionOffset, size |-> run.count * ClusterSize]
UnitSize == UnitClusters * ClusterSize

IsFile(r) ==
  /\ r \in FileRecord /\ Len(r.content) = r.size
  /\ Len(r.starts) = Len(r.runs) + 1 /\ r.starts[1] = 0
  /\ \A n \in DOMAIN r.runs :
       /\ r.starts[n + 1] = r.starts[n] + RangeOf(r.runs[n]).size
       /\ r.runs[n].lcn # None => RangeOf(r.runs[n]) \in Ranges

ASSUME ExtractionAssumption ==
  /\ ClusterSize \in Nat \ {0} /\ PartitionOffset \in Nat /\ UnitClusters \in Nat \ {0}
  /\ \A es \in MapfileSet : \A t \in Trees(es) :
       DOMAIN t \subseteq Nat \ {Root} /\ \A f \in DOMAIN t : IsFile(t[f])

VARIABLES tree,
          mapped,    \* there is a mapfile
          at,        \* "next", "runs", "check", "end"
          file, k,   \* the record, its next run
          buffer, gaps,
          results,   \* of the records so far
          output,    \* the output directory: what there is at each path
          report

arguments == <<tree, mapped, entries>>
loop      == <<pc, range, e, cursor, result>>
extract_vars == <<arguments, loop, at, file, k, buffer, gaps, results, output, report>>

Directory  == [kind |-> "directory", data |-> <<>>]
FileOf(data) == [kind |-> "file", data |-> data]
NoReport   == [complete |-> {}, partial |-> {}, failed |-> {}]

\* f with y at x.
With(f, x, y) == [z \in DOMAIN f \cup {x} |-> IF z = x THEN y ELSE f[z]]

ExtractInit ==
  /\ entries \in MapfileSet /\ tree \in Trees(entries) /\ mapped \in BOOLEAN
  /\ pc = "done" /\ range = [pos |-> 0, size |-> 0] /\ e = 1 /\ cursor = 0 /\ result = <<>>
  /\ at = "next" /\ file = None /\ k = 1 /\ buffer = <<>> /\ gaps = <<>>
  /\ results = <<>> /\ output = [p \in {<<>>} |-> Directory] /\ report = NoReport

-----------------------------------------------------------------------------
\* _resolve_output_path: the names from below the root; the parent of an orphan
\* is None.  A tree has no cycle of parents.
PathIn(t, f) ==
  LET within[n \in Nat] ==
        [g \in DOMAIN t |->
           IF n = 0 \/ t[g].parent \notin DOMAIN t THEN <<t[g].name>>
           ELSE Append(within[n - 1][t[g].parent], t[g].name)]
  IN  within[Cardinality(DOMAIN t)][f]

Path(f) == PathIn(tree, f)

Above(p)   == {SubSeq(p, 1, n) : n \in 1 .. (Len(p) - 1)}
Blocked(p) == \E q \in Above(p) : q \in DOMAIN output /\ output[q].kind = "file"

\* dest.parent.mkdir(parents=True, exist_ok=True).
MadeDirs(p) ==
  [q \in DOMAIN output \cup Above(p) |-> IF q \in DOMAIN output THEN output[q] ELSE Directory]

IsDirectory(p) == p \in DOMAIN output /\ output[p].kind = "directory"

Result(complete, error, data, lost) ==
  [complete |-> complete, error |-> error, bytes |-> Len(data), gaps |-> lost]

Failed == Result(FALSE, TRUE, <<>>, <<>>)

\* write_bytes: it may fail, and leaves an empty or a cut file if it does.
WriteBytes(f, data, complete, error, lost) ==
  \/ /\ ~IsDirectory(Path(f))
     /\ output' = With(MadeDirs(Path(f)), Path(f), FileOf(data))
     /\ results' = With(results, f, Result(complete, error, data, lost))
  \/ /\ output' \in {MadeDirs(Path(f))} \cup
          (IF IsDirectory(Path(f)) THEN {} ELSE {With(MadeDirs(Path(f)), Path(f), FileOf(<<>>))})
     /\ results' = With(results, f, Result(FALSE, TRUE, <<>>, lost))

-----------------------------------------------------------------------------
Remaining == {f \in DOMAIN tree : ~tree[f].directory} \ DOMAIN results
IsNext(f) == at = "next" /\ f \in Remaining /\ \A g \in Remaining : f <= g

Idle == UNCHANGED <<arguments, loop, at, file, k, buffer, gaps, report>>

\* mkdir fails, always so where a parent is a file that was extracted before.
NoParent(f) ==
  /\ IsNext(f)
  /\ results' = With(results, f, Failed)
  /\ Idle /\ UNCHANGED output

\* Resident data, or an empty file.
WriteSmall(f) ==
  /\ IsNext(f) /\ ~Blocked(Path(f))
  /\ tree[f].resident \/ (tree[f].runs = <<>> /\ tree[f].size = 0)
  /\ WriteBytes(f, tree[f].content, TRUE, FALSE, <<>>)
  /\ Idle

NoRuns(f) ==
  /\ IsNext(f) /\ ~Blocked(Path(f))
  /\ ~tree[f].resident /\ tree[f].runs = <<>> /\ tree[f].size # 0
  /\ output' = MadeDirs(Path(f))
  /\ results' = With(results, f, Failed)
  /\ Idle

Open(f) ==
  /\ IsNext(f) /\ ~Blocked(Path(f))
  /\ ~tree[f].resident /\ tree[f].runs # <<>>
  /\ output' = MadeDirs(Path(f))
  /\ at' = "runs" /\ file' = f /\ k' = 1 /\ buffer' = <<>> /\ gaps' = <<>>
  /\ UNCHANGED <<arguments, loop, results, report>>

-----------------------------------------------------------------------------
\* _read_data_runs.
Reading == at = "runs" /\ k <= Len(tree[file].runs)
Run == tree[file].runs[k]
RunRange == RangeOf(Run)

SparseRun ==
  /\ Reading /\ Run.lcn = None
  /\ buffer' = buffer \o [i \in 1 .. Run.count * ClusterSize |-> 0]
  /\ k' = k + 1
  /\ UNCHANGED <<arguments, loop, at, file, gaps, results, output, report>>

\* is_range_rescued is called.
Ask ==
  /\ Reading /\ Run.lcn # None /\ mapped
  /\ pc' = "entries" /\ range' = RunRange /\ e' = 1 /\ cursor' = RunRange.pos /\ result' = <<>>
  /\ at' = "check"
  /\ UNCHANGED <<arguments, file, k, buffer, gaps, results, output, report>>

Answer ==
  /\ at = "check" /\ Next
  /\ UNCHANGED <<tree, mapped, at, file, k, buffer, gaps, results, output, report>>

\* The image where the run is; short of it, zeros.
ImageBytes(r) ==
  [i \in 1 .. r.size |->
     LET b == r.pos + i - 1 IN IF b \in Rescued(entries) THEN b + 1 ELSE 0]

Lost == at = "check" /\ ~IsRangeRescued

\* Seeded fault: the gap is recorded where the run is on the drive.
CopyRunGapOnDisk ==
  /\ (at = "check" /\ pc = "done") \/ (Reading /\ Run.lcn # None /\ ~mapped)
  /\ gaps' = IF Lost THEN Append(gaps, RunRange) ELSE gaps
  /\ buffer' = buffer \o ImageBytes(RunRange)
  /\ k' = k + 1 /\ at' = "runs"
  /\ UNCHANGED <<arguments, loop, file, results, output, report>>

CopyRun ==
  /\ (at = "check" /\ pc = "done") \/ (Reading /\ Run.lcn # None /\ ~mapped)
  /\ gaps' = IF Lost THEN Append(gaps, [pos |-> Len(buffer), size |-> RunRange.size]) ELSE gaps
  /\ buffer' = buffer \o ImageBytes(RunRange)
  /\ k' = k + 1 /\ at' = "runs"
  /\ UNCHANGED <<arguments, loop, file, results, output, report>>

\* OSError while the image is read.
ReadFails ==
  /\ at = "runs"
  /\ results' = With(results, file, [Failed EXCEPT !.gaps = gaps])
  /\ at' = "next"
  /\ UNCHANGED <<arguments, loop, file, k, buffer, gaps, output, report>>

-----------------------------------------------------------------------------
\* decompress_compression_unit: the bytes a compressed unit stands for, told
\* apart by its first cluster; from a part that was not read comes nothing.
Decompress(chunk) ==
  [i \in 1 .. UnitSize |->
     IF \A j \in DOMAIN chunk : chunk[j] # 0 THEN -(chunk[1] * UnitSize + i) ELSE 0]

\* _decompress_file goes through the data in units.  A unit of full size is
\* taken to be stored as it is: only what is left at the end may be shorter.
DecompressFile(raw) ==
  LET full == (Len(raw) \div UnitSize) * UnitSize
      rest == SubSeq(raw, full + 1, Len(raw))
  IN  SubSeq(raw, 1, full) \o (IF rest = <<>> THEN <<>> ELSE Decompress(rest))

Shorter(data, n) == SubSeq(data, 1, Least(n, Len(data)))

Trimmed == Shorter(IF tree[file].compressed THEN DecompressFile(buffer) ELSE buffer,
                   tree[file].size)

Raw == Shorter(buffer, tree[file].size)

\* Seeded fault: the length of the output decides, not the gaps.
IsCompleteByLength(data) == Len(data) = tree[file].size

IsComplete(data) == gaps = <<>> /\ Len(data) = tree[file].size

\* All runs are read, and data is written of them, with or without an error so far.
WriteData(data, error) ==
  /\ at = "runs" /\ k > Len(tree[file].runs)
  /\ WriteBytes(file, data, IsComplete(data), error, gaps)
  /\ at' = "next"
  /\ UNCHANGED <<arguments, loop, file, k, buffer, gaps, report>>

Write == WriteData(Trimmed, FALSE)

\* _decompress_file raises: the error is kept, and what was read is written as it
\* is.  Nothing takes complete back for the error.
WriteRaw ==
  /\ at = "runs" /\ tree[file].compressed /\ buffer # <<>>
  /\ WriteData(Raw, TRUE)

\* Seeded fault: an error does not keep a file from being called partial.
ClassesOverlap ==
  [complete |-> {f \in DOMAIN results : results[f].complete},
   partial  |-> {f \in DOMAIN results : ~results[f].complete},
   failed   |-> {f \in DOMAIN results : results[f].error \/ results[f].bytes = 0}]

\* The three lists of write_report.
Classes ==
  [complete |-> {f \in DOMAIN results : results[f].complete},
   partial  |-> {f \in DOMAIN results : ~results[f].complete /\ ~results[f].error
                                        /\ results[f].bytes > 0},
   failed   |-> {f \in DOMAIN results : results[f].error \/ results[f].bytes = 0}]

WriteReport ==
  /\ at = "next" /\ Remaining = {}
  /\ ~IsDirectory(<<ReportName>>)
  /\ report' = Classes
  /\ output' = With(output, <<ReportName>>, FileOf(<<>>))
  /\ at' = "end"
  /\ UNCHANGED <<arguments, loop, file, k, buffer, gaps, results>>

\* A directory of that name was extracted: the command ends with the error.
ReportFails ==
  /\ at = "next" /\ Remaining = {}
  /\ IsDirectory(<<ReportName>>)
  /\ at' = "end"
  /\ UNCHANGED <<arguments, loop, file, k, buffer, gaps, results, output, report>>

ExtractNext ==
  \/ \E f \in DOMAIN tree : NoParent(f) \/ WriteSmall(f) \/ NoRuns(f) \/ Open(f)
  \/ SparseRun \/ Ask \/ Answer \/ CopyRun \/ ReadFails \/ Write \/ WriteRaw
  \/ WriteReport \/ ReportFails

ExtractSpec == ExtractInit /\ [][ExtractNext]_extract_vars

-----------------------------------------------------------------------------
\* compute_file_health, which the browser calls: over the runs that are not sparse,
\* the bytes they have, and those of them coverage_percentage counts, which are the
\* rescued ones (CoverageExact).  It rounds a byte away, but never a sector.
RunSize(run)    == IF run.lcn = None THEN 0 ELSE RangeOf(run).size
RunRescued(run) ==
  IF run.lcn = None THEN 0 ELSE Cardinality(BytesOf(RangeOf(run)) \cap Rescued(entries))

TotalBytes(f)   == SumOf([r \in DOMAIN tree[f].runs |-> RunSize(tree[f].runs[r])])
BytesInImage(f) == SumOf([r \in DOMAIN tree[f].runs |-> RunRescued(tree[f].runs[r])])

\* Seeded fault: a file is complete when its size is in the image.
HealthBySize(f) ==
  IF tree[f].resident THEN "complete"
  ELSE IF TotalBytes(f) = 0 THEN "unknown"
  ELSE IF BytesInImage(f) >= tree[f].size THEN "complete"
  ELSE IF BytesInImage(f) = 0 THEN "unread"
  ELSE "partial"

Health(f) ==
  IF tree[f].resident THEN "complete"
  ELSE IF TotalBytes(f) = 0 THEN "unknown"
  ELSE IF BytesInImage(f) = TotalBytes(f) THEN "complete"
  ELSE IF BytesInImage(f) = 0 THEN "unread"
  ELSE "partial"

-----------------------------------------------------------------------------
Done == at = "end"

\* The file of f is still its own: no later record, nor the report, has its path.
Keeps(f) ==
  /\ Path(f) # <<ReportName>>
  /\ \A g \in DOMAIN results : g > f => Path(g) # Path(f)

\* The units that have clusters, or holes, of a file: a unit with both is compressed.
UnitsWhere(r, sparse) ==
  UNION {{b \div UnitSize : b \in r.starts[n] .. (r.starts[n + 1] - 1)} :
           n \in {m \in DOMAIN r.runs : (r.runs[m].lcn = None) = sparse}}

RunsEnd(r) == r.starts[Len(r.runs) + 1]

\* No unit of a file is compressed, nor cut short where the runs at hand end.
OnlyStored(r) ==
  r.compressed => /\ UnitsWhere(r, TRUE) \cap UnitsWhere(r, FALSE) = {}
                  /\ RunsEnd(r) % UnitSize = 0

IsWhole(f) == Path(f) \in DOMAIN output /\ output[Path(f)] = FileOf(tree[f].content)

\* A file called complete with a mapfile at hand is, where it was written, byte
\* for byte what the volume has: no byte is lost in a gap of the mapfile, moved
\* by a hole or cut off.  Not so if a unit is compressed, or if the runs are not
\* the file's: an extent index that was not read leaves a hole.
CompleteIsTrue ==
  Done /\ mapped => \A f \in DOMAIN results :
    results[f].complete /\ Keeps(f) /\ OnlyStored(tree[f]) /\ tree[f].known => IsWhole(f)

\* README.md:30, extractor.py:207-209 - the same of a file with compressed units.
CompressedIsTrue ==
  Done /\ mapped => \A f \in DOMAIN results :
    results[f].complete /\ tree[f].compressed => IsWhole(f)

InGap(f, i) == \E g \in DOMAIN results[f].gaps : i - 1 \in BytesOf(results[f].gaps[g])

\* A byte of a file that was written in its length and is not the volume's is in
\* a gap the result, and so the report, has, whatever error the result has: the
\* file can be used elsewhere.  A shorter one may lack the holes of an inode with
\* block pointers.
GapsTellLosses ==
  Done /\ mapped => \A f \in DOMAIN results :
    results[f].bytes = tree[f].size /\ Keeps(f) /\ OnlyStored(tree[f]) /\ tree[f].known
    => \A i \in 1 .. tree[f].size :
        output[Path(f)].data[i] = tree[f].content[i] \/ InGap(f, i)

\* What the browser shows agrees with what the extraction finds, which asks the
\* mapfile run by run and in another way: a file without a gap is green, or has
\* no data on the drive, and one that is green has no gap.
HealthAgrees ==
  Done /\ mapped => \A f \in DOMAIN results :
    ~results[f].error => (results[f].gaps = <<>> <=> Health(f) \in {"complete", "unknown"})

\* A file that is complete and failed: it is empty, which is complete and without
\* data, or its decompression failed after all of it was read.
TwiceListed(f) ==
  results[f].complete /\ (tree[f].size = 0 \/ (tree[f].compressed /\ results[f].error))

\* PLAYBOOK.md:548-551 - every selected file is in one list of the report, and in
\* one only but for those.  No file is partial and failed, or partial and complete.
ReportedOnce ==
  Done /\ report # NoReport => \A f \in DOMAIN results :
    LET lists == {c \in DOMAIN report : f \in report[c]}
    IN  IF TwiceListed(f) THEN lists = {"complete", "failed"} ELSE Cardinality(lists) = 1
-----------------------------------------------------------------------------
\* What the proofs suppose of a record: where the runs at hand are the file's and
\* reach its end, the file has its bytes there, and zeros in the holes.
Faithful(r) == r.known /\ OnlyStored(r) /\ r.size <= RunsEnd(r)

LeadToContent(r) ==
  Faithful(r) =>
    \A n \in DOMAIN r.runs : \A i \in 1 .. RangeOf(r.runs[n]).size :
      r.starts[n] + i <= r.size =>
        r.content[r.starts[n] + i] =
          IF r.runs[n].lcn = None THEN 0 ELSE RangeOf(r.runs[n]).pos + i

RunsLead ==
  \A es \in MapfileSet : \A t \in Trees(es) : \A f \in DOMAIN t : LeadToContent(t[f])

\* The inductive invariant.
ResultType == [complete : BOOLEAN, error : BOOLEAN, bytes : Nat, gaps : Seq(ByteRange)]

ExtractTypeOK ==
  /\ entries \in MapfileSet /\ tree \in Trees(entries) /\ mapped \in BOOLEAN
  /\ at \in {"next", "runs", "check", "end"}
  /\ DOMAIN results \subseteq {f \in DOMAIN tree : ~tree[f].directory}
  /\ \A f \in DOMAIN results : results[f] \in ResultType

\* Before the first question the loop stands as after one about no byte.
LoopTrue == IInv \/ (pc = "done" /\ result = <<>> /\ BytesOf(range) = {})

\* Records are taken in the order of their index, and complete is said of a file
\* without gap, in its length, with no error but that of the decompression.
ResultsInv ==
  \A f \in DOMAIN results :
    /\ \A g \in Remaining : f < g
    /\ results[f].complete =>
         /\ results[f].gaps = <<>> /\ results[f].bytes = tree[f].size
         /\ results[f].error => tree[f].compressed

\* The buffer ends where the next run begins; a byte of it that is not the volume's
\* is in a gap; the question asked is about the next run.
BufferInv ==
  at \in {"runs", "check"} =>
    /\ file \in Remaining /\ \A g \in Remaining : file <= g
    /\ k \in 1 .. (Len(tree[file].runs) + 1)
    /\ buffer \in Seq(Int) /\ Len(buffer) = tree[file].starts[k]
    /\ gaps \in Seq(ByteRange)
    /\ RunsLead /\ mapped /\ Faithful(tree[file])
         => \A i \in 1 .. Len(buffer) :
              \/ i > tree[file].size \/ buffer[i] = tree[file].content[i]
              \/ \E g \in DOMAIN gaps : i - 1 \in BytesOf(gaps[g])
    /\ at = "check" => /\ k <= Len(tree[file].runs) /\ Run.lcn # None
                       /\ mapped /\ range = RunRange

\* The runs of f before the n-th that are on the drive were rescued.
RunsRescued(f, n) ==
  \A m \in 1 .. (n - 1) :
    tree[f].runs[m].lcn # None => BytesOf(RangeOf(tree[f].runs[m])) \subseteq Rescued(entries)

\* There is no gap where the runs that were read were rescued, and only there.
GapsInv ==
  mapped =>
    /\ at \in {"runs", "check"} =>
         ~tree[file].resident /\ (gaps = <<>> <=> RunsRescued(file, k))
    /\ \A f \in DOMAIN results :
         ~results[f].error =>
           (results[f].gaps = <<>> <=>
              tree[f].resident \/ RunsRescued(f, Len(tree[f].runs) + 1))

\* What a file that keeps its path has on it.
Written(f) ==
  LET data == output[Path(f)].data
  IN  /\ Path(f) \in DOMAIN output /\ output[Path(f)] = FileOf(data)
      /\ data \in Seq(Int) /\ Len(data) = tree[f].size
      /\ \A i \in 1 .. Len(data) : data[i] = tree[f].content[i] \/ InGap(f, i)

WrittenInv ==
  RunsLead /\ mapped => \A f \in DOMAIN results :
    /\ results[f].bytes = tree[f].size /\ (results[f].complete \/ results[f].bytes > 0)
    /\ Keeps(f) /\ OnlyStored(tree[f]) /\ tree[f].known
    => Written(f)

ReportInv == report = NoReport \/ (at = "end" /\ report = Classes)

ExtractInv == ExtractTypeOK /\ LoopTrue /\ ResultsInv /\ BufferInv /\ WrittenInv /\ ReportInv
=============================================================================
