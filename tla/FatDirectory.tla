---------------------------- MODULE FatDirectory ----------------------------
(***************************************************************************)
(* parse_directory of fat32/dir_entry.py and of exfat/dir_entry.py, slot   *)
(* by slot: which files a directory lists, deleted ones included, and by   *)
(* what name.  A slot that was not read is zero, as the end is.            *)
(***************************************************************************)
EXTENDS Integers, Sequences, SequencesExt, FiniteSetsExt

CONSTANT Files   \* by number; a name is the parts of it that each have a slot

File == [parts : Nat, dir : BOOLEAN, clusters : Seq(Nat), contiguous : BOOLEAN]

\* No cluster twice; those of a contiguous file are in a row.
ASSUME FilesAssumption ==
  /\ DOMAIN Files \subseteq Nat \ {0}
  /\ \A f \in DOMAIN Files :
       /\ Files[f] \in File
       /\ \A i, j \in DOMAIN Files[f].clusters :
            /\ Files[f].clusters[i] = Files[f].clusters[j] => i = j
            /\ Files[f].contiguous => Files[f].clusters[j] = Files[f].clusters[i] + (j - i)

\* The kinds of slots: "lfn" and "short" of FAT, "file", "stream" and "name" of
\* exFAT, "dot" for . and .., "label" for the label and what else is no file.
Slot(kind, f, seq) == [kind |-> kind, file |-> f, seq |-> seq, deleted |-> FALSE]
Zero  == Slot("zero", 0, 0)
Label == Slot("label", 0, 0)
Dot   == Slot("dot", 0, 0)

DirEntry(f, dir, deleted, name) ==
  [file |-> f, dir |-> dir, deleted |-> deleted, name |-> name,
   start_cluster |-> IF Files[f].clusters = <<>> THEN 0 ELSE Files[f].clusters[1],
   contiguous |-> Files[f].contiguous]

\* What a name is made of; part 0 is the short name.
Part(f, k) == [file |-> f, part |-> k]

-----------------------------------------------------------------------------
\* Seeded fault: the parts are put together as they come.
WithPartAppended(parts, s) ==
  Append(IF s.seq = Files[s.file].parts THEN <<>> ELSE parts, <<Part(s.file, s.seq)>>)

\* A part of a long name: the last one comes first and makes room for all.
WithPart(parts, s) ==
  LET list == IF s.seq = Files[s.file].parts THEN [k \in 1..s.seq |-> <<>>] ELSE parts
  IN  IF s.seq \in DOMAIN list THEN [list EXCEPT ![s.seq] = <<Part(s.file, s.seq)>>] ELSE list

FatEntry(s, parts) ==
  LET long == FlattenSeq(parts)
  IN  DirEntry(s.file, Files[s.file].dir, s.deleted, IF long # <<>> THEN long ELSE <<Part(s.file, 0)>>)

\* A deleted part of a long name has the attributes of a label.
FatSlot(walk, s) ==
  IF walk.ended \/ s.kind = "zero" THEN [walk EXCEPT !.ended = TRUE]
  ELSE IF s.kind = "lfn" /\ ~s.deleted THEN [walk EXCEPT !.lfn_parts = WithPart(@, s)]
  ELSE IF s.kind = "short"
       THEN [walk EXCEPT !.entries = Append(@, FatEntry(s, walk.lfn_parts)), !.lfn_parts = <<>>]
  ELSE [walk EXCEPT !.lfn_parts = <<>>]

\* The slots one after the other.
FatEntries(data) ==
  LET walk[i \in 0..Len(data)] ==
        IF i = 0 THEN [ended |-> FALSE, lfn_parts |-> <<>>, entries |-> <<>>]
        ELSE FatSlot(walk[i - 1], data[i])
  IN  walk[Len(data)].entries

-----------------------------------------------------------------------------
\* secondary_count: the stream extension and the names.
Secondaries(f) == 1 + Files[f].parts

IsKind(data, i, kind) == i <= Len(data) /\ data[i].kind = kind

\* _parse_file_entry_set: at most one entry.  Its names end with the first slot
\* that is none; what the stream extension says is taken from whatever file's
\* stream is there.
EntrySet(data, i) ==
  LET head     == data[i].file
      names    == {n \in 0 .. (Secondaries(head) - 1) :
                     \A k \in 2 .. (n + 1) : IsKind(data, i + k, "name")}
      found    == [k \in 1 .. Max(names) |-> Part(data[i + 1 + k].file, data[i + 1 + k].seq)]
      stream   == data[i + 1].file
      name     == SubSeq(found, 1, Min({Len(found), Files[stream].parts}))
  IN  IF Secondaries(head) < 2 \/ ~IsKind(data, i + 1, "stream") \/ name = <<>> THEN <<>>
      ELSE <<DirEntry(stream, Files[head].dir, data[i].deleted, name)>>

\* Seeded fault: one slot too many is passed over behind a deleted file.
BehindOneMore(data, i) ==
  i + 1 + Secondaries(data[i].file) + (IF data[i].deleted THEN 1 ELSE 0)

\* Where the next set may be: behind all slots this one counts.
Behind(data, i) == i + 1 + Secondaries(data[i].file)

\* A deleted set is passed over as a whole only if it was understood.
ExfatSlot(data, walk, i) ==
  IF walk.ended \/ i < walk.pos THEN walk
  ELSE IF data[i].kind = "zero" THEN [walk EXCEPT !.ended = TRUE]
  ELSE IF data[i].kind # "file" THEN walk
  ELSE [walk EXCEPT !.entries = @ \o EntrySet(data, i),
                    !.pos = IF data[i].deleted /\ EntrySet(data, i) = <<>>
                            THEN i + 1 ELSE Behind(data, i)]

ExfatEntries(data) ==
  LET walk[i \in 0..Len(data)] ==
        IF i = 0 THEN [ended |-> FALSE, pos |-> 1, entries |-> <<>>]
        ELSE ExfatSlot(data, walk[i - 1], i)
  IN  walk[Len(data)].entries
=============================================================================
