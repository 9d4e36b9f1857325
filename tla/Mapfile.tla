------------------------------- MODULE Mapfile -------------------------------
(***************************************************************************)
(* Byte ranges and gddrescue mapfiles, the data every part of ddtriage     *)
(* exchanges: mapfile/parser.py reads a mapfile into a list of MapEntry,   *)
(* mapfile/query.py and mapfile/generator.py compute on (start, length)    *)
(* ranges.  A range, an entry and a RangeStatus are records with at least  *)
(* the fields pos and size.                                                *)
(***************************************************************************)
EXTENDS Integers, Sequences

STATUS_FINISHED  == "+"
STATUS_NON_TRIED == "?"
Statuses == {"?", "*", "/", "-", "+"}

ByteRange == [pos : Nat, size : Nat]
MapEntry  == [pos : Nat, size : Nat, status : Statuses]

EndOf(r)  == r.pos + r.size
BytesOf(r) == r.pos .. (EndOf(r) - 1)

\* The bytes of a list of ranges.
BytesOfList(rs) == UNION {BytesOf(rs[k]) : k \in DOMAIN rs}

\* What gddrescue writes: entries by increasing position, none overlapping.
IsOrdered(es) == \A i, j \in DOMAIN es : i < j => EndOf(es[i]) <= es[j].pos

Mapfiles == {es \in Seq(MapEntry) : IsOrdered(es)}

\* The bytes a mapfile records as rescued.
Rescued(es) == UNION {BytesOf(es[k]) :
                        k \in {j \in DOMAIN es : es[j].status = STATUS_FINISHED}}

\* A list in the normal form of merge_ranges: increasing, never touching.
IsSeparated(rs) ==
  /\ \A k \in DOMAIN rs : rs[k].size > 0
  /\ \A i, j \in DOMAIN rs : i < j => EndOf(rs[i]) < rs[j].pos

\* The sum of a list of numbers.
SumOf(ns) ==
  LET sum[n \in 0..Len(ns)] == IF n = 0 THEN 0 ELSE sum[n - 1] + ns[n]
  IN  sum[Len(ns)]

Sizes(rs) == [k \in DOMAIN rs |-> rs[k].size]
=============================================================================
