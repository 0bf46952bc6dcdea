----------------------------- MODULE ColumnLog -----------------------------
(***************************************************************************)
(* The column log (ColumnLog.hpp): a writer that declares streams in the   *)
(* header of a file, buffers records column by column and writes one row   *)
(* group per stream at each flush; and a reader that parses the header,    *)
(* runs through the groups and assembles the records of one stream by      *)
(* striding over the columns.  The file can end anywhere: a crash cuts it. *)
(*                                                                         *)
(* A file is a sequence of cells: the magic, the number of streams, for    *)
(* each stream its number of fields and each field's type, for each group  *)
(* its stream and size, and the values, which take as many cells as their  *)
(* type is wide (u8 one, wider types two): cell c of the value of field f  *)
(* in record n is <<n, f, c>>.                                             *)
(***************************************************************************)
EXTENDS Integers, Sequences, SequencesExt, FiniteSets

CONSTANTS
  Schemas,    \* sequences of column types a stream can have
  MaxStreams, MaxRecords, MaxFlushes    \* bounds

VARIABLES
  file,       \* the cells on disk
  writer,     \* [open, streams, pending, sealed, patching]: the ColumnLogWriter
  flushed,    \* history: the records each stream has had written, in order
  records,    \* records appended so far, also the next record's number
  flushes,    \* row groups written so far
  cut,        \* whether a crash cut the file
  reader      \* the ColumnLogReader, and the pass it made last

vars == <<file, writer, flushed, records, flushes, cut, reader>>

width == [u8 |-> 1, u64 |-> 2]

Closed == [open |-> FALSE, specs |-> <<>>, data |-> 0, pos |-> 0, error |-> "",
           pass |-> 0, got |-> <<>>, skipped |-> FALSE]

(* The writer's constructor: the magic and a count of streams to be patched. *)
Init ==
  /\ file = <<"magic", 0>>
  /\ writer = [open |-> TRUE, streams |-> <<>>, pending |-> <<>>, sealed |-> FALSE,
               patching |-> FALSE]
  /\ flushed = <<>> /\ records = 0 /\ flushes = 0 /\ cut = FALSE
  /\ reader = Closed

Streams == 1 .. Len(writer.streams)

(* add_stream describes the stream at the end of the header; no group may  *)
(* have been written.                                                      *)
AddStream(sc) ==
  /\ writer.open /\ ~writer.sealed /\ ~writer.patching /\ Len(writer.streams) < MaxStreams
  /\ file' = file \o <<<<"stream", Len(sc)>>>> \o [f \in DOMAIN sc |-> <<"field", sc[f]>>]
  /\ writer' = [writer EXCEPT !.streams = Append(@, sc), !.pending = Append(@, <<>>),
                              !.patching = TRUE]
  /\ flushed' = Append(flushed, <<>>)
  /\ UNCHANGED <<records, flushes, cut, reader>>

(* patch_count, the last step of add_stream.                               *)
PatchCount ==
  /\ writer.open /\ writer.patching
  /\ file' = [file EXCEPT ![2] = Len(writer.streams)]
  /\ writer' = [writer EXCEPT !.patching = FALSE]
  /\ UNCHANGED <<flushed, records, flushes, cut, reader>>

Ready == writer.open /\ ~writer.patching

AppendRecord(s) ==
  /\ Ready /\ s \in Streams /\ records < MaxRecords
  /\ records' = records + 1
  /\ writer' = [writer EXCEPT !.pending[s] = Append(@, records')]
  /\ UNCHANGED <<file, flushed, flushes, cut, reader>>

Value(n, f, type) == [c \in 1 .. width[type] |-> <<n, f, c>>]

(* One column of a group, record after record.                             *)
Column(ns, f, type) == FlattenSeq([i \in DOMAIN ns |-> Value(ns[i], f, type)])

(* flush_stream: streams without buffered records write nothing.           *)
Group(s) ==
  LET ns == writer.pending[s]
      sc == writer.streams[s]
  IN IF ns = <<>> THEN <<>>
     ELSE <<<<"group", s, Len(ns)>>>> \o FlattenSeq([f \in DOMAIN sc |-> Column(ns, f, sc[f])])

(* flush                                                                   *)
Flush ==
  /\ Ready /\ flushes < MaxFlushes /\ \E s \in Streams : writer.pending[s] # <<>>
  /\ file' = file \o FlattenSeq([s \in Streams |-> Group(s)])
  /\ flushed' = [s \in Streams |-> flushed[s] \o writer.pending[s]]
  /\ writer' = [writer EXCEPT !.pending = [s \in Streams |-> <<>>], !.sealed = TRUE]
  /\ flushes' = flushes + 1
  /\ UNCHANGED <<records, cut, reader>>

(* close flushes first.                                                    *)
Close ==
  /\ Ready /\ \A s \in Streams : writer.pending[s] = <<>>
  /\ writer' = [writer EXCEPT !.open = FALSE]
  /\ UNCHANGED <<file, flushed, records, flushes, cut, reader>>

(* The writing process dies: what it buffered is gone, and the file ends   *)
(* wherever the last write reached.                                        *)
Crash ==
  /\ writer.open
  /\ \E n \in 0 .. Len(file) : file' = SubSeq(file, 1, n)
  /\ writer' = [writer EXCEPT !.open = FALSE, !.patching = FALSE,
                              !.pending = [s \in Streams |-> <<>>]]
  /\ cut' = TRUE
  /\ UNCHANGED <<flushed, records, flushes, reader>>

(* The header up to another stream.                                        *)
Parsed(p, i) ==
  LET n == IF p.pos > Len(file) THEN 0 ELSE file[p.pos][2]
  IN IF p.error # "" THEN p
     ELSE IF p.pos + n > Len(file) THEN [p EXCEPT !.error = "truncated"]
     ELSE [p EXCEPT !.pos = p.pos + n + 1,
                    !.specs = Append(@, [f \in 1 .. n |-> file[p.pos + f][2]])]

Header ==
  LET start == [pos |-> 3, specs |-> <<>>, error |-> ""]
  IN CASE Len(file) < 1 -> [start EXCEPT !.error = "bad magic"]
       [] Len(file) < 2 -> [start EXCEPT !.error = "truncated header"]
       [] OTHER -> FoldLeft(Parsed, start, [i \in 1 .. file[2] |-> i])

(* The reader's constructor, once the writer is gone.                      *)
OpenReader ==
  /\ ~writer.open /\ ~reader.open
  /\ reader' = [Closed EXCEPT !.open = TRUE, !.specs = Header.specs, !.error = Header.error,
                              !.data = IF Header.error = "" THEN Header.pos ELSE 0,
                              !.pos = Header.pos]
  /\ UNCHANGED <<file, writer, flushed, records, flushes, cut>>

schema(s) == IF s \in DOMAIN reader.specs THEN reader.specs[s] ELSE <<>>

(* What the types of columns take together for a number of rows.           *)
Payload(specs, rows) == FoldLeft(LAMBDA total, type : total + width[type] * rows, 0, specs)

GroupPayload(s, rows) == Payload(schema(s), rows)

(* Mutant: the offset of a column as if the group had one row.             *)
MutOffset(specs, rows, f) == Payload(SubSeq(specs, 1, f - 1), 1)

(* Where a column of a group starts in its payload.                        *)
Offset(specs, rows, f) == Payload(SubSeq(specs, 1, f - 1), rows)

(* The records of a group, its columns strided over row by row.            *)
Assembled(payload, specs, rows) ==
  [r \in 1 .. rows |->
     [f \in DOMAIN specs |->
        LET from == Offset(specs, rows, f) + (r - 1) * width[specs[f]]
        IN SubSeq(payload, from + 1, from + width[specs[f]])]]

(* The group at a position.  When a crash left a stream out of the count,  *)
(* the reader takes what describes it for groups of unknown streams, which *)
(* have no payload.                                                        *)
GroupAt(p) ==
  IF file[p][1] = "group" THEN [stream |-> file[p][2], rows |-> file[p][3]]
  ELSE [stream |-> 0, rows |-> 0]

(* One turn of read_stream's loop at a position: a group that is cut short *)
(* is an error only when it is one of this stream; running past the end in *)
(* another's is not noticed.                                               *)
Turn(p, s) ==
  LET g    == GroupAt(p.pos)
      next == p.pos + 1 + GroupPayload(g.stream, g.rows)
  IN IF p.pos > Len(file) THEN [p EXCEPT !.done = TRUE]
     ELSE IF g.stream # s THEN [p EXCEPT !.pos = next]
     ELSE IF next - 1 > Len(file) THEN [p EXCEPT !.done = TRUE, !.error = "truncated group"]
     ELSE [p EXCEPT !.pos = next,
                    !.got = @ \o Assembled(SubSeq(file, p.pos + 1, next - 1), schema(s), g.rows)]

Pass(s, from) ==
  FoldLeft(LAMBDA p, k : IF p.done THEN p ELSE Turn(p, s),
           [pos |-> from, got |-> <<>>, error |-> "", done |-> FALSE],
           [k \in 1 .. Len(file) + 1 |-> k])

(* read_stream for a stream whose schema is the expected one; an error of  *)
(* an earlier pass stays.                                                  *)
ReadStream(s) ==
  LET p == Pass(s, reader.pos) IN
  /\ reader.open /\ reader.data # 0 /\ reader.pass = 0
  /\ s \in DOMAIN reader.specs
  /\ reader' = [reader EXCEPT !.pos = p.pos, !.pass = s, !.got = p.got,
                              !.error = IF p.error = "" THEN @ ELSE p.error]
  /\ UNCHANGED <<file, writer, flushed, records, flushes, cut>>

(* skip_group: over the next group, whosever it is.                        *)
SkipGroup ==
  /\ reader.open /\ reader.data # 0 /\ reader.pass = 0 /\ reader.pos <= Len(file)
  /\ reader' = [reader EXCEPT !.skipped = TRUE,
       !.pos = @ + 1 + GroupPayload(GroupAt(@).stream, GroupAt(@).rows)]
  /\ UNCHANGED <<file, writer, flushed, records, flushes, cut>>

(* seek_to_data before another pass.                                       *)
SeekToData ==
  /\ reader.open /\ reader.pass # 0
  /\ reader' = [reader EXCEPT !.pos = reader.data, !.pass = 0, !.got = <<>>,
                              !.skipped = FALSE]
  /\ UNCHANGED <<file, writer, flushed, records, flushes, cut>>

Next ==
  \/ \E sc \in Schemas : AddStream(sc)
  \/ PatchCount
  \/ \E s \in 1 .. MaxStreams : AppendRecord(s)
  \/ Flush \/ Close \/ Crash \/ OpenReader
  \/ \E s \in 1 .. MaxStreams : ReadStream(s)
  \/ SkipGroup \/ SeekToData

----------------------------------------------------------------------------
Whole(n, sc) == [f \in DOMAIN sc |-> Value(n, f, sc[f])]

(* A pass over a stream delivers records that were flushed to it, from the *)
(* first on and in order, each with the values it was appended with -      *)
(* wherever the file was cut; all of them, and without an error, when it   *)
(* was not.  After groups were skipped, they are consecutive records.      *)
RowsArePrefix ==
  reader.open /\ reader.pass # 0 =>
    LET s == reader.pass
        all == [k \in DOMAIN flushed[s] |-> Whole(flushed[s][k], writer.streams[s])]
    IN IF reader.skipped
       THEN \E k \in 0 .. Len(all) : reader.got = SubSeq(all, k + 1, k + Len(reader.got))
       ELSE IsPrefix(reader.got, all) /\ (~cut => reader.got = all /\ reader.error = "")
=============================================================================
