------------------------------ MODULE LogFormat -------------------------------
(***************************************************************************)
(* The format of the write-ahead log and of the MANIFEST: log::Writer      *)
(* (db/log_writer.cc) over PosixWritableFile (util/env.cc), and            *)
(* log::Reader (db/log_reader.cc) over what a crash leaves of the file.    *)
(*                                                                         *)
(* A byte is Zero or <<fragment, position>>, the positions 1 .. HeaderSize *)
(* being the header and the rest the payload.  So the reader sees a sound  *)
(* checksum exactly where the bytes of one fragment follow one another; a  *)
(* header put together from other bytes may hold any length and type.      *)
(***************************************************************************)
EXTENDS Naturals, SequencesExt

CONSTANTS
  BlockSize,     \* kBlockSize
  HeaderSize,    \* kHeaderSize
  BufferSize,    \* kWritableFileBufferSize
  Lengths,       \* the lengths of records
  Zero,          \* a byte of the trailer of a block
  MaxRecords,    \* bound: the calls of AddRecord
  MaxFailures    \* bound: the writes the kernel refuses

(* What EmitPhysicalRecord writes of a record: length bytes from offset.   *)
Fragments == [record : Nat, offset : Nat, length : Nat,
              type : {"full", "first", "middle", "last"}]

Bytes == {Zero} \cup (Fragments \X Nat)

ASSUME LogAssumption ==
  /\ Zero \notin Fragments \X Nat
  /\ HeaderSize \in Nat \ {0} /\ BlockSize \in Nat /\ BlockSize > HeaderSize
  /\ BufferSize \in Nat /\ BufferSize >= BlockSize
  /\ Lengths \subseteq Nat \ {0}
  /\ MaxRecords \in Nat /\ MaxFailures \in Nat

VARIABLES
  file,          \* the bytes the kernel has
  synced,        \* how many of them fsync has made durable
  buf,           \* buf_ up to pos_
  block_offset,  \* block_offset_
  records,       \* ghost: the length of each record given to AddRecord
  left,          \* AddRecord: the bytes of the last record not emitted yet
  begin,         \* AddRecord: no fragment of it is emitted yet
  acked,         \* ghost: the records AddRecord returned OK for
  durable,       \* ghost: acked at the last Sync
  failures,      \* the calls that returned an error
  damaged,       \* ghost: a failed call wrote a part of its bytes, or lost them
  life           \* "up", or why the log waits for its reader: "exited", "powerless"

vars == <<file, synced, buf, block_offset, records, left, begin, acked,
          durable, failures, damaged, life>>

Up == life = "up"
Writing == left > 0

Init ==
  /\ file = <<>> /\ synced = 0 /\ buf = <<>> /\ block_offset = 0
  /\ records = <<>> /\ left = 0 /\ begin = FALSE /\ acked = {} /\ durable = {}
  /\ failures = 0 /\ damaged = FALSE /\ life = "up"

-----------------------------------------------------------------------------
(* PosixWritableFile.  d is [file, buf, room, ok]: the kernel takes room   *)
(* more bytes before write fails.                                          *)
WriteUnbuffered(d, data) ==
  IF Len(data) <= d.room
  THEN [d EXCEPT !.file = @ \o data, !.room = @ - Len(data)]
  ELSE [d EXCEPT !.file = @ \o SubSeq(data, 1, d.room), !.room = 0, !.ok = FALSE]

(* Mutant of FlushBuffer: pos_ is not reset after the write.               *)
FlushKeepsBuffer(d) == WriteUnbuffered(d, d.buf)

(* The whole buffer is kept when the write fails, whatever it wrote.       *)
FlushBuffer(d) ==
  LET w == WriteUnbuffered(d, d.buf)
  IN IF w.ok THEN [w EXCEPT !.buf = <<>>] ELSE w

(* Mutant of Room: one byte more than the array has.                       *)
RoomAndOne(d) == BufferSize + 1 - Len(d.buf)

Room(d) == BufferSize - Len(d.buf)

(* Append after another call returned an error is not made.                *)
AppendData(d, data) ==
  LET copy == Room(d)
      f    == FlushBuffer([d EXCEPT !.buf = @ \o SubSeq(data, 1, copy)])
      rest == SubSeq(data, copy + 1, Len(data))
  IN IF ~d.ok THEN d
     ELSE IF Len(data) <= copy THEN [d EXCEPT !.buf = @ \o data]
     ELSE IF ~f.ok THEN f
     ELSE IF Len(rest) < BufferSize THEN [f EXCEPT !.buf = rest]
     ELSE WriteUnbuffered(f, rest)

Flush(d) == IF d.ok THEN FlushBuffer(d) ELSE d

-----------------------------------------------------------------------------
(* log::Writer.                                                            *)
AddRecord(length) ==
  /\ Up /\ ~Writing /\ Len(records) < MaxRecords
  /\ records' = Append(records, length) /\ left' = length /\ begin' = TRUE
  /\ UNCHANGED <<file, synced, buf, block_offset, acked, durable, failures, damaged, life>>

FragmentType(end) ==
  CASE begin /\ end   -> "full"
    [] begin /\ ~end  -> "first"
    [] ~begin /\ end  -> "last"
    [] ~begin /\ ~end -> "middle"

Header(fragment)  == [i \in 1 .. HeaderSize |-> <<fragment, i>>]
Payload(fragment) == [i \in 1 .. fragment.length |-> <<fragment, HeaderSize + i>>]

(* Mutant of NeedsTrailer: a trailer is written where a header just fits.  *)
TrailerTooEarly(leftover) == leftover <= HeaderSize

(* The block has no room for another header.                               *)
NeedsTrailer(leftover) == leftover < HeaderSize

(* EmitPhysicalRecord counts the fragment whether or not it was written.   *)
OffsetAfter(start, fragment) == start + HeaderSize + fragment.length

(* One turn of the loop of AddRecord: fill the block up if no header fits, *)
(* then emit a fragment.  The record is acknowledged with its last one.    *)
EmitFragment(room) ==
  /\ Up /\ Writing
  /\ LET leftover == BlockSize - block_offset
         d        == [file |-> file, buf |-> buf, room |-> room, ok |-> TRUE]
         trailer  == [i \in 1 .. (IF NeedsTrailer(leftover) THEN leftover ELSE 0) |-> Zero]
         filled   == AppendData(d, trailer)
         start    == IF NeedsTrailer(leftover) THEN 0 ELSE block_offset
         avail    == BlockSize - start - HeaderSize
         length   == IF left < avail THEN left ELSE avail
         fragment == [record |-> Len(records), offset |-> records[Len(records)] - left,
                      length |-> length, type |-> FragmentType(left = length)]
         emitted  == Flush(AppendData(AppendData(filled, Header(fragment)), Payload(fragment)))
         expected == file \o buf \o trailer \o Header(fragment) \o Payload(fragment)
     IN /\ file' = emitted.file /\ buf' = emitted.buf
        /\ block_offset' = IF filled.ok THEN OffsetAfter(start, fragment) ELSE block_offset
        /\ \/ /\ emitted.ok
              /\ left' = left - length
              /\ acked' = IF left = length THEN acked \cup {Len(records)} ELSE acked
              /\ UNCHANGED <<failures, damaged>>
           \/ /\ ~emitted.ok /\ failures < MaxFailures
              /\ left' = 0 /\ failures' = failures + 1
              /\ damaged' = (damaged \/ emitted.file \o emitted.buf # expected)
              /\ UNCHANGED acked
  /\ begin' = FALSE
  /\ UNCHANGED <<synced, durable, records, life>>

(* Sync: the write may fail, and so may fsync.                              *)
Sync(room) ==
  /\ Up /\ ~Writing
  /\ LET f == FlushBuffer([file |-> file, buf |-> buf, room |-> room, ok |-> TRUE])
     IN /\ file' = f.file /\ buf' = f.buf
        /\ \/ /\ f.ok /\ synced' = Len(f.file)
              /\ durable' = IF damaged THEN durable ELSE acked
              /\ UNCHANGED <<failures, damaged>>
           \/ /\ failures < MaxFailures /\ failures' = failures + 1
              /\ damaged' = (damaged \/ (~f.ok /\ Len(f.file) > Len(file)))
              /\ UNCHANGED <<synced, durable>>
  /\ UNCHANGED <<block_offset, records, left, begin, acked, life>>

Stop(why) ==
  /\ Up /\ life' = why /\ buf' = <<>>
  /\ UNCHANGED <<synced, block_offset, records, left, begin, acked, durable, failures, damaged>>

(* Close, by ~PosixWritableFile at the latest, tells no one of an error.   *)
Close(room) ==
  /\ ~Writing /\ Stop("exited")
  /\ file' = FlushBuffer([file |-> file, buf |-> buf, room |-> room, ok |-> TRUE]).file

(* A kill loses the buffer of the process.                                 *)
Kill == Stop("exited") /\ UNCHANGED file

(* A power failure leaves what is durable and any part of what follows.    *)
PowerFailure ==
  /\ Stop("powerless")
  /\ \E n \in synced .. Len(file) : file' = SubSeq(file, 1, n)

Terminated == ~Up /\ UNCHANGED vars

(* No call writes more than the buffer, a trailer and a fragment.          *)
Rooms == 0 .. Len(buf) + BlockSize + HeaderSize

Next ==
  \/ \E length \in Lengths : AddRecord(length)
  \/ \E room \in Rooms : EmitFragment(room) \/ Sync(room) \/ Close(room)
  \/ Kill \/ PowerFailure \/ Terminated

Spec == Init /\ [][Next]_vars

-----------------------------------------------------------------------------
(* log::Reader.  The reader m has the bytes from .. to of the file in its  *)
(* buffer_, the fragments in scratch, and the records read, each the list  *)
(* of its fragments.  It ends "ok", "corrupt", or "any" of the two.        *)
Ended(m, how) == [m EXCEPT !.ends = how]

(* Mutant of AtEof: a record cut between its fragments is not reported.    *)
AtEofQuiet(m) == Ended(m, "ok")

(* A file that ends inside a record is reported, but for its first part.   *)
AtEof(m) == Ended(m, IF m.in_fragmented THEN "corrupt" ELSE "ok")

(* What is left in the buffer is no header: the next block is read.        *)
NextBlock(m) ==
  LET end == IF m.to + BlockSize < Len(file) THEN m.to + BlockSize ELSE Len(file)
  IN IF m.eof THEN IF m.from <= m.to THEN Ended(m, "corrupt") ELSE AtEof(m)
     ELSE IF end = m.to THEN AtEof(m)
     ELSE IF end - m.to < HeaderSize THEN Ended(m, "corrupt")
     ELSE [m EXCEPT !.from = m.to + 1, !.to = end, !.eof = end - m.to < BlockSize]

(* ReadRecord's switch on the type of the fragment g.                      *)
Take(m, g) ==
  LET joined == Append(IF g.type \in {"full", "first"} THEN <<>> ELSE m.scratch, g)
      next   == [m EXCEPT !.from = @ + HeaderSize + g.length]
  IN IF g.type \in {"middle", "last"} /\ ~m.in_fragmented THEN Ended(m, "corrupt")
     ELSE IF g.type \in {"full", "last"}
          THEN [next EXCEPT !.read = Append(@, joined), !.scratch = <<>>, !.in_fragmented = FALSE]
     ELSE [next EXCEPT !.scratch = joined, !.in_fragmented = TRUE]

(* The bytes of the fragment g from i to j are those of the file at from.  *)
Holds(from, g, i, j) == \A n \in i .. j : file[from + n - 1] = <<g, n>>

(* The checksum of a fragment whose header is sound.                       *)
Intact(from, g) == Holds(from, g, HeaderSize + 1, HeaderSize + g.length)

(* ReadPhysicalRecord with a header in the buffer.                         *)
ReadFragment(m) ==
  LET g     == file[m.from][1]
      zeros == \A n \in m.from .. m.from + HeaderSize - 1 : file[n] = Zero
      sound == file[m.from] # Zero /\ Holds(m.from, g, 1, HeaderSize)
  IN IF zeros THEN Ended(m, "ok")
     ELSE IF ~sound THEN Ended(m, "any")
     ELSE IF m.from + HeaderSize + g.length > m.to + 1
          THEN IF m.eof THEN AtEof(m) ELSE Ended(m, "corrupt")
     ELSE IF ~Intact(m.from, g) THEN Ended(m, "corrupt")
     ELSE Take(m, g)

(* One turn of the loop of ReadPhysicalRecord.                             *)
Turn(m) ==
  IF m.ends # "more" THEN m
  ELSE IF m.from + HeaderSize > m.to + 1 THEN NextBlock(m)
  ELSE ReadFragment(m)

NewReader == [from |-> 1, to |-> 0, eof |-> FALSE, scratch |-> <<>>, in_fragmented |-> FALSE,
              read |-> <<>>, ends |-> "more"]

(* The reader at its end: every turn but the last moves from or to on.     *)
ReadLog ==
  LET turns == 2 * Len(file) + 1
      reader[i \in 0 .. turns] == IF i = 0 THEN NewReader ELSE Turn(reader[i - 1])
  IN reader[turns]

-----------------------------------------------------------------------------
(* Properties.                                                             *)

TypeOK ==
  /\ synced \in 0 .. Len(file) /\ Len(buf) <= BufferSize
  /\ block_offset \in 0 .. BlockSize
  /\ records \in Seq(Lengths) /\ acked \subseteq 1 .. Len(records)
  /\ durable \subseteq acked
  /\ left \in Nat /\ begin \in BOOLEAN
  /\ Writing => records # <<>> /\ left <= records[Len(records)]
  /\ failures \in 0 .. MaxFailures /\ damaged \in BOOLEAN
  /\ life \in {"up", "exited", "powerless"}

(* The record r, whole: its first fragment starts it, each of the others   *)
(* goes on where the one before ends, and the last one ends it.            *)
Whole(fragments, r) ==
  LET n == Len(fragments)
      end(i) == fragments[i].offset + fragments[i].length
  IN /\ n > 0 /\ fragments[1].offset = 0 /\ end(n) = records[r]
     /\ \A i \in 1 .. n : fragments[i].record = r
     /\ \A i \in 1 .. n - 1 : fragments[i + 1].offset = end(i)

(* The records the log gives back, by number.                              *)
RecordsRead ==
  LET read == ReadLog.read
  IN {r \in 1 .. Len(records) : \E i \in DOMAIN read : Whole(read[i], r)}

(* No acknowledged record is lost: while the process lives and after its   *)
(* end they can all be read, after a power failure those of the last Sync, *)
(* over trailers, fragments of no bytes and records of several blocks, and *)
(* after failed calls as long as none of these wrote a part of its bytes.  *)
(* Later damage does not reach back to what was synced before it.          *)
AckedReadable ==
  /\ durable \subseteq RecordsRead
  /\ (~damaged /\ life # "powerless") => acked \subseteq RecordsRead

(* What is read was written: records are read whole, in the order they    *)
(* were given and once.  After a failed call that wrote a part of its      *)
(* bytes, which the next one writes again, that much is left of it: what   *)
(* ends as an acknowledged record is that record.                          *)
NothingInvented ==
  LET read == ReadLog.read
      r(i) == Last(read[i]).record
  IN /\ \A i \in DOMAIN read : ~damaged \/ r(i) \in acked => Whole(read[i], r(i))
     /\ ~damaged => \A i, j \in DOMAIN read : i < j => r(i) < r(j)

(* The ends of the whole fragments in the file.                            *)
FragmentEnds == {n \in DOMAIN file :
                   file[n] # Zero /\ file[n][2] = HeaderSize + file[n][1].length}

(* How a log that was cut off reads at its end.  The reader reports it     *)
(* exactly when the cut left a part of a header (or of a trailer), or fell *)
(* between the fragments of a record; a cut in a payload that starts a     *)
(* record goes unnoticed, as a clean end does.                             *)
TailExact ==
  ~damaged =>
    LET size   == Len(file)
        start  == Max(FragmentEnds \cup {size - (size % BlockSize)})
        broken == size - start \in 1 .. HeaderSize - 1
        within == FragmentEnds # {} /\ file[Max(FragmentEnds)][1].type \in {"first", "middle"}
    IN (ReadLog.ends = "corrupt") <=> (broken \/ within)
=============================================================================
