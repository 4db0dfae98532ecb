--------------------------- MODULE LogFormatProofs ---------------------------
(***************************************************************************)
(* Proofs about LogFormat: what log::Writer acknowledged log::Reader gives *)
(* back, it gives back nothing else, and it reports a log that was cut off *)
(* exactly when TailExact says so, for records and blocks of any length.   *)
(*                                                                         *)
(* The argument has two halves.  For the writer, IInv: the bytes of the    *)
(* file and of the buffer are one stream, laid out as a reader expects it  *)
(* while nothing is damaged (Undamaged); and the fragments of acknowledged *)
(* records lie where they should whatever failed (AckedJoined, AckedEnds,  *)
(* DurableEnds).  For the reader, RInv: over a file that does not change   *)
(* it is at the start of a block or behind a fragment, and has joined and  *)
(* read what was laid out up to there.  A turn that is not its last moves  *)
(* the reader on, so its turns are enough for the file.                    *)
(***************************************************************************)
EXTENDS LogFormat, NumberLemmas, SequenceTheorems

-----------------------------------------------------------------------------
(* The calls of PosixWritableFile: what they move, and what they keep.     *)

(* The bytes of the fragment g.                                            *)
Size(g) == HeaderSize + g.length

(* What FlushBuffer and AppendData are given.                              *)
Disk == [file : Seq(Bytes), buf : Seq(Bytes), room : Nat, ok : BOOLEAN]

(* e is what calls of the file make of d when all bytes that may be moved  *)
(* are in S: the kernel got more of them, and the buffer holds others.     *)
Carries(d, e, S) ==
  /\ e \in Disk /\ Len(e.buf) <= BufferSize /\ e.buf \in Seq(S)
  /\ \E t \in Seq(S) : e.file = d.file \o t

(* The sizes of the format are as LogAssumption gives them.                *)
LEMMA Sizes ==
  /\ HeaderSize \in Nat \ {0} /\ BlockSize \in Nat /\ BlockSize > HeaderSize
  /\ BufferSize \in Nat /\ BufferSize >= BlockSize
BY LogAssumption

(* Bytes are joined in any grouping.                                       *)
LEMMA Assoc == \A s, t, u \in Seq(Bytes) : (s \o t) \o u = s \o (t \o u)
BY ConcatAssociative

(* The length of what is joined.                                           *)
LEMMA Concat ==
  \A s, t \in Seq(Bytes) : s \o t \in Seq(Bytes) /\ Len(s \o t) = Len(s) + Len(t)
BY ConcatProperties

(* A part of a sequence, and its length.                                   *)
LEMMA Part ==
  ASSUME NEW S, NEW s \in Seq(S), NEW i \in 1 .. Len(s) + 1, NEW j \in 0 .. Len(s), i <= j + 1
  PROVE  SubSeq(s, i, j) \in Seq(S) /\ Len(SubSeq(s, i, j)) = j + 1 - i
<1>1. \A n \in i .. j : s[n] \in S
  BY ElementOfSeq, LenProperties
<1>2. i \in Int /\ j \in Int
  BY LenProperties
<1>3. /\ SubSeq(s, i, j) \in Seq(S)
      /\ Len(SubSeq(s, i, j)) = IF i <= j THEN j - i + 1 ELSE 0
  BY <1>1, <1>2, SubSeqProperties
<1>. QED  BY <1>2, <1>3

(* A write takes some of the data, and all of it if it is OK.              *)
LEMMA WriteTakes ==
  ASSUME NEW d \in Disk, d.ok, NEW S, S \subseteq Bytes, NEW data \in Seq(S)
  PROVE  LET e == WriteUnbuffered(d, data)
         IN /\ e \in Disk /\ e.buf = d.buf
            /\ \E n \in 0 .. Len(data) : e.file = d.file \o SubSeq(data, 1, n)
            /\ e.ok => e.file = d.file \o data
<1>. DEFINE e == WriteUnbuffered(d, data)
<1>. data \in Seq(Bytes) /\ d.file \in Seq(Bytes) /\ d.room \in Nat /\ Len(data) \in Nat
  BY SeqMonotonic, LenProperties DEF Disk
<1>1. CASE Len(data) <= d.room
  <2>1. e = [d EXCEPT !.file = @ \o data, !.room = @ - Len(data)]
    BY <1>1 DEF WriteUnbuffered
  <2>2. d.file \o data \in Seq(Bytes) /\ d.room - Len(data) \in Nat
    BY <1>1, ConcatProperties
  <2>3. e \in Disk /\ e.buf = d.buf /\ e.file = d.file \o data
    BY <2>1, <2>2 DEF Disk
  <2>4. \E n \in 0 .. Len(data) : e.file = d.file \o SubSeq(data, 1, n)
    <3>1. data = SubSeq(data, 1, Len(data)) /\ Len(data) \in 0 .. Len(data)
      BY SubSeqFull
    <3>. HIDE DEF e
    <3>. QED  BY <2>3, <3>1, Zenon
  <2>. HIDE DEF e
  <2>. QED  BY <2>3, <2>4 DEF e
<1>2. CASE ~(Len(data) <= d.room)
  <2>1. e = [d EXCEPT !.file = @ \o SubSeq(data, 1, d.room), !.room = 0, !.ok = FALSE]
    BY <1>2 DEF WriteUnbuffered
  <2>2. d.room \in 0 .. Len(data)
    BY <1>2
  <2>3. SubSeq(data, 1, d.room) \in Seq(Bytes)
    BY <2>2, Part
  <2>4. d.file \o SubSeq(data, 1, d.room) \in Seq(Bytes)
    BY <2>3, ConcatProperties
  <2>5. e \in Disk /\ e.buf = d.buf /\ e.file = d.file \o SubSeq(data, 1, d.room) /\ ~e.ok
    <3>1. e.buf = d.buf /\ e.file = d.file \o SubSeq(data, 1, d.room) /\ e.room = 0 /\ e.ok = FALSE
      BY <2>1 DEF Disk
    <3>2. e = [file |-> d.file \o SubSeq(data, 1, d.room), buf |-> d.buf, room |-> 0, ok |-> FALSE]
      BY <2>1 DEF Disk
    <3>. HIDE DEF e
    <3>. QED  BY <2>4, <3>1, <3>2 DEF Disk
  <2>. HIDE DEF e
  <2>. QED  BY <2>2, <2>5 DEF e
<1>. QED  BY <1>1, <1>2

(* FlushBuffer moves the buffer to the kernel, or a part of it only.       *)
LEMMA FlushTakes ==
  ASSUME NEW d \in Disk, d.ok, Len(d.buf) <= BufferSize, NEW S, S \subseteq Bytes, d.buf \in Seq(S)
  PROVE  LET e == FlushBuffer(d)
         IN /\ Carries(d, e, S)
            /\ \E n \in 0 .. Len(d.buf) : e.file = d.file \o SubSeq(d.buf, 1, n)
            /\ e.ok => e.buf = <<>> /\ e.file = d.file \o d.buf
            /\ ~e.ok => e.buf = d.buf
<1>. DEFINE w == WriteUnbuffered(d, d.buf)
            e == FlushBuffer(d)
<1>1. /\ w \in Disk /\ w.buf = d.buf
      /\ \E n \in 0 .. Len(d.buf) : w.file = d.file \o SubSeq(d.buf, 1, n)
      /\ w.ok => w.file = d.file \o d.buf
  BY WriteTakes
<1>2. e = IF w.ok THEN [w EXCEPT !.buf = <<>>] ELSE w
  BY DEF FlushBuffer
<1>. HIDE DEF w, e
<1>3. <<>> \in Seq(S) /\ <<>> \in Seq(Bytes) /\ Len(<<>>) = 0
  BY EmptySeq
<1>4. e \in Disk /\ e.file = w.file /\ e.ok = w.ok /\ (e.ok => e.buf = <<>>) /\ (~e.ok => e.buf = w.buf)
  <2>1. CASE w.ok
    BY <1>1, <1>2, <1>3, <2>1 DEF Disk
  <2>2. CASE ~w.ok
    BY <1>1, <1>2, <1>3, <2>2 DEF Disk
  <2>. QED  BY <2>1, <2>2
<1>5. e.buf \in Seq(S) /\ Len(e.buf) <= BufferSize
  <2>1. CASE e.ok
    <3>1. Len(<<>>) <= BufferSize
      BY <1>3, Sizes
    <3>. QED  BY <1>3, <1>4, <2>1, <3>1, Zenon
  <2>2. CASE ~e.ok
    BY <1>1, <1>4, <2>2
  <2>. QED  BY <2>1, <2>2
<1>6. PICK n \in 0 .. Len(d.buf) : e.file = d.file \o SubSeq(d.buf, 1, n)
  BY <1>1, <1>4
<1>7. SubSeq(d.buf, 1, n) \in Seq(S)
  BY <1>6, Part, LenProperties
<1>8. Carries(d, e, S)
  BY <1>4, <1>5, <1>6, <1>7 DEF Carries
<1>. QED  BY <1>1, <1>4, <1>6, <1>8 DEF e

(* Two calls of the file, one after the other, carry on like one.          *)
LEMMA CarriesOn ==
  ASSUME NEW S, S \subseteq Bytes, NEW d \in Disk, NEW e, NEW f, Carries(d, e, S), Carries(e, f, S)
  PROVE  Carries(d, f, S)
<1>1. PICK t \in Seq(S) : e.file = d.file \o t
  BY DEF Carries
<1>2. PICK u \in Seq(S) : f.file = e.file \o u
  BY DEF Carries
<1>3. d.file \in Seq(Bytes) /\ t \in Seq(Bytes) /\ u \in Seq(Bytes)
  BY SeqMonotonic DEF Disk
<1>4. f.file = d.file \o (t \o u) /\ t \o u \in Seq(S)
  <2>1. t \o u \in Seq(S)
    BY ConcatProperties
  <2>2. (d.file \o t) \o u = d.file \o (t \o u)
    BY <1>3, Assoc
  <2>. QED  BY <1>1, <1>2, <2>1, <2>2, Zenon
<1>. QED  BY <1>4 DEF Carries

(* Append, and no call after an error.                                     *)
LEMMA AppendCarries ==
  ASSUME NEW d \in Disk, Len(d.buf) <= BufferSize, NEW S, S \subseteq Bytes, d.buf \in Seq(S),
         NEW data \in Seq(S)
  PROVE  LET e == AppendData(d, data)
         IN /\ Carries(d, e, S)
            /\ e.ok => d.ok /\ e.file \o e.buf = (d.file \o d.buf) \o data
            /\ ~d.ok => e = d
<1>. DEFINE copy == Room(d)
            head == SubSeq(data, 1, copy)
            full == [d EXCEPT !.buf = @ \o head]
            f    == FlushBuffer(full)
            rest == SubSeq(data, copy + 1, Len(data))
            e    == AppendData(d, data)
<1>1. e = IF ~d.ok THEN d
          ELSE IF Len(data) <= copy THEN [d EXCEPT !.buf = @ \o data]
          ELSE IF ~f.ok THEN f
          ELSE IF Len(rest) < BufferSize THEN [f EXCEPT !.buf = rest]
          ELSE WriteUnbuffered(f, rest)
  BY DEF AppendData
<1>2. /\ d.file \in Seq(Bytes) /\ d.buf \in Seq(Bytes) /\ data \in Seq(Bytes)
      /\ Len(d.buf) \in Nat /\ Len(data) \in Nat /\ Len(d.file) \in Nat
  BY SeqMonotonic, LenProperties DEF Disk
<1>3. copy \in Nat /\ copy = BufferSize - Len(d.buf)
  BY <1>2, Sizes DEF Room
<1>. HIDE DEF e, copy, f
<1>4. Carries(d, d, S)
  <2>1. d.file = d.file \o <<>> /\ <<>> \in Seq(S)
    BY <1>2, ConcatEmptySeq, EmptySeq
  <2>. QED  BY <2>1 DEF Carries
<1>5. CASE ~d.ok
  <2>1. e = d
    BY <1>1, <1>5
  <2>. QED  BY <1>4, <1>5, <2>1 DEF e
<1>6. CASE d.ok /\ Len(data) <= copy
  <2>1. e = [d EXCEPT !.buf = @ \o data]
    BY <1>1, <1>6
  <2>2. /\ d.buf \o data \in Seq(S) /\ d.buf \o data \in Seq(Bytes)
        /\ Len(d.buf \o data) = Len(d.buf) + Len(data)
    BY <1>2, ConcatProperties
  <2>3. e \in Disk /\ e.file = d.file /\ e.buf = d.buf \o data /\ e.ok = d.ok
    BY <2>1, <2>2 DEF Disk
  <2>4. Len(e.buf) <= BufferSize
    BY <1>2, <1>3, <1>6, <2>2, <2>3, Sizes
  <2>5. Carries(d, e, S)
    BY <1>4, <2>2, <2>3, <2>4 DEF Carries
  <2>6. e.file \o e.buf = (d.file \o d.buf) \o data
    <3>1. (d.file \o d.buf) \o data = d.file \o (d.buf \o data)
      BY <1>2, Assoc
    <3>. QED  BY <2>3, <3>1, Zenon
  <2>. QED  BY <1>6, <2>5, <2>6 DEF e
<1>7. CASE d.ok /\ ~(Len(data) <= copy)
  <2>1. /\ head \in Seq(S) /\ Len(head) = copy /\ head \in Seq(Bytes)
        /\ rest \in Seq(S) /\ Len(rest) = Len(data) - copy /\ rest \in Seq(Bytes)
    <3>1. copy \in 0 .. Len(data) /\ copy + 1 \in 1 .. Len(data) + 1 /\ 1 \in 1 .. Len(data) + 1
          /\ Len(data) \in 0 .. Len(data) /\ 1 <= copy + 1 /\ copy + 1 <= Len(data) + 1
      BY <1>2, <1>3, <1>7
    <3>2. head \in Seq(S) /\ Len(head) = copy + 1 - 1
      BY <3>1, Part
    <3>3. rest \in Seq(S) /\ Len(rest) = Len(data) + 1 - (copy + 1)
      BY <3>1, Part
    <3>. HIDE DEF head, rest
    <3>. QED  BY <1>2, <1>3, <3>2, <3>3, SeqMonotonic
  <2>2. data = head \o rest
    <3>1. 1 \in 1 .. Len(data) + 1 /\ copy \in 1 - 1 .. Len(data) /\ Len(data) \in copy .. Len(data)
      BY <1>2, <1>3, <1>7
    <3>2. head \o rest = SubSeq(data, 1, Len(data))
      BY <3>1, ConcatAdjacentSubSeq
    <3>. QED  BY <3>2, SubSeqFull
  <2>. HIDE DEF head, rest
  <2>3. /\ d.buf \o head \in Seq(S) /\ d.buf \o head \in Seq(Bytes)
        /\ Len(d.buf \o head) = Len(d.buf) + Len(head)
    BY <1>2, <2>1, ConcatProperties
  <2>4. full \in Disk /\ full.ok /\ full.file = d.file /\ full.buf = d.buf \o head
    BY <1>7, <2>3 DEF Disk
  <2>5. Len(full.buf) <= BufferSize
    BY <1>2, <1>3, <2>1, <2>3, <2>4, Sizes
  <2>. HIDE DEF full
  <2>6. /\ Carries(full, f, S)
        /\ f.ok => f.buf = <<>> /\ f.file = full.file \o full.buf
    BY <2>3, <2>4, <2>5, FlushTakes DEF f
  <2>7. Carries(d, f, S) /\ f \in Disk
    BY <2>4, <2>6 DEF Carries
  <2>8. CASE ~f.ok
    <3>1. e = f
      BY <1>1, <1>7, <2>8
    <3>. QED  BY <1>7, <2>7, <2>8, <3>1 DEF e
  <2>9. ASSUME f.ok PROVE (f.file \o <<>>) \o rest = (d.file \o d.buf) \o data
    <3>1. f.file = d.file \o (d.buf \o head) /\ f.file \in Seq(Bytes)
      BY <2>4, <2>6, <2>7, <2>9 DEF Disk
    <3>2. f.file = (d.file \o d.buf) \o head /\ d.file \o d.buf \in Seq(Bytes)
      <4>1. (d.file \o d.buf) \o head = d.file \o (d.buf \o head)
        BY <1>2, <2>1, Assoc
      <4>2. d.file \o d.buf \in Seq(Bytes)
        BY <1>2, Concat
      <4>. QED  BY <3>1, <4>1, <4>2, Zenon
    <3>3. ((d.file \o d.buf) \o head) \o rest = (d.file \o d.buf) \o (head \o rest)
      BY <2>1, <3>2, Assoc
    <3>. QED  BY <2>2, <3>1, <3>2, <3>3, ConcatEmptySeq
  <2>10. CASE f.ok /\ Len(rest) < BufferSize
    <3>1. e = [f EXCEPT !.buf = rest]
      BY <1>1, <1>7, <2>10
    <3>2. e \in Disk /\ e.file = f.file /\ e.buf = rest /\ e.ok = f.ok
      BY <2>1, <2>7, <3>1 DEF Disk
    <3>3. Carries(d, e, S)
      <4>1. Len(e.buf) <= BufferSize
        BY <2>1, <2>10, <3>2, Sizes, LenProperties
      <4>. QED  BY <2>1, <2>7, <3>2, <4>1 DEF Carries
    <3>4. e.file \o e.buf = (d.file \o d.buf) \o data
      <4>1. f.file \o <<>> = f.file
        BY <2>7, ConcatEmptySeq DEF Disk
      <4>. QED  BY <2>9, <2>10, <3>2, <4>1
    <3>. QED  BY <1>7, <3>3, <3>4 DEF e
  <2>11. CASE f.ok /\ ~(Len(rest) < BufferSize)
    <3>1. e = WriteUnbuffered(f, rest)
      BY <1>1, <1>7, <2>11
    <3>2. /\ e \in Disk /\ e.buf = f.buf
          /\ \E n \in 0 .. Len(rest) : e.file = f.file \o SubSeq(rest, 1, n)
          /\ e.ok => e.file = f.file \o rest
      BY <2>1, <2>7, <2>11, <3>1, WriteTakes
    <3>3. PICK n \in 0 .. Len(rest) : e.file = f.file \o SubSeq(rest, 1, n)
      BY <3>2
    <3>4. SubSeq(rest, 1, n) \in Seq(S)
      BY <2>1, <3>3, Part, LenProperties
    <3>5. Carries(f, e, S)
      BY <2>7, <3>2, <3>3, <3>4 DEF Carries
    <3>6. Carries(d, e, S)
      BY <2>7, <3>5, CarriesOn
    <3>7. e.ok => e.file \o e.buf = (d.file \o d.buf) \o data
      <4>1. e.ok => e.file = f.file \o rest /\ e.buf = <<>> /\ e.file \in Seq(Bytes)
        BY <2>6, <2>11, <3>2 DEF Disk
      <4>2. f.file \o <<>> = f.file
        BY <2>7, ConcatEmptySeq DEF Disk
      <4>. QED  BY <2>9, <2>11, <4>1, <4>2, ConcatEmptySeq
    <3>. QED  BY <1>7, <3>6, <3>7 DEF e
  <2>. QED  BY <2>8, <2>10, <2>11
<1>. QED  BY <1>5, <1>6, <1>7

-----------------------------------------------------------------------------
(* The layout of a log: where fragments start and end, and how they go on. *)

(* How far n bytes reach into their last block.                            *)
Off(n) == n % BlockSize

(* A fragment that ends its record.                                        *)
Final(g) == g.type \in {"full", "last"}

(* g goes on with its record where h leaves off.                           *)
Precedes(h, g) == h.record = g.record /\ h.offset + h.length = g.offset /\ ~Final(h)

(* The fragment h, whole, ends with the first n bytes of s.                *)
EndsAt(s, n, h) == Size(h) <= n /\ \A j \in 1 .. Size(h) : s[n - Size(h) + j] = <<h, j>>

(* What g goes on with, if anything, ends with the first n bytes of s.     *)
Joined(s, n, g) ==
  g.type \in {"middle", "last"} => \E h \in Fragments : Precedes(h, g) /\ EndsAt(s, n, h)

(* No header fits after n bytes.                                           *)
InTrailer(n) == Off(n) + HeaderSize > BlockSize

(* A fragment has ended after n bytes of s.                                *)
EndOf(s, n) == n = 0 \/ (s[n] # Zero /\ s[n][2] = Size(s[n][1]))

(* After n bytes of s a fragment has ended, or a zero of a trailer stands. *)
Cut(s, n) == EndOf(s, n) \/ s[n] = Zero

(* The first p bytes of s are as the writer laid them out: a fragment lies *)
(* in one block with its bytes in order; where one ends the next begins,   *)
(* after the zeros of a trailer if no header fits in the block; and one    *)
(* that goes on with a record has the one it goes on with right before it. *)
Placed(s, p) ==
  \A n \in 1 .. p : s[n] # Zero =>
    LET g == s[n][1]
        k == n - s[n][2]
    IN /\ k \in 0 .. n - 1 /\ n <= k + Size(g) /\ Off(k) + Size(g) <= BlockSize
       /\ \A i \in 1 .. p : k < i /\ i <= k + Size(g) => s[i] = <<g, i - k>>

Filled(s, p) ==
  \A n \in 0 .. p - 1 : Cut(s, n) =>
    IF InTrailer(n) THEN \A i \in n + 1 .. p : i - n <= BlockSize - Off(n) => s[i] = Zero
    ELSE s[n + 1] # Zero /\ s[n + 1][2] = 1

Begins(s, n) == s[n] # Zero /\ s[n][2] = 1

Chained(s, p) == \A n \in 0 .. p - 1 : Begins(s, n + 1) => Joined(s, n, s[n + 1][1])

Sound(s, p) == Placed(s, p) /\ Filled(s, p) /\ Chained(s, p)

(* Records come in order, and nothing of a record follows its end.         *)
Ordered(s) ==
  \A m, n \in 1 .. Len(s) : m < n /\ Begins(s, m) /\ Begins(s, n) =>
    /\ s[m][1].record <= s[n][1].record
    /\ Final(s[m][1]) => s[m][1].record < s[n][1].record

(* t is s with a trailer of z bytes and the fragment g behind.             *)
Grows(s, z, g, t) ==
  /\ Len(t) = Len(s) + z + Size(g)
  /\ \A n \in 1 .. Len(s) : t[n] = s[n]
  /\ \A n \in Len(s) + 1 .. Len(s) + z : t[n] = Zero
  /\ \A i \in 1 .. Size(g) : t[Len(s) + z + i] = <<g, i>>

(* A byte of the log is Zero, or a fragment with a position.               *)
LEMMA ByteParts ==
  /\ \A b \in Bytes : b # Zero => b[1] \in Fragments /\ b[2] \in Nat /\ b = <<b[1], b[2]>>
  /\ \A g \in Fragments : \A k \in Nat : <<g, k>> \in Bytes /\ <<g, k>> # Zero
BY LogAssumption DEF Bytes

(* The fields of a fragment.                                               *)
LEMMA FragmentParts ==
  \A g \in Fragments : /\ g.record \in Nat /\ g.offset \in Nat /\ g.length \in Nat
                       /\ g.offset + g.length \in Nat
                       /\ g.type \in {"full", "first", "middle", "last"}
                       /\ Size(g) \in Nat /\ Size(g) >= HeaderSize
BY Sizes DEF Fragments, Size

(* How an offset in a block moves on.                                      *)
LEMMA Offsets ==
  /\ \A n \in Nat : Off(n) \in 0 .. BlockSize - 1
  /\ \A n, k \in Nat : Off(n) + k < BlockSize => Off(n + k) = Off(n) + k
  /\ \A n, k \in Nat : Off(n) + k = BlockSize => Off(n + k) = 0
  /\ Off(0) = 0
<1>1. BlockSize \in Nat \ {0}
  BY Sizes
<1>2. \A n \in Nat : Off(n) \in 0 .. BlockSize - 1
  BY <1>1, DivMod DEF Off
<1>3. \A n, k \in Nat : Off(n) + k < BlockSize => Off(n + k) = Off(n) + k
  BY <1>1, ModAdd DEF Off
<1>4. \A n, k \in Nat : Off(n) + k = BlockSize => Off(n + k) = 0
  BY <1>1, ModUp DEF Off
<1>5. Off(0) = 0
  <2>1. 0 \in Nat /\ 0 \in 0 .. BlockSize - 1 /\ BlockSize * 0 + 0 = 0
    BY <1>1
  <2>2. (BlockSize * 0 + 0) % BlockSize = 0
    BY <1>1, <2>1, ModOf
  <2>. QED  BY <2>1, <2>2 DEF Off
<1>. QED  BY <1>2, <1>3, <1>4, <1>5

(* Whether a fragment carries on is settled by the bytes before it.        *)
LEMMA JoinedAgree ==
  ASSUME NEW s, NEW t, NEW n \in Nat, NEW g, \A i \in 1 .. n : t[i] = s[i], Joined(s, n, g)
  PROVE  Joined(t, n, g)
<1>1. ASSUME NEW h \in Fragments, EndsAt(s, n, h) PROVE EndsAt(t, n, h)
  <2>1. Size(h) \in Nat /\ Size(h) <= n
    BY <1>1, FragmentParts DEF EndsAt
  <2>2. \A j \in 1 .. Size(h) : n - Size(h) + j \in 1 .. n
    BY <2>1
  <2>. QED  BY <1>1, <2>1, <2>2 DEF EndsAt
<1>. QED  BY <1>1 DEF Joined

(* Only the first bytes matter.                                            *)
LEMMA SoundAgree ==
  ASSUME NEW s, NEW t, NEW p \in Nat, NEW q \in 0 .. p, \A n \in 1 .. q : t[n] = s[n], Sound(s, p)
  PROVE  Sound(t, q)
<1>1. Placed(t, q)
  <2>1. \A n \in 1 .. q : n \in 1 .. p
    OBVIOUS
  <2>. QED  BY <2>1 DEF Sound, Placed
<1>2. Filled(t, q)
  <2>1. SUFFICES ASSUME NEW n \in 0 .. q - 1, Cut(t, n)
                 PROVE  IF InTrailer(n) THEN \A i \in n + 1 .. q : i - n <= BlockSize - Off(n) => t[i] = Zero
                        ELSE t[n + 1] # Zero /\ t[n + 1][2] = 1
    BY DEF Filled
  <2>2. n \in 0 .. p - 1 /\ n + 1 \in 1 .. q /\ (n # 0 => n \in 1 .. q)
    OBVIOUS
  <2>3. Cut(s, n)
    BY <2>1, <2>2 DEF Cut, EndOf
  <2>4. \A i \in n + 1 .. q : i \in n + 1 .. p /\ i \in 1 .. q
    BY <2>2
  <2>. QED  BY <2>2, <2>3, <2>4 DEF Sound, Filled
<1>3. Chained(t, q)
  <2>1. SUFFICES ASSUME NEW n \in 0 .. q - 1, Begins(t, n + 1)
                 PROVE  Joined(t, n, t[n + 1][1])
    BY DEF Chained
  <2>2. n \in 0 .. p - 1 /\ n + 1 \in 1 .. q /\ n \in Nat /\ \A i \in 1 .. n : i \in 1 .. q
    OBVIOUS
  <2>3. Joined(s, n, s[n + 1][1])
    BY <2>1, <2>2 DEF Sound, Chained, Begins
  <2>. QED  BY <2>2, <2>3, JoinedAgree
<1>. QED  BY <1>1, <1>2, <1>3 DEF Sound

(* A trailer and a fragment behind a sound log keep it sound.              *)
LEMMA SoundGrows ==
  ASSUME NEW s \in Seq(Bytes), NEW t \in Seq(Bytes), NEW z \in Nat, NEW g \in Fragments, Grows(s, z, g, t),
         Sound(s, Len(s)), EndOf(s, Len(s)),
         z = 0 => ~InTrailer(Len(s)),
         z # 0 => InTrailer(Len(s)) /\ Off(Len(s)) + z = BlockSize,
         Off(Len(s) + z) + Size(g) <= BlockSize,
         g.type \in {"middle", "last"} => z = 0 /\ Joined(s, Len(s), g)
  PROVE  Sound(t, Len(t)) /\ EndOf(t, Len(t))
<1>. DEFINE N == Len(s)
            M == Len(t)
<1>1. /\ N \in Nat /\ M \in Nat /\ M = N + z + Size(g) /\ Size(g) \in Nat /\ Size(g) > 0
      /\ \A n \in 1 .. N : t[n] = s[n]
      /\ \A n \in N + 1 .. N + z : t[n] = Zero
      /\ \A i \in 1 .. Size(g) : t[N + z + i] = <<g, i>>
  BY LenProperties, FragmentParts, Sizes DEF Grows
<1>0. N \in Nat /\ M \in Nat /\ z \in Nat /\ M = N + z + Size(g) /\ Size(g) \in Nat /\ Size(g) > 0
  BY <1>1
<1>2. \A n \in 1 .. N : s[n] # Zero => s[n][1] \in Fragments /\ s[n][2] \in Nat
  BY <1>1, ElementOfSeq, ByteParts
<1>3. \A n \in N + z + 1 .. M : n - (N + z) \in 1 .. Size(g) /\ t[n] = <<g, n - (N + z)>> /\ t[n] # Zero
  <2>1. ASSUME NEW n \in N + z + 1 .. M PROVE n - (N + z) \in 1 .. Size(g) /\ t[n] = <<g, n - (N + z)>>
    <3>1. n - (N + z) \in 1 .. Size(g)
      BY <1>1
    <3>2. N + z + (n - (N + z)) = n
      BY <1>1
    <3>. QED  BY <1>1, <3>1, <3>2
  <2>2. \A n \in N + z + 1 .. M : n - (N + z) \in Nat
    BY <1>1
  <2>3. \A n \in N + z + 1 .. M : <<g, n - (N + z)>> # Zero
    BY <2>2, ByteParts, Zenon
  <2>4. \A n \in N + z + 1 .. M : t[n] # Zero
    BY <2>1, <2>3, Zenon
  <2>. QED  BY <2>1, <2>4, Zenon
<1>4. /\ BlockSize \in Nat \ {0} /\ HeaderSize \in Nat \ {0} /\ HeaderSize < BlockSize
      /\ \A n \in Nat : Off(n) \in 0 .. BlockSize - 1
  BY Sizes, Offsets
<1>. HIDE DEF N, M
<1>5. Placed(t, M)
  <2>1. SUFFICES ASSUME NEW n \in 1 .. M, t[n] # Zero
                 PROVE  LET h == t[n][1]
                            k == n - t[n][2]
                        IN /\ k \in 0 .. n - 1 /\ n <= k + Size(h) /\ Off(k) + Size(h) <= BlockSize
                           /\ \A i \in 1 .. M : k < i /\ i <= k + Size(h) => t[i] = <<h, i - k>>
    BY DEF Placed
  <2>2. CASE n \in 1 .. N
    <3>. DEFINE h == s[n][1]
                k == n - s[n][2]
    <3>1. t[n] = s[n] /\ h \in Fragments /\ s[n][2] \in Nat /\ Size(h) \in Nat
      BY <1>1, <1>2, <2>1, <2>2, FragmentParts
    <3>2. /\ k \in 0 .. n - 1 /\ n <= k + Size(h) /\ Off(k) + Size(h) <= BlockSize
          /\ \A i \in 1 .. N : k < i /\ i <= k + Size(h) => s[i] = <<h, i - k>>
      BY <2>1, <2>2, <3>1 DEF Sound, Placed, N
    <3>. HIDE DEF h, k
    <3>3. k + Size(h) <= N
      <4>1. SUFFICES ASSUME k + Size(h) > N PROVE FALSE
        BY <1>1, <3>1, <3>2
      <4>. k \in 0 .. n - 1 /\ n \in 1 .. N /\ Size(h) \in Nat
        BY <2>2, <3>1, <3>2
      <4>2. N \in 1 .. N /\ N - k \in Nat /\ N # 0 /\ k < N /\ N <= k + Size(h)
        <5>1. k \in 0 .. n - 1 /\ n \in 1 .. N /\ Size(h) \in Nat /\ N \in Nat /\ k + Size(h) > N
          BY <1>0, <4>1
        <5>. QED  BY ONLY <5>1
      <4>3. s[N] = <<h, N - k>>
        BY <3>2, <4>2
      <4>4. s[N][2] = Size(s[N][1])
        BY <4>2 DEF EndOf, N
      <4>. QED  BY <3>1, <3>2, <4>1, <4>2, <4>3, <4>4
    <3>4. \A i \in 1 .. M : k < i /\ i <= k + Size(h) => i \in 1 .. N
      BY <1>1, <3>1, <3>2, <3>3
    <3>5. \A i \in 1 .. M : k < i /\ i <= k + Size(h) => t[i] = <<h, i - k>>
      BY <1>1, <3>2, <3>4
    <3>. QED  BY <3>1, <3>2, <3>5 DEF h, k
  <2>3. CASE n \in N + 1 .. N + z
    BY <1>1, <2>1, <2>3
  <2>4. CASE n \in N + z + 1 .. M
    <3>1. t[n][1] = g /\ n - t[n][2] = N + z
      BY <1>1, <1>3, <2>4
    <3>2. ASSUME NEW i \in 1 .. M, N + z < i PROVE t[i] = <<g, i - (N + z)>>
      <4>1. i \in N + z + 1 .. M
        BY ONLY <1>0, <3>2, i \in 1 .. M
      <4>. QED  BY <1>3, <4>1
    <3>3. N + z \in 0 .. n - 1 /\ n <= N + z + Size(g)
      BY <1>0, <2>4
    <3>4. Off(N + z) + Size(g) <= BlockSize
      BY DEF N
    <3>. QED  BY <3>1, <3>2, <3>3, <3>4
  <2>. QED  BY <1>1, <2>2, <2>3, <2>4
<1>6. Filled(t, M)
  <2>1. SUFFICES ASSUME NEW n \in 0 .. M - 1, Cut(t, n)
                 PROVE  IF InTrailer(n) THEN \A i \in n + 1 .. M : i - n <= BlockSize - Off(n) => t[i] = Zero
                        ELSE t[n + 1] # Zero /\ t[n + 1][2] = 1
    BY DEF Filled
  <2>2. t[N + z + 1] # Zero /\ t[N + z + 1][2] = 1
    <3>1. 1 \in 1 .. Size(g)
      BY <1>0
    <3>2. t[N + z + 1] = <<g, 1>>
      BY <1>1, <3>1
    <3>. QED  BY <3>2, ByteParts
  <2>3. CASE n \in 0 .. N - 1
    <3>1. Cut(s, n)
      BY <1>1, <2>1, <2>3 DEF Cut, EndOf
    <3>2. IF InTrailer(n) THEN \A i \in n + 1 .. N : i - n <= BlockSize - Off(n) => s[i] = Zero
          ELSE s[n + 1] # Zero /\ s[n + 1][2] = 1
      BY <2>3, <3>1 DEF Sound, Filled, N
    <3>3. n + 1 \in 1 .. N /\ n \in Nat
      BY <1>1, <2>3
    <3>4. ASSUME InTrailer(n), NEW i \in n + 1 .. M, i - n <= BlockSize - Off(n) PROVE t[i] = Zero
      <4>1. N \in n + 1 .. N /\ s[N] # Zero
        BY <1>1, <2>3 DEF EndOf, N
      <4>2. ~(N - n <= BlockSize - Off(n))
        BY <3>2, <3>4, <4>1
      <4>3. Off(n) \in 0 .. BlockSize - 1
        BY <1>4, <3>3
      <4>4. i \in n + 1 .. N /\ i \in 1 .. N
        <5>1. n \in Nat /\ N \in Nat /\ BlockSize \in Nat /\ Off(n) \in Nat /\ i \in n + 1 .. M /\ M \in Nat
          BY <1>0, <1>4, <3>3, <4>3
        <5>. QED  BY ONLY <3>4, <4>2, <5>1
      <4>. QED  BY <1>1, <3>2, <3>4, <4>4
    <3>. QED  BY <1>1, <3>2, <3>3, <3>4
  <2>4. CASE n = N /\ z = 0
    BY <2>2, <2>4, <1>1 DEF N
  <2>5. CASE n = N /\ z # 0
    <3>1. InTrailer(n) /\ BlockSize - Off(n) = z
      <4>1. InTrailer(n) /\ Off(n) + z = BlockSize /\ Off(n) \in 0 .. BlockSize - 1
        BY <1>1, <1>4, <2>5 DEF N
      <4>. QED  BY <1>4, <4>1
    <3>2. \A i \in n + 1 .. M : i - n <= z => i \in N + 1 .. N + z
      BY <1>1, <2>5
    <3>. QED  BY <1>1, <3>1, <3>2
  <2>6. CASE n \in N + 1 .. N + z - 1
    <3>1. InTrailer(N) /\ Off(N) + z = BlockSize /\ Off(N) \in 0 .. BlockSize - 1
      BY <1>1, <1>4, <2>6 DEF N
    <3>0. n \in N + 1 .. N + z - 1 /\ N \in Nat /\ z \in Nat /\ M \in Nat /\ BlockSize \in Nat /\ Off(N) \in Nat
      BY <1>0, <1>4, <2>6, <3>1
    <3>2. n - N \in Nat /\ n - N > 0 /\ Off(N) + (n - N) < BlockSize /\ N + (n - N) = n
      BY ONLY <3>0, <3>1
    <3>3. Off(n) = Off(N) + (n - N)
      <4>1. Off(N + (n - N)) = Off(N) + (n - N)
        BY <1>1, <3>2, Offsets
      <4>. QED  BY <3>2, <4>1
    <3>4. InTrailer(n)
      <4>1. Off(N) + HeaderSize > BlockSize /\ Off(N) \in Nat
        BY <1>4, <3>1 DEF InTrailer
      <4>2. HeaderSize \in Nat
        BY <1>4
      <4>3. Off(n) + HeaderSize > BlockSize
        BY ONLY <3>0, <3>2, <3>3, <4>1, <4>2
      <4>. QED  BY <4>3 DEF InTrailer
    <3>5. \A i \in n + 1 .. M : i - n <= BlockSize - Off(n) => i \in N + 1 .. N + z
      BY ONLY <3>0, <3>1, <3>3
    <3>. QED  BY <1>1, <3>4, <3>5
  <2>7. CASE n = N + z /\ z # 0
    <3>1. Off(n) = 0
      BY <1>1, <1>4, <2>7, Offsets DEF N
    <3>2. ~InTrailer(n)
      BY <1>4, <3>1 DEF InTrailer
    <3>. QED  BY <2>2, <2>7, <3>2
  <2>8. CASE n \in N + z + 1 .. M - 1
    <3>1. t[n] # Zero /\ t[n] = <<g, n - (N + z)>> /\ n # 0
      BY <1>1, <1>3, <2>8
    <3>2. n - (N + z) = Size(g)
      BY <2>1, <3>1 DEF Cut, EndOf
    <3>. QED  BY <1>1, <2>8, <3>2
  <2>. QED  BY <1>1, <2>3, <2>4, <2>5, <2>6, <2>7, <2>8
<1>7. Chained(t, M)
  <2>1. SUFFICES ASSUME NEW n \in 0 .. M - 1, Begins(t, n + 1)
                 PROVE  Joined(t, n, t[n + 1][1])
    BY DEF Chained
  <2>2. CASE n + 1 \in 1 .. N
    <3>1. Joined(s, n, s[n + 1][1]) /\ t[n + 1] = s[n + 1]
      BY <1>1, <2>1, <2>2 DEF Sound, Chained, Begins, N
    <3>2. n \in Nat /\ \A i \in 1 .. n : i \in 1 .. N
      BY <1>0, <2>1, <2>2
    <3>3. \A i \in 1 .. n : t[i] = s[i]
      BY <1>1, <3>2
    <3>. QED  BY <3>1, <3>2, <3>3, JoinedAgree
  <2>3. CASE n + 1 \in N + 1 .. N + z
    BY <1>1, <2>1, <2>3 DEF Begins
  <2>4. CASE n + 1 \in N + z + 1 .. M
    <3>1. t[n + 1] = <<g, n + 1 - (N + z)>>
      <4>. DEFINE m == n + 1
      <4>1. m \in N + z + 1 .. M
        BY <2>4
      <4>. HIDE DEF m
      <4>2. t[m] = <<g, m - (N + z)>>
        BY <1>3, <4>1
      <4>3. m = n + 1
        BY DEF m
      <4>. QED  BY <4>1, <4>2, <4>3, <1>0
    <3>2. n = N + z /\ t[n + 1][1] = g
      BY <1>1, <2>1, <2>4, <3>1 DEF Begins
    <3>3. CASE g.type \in {"middle", "last"}
      <4>1. z = 0 /\ Joined(s, N, g) /\ n = N
        BY <1>1, <3>2, <3>3 DEF N
      <4>. QED  BY <1>1, <3>2, <4>1, JoinedAgree
    <3>4. CASE g.type \notin {"middle", "last"}
      BY <3>2, <3>4 DEF Joined
    <3>. QED  BY <3>3, <3>4
  <2>. QED  BY <1>1, <2>2, <2>3, <2>4
<1>8. EndOf(t, M)
  <2>1. M \in N + z + 1 .. M /\ M - (N + z) = Size(g)
    BY <1>1
  <2>. QED  BY <1>3, <2>1 DEF EndOf
<1>. QED  BY <1>5, <1>6, <1>7, <1>8 DEF Sound, M

(* So does the order, when g is of the newest record and nothing ended it. *)
LEMMA OrderGrows ==
  ASSUME NEW s \in Seq(Bytes), NEW t \in Seq(Bytes), NEW z \in Nat, NEW g \in Fragments, Grows(s, z, g, t),
         Ordered(s),
         \A n \in 1 .. Len(s) : s[n] # Zero =>
           s[n][1].record <= g.record /\ (s[n][1].record = g.record => ~Final(s[n][1]))
  PROVE  Ordered(t)
<1>. DEFINE N == Len(s)
            M == Len(t)
<1>1. /\ N \in Nat /\ M \in Nat /\ M = N + z + Size(g) /\ Size(g) \in Nat /\ Size(g) > 0
      /\ \A n \in 1 .. N : t[n] = s[n]
      /\ \A n \in N + 1 .. N + z : t[n] = Zero
      /\ \A i \in 1 .. Size(g) : t[N + z + i] = <<g, i>>
  BY LenProperties, FragmentParts, Sizes DEF Grows
<1>8. \A n \in 1 .. N : s[n] # Zero =>
    s[n][1].record <= g.record /\ (s[n][1].record = g.record => ~Final(s[n][1]))
  OBVIOUS
<1>2. \A n \in 1 .. N : s[n] # Zero => s[n][1] \in Fragments
  BY <1>1, ElementOfSeq, ByteParts
<1>. HIDE DEF N, M
<1>3. \A n \in 1 .. M : Begins(t, n) => n \in 1 .. N \/ (n = N + z + 1 /\ t[n][1] = g)
  <2>1. SUFFICES ASSUME NEW n \in 1 .. M, Begins(t, n), n \notin 1 .. N
                 PROVE  n = N + z + 1 /\ t[n][1] = g
    OBVIOUS
  <2>2. n \notin N + 1 .. N + z
    BY <1>1, <2>1 DEF Begins
  <2>3. n - (N + z) \in 1 .. Size(g) /\ N + z + (n - (N + z)) = n
    BY <1>1, <2>1, <2>2
  <2>4. t[n] = <<g, n - (N + z)>>
    BY <1>1, <2>3
  <2>. QED  BY <1>1, <2>1, <2>3, <2>4 DEF Begins
<1>4. SUFFICES ASSUME NEW m \in 1 .. M, NEW n \in 1 .. M, m < n, Begins(t, m), Begins(t, n)
               PROVE  /\ t[m][1].record <= t[n][1].record
                      /\ Final(t[m][1]) => t[m][1].record < t[n][1].record
  BY DEF Ordered, M
<1>5. m \in 1 .. N
  BY <1>1, <1>3, <1>4
<1>6. CASE n \in 1 .. N
  <2>1. Begins(s, m) /\ Begins(s, n) /\ t[m] = s[m] /\ t[n] = s[n]
    BY <1>1, <1>4, <1>5, <1>6 DEF Begins
  <2>. QED  BY <1>4, <1>5, <1>6, <2>1 DEF Ordered, N
<1>7. CASE t[n][1] = g
  <2>1. t[m] = s[m] /\ s[m] # Zero /\ s[m][1] \in Fragments
    BY <1>1, <1>2, <1>4, <1>5 DEF Begins
  <2>2. s[m][1].record \in Nat /\ g.record \in Nat
    BY <2>1, FragmentParts
  <2>3. s[m][1].record <= g.record /\ (s[m][1].record = g.record => ~Final(s[m][1]))
    <3>1. m \in 1 .. N /\ s[m] # Zero
      BY <1>5, <2>1
    <3>. QED  BY <1>8, <3>1, Zenon
  <2>. QED  BY <1>7, <2>1, <2>2, <2>3
<1>. QED  BY <1>3, <1>4, <1>6, <1>7

-----------------------------------------------------------------------------
(* What log::Writer emits next, and the layout of the log with it.         *)

(* A fragment as the writer makes them.                                    *)
GoodFragment(g) ==
  /\ g \in Fragments /\ g.record \in 1 .. Len(records) /\ Size(g) <= BlockSize
  /\ g.type \in {"full", "first"} => g.offset = 0
  /\ Final(g) => g.offset + g.length = records[g.record]

(* The bytes of s are of such fragments, or zeros.                         *)
Good(s) == \A n \in 1 .. Len(s) : s[n] # Zero => GoodFragment(s[n][1]) /\ s[n][2] \in 1 .. Size(s[n][1])

(* The log as the writer has given it to the file.                         *)
Stream == file \o buf

(* The record AddRecord is at.                                             *)
Current == IF Up /\ Writing THEN {Len(records)} ELSE {}

(* The fragment that is written next, the trailer before it, and the       *)
(* stream with the two.                                                    *)
Leftover  == BlockSize - block_offset
Zeros     == IF NeedsTrailer(Leftover) THEN Leftover ELSE 0
Start     == IF NeedsTrailer(Leftover) THEN 0 ELSE block_offset
Avail     == BlockSize - Start - HeaderSize
NewLength == IF left < Avail THEN left ELSE Avail
Newest    == [record |-> Len(records), offset |-> records[Len(records)] - left,
              length |-> NewLength, type |-> FragmentType(left = NewLength)]
Trailer   == [i \in 1 .. Zeros |-> Zero]
Target    == Stream \o Trailer \o Header(Newest) \o Payload(Newest)

(* The bytes an emission may move.                                         *)
Fresh == {<<Newest, i>> : i \in 1 .. Size(Newest)}
Moved == {buf[n] : n \in 1 .. Len(buf)} \cup {Zero} \cup Fresh

(* The types, with those of the two sequences of bytes.                    *)
Typed == TypeOK /\ file \in Seq(Bytes) /\ buf \in Seq(Bytes)

(* Where AddRecord stands in its loop: nothing of its record is written    *)
(* yet, or its fragments end the file where the next one is to go on.      *)
InRecord ==
  Up /\ Writing =>
    LET r == Len(records)
    IN /\ left \in 1 .. records[r] /\ r \notin acked
       /\ begin => /\ left = records[r]
                   /\ \A n \in 1 .. Len(file) : file[n] # Zero => file[n][1].record # r
                   /\ \A n \in 1 .. Len(buf) : buf[n] # Zero => buf[n][1].record # r
       /\ ~begin => /\ buf = <<>> /\ block_offset = BlockSize
                    /\ \A n \in 1 .. Len(file) : file[n] # Zero /\ file[n][1].record = r =>
                         /\ ~Final(file[n][1])
                         /\ file[n][1].offset + file[n][1].length <= records[r] - left
                    /\ \E h \in Fragments : /\ EndsAt(file, Len(file), h) /\ h.record = r
                                            /\ ~Final(h) /\ h.offset + h.length = records[r] - left

(* The fragment that AddRecord emits next fits behind the trailer that may *)
(* go before it: it ends at the end of the block unless it ends its        *)
(* record, a trailer is only written before the first fragment of a        *)
(* record, and a later one starts a block.                                 *)
LEMMA NewestFits ==
  ASSUME Typed, InRecord, Up, Writing
  PROVE  /\ Newest \in Fragments /\ GoodFragment(Newest) /\ Newest.record = Len(records)
         /\ Newest.offset = records[Len(records)] - left /\ Newest.length = NewLength
         /\ NewLength \in 0 .. left /\ Len(records) \in Nat /\ records[Len(records)] \in Nat
         /\ Zeros \in Nat /\ Start \in Nat /\ Start + Size(Newest) <= BlockSize
         /\ Zeros # 0 => block_offset + HeaderSize > BlockSize /\ block_offset + Zeros = BlockSize
         /\ Zeros = 0 => (Start = block_offset \/ (Start = 0 /\ block_offset = BlockSize))
         /\ Zeros # 0 => Start = 0
         /\ Start + HeaderSize <= BlockSize
         /\ ~begin => Zeros = 0 /\ Start = 0 /\ NewLength > 0
         /\ left # NewLength => Start + Size(Newest) = BlockSize
         /\ Final(Newest) <=> left = NewLength
         /\ Newest.type \in {"middle", "last"} <=> ~begin
<1>1. /\ block_offset \in 0 .. BlockSize /\ left \in Nat /\ begin \in BOOLEAN
      /\ records \in Seq(Lengths) /\ records # <<>>
  BY DEF Typed, TypeOK
<1>2. Len(records) \in Nat \ {0} /\ Len(records) \in 1 .. Len(records) /\ records[Len(records)] \in Nat
  <2>1. Len(records) \in Nat \ {0}
    BY <1>1, EmptySeq
  <2>2. records[Len(records)] \in Lengths
    BY <1>1, <2>1, ElementOfSeq
  <2>3. Lengths \subseteq Nat
    BY LogAssumption
  <2>4. records[Len(records)] \in Nat
    BY <2>2, <2>3, Zenon
  <2>5. Len(records) \in 1 .. Len(records)
    BY <2>1
  <2>. QED  BY <2>1, <2>4, <2>5, Zenon
<1>3. left \in 1 .. records[Len(records)]
      /\ (begin => left = records[Len(records)]) /\ (~begin => block_offset = BlockSize)
  BY DEF InRecord
<1>4. /\ Zeros \in Nat /\ Start \in Nat /\ Start + HeaderSize <= BlockSize
      /\ Zeros # 0 => block_offset + HeaderSize > BlockSize /\ block_offset + Zeros = BlockSize
      /\ Zeros = 0 => (Start = block_offset \/ (Start = 0 /\ block_offset = BlockSize))
      /\ Zeros # 0 => Start = 0
      /\ ~begin => Zeros = 0 /\ Start = 0
  BY <1>1, <1>3, Sizes DEF Zeros, Start, NeedsTrailer, Leftover
<1>5. /\ NewLength \in 0 .. left /\ Start + HeaderSize + NewLength <= BlockSize
      /\ left # NewLength => Start + HeaderSize + NewLength = BlockSize
      /\ ~begin => NewLength > 0
  BY <1>1, <1>3, <1>4, Sizes DEF NewLength, Avail
<1>6. FragmentType(left = NewLength) = IF begin THEN IF left = NewLength THEN "full" ELSE "first"
                                       ELSE IF left = NewLength THEN "last" ELSE "middle"
  BY <1>1 DEF FragmentType
<1>. DEFINE ty == FragmentType(left = NewLength)
<1>7. Newest = [record |-> Len(records), offset |-> records[Len(records)] - left, length |-> NewLength, type |-> ty]
  BY DEF Newest
<1>8. ty \in {"full", "first", "middle", "last"}
      /\ (ty \in {"middle", "last"} <=> ~begin) /\ (ty \in {"full", "last"} <=> left = NewLength)
  BY <1>1, <1>6
<1>. HIDE DEF ty
<1>9. /\ Newest.record = Len(records) /\ Newest.offset = records[Len(records)] - left
      /\ Newest.length = NewLength /\ Newest.type = ty
  BY <1>7
<1>10. records[Len(records)] - left \in Nat /\ NewLength \in Nat
  BY <1>1, <1>2, <1>3, <1>5
<1>11. Newest \in Fragments
  BY <1>2, <1>7, <1>8, <1>10 DEF Fragments
<1>12. Size(Newest) = HeaderSize + NewLength
  BY <1>9 DEF Size
<1>13. Start + Size(Newest) <= BlockSize /\ (left # NewLength => Start + Size(Newest) = BlockSize)
  BY <1>1, <1>4, <1>5, <1>10, <1>12, Sizes
<1>14. (Final(Newest) <=> left = NewLength) /\ (Newest.type \in {"middle", "last"} <=> ~begin)
  BY <1>8, <1>9 DEF Final
<1>15. GoodFragment(Newest)
  <2>1. Size(Newest) <= BlockSize
    BY <1>4, <1>5, <1>10, <1>12, <1>13, Sizes
  <2>2. Newest.type \in {"full", "first"} => Newest.offset = 0
    <3>1. Newest.type \in {"full", "first"} => begin
      BY <1>1, <1>14
    <3>. QED  BY <1>2, <1>3, <1>9, <3>1
  <2>3. Final(Newest) => Newest.offset + Newest.length = records[Newest.record]
    BY <1>1, <1>2, <1>9, <1>14
  <2>. QED  BY <1>2, <1>9, <1>11, <2>1, <2>2, <2>3 DEF GoodFragment
<1>. QED  BY <1>2, <1>4, <1>5, <1>9, <1>11, <1>13, <1>14, <1>15

(* What an emission that goes well makes of the stream: the trailer, and   *)
(* the bytes of the fragment behind it.                                    *)
LEMMA TargetGrows ==
  ASSUME Typed, InRecord, Up, Writing
  PROVE  /\ Stream \in Seq(Bytes) /\ Target \in Seq(Bytes) /\ Grows(Stream, Zeros, Newest, Target)
         /\ Trailer \in Seq({Zero}) /\ Header(Newest) \in Seq(Fresh) /\ Payload(Newest) \in Seq(Fresh)
         /\ Target = ((Stream \o Trailer) \o Header(Newest)) \o Payload(Newest)
         /\ Len(Stream) = Len(file) + Len(buf)
<1>. DEFINE g == Newest
            H == Header(g)
            P == Payload(g)
            A == Stream \o Trailer
            B == A \o H
            C == B \o P
<1>1. g \in Fragments /\ Zeros \in Nat /\ g.length \in Nat /\ HeaderSize \in Nat
      /\ Size(g) = HeaderSize + g.length
  BY NewestFits, FragmentParts, Sizes DEF Size
<1>2. H \in Seq(Fresh) /\ Len(H) = HeaderSize /\ \A i \in 1 .. HeaderSize : H[i] = <<g, i>>
  <2>1. \A i \in 1 .. HeaderSize : i \in 1 .. Size(g)
    BY <1>1
  <2>2. \A i \in 1 .. HeaderSize : <<g, i>> \in Fresh
    BY <2>1 DEF Fresh
  <2>. HIDE DEF g
  <2>. QED  BY <1>1, <2>2 DEF Header
<1>3. P \in Seq(Fresh) /\ Len(P) = g.length /\ \A i \in 1 .. g.length : P[i] = <<g, HeaderSize + i>>
  <2>1. \A i \in 1 .. g.length : HeaderSize + i \in 1 .. Size(g)
    BY <1>1
  <2>2. \A i \in 1 .. g.length : <<g, HeaderSize + i>> \in Fresh
    BY <2>1 DEF Fresh
  <2>. HIDE DEF g
  <2>. QED  BY <1>1, <2>2 DEF Payload
<1>4. Trailer \in Seq({Zero}) /\ Len(Trailer) = Zeros /\ \A i \in 1 .. Zeros : Trailer[i] = Zero
  BY <1>1 DEF Trailer
<1>5. Fresh \subseteq Bytes /\ {Zero} \subseteq Bytes
  <2>1. \A i \in 1 .. Size(g) : i \in Nat
    BY <1>1
  <2>2. \A i \in 1 .. Size(g) : <<g, i>> \in Bytes
    BY <1>1, <2>1, ByteParts
  <2>. QED  BY <2>2 DEF Fresh, Bytes
<1>6. H \in Seq(Bytes) /\ P \in Seq(Bytes) /\ Trailer \in Seq(Bytes)
  BY <1>2, <1>3, <1>4, <1>5, SeqMonotonic
<1>7. Stream \in Seq(Bytes) /\ Len(Stream) = Len(file) + Len(buf) /\ Len(Stream) \in Nat
  BY Concat, LenProperties DEF Typed, Stream
<1>. HIDE DEF H, P
<1>8. A \in Seq(Bytes) /\ Len(A) = Len(Stream) + Zeros
      /\ \A i \in 1 .. Len(A) : A[i] = IF i <= Len(Stream) THEN Stream[i] ELSE Trailer[i - Len(Stream)]
  BY <1>4, <1>6, <1>7, ConcatProperties
<1>. HIDE DEF A
<1>9. B \in Seq(Bytes) /\ Len(B) = Len(A) + HeaderSize
      /\ \A i \in 1 .. Len(B) : B[i] = IF i <= Len(A) THEN A[i] ELSE H[i - Len(A)]
  <2>1. /\ B \in Seq(Bytes) /\ Len(B) = Len(A) + Len(H)
        /\ \A i \in 1 .. Len(A) + Len(H) : B[i] = IF i <= Len(A) THEN A[i] ELSE H[i - Len(A)]
    BY <1>2, <1>6, <1>8, ConcatProperties
  <2>. HIDE DEF B
  <2>. QED  BY <1>2, <2>1
<1>. HIDE DEF B
<1>10. C \in Seq(Bytes) /\ Len(C) = Len(B) + g.length
      /\ \A i \in 1 .. Len(C) : C[i] = IF i <= Len(B) THEN B[i] ELSE P[i - Len(B)]
  <2>1. /\ C \in Seq(Bytes) /\ Len(C) = Len(B) + Len(P)
        /\ \A i \in 1 .. Len(B) + Len(P) : C[i] = IF i <= Len(B) THEN B[i] ELSE P[i - Len(B)]
    <3>1. B \in Seq(Bytes) /\ P \in Seq(Bytes)
      BY <1>6, <1>9
    <3>. QED  BY ONLY <3>1, ConcatProperties
  <2>. HIDE DEF C
  <2>. QED  BY <1>3, <2>1
<1>. HIDE DEF C
<1>11. C = Target
  BY DEF C, B, A, H, P, Target
<1>. DEFINE N == Len(Stream)
            z == Zeros
<1>12. N \in Nat /\ z \in Nat /\ Len(A) = N + z /\ Len(B) = N + z + HeaderSize /\ Len(C) = N + z + Size(g)
  BY <1>1, <1>7, <1>8, <1>9, <1>10
<1>. HIDE DEF N, z, g
<1>13. \A n \in 1 .. N : C[n] = Stream[n]
  <2>1. \A n \in 1 .. N : n \in 1 .. Len(A) /\ n \in 1 .. Len(B) /\ n \in 1 .. Len(C) /\ n <= Len(A) /\ n <= Len(B)
    BY <1>1, <1>12
  <2>. QED  BY <1>8, <1>9, <1>10, <2>1 DEF N
<1>14. \A n \in N + 1 .. N + z : C[n] = Zero
  <2>1. SUFFICES ASSUME NEW n \in N + 1 .. N + z PROVE C[n] = Zero
    OBVIOUS
  <2>2. n \in 1 .. Len(A) /\ n \in 1 .. Len(B) /\ n \in 1 .. Len(C) /\ n <= Len(A) /\ n <= Len(B)
        /\ ~(n <= N) /\ n - N \in 1 .. z
    BY <1>1, <1>12, <2>1
  <2>3. A[n] = Trailer[n - N]
    BY <1>8, <2>2 DEF N
  <2>4. C[n] = A[n]
    BY <1>9, <1>10, <2>2
  <2>5. Trailer[n - N] = Zero
    BY <1>4, <2>2 DEF z
  <2>. QED  BY <2>3, <2>4, <2>5
<1>15. \A i \in 1 .. Size(g) : C[N + z + i] = <<g, i>>
  <2>1. SUFFICES ASSUME NEW i \in 1 .. Size(g) PROVE C[N + z + i] = <<g, i>>
    OBVIOUS
  <2>. DEFINE n == N + z + i
  <2>2. n \in 1 .. Len(C) /\ n \in Nat /\ ~(n <= Len(A)) /\ n - Len(A) = i
        /\ n - Len(B) = i - HeaderSize /\ i \in Nat
    BY <1>1, <1>12, <2>1
  <2>. HIDE DEF n
  <2>3. CASE i <= HeaderSize
    <3>1. n \in 1 .. Len(B) /\ n <= Len(B) /\ i \in 1 .. HeaderSize
      BY <1>1, <1>12, <2>2, <2>3
    <3>2. C[n] = B[n] /\ B[n] = H[i]
      BY <1>9, <1>10, <2>2, <3>1
    <3>3. C[n] = <<g, i>>
      BY <1>2, <3>1, <3>2
    <3>. QED  BY <3>3 DEF n
  <2>4. CASE ~(i <= HeaderSize)
    <3>1. ~(n <= Len(B)) /\ i - HeaderSize \in 1 .. g.length /\ HeaderSize + (i - HeaderSize) = i
      BY <1>1, <1>12, <2>1, <2>2, <2>4
    <3>2. C[n] = P[i - HeaderSize]
      BY <1>10, <2>2, <3>1
    <3>3. P[i - HeaderSize] = <<g, HeaderSize + (i - HeaderSize)>>
      BY <1>3, <3>1
    <3>4. C[n] = <<g, i>>
      BY <3>1, <3>2, <3>3
    <3>. QED  BY <3>4 DEF n
  <2>. QED  BY <2>3, <2>4
<1>16. Grows(Stream, Zeros, Newest, C)
  BY <1>12, <1>13, <1>14, <1>15 DEF Grows, N, z, g
<1>. QED  BY <1>2, <1>3, <1>4, <1>7, <1>10, <1>11, <1>16 DEF C, B, A, H, P, g

-----------------------------------------------------------------------------
(* What an emission does to the file.                                      *)

(* The states of the file in between.                                      *)
Storage(room)   == [file |-> file, buf |-> buf, room |-> room, ok |-> TRUE]
FilledUp(room)  == AppendData(Storage(room), Trailer)
WithHeader(room) == AppendData(FilledUp(room), Header(Newest))
WithPayload(room) == AppendData(WithHeader(room), Payload(Newest))
Emitted(room)   == Flush(WithPayload(room))

(* EmitFragment, with names for what it computes.                          *)
LEMMA EmitIs ==
  ASSUME NEW room, EmitFragment(room)
  PROVE  /\ Up /\ Writing
         /\ file' = Emitted(room).file /\ buf' = Emitted(room).buf
         /\ block_offset' = IF FilledUp(room).ok THEN Start + HeaderSize + Newest.length ELSE block_offset
         /\ \/ /\ Emitted(room).ok
               /\ left' = left - NewLength
               /\ acked' = IF left = NewLength THEN acked \cup {Len(records)} ELSE acked
               /\ UNCHANGED <<failures, damaged>>
            \/ /\ ~Emitted(room).ok /\ failures < MaxFailures
               /\ left' = 0 /\ failures' = failures + 1
               /\ damaged' = (damaged \/ Emitted(room).file \o Emitted(room).buf # Target)
               /\ UNCHANGED acked
         /\ begin' = FALSE
         /\ UNCHANGED <<synced, durable, records, life>>
BY DEF EmitFragment, Emitted, WithPayload, WithHeader, FilledUp, Storage, Target, Stream, Trailer, Newest,
       NewLength, Avail, Start, Zeros, Leftover, OffsetAfter

(* No byte of the fragment is there before it is emitted.                  *)
LEMMA NewestIsFresh ==
  ASSUME Typed, InRecord, Up, Writing
  PROVE  /\ \A n \in 1 .. Len(file) : file[n] # Zero => file[n][1] # Newest
         /\ \A n \in 1 .. Len(buf) : buf[n] # Zero => buf[n][1] # Newest
<1>1. /\ Newest.record = Len(records) /\ Newest.offset = records[Len(records)] - left
      /\ Newest.length = NewLength
      /\ Newest.offset \in Nat /\ NewLength \in Nat /\ (~begin => NewLength > 0)
  BY NewestFits, FragmentParts
<1>2. CASE begin
  BY <1>1, <1>2 DEF InRecord
<1>3. CASE ~begin
  <2>1. buf = <<>> /\ Len(buf) = 0
    BY <1>3 DEF InRecord
  <2>2. ASSUME NEW n \in 1 .. Len(file), file[n] # Zero, file[n][1] = Newest PROVE FALSE
    <3>1. Newest.offset + Newest.length <= Newest.offset
      BY <1>1, <1>3, <2>2 DEF InRecord
    <3>. QED  BY <1>1, <1>3, <3>1
  <2>. QED  BY <2>1, <2>2
<1>. QED  BY <1>2, <1>3

(* All that an emission may move are the bytes of the buffer, of the       *)
(* trailer and of the fragment.                                            *)
LEMMA MovedBytes ==
  ASSUME Typed, InRecord, Up, Writing
  PROVE  /\ Moved \subseteq Bytes /\ buf \in Seq(Moved) /\ Trailer \in Seq(Moved)
         /\ Header(Newest) \in Seq(Moved) /\ Payload(Newest) \in Seq(Moved)
<1>. DEFINE B == {buf[n] : n \in 1 .. Len(buf)}
<1>1. buf \in Seq(Bytes) /\ Len(buf) \in Nat
  BY LenProperties DEF Typed
<1>2. B \subseteq Bytes /\ buf \in Seq(B)
  <2>1. \A n \in 1 .. Len(buf) : buf[n] \in Bytes
    BY <1>1, ElementOfSeq
  <2>2. Range(buf) = B
    BY <1>1, RangeEquality
  <2>3. buf \in Seq(Range(buf))
    BY <1>1, SeqOfRange
  <2>. QED  BY <2>1, <2>2, <2>3
<1>3. Fresh \subseteq Bytes
  <2>1. Newest \in Fragments /\ Size(Newest) \in Nat
    BY NewestFits, FragmentParts
  <2>2. \A i \in 1 .. Size(Newest) : i \in Nat
    BY <2>1
  <2>. QED  BY <2>1, <2>2, ByteParts DEF Fresh
<1>4. Moved = B \cup {Zero} \cup Fresh
  BY DEF Moved
<1>5. {Zero} \subseteq Bytes
  BY DEF Bytes
<1>. HIDE DEF B
<1>6. Moved \subseteq Bytes /\ B \subseteq Moved /\ {Zero} \subseteq Moved /\ Fresh \subseteq Moved
  BY <1>2, <1>3, <1>4, <1>5
<1>7. Trailer \in Seq({Zero}) /\ Header(Newest) \in Seq(Fresh) /\ Payload(Newest) \in Seq(Fresh)
  BY TargetGrows
<1>8. buf \in Seq(Moved)
  BY <1>2, <1>6, SeqMonotonic
<1>9. Trailer \in Seq(Moved)
  BY <1>6, <1>7, SeqMonotonic
<1>10. Header(Newest) \in Seq(Moved)
  BY <1>6, <1>7, SeqMonotonic
<1>11. Payload(Newest) \in Seq(Moved)
  BY <1>6, <1>7, SeqMonotonic
<1>. QED  BY <1>6, <1>8, <1>9, <1>10, <1>11

(* Unless the trailer went through, the last byte of the fragment is       *)
(* missing.                                                                *)
LEMMA TrailerWentThrough ==
  ASSUME Typed, InRecord, Up, Writing, NEW room \in Nat,
         FilledUp(room).file \o FilledUp(room).buf = Target
  PROVE  FALSE
<1>. DEFINE S == {buf[n] : n \in 1 .. Len(buf)} \cup {Zero}
            F == FilledUp(room)
            last == <<Newest, Size(Newest)>>
<1>1. /\ Moved \subseteq Bytes /\ Newest \in Fragments /\ Size(Newest) \in Nat /\ Size(Newest) > 0
      /\ buf \in Seq(Bytes) /\ file \in Seq(Bytes) /\ Len(buf) \in Nat /\ Len(buf) <= BufferSize
  <2>1. Newest \in Fragments /\ Moved \subseteq Bytes
    BY NewestFits, MovedBytes
  <2>2. Size(Newest) \in Nat /\ Size(Newest) > 0
    BY <2>1, FragmentParts, Sizes
  <2>3. buf \in Seq(Bytes) /\ file \in Seq(Bytes) /\ Len(buf) <= BufferSize
    BY DEF Typed, TypeOK
  <2>. QED  BY <2>1, <2>2, <2>3, LenProperties
<1>2. S \subseteq Bytes /\ S \subseteq Moved
  BY <1>1 DEF Moved
<1>3. last \notin S /\ \A n \in 1 .. Len(file) : file[n] # last
  <2>1. last # Zero /\ last[1] = Newest
    BY <1>1, ByteParts
  <2>2. \A n \in 1 .. Len(buf) : buf[n] # last
    BY <2>1, NewestIsFresh
  <2>3. \A n \in 1 .. Len(file) : file[n] # last
    BY <2>1, NewestIsFresh
  <2>. HIDE DEF last
  <2>. QED  BY <2>1, <2>2, <2>3
<1>4. buf \in Seq(S) /\ Trailer \in Seq(S)
  <2>1. Range(buf) = {buf[n] : n \in 1 .. Len(buf)} /\ buf \in Seq(Range(buf)) /\ Range(buf) \subseteq S
    <3>1. Range(buf) = {buf[n] : n \in 1 .. Len(buf)}
      BY <1>1, RangeEquality
    <3>2. buf \in Seq(Range(buf))
      BY <1>1, SeqOfRange
    <3>. QED  BY <3>1, <3>2
  <2>2. Trailer \in Seq({Zero}) /\ {Zero} \subseteq S
    BY TargetGrows
  <2>. HIDE DEF S
  <2>3. buf \in Seq(S)
    BY <2>1, SeqMonotonic
  <2>4. Trailer \in Seq(S)
    BY <2>2, SeqMonotonic
  <2>. QED  BY <2>3, <2>4
<1>5. Storage(room) \in Disk /\ Storage(room).buf = buf /\ Storage(room).file = file
  BY <1>1 DEF Storage, Disk
<1>. HIDE DEF S
<1>6. Carries(Storage(room), F, S)
  BY <1>1, <1>2, <1>4, <1>5, AppendCarries DEF FilledUp
<1>. HIDE DEF F
<1>7. PICK u \in Seq(S) : F.file = file \o u
  BY <1>5, <1>6 DEF Carries
<1>. DEFINE v == F.buf
            A == file \o u
            T == A \o v
<1>8. v \in Seq(S)
  BY <1>6 DEF Carries
<1>. HIDE DEF v
<1>9. u \in Seq(Bytes) /\ v \in Seq(Bytes)
  BY <1>2, <1>7, <1>8, SeqMonotonic
<1>10. /\ A \in Seq(Bytes) /\ Len(A) = Len(file) + Len(u)
       /\ \A i \in 1 .. Len(file) + Len(u) : A[i] = IF i <= Len(file) THEN file[i] ELSE u[i - Len(file)]
  BY <1>1, <1>9, ConcatProperties
<1>. HIDE DEF A
<1>11. /\ T \in Seq(Bytes) /\ Len(T) = Len(A) + Len(v)
       /\ \A i \in 1 .. Len(A) + Len(v) : T[i] = IF i <= Len(A) THEN A[i] ELSE v[i - Len(A)]
  <2>1. A \in Seq(Bytes) /\ v \in Seq(Bytes)
    BY <1>9, <1>10
  <2>. QED  BY ONLY <2>1, ConcatProperties
<1>12. T = Target
  BY <1>7 DEF A, v, F
<1>. HIDE DEF T
<1>13. Len(file) \in Nat /\ Len(u) \in Nat /\ Len(v) \in Nat
  BY <1>1, <1>7, <1>8, LenProperties
<1>14. \A i \in 1 .. Len(T) : T[i] # last
  <2>1. SUFFICES ASSUME NEW i \in 1 .. Len(T) PROVE T[i] # last
    OBVIOUS
  <2>2. CASE i \in 1 .. Len(file)
    <3>1. T[i] = file[i]
      BY <1>10, <1>11, <1>13, <2>2
    <3>. QED  BY <1>3, <2>2, <3>1
  <2>3. CASE i - Len(file) \in 1 .. Len(u)
    <3>1. T[i] = u[i - Len(file)]
      BY <1>10, <1>11, <1>13, <2>1, <2>3
    <3>2. u[i - Len(file)] \in S
      BY <1>7, <2>3, ElementOfSeq
    <3>. QED  BY <1>3, <3>1, <3>2
  <2>4. CASE i - Len(A) \in 1 .. Len(v)
    <3>1. T[i] = v[i - Len(A)]
      BY <1>10, <1>11, <1>13, <2>1, <2>4
    <3>2. v[i - Len(A)] \in S
      BY <1>8, <2>4, ElementOfSeq
    <3>. QED  BY <1>3, <3>1, <3>2
  <2>. QED  BY <1>10, <1>11, <1>13, <2>1, <2>2, <2>3, <2>4
<1>15. Grows(Stream, Zeros, Newest, Target) /\ Len(Stream) \in Nat /\ Zeros \in Nat
  BY TargetGrows, NewestFits, LenProperties
<1>16. Target[Len(Stream) + Zeros + Size(Newest)] = last /\ Len(Target) = Len(Stream) + Zeros + Size(Newest)
  <2>1. Size(Newest) \in 1 .. Size(Newest)
    BY <1>1
  <2>. HIDE DEF last
  <2>2. Target[Len(Stream) + Zeros + Size(Newest)] = <<Newest, Size(Newest)>>
    BY <1>15, <2>1 DEF Grows
  <2>. QED  BY <1>15, <2>2 DEF Grows, last
<1>17. Len(Target) \in 1 .. Len(Target)
  BY <1>1, <1>15, <1>16
<1>. QED  BY <1>12, <1>14, <1>16, <1>17

(* What an emission does to the file.                                      *)
LEMMA EmitStep ==
  ASSUME Typed, InRecord, NEW room \in Nat, EmitFragment(room)
  PROVE  /\ Up /\ Writing /\ begin' = FALSE /\ UNCHANGED <<synced, durable, records, life>>
         /\ file' \in Seq(Bytes) /\ buf' \in Seq(Moved) /\ Len(buf') <= BufferSize
         /\ \E u \in Seq(Moved) : file' = file \o u
         /\ \/ /\ file' = Target /\ buf' = <<>> /\ block_offset' = Start + Size(Newest)
               /\ left' = left - NewLength
               /\ acked' = IF left = NewLength THEN acked \cup {Len(records)} ELSE acked
               /\ failures' = failures /\ damaged' = damaged
            \/ /\ left' = 0 /\ acked' = acked /\ failures < MaxFailures /\ failures' = failures + 1
               /\ block_offset' \in {block_offset, Start + Size(Newest)}
               /\ damaged \in BOOLEAN => damaged' \in BOOLEAN
               /\ ~damaged' => /\ ~damaged /\ file' \o buf' = Target
                               /\ block_offset' = Start + Size(Newest)
<1>. DEFINE D == Storage(room)
            F == FilledUp(room)
            G == WithHeader(room)
            K == WithPayload(room)
            E == Emitted(room)
            H == Header(Newest)
            P == Payload(Newest)
<1>0. Up /\ Writing
  BY EmitIs
<1>1. /\ Moved \subseteq Bytes /\ buf \in Seq(Moved) /\ Trailer \in Seq(Moved) /\ H \in Seq(Moved)
      /\ P \in Seq(Moved)
      /\ buf \in Seq(Bytes) /\ file \in Seq(Bytes) /\ Len(buf) <= BufferSize
      /\ Stream \in Seq(Bytes) /\ Target = ((Stream \o Trailer) \o H) \o P
      /\ Newest.length \in Nat /\ Start \in Nat
  BY <1>0, MovedBytes, TargetGrows, NewestFits, FragmentParts DEF Typed, TypeOK
<1>2. D \in Disk /\ D.buf = buf /\ D.file = file /\ D.ok
  BY <1>1 DEF Storage, Disk
<1>. HIDE DEF D, H, P
<1>3. /\ Carries(D, F, Moved)
      /\ F.ok => F.file \o F.buf = Stream \o Trailer
  BY <1>1, <1>2, AppendCarries DEF FilledUp, D, Stream
<1>. HIDE DEF F
<1>4. /\ Carries(F, G, Moved)
      /\ G.ok => F.ok /\ G.file \o G.buf = (F.file \o F.buf) \o H
      /\ ~F.ok => G = F
  BY <1>1, <1>3, AppendCarries DEF WithHeader, F, H, Carries
<1>. HIDE DEF G
<1>5. /\ Carries(G, K, Moved)
      /\ K.ok => G.ok /\ K.file \o K.buf = (G.file \o G.buf) \o P
      /\ ~G.ok => K = G
  <2>1. G \in Disk /\ Len(G.buf) <= BufferSize /\ G.buf \in Seq(Moved)
    BY <1>4 DEF Carries
  <2>2. K = AppendData(G, P)
    BY DEF WithPayload, G, P
  <2>. HIDE DEF K
  <2>. QED  BY <1>1, <2>1, <2>2, AppendCarries
<1>. HIDE DEF K
<1>6. /\ Carries(K, E, Moved)
      /\ E.ok => K.ok /\ E.buf = <<>> /\ E.file = K.file \o K.buf
      /\ ~K.ok => E = K
  <2>1. K \in Disk /\ Len(K.buf) <= BufferSize /\ K.buf \in Seq(Moved)
    BY <1>5 DEF Carries
  <2>2. E = IF K.ok THEN FlushBuffer(K) ELSE K
    BY DEF Emitted, Flush, K
  <2>. HIDE DEF E
  <2>3. CASE K.ok
    BY <1>1, <2>1, <2>2, <2>3, FlushTakes
  <2>4. CASE ~K.ok
    <3>1. K.file = K.file \o <<>> /\ <<>> \in Seq(Moved)
      BY <2>1, ConcatEmptySeq, EmptySeq DEF Disk
    <3>. QED  BY <2>1, <2>2, <2>4, <3>1 DEF Carries
  <2>. QED  BY <2>3, <2>4
<1>. HIDE DEF E
<1>7. Carries(D, E, Moved)
  <2>1. F \in Disk /\ G \in Disk /\ K \in Disk
    BY <1>3, <1>4, <1>5 DEF Carries
  <2>2. Carries(D, G, Moved)
    BY <1>1, <1>2, <1>3, <1>4, CarriesOn
  <2>3. Carries(D, K, Moved)
    BY <1>1, <1>2, <1>5, <2>2, CarriesOn
  <2>. QED  BY <1>1, <1>2, <1>6, <2>3, CarriesOn
<1>8. E.ok => F.ok /\ E.file = Target
  <2>1. E.ok => F.ok /\ E.file = ((Stream \o Trailer) \o H) \o P
    BY <1>3, <1>4, <1>5, <1>6, Zenon
  <2>. QED  BY <1>1, <2>1
<1>9. E.file \o E.buf = Target => F.ok
  <2>1. SUFFICES ASSUME E.file \o E.buf = Target, ~F.ok PROVE FALSE
    OBVIOUS
  <2>2. E = F
    BY <1>4, <1>5, <1>6, <2>1
  <2>. QED  BY <1>0, <2>1, <2>2, TrailerWentThrough DEF F
<1>10. /\ file' = E.file /\ buf' = E.buf
       /\ block_offset' = IF F.ok THEN Start + HeaderSize + Newest.length ELSE block_offset
       /\ \/ /\ E.ok
             /\ left' = left - NewLength
             /\ acked' = IF left = NewLength THEN acked \cup {Len(records)} ELSE acked
             /\ UNCHANGED <<failures, damaged>>
          \/ /\ ~E.ok /\ failures < MaxFailures
             /\ left' = 0 /\ failures' = failures + 1
             /\ damaged' = (damaged \/ E.file \o E.buf # Target)
             /\ UNCHANGED acked
       /\ begin' = FALSE
       /\ UNCHANGED <<synced, durable, records, life>>
  BY EmitIs DEF E, F
<1>11. /\ file' \in Seq(Bytes) /\ buf' \in Seq(Moved) /\ Len(buf') <= BufferSize
       /\ \E u \in Seq(Moved) : file' = file \o u
  BY <1>2, <1>7, <1>10 DEF Carries, Disk
<1>12. Start + HeaderSize + Newest.length = Start + Size(Newest)
  BY <1>1, Sizes DEF Size
<1>13. CASE E.ok
  BY <1>0, <1>6, <1>8, <1>10, <1>11, <1>12, <1>13
<1>14. CASE ~E.ok
  <2>1. /\ left' = 0 /\ acked' = acked /\ failures < MaxFailures /\ failures' = failures + 1
        /\ damaged' = (damaged \/ E.file \o E.buf # Target)
    BY <1>10, <1>14
  <2>2. damaged \in BOOLEAN => damaged' \in BOOLEAN
    BY <2>1
  <2>3. ~damaged' => /\ ~damaged /\ file' \o buf' = Target
                     /\ block_offset' = Start + Size(Newest)
    BY <1>9, <1>10, <1>12, <2>1
  <2>4. block_offset' \in {block_offset, Start + Size(Newest)}
    BY <1>10, <1>12
  <2>. QED  BY <1>0, <1>10, <1>11, <2>1, <2>2, <2>3, <2>4
<1>. QED  BY <1>13, <1>14

-----------------------------------------------------------------------------
(* The invariant of the writer.                                            *)

(* A byte of the buffer is of no acknowledged record.                      *)
Pending ==
  /\ ~Up => buf = <<>>
  /\ \A n \in 1 .. Len(buf) : buf[n] # Zero => buf[n][1].record \notin acked

(* Fragments of the acknowledged and of the current record in the file go  *)
(* on where they should, whatever failed in between.                       *)
AckedJoined ==
  \A n \in 0 .. Len(file) - 1 :
    Begins(file, n + 1) /\ file[n + 1][1].record \in acked \cup Current => Joined(file, n, file[n + 1][1])

(* The record r ends among the first p bytes of the file.                  *)
EndsIn(r, p) ==
  \E n \in 1 .. p : /\ file[n] # Zero /\ file[n][2] = Size(file[n][1])
                    /\ file[n][1].record = r /\ Final(file[n][1])

(* The acknowledged records are in the file, unless its end was lost.      *)
AckedEnds == life # "powerless" => \A r \in acked : EndsIn(r, Len(file))

(* Those of the last Sync are in a part of the file that is synced and was *)
(* in order then.                                                          *)
DurableEnds == \E p \in 0 .. synced : Sound(file, p) /\ \A r \in durable : EndsIn(r, p)

(* While no call failed half-way the file and the buffer are in order, and *)
(* block_offset_ is how far they reach into their last block.              *)
Undamaged ==
  ~damaged => /\ Sound(Stream, Len(Stream)) /\ Ordered(Stream)
              /\ Up => EndOf(Stream, Len(Stream)) /\ Off(Len(Stream)) = Off(block_offset)

(* The inductive invariant.                                                *)
IInv ==
  /\ Typed /\ Good(file) /\ Good(buf) /\ Pending /\ AckedJoined /\ AckedEnds /\ DurableEnds
  /\ Undamaged /\ InRecord

(* The empty log is in order.                                              *)
LEMMA Initially == Init => IInv
<1>. SUFFICES ASSUME Init PROVE IInv
  OBVIOUS
<1>1. /\ file = <<>> /\ synced = 0 /\ buf = <<>> /\ block_offset = 0
      /\ records = <<>> /\ left = 0 /\ begin = FALSE /\ acked = {} /\ durable = {}
      /\ failures = 0 /\ damaged = FALSE /\ life = "up"
  BY DEF Init
<1>2. /\ Len(file) = 0 /\ Len(buf) = 0 /\ Len(records) = 0 /\ Stream = <<>> /\ Len(Stream) = 0
      /\ file \in Seq(Bytes) /\ buf \in Seq(Bytes) /\ records \in Seq(Lengths)
  BY <1>1, EmptySeq, ConcatEmptySeq DEF Stream
<1>3. Typed
  <2>1. MaxFailures \in Nat
    BY LogAssumption
  <2>2. /\ synced \in 0 .. Len(file) /\ Len(buf) <= BufferSize /\ block_offset \in 0 .. BlockSize
        /\ failures \in 0 .. MaxFailures /\ left \in Nat /\ ~Writing
    BY <1>1, <1>2, <2>1, Sizes DEF Writing
  <2>3. acked \subseteq 1 .. Len(records) /\ durable \subseteq acked /\ begin \in BOOLEAN
        /\ damaged \in BOOLEAN /\ life \in {"up", "exited", "powerless"}
    BY <1>1
  <2>. QED  BY <1>2, <2>2, <2>3 DEF Typed, TypeOK
<1>4. Good(file) /\ Good(buf)
  BY <1>2 DEF Good
<1>5. Pending /\ AckedJoined /\ AckedEnds /\ InRecord
  BY <1>1, <1>2 DEF Pending, AckedJoined, AckedEnds, InRecord, Writing
<1>6. DurableEnds
  <2>1. Sound(file, 0)
    BY DEF Sound, Placed, Filled, Chained
  <2>. QED  BY <1>1, <2>1 DEF DurableEnds
<1>7. Undamaged
  <2>1. Sound(Stream, Len(Stream))
    BY <1>2 DEF Sound, Placed, Filled, Chained
  <2>2. Ordered(Stream) /\ EndOf(Stream, Len(Stream)) /\ Off(Len(Stream)) = Off(block_offset)
    BY <1>1, <1>2 DEF Ordered, EndOf
  <2>. QED  BY <2>1, <2>2 DEF Undamaged
<1>. QED  BY <1>3, <1>4, <1>5, <1>6, <1>7 DEF IInv

(* What is joined, byte by byte.                                           *)
LEMMA Bytewise ==
  \A s, t \in Seq(Bytes) :
    /\ s \o t \in Seq(Bytes) /\ Len(s \o t) = Len(s) + Len(t) /\ Len(s) \in Nat /\ Len(t) \in Nat
    /\ \A n \in 1 .. Len(s) : (s \o t)[n] = s[n]
    /\ \A n \in 1 .. Len(t) : (s \o t)[Len(s) + n] = t[n]
    /\ \A n \in Len(s) + 1 .. Len(s) + Len(t) : n - Len(s) \in 1 .. Len(t) /\ (s \o t)[n] = t[n - Len(s)]
<1>. TAKE s, t \in Seq(Bytes)
<1>1. /\ s \o t \in Seq(Bytes) /\ Len(s \o t) = Len(s) + Len(t) /\ Len(s) \in Nat /\ Len(t) \in Nat
      /\ \A n \in 1 .. Len(s) + Len(t) : (s \o t)[n] = IF n <= Len(s) THEN s[n] ELSE t[n - Len(s)]
  BY ConcatProperties, LenProperties
<1>2. \A n \in 1 .. Len(s) : (s \o t)[n] = s[n]
  BY <1>1
<1>3. \A n \in Len(s) + 1 .. Len(s) + Len(t) : n - Len(s) \in 1 .. Len(t) /\ (s \o t)[n] = t[n - Len(s)]
  BY <1>1
<1>4. \A n \in 1 .. Len(t) : (s \o t)[Len(s) + n] = t[n]
  BY <1>1
<1>. QED  BY <1>1, <1>2, <1>3, <1>4

(* Sync and Close write a part of the buffer, or all of it if the write is OK. *)
LEMMA Flushed ==
  ASSUME Typed, NEW room \in Nat
  PROVE  LET f == FlushBuffer(Storage(room))
         IN /\ f.file \in Seq(Bytes) /\ f.buf \in Seq(Bytes) /\ Len(f.buf) <= BufferSize
            /\ Len(file) <= Len(f.file) /\ Len(f.file) <= Len(Stream)
            /\ \A n \in 1 .. Len(f.file) : f.file[n] = Stream[n]
            /\ f.ok => f.buf = <<>> /\ f.file = Stream
            /\ ~f.ok => f.buf = buf
            /\ Len(f.file) = Len(file) => f.file = file
<1>. DEFINE D == Storage(room)
            f == FlushBuffer(D)
<1>1. /\ file \in Seq(Bytes) /\ buf \in Seq(Bytes) /\ Len(buf) <= BufferSize
      /\ Len(file) \in Nat /\ Len(buf) \in Nat
  BY LenProperties DEF Typed, TypeOK
<1>2. D \in Disk /\ D.buf = buf /\ D.file = file /\ D.ok
  BY <1>1 DEF Storage, Disk
<1>. HIDE DEF D
<1>3. /\ Carries(D, f, Bytes)
      /\ \E n \in 0 .. Len(D.buf) : f.file = D.file \o SubSeq(D.buf, 1, n)
      /\ f.ok => f.buf = <<>> /\ f.file = D.file \o D.buf
      /\ ~f.ok => f.buf = D.buf
  BY <1>1, <1>2, FlushTakes
<1>. HIDE DEF f
<1>4. f.file \in Seq(Bytes) /\ f.buf \in Seq(Bytes) /\ Len(f.buf) <= BufferSize
  BY <1>3 DEF Carries, Disk
<1>5. PICK n \in 0 .. Len(buf) : f.file = file \o SubSeq(buf, 1, n)
  BY <1>2, <1>3
<1>6. /\ SubSeq(buf, 1, n) \in Seq(Bytes) /\ Len(SubSeq(buf, 1, n)) = n
      /\ \A i \in 1 .. n : SubSeq(buf, 1, n)[i] = buf[i]
  <2>1. SubSeq(buf, 1, n) \in Seq(Bytes) /\ Len(SubSeq(buf, 1, n)) = n
    BY <1>1, <1>5, Part
  <2>2. \A i \in 1 .. n : buf[i] \in Bytes
    BY <1>1, <1>5, ElementOfSeq
  <2>. QED  BY <1>1, <1>5, <2>1, <2>2, SubSeqProperties
<1>7. /\ Len(Stream) = Len(file) + Len(buf) /\ Len(f.file) = Len(file) + n
      /\ \A i \in 1 .. Len(file) : Stream[i] = file[i] /\ f.file[i] = file[i]
      /\ \A i \in 1 .. Len(buf) : Stream[Len(file) + i] = buf[i]
      /\ \A i \in 1 .. n : f.file[Len(file) + i] = buf[i]
  BY <1>1, <1>5, <1>6, Bytewise DEF Stream
<1>8. ASSUME NEW i \in 1 .. Len(f.file) PROVE f.file[i] = Stream[i]
  <2>1. CASE i <= Len(file)
    BY <1>7, <2>1, <1>1
  <2>2. CASE i > Len(file)
    <3>1. i - Len(file) \in 1 .. n /\ i = Len(file) + (i - Len(file))
      BY <1>1, <1>7, <2>2
    <3>2. f.file[Len(file) + (i - Len(file))] = buf[i - Len(file)]
      BY <1>7, <3>1
    <3>3. Stream[Len(file) + (i - Len(file))] = buf[i - Len(file)]
      BY <1>1, <1>5, <1>7, <3>1
    <3>. QED  BY <3>1, <3>2, <3>3
  <2>. QED  BY <1>1, <2>1, <2>2
<1>9. Len(f.file) = Len(file) => f.file = file
  <2>1. SUFFICES ASSUME Len(f.file) = Len(file) PROVE f.file = file
    OBVIOUS
  <2>2. n = 0
    BY <1>1, <1>7, <2>1
  <2>3. SubSeq(buf, 1, n) = <<>>
    BY <1>6, <2>2, EmptySeq
  <2>. QED  BY <1>1, <1>5, <2>3, ConcatEmptySeq
<1>10. f.ok => f.buf = <<>> /\ f.file = Stream
  BY <1>2, <1>3 DEF Stream
<1>11. ~f.ok => f.buf = buf
  BY <1>2, <1>3
<1>12. Len(file) <= Len(f.file) /\ Len(f.file) <= Len(Stream)
  BY <1>1, <1>5, <1>7
<1>. QED  BY <1>4, <1>8, <1>9, <1>10, <1>11, <1>12 DEF f, D

-----------------------------------------------------------------------------
(* Steps that write nothing but what was in the buffer.                    *)

(* A step that adds nothing to the log but what was in the buffer.         *)
Quiet ==
  /\ Up
  /\ UNCHANGED <<block_offset, records, left, begin, acked>>
  /\ file' \in Seq(Bytes) /\ buf' \in {buf, <<>>}
  /\ Len(file') <= Len(Stream) /\ \A n \in 1 .. Len(file') : file'[n] = Stream[n]
  /\ Len(file') > Len(file) => ~Writing
  /\ life' = "powerless" \/ Len(file) <= Len(file')
  /\ synced' \in synced .. Len(file')
  /\ \/ durable' = durable
     \/ durable' = acked /\ ~damaged /\ synced' = Len(file') /\ file' = Stream
  /\ failures' \in 0 .. MaxFailures /\ damaged' \in BOOLEAN /\ (damaged => damaged')
  /\ \/ Up /\ Up' /\ ~Writing /\ (~damaged' => file' \o buf' = Stream)
     \/ ~Up' /\ life' \in {"exited", "powerless"} /\ buf' = <<>>

(* A record that ends in the first bytes still ends there when those bytes *)
(* stay.                                                                   *)
LEMMA EndsInAgree ==
  ASSUME NEW r, NEW p \in Nat, NEW q \in Nat, p <= q, EndsIn(r, p), \A n \in 1 .. p : file'[n] = file[n]
  PROVE  EndsIn(r, q)'
<1>1. PICK n \in 1 .. p : /\ file[n] # Zero /\ file[n][2] = Size(file[n][1])
                          /\ file[n][1].record = r /\ Final(file[n][1])
  BY DEF EndsIn
<1>2. n \in 1 .. q /\ file'[n] = file[n]
  OBVIOUS
<1>. QED  BY <1>1, <1>2 DEF EndsIn

(* What is cut off at its end stays in order.                              *)
LEMMA OrderedAgree ==
  ASSUME NEW s, NEW t, Len(s) \in Nat, Len(t) \in Nat, Len(t) <= Len(s),
    \A n \in 1 .. Len(t) : t[n] = s[n], Ordered(s)
  PROVE  Ordered(t)
<1>1. SUFFICES ASSUME NEW m \in 1 .. Len(t), NEW n \in 1 .. Len(t), m < n, Begins(t, m), Begins(t, n)
               PROVE  /\ t[m][1].record <= t[n][1].record
                      /\ Final(t[m][1]) => t[m][1].record < t[n][1].record
  BY DEF Ordered
<1>2. m \in 1 .. Len(s) /\ n \in 1 .. Len(s) /\ t[m] = s[m] /\ t[n] = s[n]
  OBVIOUS
<1>3. Begins(s, m) /\ Begins(s, n)
  BY <1>1, <1>2 DEF Begins
<1>. QED  BY <1>1, <1>2, <1>3 DEF Ordered

(* The stream is the file, then the buffer.                                *)
LEMMA StreamBytes ==
  ASSUME Typed
  PROVE  /\ Stream \in Seq(Bytes) /\ Len(Stream) = Len(file) + Len(buf)
         /\ Len(file) \in Nat /\ Len(buf) \in Nat /\ Len(Stream) \in Nat
         /\ \A n \in 1 .. Len(file) : Stream[n] = file[n]
         /\ \A n \in Len(file) + 1 .. Len(Stream) : n - Len(file) \in 1 .. Len(buf) /\ Stream[n] = buf[n - Len(file)]
  BY Bytewise DEF Typed, Stream

(* A quiet step keeps the invariant: the file grew by bytes that were in   *)
(* order in the stream before, or was cut off behind what is durable.      *)
LEMMA QuietKeeps ==
  ASSUME IInv, Quiet
  PROVE  IInv'
<1>1. /\ Typed /\ Good(file) /\ Good(buf) /\ Pending /\ AckedJoined /\ AckedEnds /\ DurableEnds /\ Undamaged
  BY DEF IInv
<1>2. /\ Stream \in Seq(Bytes) /\ Len(Stream) = Len(file) + Len(buf)
      /\ Len(file) \in Nat /\ Len(buf) \in Nat /\ Len(Stream) \in Nat
      /\ \A n \in 1 .. Len(file) : Stream[n] = file[n]
      /\ \A n \in Len(file) + 1 .. Len(Stream) : n - Len(file) \in 1 .. Len(buf) /\ Stream[n] = buf[n - Len(file)]
  BY <1>1, StreamBytes
<1>3. /\ block_offset' = block_offset /\ records' = records /\ left' = left /\ begin' = begin
      /\ acked' = acked
      /\ file' \in Seq(Bytes) /\ buf' \in {buf, <<>>} /\ Len(file') \in Nat
      /\ Len(file') <= Len(Stream) /\ \A n \in 1 .. Len(file') : file'[n] = Stream[n]
  BY LenProperties DEF Quiet
<1>4. Typed'
  <2>1. buf' \in Seq(Bytes) /\ Len(buf') <= BufferSize
    <3>1. buf \in Seq(Bytes) /\ Len(buf) <= BufferSize
      BY <1>1 DEF Typed, TypeOK
    <3>2. <<>> \in Seq(Bytes) /\ Len(<<>>) <= BufferSize
      BY EmptySeq, Sizes
    <3>. QED  BY <1>3, <3>1, <3>2
  <2>2. synced' \in 0 .. Len(file')
    BY <1>1, <1>2, <1>3 DEF Quiet, Typed, TypeOK
  <2>3. durable' \subseteq acked' /\ acked' \subseteq 1 .. Len(records')
    BY <1>1, <1>3 DEF Quiet, Typed, TypeOK
  <2>4. /\ failures' \in 0 .. MaxFailures /\ damaged' \in BOOLEAN /\ life' \in {"up", "exited", "powerless"}
    BY <1>1 DEF Quiet, Typed, TypeOK, Up
  <2>5. /\ block_offset' \in 0 .. BlockSize /\ records' \in Seq(Lengths) /\ left' \in Nat
        /\ begin' \in BOOLEAN
        /\ (Writing => records # <<>> /\ left <= records[Len(records)])'
    BY <1>1, <1>3 DEF Typed, TypeOK, Writing
  <2>. QED  BY <1>3, <2>1, <2>2, <2>3, <2>4, <2>5 DEF Typed, TypeOK
<1>5. \A g : GoodFragment(g) => GoodFragment(g)'
  BY <1>3 DEF GoodFragment
<1>6. Good(buf)'
  <2>1. CASE buf' = buf
    BY <1>1, <1>5, <2>1 DEF Good
  <2>2. CASE buf' = <<>>
    BY <2>2, EmptySeq DEF Good
  <2>. QED  BY <1>3, <2>1, <2>2
<1>7. ASSUME NEW n \in 1 .. Len(file'), n > Len(file)
      PROVE  n - Len(file) \in 1 .. Len(buf) /\ file'[n] = buf[n - Len(file)]
  BY <1>2, <1>3, <1>7
<1>8. ASSUME NEW n \in 1 .. Len(file'), n <= Len(file)
      PROVE  file'[n] = file[n]
  BY <1>2, <1>3, <1>8
<1>9. Good(file)'
  <2>1. SUFFICES ASSUME NEW n \in 1 .. Len(file'), file'[n] # Zero
                 PROVE  (GoodFragment(file[n][1]) /\ file[n][2] \in 1 .. Size(file[n][1]))'
    BY DEF Good
  <2>2. CASE n <= Len(file)
    <3>1. n \in 1 .. Len(file) /\ file'[n] = file[n]
      BY <1>2, <1>8, <2>2
    <3>. QED  BY <1>1, <1>3, <2>1, <3>1 DEF Good, GoodFragment, Size
  <2>3. CASE n > Len(file)
    <3>1. n - Len(file) \in 1 .. Len(buf) /\ file'[n] = buf[n - Len(file)]
      BY <1>7, <2>3
    <3>. QED  BY <1>1, <1>3, <2>1, <3>1 DEF Good, GoodFragment, Size
  <2>. QED  BY <1>2, <2>2, <2>3
<1>10. Pending'
  <2>1. ~Up' => buf' = <<>>
    BY DEF Quiet
  <2>2. CASE buf' = buf
    BY <1>1, <1>3, <2>1, <2>2 DEF Pending
  <2>3. CASE buf' = <<>>
    BY <2>1, <2>3, EmptySeq DEF Pending
  <2>. QED  BY <1>3, <2>2, <2>3
<1>11. AckedJoined'
  <2>1. SUFFICES ASSUME NEW n \in 0 .. Len(file') - 1, Begins(file', n + 1),
          file'[n + 1][1].record \in (acked \cup Current)'
                 PROVE  Joined(file', n, file'[n + 1][1])
    BY DEF AckedJoined
  <2>2. file'[n + 1][1].record \in acked \cup Current
    BY <1>3, <2>1 DEF Quiet, Current, Writing
  <2>3. CASE n + 1 <= Len(file)
    <3>1. /\ n \in 0 .. Len(file) - 1 /\ n \in Nat /\ file'[n + 1] = file[n + 1]
          /\ \A i \in 1 .. n : file'[i] = file[i]
      BY <1>2, <1>3, <1>8, <2>3
    <3>2. Joined(file, n, file[n + 1][1])
      BY <1>1, <2>1, <2>2, <3>1 DEF AckedJoined, Begins
    <3>. QED  BY <3>1, <3>2, JoinedAgree
  <2>4. CASE n + 1 > Len(file)
    <3>1. n + 1 \in 1 .. Len(file') /\ Len(file') > Len(file)
      BY <1>2, <1>3, <2>4
    <3>2. Current = {}
      BY <3>1 DEF Quiet, Current
    <3>3. (n + 1) - Len(file) \in 1 .. Len(buf) /\ file'[n + 1] = buf[(n + 1) - Len(file)]
      BY <1>7, <2>4, <3>1
    <3>4. file'[n + 1] # Zero
      BY <2>1 DEF Begins
    <3>. QED  BY <1>1, <2>2, <3>2, <3>3, <3>4 DEF Pending
  <2>. QED  BY <1>2, <2>3, <2>4
<1>12. AckedEnds'
  <2>1. SUFFICES ASSUME life' # "powerless", NEW r \in acked PROVE EndsIn(r, Len(file))'
    BY <1>3 DEF AckedEnds
  <2>2. life # "powerless"
    BY <2>1 DEF Quiet, Up
  <2>3. Len(file) <= Len(file') /\ \A n \in 1 .. Len(file) : file'[n] = file[n]
    <3>1. Len(file) <= Len(file')
      BY <2>1 DEF Quiet
    <3>. QED  BY <1>2, <1>3, <1>8, <3>1
  <2>4. EndsIn(r, Len(file))
    BY <1>1, <2>1, <2>2 DEF AckedEnds
  <2>5. \A q \in Nat : Len(file) <= q => EndsIn(r, q)'
    BY <1>2, <2>3, <2>4, EndsInAgree
  <2>. QED  BY <1>3, <2>3, <2>5 DEF EndsIn
<1>13. DurableEnds'
  <2>1. CASE durable' = durable
    <3>1. PICK p \in 0 .. synced : Sound(file, p) /\ \A r \in durable : EndsIn(r, p)
      BY <1>1 DEF DurableEnds
    <3>2. /\ p \in Nat /\ p \in 0 .. synced' /\ p <= Len(file') /\ p <= Len(file)
      BY <1>1, <1>2, <1>3 DEF Quiet, Typed, TypeOK
    <3>3. \A n \in 1 .. p : file'[n] = file[n]
      BY <1>2, <1>3, <1>8, <3>2
    <3>4. Sound(file', p)
      BY <3>1, <3>2, <3>3, SoundAgree
    <3>5. \A r \in durable : EndsIn(r, p)'
      BY <3>1, <3>2, <3>3, EndsInAgree
    <3>. QED  BY <2>1, <3>2, <3>4, <3>5 DEF DurableEnds
  <2>2. CASE durable' = acked /\ ~damaged /\ Up /\ synced' = Len(file') /\ file' = Stream
    <3>1. Sound(file', Len(file'))
      BY <1>1, <2>2 DEF Undamaged
    <3>2. Len(file) <= Len(file') /\ \A n \in 1 .. Len(file) : file'[n] = file[n]
      BY <1>2, <1>3, <2>2
    <3>3. \A r \in acked : EndsIn(r, Len(file))
      BY <1>1, <2>2 DEF AckedEnds, Up
    <3>4. \A r \in acked : \A q \in Nat : Len(file) <= q => EndsIn(r, q)'
      BY <1>2, <3>2, <3>3, EndsInAgree
    <3>5. Len(file') \in 0 .. synced'
      BY <1>3, <2>2
    <3>6. ASSUME NEW r \in acked PROVE EndsIn(r, Len(file))'
      <4>1. \A q \in Nat : Len(file) <= q => EndsIn(r, q)'
        BY <3>4
      <4>. QED  BY <1>3, <3>2, <4>1 DEF EndsIn
    <3>. QED  BY <2>2, <3>1, <3>5, <3>6 DEF DurableEnds
  <2>. QED  BY <2>1, <2>2 DEF Quiet
<1>14. Undamaged'
  <2>1. SUFFICES ASSUME ~damaged'
                 PROVE  /\ Sound(Stream', Len(Stream')) /\ Ordered(Stream')
                        /\ Up' => EndOf(Stream', Len(Stream')) /\ Off(Len(Stream')) = Off(block_offset')
    BY DEF Undamaged
  <2>2. ~damaged
    BY <2>1 DEF Quiet
  <2>3. CASE Up'
    <3>1. Up /\ Stream' = Stream
      BY <2>1, <2>3 DEF Quiet, Stream
    <3>. QED  BY <1>1, <1>3, <2>2, <3>1 DEF Undamaged
  <2>4. CASE ~Up'
    <3>1. Stream' = file'
      BY <1>3, <2>4, ConcatEmptySeq DEF Quiet, Stream
    <3>2. Len(file') \in 0 .. Len(Stream)
      BY <1>2, <1>3
    <3>3. Sound(Stream, Len(Stream)) /\ Ordered(Stream)
      BY <1>1, <2>2 DEF Undamaged
    <3>4. Sound(file', Len(file'))
      BY <1>2, <1>3, <3>2, <3>3, SoundAgree
    <3>5. Ordered(file')
      BY <1>2, <1>3, <3>3, OrderedAgree
    <3>. QED  BY <2>4, <3>1, <3>4, <3>5
  <2>. QED  BY <2>3, <2>4
<1>15. InRecord'
  BY <1>3 DEF Quiet, InRecord, Writing
<1>. QED  BY <1>4, <1>6, <1>9, <1>10, <1>11, <1>12, <1>13, <1>14, <1>15 DEF IInv

-----------------------------------------------------------------------------
(* Sync, the ends of a process, and a new record.                          *)

(* Sync moves the buffer to the file and nothing else, unless it damages   *)
(* the log.                                                                *)
LEMMA SyncIsQuiet ==
  ASSUME IInv, NEW room \in Nat, Sync(room)
  PROVE  Quiet
<1>. DEFINE f == FlushBuffer(Storage(room))
<1>1. Typed /\ TypeOK /\ file \in Seq(Bytes) /\ buf \in Seq(Bytes)
  BY DEF IInv, Typed
<1>2. /\ f.file \in Seq(Bytes) /\ f.buf \in Seq(Bytes) /\ Len(f.buf) <= BufferSize
      /\ Len(file) <= Len(f.file) /\ Len(f.file) <= Len(Stream)
      /\ \A n \in 1 .. Len(f.file) : f.file[n] = Stream[n]
      /\ f.ok => f.buf = <<>> /\ f.file = Stream
      /\ ~f.ok => f.buf = buf
      /\ Len(f.file) = Len(file) => f.file = file
  BY <1>1, Flushed
<1>3. /\ Up /\ ~Writing /\ file' = f.file /\ buf' = f.buf
      /\ \/ /\ f.ok /\ synced' = Len(f.file)
            /\ durable' = IF damaged THEN durable ELSE acked
            /\ UNCHANGED <<failures, damaged>>
         \/ /\ failures < MaxFailures /\ failures' = failures + 1
            /\ damaged' = (damaged \/ (~f.ok /\ Len(f.file) > Len(file)))
            /\ UNCHANGED <<synced, durable>>
      /\ UNCHANGED <<block_offset, records, left, begin, acked, life>>
  BY DEF Sync, Storage
<1>. HIDE DEF f
<1>4. Len(file) \in Nat /\ Len(f.file) \in Nat /\ MaxFailures \in Nat
  BY <1>1, <1>2, LenProperties, LogAssumption
<1>5. /\ file' \in Seq(Bytes) /\ buf' \in {buf, <<>>}
      /\ Len(file') <= Len(Stream) /\ \A n \in 1 .. Len(file') : file'[n] = Stream[n]
      /\ Len(file) <= Len(file')
  BY <1>2, <1>3
<1>6. synced' \in synced .. Len(file')
  BY <1>1, <1>2, <1>3, <1>4 DEF TypeOK
<1>7. \/ durable' = durable
      \/ durable' = acked /\ ~damaged /\ synced' = Len(file') /\ file' = Stream
  BY <1>2, <1>3
<1>8. failures' \in 0 .. MaxFailures /\ damaged' \in BOOLEAN /\ (damaged => damaged')
  <2>1. failures' \in 0 .. MaxFailures
    BY <1>1, <1>3, <1>4 DEF TypeOK
  <2>2. damaged \in BOOLEAN
    BY <1>1 DEF TypeOK
  <2>3. damaged' = damaged \/ damaged' = (damaged \/ (~f.ok /\ Len(f.file) > Len(file)))
    BY <1>3
  <2>. QED  BY <2>1, <2>2, <2>3, Zenon
<1>9. Up' /\ ~Writing /\ (~damaged' => file' \o buf' = Stream)
  <2>1. Up' /\ ~Writing
    BY <1>3 DEF Up
  <2>2. ASSUME ~damaged' PROVE file' \o buf' = Stream
    <3>1. CASE f.ok
      <4>1. f.file \o <<>> = f.file
        BY <1>2, ConcatEmptySeq
      <4>. QED  BY <1>2, <1>3, <3>1, <4>1
    <3>2. CASE ~f.ok
      <4>1. ~(Len(f.file) > Len(file))
        BY <1>3, <2>2, <3>2
      <4>2. file' = file /\ buf' = buf
        BY <1>2, <1>3, <1>4, <3>2, <4>1
      <4>. QED  BY <4>2 DEF Stream
    <3>. QED  BY <3>1, <3>2
  <2>. QED  BY <2>1, <2>2
<1>. QED  BY <1>3, <1>5, <1>6, <1>7, <1>8, <1>9 DEF Quiet

(* The end of a process is quiet if it leaves the beginning of the stream, *)
(* and all of it that was durable.                                         *)
LEMMA StopIsQuiet ==
  ASSUME IInv, NEW why \in {"exited", "powerless"}, Stop(why), file' \in Seq(Bytes),
         Len(file') <= Len(Stream), \A n \in 1 .. Len(file') : file'[n] = Stream[n],
         Len(file') > Len(file) => ~Writing, why = "powerless" \/ Len(file) <= Len(file'),
         synced <= Len(file')
  PROVE  Quiet
<1>1. TypeOK
  BY DEF IInv, Typed
<1>2. /\ Up /\ life' = why /\ buf' = <<>>
      /\ UNCHANGED <<synced, block_offset, records, left, begin, acked, durable, failures, damaged>>
  BY DEF Stop
<1>3. synced' \in synced .. Len(file')
  BY <1>1, <1>2, LenProperties DEF TypeOK
<1>4. failures' \in 0 .. MaxFailures /\ damaged' \in BOOLEAN /\ (damaged => damaged')
  BY <1>1, <1>2 DEF TypeOK
<1>5. ~Up' /\ life' \in {"exited", "powerless"} /\ buf' \in {buf, <<>>}
  BY <1>2 DEF Up
<1>. QED  BY <1>2, <1>3, <1>4, <1>5 DEF Quiet

(* Close moves a part of the buffer to the file.                           *)
LEMMA CloseIsQuiet ==
  ASSUME IInv, NEW room \in Nat, Close(room)
  PROVE  Quiet
<1>. DEFINE f == FlushBuffer(Storage(room))
<1>1. Typed /\ synced <= Len(file) /\ synced \in Nat
  BY DEF IInv, Typed, TypeOK
<1>2. /\ f.file \in Seq(Bytes)
      /\ Len(file) <= Len(f.file) /\ Len(f.file) <= Len(Stream)
      /\ \A n \in 1 .. Len(f.file) : f.file[n] = Stream[n]
  BY <1>1, Flushed
<1>3. ~Writing /\ Stop("exited") /\ file' = f.file
  BY DEF Close, Storage
<1>. HIDE DEF f
<1>4. Len(f.file) \in Nat /\ Len(file) \in Nat
  BY <1>1, <1>2, LenProperties DEF Typed
<1>5. synced <= Len(file')
  BY <1>1, <1>2, <1>3, <1>4
<1>. QED  BY <1>2, <1>3, <1>4, <1>5, StopIsQuiet

(* A kill leaves the file as it is.                                        *)
LEMMA KillIsQuiet ==
  ASSUME IInv, Kill
  PROVE  Quiet
<1>1. Typed /\ synced <= Len(file)
  BY DEF IInv, Typed, TypeOK
<1>2. /\ Len(Stream) = Len(file) + Len(buf) /\ Len(file) \in Nat /\ Len(buf) \in Nat
      /\ \A n \in 1 .. Len(file) : Stream[n] = file[n]
  BY <1>1, StreamBytes
<1>3. Stop("exited") /\ file' = file /\ file \in Seq(Bytes)
  BY <1>1 DEF Kill, Typed
<1>. QED  BY <1>1, <1>2, <1>3, StopIsQuiet

(* A power failure leaves the beginning of the file, with what was synced. *)
LEMMA PowerFailureIsQuiet ==
  ASSUME IInv, PowerFailure
  PROVE  Quiet
<1>1. Typed /\ file \in Seq(Bytes) /\ synced \in 0 .. Len(file)
  BY DEF IInv, Typed, TypeOK
<1>2. /\ Len(Stream) = Len(file) + Len(buf) /\ Len(file) \in Nat /\ Len(buf) \in Nat
      /\ \A n \in 1 .. Len(file) : Stream[n] = file[n]
  BY <1>1, StreamBytes
<1>3. PICK n \in synced .. Len(file) : file' = SubSeq(file, 1, n)
  BY DEF PowerFailure
<1>4. n \in 0 .. Len(file)
  BY <1>1, <1>2, <1>3
<1>5. SubSeq(file, 1, n) \in Seq(Bytes) /\ Len(SubSeq(file, 1, n)) = n
  BY <1>1, <1>2, <1>4, Part
<1>6. \A i \in 1 .. n : SubSeq(file, 1, n)[i] = file[i]
  BY <1>1, <1>2, <1>4, <1>5, SubSeqProperties, ElementOfSeq
<1>7. /\ file' \in Seq(Bytes) /\ Len(file') = n /\ Len(file') <= Len(Stream) /\ ~(Len(file') > Len(file))
      /\ \A i \in 1 .. Len(file') : file'[i] = Stream[i]
  BY <1>2, <1>3, <1>4, <1>5, <1>6
<1>8. Stop("powerless") /\ synced <= Len(file')
  BY <1>1, <1>2, <1>3, <1>7 DEF PowerFailure
<1>. QED  BY <1>7, <1>8, StopIsQuiet

(* A new record: no byte of the log is of it yet.                          *)
LEMMA AddRecordKeeps ==
  ASSUME IInv, NEW length \in Lengths, AddRecord(length)
  PROVE  IInv'
<1>1. /\ Typed /\ Good(file) /\ Good(buf) /\ Pending /\ AckedJoined /\ AckedEnds /\ DurableEnds /\ Undamaged
      /\ TypeOK
  BY DEF IInv, Typed
<1>2. /\ Up /\ ~Writing
      /\ records' = Append(records, length) /\ left' = length /\ begin' = TRUE
      /\ file' = file /\ synced' = synced /\ buf' = buf /\ block_offset' = block_offset /\ acked' = acked
      /\ durable' = durable /\ failures' = failures /\ damaged' = damaged /\ life' = life
  BY DEF AddRecord
<1>3. length \in Nat \ {0}
  <2>1. Lengths \subseteq Nat \ {0}
    BY LogAssumption
  <2>. QED  BY <2>1
<1>4. /\ records \in Seq(Lengths) /\ records' \in Seq(Lengths) /\ Len(records') = Len(records) + 1
      /\ Len(records) \in Nat /\ records'[Len(records) + 1] = length
      /\ \A r \in 1 .. Len(records) : records'[r] = records[r]
  BY <1>1, <1>2, AppendProperties, LenProperties DEF TypeOK
<1>5. Typed'
  <2>1. acked' \subseteq 1 .. Len(records')
    BY <1>1, <1>2, <1>4 DEF TypeOK
  <2>2. (Writing => records # <<>> /\ left <= records[Len(records)])'
    BY <1>2, <1>3, <1>4, EmptySeq
  <2>3. left' \in Nat /\ begin' \in BOOLEAN /\ records' \in Seq(Lengths)
    BY <1>2, <1>3, <1>4
  <2>. QED  BY <1>1, <1>2, <2>1, <2>2, <2>3 DEF Typed, TypeOK
<1>6. \A g : GoodFragment(g) => GoodFragment(g)'
  BY <1>2, <1>4 DEF GoodFragment
<1>7. Good(file)' /\ Good(buf)'
  <2>1. ASSUME NEW s, Good(s) PROVE Good(s)'
    BY <1>6, <2>1 DEF Good
  <2>. QED  BY <1>1, <1>2, <2>1 DEF Good
<1>8. Pending' /\ AckedEnds' /\ DurableEnds'
  BY <1>1, <1>2 DEF Pending, Up, AckedEnds, DurableEnds, EndsIn
<1>9. ASSUME NEW s \in Seq(Bytes), Good(s), NEW n \in 1 .. Len(s), s[n] # Zero
      PROVE  s[n][1].record # Len(records')
  BY <1>4, <1>9 DEF Good, GoodFragment
<1>10. AckedJoined'
  <2>1. SUFFICES ASSUME NEW n \in 0 .. Len(file) - 1, Begins(file, n + 1),
          file[n + 1][1].record \in (acked \cup Current)'
                 PROVE  Joined(file, n, file[n + 1][1])
    BY <1>2 DEF AckedJoined
  <2>2. file[n + 1] # Zero /\ n + 1 \in 1 .. Len(file) /\ file \in Seq(Bytes)
    BY <1>1, <2>1, LenProperties DEF Begins, Typed
  <2>3. file[n + 1][1].record # Len(records')
    BY <1>1, <1>9, <2>2
  <2>4. file[n + 1][1].record \in acked
    BY <1>2, <2>1, <2>3 DEF Current
  <2>. QED  BY <1>1, <2>1, <2>4 DEF AckedJoined
<1>11. Undamaged'
  BY <1>1, <1>2 DEF Undamaged, Stream, Up
<1>12. InRecord'
  <2>1. records'[Len(records')] = length
    BY <1>4
  <2>2. left' \in 1 .. records'[Len(records')] /\ left' = records'[Len(records')]
    BY <1>2, <1>3, <2>1
  <2>3. Len(records') \notin acked'
    BY <1>1, <1>2, <1>4 DEF TypeOK
  <2>4. /\ \A n \in 1 .. Len(file') : file'[n] # Zero => file'[n][1].record # Len(records')
        /\ \A n \in 1 .. Len(buf') : buf'[n] # Zero => buf'[n][1].record # Len(records')
    BY <1>1, <1>2, <1>9 DEF Typed
  <2>. QED  BY <1>2, <2>2, <2>3, <2>4 DEF InRecord
<1>. QED  BY <1>5, <1>7, <1>8, <1>10, <1>11, <1>12 DEF IInv

-----------------------------------------------------------------------------
(* What an emission writes.                                                *)

(* What an emission moves is in order: of no acknowledged record, and of   *)
(* the current one only as the newest fragment, when that is its first.    *)
LEMMA MovedGood ==
  ASSUME IInv, Up, Writing, NEW b \in Moved, b # Zero
  PROVE  /\ GoodFragment(b[1]) /\ b[2] \in 1 .. Size(b[1]) /\ b[1].record \notin acked
         /\ b[1].record = Len(records) => b[1] = Newest
<1>1. Typed /\ InRecord /\ Good(buf) /\ Pending
  BY DEF IInv
<1>2. /\ Newest \in Fragments /\ GoodFragment(Newest) /\ Newest.record = Len(records)
  BY <1>1, NewestFits
<1>3. Len(records) \notin acked
  BY <1>1 DEF InRecord
<1>4. CASE \E n \in 1 .. Len(buf) : b = buf[n]
  <2>1. PICK n \in 1 .. Len(buf) : b = buf[n]
    BY <1>4
  <2>2. GoodFragment(b[1]) /\ b[2] \in 1 .. Size(b[1]) /\ b[1].record \notin acked
    BY <1>1, <2>1 DEF Good, Pending
  <2>3. begin
    <3>1. ~begin => buf = <<>>
      BY <1>1 DEF InRecord
    <3>. QED  BY <2>1, <3>1, EmptySeq
  <2>4. b[1].record # Len(records)
    BY <1>1, <2>1, <2>3 DEF InRecord
  <2>. QED  BY <2>2, <2>4
<1>5. CASE b \in Fresh
  <2>1. PICK i \in 1 .. Size(Newest) : b = <<Newest, i>>
    BY <1>5 DEF Fresh
  <2>2. b[1] = Newest /\ b[2] = i
    BY <2>1
  <2>. QED  BY <1>2, <1>3, <2>2
<1>. QED  BY <1>4, <1>5 DEF Moved

(* While nothing is damaged, the log is laid out after the emission as it  *)
(* was before.                                                             *)
LEMMA TargetSound ==
  ASSUME IInv, Up, Writing, ~damaged
  PROVE  /\ Sound(Target, Len(Target)) /\ Ordered(Target) /\ EndOf(Target, Len(Target))
         /\ Off(Len(Target)) = Off(Start + Size(Newest))
<1>1. Typed /\ InRecord /\ Good(file) /\ Good(buf)
  BY DEF IInv
<1>2. /\ Sound(Stream, Len(Stream)) /\ Ordered(Stream)
      /\ EndOf(Stream, Len(Stream)) /\ Off(Len(Stream)) = Off(block_offset)
  BY DEF IInv, Undamaged
<1>3. /\ Stream \in Seq(Bytes) /\ Target \in Seq(Bytes) /\ Grows(Stream, Zeros, Newest, Target)
      /\ Len(Stream) = Len(file) + Len(buf)
  BY <1>1, TargetGrows
<1>4. /\ Newest \in Fragments /\ GoodFragment(Newest) /\ Newest.record = Len(records)
      /\ Newest.offset = records[Len(records)] - left
      /\ Zeros \in Nat /\ Start \in Nat /\ Start + Size(Newest) <= BlockSize
      /\ Zeros # 0 => block_offset + HeaderSize > BlockSize /\ block_offset + Zeros = BlockSize
      /\ Zeros = 0 => (Start = block_offset \/ (Start = 0 /\ block_offset = BlockSize))
      /\ Zeros # 0 => Start = 0
      /\ Start + HeaderSize <= BlockSize
      /\ ~begin => Zeros = 0 /\ Start = 0
      /\ Newest.type \in {"middle", "last"} <=> ~begin
  BY <1>1, NewestFits
<1>5. block_offset \in 0 .. BlockSize /\ Len(Stream) \in Nat /\ Size(Newest) \in Nat
      /\ Size(Newest) >= HeaderSize
  BY <1>1, <1>3, <1>4, LenProperties, FragmentParts DEF Typed, TypeOK
<1>. HIDE DEF Zeros, Start, Newest, Stream, Target
<1>6. /\ Off(BlockSize) = 0 /\ \A k \in 0 .. BlockSize - 1 : Off(k) = k
  <2>1. Off(0) = 0 /\ 0 \in Nat /\ Off(0) + BlockSize = BlockSize /\ BlockSize \in Nat
    BY Offsets, Sizes
  <2>2. Off(0 + BlockSize) = 0 /\ 0 + BlockSize = BlockSize
    BY <2>1, Offsets
  <2>3. ASSUME NEW k \in 0 .. BlockSize - 1 PROVE Off(k) = k
    <3>1. k \in Nat /\ Off(0) + k < BlockSize /\ 0 + k = k
      BY <2>1
    <3>. QED  BY <2>1, <3>1, Offsets
  <2>. QED  BY <2>2, <2>3
<1>7. Off(Len(Stream) + Zeros) = Start
  <2>1. CASE Zeros = 0
    <3>1. Off(block_offset) = Start
      BY <1>4, <1>5, <1>6, <2>1, Sizes
    <3>. QED  BY <1>2, <1>5, <2>1, <3>1
  <2>2. CASE Zeros # 0
    <3>1. CASE block_offset < BlockSize
      <4>1. Off(Len(Stream)) + Zeros = BlockSize
        BY <1>2, <1>4, <1>5, <1>6, <2>2, <3>1
      <4>. QED  BY <1>4, <1>5, <2>2, <4>1, Offsets
    <3>2. CASE block_offset = BlockSize
      BY <1>4, <2>2, <3>2, Sizes
    <3>. QED  BY <1>5, <3>1, <3>2, Sizes
  <2>. QED  BY <2>1, <2>2
<1>8. Zeros = 0 => ~InTrailer(Len(Stream))
  <2>1. SUFFICES ASSUME Zeros = 0 PROVE ~InTrailer(Len(Stream))
    OBVIOUS
  <2>2. Off(Len(Stream)) = Start
    BY <1>5, <1>7, <2>1
  <2>. QED  BY <1>4, <2>2, Sizes DEF InTrailer
<1>9. Zeros # 0 => InTrailer(Len(Stream)) /\ Off(Len(Stream)) + Zeros = BlockSize
  <2>1. SUFFICES ASSUME Zeros # 0 PROVE InTrailer(Len(Stream)) /\ Off(Len(Stream)) + Zeros = BlockSize
    OBVIOUS
  <2>2. block_offset < BlockSize
    BY <1>4, <1>5, <2>1, Sizes
  <2>3. Off(Len(Stream)) = block_offset
    <3>1. block_offset \in 0 .. BlockSize - 1
      BY <1>5, <2>2, Sizes
    <3>. QED  BY <1>2, <1>6, <3>1
  <2>. QED  BY <1>4, <2>1, <2>3 DEF InTrailer
<1>10. Newest.type \in {"middle", "last"} => Zeros = 0 /\ Joined(Stream, Len(Stream), Newest)
  <2>1. SUFFICES ASSUME Newest.type \in {"middle", "last"}
                 PROVE  Zeros = 0 /\ Joined(Stream, Len(Stream), Newest)
    OBVIOUS
  <2>2. ~begin
    BY <1>4, <2>1
  <2>3. /\ buf = <<>>
        /\ \E h \in Fragments : /\ EndsAt(file, Len(file), h) /\ h.record = Len(records)
                                /\ ~Final(h) /\ h.offset + h.length = records[Len(records)] - left
    BY <1>1, <2>2 DEF InRecord
  <2>4. Stream = file
    BY <1>1, <2>3, ConcatEmptySeq DEF Stream, Typed
  <2>. QED  BY <1>4, <2>2, <2>3, <2>4 DEF Joined, Precedes
<1>11. Sound(Target, Len(Target)) /\ EndOf(Target, Len(Target))
  BY <1>2, <1>3, <1>4, <1>7, <1>8, <1>9, <1>10, SoundGrows
<1>12. ASSUME NEW n \in 1 .. Len(Stream), Stream[n] # Zero
       PROVE  Stream[n][1].record <= Newest.record
              /\ (Stream[n][1].record = Newest.record => ~Final(Stream[n][1]))
  <2>1. CASE n <= Len(file)
    <3>1. n \in 1 .. Len(file) /\ Stream[n] = file[n]
      BY <1>1, <1>5, <2>1, StreamBytes
    <3>2. file[n][1].record \in 1 .. Len(records)
      BY <1>1, <1>12, <3>1 DEF Good, GoodFragment
    <3>3. file[n][1].record = Len(records) => ~begin /\ ~Final(file[n][1])
      BY <1>1, <1>12, <3>1 DEF InRecord
    <3>. QED  BY <1>4, <3>1, <3>2, <3>3
  <2>2. CASE n > Len(file)
    <3>1. n - Len(file) \in 1 .. Len(buf) /\ Stream[n] = buf[n - Len(file)]
      BY <1>1, <1>5, <2>2, StreamBytes
    <3>. DEFINE k == n - Len(file)
    <3>2. k \in 1 .. Len(buf) /\ buf[k] # Zero /\ Stream[n] = buf[k]
      BY <1>12, <3>1
    <3>. HIDE DEF k
    <3>3. buf[k][1].record \in 1 .. Len(records)
      BY <1>1, <3>2 DEF Good, GoodFragment
    <3>4. ~begin => buf = <<>>
      BY <1>1 DEF InRecord
    <3>5. begin
      BY <3>2, <3>4, EmptySeq
    <3>6. buf[k][1].record # Len(records)
      BY <1>1, <3>2, <3>5 DEF InRecord
    <3>. QED  BY <1>4, <3>2, <3>3, <3>6
  <2>. QED  BY <1>1, <1>5, <2>1, <2>2, StreamBytes
<1>13. Ordered(Target)
  BY <1>2, <1>3, <1>4, <1>12, OrderGrows
<1>14. Off(Len(Target)) = Off(Start + Size(Newest))
  <2>1. Len(Target) = Len(Stream) + Zeros + Size(Newest)
    BY <1>3 DEF Grows
  <2>. DEFINE m == Len(Stream) + Zeros
  <2>2. m \in Nat /\ Off(m) = Start /\ Len(Target) = m + Size(Newest)
    BY <1>4, <1>5, <1>7, <2>1
  <2>. HIDE DEF m
  <2>3. CASE Start + Size(Newest) < BlockSize
    <3>1. Off(m + Size(Newest)) = Start + Size(Newest)
      BY <1>5, <2>2, <2>3, Offsets
    <3>2. Off(Start + Size(Newest)) = Start + Size(Newest)
      BY <1>4, <1>5, <1>6, <2>3, Sizes
    <3>. QED  BY <2>2, <3>1, <3>2
  <2>4. CASE Start + Size(Newest) = BlockSize
    <3>1. Off(m + Size(Newest)) = 0
      BY <1>5, <2>2, <2>4, Offsets
    <3>. QED  BY <1>6, <2>2, <2>4, <3>1
  <2>. QED  BY <1>4, <1>5, <2>3, <2>4, Sizes
<1>. QED  BY <1>11, <1>13, <1>14

-----------------------------------------------------------------------------
(* An emission keeps the invariant; so does every step.                    *)

(* An emission keeps the invariant, whether it wrote all of its bytes,     *)
(* some of them or none.                                                   *)
LEMMA EmitKeeps ==
  ASSUME IInv, NEW room \in Nat, EmitFragment(room)
  PROVE  IInv'
<1>1. /\ Typed /\ InRecord /\ Good(file) /\ Good(buf) /\ Pending /\ AckedJoined /\ AckedEnds /\ DurableEnds
      /\ Undamaged /\ TypeOK /\ file \in Seq(Bytes) /\ buf \in Seq(Bytes) /\ damaged \in BOOLEAN
      /\ Len(file) \in Nat
  BY LenProperties DEF IInv, Typed, TypeOK
<1>. DEFINE L == Len(records)
            Done == /\ file' = Target /\ buf' = <<>> /\ block_offset' = Start + Size(Newest)
                    /\ left' = left - NewLength
                    /\ acked' = IF left = NewLength THEN acked \cup {L} ELSE acked
                    /\ failures' = failures /\ damaged' = damaged
            Failed == /\ left' = 0 /\ acked' = acked /\ failures < MaxFailures /\ failures' = failures + 1
                      /\ block_offset' \in {block_offset, Start + Size(Newest)}
                      /\ damaged \in BOOLEAN => damaged' \in BOOLEAN
                      /\ ~damaged' => /\ ~damaged /\ file' \o buf' = Target
                                      /\ block_offset' = Start + Size(Newest)
<1>2. /\ Up /\ Writing /\ begin' = FALSE
      /\ synced' = synced /\ durable' = durable /\ records' = records /\ life' = life
      /\ file' \in Seq(Bytes) /\ buf' \in Seq(Moved) /\ Len(buf') <= BufferSize
      /\ \E u \in Seq(Moved) : file' = file \o u
      /\ Done \/ Failed
  BY <1>1, EmitStep
<1>. HIDE DEF Done, Failed
<1>3. /\ Newest \in Fragments /\ GoodFragment(Newest) /\ Newest.record = L
      /\ Newest.offset = records[L] - left /\ Newest.length = NewLength
      /\ NewLength \in 0 .. left /\ L \in Nat /\ records[L] \in Nat
      /\ Start \in Nat /\ Start + Size(Newest) <= BlockSize /\ Size(Newest) \in Nat
      /\ Size(Newest) >= HeaderSize
      /\ ~begin => Zeros = 0 /\ Start = 0 /\ NewLength > 0
      /\ left # NewLength => Start + Size(Newest) = BlockSize
      /\ Final(Newest) <=> left = NewLength
      /\ Newest.type \in {"middle", "last"} <=> ~begin
      /\ Zeros \in Nat
  BY <1>1, <1>2, NewestFits, FragmentParts
<1>4. /\ left \in 1 .. records[L] /\ L \notin acked
      /\ begin => /\ left = records[L]
                  /\ \A n \in 1 .. Len(file) : file[n] # Zero => file[n][1].record # L
                  /\ \A n \in 1 .. Len(buf) : buf[n] # Zero => buf[n][1].record # L
      /\ ~begin => /\ buf = <<>> /\ block_offset = BlockSize
                   /\ \A n \in 1 .. Len(file) : file[n] # Zero /\ file[n][1].record = L =>
                        /\ ~Final(file[n][1])
                        /\ file[n][1].offset + file[n][1].length <= records[L] - left
                   /\ \E h \in Fragments : /\ EndsAt(file, Len(file), h) /\ h.record = L
                                           /\ ~Final(h) /\ h.offset + h.length = records[L] - left
  BY <1>1, <1>2 DEF InRecord
<1>5. PICK u \in Seq(Moved) : file' = file \o u
  BY <1>2
<1>6. Moved \subseteq Bytes /\ u \in Seq(Bytes) /\ buf' \in Seq(Bytes) /\ Len(buf') \in Nat
  <2>1. Moved \subseteq Bytes
    BY <1>1, <1>2, MovedBytes
  <2>2. u \in Seq(Bytes)
    BY <2>1, <1>5, SeqMonotonic
  <2>3. buf' \in Seq(Bytes)
    BY <2>1, <1>2, SeqMonotonic
  <2>. QED  BY <2>1, <2>2, <2>3, LenProperties
<1>7. /\ Len(file') = Len(file) + Len(u) /\ Len(u) \in Nat /\ Len(file') \in Nat /\ Len(file) <= Len(file')
      /\ \A n \in 1 .. Len(file) : file'[n] = file[n] /\ n \in 1 .. Len(file')
  BY <1>1, <1>5, <1>6, Bytewise
<1>8. ASSUME NEW n \in 1 .. Len(file'), n > Len(file) PROVE file'[n] \in Moved
  <2>1. n - Len(file) \in 1 .. Len(u) /\ file'[n] = u[n - Len(file)]
    BY <1>1, <1>5, <1>6, <1>7, <1>8, Bytewise
  <2>. QED  BY <1>5, <2>1, ElementOfSeq
<1>9. ASSUME NEW b \in Moved, b # Zero
      PROVE  /\ GoodFragment(b[1]) /\ b[2] \in 1 .. Size(b[1]) /\ b[1].record \notin acked
             /\ b[1].record = L => b[1] = Newest
  BY <1>2, <1>9, MovedGood
<1>10. acked' \subseteq acked \cup {L}
  BY <1>2 DEF Done, Failed
<1>11. Typed'
  <2>1. synced' \in 0 .. Len(file')
    BY <1>1, <1>2, <1>7 DEF TypeOK
  <2>2. acked' \subseteq 1 .. Len(records') /\ durable' \subseteq acked'
    <3>1. acked \subseteq acked'
      BY <1>2 DEF Done, Failed
    <3>2. L \in 1 .. L
      BY <1>3 DEF GoodFragment
    <3>. QED  BY <1>1, <1>2, <1>10, <3>1, <3>2 DEF TypeOK
  <2>3. left' \in Nat /\ left' <= left /\ block_offset' \in 0 .. BlockSize
    <3>1. left \in Nat /\ block_offset \in 0 .. BlockSize
      BY <1>1 DEF TypeOK
    <3>2. CASE Done
      BY <1>3, <3>1, <3>2, Sizes DEF Done
    <3>3. CASE Failed
      <4>1. Start + Size(Newest) \in 0 .. BlockSize
        BY <1>3, Sizes
      <4>. QED  BY <3>1, <3>3, <4>1 DEF Failed
    <3>. QED  BY <1>2, <3>2, <3>3
  <2>4. failures' \in 0 .. MaxFailures /\ damaged' \in BOOLEAN
    <3>1. failures \in 0 .. MaxFailures /\ MaxFailures \in Nat
      BY <1>1, LogAssumption DEF TypeOK
    <3>2. CASE Done
      BY <1>1, <3>1, <3>2 DEF Done
    <3>3. CASE Failed
      BY <1>1, <3>1, <3>3 DEF Failed
    <3>. QED  BY <1>2, <3>2, <3>3
  <2>5. (Writing => records # <<>> /\ left <= records[Len(records)])'
    <3>1. records # <<>> /\ left <= records[L] /\ left \in Nat /\ records[L] \in Nat
      BY <1>1, <1>2, <1>3 DEF TypeOK
    <3>. QED  BY ONLY <1>2, <2>3, <3>1 DEF Writing, L
  <2>6. begin' \in BOOLEAN /\ records' \in Seq(Lengths) /\ life' \in {"up", "exited", "powerless"}
    BY <1>1, <1>2 DEF TypeOK
  <2>. QED  BY <1>2, <1>6, <2>1, <2>2, <2>3, <2>4, <2>5, <2>6 DEF Typed, TypeOK
<1>12. Good(file)'
  <2>1. SUFFICES ASSUME NEW n \in 1 .. Len(file'), file'[n] # Zero
                 PROVE  (GoodFragment(file[n][1]) /\ file[n][2] \in 1 .. Size(file[n][1]))'
    BY DEF Good
  <2>2. CASE n <= Len(file)
    <3>1. n \in 1 .. Len(file) /\ file'[n] = file[n]
      BY <1>1, <1>7, <2>2
    <3>. QED  BY <1>1, <1>2, <2>1, <3>1 DEF Good, GoodFragment, Size
  <2>3. CASE n > Len(file)
    <3>1. GoodFragment(file'[n][1]) /\ file'[n][2] \in 1 .. Size(file'[n][1])
      BY <1>8, <1>9, <2>1, <2>3
    <3>. QED  BY <1>2, <3>1 DEF GoodFragment, Size
  <2>. QED  BY <1>1, <2>2, <2>3
<1>13. ASSUME NEW n \in 1 .. Len(buf') PROVE buf'[n] \in Moved
  BY <1>2, <1>13, ElementOfSeq
<1>14. Good(buf)'
  <2>1. SUFFICES ASSUME NEW n \in 1 .. Len(buf'), buf'[n] # Zero
                 PROVE  (GoodFragment(buf[n][1]) /\ buf[n][2] \in 1 .. Size(buf[n][1]))'
    BY DEF Good
  <2>2. GoodFragment(buf'[n][1]) /\ buf'[n][2] \in 1 .. Size(buf'[n][1])
    BY <1>9, <1>13, <2>1
  <2>. QED  BY <1>2, <2>2 DEF GoodFragment, Size
<1>15. Pending'
  <2>1. Up'
    BY <1>2 DEF Up
  <2>2. CASE Done
    BY <2>1, <2>2, EmptySeq DEF Done, Pending
  <2>3. CASE Failed
    BY <1>9, <1>13, <2>1, <2>3 DEF Failed, Pending
  <2>. QED  BY <1>2, <2>2, <2>3
<1>16. /\ Stream \in Seq(Bytes) /\ Target \in Seq(Bytes) /\ Len(Stream) = Len(file) + Len(buf)
       /\ Len(buf) \in Nat
       /\ Len(Target) = Len(Stream) + Zeros + Size(Newest) /\ Len(Target) \in Nat
       /\ \A n \in 1 .. Len(Stream) : Target[n] = Stream[n]
       /\ \A n \in Len(Stream) + 1 .. Len(Stream) + Zeros : Target[n] = Zero
       /\ \A i \in 1 .. Size(Newest) : Target[Len(Stream) + Zeros + i] = <<Newest, i>>
  BY <1>1, <1>2, TargetGrows, LenProperties DEF Grows
<1>17. ASSUME Done, NEW n \in 1 .. Len(file'), n > Len(file), file'[n] # Zero, file'[n][1].record = L
       PROVE  file'[n][1] = Newest /\ (Begins(file', n) => n = Len(Stream) + Zeros + 1)
  <2>1. file'[n][1] = Newest
    BY <1>8, <1>9, <1>17
  <2>2. ASSUME Begins(file', n) PROVE n = Len(Stream) + Zeros + 1
    <3>1. Target[n] # Zero /\ Target[n][2] = 1 /\ Target[n][1].record = L
      BY <1>17, <2>2 DEF Begins, Done
    <3>2. n \in Len(file) + 1 .. Len(Stream) + Zeros + Size(Newest)
      BY <1>1, <1>16, <1>17 DEF Done
    <3>3. CASE n <= Len(Stream)
      <4>1. n - Len(file) \in 1 .. Len(buf) /\ Stream[n] = buf[n - Len(file)] /\ Target[n] = Stream[n]
        BY <1>1, <1>16, <3>2, <3>3, StreamBytes
      <4>. DEFINE k == n - Len(file)
      <4>2. k \in 1 .. Len(buf) /\ buf[k] # Zero /\ buf[k][1].record = L
        BY <3>1, <4>1
      <4>. HIDE DEF k
      <4>3. ~begin => buf = <<>>
        BY <1>4
      <4>4. begin
        BY <4>2, <4>3, EmptySeq
      <4>. QED  BY <1>4, <4>2, <4>4
    <3>4. CASE n > Len(Stream) /\ n <= Len(Stream) + Zeros
      <4>1. n \in Len(Stream) + 1 .. Len(Stream) + Zeros
        BY <1>1, <1>3, <1>16, <3>2, <3>4
      <4>. QED  BY <1>16, <3>1, <4>1
    <3>5. CASE n > Len(Stream) + Zeros
      <4>. DEFINE i == n - (Len(Stream) + Zeros)
      <4>0. /\ n \in Len(file) + 1 .. Len(Stream) + Zeros + Size(Newest) /\ n > Len(Stream) + Zeros
            /\ Len(Stream) \in Nat /\ Len(file) \in Nat /\ Zeros \in Nat /\ Size(Newest) \in Nat
        BY <1>1, <1>3, <1>16, <3>2, <3>5
      <4>1. i \in 1 .. Size(Newest) /\ n = Len(Stream) + Zeros + i
        BY ONLY <4>0
      <4>. HIDE DEF i
      <4>2. Target[n] = <<Newest, i>>
        BY <1>16, <4>1
      <4>3. i = 1
        BY <3>1, <4>2
      <4>. QED  BY <4>1, <4>3
    <3>6. Len(Stream) \in Nat /\ Len(file) \in Nat /\ Zeros \in Nat /\ Size(Newest) \in Nat
      BY <1>1, <1>3, <1>16
    <3>7. n <= Len(Stream) \/ (n > Len(Stream) /\ n <= Len(Stream) + Zeros) \/ n > Len(Stream) + Zeros
      BY ONLY <3>2, <3>6
    <3>. QED  BY <3>3, <3>4, <3>5, <3>7
  <2>. QED  BY <2>1, <2>2
<1>18. AckedJoined'
  <2>1. SUFFICES ASSUME NEW n \in 0 .. Len(file') - 1, Begins(file', n + 1),
          file'[n + 1][1].record \in (acked \cup Current)'
                 PROVE  Joined(file', n, file'[n + 1][1])
    BY DEF AckedJoined
  <2>2. Current = {L}
    BY <1>2 DEF Current
  <2>3. (acked \cup Current)' \subseteq acked \cup {L}
    BY <1>2, <1>10 DEF Current
  <2>4. file'[n + 1] # Zero /\ n + 1 \in 1 .. Len(file') /\ n \in Nat
    BY <1>7, <2>1 DEF Begins
  <2>5. CASE n + 1 <= Len(file)
    <3>1. /\ n \in 0 .. Len(file) - 1 /\ file'[n + 1] = file[n + 1]
          /\ \A i \in 1 .. n : file'[i] = file[i]
      BY <1>1, <1>7, <2>5
    <3>2. Joined(file, n, file[n + 1][1])
      BY <1>1, <2>1, <2>2, <2>3, <3>1 DEF AckedJoined, Begins
    <3>. QED  BY <2>4, <3>1, <3>2, JoinedAgree
  <2>6. CASE n + 1 > Len(file)
    <3>1. file'[n + 1][1].record \notin acked
      BY <1>8, <1>9, <2>4, <2>6
    <3>2. file'[n + 1][1].record = L
      BY <2>1, <2>3, <3>1
    <3>3. CASE Failed
      <4>1. (acked \cup Current)' = acked
        BY <3>3 DEF Failed, Current, Writing
      <4>. QED  BY <2>1, <3>1, <4>1
    <3>4. CASE Done
      <4>1. file'[n + 1][1] = Newest /\ n + 1 = Len(Stream) + Zeros + 1
        BY <1>17, <2>1, <2>4, <2>6, <3>2, <3>4
      <4>2. SUFFICES ASSUME Newest.type \in {"middle", "last"}
                     PROVE  \E h \in Fragments : Precedes(h, Newest) /\ EndsAt(file', n, h)
        BY <4>1 DEF Joined
      <4>3. ~begin /\ Zeros = 0
        BY <1>3, <4>2
      <4>4. buf = <<>> /\ Len(buf) = 0
        BY <1>4, <4>3, EmptySeq
      <4>5. n = Len(file)
        BY <1>1, <1>16, <2>4, <4>1, <4>3, <4>4
      <4>6. PICK h \in Fragments : /\ EndsAt(file, Len(file), h) /\ h.record = L
                                   /\ ~Final(h) /\ h.offset + h.length = records[L] - left
        BY <1>4, <4>3
      <4>7. EndsAt(file', n, h)
        <5>1. Size(h) \in Nat
          BY FragmentParts
        <5>. QED  BY <1>1, <1>7, <4>5, <4>6, <5>1 DEF EndsAt
      <4>8. Precedes(h, Newest)
        BY <1>3, <4>6 DEF Precedes
      <4>. QED  BY <4>7, <4>8
    <3>. QED  BY <1>2, <3>3, <3>4
  <2>. QED  BY <1>1, <2>4, <2>5, <2>6
<1>19. AckedEnds'
  <2>1. SUFFICES ASSUME life' # "powerless", NEW r \in acked' PROVE EndsIn(r, Len(file))'
    BY DEF AckedEnds
  <2>2. CASE r \in acked
    <3>1. EndsIn(r, Len(file))
      BY <1>1, <1>2, <2>1, <2>2 DEF AckedEnds
    <3>2. \A q \in Nat : Len(file) <= q => EndsIn(r, q)'
      BY <1>1, <1>7, <3>1, EndsInAgree
    <3>. QED  BY <1>7, <3>2 DEF EndsIn
  <2>3. CASE r \notin acked
    <3>1. Done /\ r = L /\ left = NewLength
      BY <1>2, <2>1, <2>3 DEF Done, Failed
    <3>2. /\ Len(file') \in 1 .. Len(file') /\ file'[Len(file')] = <<Newest, Size(Newest)>>
          /\ <<Newest, Size(Newest)>> # Zero
      <4>0. Size(Newest) \in 1 .. Size(Newest)
        BY <1>3, Sizes
      <4>1. Size(Newest) \in 1 .. Size(Newest) /\ Len(file') = Len(Stream) + Zeros + Size(Newest)
            /\ file' = Target
        BY <1>16, <3>1, <4>0 DEF Done
      <4>2. file'[Len(file')] = <<Newest, Size(Newest)>>
        BY <1>16, <4>1
      <4>3. Len(file') \in 1 .. Len(file')
        BY <1>1, <1>3, <1>7, <1>16, <4>1
      <4>. QED  BY <1>3, <4>2, <4>3, ByteParts
    <3>3. /\ file'[Len(file')][1] = Newest /\ file'[Len(file')][2] = Size(Newest)
          /\ Newest.record = r /\ Final(Newest)
      BY <1>3, <3>1, <3>2
    <3>. QED  BY <3>2, <3>3 DEF EndsIn
  <2>. QED  BY <2>2, <2>3
<1>20. DurableEnds'
  <2>1. PICK p \in 0 .. synced : Sound(file, p) /\ \A r \in durable : EndsIn(r, p)
    BY <1>1 DEF DurableEnds
  <2>2. p \in Nat /\ p \in 0 .. synced' /\ p \in 0 .. p /\ p <= Len(file)
    BY <1>1, <1>2, <2>1 DEF TypeOK
  <2>3. \A n \in 1 .. p : file'[n] = file[n]
    BY <1>1, <1>7, <2>2
  <2>4. Sound(file', p)
    BY <2>1, <2>2, <2>3, SoundAgree
  <2>5. \A r \in durable : EndsIn(r, p)'
    BY <2>1, <2>2, <2>3, EndsInAgree
  <2>. QED  BY <1>2, <2>2, <2>4, <2>5 DEF DurableEnds
<1>21. Undamaged'
  <2>1. SUFFICES ASSUME ~damaged'
                 PROVE  /\ Sound(Stream', Len(Stream')) /\ Ordered(Stream')
                        /\ EndOf(Stream', Len(Stream')) /\ Off(Len(Stream')) = Off(block_offset')
    BY DEF Undamaged
  <2>2. ~damaged /\ Stream' = Target /\ block_offset' = Start + Size(Newest)
    <3>1. CASE Done
      <4>1. Target \o <<>> = Target
        BY <1>16, ConcatEmptySeq
      <4>. QED  BY <2>1, <3>1, <4>1 DEF Done, Stream
    <3>2. CASE Failed
      BY <2>1, <3>2 DEF Failed, Stream
    <3>. QED  BY <1>2, <3>1, <3>2
  <2>. QED  BY <1>2, <2>2, TargetSound
<1>22. InRecord'
  <2>1. CASE Failed
    BY <2>1 DEF Failed, InRecord, Writing
  <2>2. CASE Done /\ left' = 0
    BY <2>2 DEF InRecord, Writing
  <2>3. CASE Done /\ left' # 0
    <3>1. /\ left \in Nat /\ NewLength \in Nat /\ left # NewLength /\ left' = left - NewLength
          /\ left' \in 1 .. records[L]
          /\ acked' = acked /\ block_offset' = BlockSize /\ buf' = <<>> /\ file' = Target
      <4>1. left \in Nat /\ NewLength \in Nat /\ NewLength <= left
        BY <1>3, <1>4
      <4>2. left # NewLength /\ left' = left - NewLength
        BY <2>3, <4>1 DEF Done
      <4>. QED  BY <1>3, <1>4, <2>3, <4>1, <4>2 DEF Done
    <3>2. ~Final(Newest) /\ Newest.offset + Newest.length = records[L] - left'
      BY <1>3, <1>4, <3>1
    <3>3. ASSUME NEW n \in 1 .. Len(file'), file'[n] # Zero, file'[n][1].record = L
          PROVE  /\ ~Final(file'[n][1])
                 /\ file'[n][1].offset + file'[n][1].length <= records[L] - left'
      <4>1. CASE n <= Len(file)
        <5>1. n \in 1 .. Len(file) /\ file'[n] = file[n]
          BY <1>1, <1>7, <4>1
        <5>2. ~begin
          BY <1>4, <3>3, <5>1
        <5>3. ~Final(file[n][1]) /\ file[n][1].offset + file[n][1].length <= records[L] - left
          BY <1>4, <3>3, <5>1, <5>2
        <5>4. file[n][1].offset + file[n][1].length \in Nat
          <6>1. file[n][1] \in Fragments
            BY <1>1, <3>3, <5>1 DEF Good, GoodFragment
          <6>. QED  BY <6>1, FragmentParts, Zenon
        <5>5. /\ records[L] \in Nat /\ left \in Nat /\ NewLength \in Nat /\ left' = left - NewLength
              /\ file[n][1].offset + file[n][1].length \in Nat
              /\ file[n][1].offset + file[n][1].length <= records[L] - left
          BY <1>3, <3>1, <5>3, <5>4
        <5>6. file[n][1].offset + file[n][1].length <= records[L] - left'
          BY ONLY <5>5
        <5>. QED  BY <5>1, <5>3, <5>6
      <4>2. CASE n > Len(file)
        <5>1. file'[n][1] = Newest
          BY <1>17, <2>3, <3>3, <4>2
        <5>2. records[L] - left' <= records[L] - left'
          BY <1>3, <3>1
        <5>. QED  BY <3>2, <5>1, <5>2
      <4>. QED  BY <1>1, <1>7, <4>1, <4>2
    <3>4. EndsAt(file', Len(file'), Newest)
      <4>1. Len(file') = Len(Stream) + Zeros + Size(Newest) /\ Len(Stream) + Zeros \in Nat
        <5>1. file' = Target
          BY <3>1
        <5>2. Len(Stream) \in Nat /\ Zeros \in Nat /\ Len(Target) = Len(Stream) + Zeros + Size(Newest)
          BY <1>1, <1>3, <1>16
        <5>. QED  BY ONLY <5>1, <5>2
      <4>2. Size(Newest) <= Len(file')
            /\ \A j \in 1 .. Size(Newest) : Len(file') - Size(Newest) + j = Len(Stream) + Zeros + j
        BY <1>3, <4>1
      <4>3. \A j \in 1 .. Size(Newest) : file'[Len(file') - Size(Newest) + j] = <<Newest, j>>
        BY <1>16, <3>1, <4>2
      <4>. QED  BY <4>2, <4>3 DEF EndsAt
    <3>5. \E h \in Fragments : /\ EndsAt(file', Len(file'), h) /\ h.record = L
                               /\ ~Final(h) /\ h.offset + h.length = records[L] - left'
      BY <1>3, <3>2, <3>4
    <3>6. /\ left' \in 1 .. records'[Len(records')] /\ Len(records') \notin acked' /\ ~begin'
      BY <1>2, <1>4, <3>1
    <3>. QED  BY <1>2, <3>1, <3>3, <3>5, <3>6 DEF InRecord
  <2>. QED  BY <1>2, <2>1, <2>2, <2>3
<1>. QED  BY <1>11, <1>12, <1>14, <1>15, <1>18, <1>19, <1>20, <1>21, <1>22 DEF IInv

(* Every step of the log keeps the invariant.                              *)
LEMMA IInvInductive == IInv /\ [Next]_vars => IInv'
<1>. SUFFICES ASSUME IInv, [Next]_vars PROVE IInv'
  OBVIOUS
<1>1. ASSUME NEW room \in Rooms PROVE room \in Nat
  <2>1. Len(buf) \in Nat
    BY LenProperties DEF IInv, Typed
  <2>. QED  BY <1>1, <2>1, Sizes DEF Rooms
<1>2. CASE \E length \in Lengths : AddRecord(length)
  BY <1>2, AddRecordKeeps
<1>3. CASE \E room \in Rooms : EmitFragment(room)
  BY <1>1, <1>3, EmitKeeps
<1>4. CASE \E room \in Rooms : Sync(room)
  BY <1>1, <1>4, SyncIsQuiet, QuietKeeps
<1>5. CASE \E room \in Rooms : Close(room)
  BY <1>1, <1>5, CloseIsQuiet, QuietKeeps
<1>6. CASE Kill
  BY <1>6, KillIsQuiet, QuietKeeps
<1>7. CASE PowerFailure
  BY <1>7, PowerFailureIsQuiet, QuietKeeps
<1>8. CASE Terminated \/ UNCHANGED vars
  <2>1. UNCHANGED vars
    BY <1>8 DEF Terminated
  <2>2. /\ file' = file /\ synced' = synced /\ buf' = buf /\ block_offset' = block_offset
        /\ records' = records
        /\ left' = left /\ begin' = begin /\ acked' = acked /\ durable' = durable /\ failures' = failures
        /\ damaged' = damaged /\ life' = life
    BY <2>1 DEF vars
  <2>3. Typed' /\ InRecord' /\ Pending'
    BY <2>2 DEF IInv, Typed, TypeOK, InRecord, Pending, Up, Writing
  <2>4. Good(file)' /\ Good(buf)'
    BY <2>2 DEF IInv, Good, GoodFragment
  <2>5. AckedJoined' /\ AckedEnds' /\ DurableEnds'
    BY <2>2 DEF IInv, AckedJoined, AckedEnds, DurableEnds, EndsIn, Current, Up, Writing
  <2>6. Undamaged'
    BY <2>2 DEF IInv, Undamaged, Stream, Up
  <2>. QED  BY <2>3, <2>4, <2>5, <2>6 DEF IInv
<1>. QED  BY <1>2, <1>3, <1>4, <1>5, <1>6, <1>7, <1>8 DEF Next

(* The invariant holds at any time.                                        *)
LEMMA Invariance == Spec => []IInv
<1>. QED  BY Initially, IInvInductive, PTL DEF Spec

(* The type invariant, for any sizes of blocks, headers and buffers: in    *)
(* all the calls log::Writer makes, block_offset_ does not pass the end of *)
(* the block, pos_ does not pass the end of buf_, what fsync made durable  *)
(* is in the file, and what was acknowledged was given to AddRecord.       *)
THEOREM TypeCorrect == Spec => []TypeOK
<1>1. IInv => TypeOK
  BY DEF IInv, Typed
<1>. QED  BY <1>1, Invariance, PTL

-----------------------------------------------------------------------------
(* Blocks, as a reader comes on them.                                      *)

(* How far into its block a byte is.                                       *)
LEMMA InBlock ==
  ASSUME NEW base \in Nat, Off(base) = 0, NEW n \in base .. base + BlockSize - 1
  PROVE  Off(n) = n - base /\ n \in Nat
<1>1. n - base \in Nat /\ Off(base) + (n - base) < BlockSize /\ base + (n - base) = n /\ n \in Nat
  BY Sizes
<1>. HIDE DEF Off
<1>2. Off(base + (n - base)) = Off(base) + (n - base)
  BY <1>1, Offsets
<1>. QED  BY <1>1, <1>2

(* A fragment that ends in the file is whole, and no fragment lies across  *)
(* a cut.                                                                  *)
LEMMA NoStraddle ==
  ASSUME file \in Seq(Bytes), NEW p \in 0 .. Len(file), Sound(file, p),
         NEW c \in 0 .. p, Cut(file, c), NEW n \in FragmentEnds, c < n, n <= p
  PROVE  n >= c + HeaderSize
<1>. DEFINE g == file[n][1]
            k == n - file[n][2]
<1>1. n \in 1 .. Len(file) /\ file[n] # Zero /\ file[n][2] = Size(g) /\ file[n] \in Bytes
      /\ Len(file) \in Nat
  BY ElementOfSeq, LenProperties DEF FragmentEnds, Size
<1>2. Size(g) \in Nat /\ Size(g) >= HeaderSize
  BY <1>1, ByteParts, FragmentParts
<1>3. /\ k \in 0 .. n - 1 /\ n <= k + Size(g)
      /\ \A i \in 1 .. p : k < i /\ i <= k + Size(g) => file[i] = <<g, i - k>>
  <2>1. n \in 1 .. p
    BY <1>1
  <2>. QED  BY <1>1, <2>1 DEF Sound, Placed
<1>. HIDE DEF g, k
<1>4. k = n - Size(g)
  BY <1>1 DEF k
<1>5. k >= c
  <2>1. SUFFICES ASSUME k < c PROVE FALSE
    BY <1>1, <1>3
  <2>2. c \in 1 .. p /\ c <= k + Size(g)
    BY <1>1, <1>2, <1>3, <1>4, <2>1
  <2>3. file[c] = <<g, c - k>>
    BY <1>3, <2>1, <2>2
  <2>4. file[c] # Zero
    <3>1. g \in Fragments /\ c - k \in Nat
      BY <1>1, <1>3, <2>1, ByteParts DEF g
    <3>. QED  BY <2>3, <3>1, ByteParts
  <2>5. c - k = Size(g)
    <3>1. file[c][1] = g /\ file[c][2] = c - k
      BY <2>3
    <3>2. c # 0
      BY <2>2
    <3>. QED  BY <2>4, <3>1, <3>2 DEF Cut, EndOf
  <2>. QED  BY <1>1, <1>2, <1>3, <1>4, <2>2, <2>5
<1>. QED  BY <1>1, <1>2, <1>3, <1>4, <1>5, Sizes

(* Where a fragment is due there is one.                                   *)
LEMMA FragmentDue ==
  ASSUME file \in Seq(Bytes), NEW p \in 0 .. Len(file), Sound(file, p),
         NEW c \in 0 .. p, c < p, Cut(file, c), ~InTrailer(c)
  PROVE  LET g == file[c + 1][1]
         IN /\ file[c + 1] # Zero /\ file[c + 1] = <<g, 1>> /\ g \in Fragments
            /\ Off(c) + Size(g) <= BlockSize
            /\ \A i \in 1 .. p : c < i /\ i <= c + Size(g) => file[i] = <<g, i - c>>
            /\ \A n \in FragmentEnds : c < n /\ n <= p => n >= c + Size(g)
            /\ Joined(file, c, g)
<1>. DEFINE g == file[c + 1][1]
<1>1. c \in 0 .. p - 1 /\ c + 1 \in 1 .. p /\ c + 1 \in 1 .. Len(file) /\ Len(file) \in Nat /\ p \in Nat
  BY LenProperties
<1>2. file[c + 1] # Zero /\ file[c + 1][2] = 1
  BY <1>1 DEF Sound, Filled
<1>3. file[c + 1] \in Bytes
  BY <1>1, ElementOfSeq
<1>4. g \in Fragments /\ file[c + 1] = <<g, 1>> /\ Size(g) \in Nat
  BY <1>2, <1>3, ByteParts, FragmentParts
<1>5. /\ Off(c) + Size(g) <= BlockSize
      /\ \A i \in 1 .. p : c < i /\ i <= c + Size(g) => file[i] = <<g, i - c>>
  <2>. DEFINE k == (c + 1) - file[c + 1][2]
  <2>1. /\ Off(k) + Size(g) <= BlockSize
        /\ \A i \in 1 .. p : k < i /\ i <= k + Size(g) => file[i] = <<g, i - k>>
    BY <1>1, <1>2 DEF Sound, Placed
  <2>2. k = c
    BY <1>2
  <2>. HIDE DEF k, g
  <2>. QED  BY <2>1, <2>2
<1>. HIDE DEF g
<1>6. ASSUME NEW n \in FragmentEnds, c < n, n <= p PROVE n >= c + Size(g)
  <2>1. SUFFICES ASSUME n < c + Size(g) PROVE FALSE
    BY <1>1, <1>4, LenProperties DEF FragmentEnds
  <2>2. n \in 1 .. p
    BY <1>1, <1>6, LenProperties DEF FragmentEnds
  <2>3. file[n] = <<g, n - c>>
    BY <1>4, <1>5, <1>6, <2>1, <2>2
  <2>4. n - c = Size(g)
    <3>1. file[n][2] = HeaderSize + file[n][1].length
      BY DEF FragmentEnds
    <3>. QED  BY <2>3, <3>1 DEF Size
  <2>. QED  BY <1>4, <2>1, <2>2, <2>4
<1>7. Joined(file, c, g)
  BY <1>1, <1>2 DEF Sound, Chained, Begins, g
<1>. QED  BY <1>2, <1>4, <1>5, <1>6, <1>7 DEF g

(* Where no header fits there are zeros up to the end of the block.        *)
LEMMA TrailerSkipped ==
  ASSUME file \in Seq(Bytes), NEW p \in 0 .. Len(file), Sound(file, p),
         NEW c \in 0 .. p, Cut(file, c), NEW b \in c .. p,
           b = c \/ (InTrailer(c) /\ Off(c) + (b - c) <= BlockSize)
  PROVE  /\ Cut(file, b)
         /\ \A n \in c + 1 .. b : n \notin FragmentEnds
<1>1. CASE b = c
  BY <1>1
<1>2. CASE b # c
  <2>1. c \in 0 .. p - 1 /\ b \in c + 1 .. p /\ p \in Nat /\ Off(c) \in Nat /\ BlockSize \in Nat
    BY <1>2, LenProperties, Offsets, Sizes
  <2>2. \A i \in c + 1 .. p : i - c <= BlockSize - Off(c) => file[i] = Zero
    BY <1>2, <2>1 DEF Sound, Filled
  <2>3. \A n \in c + 1 .. b : file[n] = Zero
    BY <1>2, <2>1, <2>2
  <2>. QED  BY <2>1, <2>3 DEF Cut, FragmentEnds
<1>. QED  BY <1>1, <1>2

-----------------------------------------------------------------------------
(* The turns of log::Reader: it reads on, takes a fragment, or ends.       *)

(* The states of a reader.                                                 *)
Readers == [from : Nat, to : Nat, eof : BOOLEAN, scratch : Seq(Fragments), in_fragmented : BOOLEAN,
            read : Seq(Seq(Fragments)), ends : {"more", "ok", "corrupt", "any"}]

(* What the reader does next: it reads on into another block, or takes the *)
(* fragment it is at, or ends.                                             *)
NoHeader(m) == m.from + HeaderSize > m.to + 1
At(m)       == file[m.from][1]
Advances(m) == NoHeader(m) /\ ~m.eof /\ Len(file) - m.to >= HeaderSize
Takes(m) ==
  /\ ~NoHeader(m) /\ file[m.from] # Zero /\ Holds(m.from, At(m), 1, Size(At(m)))
  /\ m.from + Size(At(m)) <= m.to + 1
  /\ At(m).type \in {"middle", "last"} => m.in_fragmented
(* The file ends within the fragment it is at.                             *)
Cuts(m) ==
  /\ ~NoHeader(m) /\ file[m.from] # Zero /\ Holds(m.from, At(m), 1, HeaderSize)
  /\ m.from + Size(At(m)) > m.to + 1 /\ m.eof

(* The record with that fragment, and how the reader ends at the end of    *)
(* the file.                                                               *)
JoinedAt(m) == Append(IF At(m).type \in {"full", "first"} THEN <<>> ELSE m.scratch, At(m))
EofHow(m)   == IF m.in_fragmented THEN "corrupt" ELSE "ok"

(* The reader e is m after a turn of the one kind, of the other, or of the *)
(* last.                                                                   *)
Advanced(m, e) ==
  /\ e.from = m.to + 1 /\ e.to > m.to /\ e.to >= m.to + HeaderSize /\ e.to <= Len(file)
  /\ \/ e.to = m.to + BlockSize /\ ~e.eof
     \/ e.to = Len(file) /\ e.eof /\ e.to < m.to + BlockSize
  /\ e.scratch = m.scratch /\ e.in_fragmented = m.in_fragmented /\ e.read = m.read /\ e.ends = "more"

Taken(m, e) ==
  /\ e.from = m.from + Size(At(m)) /\ e.to = m.to /\ e.eof = m.eof /\ e.ends = "more"
  /\ e.in_fragmented = ~Final(At(m))
  /\ e.read = IF Final(At(m)) THEN Append(m.read, JoinedAt(m)) ELSE m.read
  /\ e.scratch = IF Final(At(m)) THEN <<>> ELSE JoinedAt(m)

Stopped(m, e) ==
  /\ e.from = m.from /\ e.to = m.to /\ e.eof = m.eof /\ e.scratch = m.scratch
  /\ e.in_fragmented = m.in_fragmented /\ e.read = m.read /\ e.ends # "more"
  /\ NoHeader(m) /\ m.eof => e.ends = IF m.from <= m.to THEN "corrupt" ELSE EofHow(m)
  /\ NoHeader(m) /\ ~m.eof => e.ends = IF m.to = Len(file) THEN EofHow(m) ELSE "corrupt"
  /\ Cuts(m) => e.ends = EofHow(m)

(* What the reader takes to be a fragment is one.                          *)
LEMMA FragmentAt ==
  ASSUME file \in Seq(Bytes), NEW m \in Readers, m.from >= 1, m.to <= Len(file), ~NoHeader(m),
    file[m.from] # Zero
  PROVE  /\ At(m) \in Fragments /\ Size(At(m)) \in Nat /\ Size(At(m)) >= HeaderSize
         /\ At(m).length \in Nat /\ Size(At(m)) = HeaderSize + At(m).length
<1>1. m.from \in Nat /\ m.to \in Nat /\ Len(file) \in Nat
  BY LenProperties DEF Readers
<1>2. m.from \in 1 .. Len(file)
  BY <1>1, Sizes DEF NoHeader
<1>3. file[m.from] \in Bytes
  BY <1>2, ElementOfSeq
<1>. QED  BY <1>3, ByteParts, FragmentParts DEF At, Size

(* A reader that neither reads on nor takes a fragment ends.               *)
LEMMA TurnStops ==
  ASSUME file \in Seq(Bytes), NEW m \in Readers, m.ends = "more", m.from >= 1, m.to <= Len(file),
         ~Advances(m), ~Takes(m)
  PROVE  Turn(m) \in Readers /\ Stopped(m, Turn(m))
<1>. DEFINE g == At(m)
            zeros == \A n \in m.from .. m.from + HeaderSize - 1 : file[n] = Zero
            sound == file[m.from] # Zero /\ Holds(m.from, g, 1, HeaderSize)
<1>1. m.from \in Nat /\ m.to \in Nat /\ Len(file) \in Nat /\ m.eof \in BOOLEAN
      /\ m.in_fragmented \in BOOLEAN
  BY LenProperties DEF Readers
<1>2. ASSUME NEW how \in {"ok", "corrupt", "any"}
      PROVE  /\ Ended(m, how) \in Readers /\ Ended(m, how).ends = how
             /\ Ended(m, how).from = m.from /\ Ended(m, how).to = m.to /\ Ended(m, how).eof = m.eof
             /\ Ended(m, how).scratch = m.scratch /\ Ended(m, how).in_fragmented = m.in_fragmented
             /\ Ended(m, how).read = m.read
  BY DEF Ended, Readers
<1>3. AtEof(m) = Ended(m, EofHow(m)) /\ EofHow(m) \in {"ok", "corrupt", "any"}
  BY DEF AtEof, EofHow
<1>4. CASE NoHeader(m)
  <2>. DEFINE end == IF m.to + BlockSize < Len(file) THEN m.to + BlockSize ELSE Len(file)
  <2>1. Turn(m) = NextBlock(m) /\ ~Cuts(m)
    BY <1>4 DEF Turn, NoHeader, Cuts
  <2>2. CASE m.eof
    <3>1. Turn(m) = IF m.from <= m.to THEN Ended(m, "corrupt") ELSE AtEof(m)
      BY <2>1, <2>2 DEF NextBlock
    <3>2. CASE m.from <= m.to
      BY <1>2, <1>4, <2>1, <2>2, <3>1, <3>2 DEF Stopped
    <3>3. CASE ~(m.from <= m.to)
      <4>1. Turn(m) = Ended(m, EofHow(m)) /\ EofHow(m) \in {"ok", "corrupt", "any"}
        BY <1>3, <3>1, <3>3
      <4>2. EofHow(m) # "more"
        BY <4>1
      <4>. QED  BY <1>2, <1>4, <2>1, <2>2, <3>3, <4>1, <4>2 DEF Stopped
    <3>. QED  BY <3>2, <3>3
  <2>3. CASE ~m.eof
    <3>1. Len(file) - m.to < HeaderSize
      BY <1>1, <1>4, <2>3, Sizes DEF Advances
    <3>2. end = Len(file)
      BY <1>1, <3>1, Sizes
    <3>3. Turn(m) = IF end = m.to THEN AtEof(m)
                    ELSE IF end - m.to < HeaderSize THEN Ended(m, "corrupt")
                    ELSE [m EXCEPT !.from = m.to + 1, !.to = end, !.eof = end - m.to < BlockSize]
      BY <2>1, <2>3 DEF NextBlock
    <3>. HIDE DEF end
    <3>4. CASE m.to = Len(file)
      BY <1>2, <1>3, <1>4, <2>1, <2>3, <3>2, <3>3, <3>4 DEF Stopped
    <3>5. CASE m.to # Len(file)
      <4>1. Turn(m) = Ended(m, "corrupt")
        BY <3>1, <3>2, <3>3, <3>5
      <4>. QED  BY <1>2, <1>4, <2>1, <2>3, <3>5, <4>1 DEF Stopped
    <3>. QED  BY <3>4, <3>5
  <2>. QED  BY <2>2, <2>3
<1>5. CASE ~NoHeader(m)
  <2>1. Turn(m) = IF zeros THEN Ended(m, "ok")
                  ELSE IF ~sound THEN Ended(m, "any")
                  ELSE IF m.from + HeaderSize + g.length > m.to + 1
                       THEN IF m.eof THEN AtEof(m) ELSE Ended(m, "corrupt")
                  ELSE IF ~Intact(m.from, g) THEN Ended(m, "corrupt")
                  ELSE Take(m, g)
    BY <1>5 DEF Turn, NoHeader, ReadFragment, At
  <2>2. zeros => file[m.from] = Zero
    BY <1>1, Sizes
  <2>. HIDE DEF zeros
  <2>3. CASE zeros
    BY <1>2, <1>5, <2>1, <2>2, <2>3 DEF Stopped, Cuts
  <2>4. CASE ~zeros /\ ~sound
    BY <1>2, <1>5, <2>1, <2>4 DEF Stopped, Cuts
  <2>5. CASE ~zeros /\ sound
    <3>1. g \in Fragments /\ g.length \in Nat /\ Size(g) = HeaderSize + g.length /\ Size(g) \in Nat
      BY <1>5, <2>5, FragmentAt
    <3>. HIDE DEF g
    <3>2. m.from + HeaderSize + g.length = m.from + Size(g)
      BY <1>1, <3>1, Sizes
    <3>3. CASE m.from + Size(g) > m.to + 1 /\ m.eof
      BY <1>2, <1>3, <1>5, <2>1, <2>5, <3>2, <3>3 DEF Stopped
    <3>4. CASE m.from + Size(g) > m.to + 1 /\ ~m.eof
      BY <1>2, <1>5, <2>1, <2>5, <3>2, <3>4 DEF Stopped, Cuts
    <3>5. CASE ~(m.from + Size(g) > m.to + 1)
      <4>1. ~Cuts(m) /\ m.from + Size(g) <= m.to + 1
        BY <1>1, <3>1, <3>5 DEF Cuts, g
      <4>2. CASE ~Intact(m.from, g)
        BY <1>2, <1>5, <2>1, <2>5, <3>2, <3>5, <4>1, <4>2 DEF Stopped
      <4>3. CASE Intact(m.from, g)
        <5>1. Holds(m.from, g, 1, Size(g))
          <6>1. \A n \in 1 .. Size(g) : n \in 1 .. HeaderSize \/ n \in HeaderSize + 1 .. HeaderSize + g.length
            BY <3>1, Sizes
          <6>. QED  BY <2>5, <4>3, <6>1 DEF Intact, Holds
        <5>2. g.type \in {"middle", "last"} /\ ~m.in_fragmented
          BY <1>5, <2>5, <4>1, <5>1 DEF Takes, g
        <5>3. Turn(m) = Ended(m, "corrupt")
          BY <2>1, <2>5, <3>2, <3>5, <4>3, <5>2 DEF Take
        <5>. QED  BY <1>2, <1>5, <4>1, <5>3 DEF Stopped
      <4>. QED  BY <4>2, <4>3
    <3>. QED  BY <3>3, <3>4, <3>5
  <2>. QED  BY <2>3, <2>4, <2>5
<1>. QED  BY <1>4, <1>5

(* What a turn does that reads on into another block.                      *)
LEMMA TurnAdvances ==
  ASSUME file \in Seq(Bytes), NEW m \in Readers, m.ends = "more", m.from >= 1, m.to <= Len(file),
    Advances(m)
  PROVE  Turn(m) \in Readers /\ Advanced(m, Turn(m))
<1>. DEFINE end == IF m.to + BlockSize < Len(file) THEN m.to + BlockSize ELSE Len(file)
            e   == [m EXCEPT !.from = m.to + 1, !.to = end, !.eof = end - m.to < BlockSize]
<1>1. m.from \in Nat /\ m.to \in Nat /\ Len(file) \in Nat /\ m.eof \in BOOLEAN
  BY LenProperties DEF Readers
<1>2. NoHeader(m) /\ ~m.eof /\ Len(file) - m.to >= HeaderSize
  BY DEF Advances
<1>3. end \in Nat /\ end >= m.to + HeaderSize /\ end > m.to /\ end <= Len(file)
  BY <1>1, <1>2, Sizes
<1>4. \/ end = m.to + BlockSize /\ ~(end - m.to < BlockSize)
      \/ end = Len(file) /\ end - m.to < BlockSize /\ end < m.to + BlockSize
  BY <1>1, <1>2, Sizes
<1>. HIDE DEF end
<1>5. Turn(m) = e
  <2>1. Turn(m) = NextBlock(m)
    BY <1>2 DEF Turn, NoHeader
  <2>2. ~(end = m.to) /\ ~(end - m.to < HeaderSize)
    BY <1>1, <1>3, Sizes
  <2>. QED  BY <1>2, <2>1, <2>2 DEF NextBlock, end
<1>6. /\ e \in Readers /\ e.from = m.to + 1 /\ e.to = end /\ e.eof = (end - m.to < BlockSize)
      /\ e.scratch = m.scratch /\ e.in_fragmented = m.in_fragmented /\ e.read = m.read /\ e.ends = "more"
  <2>. DEFINE b == end - m.to < BlockSize
  <2>1. b \in BOOLEAN /\ m.to + 1 \in Nat /\ e = [m EXCEPT !.from = m.to + 1, !.to = end, !.eof = b]
    BY <1>1
  <2>. HIDE DEF b, e
  <2>2. e.eof = b /\ e \in Readers /\ e.from = m.to + 1 /\ e.to = end
    BY <1>3, <2>1 DEF Readers
  <2>3. e.scratch = m.scratch /\ e.in_fragmented = m.in_fragmented /\ e.read = m.read /\ e.ends = "more"
    BY <2>1 DEF Readers
  <2>. QED  BY <2>2, <2>3 DEF b
<1>. HIDE DEF e
<1>. QED  BY <1>3, <1>4, <1>5, <1>6 DEF Advanced

(* What a turn does that takes a fragment.                                 *)
LEMMA TurnTakes ==
  ASSUME file \in Seq(Bytes), NEW m \in Readers, m.ends = "more", m.from >= 1, m.to <= Len(file), Takes(m)
  PROVE  Turn(m) \in Readers /\ Taken(m, Turn(m)) /\ At(m) \in Fragments /\ JoinedAt(m) \in Seq(Fragments)
<1>. DEFINE g == At(m)
            joined == JoinedAt(m)
            zeros == \A n \in m.from .. m.from + HeaderSize - 1 : file[n] = Zero
            sound == file[m.from] # Zero /\ Holds(m.from, g, 1, HeaderSize)
            next  == [m EXCEPT !.from = @ + HeaderSize + g.length]
            e     == IF g.type \in {"full", "last"}
                     THEN [next EXCEPT !.read = Append(@, joined), !.scratch = <<>>, !.in_fragmented = FALSE]
                     ELSE [next EXCEPT !.scratch = joined, !.in_fragmented = TRUE]
<1>1. m.from \in Nat /\ m.to \in Nat /\ Len(file) \in Nat /\ m.in_fragmented \in BOOLEAN
  BY LenProperties DEF Readers
<1>2. /\ ~NoHeader(m) /\ file[m.from] # Zero /\ Holds(m.from, g, 1, Size(g))
      /\ m.from + Size(g) <= m.to + 1
      /\ g.type \in {"middle", "last"} => m.in_fragmented
  BY DEF Takes
<1>3. g \in Fragments /\ g.length \in Nat /\ Size(g) = HeaderSize + g.length /\ Size(g) \in Nat
  BY <1>2, FragmentAt
<1>4. joined \in Seq(Fragments) /\ <<>> \in Seq(Fragments)
  BY <1>3, EmptySeq, AppendProperties DEF JoinedAt, Readers
<1>. HIDE DEF g, joined
<1>5. ~zeros /\ sound /\ Intact(m.from, g)
  <2>1. ~zeros
    BY <1>1, <1>2, Sizes
  <2>2. \A n \in 1 .. HeaderSize : n \in 1 .. Size(g)
    BY <1>3, Sizes
  <2>3. \A n \in HeaderSize + 1 .. HeaderSize + g.length : n \in 1 .. Size(g)
    BY <1>3, Sizes
  <2>. QED  BY <1>2, <2>1, <2>2, <2>3 DEF Holds, Intact
<1>6. Turn(m) = Take(m, g)
  <2>1. Turn(m) = IF zeros THEN Ended(m, "ok")
                  ELSE IF ~sound THEN Ended(m, "any")
                  ELSE IF m.from + HeaderSize + g.length > m.to + 1
                       THEN IF m.eof THEN AtEof(m) ELSE Ended(m, "corrupt")
                  ELSE IF ~Intact(m.from, g) THEN Ended(m, "corrupt")
                  ELSE Take(m, g)
    BY <1>2 DEF Turn, NoHeader, ReadFragment, At, g
  <2>2. ~(m.from + HeaderSize + g.length > m.to + 1)
    BY <1>1, <1>2, <1>3, Sizes
  <2>. QED  BY <1>5, <2>1, <2>2, Zenon
<1>7. Take(m, g) = e
  BY <1>2 DEF Take, JoinedAt, joined, g
<1>8. /\ e \in Readers /\ e.from = m.from + HeaderSize + g.length /\ e.to = m.to /\ e.eof = m.eof
      /\ e.ends = "more"
      /\ e.in_fragmented = ~Final(g)
      /\ e.read = IF Final(g) THEN Append(m.read, joined) ELSE m.read
      /\ e.scratch = IF Final(g) THEN <<>> ELSE joined
  <2>1. m.from + HeaderSize + g.length \in Nat
    BY <1>1, <1>3, Sizes
  <2>2. m.read \in Seq(Seq(Fragments))
    BY DEF Readers
  <2>3. Append(m.read, joined) \in Seq(Seq(Fragments))
    BY <1>4, <2>2, AppendProperties
  <2>4. CASE Final(g)
    BY <1>4, <2>1, <2>3, <2>4 DEF Readers, Final
  <2>5. CASE ~Final(g)
    BY <1>4, <2>1, <2>2, <2>5 DEF Readers, Final
  <2>. QED  BY <2>4, <2>5
<1>9. m.from + HeaderSize + g.length = m.from + Size(g)
  BY <1>1, <1>3, Sizes
<1>. HIDE DEF e
<1>. QED  BY <1>3, <1>4, <1>6, <1>7, <1>8, <1>9 DEF Taken, g, joined

-----------------------------------------------------------------------------
(* Where the reader is, and what it has joined and read.                   *)

(* The reader m is in the block that begins after base bytes: at its start *)
(* or behind a fragment.                                                   *)
AtBlock(m, base) ==
  /\ base \in Nat /\ Off(base) = 0 /\ base <= m.from - 1 /\ m.from <= m.to + 1
  /\ m.to <= base + BlockSize /\ m.to <= Len(file)
  /\ IF m.eof THEN m.to = Len(file) /\ m.to < base + BlockSize ELSE m.to \in {base, base + BlockSize}
  /\ m.from - 1 = base \/ m.from - 1 \in FragmentEnds

(* It is in some block.                                                    *)
Placement(m) == \E base \in Nat : AtBlock(m, base)

(* Fragments of the records of F are where they belong.                    *)
Firm(F) ==
  \A n \in 0 .. Len(file) - 1 :
    Begins(file, n + 1) /\ file[n + 1][1].record \in F => Joined(file, n, file[n + 1][1])

(* If the last of the fragments L is of a record of F, L is that record up *)
(* to there.                                                               *)
Chain(L, F) ==
  L[Len(L)].record \in F =>
    /\ L[1].offset = 0
    /\ \A i \in 1 .. Len(L) : L[i].record = L[Len(L)].record
    /\ \A i \in 1 .. Len(L) - 1 : L[i + 1].offset = L[i].offset + L[i].length

(* The last fragment of scratch ends where the reader is, or right before  *)
(* the trailer it has skipped.                                             *)
Joining(m, F) ==
  m.in_fragmented =>
    /\ m.scratch # <<>> /\ Chain(m.scratch, F)
    /\ \E e \in Nat : /\ EndsAt(file, e, m.scratch[Len(m.scratch)])
                      /\ \/ e = m.from - 1
                         \/ e < m.from - 1 /\ m.from - 1 < e + HeaderSize /\ ~NoHeader(m)

(* Every record read ends, and those of F are right up to there.           *)
ReadWell(m, F) ==
  \A i \in 1 .. Len(m.read) :
    LET L == m.read[i]
    IN L # <<>> /\ GoodFragment(L[Len(L)]) /\ Final(L[Len(L)]) /\ Chain(L, F)

(* The records read are in order and behind the reader.                    *)
InOrder(m) ==
  /\ \A i \in 1 .. Len(m.read) :
       \E n \in 1 .. m.from - 1 : file[n] = <<m.read[i][Len(m.read[i])], 1>>
  /\ \A i, j \in 1 .. Len(m.read) :
       i < j => m.read[i][Len(m.read[i])].record < m.read[j][Len(m.read[j])].record

(* Behind the bytes of one block the reader is at the start of the next.   *)
LEMMA AdvancedPlace ==
  ASSUME file \in Seq(Bytes), NEW m \in Readers, NEW e \in Readers, Placement(m), Advances(m),
    Advanced(m, e)
  PROVE  Placement(e)
<1>1. PICK base \in Nat : AtBlock(m, base)
  BY DEF Placement
<1>2. m.from \in Nat /\ m.to \in Nat /\ e.from \in Nat /\ e.to \in Nat /\ Len(file) \in Nat
  BY LenProperties DEF Readers
<1>3. m.to \in {base, base + BlockSize}
  BY <1>1 DEF AtBlock, Advances
<1>4. Off(m.to) = 0
  <2>1. Off(base) = 0 /\ Off(base) + BlockSize = BlockSize
    BY <1>1, Sizes DEF AtBlock
  <2>2. Off(base + BlockSize) = 0
    BY <2>1, Offsets, Sizes
  <2>. QED  BY <1>3, <2>1, <2>2
<1>5. AtBlock(e, m.to)
  BY <1>2, <1>4, Sizes DEF AtBlock, Advanced
<1>. QED  BY <1>2, <1>5 DEF Placement

(* A fragment that is taken has its bytes in the file.                     *)
LEMMA TakenBytes ==
  ASSUME file \in Seq(Bytes), Good(file), NEW m \in Readers, m.from >= 1, m.to <= Len(file), Takes(m)
  PROVE  LET g == At(m)
             c == m.from - 1 + Size(g)
         IN /\ GoodFragment(g) /\ g \in Fragments /\ Size(g) \in Nat \ {0} /\ Size(g) >= HeaderSize
            /\ m.from \in Nat /\ m.to \in Nat /\ m.from \in 1 .. Len(file) /\ file[m.from] = <<g, 1>>
            /\ c \in FragmentEnds /\ file[c][1] = g /\ EndsAt(file, c, g) /\ c \in Nat
<1>. DEFINE g == At(m)
            c == m.from - 1 + Size(g)
<1>1. m.from \in Nat /\ m.to \in Nat /\ Len(file) \in Nat /\ DOMAIN file = 1 .. Len(file)
  BY LenProperties DEF Readers
<1>2. /\ ~NoHeader(m) /\ file[m.from] # Zero /\ Holds(m.from, g, 1, Size(g))
      /\ m.from + Size(g) <= m.to + 1
  BY DEF Takes
<1>3. g \in Fragments /\ Size(g) \in Nat \ {0} /\ Size(g) >= HeaderSize
  BY <1>2, FragmentAt, Sizes
<1>4. m.from \in 1 .. Len(file)
  BY <1>1, <1>2, Sizes DEF NoHeader
<1>5. GoodFragment(g)
  BY <1>2, <1>4 DEF Good, At
<1>. HIDE DEF g
<1>6. file[m.from] = <<g, 1>>
  <2>1. 1 \in 1 .. Size(g) /\ m.from + 1 - 1 = m.from
    BY <1>1, <1>3
  <2>. QED  BY <1>2, <2>1 DEF Holds
<1>7. c \in 1 .. Len(file) /\ c = m.from + Size(g) - 1 /\ file[c] = <<g, Size(g)>>
  <2>1. c \in 1 .. Len(file) /\ c = m.from + Size(g) - 1 /\ Size(g) \in 1 .. Size(g)
    BY <1>1, <1>2, <1>3
  <2>. HIDE DEF c
  <2>. QED  BY <1>2, <2>1 DEF Holds
<1>8. file[c] # Zero /\ file[c][1] = g /\ file[c][2] = Size(g)
  BY <1>3, <1>7, ByteParts
<1>9. c \in FragmentEnds
  BY <1>1, <1>7, <1>8 DEF FragmentEnds, Size
<1>10. EndsAt(file, c, g)
  <2>1. Size(g) <= c /\ \A j \in 1 .. Size(g) : c - Size(g) + j = m.from + j - 1
    BY <1>1, <1>3
  <2>. HIDE DEF c
  <2>. QED  BY <1>2, <2>1 DEF EndsAt, Holds
<1>. QED  BY <1>1, <1>3, <1>4, <1>5, <1>6, <1>7, <1>8, <1>9, <1>10 DEF g

(* Behind a fragment the reader is still in its block.                     *)
LEMMA TakenPlace ==
  ASSUME file \in Seq(Bytes), Good(file), NEW m \in Readers, NEW e \in Readers, Placement(m), Takes(m),
    Taken(m, e)
  PROVE  Placement(e)
<1>1. PICK base \in Nat : AtBlock(m, base)
  BY DEF Placement
<1>2. m.from >= 1 /\ m.to <= Len(file) /\ m.from \in Nat /\ m.to \in Nat
  BY <1>1 DEF AtBlock, Readers
<1>3. Size(At(m)) \in Nat \ {0} /\ m.from - 1 + Size(At(m)) \in FragmentEnds
  BY <1>2, TakenBytes
<1>4. m.from + Size(At(m)) <= m.to + 1
  BY DEF Takes
<1>5. e.from = m.from + Size(At(m)) /\ e.from - 1 = m.from - 1 + Size(At(m)) /\ e.to = m.to /\ e.eof = m.eof
  BY <1>2, <1>3 DEF Taken
<1>6. base <= e.from - 1 /\ e.from <= e.to + 1
  BY <1>1, <1>2, <1>3, <1>4, <1>5 DEF AtBlock
<1>7. AtBlock(e, base)
  BY <1>1, <1>3, <1>5, <1>6 DEF AtBlock
<1>. QED  BY <1>7 DEF Placement

(* What a fragment is appended to is what it goes on with.                 *)
LEMMA JoinedChain ==
  ASSUME file \in Seq(Bytes), Good(file), NEW m \in Readers, Placement(m), Takes(m), NEW F, Firm(F),
    Joining(m, F)
  PROVE  LET L == JoinedAt(m)
         IN L \in Seq(Fragments) /\ L # <<>> /\ L[Len(L)] = At(m) /\ Chain(L, F)
<1>. DEFINE L == JoinedAt(m)
            g == At(m)
            s == m.scratch
<1>1. m.from >= 1 /\ m.to <= Len(file)
  BY DEF Placement, AtBlock, Readers
<1>2. /\ GoodFragment(g) /\ g \in Fragments
      /\ m.from \in Nat /\ m.from \in 1 .. Len(file) /\ file[m.from] = <<g, 1>>
  BY <1>1, TakenBytes
<1>3. s \in Seq(Fragments) /\ Len(s) \in Nat
  BY LenProperties DEF Readers
<1>. HIDE DEF g
<1>4. CASE g.type \in {"full", "first"}
  <2>1. L = Append(<<>>, g)
    BY <1>4 DEF JoinedAt, g
  <2>2. L \in Seq(Fragments) /\ Len(L) = 1 /\ L[1] = g
    BY <1>2, <2>1, EmptySeq, AppendProperties
  <2>3. g.offset = 0
    BY <1>2, <1>4 DEF GoodFragment
  <2>. HIDE DEF L
  <2>4. L # <<>> /\ L[Len(L)] = g
    BY <2>2, EmptySeq
  <2>5. Chain(L, F)
    BY <2>2, <2>3 DEF Chain
  <2>. QED  BY <2>2, <2>4, <2>5 DEF L, g
<1>5. CASE g.type \notin {"full", "first"}
  <2>1. g.type \in {"middle", "last"} /\ m.in_fragmented
    <3>1. g.type \in {"full", "first", "middle", "last"}
      BY <1>2, FragmentParts
    <3>. QED  BY <1>5, <3>1 DEF Takes, g
  <2>2. L = Append(s, g)
    BY <1>5 DEF JoinedAt, g
  <2>3. s # <<>> /\ Chain(s, F)
    BY <2>1 DEF Joining
  <2>4. Len(s) \in Nat \ {0}
    BY <1>3, <2>3, EmptySeq
  <2>. HIDE DEF s
  <2>5. /\ L \in Seq(Fragments) /\ Len(L) = Len(s) + 1 /\ L[Len(s) + 1] = g
        /\ \A i \in 1 .. Len(s) : L[i] = s[i]
    BY <1>2, <1>3, <2>2, AppendProperties
  <2>6. L # <<>> /\ L[Len(L)] = g
    BY <1>3, <2>5, EmptySeq
  <2>. HIDE DEF L
  <2>7. SUFFICES ASSUME g.record \in F PROVE Chain(L, F)
    BY <2>5, <2>6 DEF Chain, L, g
  <2>8. PICK h \in Fragments : Precedes(h, g) /\ EndsAt(file, m.from - 1, h)
    <3>. DEFINE n == m.from - 1
    <3>1. n \in 0 .. Len(file) - 1 /\ n + 1 = m.from
      BY <1>2, LenProperties
    <3>2. file[n + 1] # Zero /\ file[n + 1][2] = 1 /\ file[n + 1][1] = g
      BY <1>2, <3>1, ByteParts
    <3>. HIDE DEF n
    <3>3. Joined(file, n, g)
      BY <2>7, <3>1, <3>2 DEF Firm, Begins
    <3>. QED  BY <2>1, <3>3 DEF Joined, n
  <2>9. s[Len(s)] = h
    <3>. DEFINE l == s[Len(s)]
    <3>1. l \in Fragments
      BY <1>3, <2>4, ElementOfSeq
    <3>2. PICK e \in Nat : /\ EndsAt(file, e, l)
                           /\ \/ e = m.from - 1
                              \/ e < m.from - 1 /\ m.from - 1 < e + HeaderSize /\ ~NoHeader(m)
      BY <2>1 DEF Joining, s
    <3>. HIDE DEF l
    <3>3. Size(l) \in Nat \ {0} /\ Size(h) \in Nat \ {0} /\ Size(h) >= HeaderSize
      BY <3>1, FragmentParts, Sizes
    <3>4. file[e] = <<l, Size(l)>>
      <4>1. e - Size(l) + Size(l) = e /\ Size(l) \in 1 .. Size(l)
        BY <3>3
      <4>. QED  BY <3>2, <4>1 DEF EndsAt
    <3>5. CASE e = m.from - 1
      <4>1. e - Size(h) + Size(h) = e /\ Size(h) \in 1 .. Size(h)
        BY <3>3
      <4>2. file[e] = <<h, Size(h)>>
        BY <2>8, <3>5, <4>1 DEF EndsAt
      <4>. QED  BY <3>4, <4>2 DEF l
    <3>6. CASE e < m.from - 1 /\ m.from - 1 < e + HeaderSize
      <4>. DEFINE j == e - (m.from - 1) + Size(h)
      <4>1. j \in 1 .. Size(h) /\ j # Size(h) /\ (m.from - 1) - Size(h) + j = e
        <5>1. /\ e \in Nat /\ m.from \in Nat /\ Size(h) \in Nat /\ HeaderSize \in Nat
              /\ Size(h) >= HeaderSize
              /\ e < m.from - 1 /\ m.from - 1 < e + HeaderSize
          BY <1>2, <3>2, <3>3, <3>6, Sizes
        <5>. QED  BY ONLY <5>1
      <4>. HIDE DEF j
      <4>2. file[e] = <<h, j>>
        BY <2>8, <4>1 DEF EndsAt
      <4>. QED  BY <3>4, <4>1, <4>2
    <3>. QED  BY <3>2, <3>5, <3>6
  <2>10. h.record = g.record /\ g.offset = h.offset + h.length
    BY <2>8 DEF Precedes
  <2>11. /\ s[1].offset = 0
         /\ \A i \in 1 .. Len(s) : s[i].record = g.record
         /\ \A i \in 1 .. Len(s) - 1 : s[i + 1].offset = s[i].offset + s[i].length
    BY <2>3, <2>7, <2>9, <2>10 DEF Chain
  <2>12. L[1].offset = 0
    BY <2>4, <2>5, <2>11
  <2>13. \A i \in 1 .. Len(L) : L[i].record = g.record
    <3>1. \A i \in 1 .. Len(L) : i \in 1 .. Len(s) \/ i = Len(s) + 1
      BY <1>3, <2>5
    <3>. QED  BY <2>5, <2>11, <3>1
  <2>14. ASSUME NEW i \in 1 .. Len(L) - 1 PROVE L[i + 1].offset = L[i].offset + L[i].length
    <3>1. CASE i = Len(s)
      BY <2>4, <2>5, <2>9, <2>10, <3>1
    <3>2. CASE i # Len(s)
      <4>1. i \in 1 .. Len(s) - 1 /\ i \in 1 .. Len(s) /\ i + 1 \in 1 .. Len(s)
        BY <1>3, <2>5, <3>2
      <4>. QED  BY <2>5, <2>11, <4>1
    <3>. QED  BY <3>1, <3>2
  <2>. QED  BY <2>6, <2>12, <2>13, <2>14 DEF Chain
<1>. QED  BY <1>4, <1>5

(* What was joined and read stays right when a fragment is taken.          *)
LEMMA TakenLists ==
  ASSUME file \in Seq(Bytes), Good(file), NEW m \in Readers, NEW e \in Readers, Placement(m), Takes(m),
    Taken(m, e),
         NEW F, Firm(F), Joining(m, F), ReadWell(m, F)
  PROVE  Joining(e, F) /\ ReadWell(e, F)
<1>. DEFINE L == JoinedAt(m)
            g == At(m)
<1>1. L \in Seq(Fragments) /\ L # <<>> /\ L[Len(L)] = g /\ Chain(L, F)
  BY JoinedChain
<1>2. m.from >= 1 /\ m.to <= Len(file)
  BY DEF Placement, AtBlock, Readers
<1>3. /\ GoodFragment(g) /\ Size(g) \in Nat
      /\ m.from \in Nat /\ m.from - 1 + Size(g) \in Nat /\ EndsAt(file, m.from - 1 + Size(g), g)
  BY <1>2, TakenBytes
<1>4. /\ e.from = m.from + Size(g) /\ e.in_fragmented = ~Final(g)
      /\ e.read = IF Final(g) THEN Append(m.read, L) ELSE m.read
      /\ e.scratch = IF Final(g) THEN <<>> ELSE L
  BY DEF Taken
<1>. HIDE DEF L, g
<1>5. Joining(e, F)
  <2>1. e.from - 1 = m.from - 1 + Size(g)
    BY <1>3, <1>4
  <2>. QED  BY <1>1, <1>3, <1>4, <2>1 DEF Joining
<1>6. ReadWell(e, F)
  <2>1. CASE ~Final(g)
    BY <1>4, <2>1 DEF ReadWell
  <2>2. CASE Final(g)
    <3>1. m.read \in Seq(Seq(Fragments)) /\ Len(m.read) \in Nat
      BY LenProperties DEF Readers
    <3>2. /\ Len(e.read) = Len(m.read) + 1 /\ e.read[Len(m.read) + 1] = L
          /\ \A i \in 1 .. Len(m.read) : e.read[i] = m.read[i]
      BY <1>1, <1>4, <2>2, <3>1, AppendProperties
    <3>3. \A i \in 1 .. Len(e.read) : i \in 1 .. Len(m.read) \/ i = Len(m.read) + 1
      BY <3>1, <3>2
    <3>. QED  BY <1>1, <1>3, <2>2, <3>2, <3>3 DEF ReadWell
  <2>. QED  BY <2>1, <2>2
<1>. QED  BY <1>5, <1>6

(* What was joined and read is left alone between blocks.                  *)
LEMMA AdvancedLists ==
  ASSUME file \in Seq(Bytes), NEW m \in Readers, NEW e \in Readers, Placement(m), Advances(m),
    Advanced(m, e),
         NEW F, Joining(m, F), ReadWell(m, F)
  PROVE  Joining(e, F) /\ ReadWell(e, F)
<1>1. /\ m.from \in Nat /\ m.to \in Nat /\ e.from = m.to + 1 /\ e.to \in Nat /\ e.to >= m.to + HeaderSize
      /\ e.scratch = m.scratch /\ e.in_fragmented = m.in_fragmented /\ e.read = m.read
  BY DEF Advanced, Readers
<1>2. m.from <= m.to + 1 /\ m.from + HeaderSize > m.to + 1 /\ NoHeader(m)
  BY DEF Placement, AtBlock, Advances, NoHeader
<1>3. ~NoHeader(e)
  BY <1>1, Sizes DEF NoHeader
<1>4. Joining(e, F)
  <2>1. SUFFICES ASSUME m.in_fragmented PROVE Joining(e, F)
    BY <1>1 DEF Joining
  <2>2. m.scratch # <<>> /\ Chain(m.scratch, F) /\ EndsAt(file, m.from - 1, m.scratch[Len(m.scratch)])
        /\ m.from - 1 \in Nat
    BY <1>2, <2>1 DEF Joining
  <2>3. \/ m.from - 1 = e.from - 1
        \/ m.from - 1 < e.from - 1 /\ e.from - 1 < (m.from - 1) + HeaderSize
    BY <1>1, <1>2, Sizes
  <2>. QED  BY <1>1, <1>3, <2>2, <2>3 DEF Joining
<1>. QED  BY <1>1, <1>4 DEF ReadWell

(* The records are read in order: a fragment taken is of no record before  *)
(* the last one read.                                                      *)
LEMMA TakenOrder ==
  ASSUME file \in Seq(Bytes), Good(file), Ordered(file), NEW m \in Readers, NEW e \in Readers, Placement(m),
         Takes(m), Taken(m, e), NEW F, Firm(F), Joining(m, F), ReadWell(m, F), InOrder(m)
  PROVE  InOrder(e)
<1>. DEFINE L == JoinedAt(m)
            g == At(m)
<1>1. L \in Seq(Fragments) /\ L[Len(L)] = g
  BY JoinedChain
<1>2. m.from >= 1 /\ m.to <= Len(file)
  BY DEF Placement, AtBlock, Readers
<1>3. /\ Size(g) \in Nat \ {0} /\ m.from \in Nat /\ m.from \in 1 .. Len(file) /\ file[m.from] = <<g, 1>>
      /\ g \in Fragments
  BY <1>2, TakenBytes
<1>4. /\ e.from = m.from + Size(g)
      /\ e.read = IF Final(g) THEN Append(m.read, L) ELSE m.read
  BY DEF Taken
<1>. HIDE DEF L, g
<1>5. ASSUME NEW i \in 1 .. Len(m.read)
      PROVE  \E n \in 1 .. e.from - 1 : file[n] = <<m.read[i][Len(m.read[i])], 1>>
  <2>1. PICK n \in 1 .. m.from - 1 : file[n] = <<m.read[i][Len(m.read[i])], 1>>
    BY DEF InOrder
  <2>2. n \in 1 .. e.from - 1
    BY <1>3, <1>4
  <2>. QED  BY <2>1, <2>2
<1>6. CASE ~Final(g)
  BY <1>4, <1>5, <1>6 DEF InOrder
<1>7. CASE Final(g)
  <2>1. m.read \in Seq(Seq(Fragments)) /\ Len(m.read) \in Nat
    BY LenProperties DEF Readers
  <2>2. /\ Len(e.read) = Len(m.read) + 1 /\ e.read[Len(m.read) + 1] = L
        /\ \A i \in 1 .. Len(m.read) : e.read[i] = m.read[i]
    BY <1>1, <1>4, <1>7, <2>1, AppendProperties
  <2>3. \A i \in 1 .. Len(e.read) : i \in 1 .. Len(m.read) \/ i = Len(m.read) + 1
    BY <2>1, <2>2
  <2>4. m.from \in 1 .. e.from - 1
    BY <1>3, <1>4
  <2>5. ASSUME NEW i \in 1 .. Len(m.read) PROVE m.read[i][Len(m.read[i])].record < g.record
    <3>. DEFINE h == m.read[i][Len(m.read[i])]
    <3>1. PICK n \in 1 .. m.from - 1 : file[n] = <<h, 1>>
      BY DEF InOrder
    <3>2. Final(h) /\ h \in Fragments
      BY DEF ReadWell, GoodFragment
    <3>. HIDE DEF h
    <3>3. n \in 1 .. Len(file) /\ n < m.from
      BY <1>3, LenProperties
    <3>4. Begins(file, n) /\ Begins(file, m.from) /\ file[n][1] = h /\ file[m.from][1] = g
      BY <1>3, <3>1, <3>2, ByteParts DEF Begins
    <3>5. h.record < g.record
      BY <1>3, <3>2, <3>3, <3>4 DEF Ordered
    <3>. QED  BY <3>5 DEF h
  <2>6. \A i, j \in 1 .. Len(e.read) : i < j => i \in 1 .. Len(m.read) /\ (j \in 1 .. Len(m.read) \/ j = Len(m.read) + 1)
    BY <2>1, <2>2
  <2>7. \A i, j \in 1 .. Len(e.read) :
          i < j => e.read[i][Len(e.read[i])].record < e.read[j][Len(e.read[j])].record
    BY <1>1, <2>2, <2>5, <2>6 DEF InOrder
  <2>8. ASSUME NEW i \in 1 .. Len(e.read)
        PROVE  \E n \in 1 .. e.from - 1 : file[n] = <<e.read[i][Len(e.read[i])], 1>>
    BY <1>1, <1>3, <1>5, <2>2, <2>3, <2>4
  <2>. QED  BY <2>7, <2>8 DEF InOrder
<1>. QED  BY <1>6, <1>7

(* The order read is left alone between blocks.                            *)
LEMMA AdvancedOrder ==
  ASSUME NEW m \in Readers, NEW e \in Readers, Placement(m), Advanced(m, e), InOrder(m)
  PROVE  InOrder(e)
<1>1. m.from \in Nat /\ m.to \in Nat /\ m.from <= m.to + 1 /\ e.from = m.to + 1 /\ e.read = m.read
  BY DEF Advanced, Readers, Placement, AtBlock
<1>2. \A n \in 1 .. m.from - 1 : n \in 1 .. e.from - 1
  BY <1>1
<1>. QED  BY <1>1, <1>2 DEF InOrder

-----------------------------------------------------------------------------
(* How far the reader gets.                                                *)

(* The last fragment that ends in the first q bytes ends no record.        *)
Within(q) ==
  \E n \in FragmentEnds : /\ n <= q /\ ~Final(file[n][1])
                          /\ \A k \in FragmentEnds : k <= q => k <= n

(* The first p bytes are read as they were laid out: the reader is at a    *)
(* cut, and knows whether this is within a record; the records that ended  *)
(* were read; and where it stops there is no fragment left.                *)
OnTrack(m, p) ==
  /\ m.from - 1 <= p => Cut(file, m.from - 1) /\ (m.in_fragmented <=> Within(m.from - 1))
  /\ \A n \in FragmentEnds : n <= p /\ n <= m.from - 1 /\ Final(file[n][1]) =>
       \E i \in 1 .. Len(m.read) : m.read[i][Len(m.read[i])] = file[n][1]
  /\ m.ends # "more" => \A n \in FragmentEnds : n <= p => n <= m.from - 1

(* What lies ahead of a reader that is on its track.                       *)
LEMMA Ahead ==
  ASSUME file \in Seq(Bytes), NEW p \in 0 .. Len(file), Sound(file, p),
         NEW m \in Readers, Placement(m), OnTrack(m, p), m.from - 1 <= p
  PROVE  /\ m.from - 1 \in 0 .. p /\ m.from \in Nat \ {0} /\ m.to \in Nat /\ p \in Nat /\ Len(file) \in Nat
         /\ Cut(file, m.from - 1)
         /\ NoHeader(m) => \A n \in FragmentEnds : n <= p /\ n > m.from - 1 => n > m.to
         /\ NoHeader(m) /\ ~m.eof /\ m.to <= p =>
              /\ Cut(file, m.to)
              /\ \A n \in FragmentEnds : n <= m.to => n <= m.from - 1
              /\ \A n \in FragmentEnds : n <= p /\ n > m.to => n >= m.to + HeaderSize
         /\ ~NoHeader(m) => ~InTrailer(m.from - 1) /\ (~m.eof => m.to >= m.from - 1 + (BlockSize - Off(m.from - 1)))
<1>. DEFINE c == m.from - 1
<1>1. PICK base \in Nat : AtBlock(m, base)
  BY DEF Placement
<1>2. m.from \in Nat /\ m.to \in Nat /\ Len(file) \in Nat /\ p \in Nat /\ p <= Len(file)
  BY LenProperties DEF Readers
<1>3. /\ Off(base) = 0 /\ base <= m.from - 1 /\ m.from <= m.to + 1
      /\ m.to <= base + BlockSize /\ m.to <= Len(file)
      /\ ~m.eof => m.to \in {base, base + BlockSize}
  BY <1>1 DEF AtBlock
<1>4. c \in 0 .. p /\ m.from = c + 1 /\ m.from \in Nat \ {0} /\ c \in Nat /\ base <= c /\ c <= m.to
  BY <1>2, <1>3
<1>5. Cut(file, c)
  BY <1>4 DEF OnTrack
<1>. HIDE DEF c
<1>6. \A n \in FragmentEnds : n \in 1 .. Len(file) /\ n \in Nat
  BY <1>2, LenProperties DEF FragmentEnds
<1>7. ASSUME NoHeader(m), NEW n \in FragmentEnds, n <= p, n > c PROVE n > m.to
  <2>1. n >= c + HeaderSize
    BY <1>4, <1>5, <1>6, <1>7, NoStraddle
  <2>. QED  BY <1>2, <1>4, <1>6, <1>7, <2>1, Sizes DEF NoHeader
<1>8. ASSUME NoHeader(m), ~m.eof, m.to <= p
      PROVE  /\ Cut(file, m.to)
             /\ \A n \in FragmentEnds : n <= m.to => n <= c
             /\ \A n \in FragmentEnds : n <= p /\ n > m.to => n >= m.to + HeaderSize
  <2>1. m.to = c \/ (InTrailer(c) /\ Off(c) + (m.to - c) <= BlockSize)
    <3>1. CASE m.to = c
      BY <3>1
    <3>2. CASE m.to # c
      <4>1. m.to = base + BlockSize /\ c \in base .. base + BlockSize - 1
        BY <1>2, <1>3, <1>4, <1>8, <3>2, Sizes
      <4>2. Off(c) = c - base
        BY <1>3, <4>1, InBlock
      <4>3. InTrailer(c)
        BY <1>2, <1>4, <1>8, <4>1, <4>2, Sizes DEF InTrailer, NoHeader
      <4>. QED  BY <1>2, <1>4, <4>1, <4>2, <4>3, Sizes
    <3>. QED  BY <3>1, <3>2
  <2>2. m.to \in c .. p
    BY <1>2, <1>4, <1>8
  <2>3. /\ Cut(file, m.to)
        /\ \A n \in c + 1 .. m.to : n \notin FragmentEnds
    BY <1>4, <1>5, <2>1, <2>2, TrailerSkipped
  <2>4. ASSUME NEW n \in FragmentEnds, n <= m.to PROVE n <= c
    <3>1. n \in Nat
      BY <1>6
    <3>. QED  BY <1>2, <1>4, <2>3, <2>4, <3>1
  <2>5. ASSUME NEW n \in FragmentEnds, n <= p, n > m.to PROVE n >= m.to + HeaderSize
    <3>1. m.to \in 0 .. p /\ m.to < n
      BY <1>2, <1>6, <1>8, <2>5
    <3>. QED  BY <2>3, <2>5, <3>1, NoStraddle
  <2>. QED  BY <2>3, <2>4, <2>5
<1>9. ASSUME ~NoHeader(m) PROVE ~InTrailer(c) /\ (~m.eof => m.to >= c + (BlockSize - Off(c)))
  <2>1. c + HeaderSize <= m.to
    BY <1>2, <1>4, <1>9, Sizes DEF NoHeader
  <2>2. c \in base .. base + BlockSize - 1
    BY <1>2, <1>3, <1>4, <2>1, Sizes
  <2>3. Off(c) = c - base
    BY <1>3, <2>2, InBlock
  <2>4. ~InTrailer(c)
    BY <1>2, <1>3, <1>4, <2>1, <2>3, Sizes DEF InTrailer
  <2>5. ~m.eof => m.to >= c + (BlockSize - Off(c))
    BY <1>2, <1>3, <1>4, <2>1, <2>3, Sizes
  <2>. QED  BY <2>4, <2>5
<1>. QED  BY <1>2, <1>4, <1>5, <1>7, <1>8, <1>9 DEF c

(* A reader on track is on track in the next block.                        *)
LEMMA AdvancedTrack ==
  ASSUME file \in Seq(Bytes), NEW p \in 0 .. Len(file), Sound(file, p),
         NEW m \in Readers, NEW e \in Readers, Placement(m), OnTrack(m, p), Advances(m), Advanced(m, e)
  PROVE  OnTrack(e, p)
<1>1. /\ m.from \in Nat /\ m.to \in Nat /\ m.from <= m.to + 1 /\ p \in Nat
      /\ e.from = m.to + 1 /\ e.from - 1 = m.to /\ e.read = m.read
      /\ e.in_fragmented = m.in_fragmented /\ e.ends = "more"
  BY LenProperties DEF Advanced, Readers, Placement, AtBlock
<1>2. NoHeader(m) /\ ~m.eof
  BY DEF Advances
<1>3. \A n \in FragmentEnds : n \in Nat
  BY LenProperties DEF FragmentEnds
<1>4. ASSUME m.to <= p PROVE Cut(file, m.to) /\ (m.in_fragmented <=> Within(m.to))
  <2>1. m.from - 1 <= p
    BY <1>1, <1>4
  <2>2. Cut(file, m.to) /\ \A n \in FragmentEnds : n <= m.to => n <= m.from - 1
    BY <1>2, <1>4, <2>1, Ahead
  <2>3. m.in_fragmented <=> Within(m.from - 1)
    BY <2>1 DEF OnTrack
  <2>4. \A n \in FragmentEnds : n <= m.to <=> n <= m.from - 1
    BY <1>1, <1>3, <2>2
  <2>5. Within(m.from - 1) <=> Within(m.to)
    BY <2>4 DEF Within
  <2>. QED  BY <2>2, <2>3, <2>5
<1>5. ASSUME NEW n \in FragmentEnds, n <= p, n <= m.to, Final(file[n][1])
      PROVE  \E i \in 1 .. Len(m.read) : m.read[i][Len(m.read[i])] = file[n][1]
  <2>1. CASE n <= m.from - 1
    BY <1>5, <2>1 DEF OnTrack
  <2>2. CASE n > m.from - 1
    <3>1. m.from - 1 <= p
      BY <1>1, <1>3, <1>5, <2>2
    <3>2. n > m.to
      BY <1>2, <1>5, <2>2, <3>1, Ahead
    <3>. QED  BY <1>1, <1>3, <1>5, <3>2
  <2>. QED  BY <1>1, <1>3, <2>1, <2>2
<1>. QED  BY <1>1, <1>4, <1>5 DEF OnTrack

(* A reader on track is on track behind a fragment: a record that ends     *)
(* there has been read.                                                    *)
LEMMA TakenTrack ==
  ASSUME file \in Seq(Bytes), Good(file), NEW p \in 0 .. Len(file), Sound(file, p),
         NEW m \in Readers, NEW e \in Readers, Placement(m), OnTrack(m, p), Takes(m), Taken(m, e),
         NEW F, Firm(F), Joining(m, F)
  PROVE  OnTrack(e, p)
<1>. DEFINE L == JoinedAt(m)
            g == At(m)
            c == m.from - 1
            d == m.from - 1 + Size(g)
<1>1. L \in Seq(Fragments) /\ L[Len(L)] = g
  BY JoinedChain
<1>2. m.from >= 1 /\ m.to <= Len(file)
  BY DEF Placement, AtBlock, Readers
<1>3. /\ Size(g) \in Nat \ {0} /\ m.from \in Nat /\ d \in FragmentEnds /\ file[d][1] = g /\ d \in Nat
      /\ file[m.from] = <<g, 1>>
  BY <1>2, TakenBytes
<1>4. /\ e.from - 1 = d /\ e.ends = "more" /\ e.in_fragmented = ~Final(g)
      /\ e.read = IF Final(g) THEN Append(m.read, L) ELSE m.read
  BY <1>3 DEF Taken
<1>5. c \in Nat /\ c + 1 = m.from /\ c < d /\ d = c + Size(g) /\ p \in Nat /\ ~NoHeader(m)
  <2>1. p \in Nat /\ ~NoHeader(m) /\ m.from \in Nat /\ m.from >= 1 /\ Size(g) \in Nat \ {0}
    BY <1>2, <1>3, LenProperties DEF Takes
  <2>. QED  BY ONLY <2>1
<1>6. \A n \in FragmentEnds : n \in Nat
  BY LenProperties DEF FragmentEnds
<1>. HIDE DEF L, g, d
<1>7. Cut(file, d)
  BY <1>3 DEF Cut, EndOf, FragmentEnds, Size
<1>8. ~Final(g) <=> Within(d)
  <2>1. ASSUME ~Final(g) PROVE Within(d)
    BY <1>3, <2>1 DEF Within
  <2>2. ASSUME Within(d) PROVE ~Final(g)
    <3>1. PICK n \in FragmentEnds : n <= d /\ ~Final(file[n][1]) /\ \A k \in FragmentEnds : k <= d => k <= n
      BY <2>2 DEF Within
    <3>2. n = d
      <4>1. n \in Nat /\ d \in Nat /\ d \in FragmentEnds
        BY <1>3, <1>6
      <4>2. d <= d
        BY ONLY <4>1
      <4>3. d <= n /\ n <= d
        BY <3>1, <4>1, <4>2
      <4>. QED  BY ONLY <4>1, <4>3
    <3>. QED  BY <1>3, <3>1, <3>2
  <2>. QED  BY <2>1, <2>2
<1>9. /\ \A i \in 1 .. Len(m.read) : i \in 1 .. Len(e.read) /\ e.read[i] = m.read[i]
      /\ Final(g) => \E i \in 1 .. Len(e.read) : e.read[i] = L
  <2>1. m.read \in Seq(Seq(Fragments)) /\ Len(m.read) \in Nat
    BY LenProperties DEF Readers
  <2>2. CASE ~Final(g)
    BY <1>4, <2>2
  <2>3. CASE Final(g)
    <3>1. /\ Len(e.read) = Len(m.read) + 1 /\ e.read[Len(m.read) + 1] = L
          /\ \A i \in 1 .. Len(m.read) : e.read[i] = m.read[i]
      BY <1>1, <1>4, <2>1, <2>3, AppendProperties
    <3>2. Len(m.read) + 1 \in 1 .. Len(e.read) /\ \A i \in 1 .. Len(m.read) : i \in 1 .. Len(e.read)
      BY <2>1, <3>1
    <3>. QED  BY <3>1, <3>2
  <2>. QED  BY <2>2, <2>3
<1>10. ASSUME NEW n \in FragmentEnds, n <= p, n <= d, Final(file[n][1])
       PROVE  \E i \in 1 .. Len(e.read) : e.read[i][Len(e.read[i])] = file[n][1]
  <2>1. CASE n <= c
    <3>1. PICK i \in 1 .. Len(m.read) : m.read[i][Len(m.read[i])] = file[n][1]
      BY <1>10, <2>1 DEF OnTrack
    <3>. QED  BY <1>9, <3>1
  <2>2. CASE n > c
    <3>1. n \in Nat /\ c \in 0 .. p /\ c < p
      BY <1>5, <1>6, <1>10, <2>2
    <3>2. Cut(file, c) /\ ~InTrailer(c)
      BY <1>5, <3>1, Ahead
    <3>3. n >= c + Size(file[c + 1][1])
      BY <1>10, <2>2, <3>1, <3>2, FragmentDue
    <3>4. file[c + 1][1] = g
      BY <1>3, <1>5
    <3>5. n = d
      BY <1>3, <1>5, <1>10, <3>1, <3>3, <3>4
    <3>. QED  BY <1>1, <1>3, <1>9, <1>10, <3>5
  <2>. QED  BY <1>5, <1>6, <2>1, <2>2
<1>. QED  BY <1>4, <1>7, <1>8, <1>10 DEF OnTrack

(* A reader on track ends at nothing but the end of the fragments.         *)
LEMMA StoppedTrack ==
  ASSUME file \in Seq(Bytes), NEW p \in 0 .. Len(file), Sound(file, p),
         NEW m \in Readers, NEW e, Placement(m), OnTrack(m, p), ~Advances(m), ~Takes(m), Stopped(m, e)
  PROVE  OnTrack(e, p)
<1>. DEFINE c == m.from - 1
<1>1. /\ e.from = m.from /\ e.read = m.read /\ e.in_fragmented = m.in_fragmented /\ e.ends # "more"
  BY DEF Stopped
<1>2. SUFFICES ASSUME NEW n \in FragmentEnds, n <= p, ~(n <= c) PROVE FALSE
  BY <1>1 DEF OnTrack
<1>3. n \in Nat /\ m.from \in Nat /\ p \in Nat /\ n \in 1 .. Len(file) /\ Len(file) \in Nat
  BY LenProperties DEF FragmentEnds, Readers
<1>4. n > c /\ c <= p /\ c < p
  BY <1>2, <1>3
<1>5. /\ c \in 0 .. p /\ m.from = c + 1 /\ m.to \in Nat
      /\ Cut(file, c)
      /\ NoHeader(m) => n > m.to
      /\ NoHeader(m) /\ ~m.eof /\ m.to <= p => n >= m.to + HeaderSize
      /\ ~NoHeader(m) => ~InTrailer(c) /\ (~m.eof => m.to >= c + (BlockSize - Off(c)))
  BY <1>2, <1>4, Ahead
<1>6. m.eof => m.to = Len(file)
  BY DEF Placement, AtBlock
<1>7. m.to <= Len(file) /\ m.eof \in BOOLEAN
  BY DEF Placement, AtBlock, Readers
<1>. HIDE DEF c
<1>8. CASE NoHeader(m) /\ m.eof
  BY <1>3, <1>5, <1>6, <1>8
<1>9. CASE NoHeader(m) /\ ~m.eof
  <2>1. Len(file) - m.to < HeaderSize
    BY <1>3, <1>5, <1>9, Sizes DEF Advances
  <2>2. m.to <= p /\ n >= m.to + HeaderSize
    BY <1>2, <1>3, <1>5, <1>9
  <2>. QED  BY <1>3, <1>5, <2>1, <2>2, Sizes
<1>10. CASE ~NoHeader(m)
  <2>. DEFINE g == file[c + 1][1]
  <2>1. /\ file[c + 1] # Zero /\ g \in Fragments
        /\ Off(c) + Size(g) <= BlockSize
        /\ \A i \in 1 .. p : c < i /\ i <= c + Size(g) => file[i] = <<g, i - c>>
        /\ n >= c + Size(g)
        /\ Joined(file, c, g)
    BY <1>2, <1>4, <1>5, <1>10, FragmentDue
  <2>2. g = At(m)
    BY <1>5 DEF At
  <2>. HIDE DEF g
  <2>3. Size(g) \in Nat /\ Off(c) \in Nat
    BY <1>5, <2>1, FragmentParts, Offsets
  <2>4. ASSUME NEW i \in 1 .. Size(g) PROVE file[m.from + i - 1] = <<g, i>>
    <3>1. c + i \in 1 .. p /\ c < c + i /\ c + i <= c + Size(g) /\ m.from + i - 1 = c + i /\ (c + i) - c = i
      BY <1>2, <1>3, <1>5, <2>1, <2>3
    <3>. QED  BY <2>1, <3>1
  <2>5. m.from + Size(g) <= m.to + 1
    <3>1. CASE m.eof
      BY <1>2, <1>3, <1>5, <1>6, <2>1, <2>3, <3>1
    <3>2. CASE ~m.eof
      BY <1>3, <1>5, <1>10, <2>1, <2>3, <3>2, Sizes
    <3>. QED  BY <3>1, <3>2
  <2>6. ASSUME g.type \in {"middle", "last"} PROVE m.in_fragmented
    <3>1. PICK h \in Fragments : Precedes(h, g) /\ EndsAt(file, c, h)
      BY <2>1, <2>6 DEF Joined
    <3>2. Size(h) \in Nat \ {0}
      BY FragmentParts, Sizes
    <3>3. c \in 1 .. Len(file) /\ c \in Nat
      BY <1>3, <1>5, <3>1, <3>2 DEF EndsAt
    <3>4. file[c] = <<h, Size(h)>>
      <4>1. c - Size(h) + Size(h) = c /\ Size(h) \in 1 .. Size(h)
        BY <3>2, <3>3
      <4>. QED  BY <3>1, <4>1 DEF EndsAt
    <3>5. c \in FragmentEnds /\ file[c][1] = h
      <4>1. file[c] # Zero /\ file[c][1] = h /\ file[c][2] = Size(h)
        BY <3>2, <3>4, ByteParts
      <4>. QED  BY <3>3, <4>1, LenProperties DEF FragmentEnds, Size
    <3>6. Within(c)
      <4>1. \A k \in FragmentEnds : k <= c => k <= c
        OBVIOUS
      <4>2. ~Final(file[c][1]) /\ c <= c
        BY <3>1, <3>3, <3>5 DEF Precedes
      <4>. QED  BY <3>5, <4>1, <4>2 DEF Within
    <3>. QED  BY <1>4, <3>6 DEF OnTrack, c
  <2>7. Takes(m)
    BY <1>5, <1>10, <2>1, <2>2, <2>4, <2>5, <2>6 DEF Takes, Holds
  <2>. QED  BY <2>7
<1>. QED  BY <1>7, <1>8, <1>9, <1>10

-----------------------------------------------------------------------------
(* How the reader ends.                                                    *)

(* The reader says at its end whether the log was cut off, as in TailExact. *)
TailStart == LET size == Len(file) IN Max(FragmentEnds \cup {size - (size % BlockSize)})
(* The cut left a part of a header.                                        *)
Broken == Len(file) - TailStart \in 1 .. HeaderSize - 1

TailTold(m) == m.ends # "more" => (m.ends = "corrupt" <=> Broken \/ Within(Len(file)))

(* What Max gives on numbers.                                              *)
LEMMA LargestIs ==
  ASSUME NEW S, S \subseteq Nat, NEW x \in S, \A y \in S : y <= x
  PROVE  Max(S) = x
<1>1. \A y \in S : x >= y
  OBVIOUS
<1>. DEFINE m == Max(S)
<1>2. m \in S /\ \A y \in S : m >= y
  BY <1>1, Zenon DEF Max
<1>. HIDE DEF m
<1>3. m \in Nat /\ x \in Nat /\ m <= x /\ m >= x
  BY <1>2
<1>4. m = x
  BY ONLY <1>3
<1>. QED  BY <1>4 DEF m

(* The last place in the file where a header could stand.                  *)
LEMMA StartIs ==
  ASSUME file \in Seq(Bytes), NEW b \in Nat, b <= Len(file), Off(Len(file)) = Len(file) - b,
         NEW x \in Nat, x = b \/ x \in FragmentEnds, b <= x, \A n \in FragmentEnds : n <= x
  PROVE  TailStart = x
<1>. DEFINE size == Len(file)
            S == FragmentEnds \cup {size - (size % BlockSize)}
<1>1. size \in Nat
  BY LenProperties
<1>2. size - (size % BlockSize) = b
  BY <1>1 DEF Off
<1>3. S = FragmentEnds \cup {b}
  BY <1>2
<1>4. S \subseteq Nat
  BY <1>1, <1>3, LenProperties DEF FragmentEnds
<1>5. TailStart = Max(S)
  BY DEF TailStart
<1>. HIDE DEF S
<1>6. x \in S /\ \A y \in S : y <= x
  BY <1>3
<1>. QED  BY <1>4, <1>5, <1>6, LargestIs

(* A reader on track to the end of the file ends "corrupt" exactly when    *)
(* the log was cut off in a header or between the fragments of a record.   *)
LEMMA StoppedTail ==
  ASSUME file \in Seq(Bytes), Good(file), Sound(file, Len(file)),
         NEW m \in Readers, NEW e, Placement(m), OnTrack(m, Len(file)), ~Advances(m), ~Takes(m),
           Stopped(m, e)
  PROVE  TailTold(e)
<1>. DEFINE c == m.from - 1
            N == Len(file)
<1>1. PICK base \in Nat : AtBlock(m, base)
  BY DEF Placement
<1>2. m.from \in Nat /\ m.to \in Nat /\ N \in Nat /\ N \in 0 .. N /\ m.eof \in BOOLEAN
      /\ m.in_fragmented \in BOOLEAN
  BY LenProperties DEF Readers
<1>3. /\ Off(base) = 0 /\ base <= c /\ m.from <= m.to + 1
      /\ m.to <= base + BlockSize /\ m.to <= N
      /\ m.eof => m.to = N /\ m.to < base + BlockSize
      /\ ~m.eof => m.to \in {base, base + BlockSize}
      /\ c = base \/ c \in FragmentEnds
  BY <1>1 DEF AtBlock
<1>4. c \in Nat /\ c <= N /\ m.from = c + 1 /\ c <= m.to /\ N <= N
  BY <1>2, <1>3
<1>5. \A n \in FragmentEnds : n \in Nat /\ n <= N
  BY LenProperties DEF FragmentEnds
<1>6. \A n \in FragmentEnds : n <= c
  <2>1. OnTrack(e, N)
    BY <1>2, StoppedTrack
  <2>. QED  BY <1>5, <2>1 DEF OnTrack, Stopped
<1>7. Within(N) <=> m.in_fragmented
  <2>1. \A n \in FragmentEnds : n <= N <=> n <= c
    BY <1>5, <1>6
  <2>2. Within(N) <=> Within(c)
    BY <2>1 DEF Within
  <2>. QED  BY <1>4, <2>2 DEF OnTrack
<1>8. EofHow(m) = "corrupt" <=> Within(N)
  BY <1>7 DEF EofHow
<1>9. m.eof => TailStart = c
  <2>1. SUFFICES ASSUME m.eof PROVE TailStart = c
    OBVIOUS
  <2>2. N \in base .. base + BlockSize - 1
    BY <1>2, <1>3, <1>4, <2>1, Sizes
  <2>3. Off(N) = N - base /\ base <= N
    BY <1>2, <1>3, <1>4, <2>2, InBlock
  <2>. QED  BY <1>3, <1>4, <1>6, <2>3, StartIs
<1>10. ~m.eof => Off(m.to) = 0
  <2>1. Off(base) + BlockSize = BlockSize
    BY <1>3, Sizes
  <2>2. Off(base + BlockSize) = 0
    BY <2>1, Offsets, Sizes
  <2>. QED  BY <1>3, <2>2
<1>. HIDE DEF c, N
<1>11. CASE NoHeader(m) /\ m.eof
  <2>1. e.ends = IF m.from <= m.to THEN "corrupt" ELSE EofHow(m)
    BY <1>11 DEF Stopped
  <2>2. m.to = N /\ TailStart = c
    BY <1>3, <1>9, <1>11
  <2>3. Broken <=> m.from <= m.to
    BY <1>2, <1>4, <1>11, <2>2, Sizes DEF NoHeader, Broken, N
  <2>. QED  BY <1>8, <2>1, <2>3 DEF TailTold, N
<1>12. CASE NoHeader(m) /\ ~m.eof
  <2>1. e.ends = IF m.to = N THEN EofHow(m) ELSE "corrupt"
    BY <1>12 DEF Stopped, N
  <2>2. N - m.to < HeaderSize
    BY <1>2, <1>12, Sizes DEF Advances, N
  <2>3. N \in m.to .. m.to + BlockSize - 1
    BY <1>2, <1>3, <2>2, Sizes
  <2>4. Off(N) = N - m.to
    BY <1>2, <1>10, <1>12, <2>3, InBlock
  <2>5. TailStart = m.to
    <3>1. \A n \in FragmentEnds : n <= m.to
      BY <1>2, <1>4, <1>5, <1>6
    <3>. QED  BY <1>2, <1>3, <2>4, <3>1, StartIs DEF N
  <2>6. Broken <=> m.to # N
    BY <1>2, <1>3, <2>2, <2>5, Sizes DEF Broken, N
  <2>. QED  BY <1>8, <2>1, <2>6 DEF TailTold, N
<1>13. CASE ~NoHeader(m)
  <2>. DEFINE g == file[c + 1][1]
  <2>1. c + HeaderSize <= m.to
    BY <1>2, <1>4, <1>13, Sizes DEF NoHeader
  <2>2. c \in 0 .. N /\ c < N
    BY <1>2, <1>3, <1>4, <2>1, Sizes
  <2>3. Cut(file, c) /\ ~InTrailer(c) /\ (~m.eof => m.to >= c + (BlockSize - Off(c)))
    BY <1>2, <1>4, <1>13, Ahead DEF c, N
  <2>4. /\ file[c + 1] # Zero /\ g \in Fragments
        /\ Off(c) + Size(g) <= BlockSize
        /\ \A i \in 1 .. N : c < i /\ i <= c + Size(g) => file[i] = <<g, i - c>>
    BY <1>2, <2>2, <2>3, FragmentDue DEF N
  <2>5. g = At(m)
    BY <1>4 DEF At
  <2>. HIDE DEF g
  <2>6. Size(g) \in Nat /\ Off(c) \in Nat /\ Size(g) >= HeaderSize
    BY <1>4, <2>4, FragmentParts, Offsets
  <2>7. ASSUME NEW i \in 1 .. Size(g), c + i <= N PROVE file[m.from + i - 1] = <<g, i>>
    <3>1. c + i \in 1 .. N /\ c < c + i /\ c + i <= c + Size(g) /\ m.from + i - 1 = c + i /\ (c + i) - c = i
      BY <1>2, <1>4, <2>6, <2>7
    <3>. QED  BY <2>4, <3>1
  <2>8. m.from + Size(g) > m.to + 1
    <3>1. SUFFICES ASSUME ~(m.from + Size(g) > m.to + 1) PROVE FALSE
      OBVIOUS
    <3>. DEFINE d == c + Size(g)
    <3>2. d \in 1 .. N /\ d > c /\ d - c = Size(g)
      <4>1. /\ c \in Nat /\ m.from = c + 1 /\ m.to \in Nat /\ m.to <= N /\ N \in Nat
            /\ Size(g) \in Nat /\ Size(g) >= HeaderSize /\ HeaderSize \in Nat \ {0}
        BY <1>2, <1>3, <1>4, <2>6, Sizes
      <4>. QED  BY ONLY <3>1, <4>1
    <3>. HIDE DEF d
    <3>3. file[d] = <<g, Size(g)>>
      BY <2>4, <3>2 DEF d
    <3>4. d \in FragmentEnds
      <4>1. file[d] # Zero /\ file[d][1] = g /\ file[d][2] = Size(g)
        BY <2>4, <2>6, <3>3, ByteParts
      <4>. QED  BY <3>2, <4>1, LenProperties DEF FragmentEnds, Size, N
    <3>. QED  BY <1>4, <1>6, <3>2, <3>4
  <2>9. m.eof
    BY <1>2, <1>4, <2>3, <2>4, <2>6, <2>8, Sizes
  <2>10. Cuts(m)
    <3>1. \A i \in 1 .. HeaderSize : i \in 1 .. Size(g) /\ c + i <= N
      BY <1>2, <1>3, <1>4, <2>1, <2>6, Sizes
    <3>2. \A i \in 1 .. HeaderSize : file[m.from + i - 1] = <<g, i>>
      BY <2>7, <3>1
    <3>. QED  BY <1>4, <1>13, <2>4, <2>5, <2>8, <2>9, <3>2 DEF Cuts, Holds
  <2>11. e.ends = EofHow(m)
    BY <2>10 DEF Stopped
  <2>12. ~Broken
    BY <1>2, <1>3, <1>4, <1>9, <2>1, <2>9, Sizes DEF Broken, N
  <2>. QED  BY <1>8, <2>11, <2>12 DEF TailTold, N
<1>. QED  BY <1>11, <1>12, <1>13

-----------------------------------------------------------------------------
(* The reader from its first turn to its last.                             *)

(* What is true of the reader at any time, if the fragments of the records *)
(* of F and the first p bytes are in order.                                *)
RInv(m, F, p) ==
  /\ m \in Readers /\ Placement(m) /\ Joining(m, F) /\ ReadWell(m, F) /\ OnTrack(m, p)
  /\ Ordered(file) => InOrder(m)
  /\ p = Len(file) => TailTold(m)

(* The reader before its first turn.                                       *)
LEMMA NewReaderIs ==
  ASSUME file \in Seq(Bytes), NEW F, NEW p \in 0 .. Len(file)
  PROVE  RInv(NewReader, F, p) /\ NewReader.from + NewReader.to = 1 /\ NewReader.ends = "more"
<1>. DEFINE m == NewReader
<1>1. /\ m \in Readers /\ m.from = 1 /\ m.to = 0 /\ m.eof = FALSE /\ m.in_fragmented = FALSE
      /\ m.read = <<>> /\ Len(m.read) = 0 /\ m.ends = "more"
  BY EmptySeq DEF NewReader, Readers
<1>. HIDE DEF m
<1>2. AtBlock(m, 0)
  BY <1>1, Offsets, LenProperties, Sizes DEF AtBlock
<1>3. Joining(m, F) /\ ReadWell(m, F) /\ InOrder(m) /\ TailTold(m)
  BY <1>1 DEF Joining, ReadWell, InOrder, TailTold
<1>4. \A n \in FragmentEnds : ~(n <= 0)
  BY LenProperties DEF FragmentEnds
<1>5. OnTrack(m, p)
  BY <1>1, <1>4 DEF OnTrack, Cut, EndOf, Within
<1>. QED  BY <1>1, <1>2, <1>3, <1>5 DEF RInv, Placement, m

(* A turn keeps the invariant of the reader; one that is not its last      *)
(* moves it on in the file.                                                *)
LEMMA TurnKeeps ==
  ASSUME file \in Seq(Bytes), Good(file), NEW F, Firm(F), NEW p \in 0 .. Len(file), Sound(file, p),
         NEW m, RInv(m, F, p)
  PROVE  /\ RInv(Turn(m), F, p)
         /\ Turn(m).ends = "more" => m.ends = "more" /\ Turn(m).from + Turn(m).to > m.from + m.to
<1>. DEFINE e == Turn(m)
<1>1. /\ m \in Readers /\ Placement(m) /\ Joining(m, F) /\ ReadWell(m, F) /\ OnTrack(m, p)
      /\ Ordered(file) => InOrder(m)
      /\ p = Len(file) => TailTold(m)
  BY DEF RInv
<1>2. m.from >= 1 /\ m.to <= Len(file) /\ m.from <= m.to + 1 /\ m.from \in Nat /\ m.to \in Nat
  BY <1>1 DEF Placement, AtBlock, Readers
<1>3. CASE m.ends # "more"
  <2>1. e = m
    BY <1>3 DEF Turn
  <2>. QED  BY <1>3, <2>1
<1>4. CASE m.ends = "more" /\ Advances(m)
  <2>1. e \in Readers /\ Advanced(m, e)
    BY <1>1, <1>2, <1>4, TurnAdvances
  <2>. HIDE DEF e
  <2>2. Placement(e) /\ Joining(e, F) /\ ReadWell(e, F) /\ OnTrack(e, p)
    BY <1>1, <1>4, <2>1, AdvancedPlace, AdvancedLists, AdvancedTrack
  <2>3. Ordered(file) => InOrder(e)
    BY <1>1, <2>1, AdvancedOrder
  <2>4. TailTold(e)
    BY <2>1 DEF Advanced, TailTold
  <2>5. e.from + e.to > m.from + m.to
    BY <1>2, <2>1 DEF Advanced, Readers
  <2>6. RInv(e, F, p)
    BY <2>1, <2>2, <2>3, <2>4 DEF RInv
  <2>. QED  BY <1>4, <2>5, <2>6 DEF e
<1>5. CASE m.ends = "more" /\ Takes(m)
  <2>1. e \in Readers /\ Taken(m, e)
    BY <1>1, <1>2, <1>5, TurnTakes
  <2>. HIDE DEF e
  <2>2. Placement(e)
    BY <1>1, <1>5, <2>1, TakenPlace
  <2>3. Joining(e, F) /\ ReadWell(e, F)
    BY <1>1, <1>5, <2>1, TakenLists
  <2>4. OnTrack(e, p)
    BY <1>1, <1>5, <2>1, TakenTrack
  <2>5. Ordered(file) => InOrder(e)
    BY <1>1, <1>5, <2>1, TakenOrder
  <2>6. TailTold(e)
    BY <2>1 DEF Taken, TailTold
  <2>7. Size(At(m)) \in Nat \ {0}
    BY <1>1, <1>2, <1>5, TakenBytes
  <2>8. e.from + e.to > m.from + m.to
    BY <1>2, <2>1, <2>7 DEF Taken
  <2>9. RInv(e, F, p)
    BY <2>1, <2>2, <2>3, <2>4, <2>5, <2>6 DEF RInv
  <2>. QED  BY <1>5, <2>8, <2>9 DEF e
<1>6. CASE m.ends = "more" /\ ~Advances(m) /\ ~Takes(m)
  <2>1. e \in Readers /\ Stopped(m, e)
    BY <1>1, <1>2, <1>6, TurnStops
  <2>. HIDE DEF e
  <2>2. /\ e.from = m.from /\ e.to = m.to /\ e.eof = m.eof /\ e.scratch = m.scratch
        /\ e.in_fragmented = m.in_fragmented /\ e.read = m.read /\ e.ends # "more"
    BY <2>1 DEF Stopped
  <2>3. Placement(e) /\ Joining(e, F) /\ ReadWell(e, F) /\ (Ordered(file) => InOrder(e))
    BY <1>1, <2>2 DEF Placement, AtBlock, Joining, NoHeader, ReadWell, InOrder
  <2>4. OnTrack(e, p)
    BY <1>1, <1>6, <2>1, StoppedTrack
  <2>5. p = Len(file) => TailTold(e)
    BY <1>1, <1>6, <2>1, StoppedTail
  <2>6. RInv(e, F, p)
    BY <2>1, <2>3, <2>4, <2>5 DEF RInv
  <2>. QED  BY <2>2, <2>6 DEF e
<1>. QED  BY <1>3, <1>4, <1>5, <1>6

(* The reader comes to its end, in order.                                  *)
LEMMA ReadLogIs ==
  ASSUME file \in Seq(Bytes), Good(file), NEW F, Firm(F), NEW p \in 0 .. Len(file), Sound(file, p)
  PROVE  RInv(ReadLog, F, p) /\ ReadLog.ends # "more"
<1>. DEFINE D == {m \in Readers : RInv(m, F, p)}
            n == 2 * Len(file) + 1
            g == [m \in D |-> Turn(m)]
            Run(r) == r = [i \in 0 .. n |-> IF i = 0 THEN NewReader ELSE Turn(r[i - 1])]
<1>1. n \in Nat /\ Len(file) \in Nat
  BY LenProperties
<1>2. \A m \in D : Turn(m) \in D
  BY TurnKeeps DEF RInv
<1>3. g \in [D -> D] /\ NewReader \in D /\ \A m \in D : g[m] = Turn(m)
  <2>1. NewReader \in D
    BY NewReaderIs DEF RInv
  <2>. QED  BY <1>2, <2>1
<1>4. PICK s : Turns(s, n, g, NewReader) /\ \A i \in 0 .. n : s[i] \in D
  <2>. HIDE DEF D, n, g
  <2>. QED  BY <1>1, <1>3, TurnsExist
<1>5. s[0] = NewReader /\ \A i \in 1 .. n : s[i] = Turn(s[i - 1])
  <2>1. \A i \in 1 .. n : i - 1 \in 0 .. n
    BY <1>1
  <2>. HIDE DEF D, n, g
  <2>. QED  BY <1>3, <1>4, <2>1 DEF Turns
<1>6. \E r : Run(r)
  <2>. DEFINE r == [i \in 0 .. n |-> s[i]]
  <2>1. \A i \in 0 .. n : i = 0 \/ (i \in 1 .. n /\ i - 1 \in 0 .. n /\ i # 0)
    BY <1>1
  <2>2. \A i \in 0 .. n : r[i] = IF i = 0 THEN NewReader ELSE Turn(r[i - 1])
    <3>1. \A i \in 0 .. n : r[i] = s[i]
      OBVIOUS
    <3>. HIDE DEF r, n
    <3>. QED  BY <1>5, <2>1, <3>1
  <2>3. Run(r)
    <3>. HIDE DEF n
    <3>. QED  BY <2>2
  <2>. HIDE DEF r, Run
  <2>. QED  BY <2>3
<1>. DEFINE r == CHOOSE r : Run(r)
<1>7. Run(r)
  BY <1>6
<1>8. ReadLog = r[n]
  BY DEF ReadLog
<1>. HIDE DEF r
<1>9. r[0] = NewReader /\ \A i \in 1 .. n : r[i] = Turn(r[i - 1])
  <2>1. 0 \in 0 .. n /\ \A i \in 1 .. n : i \in 0 .. n /\ i # 0
    BY <1>1
  <2>. HIDE DEF n
  <2>2. \A i \in 0 .. n : r[i] = IF i = 0 THEN NewReader ELSE Turn(r[i - 1])
    BY <1>7
  <2>. QED  BY <2>1, <2>2
<1>. HIDE DEF D, g, Run
<1>. DEFINE T == {i \in 0 .. n : r[i] \in D /\ (r[i].ends = "more" => i + 1 <= r[i].from + r[i].to)}
<1>10. 0 \in T
  <2>1. r[0] \in D /\ r[0].from + r[0].to = 1 /\ 0 \in 0 .. n
    BY <1>1, <1>3, <1>9, NewReaderIs
  <2>. HIDE DEF n
  <2>2. 0 + 1 <= r[0].from + r[0].to
    BY <2>1
  <2>. QED  BY <2>1, <2>2
<1>11. ASSUME NEW i \in 1 .. n, i - 1 \in T PROVE i \in T
  <2>. DEFINE m == r[i - 1]
              e == r[i]
  <2>1. m \in D /\ e = Turn(m) /\ (m.ends = "more" => i <= m.from + m.to)
    BY <1>1, <1>9, <1>11
  <2>. HIDE DEF m, e
  <2>2. /\ RInv(m, F, p) /\ RInv(e, F, p) /\ e \in D
        /\ e.ends = "more" => m.ends = "more" /\ e.from + e.to > m.from + m.to
    BY <1>2, <2>1, TurnKeeps DEF D
  <2>3. m.from \in Nat /\ m.to \in Nat /\ e.from \in Nat /\ e.to \in Nat
    BY <2>2 DEF RInv, Readers
  <2>4. e.ends = "more" => i + 1 <= e.from + e.to
    BY <1>1, <2>1, <2>2, <2>3
  <2>. QED  BY <1>1, <2>2, <2>4 DEF e
<1>12. n \in T
  <2>. HIDE DEF T, n
  <2>1. \A i \in 0 .. n : i \in T
    BY <1>1, <1>10, <1>11, UpTo
  <2>. QED  BY <1>1, <2>1
<1>13. RInv(ReadLog, F, p) /\ (ReadLog.ends = "more" => n + 1 <= ReadLog.from + ReadLog.to)
  BY <1>8, <1>12 DEF D
<1>14. /\ ReadLog.from \in Nat /\ ReadLog.to \in Nat
       /\ ReadLog.from <= ReadLog.to + 1 /\ ReadLog.to <= Len(file)
  BY <1>13 DEF RInv, Placement, AtBlock, Readers
<1>. QED  BY <1>1, <1>13, <1>14

-----------------------------------------------------------------------------
(* The properties.                                                         *)

(* A record of F that was read to its end was read whole.                  *)
LEMMA ReadWhole ==
  ASSUME NEW m \in Readers, NEW F, ReadWell(m, F), NEW i \in DOMAIN m.read,
         Last(m.read[i]).record \in F
  PROVE  Whole(m.read[i], Last(m.read[i]).record)
<1>. DEFINE L == m.read[i]
            r == Last(L).record
<1>1. m.read \in Seq(Seq(Fragments)) /\ i \in 1 .. Len(m.read)
  BY LenProperties DEF Readers
<1>2. L \in Seq(Fragments) /\ Len(L) \in Nat
  BY <1>1, ElementOfSeq, LenProperties
<1>3. L # <<>> /\ GoodFragment(L[Len(L)]) /\ Final(L[Len(L)]) /\ Chain(L, F)
  BY <1>1 DEF ReadWell
<1>. HIDE DEF L
<1>4. r = L[Len(L)].record /\ r \in F
  BY DEF Last, L
<1>5. Len(L) > 0
  BY <1>2, <1>3, EmptySeq
<1>6. /\ L[1].offset = 0
      /\ \A j \in 1 .. Len(L) : L[j].record = r
      /\ \A j \in 1 .. Len(L) - 1 : L[j + 1].offset = L[j].offset + L[j].length
  BY <1>3, <1>4 DEF Chain
<1>7. L[Len(L)].offset + L[Len(L)].length = records[r]
  BY <1>3, <1>4 DEF GoodFragment
<1>. HIDE DEF r
<1>8. Whole(L, r)
  BY <1>5, <1>6, <1>7 DEF Whole
<1>. QED  BY <1>8 DEF L, r

(* What the invariant of the writer says to a reader: the fragments of     *)
(* acknowledged records are in order whatever failed, and all of the file  *)
(* is when nothing is damaged.                                             *)
LEMMA FileIsFirm ==
  ASSUME IInv
  PROVE  /\ file \in Seq(Bytes) /\ Good(file) /\ Len(file) \in Nat
         /\ Firm(acked)
         /\ ~damaged => Firm(Nat) /\ Sound(file, Len(file)) /\ Ordered(file)
<1>1. /\ Typed /\ Good(file) /\ AckedJoined /\ Undamaged /\ file \in Seq(Bytes) /\ Len(file) \in Nat
  BY LenProperties DEF IInv, Typed
<1>2. Firm(acked)
  BY <1>1 DEF Firm, AckedJoined
<1>3. ASSUME ~damaged PROVE Firm(Nat) /\ Sound(file, Len(file)) /\ Ordered(file)
  <2>1. Sound(Stream, Len(Stream)) /\ Ordered(Stream)
    BY <1>1, <1>3 DEF Undamaged
  <2>2. /\ Len(Stream) \in Nat /\ Len(file) \in 0 .. Len(Stream)
        /\ \A n \in 1 .. Len(file) : file[n] = Stream[n]
    BY <1>1, StreamBytes
  <2>3. Sound(file, Len(file))
    BY <2>1, <2>2, SoundAgree
  <2>4. Ordered(file)
    BY <1>1, <2>1, <2>2, OrderedAgree
  <2>5. Firm(Nat)
    BY <2>3 DEF Firm, Sound, Chained
  <2>. QED  BY <2>3, <2>4, <2>5
<1>. QED  BY <1>1, <1>2, <1>3

(* A record that ends in the first p bytes, in order, is among those read. *)
LEMMA EndsAreRead ==
  ASSUME IInv, NEW p \in 0 .. Len(file), Sound(file, p), NEW r \in acked, EndsIn(r, p)
  PROVE  r \in RecordsRead
<1>. DEFINE m == ReadLog
<1>1. file \in Seq(Bytes) /\ Good(file) /\ Len(file) \in Nat /\ Firm(acked)
  BY FileIsFirm
<1>2. RInv(m, acked, p) /\ m.ends # "more"
  BY <1>1, ReadLogIs
<1>. HIDE DEF m
<1>3. PICK n \in 1 .. p : /\ file[n] # Zero /\ file[n][2] = Size(file[n][1])
                          /\ file[n][1].record = r /\ Final(file[n][1])
  BY DEF EndsIn
<1>4. n \in FragmentEnds /\ n <= p
  BY <1>1, <1>3, LenProperties DEF FragmentEnds, Size
<1>5. n <= m.from - 1
  BY <1>2, <1>4 DEF RInv, OnTrack
<1>6. PICK i \in 1 .. Len(m.read) : m.read[i][Len(m.read[i])] = file[n][1]
  BY <1>2, <1>3, <1>4, <1>5 DEF RInv, OnTrack
<1>7. i \in DOMAIN m.read /\ Last(m.read[i]).record = r
  BY <1>2, <1>3, <1>6, LenProperties DEF RInv, Readers, Last
<1>8. Whole(m.read[i], r)
  BY <1>2, <1>7, ReadWhole DEF RInv
<1>9. r \in 1 .. Len(records)
  BY DEF IInv, Typed, TypeOK
<1>. QED  BY <1>7, <1>8, <1>9 DEF RecordsRead, m

(* No acknowledged record is lost: what AddRecord returned OK for is read  *)
(* back whole by log::Reader while the process lives and after its end,    *)
(* and after a power failure what was acknowledged before the last Sync,   *)
(* for records, blocks and buffers of any length, as long as no failed     *)
(* call wrote a part of its bytes; such a call never takes what was synced *)
(* before it.                                                              *)
THEOREM Readable == Spec => []AckedReadable
<1>1. IInv => AckedReadable
  <2>1. SUFFICES ASSUME IInv PROVE AckedReadable
    OBVIOUS
  <2>2. file \in Seq(Bytes) /\ Len(file) \in Nat /\ synced \in 0 .. Len(file) /\ durable \subseteq acked
    BY <2>1, LenProperties DEF IInv, Typed, TypeOK
  <2>3. durable \subseteq RecordsRead
    <3>1. PICK p \in 0 .. synced : Sound(file, p) /\ \A r \in durable : EndsIn(r, p)
      BY <2>1 DEF IInv, DurableEnds
    <3>2. p \in 0 .. Len(file)
      BY <2>2, <3>1
    <3>. QED  BY <2>1, <2>2, <3>1, <3>2, EndsAreRead
  <2>4. ASSUME ~damaged, life # "powerless" PROVE acked \subseteq RecordsRead
    <3>1. Len(file) \in 0 .. Len(file) /\ Sound(file, Len(file))
      BY <2>1, <2>2, <2>4, FileIsFirm
    <3>2. \A r \in acked : EndsIn(r, Len(file))
      BY <2>1, <2>4 DEF IInv, AckedEnds
    <3>. QED  BY <2>1, <3>1, <3>2, EndsAreRead
  <2>. QED  BY <2>3, <2>4 DEF AckedReadable
<1>. QED  BY <1>1, Invariance, PTL

(* What log::Reader returns was written: records are read whole, once, and *)
(* in the order AddRecord was given them; and after a failed call of the   *)
(* file that wrote a part of its bytes, which the next call writes again,  *)
(* a record read that ends as an acknowledged one is that record, with     *)
(* none of its bytes from another.                                         *)
THEOREM Faithful == Spec => []NothingInvented
<1>1. IInv => NothingInvented
  <2>1. SUFFICES ASSUME IInv PROVE NothingInvented
    OBVIOUS
  <2>. DEFINE m == ReadLog
              r(i) == Last(m.read[i]).record
  <2>2. file \in Seq(Bytes) /\ Good(file) /\ Len(file) \in Nat /\ Firm(acked) /\ 0 \in 0 .. Len(file)
        /\ Sound(file, 0)
    <3>1. Sound(file, 0)
      BY DEF Sound, Placed, Filled, Chained
    <3>. QED  BY <2>1, <3>1, FileIsFirm
  <2>3. RInv(m, acked, 0)
    BY <2>2, ReadLogIs
  <2>4. ~damaged => RInv(m, Nat, 0) /\ Ordered(file)
    BY <2>1, <2>2, FileIsFirm, ReadLogIs
  <2>. HIDE DEF m
  <2>5. ASSUME NEW i \in DOMAIN m.read PROVE ~damaged \/ r(i) \in acked => Whole(m.read[i], r(i))
    <3>1. m \in Readers /\ ReadWell(m, acked)
      BY <2>3 DEF RInv
    <3>2. CASE r(i) \in acked
      BY <3>1, <3>2, ReadWhole
    <3>3. CASE ~damaged
      <4>1. ReadWell(m, Nat)
        BY <2>4, <3>3 DEF RInv
      <4>2. r(i) \in Nat
        <5>1. i \in 1 .. Len(m.read) /\ m.read[i] # <<>>
          BY <3>1, LenProperties DEF Readers, ReadWell
        <5>2. GoodFragment(m.read[i][Len(m.read[i])])
          BY <4>1, <5>1 DEF ReadWell
        <5>. QED  BY <5>2, FragmentParts DEF GoodFragment, Last
      <4>. QED  BY <3>1, <4>1, <4>2, ReadWhole
    <3>. QED  BY <3>2, <3>3
  <2>6. ASSUME ~damaged, NEW i \in DOMAIN m.read, NEW j \in DOMAIN m.read, i < j PROVE r(i) < r(j)
    <3>1. InOrder(m) /\ i \in 1 .. Len(m.read) /\ j \in 1 .. Len(m.read)
      BY <2>3, <2>4, <2>6, LenProperties DEF RInv, Readers
    <3>. QED  BY <2>6, <3>1 DEF InOrder, Last
  <2>. QED  BY <2>5, <2>6 DEF NothingInvented, m
<1>. QED  BY <1>1, Invariance, PTL

(* What log::Reader says of a log that was cut off, as RecoverLogFile      *)
(* takes it: it is reported as corrupt exactly when the cut left a part of *)
(* a header or of a trailer, or fell between the fragments of a record; a  *)
(* cut in the payload of a first fragment reads as a clean end.            *)
THEOREM TailReported == Spec => []TailExact
<1>1. IInv => TailExact
  <2>1. SUFFICES ASSUME IInv, ~damaged
                 PROVE  LET size   == Len(file)
                            start  == Max(FragmentEnds \cup {size - (size % BlockSize)})
                            broken == size - start \in 1 .. HeaderSize - 1
                            within == FragmentEnds # {} /\ file[Max(FragmentEnds)][1].type \in {"first", "middle"}
                        IN (ReadLog.ends = "corrupt") <=> (broken \/ within)
    BY DEF TailExact
  <2>2. /\ file \in Seq(Bytes) /\ Good(file) /\ Len(file) \in Nat /\ Len(file) \in 0 .. Len(file)
        /\ Firm(Nat) /\ Sound(file, Len(file))
    BY <2>1, FileIsFirm
  <2>3. RInv(ReadLog, Nat, Len(file)) /\ ReadLog.ends # "more"
    BY <2>2, ReadLogIs
  <2>4. ReadLog.ends = "corrupt" <=> Broken \/ Within(Len(file))
    BY <2>3 DEF RInv, TailTold
  <2>5. /\ FragmentEnds \subseteq Nat /\ \A n \in FragmentEnds : n <= Len(file) /\ file[n][1] \in Fragments
    BY <2>2, ByteParts, ElementOfSeq, LenProperties DEF FragmentEnds
  <2>6. Within(Len(file)) <=> FragmentEnds # {} /\ file[Max(FragmentEnds)][1].type \in {"first", "middle"}
    <3>1. ASSUME NEW n \in FragmentEnds, \A k \in FragmentEnds : k <= n PROVE Max(FragmentEnds) = n
      BY <2>5, <3>1, LargestIs
    <3>2. \A g \in Fragments : ~Final(g) <=> g.type \in {"first", "middle"}
      BY FragmentParts DEF Final
    <3>3. ASSUME Within(Len(file))
          PROVE  FragmentEnds # {} /\ file[Max(FragmentEnds)][1].type \in {"first", "middle"}
      <4>1. PICK n \in FragmentEnds : /\ n <= Len(file) /\ ~Final(file[n][1])
                                      /\ \A k \in FragmentEnds : k <= Len(file) => k <= n
        BY <3>3 DEF Within
      <4>2. Max(FragmentEnds) = n
        BY <2>5, <3>1, <4>1
      <4>. QED  BY <2>5, <3>2, <4>1, <4>2
    <3>4. ASSUME FragmentEnds # {}, file[Max(FragmentEnds)][1].type \in {"first", "middle"}
          PROVE  Within(Len(file))
      <4>. DEFINE n == Max(FragmentEnds)
      <4>1. IsFiniteSet(FragmentEnds)
        <5>1. IsFiniteSet(1 .. Len(file)) /\ FragmentEnds \subseteq 1 .. Len(file)
          <6>1. 1 \in Int /\ Len(file) \in Int
            BY <2>2
          <6>2. IsFiniteSet(1 .. Len(file))
            BY ONLY <6>1, FS_Interval
          <6>. QED  BY <2>2, <6>2, LenProperties DEF FragmentEnds
        <5>. QED  BY <5>1, FS_Subset
      <4>2. n \in FragmentEnds /\ \A k \in FragmentEnds : k <= n
        BY <2>5, <3>4, <4>1, LargestInSet
      <4>. HIDE DEF n
      <4>3. ~Final(file[n][1])
        BY <2>5, <3>2, <3>4, <4>2 DEF n
      <4>. QED  BY <2>5, <4>2, <4>3 DEF Within
    <3>. QED  BY <3>3, <3>4
  <2>. QED  BY <2>4, <2>6 DEF Broken, TailStart
<1>. QED  BY <1>1, Invariance, PTL
=============================================================================
