---------------------------- MODULE BufferProofs ----------------------------
(***************************************************************************)
(* Proofs, for every size and every set of bytes, that the buffer's        *)
(* indices stay in order, that the asserts of its growth code hold, and    *)
(* that the buffer implements a byte queue.                                *)
(***************************************************************************)
EXTENDS Buffer, SequenceTheorems, TLAPS

Cell == Byte \cup {Zero}

(* A buffer whose indices are in order.                                      *)
Buf == {b \in [buf : Seq(Cell), r : Nat, w : Nat] :
          b.r <= b.w /\ b.w <= Len(b.buf) /\ kCheapPrepend <= Len(b.buf)}

-----------------------------------------------------------------------------
(* Lemmas on the operators.                                                  *)

(* std::copy into a vector changes neither its length nor other elements.    *)
LEMMA CopyToFacts ==
  ASSUME NEW S, NEW buf \in Seq(S), NEW at \in Nat, NEW data \in Seq(S)
  PROVE  /\ CopyTo(buf, at, data) \in Seq(S)
         /\ Len(CopyTo(buf, at, data)) = Len(buf)
         /\ \A i \in 1 .. Len(buf) :
              i <= at \/ i > at + Len(data) => CopyTo(buf, at, data)[i] = buf[i]
         /\ \A i \in 1 .. Len(data) :
              at + i <= Len(buf) => CopyTo(buf, at, data)[at + i] = data[i]
<1> DEFINE c == CopyTo(buf, at, data)
<1>1. Len(buf) \in Nat /\ Len(data) \in Nat
  BY LenProperties
<1>2. \A i \in 1 .. Len(buf) : i \in at + 1 .. at + Len(data) => i - at \in 1 .. Len(data)
  BY <1>1
<1>3. c \in [1 .. Len(buf) -> S]
  BY <1>2, ElementOfSeq DEF CopyTo
<1>4. c \in Seq(S)
  BY <1>1, <1>3, SeqDef
<1>5. Len(c) = Len(buf)
  BY <1>1, <1>3, <1>4, LenProperties
<1>6. ASSUME NEW i \in 1 .. Len(buf), i <= at \/ i > at + Len(data)
      PROVE  c[i] = buf[i]
  BY <1>1, <1>6 DEF CopyTo
<1>7. ASSUME NEW i \in 1 .. Len(data), at + i <= Len(buf)
      PROVE  c[at + i] = data[i]
  <2>1. /\ at + i \in 1 .. Len(buf) /\ at + i \in at + 1 .. at + Len(data)
        /\ (at + i) - at = i
    BY <1>1, <1>7
  <2> QED
    BY <2>1 DEF CopyTo
<1> QED
  BY <1>4, <1>5, <1>6, <1>7

(* A part of a sequence.                                                     *)
LEMMA SubSeqFacts ==
  ASSUME NEW S, NEW s \in Seq(S), NEW m \in Nat, NEW n \in Nat,
         m >= 1, n <= Len(s), m <= n + 1
  PROVE  /\ SubSeq(s, m, n) \in Seq(S)
         /\ Len(SubSeq(s, m, n)) = (n + 1) - m
         /\ \A i \in 1 .. (n + 1) - m : SubSeq(s, m, n)[i] = s[(m - 1) + i]
<1>1. SubSeq(s, m, n) \in Seq(S)
  OBVIOUS
<1>2. Len(SubSeq(s, m, n)) = (n + 1) - m
  OBVIOUS
<1>3. ASSUME NEW i \in 1 .. (n + 1) - m
      PROVE  SubSeq(s, m, n)[i] = s[(m - 1) + i]
  OBVIOUS
<1> QED
  BY <1>1, <1>2, <1>3

(* The new room of a resized vector.                                         *)
LEMMA ZerosFacts ==
  ASSUME NEW n \in Nat
  PROVE  Zeros(n) \in Seq(Cell) /\ Len(Zeros(n)) = n
<1>1. Zeros(n) \in [1 .. n -> Cell]
  BY DEF Zeros, Cell
<1>2. Zeros(n) \in Seq(Cell)
  BY <1>1, SeqDef
<1> QED
  BY <1>1, <1>2, LenProperties

(* The readable bytes of a buffer.                                           *)
LEMMA PeekFacts ==
  ASSUME NEW b \in Buf
  PROVE  /\ peek(b) \in Seq(Cell)
         /\ Len(peek(b)) = readable(b)
         /\ readable(b) \in Nat
         /\ \A i \in 1 .. readable(b) : peek(b)[i] = b.buf[b.r + i]
<1>1. /\ b.buf \in Seq(Cell) /\ Len(b.buf) \in Nat
      /\ b.r \in Nat /\ b.w \in Nat /\ b.r <= b.w /\ b.w <= Len(b.buf)
      /\ kCheapPrepend <= Len(b.buf)
  BY LenProperties DEF Buf
<1>2. readable(b) = b.w - b.r /\ readable(b) \in Nat
  BY <1>1 DEF readable
<1>3. peek(b) \in Seq(Cell) /\ Len(peek(b)) = readable(b)
  BY <1>1, <1>2 DEF peek
<1>4. ASSUME NEW i \in 1 .. readable(b)
      PROVE  peek(b)[i] = b.buf[b.r + i]
  BY <1>1, <1>2 DEF peek
<1> QED
  BY <1>2, <1>3, <1>4

(* Two buffers with equally many, equal readable bytes hold the same queue.  *)
LEMMA SamePeek ==
  ASSUME NEW b \in Buf, NEW c \in Buf,
         readable(b) = readable(c),
         \A i \in 1 .. readable(b) : b.buf[b.r + i] = c.buf[c.r + i]
  PROVE  peek(b) = peek(c)
BY PeekFacts, SeqEqual

(* makeSpace(len), called when fewer than len bytes are free, has its assert *)
(* satisfied, makes room for len bytes and keeps the readable bytes          *)
(* (Buffer.h:118-131).                                                       *)
LEMMA MakeSpaceFacts ==
  ASSUME SizesAssumption, NEW b \in Buf, NEW len \in Nat, writable(b) < len
  PROVE  /\ makeSpace(b, len) \in Buf
         /\ writable(makeSpace(b, len)) >= len
         /\ ~MustGrow(b, len) => kCheapPrepend < b.r
         /\ peek(makeSpace(b, len)) = peek(b)
<1> DEFINE m == makeSpace(b, len)
<1>1. /\ b = [buf |-> b.buf, r |-> b.r, w |-> b.w]
      /\ b.buf \in Seq(Cell) /\ Len(b.buf) \in Nat
      /\ b.r \in Nat /\ b.w \in Nat /\ b.r <= b.w /\ b.w <= Len(b.buf)
      /\ kCheapPrepend <= Len(b.buf)
  BY LenProperties DEF Buf
<1>2. kCheapPrepend \in Nat
  BY DEF SizesAssumption
<1>3. CASE MustGrow(b, len)
  <2> DEFINE z == Zeros(b.w + len - Len(b.buf))
  <2>1. b.w + len - Len(b.buf) \in Nat
    BY <1>1 DEF writable
  <2>2. z \in Seq(Cell) /\ Len(z) = b.w + len - Len(b.buf)
    BY <2>1, ZerosFacts
  <2> HIDE DEF z
  <2>3. /\ b.buf \o z \in Seq(Cell)
        /\ Len(b.buf \o z) = b.w + len
        /\ \A i \in 1 .. Len(b.buf) : (b.buf \o z)[i] = b.buf[i]
    <3>1. /\ b.buf \o z \in Seq(Cell)
          /\ Len(b.buf \o z) = Len(b.buf) + Len(z)
          /\ \A i \in 1 .. Len(b.buf) + Len(z) : (b.buf \o z)[i] =
               IF i <= Len(b.buf) THEN b.buf[i] ELSE z[i - Len(b.buf)]
      BY <1>1, <2>2, ConcatProperties
    <3> QED
      BY <1>1, <2>1, <2>2, <3>1
  <2>4. m = [buf |-> b.buf \o z, r |-> b.r, w |-> b.w]
    BY <1>1, <1>3 DEF makeSpace, z
  <2> HIDE DEF m
  <2>5. m \in Buf
    <3>1. kCheapPrepend <= b.w + len /\ b.w <= b.w + len
      BY <1>1, <1>2, <2>1
    <3> QED
      BY <1>1, <2>3, <2>4, <3>1 DEF Buf
  <2>6. readable(m) = readable(b) /\ \A i \in 1 .. readable(b) : m.buf[m.r + i] = b.buf[b.r + i]
    BY <1>1, <2>3, <2>4 DEF readable
  <2>7. peek(m) = peek(b)
    BY <2>5, <2>6, SamePeek
  <2>8. writable(m) >= len
    BY <1>1, <2>3, <2>4 DEF writable
  <2> QED
    BY <1>3, <2>5, <2>7, <2>8 DEF m
<1>4. CASE ~MustGrow(b, len)
  <2>1. kCheapPrepend < b.r
    BY <1>1, <1>2, <1>4 DEF MustGrow, writable, prependable
  <2> DEFINE c == CopyTo(b.buf, kCheapPrepend, peek(b))
             n == readable(b)
  <2>2. peek(b) \in Seq(Cell) /\ Len(peek(b)) = n /\ n \in Nat
        /\ \A i \in 1 .. n : peek(b)[i] = b.buf[b.r + i]
    BY PeekFacts
  <2>3. n = b.w - b.r
    BY DEF readable
  <2> HIDE DEF n
  <2>4. /\ c \in Seq(Cell) /\ Len(c) = Len(b.buf)
        /\ \A i \in 1 .. n :
             kCheapPrepend + i <= Len(b.buf) => c[kCheapPrepend + i] = peek(b)[i]
    BY <1>1, <1>2, <2>2, CopyToFacts
  <2> HIDE DEF c
  <2>5. m = [buf |-> c, r |-> kCheapPrepend, w |-> kCheapPrepend + n]
    BY <1>4 DEF makeSpace, c, n
  <2> HIDE DEF m
  <2>6. m \in Buf
    BY <1>1, <1>2, <2>1, <2>2, <2>3, <2>4, <2>5 DEF Buf
  <2>7. readable(m) = n
    BY <1>2, <2>2, <2>5 DEF readable
  <2>8. ASSUME NEW i \in 1 .. n
        PROVE  m.buf[m.r + i] = b.buf[b.r + i]
    <3>1. kCheapPrepend + i <= Len(b.buf)
      BY <1>1, <1>2, <2>1, <2>2, <2>3
    <3> QED
      BY <3>1, <2>2, <2>4, <2>5
  <2>9. peek(m) = peek(b)
    BY <2>6, <2>7, <2>8, SamePeek DEF n
  <2>10. writable(m) >= len
    BY <1>1, <1>2, <1>4, <2>3, <2>4, <2>5 DEF writable, MustGrow, prependable
  <2> QED
    BY <2>1, <2>6, <2>9, <2>10 DEF m
<1> QED
  BY <1>3, <1>4

(* ensureWritableBytes(len) makes room for len bytes and keeps the readable  *)
(* bytes (Buffer.h:80-85).                                                   *)
LEMMA EnsureFacts ==
  ASSUME SizesAssumption, NEW b \in Buf, NEW len \in Nat
  PROVE  /\ ensureWritable(b, len) \in Buf
         /\ writable(ensureWritable(b, len)) >= len
         /\ peek(ensureWritable(b, len)) = peek(b)
<1>1. CASE writable(b) < len
  BY <1>1, MakeSpaceFacts DEF ensureWritable
<1>2. CASE ~(writable(b) < len)
  <2>1. writable(b) \in Int
    BY LenProperties DEF writable, Buf
  <2> QED
    BY <1>2, <2>1 DEF ensureWritable
<1> QED
  BY <1>1, <1>2

(* Copying data into the free room and moving writerIndex_ over it puts data *)
(* behind the readable bytes (Buffer.h:74-78, Buffer.cc:21-22).              *)
LEMMA FillFacts ==
  ASSUME NEW b \in Buf, NEW data \in Seq(Cell), Len(data) <= writable(b)
  PROVE  filled(b, data) \in Buf /\ peek(filled(b, data)) = peek(b) \o data
<1> DEFINE c == CopyTo(b.buf, b.w, data)
           f == filled(b, data)
           n == readable(b)
<1>1. /\ b = [buf |-> b.buf, r |-> b.r, w |-> b.w]
      /\ b.buf \in Seq(Cell) /\ Len(b.buf) \in Nat
      /\ b.r \in Nat /\ b.w \in Nat /\ b.r <= b.w /\ b.w <= Len(b.buf)
      /\ kCheapPrepend <= Len(b.buf)
      /\ Len(data) \in Nat
  BY LenProperties DEF Buf
<1>2. /\ c \in Seq(Cell) /\ Len(c) = Len(b.buf)
      /\ \A i \in 1 .. Len(b.buf) : i <= b.w => c[i] = b.buf[i]
      /\ \A i \in 1 .. Len(data) : b.w + i <= Len(b.buf) => c[b.w + i] = data[i]
  BY <1>1, CopyToFacts
<1>3. f = [buf |-> c, r |-> b.r, w |-> b.w + Len(data)]
  BY DEF filled
<1> HIDE DEF c
<1>4. f \in Buf
  <2>1. b.w + Len(data) <= Len(c)
    BY <1>1, <1>2 DEF writable
  <2> QED
    BY <1>1, <1>2, <1>3, <2>1 DEF Buf
<1>5. n = b.w - b.r /\ n \in Nat /\ readable(f) = n + Len(data)
  BY <1>1, <1>3 DEF readable
<1>6. /\ peek(b) \in Seq(Cell) /\ Len(peek(b)) = n
      /\ \A i \in 1 .. n : peek(b)[i] = b.buf[b.r + i]
  BY PeekFacts
<1> HIDE DEF f, n
<1>7. /\ peek(f) \in Seq(Cell) /\ Len(peek(f)) = n + Len(data)
      /\ \A i \in 1 .. n + Len(data) : peek(f)[i] = f.buf[f.r + i]
  BY <1>4, <1>5, PeekFacts
<1>8. /\ peek(b) \o data \in Seq(Cell) /\ Len(peek(b) \o data) = n + Len(data)
      /\ \A i \in 1 .. n + Len(data) : (peek(b) \o data)[i] =
           IF i <= n THEN peek(b)[i] ELSE data[i - n]
  BY <1>6, ConcatProperties
<1>9. ASSUME NEW i \in 1 .. n + Len(data)
      PROVE  peek(f)[i] = (peek(b) \o data)[i]
  <2>0. b.r + i \in 1 .. Len(b.buf)
    BY <1>1, <1>5 DEF writable
  <2>1. peek(f)[i] = c[b.r + i]
    BY <1>3, <1>7
  <2>2. CASE i <= n
    <3>1. b.r + i <= b.w /\ i \in 1 .. n
      BY <1>1, <1>5, <2>2
    <3> QED
      BY <1>2, <1>6, <1>8, <2>0, <2>1, <2>2, <3>1
  <2>3. CASE ~(i <= n)
    <3>1. /\ i - n \in 1 .. Len(data) /\ b.r + i = b.w + (i - n)
          /\ b.w + (i - n) <= Len(b.buf)
      BY <1>1, <1>5, <2>0, <2>3
    <3>2. c[b.w + (i - n)] = data[i - n]
      BY <1>2, <3>1
    <3> QED
      BY <1>8, <2>1, <2>3, <3>1, <3>2
  <2> QED
    BY <2>2, <2>3
<1>10. peek(f) = peek(b) \o data
  BY <1>7, <1>8, <1>9, SeqEqual
<1> QED
  BY <1>4, <1>10 DEF f

(* append puts data behind the readable bytes, whatever it has to do to make *)
(* room (Buffer.h:74-85).                                                    *)
LEMMA AppendedFacts ==
  ASSUME SizesAssumption, NEW b \in Buf, NEW data \in Seq(Cell)
  PROVE  appended(b, data) \in Buf /\ peek(appended(b, data)) = peek(b) \o data
<1> DEFINE e == ensureWritable(b, Len(data))
<1>1. Len(data) \in Nat
  BY LenProperties
<1>2. e \in Buf /\ writable(e) >= Len(data) /\ peek(e) = peek(b)
  BY <1>1, EnsureFacts
<1>3. Len(data) <= writable(e)
  BY <1>1, <1>2, LenProperties DEF writable, Buf
<1>4. appended(b, data) = filled(e, data)
  BY DEF appended
<1> HIDE DEF e
<1> QED
  BY <1>2, <1>3, <1>4, FillFacts

(* readFd puts the bytes read behind the readable bytes, also when they      *)
(* spill into extrabuf and are appended from there (Buffer.cc:11-30).        *)
LEMMA ReceivedFacts ==
  ASSUME SizesAssumption, NEW b \in Buf, NEW data \in Seq(Cell)
  PROVE  received(b, data) \in Buf /\ peek(received(b, data)) = peek(b) \o data
<1> DEFINE n == writable(b)
<1>1. /\ b.buf \in Seq(Cell) /\ Len(b.buf) \in Nat
      /\ b.r \in Nat /\ b.w \in Nat /\ b.r <= b.w /\ b.w <= Len(b.buf)
      /\ kCheapPrepend <= Len(b.buf)
      /\ Len(data) \in Nat
  BY LenProperties DEF Buf
<1>2. n \in Nat /\ n = Len(b.buf) - b.w
  BY <1>1 DEF writable
<1>3. CASE Len(data) <= n
  BY <1>3, FillFacts DEF received
<1>4. CASE ~(Len(data) <= n)
  <2> DEFINE d1 == SubSeq(data, 1, n)
             d2 == SubSeq(data, n + 1, Len(data))
             f == [buf |-> CopyTo(b.buf, b.w, d1), r |-> b.r, w |-> Len(b.buf)]
  <2>1. d1 \in Seq(Cell) /\ Len(d1) = n /\ d2 \in Seq(Cell)
    BY <1>1, <1>2, <1>4
  <2>2. d1 \o d2 = data
    <3>1. 1 \in 1 .. Len(data) + 1 /\ n \in 1 - 1 .. Len(data)
          /\ Len(data) \in n .. Len(data)
      BY <1>1, <1>2, <1>4
    <3>2. d1 \o d2 = SubSeq(data, 1, Len(data))
      BY <3>1, ConcatAdjacentSubSeq
    <3> QED
      BY <3>2, SubSeqFull
  <2>3. received(b, data) = appended(f, d2)
    BY <1>4 DEF received
  <2>4. f = filled(b, d1)
    <3>1. b.w + Len(d1) = Len(b.buf)
      BY <1>1, <1>2, <2>1
    <3> QED
      BY <3>1 DEF filled
  <2> HIDE DEF d1, d2, f
  <2>5. f \in Buf /\ peek(f) = peek(b) \o d1
    BY <1>2, <2>1, <2>4, FillFacts
  <2>6. appended(f, d2) \in Buf /\ peek(appended(f, d2)) = peek(f) \o d2
    BY <2>1, <2>5, AppendedFacts
  <2>7. (peek(b) \o d1) \o d2 = peek(b) \o (d1 \o d2)
    <3>1. peek(b) \in Seq(Cell)
      BY PeekFacts
    <3> QED
      BY <2>1, <3>1, ConcatAssociative
  <2> QED
    BY <2>2, <2>3, <2>5, <2>6, <2>7
<1> QED
  BY <1>3, <1>4

(* prepend puts data in front of the readable bytes (Buffer.h:99-104).       *)
LEMMA PrependFacts ==
  ASSUME NEW b \in Buf, NEW data \in Seq(Cell), Len(data) <= b.r
  PROVE  LET f == [buf |-> CopyTo(b.buf, b.r - Len(data), data), r |-> b.r - Len(data), w |-> b.w]
         IN  f \in Buf /\ peek(f) = data \o peek(b)
<1> DEFINE at == b.r - Len(data)
           c == CopyTo(b.buf, at, data)
           f == [buf |-> c, r |-> at, w |-> b.w]
           n == readable(b)
<1>1. /\ b.buf \in Seq(Cell) /\ Len(b.buf) \in Nat
      /\ b.r \in Nat /\ b.w \in Nat /\ b.r <= b.w /\ b.w <= Len(b.buf)
      /\ kCheapPrepend <= Len(b.buf)
      /\ Len(data) \in Nat
  BY LenProperties DEF Buf
<1>2. at \in Nat /\ at = b.r - Len(data)
  BY <1>1
<1>3. n = b.w - b.r /\ n \in Nat
  BY <1>1 DEF readable
<1> HIDE DEF at
<1>4. /\ c \in Seq(Cell) /\ Len(c) = Len(b.buf)
      /\ \A i \in 1 .. Len(b.buf) : i > at + Len(data) => c[i] = b.buf[i]
      /\ \A i \in 1 .. Len(data) : at + i <= Len(b.buf) => c[at + i] = data[i]
  BY <1>1, <1>2, CopyToFacts
<1> HIDE DEF c
<1>5. f \in Buf
  BY <1>1, <1>2, <1>4 DEF Buf
<1>6. readable(f) = Len(data) + n
  BY <1>1, <1>2, <1>3 DEF readable
<1>7. f.buf = c /\ f.r = at
  OBVIOUS
<1>8. /\ peek(b) \in Seq(Cell) /\ Len(peek(b)) = n
      /\ \A i \in 1 .. n : peek(b)[i] = b.buf[b.r + i]
  BY PeekFacts
<1> HIDE DEF f, n
<1>9. /\ peek(f) \in Seq(Cell) /\ Len(peek(f)) = Len(data) + n
      /\ \A i \in 1 .. Len(data) + n : peek(f)[i] = c[at + i]
  BY <1>5, <1>6, <1>7, PeekFacts
<1>10. /\ data \o peek(b) \in Seq(Cell) /\ Len(data \o peek(b)) = Len(data) + n
       /\ \A i \in 1 .. Len(data) + n : (data \o peek(b))[i] =
            IF i <= Len(data) THEN data[i] ELSE peek(b)[i - Len(data)]
  BY <1>8, ConcatProperties
<1>11. ASSUME NEW i \in 1 .. Len(data) + n
       PROVE  peek(f)[i] = (data \o peek(b))[i]
  <2>1. CASE i <= Len(data)
    <3>1. i \in 1 .. Len(data) /\ at + i <= Len(b.buf)
      BY <1>1, <1>2, <1>3, <2>1
    <3> QED
      BY <1>4, <1>9, <1>10, <2>1, <3>1
  <2>2. CASE ~(i <= Len(data))
    <3> DEFINE j == i - Len(data)
    <3>1. j \in 1 .. n
      BY <1>1, <1>3, <2>2
    <3>a. at + i > at + Len(data) /\ b.r + j = at + i
      BY <1>1, <1>2, <1>3, <2>2
    <3>b. at + i \in 1 .. Len(b.buf)
      <4>1. b.r + j <= b.w /\ b.r + j >= 1 /\ b.r + j \in Int
        BY <1>1, <1>3, <3>1
      <4> HIDE DEF j
      <4> QED
        BY <1>1, <3>a, <4>1
    <3>2. peek(b)[i - Len(data)] = b.buf[at + i]
      BY <1>8, <3>1, <3>a
    <3> QED
      BY <1>4, <1>9, <1>10, <2>2, <3>a, <3>b, <3>2
  <2> QED
    BY <2>1, <2>2
<1>12. peek(f) = data \o peek(b)
  BY <1>9, <1>10, <1>11, SeqEqual
<1> QED
  BY <1>5, <1>12 DEF f, c, at

(* retrieve drops bytes from the front (Buffer.h:48-51).                     *)
LEMMA RetrieveFacts ==
  ASSUME NEW b \in Buf, NEW len \in Nat, len <= readable(b)
  PROVE  LET f == [buf |-> b.buf, r |-> b.r + len, w |-> b.w]
         IN  f \in Buf /\ peek(f) = SubSeq(peek(b), len + 1, Len(peek(b)))
<1> DEFINE f == [buf |-> b.buf, r |-> b.r + len, w |-> b.w]
           n == readable(b)
           s == SubSeq(peek(b), len + 1, Len(peek(b)))
<1>1. /\ b.buf \in Seq(Cell) /\ Len(b.buf) \in Nat
      /\ b.r \in Nat /\ b.w \in Nat /\ b.r <= b.w /\ b.w <= Len(b.buf)
      /\ kCheapPrepend <= Len(b.buf)
  BY LenProperties DEF Buf
<1>2. n = b.w - b.r /\ n \in Nat
  BY <1>1 DEF readable
<1>3. f \in Buf /\ readable(f) = n - len
  BY <1>1, <1>2 DEF Buf, readable
<1>4. /\ peek(b) \in Seq(Cell) /\ Len(peek(b)) = n
      /\ \A i \in 1 .. n : peek(b)[i] = b.buf[b.r + i]
  BY PeekFacts
<1>5. /\ peek(f) \in Seq(Cell) /\ Len(peek(f)) = n - len
      /\ \A i \in 1 .. n - len : peek(f)[i] = b.buf[(b.r + len) + i]
  BY <1>3, PeekFacts
<1> HIDE DEF f, n
<1>6. /\ s \in Seq(Cell) /\ Len(s) = n - len
      /\ \A i \in 1 .. n - len : s[i] = peek(b)[len + i]
  <2> DEFINE m == len + 1
  <2>1. m \in Nat /\ m >= 1 /\ m <= n + 1 /\ (n + 1) - m = n - len /\ m - 1 = len
        /\ len <= n
    BY <1>2 DEF n
  <2> DEFINE p == peek(b)
  <2>2. p \in Seq(Cell) /\ n <= Len(p) /\ Len(p) = n /\ n \in Nat
    BY <1>2, <1>4
  <2>3. s = SubSeq(p, m, n)
    BY <1>4
  <2> HIDE DEF m, p
  <2>4. /\ SubSeq(p, m, n) \in Seq(Cell)
        /\ Len(SubSeq(p, m, n)) = (n + 1) - m
        /\ \A i \in 1 .. (n + 1) - m : SubSeq(p, m, n)[i] = p[(m - 1) + i]
    BY <2>1, <2>2, SubSeqFacts
  <2>5. /\ SubSeq(p, m, n) \in Seq(Cell)
        /\ Len(SubSeq(p, m, n)) = n - len
        /\ \A i \in 1 .. n - len : SubSeq(p, m, n)[i] = p[len + i]
    BY <2>1, <2>4
  <2> QED
    BY <2>3, <2>5 DEF p
<1>7. ASSUME NEW i \in 1 .. n - len
      PROVE  s[i] = b.buf[(b.r + len) + i]
  <2>1. len + i \in 1 .. n /\ b.r + (len + i) = (b.r + len) + i
    BY <1>1, <1>2
  <2> QED
    BY <1>4, <1>6, <2>1
<1>8. peek(f) = s
  BY <1>5, <1>6, <1>7, SeqEqual
<1> QED
  BY <1>3, <1>8 DEF f

-----------------------------------------------------------------------------
(* The invariants and the refinement.                                        *)

(* What is handed to an operation is a sequence of bytes.                    *)
LEMMA ChunkFacts ==
  ASSUME SizesAssumption, NEW data \in Chunk
  PROVE  data \in Seq(Cell) /\ Len(data) \in Nat
<1>1. PICK n \in 0 .. MaxLen : data \in [1 .. n -> Byte]
  BY DEF Chunk
<1>2. n \in Nat /\ data \in [1 .. n -> Cell]
  BY <1>1 DEF SizesAssumption, Cell
<1>3. data \in Seq(Cell)
  BY <1>2, SeqDef
<1> QED
  BY <1>3, LenProperties

(* The type invariant says that the buffer is one with its indices in order. *)
LEMMA TypeIsBuf == TypeOK <=> this \in Buf /\ buffer_ \in Seq(Cell)
BY DEF TypeOK, this, Buf, Cell

(* A new buffer is empty (Buffer.h:16-23).                                   *)
LEMMA InitFacts == SizesAssumption /\ Init => TypeOK /\ peek(this) = <<>>
<1> SUFFICES ASSUME SizesAssumption, Init
             PROVE  TypeOK /\ peek(this) = <<>>
  OBVIOUS
<1>1. kCheapPrepend \in Nat /\ kCheapPrepend + kInitialSize \in Nat
      /\ kCheapPrepend <= kCheapPrepend + kInitialSize
  BY DEF SizesAssumption
<1>2. buffer_ \in Seq(Cell) /\ Len(buffer_) = kCheapPrepend + kInitialSize
  BY <1>1, ZerosFacts DEF Init
<1>3. TypeOK
  BY <1>1, <1>2 DEF Init, TypeOK, Cell
<1>4. peek(this) = <<>>
  BY <1>1, SubSeqEmpty DEF Init, peek, this
<1> QED
  BY <1>3, <1>4

(* Every operation keeps the type and takes a step of the byte queue.        *)
LEMMA StepFacts ==
  ASSUME SizesAssumption, TypeOK, [Next]_vars
  PROVE  TypeOK' /\ [Queue!Next]_(peek(this))
<1>b. this \in Buf /\ buffer_ \in Seq(Cell)
  BY TypeIsBuf
<1>t. ASSUME this' \in Buf
      PROVE  TypeOK'
  BY <1>t DEF TypeOK, this, Buf, Cell
<1>c. Chunk = Queue!Chunk
  BY DEF Chunk, Queue!Chunk
<1>1. CASE \E data \in Chunk : append(data)
  <2>1. PICK data \in Chunk : append(data)
    BY <1>1
  <2>2. this' = [buf |-> appended(this, data).buf, r |-> appended(this, data).r,
                 w |-> appended(this, data).w]
    BY <2>1 DEF append, Become, this
  <2>3. appended(this, data) \in Buf /\ peek(appended(this, data)) = peek(this) \o data
    BY <1>b, ChunkFacts, AppendedFacts
  <2>4. this' = appended(this, data)
    BY <2>2, <2>3 DEF Buf
  <2>5. Queue!Put(data)
    BY <2>3, <2>4 DEF Queue!Put
  <2> QED
    BY <1>t, <1>c, <2>3, <2>4, <2>5 DEF Queue!Next
<1>2. CASE \E len \in 0 .. MaxLen : ensureWritableBytes(len)
  <2>1. PICK len \in 0 .. MaxLen : ensureWritableBytes(len)
    BY <1>2
  <2> DEFINE e == ensureWritable(this, len)
  <2>2. this' = [buf |-> e.buf, r |-> e.r, w |-> e.w]
    BY <2>1 DEF ensureWritableBytes, Become, this
  <2>3. e \in Buf /\ peek(e) = peek(this)
    <3>1. len \in Nat
      BY <2>1 DEF SizesAssumption
    <3> QED
      BY <1>b, <3>1, EnsureFacts
  <2>4. this' = e
    BY <2>2, <2>3 DEF Buf
  <2>5. peek(this)' = peek(this)
    BY <2>3, <2>4
  <2> QED
    BY <1>t, <2>3, <2>4, <2>5
<1>3. CASE \E data \in Chunk : readFd(data)
  <2>1. PICK data \in Chunk : readFd(data)
    BY <1>3
  <2> DEFINE e == received(this, data)
  <2>2. this' = [buf |-> e.buf, r |-> e.r, w |-> e.w]
    BY <2>1 DEF readFd, Become, this
  <2>3. e \in Buf /\ peek(e) = peek(this) \o data
    BY <1>b, ChunkFacts, ReceivedFacts
  <2>4. this' = e
    BY <2>2, <2>3 DEF Buf
  <2>5. Queue!Put(data)
    BY <2>3, <2>4 DEF Queue!Put
  <2> QED
    BY <1>t, <1>c, <2>3, <2>4, <2>5 DEF Queue!Next
<1>4. CASE \E len \in 0 .. MaxLen : retrieve(len)
  <2>1. PICK len \in 0 .. MaxLen : retrieve(len)
    BY <1>4
  <2> DEFINE f == [buf |-> this.buf, r |-> this.r + len, w |-> this.w]
  <2>2. len \in Nat /\ len <= readable(this)
    BY <2>1 DEF SizesAssumption, retrieve, readableBytes
  <2>3. f \in Buf /\ peek(f) = SubSeq(peek(this), len + 1, Len(peek(this)))
    BY <1>b, <2>2, RetrieveFacts
  <2>4. this' = f
    BY <2>1 DEF retrieve, this
  <2>5. len \in 0 .. Len(peek(this))
    BY <1>b, <2>2, PeekFacts
  <2>6. Queue!Take(len)
    BY <2>3, <2>4, <2>5 DEF Queue!Take
  <2> QED
    BY <1>t, <2>3, <2>4, <2>5, <2>6 DEF Queue!Next
<1>5. CASE retrieveAll
  <2>1. kCheapPrepend \in Nat
    BY DEF SizesAssumption
  <2>2. this' = [buf |-> buffer_, r |-> kCheapPrepend, w |-> kCheapPrepend]
    BY <1>5 DEF retrieveAll, this
  <2>3. this' \in Buf
    BY <1>b, <2>1, <2>2 DEF Buf, this
  <2>4. peek(this)' = <<>>
    BY <2>1, <2>2, SubSeqEmpty DEF peek
  <2>5. /\ Len(peek(this)) \in 0 .. Len(peek(this))
        /\ SubSeq(peek(this), Len(peek(this)) + 1, Len(peek(this))) = <<>>
    BY <1>b, PeekFacts, SubSeqEmpty
  <2>6. Queue!Take(Len(peek(this)))
    BY <2>4, <2>5 DEF Queue!Take
  <2> QED
    BY <1>t, <2>3, <2>5, <2>6 DEF Queue!Next
<1>6. CASE \E data \in Chunk : prepend(data)
  <2>1. PICK data \in Chunk : prepend(data)
    BY <1>6
  <2> DEFINE at == this.r - Len(data)
             f == [buf |-> CopyTo(this.buf, at, data), r |-> at, w |-> this.w]
  <2>2. data \in Seq(Cell) /\ Len(data) <= this.r
    BY <2>1, ChunkFacts DEF prepend, prependableBytes, prependable
  <2>3. f \in Buf /\ peek(f) = data \o peek(this)
    BY <1>b, <2>2, PrependFacts
  <2>4. this' = f
    BY <2>1 DEF prepend, this
  <2>5. Queue!PushFront(data)
    BY <2>3, <2>4 DEF Queue!PushFront
  <2> QED
    BY <1>t, <1>c, <2>3, <2>4, <2>5 DEF Queue!Next
<1>7. CASE UNCHANGED vars
  <2>1. this' = this
    BY <1>7 DEF vars, this
  <2> QED
    BY <1>b, <1>t, <2>1
<1> QED
  BY <1>1, <1>2, <1>3, <1>4, <1>5, <1>6, <1>7 DEF Next

(* The indices stay in order and within the vector for ever, for every size  *)
(* of the buffer and of the requests: no unsigned subtraction of Buffer.h    *)
(* wraps around (Buffer.h:32-42, 118-131).                                   *)
THEOREM TypeCorrect == Spec => []TypeOK
<1>1. Init => TypeOK
  BY SizesAssumption, InitFacts
<1>2. TypeOK /\ [Next]_vars => TypeOK'
  BY SizesAssumption, StepFacts
<1> QED
  BY <1>1, <1>2, PTL DEF Spec

(* No request, of any size, makes an assert of ensureWritableBytes or        *)
(* makeSpace fail (Buffer.h:84, 122, 129).                                   *)
THEOREM AssertsCorrect == Spec => []AssertsHold
<1>1. TypeOK => AssertsHold
  <2> SUFFICES ASSUME TypeOK, NEW len \in 0 .. MaxLen
               PROVE  /\ writableBytes < len /\ ~MustGrow(this, len) =>
                           /\ kCheapPrepend < readerIndex_
                           /\ readable(makeSpace(this, len)) = readableBytes
                      /\ writable(ensureWritable(this, len)) >= len
    BY DEF AssertsHold
  <2>1. this \in Buf /\ len \in Nat
    BY SizesAssumption, TypeIsBuf DEF SizesAssumption
  <2>2. writable(ensureWritable(this, len)) >= len
    BY <2>1, SizesAssumption, EnsureFacts
  <2>3. ASSUME writableBytes < len, ~MustGrow(this, len)
        PROVE  /\ kCheapPrepend < readerIndex_
               /\ readable(makeSpace(this, len)) = readableBytes
    <3>1. /\ makeSpace(this, len) \in Buf /\ kCheapPrepend < this.r
          /\ peek(makeSpace(this, len)) = peek(this)
      BY <2>1, <2>3, SizesAssumption, MakeSpaceFacts DEF writableBytes
    <3>2. readable(makeSpace(this, len)) = readable(this)
      BY <2>1, <3>1, PeekFacts
    <3> QED
      BY <3>1, <3>2 DEF this, readableBytes
  <2> QED
    BY <2>2, <2>3
<1> QED
  BY <1>1, TypeCorrect, PTL

(* The buffer is a byte queue for every size: whatever append, readFd,       *)
(* retrieve and prepend do to the vector, the readable bytes are those put   *)
(* in and not yet taken out, in order (Buffer.h:48-131, Buffer.cc:11-30).    *)
THEOREM Refinement == Spec => ImplementsByteQueue
<1>1. Init => Queue!Init
  BY SizesAssumption, InitFacts DEF Queue!Init
<1>2. TypeOK /\ [Next]_vars => [Queue!Next]_(peek(this))
  BY SizesAssumption, StepFacts
<1> QED
  BY <1>1, <1>2, TypeCorrect, PTL DEF Spec, ImplementsByteQueue, Queue!Spec
=============================================================================
