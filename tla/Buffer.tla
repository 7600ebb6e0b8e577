------------------------------- MODULE Buffer -------------------------------
(***************************************************************************)
(* reactor/Buffer.{h,cc}: the byte buffer of a connection.  buffer_ holds  *)
(* the readable bytes between readerIndex_ and writerIndex_ (offsets from  *)
(* 0), free room after them, and room for a prepended header before them.  *)
(* A buffer is used by one thread; the difficulty is the index arithmetic. *)
(***************************************************************************)
EXTENDS Naturals, Sequences

CONSTANTS
  Byte,           \* the bytes appended and read
  Zero,           \* what vector::resize fills new room with
  kCheapPrepend,
  kInitialSize,
  kExtra,         \* sizeof extrabuf in readFd
  MaxLen,         \* bound: bytes per append, prepend or read
  MaxSize         \* bound: buffer_.size()

ASSUME SizesAssumption ==
  /\ kCheapPrepend \in Nat
  /\ kInitialSize \in Nat
  /\ kExtra \in Nat
  /\ MaxLen \in Nat
  /\ MaxSize \in Nat

VARIABLES buffer_, readerIndex_, writerIndex_

vars == <<buffer_, readerIndex_, writerIndex_>>

Chunk == UNION {[1 .. n -> Byte] : n \in 0 .. MaxLen}

Zeros(n) == [i \in 1 .. n |-> Zero]

Init ==
  /\ buffer_ = Zeros(kCheapPrepend + kInitialSize)
  /\ readerIndex_ = kCheapPrepend
  /\ writerIndex_ = kCheapPrepend

-----------------------------------------------------------------------------
(* The private parts, on a buffer b = [buf, r, w].                           *)

this == [buf |-> buffer_, r |-> readerIndex_, w |-> writerIndex_]

Become(b) == buffer_' = b.buf /\ readerIndex_' = b.r /\ writerIndex_' = b.w

readable(b) == b.w - b.r
writable(b) == Len(b.buf) - b.w
prependable(b) == b.r

readableBytes == readable(this)
writableBytes == writable(this)
prependableBytes == prependable(this)

(* std::copy of data to offset at.                                           *)
CopyTo(buf, at, data) ==
  [i \in 1 .. Len(buf) |->
     IF i \in at + 1 .. at + Len(data) THEN data[i - at] ELSE buf[i]]

(* The readable bytes.                                                       *)
peek(b) == SubSeq(b.buf, b.r + 1, b.w)

(* Fault: the room in front is counted without keeping kCheapPrepend of it.  *)
MustGrow_NoPrepend(b, len) == writable(b) + prependable(b) < len

MustGrow(b, len) == writable(b) + prependable(b) < len + kCheapPrepend

(* Fault: the indices move down and the bytes stay.                          *)
makeSpace_NoCopy(b, len) ==
  IF MustGrow(b, len)
  THEN [buf |-> b.buf \o Zeros(b.w + len - Len(b.buf)), r |-> b.r, w |-> b.w]
  ELSE [buf |-> b.buf, r |-> kCheapPrepend, w |-> kCheapPrepend + readable(b)]

(* Grow the vector to exactly writerIndex_ + len, or move the readable bytes *)
(* down to kCheapPrepend.                                                    *)
makeSpace(b, len) ==
  IF MustGrow(b, len)
  THEN [buf |-> b.buf \o Zeros(b.w + len - Len(b.buf)), r |-> b.r, w |-> b.w]
  ELSE [buf |-> CopyTo(b.buf, kCheapPrepend, peek(b)),
        r |-> kCheapPrepend,
        w |-> kCheapPrepend + readable(b)]

ensureWritable(b, len) == IF writable(b) < len THEN makeSpace(b, len) ELSE b

(* Copy data to the free room and count it as written (hasWritten).          *)
filled(b, data) ==
  [buf |-> CopyTo(b.buf, b.w, data), r |-> b.r, w |-> b.w + Len(data)]

appended(b, data) == filled(ensureWritable(b, Len(data)), data)

(* Fault: readFd counts what went to extrabuf as written to buffer_.         *)
received_NoExtra(b, data) == filled(b, data)

(* readv fills the free room first and the rest of the bytes go to extrabuf, *)
(* from where they are appended.                                             *)
received(b, data) ==
  LET n == writable(b)
  IN  IF Len(data) <= n
      THEN filled(b, data)
      ELSE appended([buf |-> CopyTo(b.buf, b.w, SubSeq(data, 1, n)),
                     r |-> b.r, w |-> Len(b.buf)],
                    SubSeq(data, n + 1, Len(data)))

-----------------------------------------------------------------------------
(* The public operations.                                                    *)

append(data) ==
  /\ writerIndex_ + Len(data) <= MaxSize
  /\ Become(appended(this, data))

ensureWritableBytes(len) ==
  /\ writerIndex_ + len <= MaxSize
  /\ Become(ensureWritable(this, len))

(* readFd got data from the socket; an error or the end of the stream        *)
(* changes nothing.                                                          *)
readFd(data) ==
  /\ Len(data) <= writableBytes + kExtra
  /\ writerIndex_ + Len(data) <= MaxSize
  /\ Become(received(this, data))

(* The caller may only retrieve what is readable.                            *)
retrieve(len) ==
  /\ len <= readableBytes
  /\ readerIndex_' = readerIndex_ + len
  /\ UNCHANGED <<buffer_, writerIndex_>>

(* retrieveAll, and retrieveAsString.                                        *)
retrieveAll ==
  /\ readerIndex_' = kCheapPrepend
  /\ writerIndex_' = kCheapPrepend
  /\ UNCHANGED buffer_

(* The caller may only prepend what fits in front.                           *)
prepend(data) ==
  /\ Len(data) <= prependableBytes
  /\ readerIndex_' = readerIndex_ - Len(data)
  /\ buffer_' = CopyTo(buffer_, readerIndex_ - Len(data), data)
  /\ UNCHANGED writerIndex_

Next ==
  \/ \E data \in Chunk : append(data)
  \/ \E len \in 0 .. MaxLen : ensureWritableBytes(len)
  \/ \E data \in Chunk : readFd(data)
  \/ \E len \in 0 .. MaxLen : retrieve(len)
  \/ retrieveAll
  \/ \E data \in Chunk : prepend(data)

Spec == Init /\ [][Next]_vars

-----------------------------------------------------------------------------
(* Properties.                                                               *)

(* The types, with the order of the indices that every unsigned subtraction  *)
(* in the code relies on (Buffer.h:32-42), and the room in front to which    *)
(* retrieveAll and makeSpace set the indices (Buffer.h:60-61, 127).          *)
TypeOK ==
  /\ buffer_ \in Seq(Byte \cup {Zero})
  /\ readerIndex_ \in Nat
  /\ writerIndex_ \in Nat
  /\ readerIndex_ <= writerIndex_
  /\ writerIndex_ <= Len(buffer_)
  /\ kCheapPrepend <= Len(buffer_)

(* No assert of ensureWritableBytes or makeSpace can fail for any request:   *)
(* when bytes must move there is room below them to move into, even after    *)
(* prepend took some of it, and afterwards the request fits                  *)
(* (Buffer.h:84, 122, 129).                                                  *)
AssertsHold ==
  \A len \in 0 .. MaxLen :
    /\ writableBytes < len /\ ~MustGrow(this, len) =>
         /\ kCheapPrepend < readerIndex_
         /\ readable(makeSpace(this, len)) = readableBytes
    /\ writable(ensureWritable(this, len)) >= len

(* The buffer is a byte queue: growing, moving bytes down, the split read    *)
(* and the prepended header neither lose, repeat nor reorder a byte          *)
(* (Buffer.h:48-131, Buffer.cc:11-30).                                       *)
Queue == INSTANCE ByteQueue WITH Byte <- Byte, MaxLen <- MaxLen, q <- peek(this)
ImplementsByteQueue == Queue!Spec
=============================================================================
