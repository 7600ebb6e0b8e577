--------------------------- MODULE LoggingStream ---------------------------
(***************************************************************************)
(* LoggingStream and its FixedBuffer: a line of a log is put together from *)
(* pieces in a buffer of fixed size, and what does not fit is left out.  A *)
(* piece is a text, of which only the length matters, an integer, signed   *)
(* or unsigned, of Width bits, or a pointer; it is kept with what was      *)
(* written for it.                                                         *)
(***************************************************************************)
EXTENDS Integers, Sequences, SequencesExt

CONSTANTS
  kMinBufferSize,   \* of the buffer
  kMaxNumericSize,  \* the room a number must find
  Width             \* the bits of an integer

(* Characters: the digits are numbers.                                       *)
Minus == 16
X == 17

Pow(base, n) ==
  LET pow[i \in 0 .. n] == IF i = 0 THEN 1 ELSE base * pow[i - 1]
  IN  pow[n]

INT_MIN == -Pow(2, Width - 1)
INT_MAX == Pow(2, Width - 1) - 1
UINTPTR_MAX == Pow(2, Width) - 1

(* A number, with its sign, is shorter than kMaxNumericSize, as the program  *)
(* asserts at compile time, a pointer, with its prefix, too, and the buffer  *)
(* has room for one.                                                         *)
ASSUME StreamAssumption ==
  /\ Width \in Nat \ {0}
  /\ {kMaxNumericSize, kMinBufferSize} \subseteq Nat
  /\ kMaxNumericSize > 3 /\ kMinBufferSize >= kMaxNumericSize
  /\ Pow(2, Width) <= Pow(10, kMaxNumericSize - 2)
  /\ Pow(2, Width) <= Pow(16, kMaxNumericSize - 3)

(* Division of C++, towards zero, and its remainder.                         *)
Quot(i, base) == IF i < 0 THEN -((-i) \div base) ELSE i \div base
Rem(i, base) == i - base * Quot(i, base)

(* zero[lsd] of the table "9876543210123456789", zero in its middle.         *)
zero(lsd) == IF lsd < 0 THEN -lsd ELSE lsd

-----------------------------------------------------------------------------
(* Fault: a negative number is negated first, in its own width.              *)
convert_NegateFirst(v) ==
  LET i == IF v < 0 /\ v # INT_MIN THEN -v ELSE v
      rems[j \in INT_MIN .. UINTPTR_MAX] ==
        <<Rem(j, 10)>> \o IF Quot(j, 10) = 0 THEN <<>> ELSE rems[Quot(j, 10)]
  IN  Reverse(rems[i] \o IF v < 0 THEN <<Minus>> ELSE <<>>)

(* The digits of i, of a signed or an unsigned type, least significant       *)
(* first.                                                                    *)
lsds[i \in INT_MIN .. UINTPTR_MAX] ==
  <<zero(Rem(i, 10))>> \o IF Quot(i, 10) = 0 THEN <<>> ELSE lsds[Quot(i, 10)]

(* Then the sign, all reversed.                                              *)
convert(v) == Reverse(lsds[v] \o IF v < 0 THEN <<Minus>> ELSE <<>>)

lsdsHex[i \in 0 .. UINTPTR_MAX] ==
  <<i % 16>> \o IF i \div 16 = 0 THEN <<>> ELSE lsdsHex[i \div 16]

convertHex(p) == Reverse(lsdsHex[p])

-----------------------------------------------------------------------------
(* FixedBuffer.                                                              *)

Empty == [length |-> 0, pieces |-> <<>>]
avail(b) == kMinBufferSize - b.length

add(b, piece, written, len) ==
  [length |-> b.length + len,
   pieces |-> Append(b.pieces, [piece |-> piece, written |-> written])]

append(b, piece) == IF avail(b) > piece.len THEN add(b, piece, <<>>, piece.len) ELSE b

(* operator<<                                                                *)
formatInteger(b, piece) ==
  LET digits == convert(piece.value)
  IN  IF avail(b) >= kMaxNumericSize THEN add(b, piece, digits, Len(digits)) ELSE b

formatPointer(b, piece) ==
  LET digits == <<0, X>> \o convertHex(piece.value)
  IN  IF avail(b) >= kMaxNumericSize THEN add(b, piece, digits, Len(digits)) ELSE b

Put(b, piece) ==
  CASE piece.type = "text" -> append(b, piece)
    [] piece.type = "int" -> formatInteger(b, piece)
    [] piece.type = "pointer" -> formatPointer(b, piece)

Puts(b, pieces) ==
  LET puts[n \in 0 .. Len(pieces)] == IF n = 0 THEN b ELSE Put(puts[n - 1], pieces[n])
  IN  puts[Len(pieces)]

Text(len) == [type |-> "text", len |-> len]
Int10(v) == [type |-> "int", value |-> v]
Pointer(p) == [type |-> "pointer", value |-> p]

Pieces ==
  [type : {"text"}, len : Nat] \cup [type : {"int"}, value : INT_MIN .. UINTPTR_MAX]
    \cup [type : {"pointer"}, value : 0 .. UINTPTR_MAX]

-----------------------------------------------------------------------------
(* What the characters written for a number say.                             *)

Value(digits, base) ==
  LET value[n \in 0 .. Len(digits)] == IF n = 0 THEN 0 ELSE base * value[n - 1] + digits[n]
  IN  value[Len(digits)]

ReadInt(s) == IF s[1] = Minus THEN -Value(Tail(s), 10) ELSE Value(s, 10)
ReadPointer(s) == Value(SubSeq(s, 3, Len(s)), 16)
=============================================================================
