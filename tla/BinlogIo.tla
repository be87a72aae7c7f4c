------------------------------ MODULE BinlogIo ------------------------------
(***************************************************************************)
(* The primitive byte codecs the event codecs are written with: fixed-     *)
(* width little-endian integers (byteorder), usize arithmetic through      *)
(* saturating::Saturating, and MySQL length-encoded integers and strings   *)
(* (crate::io, which is not part of this repository: modelled from spec.md *)
(* section 4.1).                                                           *)
(*                                                                         *)
(* Bytes are naturals in 0..255 and byte strings are sequences of them.    *)
(***************************************************************************)
EXTENDS Naturals, Sequences, SequencesExt

Byte == 0 .. 255

(* usize subtraction through saturating::Saturating, as the code uses it. *)
SatSub(a, b) == IF a > b THEN a - b ELSE 0

\* Byte i (1-based) of b, 0 past its end (a read guarded by a length check).
At(b, i) == IF i \in 1 .. Len(b) THEN b[i] ELSE 0

(* write_uN::<LittleEndian> for a width of w bytes.                       *)
RECURSIVE LE(_, _)
LE(n, w) == IF w = 0 THEN << >> ELSE <<n % 256>> \o LE(n \div 256, w - 1)

(* read_uN::<LittleEndian>: the bytes of s, least significant first.      *)
RECURSIVE FromLE(_)
FromLE(s) == IF s = << >> THEN 0 ELSE Head(s) + 256 * FromLE(Tail(s))

(***************************************************************************)
(* Length-encoded integers: 0x00-0xFA literal, 0xFC + u16, 0xFD + u24,     *)
(* 0xFE + u64.  LenencWidth is the number of bytes that follow the first.  *)
(***************************************************************************)
LenencWidth(first) ==
  CASE first = 252 -> 2
    [] first = 253 -> 3
    [] first = 254 -> 8
    [] OTHER       -> 0

LenencIntBytes(n) ==
  CASE n < 251        -> <<n>>
    [] n < 256 ^ 2    -> <<252>> \o LE(n, 2)
    [] n < 256 ^ 3    -> <<253>> \o LE(n, 3)
    [] OTHER          -> <<254>> \o LE(n, 8)

(* The value of the length-encoded integer whose first byte is at index p *)
(* of b, and the number of bytes it takes.                                *)
LenencIntAt(b, p) ==
  LET w == LenencWidth(b[p])
  IN [val |-> IF w = 0 THEN b[p] ELSE FromLE(SubSeq(b, p + 1, p + w)),
      size |-> 1 + w]

LenencStrBytes(s) == LenencIntBytes(Len(s)) \o s
=============================================================================
