---------------------------- MODULE BinlogCodec ----------------------------
(***************************************************************************)
(* The byte-level codec layer of src/binlog.rs that the event framer is    *)
(* built from: little-endian integers, the 19-byte event header, the       *)
(* footer (checksum algorithm) inferred from a format description event    *)
(* (FDE), the FDE body itself, and the encoding of a whole framed event    *)
(* with its checksum trailer (Event::write / Event::calc_checksum).        *)
(*                                                                         *)
(* An optional value (Rust Option) is a sequence of length 0 or 1.         *)
(* The CRC32 digest itself (crate crc32fast) is not part of this           *)
(* repository; it is the constant operator Crc32, given in the MC module.  *)
(***************************************************************************)
EXTENDS BinlogIo

CONSTANT Crc32(_)   \* digest of a byte string, a natural below 2^32

(* BinlogEventHeader::LEN, FormatDescriptionEvent::SERVER_VER_*,          *)
(* BinlogEventFooter::* constants and the event types the framer tests.   *)
HEADER_LEN == 19
SERVER_VER_OFFSET == 2
SERVER_VER_LEN == 50
BINLOG_CHECKSUM_ALG_DESC_LEN == 1
BINLOG_CHECKSUM_LEN == 4
CHECKSUM_VERSION_PRODUCT == <<5, 6, 1>>
FORMAT_DESCRIPTION_EVENT == 15
BINLOG_CHECKSUM_ALG_OFF == 0
BINLOG_CHECKSUM_ALG_CRC32 == 1
\* BinlogChecksumAlg::try_from: the raw algorithm bytes with a parsed view.
KnownChecksumAlg == {BINLOG_CHECKSUM_ALG_OFF, BINLOG_CHECKSUM_ALG_CRC32}

(***************************************************************************)
(* BinlogEventHeader::read and ::write: six little-endian fields.          *)
(***************************************************************************)
\* Mutant: the event type read as a u16.
ReadHeaderWideType(b) ==
  [timestamp  |-> FromLE(SubSeq(b, 1, 4)),
   event_type |-> FromLE(SubSeq(b, 5, 6)),
   server_id  |-> FromLE(SubSeq(b, 6, 9)),
   event_size |-> FromLE(SubSeq(b, 10, 13)),
   log_pos    |-> FromLE(SubSeq(b, 14, 17)),
   flags      |-> FromLE(SubSeq(b, 18, 19))]

ReadHeader(b) ==
  [timestamp  |-> FromLE(SubSeq(b, 1, 4)),
   event_type |-> b[5],
   server_id  |-> FromLE(SubSeq(b, 6, 9)),
   event_size |-> FromLE(SubSeq(b, 10, 13)),
   log_pos    |-> FromLE(SubSeq(b, 14, 17)),
   flags      |-> FromLE(SubSeq(b, 18, 19))]

HeaderBytes(h) ==
  LE(h.timestamp, 4) \o <<h.event_type>> \o LE(h.server_id, 4)
    \o LE(h.event_size, 4) \o LE(h.log_pos, 4) \o LE(h.flags, 2)

(***************************************************************************)
(* crate::misc::split_version, which is not under src/ (modelled from the  *)
(* spec, section 4.5): the NUL-terminated text is split on '.', and each   *)
(* of the first three parts contributes the number its leading ASCII      *)
(* digits spell, 0 when it has none or is missing.                         *)
(***************************************************************************)
IsDigit(c) == c \in 48 .. 57

CText(s) == LET nul == SelectInSeq(s, LAMBDA c : c = 0)
            IN IF nul = 0 THEN s ELSE SubSeq(s, 1, nul - 1)

RECURSIVE DotParts(_)
DotParts(s) ==
  LET dot == SelectInSeq(s, LAMBDA c : c = 46)
  IN IF dot = 0 THEN <<s>>
     ELSE <<SubSeq(s, 1, dot - 1)>> \o DotParts(SubSeq(s, dot + 1, Len(s)))

RECURSIVE LeadingNumber(_, _)
LeadingNumber(s, acc) ==
  IF s = << >> \/ ~IsDigit(Head(s)) THEN acc
  ELSE LeadingNumber(Tail(s), 10 * acc + Head(s) - 48)

SplitVersion(s) ==
  LET parts == DotParts(CText(s))
  IN [i \in 1 .. 3 |-> IF i <= Len(parts) THEN LeadingNumber(parts[i], 0) ELSE 0]

\* Rust's lexicographic order on (u8, u8, u8) tuples.
VersionLess(a, b) ==
  \E i \in 1 .. 3 : a[i] < b[i] /\ \A j \in 1 .. (i - 1) : a[j] = b[j]

(***************************************************************************)
(* BinlogEventFooter::read(buf) over the whole body of an FDE, checksum    *)
(* trailer included: no algorithm unless the (defensively NUL-terminated)  *)
(* server version is at least 5.6.1, then the byte 5 from the end.         *)
(***************************************************************************)
\* Mutant: the algorithm byte taken one position too early.
FooterReadOffByOne(buf) ==
  IF Len(buf) >= SERVER_VER_OFFSET + SERVER_VER_LEN
  THEN LET sv == [SubSeq(buf, SERVER_VER_OFFSET + 1, SERVER_VER_OFFSET + SERVER_VER_LEN)
                    EXCEPT ![SERVER_VER_LEN] = 0]
       IN IF VersionLess(SplitVersion(sv), CHECKSUM_VERSION_PRODUCT) THEN << >>
          ELSE << buf[Len(buf) - (BINLOG_CHECKSUM_ALG_DESC_LEN + BINLOG_CHECKSUM_LEN)] >>
  ELSE << >>

FooterRead(buf) ==
  IF Len(buf) >= SERVER_VER_OFFSET + SERVER_VER_LEN
  THEN LET sv == [SubSeq(buf, SERVER_VER_OFFSET + 1, SERVER_VER_OFFSET + SERVER_VER_LEN)
                    EXCEPT ![SERVER_VER_LEN] = 0]
       IN IF VersionLess(SplitVersion(sv), CHECKSUM_VERSION_PRODUCT) THEN << >>
          ELSE << buf[Len(buf) - (BINLOG_CHECKSUM_ALG_DESC_LEN + BINLOG_CHECKSUM_LEN) + 1] >>
  ELSE << >>

\* BinlogEventFooter::default(): checksum algorithm OFF.
DefaultFooter == << BINLOG_CHECKSUM_ALG_OFF >>

(***************************************************************************)
(* FormatDescriptionEvent::new, ::read and ::write.  The post-header       *)
(* length table is whatever follows the fixed 57 bytes; the header-length  *)
(* byte is skipped on read and written as 19.                              *)
(***************************************************************************)
FDE_FIXED_LEN == 2 + SERVER_VER_LEN + 4 + 1

FdeNew(version) ==
  [binlog_version             |-> version,
   server_version             |-> [i \in 1 .. SERVER_VER_LEN |-> 0],
   create_timestamp           |-> 0,
   event_type_header_lengths  |-> << >>,
   footer                     |-> DefaultFooter]

\* FormatDescriptionEvent::read fails with UnexpectedEof on a shorter body.
FdeReadable(data) == Len(data) >= FDE_FIXED_LEN

FdeRead(data) ==
  [binlog_version             |-> FromLE(SubSeq(data, 1, 2)),
   server_version             |-> SubSeq(data, 3, 2 + SERVER_VER_LEN),
   create_timestamp           |-> FromLE(SubSeq(data, 3 + SERVER_VER_LEN, 6 + SERVER_VER_LEN)),
   event_type_header_lengths  |-> SubSeq(data, FDE_FIXED_LEN + 1, Len(data)),
   footer                     |-> DefaultFooter]

FdeBytes(f) ==
  LE(f.binlog_version, 2) \o f.server_version \o LE(f.create_timestamp, 4)
    \o <<HEADER_LEN>> \o f.event_type_header_lengths

(***************************************************************************)
(* Event::calc_checksum and Event::write (with Event::len as its limit):   *)
(* header, data, then the algorithm byte for an FDE and the CRC32 when the *)
(* footer holds a KNOWN algorithm that is not OFF, or the event is an FDE. *)
(* A footer holding an unknown algorithm byte writes no trailer at all.    *)
(***************************************************************************)
IsFde(e) == e.header.event_type = FORMAT_DESCRIPTION_EVENT

\* Mutant: the FDE's algorithm byte left out of the digest.
CalcChecksumNoAlg(e, alg) == Crc32(HeaderBytes(e.header) \o e.data)

CalcChecksum(e, alg) ==
  Crc32(HeaderBytes(e.header) \o e.data \o (IF IsFde(e) THEN <<alg>> ELSE << >>))

\* Mutant: an FDE whose algorithm is OFF written without its CRC32.
EncodeEventNoFdeSum(e) ==
  LET known == e.footer # << >> /\ e.footer[1] \in KnownChecksumAlg
      alg   == e.footer[1]
  IN HeaderBytes(e.header) \o e.data
       \o (IF known /\ IsFde(e) THEN <<alg>> ELSE << >>)
       \o (IF known /\ alg # BINLOG_CHECKSUM_ALG_OFF
           THEN LE(CalcChecksum(e, alg), BINLOG_CHECKSUM_LEN) ELSE << >>)

EncodeEvent(e) ==
  LET known == e.footer # << >> /\ e.footer[1] \in KnownChecksumAlg
      alg   == e.footer[1]
  IN HeaderBytes(e.header) \o e.data
       \o (IF known /\ IsFde(e) THEN <<alg>> ELSE << >>)
       \o (IF known /\ (alg # BINLOG_CHECKSUM_ALG_OFF \/ IsFde(e))
           THEN LE(CalcChecksum(e, alg), BINLOG_CHECKSUM_LEN) ELSE << >>)
=============================================================================
