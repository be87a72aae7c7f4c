----------------------------- MODULE BinlogWire -----------------------------
(***************************************************************************)
(* The environment of the reader: a MySQL server laying out a binlog file  *)
(* as spec.md sections 3, 4.7 and 4.10 describe it.  This is not code of   *)
(* this repository; it produces the inputs the reader is checked on and    *)
(* the events the reader is expected to return for them.                   *)
(*                                                                         *)
(* A stream is a sequence of event descriptions                            *)
(*   [event_type, payload, crc_capable, alg, phl, bare, sent, size]        *)
(* where payload is the event body without any checksum trailer.  For an   *)
(* FDE, crc_capable says whether its server (>= 5.6.1) writes checksums,   *)
(* alg is the algorithm byte it writes and phl its post-header length      *)
(* table; the three are ignored for other events.  A bare event is a      *)
(* damaged one, written without the trailer the policy calls for.  sent is *)
(* << >>, or <<f>> for an event whose payload the server encoded from the  *)
(* fields f (ServerEvents).  size is << >>, or <<n>> for a damaged event   *)
(* whose header states event_size n instead of its real length.           *)
(* Events before the first FDE carry no trailer (file mode starts with an  *)
(* FDE; a server stream sends at most a fake ROTATE before it).            *)
(***************************************************************************)
EXTENDS BinlogCodec, ServerEvents

FileMagic == <<254, 98, 105, 110>>         \* "\xfebin"

(* The body of an FDE (spec section 3): binlog version 4, the server      *)
(* version NUL-padded to 50 bytes, a creation time, the header length 19  *)
(* and the post-header length table.                                      *)
WireFdePayload(version, phl) ==
  LE(4, 2) \o version \o [i \in 1 .. (50 - Len(version)) |-> 0]
    \o LE(1253783036, 4) \o <<19>> \o phl

WireFde(version, capable, alg, phl) ==
  [event_type |-> FORMAT_DESCRIPTION_EVENT, payload |-> WireFdePayload(version, phl),
   crc_capable |-> capable, alg |-> alg, phl |-> phl, bare |-> FALSE, sent |-> << >>, size |-> << >>]

WireEvent(type, payload) ==
  [event_type |-> type, payload |-> payload, crc_capable |-> FALSE, alg |-> 0, phl |-> << >>,
   bare |-> FALSE, sent |-> << >>, size |-> << >>]

WireBareEvent(type, payload) == [WireEvent(type, payload) EXCEPT !.bare = TRUE]

\* An event whose header states event_size n.
WireForgedSizeEvent(type, payload, n) == [WireEvent(type, payload) EXCEPT !.size = <<n>>]

\* A QUERY_EVENT (type 2) with the fields f, under the QUERY post-header
\* length phl of the FDE it follows.
WireQuery(f, phl) == [WireEvent(2, ServerQuery(f, phl)) EXCEPT !.sent = <<f>>]

(* The checksum policy in force at event i: the algorithm of the latest   *)
(* FDE at or before i, if that server writes checksums.                   *)
Policy(w, i) ==
  LET fdes == {j \in 1 .. i : w[j].event_type = FORMAT_DESCRIPTION_EVENT}
  IN IF fdes = {} THEN << >>
     ELSE LET last == w[Max(fdes)]
          IN IF last.crc_capable THEN <<last.alg>> ELSE << >>

WireIsFde(w, i) == w[i].event_type = FORMAT_DESCRIPTION_EVENT

(* An FDE carries [alg][crc32] whenever checksums are in use; any other   *)
(* event carries [crc32] when the algorithm is not OFF.                   *)
TrailerLen(w, i) ==
  LET p == Policy(w, i)
  IN IF p = << >> \/ w[i].bare THEN 0
     ELSE IF WireIsFde(w, i) THEN 5
     ELSE IF p[1] # BINLOG_CHECKSUM_ALG_OFF THEN 4 ELSE 0

EventSize(w, i) == HEADER_LEN + Len(w[i].payload) + TrailerLen(w, i)

RECURSIVE Offset(_, _)
\* File offset of event i (the magic takes the first 4 bytes).
Offset(w, i) == IF i = 1 THEN Len(FileMagic)
                ELSE Offset(w, i - 1) + EventSize(w, i - 1)

WireHeader(w, i) ==
  [timestamp  |-> i,
   event_type |-> w[i].event_type,
   server_id  |-> 1,
   event_size |-> IF w[i].size = << >> THEN EventSize(w, i) ELSE w[i].size[1],
   log_pos    |-> Offset(w, i) + EventSize(w, i),
   flags      |-> 0]

\* The 19 header bytes in the field order of spec section 3.
WireHeaderBytes(h) ==
  LE(h.timestamp, 4) \o <<h.event_type>> \o LE(h.server_id, 4)
    \o LE(h.event_size, 4) \o LE(h.log_pos, 4) \o LE(h.flags, 2)

(* Spec 4.10: CRC32 over header and body, plus the algorithm byte for an  *)
(* FDE, stored little-endian.                                             *)
WireChecksum(w, i) ==
  LE(Crc32(WireHeaderBytes(WireHeader(w, i)) \o w[i].payload
             \o (IF WireIsFde(w, i) THEN <<w[i].alg>> ELSE << >>)), 4)

Trailer(w, i) ==
  CASE TrailerLen(w, i) = 0 -> << >>
    [] TrailerLen(w, i) = 4 -> WireChecksum(w, i)
    [] OTHER               -> <<w[i].alg>> \o WireChecksum(w, i)

Frame(w, i) == WireHeaderBytes(WireHeader(w, i)) \o w[i].payload \o Trailer(w, i)

WireBytes(w) == FileMagic \o FlattenSeq([i \in 1 .. Len(w) |-> Frame(w, i)])

(* Cut points at which the file ends exactly between two events.          *)
Boundaries(w) == {Offset(w, i) : i \in 1 .. Len(w)} \cup {Len(WireBytes(w))}

\* Number of events wholly inside the first cut bytes.
Complete(w, cut) == Cardinality({i \in 1 .. Len(w) : Offset(w, i) + EventSize(w, i) <= cut})

(* What reading event i must give back: its header, its body without the *)
(* trailer, and the stored checksum (zero bytes when there is none).      *)
Expected(w, i) ==
  [header   |-> WireHeader(w, i),
   data     |-> w[i].payload,
   checksum |-> IF TrailerLen(w, i) = 0 THEN <<0, 0, 0, 0>> ELSE WireChecksum(w, i)]
=============================================================================
