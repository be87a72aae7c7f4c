--------------------------- MODULE MCBinlogReader ---------------------------
(***************************************************************************)
(* Model values for BinlogReader: a handful of binlog files written by     *)
(* servers before and after checksums (5.6.1), with checksums OFF, CRC32   *)
(* or an algorithm byte this crate does not know, in file mode (FDE first),*)
(* after a fake ROTATE, and as a relay log whose second FDE changes the    *)
(* policy mid-file.                                                        *)
(***************************************************************************)
EXTENDS BinlogReader, FiniteSets

(* A stand-in for CRC32: any digest that depends on every byte and on    *)
(* their order serves the properties, which only compare digests.  It     *)
(* halves the string so that the recursion stays shallow.                 *)
RECURSIVE MCHash(_)
MCHash(s) ==
  IF Len(s) <= 1 THEN IF s = << >> THEN 1 ELSE s[1] + 2
  ELSE LET k == Len(s) \div 2
       IN (MCHash(SubSeq(s, 1, k)) * 7919 + MCHash(SubSeq(s, k + 1, Len(s))) * 31
            + Len(s)) % 65521

MCCrc32(s) == MCHash(s)

\* Server version strings: "5.1.23", "5.6.0", "5.6.1-log", "8.0.21".
V5_1_23 == <<53, 46, 49, 46, 50, 51>>
V5_6_0  == <<53, 46, 54, 46, 48>>
V5_6_1  == <<53, 46, 54, 46, 49, 45, 108, 111, 103>>
V8_0_21 == <<56, 46, 48, 46, 50, 49>>

(* Each server with whether it writes checksums (>= 5.6.1).               *)
Servers == {<<V5_1_23, FALSE>>, <<V5_6_0, FALSE>>, <<V5_6_1, TRUE>>, <<V8_0_21, TRUE>>}

QUERY_EVENT == 2
ROTATE_EVENT == 4
XID_EVENT == 16

MCFde(s, alg, phl) == WireFde(s[1], s[2], alg, phl)

(* The three file shapes, for servers s, s2 and algorithms a, a2.         *)
FileStream(s, a) ==
  << MCFde(s, a, <<56, 13>>), WireEvent(QUERY_EVENT, <<7>>), WireEvent(XID_EVENT, << >>) >>
RotateFirst(s, a) ==
  << WireEvent(ROTATE_EVENT, <<4, 0>>), MCFde(s, a, << >>), WireEvent(QUERY_EVENT, <<7, 9>>) >>
RelayLog(s, a, s2, a2) ==
  << MCFde(s, a, <<1>>), WireEvent(QUERY_EVENT, <<1>>), MCFde(s2, a2, <<2>>),
     WireEvent(XID_EVENT, <<2>>) >>

StreamsOver(Algs) ==
  {FileStream(s, a) : s \in Servers, a \in Algs}
    \cup {RotateFirst(s, a) : s \in Servers, a \in Algs}
    \cup {RelayLog(s, a, s2, a2) : s \in Servers, a \in Algs, s2 \in Servers, a2 \in Algs}

\* Checksums OFF or CRC32.
MCStreams == StreamsOver({BINLOG_CHECKSUM_ALG_OFF, BINLOG_CHECKSUM_ALG_CRC32})
(* Damaged files: an FDE too short to parse, and an event whose trailer  *)
(* is missing under CRC32, so its event_size is below 23.                 *)
MCDamagedStreams ==
  { << WireEvent(FORMAT_DESCRIPTION_EVENT, <<4, 0, 53>>), WireEvent(QUERY_EVENT, <<7>>) >> }
    \cup { << MCFde(s, BINLOG_CHECKSUM_ALG_CRC32, << >>), WireBareEvent(QUERY_EVENT, <<7>>) >> :
            s \in {t \in Servers : t[2]} }

MCAllStreams == MCStreams \cup MCDamagedStreams

(* Headers whose event_size (0 or 10) is below the header length, from a *)
(* server without checksums and from one writing CRC32.                  *)
MCShortSizeStreams ==
  { << MCFde(s, BINLOG_CHECKSUM_ALG_CRC32, <<56, 13>>), WireForgedSizeEvent(QUERY_EVENT, <<7, 9>>, n),
       WireEvent(XID_EVENT, << >>) >> : s \in {<<V5_1_23, FALSE>>, <<V8_0_21, TRUE>>}, n \in {0, 10} }

\* An algorithm byte (2) that BinlogChecksumAlg does not know.
MCUnknownAlgStreams == {FileStream(s, 2) : s \in Servers}

\* Whole files, cut at an event boundary, or cut anywhere.
MCWholeCuts(w) == {Len(WireBytes(w))}
MCBoundaryCuts(w) == Boundaries(w)
MCAnyCuts(w) == 0 .. Len(WireBytes(w))
\* Files as written, or also with a first byte that is not 0xfe.
MCNoDamage == {FALSE}
MCAnyDamage == BOOLEAN

MCInitialVersion == 4
=============================================================================
