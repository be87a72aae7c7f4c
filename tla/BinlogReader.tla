---------------------------- MODULE BinlogReader ----------------------------
(***************************************************************************)
(* The binlog file iterator of src/binlog.rs: BinlogFile::new reads the    *)
(* file header, then each BinlogFile::next runs EventStreamReader::read,   *)
(* which frames one event with Event::read (header, body, footer taken     *)
(* from the body of an FDE or inherited from the active FDE, checksum      *)
(* trailer cut off) and, when the event is an FDE, parses it and installs  *)
(* it as the active FDE.  Every error the framer can raise is              *)
(* UnexpectedEof, which next() turns into the end of the iteration; a      *)
(* short body makes read_exact(..).unwrap() panic.                         *)
(*                                                                         *)
(* The caller pulls events until next() returns None: "ended", "failed"    *)
(* (BinlogFile::new returned an error) and "panicked" are final.           *)
(***************************************************************************)
EXTENDS BinlogWire

CONSTANTS
  Streams,          \* the event streams a server may have written
  Cuts(_),          \* Cuts(w): how many bytes of the file of w are present
  InitialVersion,   \* the BinlogVersion given to BinlogFile::new
  Damage            \* subset of BOOLEAN: whether the first byte may be wrong

VARIABLES
  wire,     \* the stream the server wrote (environment, fixed)
  cut,      \* the number of its bytes that are present (environment, fixed)
  input,    \* the bytes the reader reads: the first cut bytes of the file,
            \* possibly with a damaged first byte
  pos,      \* how many bytes of input the reader has consumed
  fde,      \* EventStreamReader.fde, the active format description event
  out,      \* the events next() has returned so far (history)
  status    \* "init", "open", "ended", "failed" or "panicked"

vars == <<wire, cut, input, pos, fde, out, status>>

\* BinlogFileHeader::VALUE
FILE_HEADER_VALUE == <<254, 98, 105, 110>>

Init ==
  /\ wire \in Streams
  /\ cut \in Cuts(wire)
  /\ \E damaged \in Damage :
       LET file == SubSeq(WireBytes(wire), 1, cut)
       IN input = IF damaged /\ cut > 0 THEN [file EXCEPT ![1] = 0] ELSE file
  /\ pos = 0
  /\ fde = FdeNew(InitialVersion)
  /\ out = << >>
  /\ status = "init"

(***************************************************************************)
(* BinlogFile::new: BinlogFileHeader::read takes 4 bytes and rejects any   *)
(* other value than "\xfebin" (InvalidData); fewer bytes is UnexpectedEof. *)
(***************************************************************************)
\* BinlogFileHeader::read on bytes b: Ok, UnexpectedEof or InvalidData.
FileHeaderRead(b) ==
  CASE Len(b) < Len(FILE_HEADER_VALUE)                    -> "UnexpectedEof"
    [] SubSeq(b, 1, Len(FILE_HEADER_VALUE)) # FILE_HEADER_VALUE -> "InvalidData"
    [] OTHER                                              -> "Ok"

Open ==
  /\ status = "init"
  /\ \/ /\ FileHeaderRead(input) = "UnexpectedEof"
        /\ status' = "failed"
        /\ UNCHANGED pos
     \/ /\ FileHeaderRead(input) = "InvalidData"
        /\ status' = "failed" /\ pos' = Len(FILE_HEADER_VALUE)
     \/ /\ FileHeaderRead(input) = "Ok"
        /\ status' = "open" /\ pos' = Len(FILE_HEADER_VALUE)
  /\ UNCHANGED <<wire, cut, input, fde, out>>

(* The "fde will always contain checksum" rule of Event::read: a footer   *)
(* with an algorithm means a trailer for an FDE, and for any other event  *)
(* unless the algorithm byte is OFF.                                      *)
\* Mutant: only the algorithm byte decides, FDEs included.
ContainsChecksumNoFde(footer, isFde) ==
  footer # << >> /\ footer[1] # BINLOG_CHECKSUM_ALG_OFF

ContainsChecksum(footer, isFde) ==
  footer # << >> /\ (isFde \/ footer[1] # BINLOG_CHECKSUM_ALG_OFF)

(* EventStreamReader::read: the parsed FDE gets the footer of its event.  *)
InstallFde(ev) == [FdeRead(ev.data) EXCEPT !.footer = ev.footer]

(* The CRC32 trailer copied out of the last 4 bytes of the body.          *)
StoredChecksum(body) == SubSeq(body, Len(body) - 3, Len(body))

(***************************************************************************)
(* Event::read once header h and its body are in hand, followed by the     *)
(* FDE installation of EventStreamReader::read and the mapping of errors   *)
(* in BinlogFile::next.                                                    *)
(***************************************************************************)
ReadEvent(h, body) ==
  LET isFde  == h.event_type = FORMAT_DESCRIPTION_EVENT
      footer == IF isFde THEN FooterRead(body) ELSE fde.footer
      sum    == ContainsChecksum(footer, isFde)
      trunc  == (IF isFde /\ footer # << >> THEN BINLOG_CHECKSUM_ALG_DESC_LEN ELSE 0)
                  + (IF sum THEN BINLOG_CHECKSUM_LEN ELSE 0)
      ev     == [fde      |-> IF isFde THEN [fde EXCEPT !.footer = footer] ELSE fde,
                 header   |-> h,
                 data     |-> SubSeq(body, 1, Len(body) - trunc),
                 footer   |-> footer,
                 checksum |-> IF sum THEN StoredChecksum(body) ELSE <<0, 0, 0, 0>>]
  IN \/ /\ sum /\ Len(body) < BINLOG_CHECKSUM_LEN    \* data.len() - 4 underflows
        /\ status' = "panicked"
        /\ UNCHANGED <<fde, out>>
     \/ /\ ~(sum /\ Len(body) < BINLOG_CHECKSUM_LEN)
        /\ \/ /\ ~isFde
              /\ out' = Append(out, ev)
              /\ UNCHANGED <<fde, status>>
           \/ /\ isFde /\ ~FdeReadable(ev.data)      \* UnexpectedEof: None
              /\ status' = "ended"
              /\ UNCHANGED <<fde, out>>
           \/ /\ isFde /\ FdeReadable(ev.data)
              /\ fde' = InstallFde(ev)
              /\ out' = Append(out, ev)
              /\ UNCHANGED status

(***************************************************************************)
(* BinlogFile::next.  A header cut short is UnexpectedEof (None, and the   *)
(* slice reader is drained); a body cut short panics in unwrap().  The     *)
(* body length is event_size - 19, saturating at 0.                        *)
(***************************************************************************)
ReadNext ==
  /\ status = "open"
  /\ LET avail == Len(input) - pos
     IN \/ /\ avail < HEADER_LEN
           /\ status' = "ended"
           /\ pos' = Len(input)
           /\ UNCHANGED <<fde, out>>
        \/ /\ avail >= HEADER_LEN
           /\ LET h       == ReadHeader(SubSeq(input, pos + 1, pos + HEADER_LEN))
                  bodyLen == SatSub(h.event_size, HEADER_LEN)
              IN \/ /\ avail - HEADER_LEN < bodyLen
                    /\ status' = "panicked"
                    /\ UNCHANGED <<pos, fde, out>>
                 \/ /\ avail - HEADER_LEN >= bodyLen
                    /\ pos' = pos + HEADER_LEN + bodyLen
                    /\ ReadEvent(h, SubSeq(input, pos + HEADER_LEN + 1,
                                                 pos + HEADER_LEN + bodyLen))
  /\ UNCHANGED <<wire, cut, input>>

Next == Open \/ ReadNext

(* The caller keeps calling next() while it returns events (a for loop): *)
(* weak fairness of Next.  ENABLED <<Next>>_vars holds exactly while the  *)
(* reader is in "init" or "open" (every branch of Open and ReadNext       *)
(* changes status, pos or out), so WF_vars(Next) is written out as below. *)
Running == status \in {"init", "open"}

Fairness == []<>(~Running) \/ []<><<Next>>_vars

Spec == Init /\ [][Next]_vars /\ Fairness

-----------------------------------------------------------------------------
(***************************************************************************)
(* Properties.                                                             *)
(***************************************************************************)
EventRecord ==
  [fde: [binlog_version: Nat, server_version: Seq(Byte), create_timestamp: Nat,
         event_type_header_lengths: Seq(Byte), footer: Seq(Byte)],
   header: [timestamp: Nat, event_type: Byte, server_id: Nat, event_size: Nat,
            log_pos: Nat, flags: 0 .. 65535],
   data: Seq(Byte), footer: Seq(Byte), checksum: Seq(Byte)]

TypeOK ==
  /\ pos \in 0 .. Len(input)
  /\ status \in {"init", "open", "ended", "failed", "panicked"}
  /\ \A i \in 1 .. Len(out) : out[i] \in EventRecord
  /\ \A i \in 1 .. Len(out) : Len(out[i].footer) <= 1 /\ Len(out[i].checksum) = 4

(* Spec 3, stream state: every event is decoded with the post-header     *)
(* length table of the latest FDE before it (none before the first FDE),  *)
(* and its footer is the checksum policy that the server of the latest    *)
(* FDE at or before it really used (the reader's default OFF before any   *)
(* FDE).  This is about Event::read's footer inheritance, BinlogEvent-    *)
(* Footer::read's version test and offset, and the FDE installation.      *)
EventsUseLatestFde ==
  \A i \in 1 .. Len(out) :
    LET before == {j \in 1 .. (i - 1) : WireIsFde(wire, j)}
    IN /\ out[i].fde.event_type_header_lengths =
            IF before = {} THEN << >> ELSE wire[Max(before)].phl
       /\ out[i].footer =
            IF before = {} /\ ~WireIsFde(wire, i) THEN DefaultFooter ELSE Policy(wire, i)

(* Spec 8.1: writing back an event that was read (Event::write) gives the *)
(* exact bytes it was read from, checksum trailer included.               *)
RoundTrip ==
  \A i \in 1 .. Len(out) : EncodeEvent(out[i]) = Frame(wire, i)

(* Spec 4.7: the iteration ends without an error only at a clean EOF, an *)
(* event boundary; EOF inside an event is UnexpectedEof.                  *)
CleanEndAtBoundary ==
  status = "ended" => cut \in Boundaries(wire)

(* Reading never panics, whatever the bytes (spec 7: truncation is an     *)
(* error of kind UnexpectedEof).                                          *)
NoPanic == status # "panicked"

(* Spec 4.7, as one claim: EOF inside an event, in its header, in its    *)
(* body or inside the FDE it carries, is an error.  The iteration ends    *)
(* without one only at a clean EOF after every event of the file has     *)
(* been returned, and it never panics.  This is about BinlogFile::next's  *)
(* UnexpectedEof mapping, the unwrap() after read_exact in Event::read    *)
(* and the FDE parse of EventStreamReader::read after the event's bytes  *)
(* have been consumed.                                                    *)
MidEventEofIsError ==
  /\ NoPanic
  /\ status = "ended" => CleanEndAtBoundary /\ Len(out) = Complete(wire, cut)

(* Spec 4.4: event_size >= 19 is checked by the framer, so no event with *)
(* a smaller event_size is ever returned.  This is about Event::read's   *)
(* saturating body length, event_size - 19, which gives such a header an *)
(* empty body and leaves the reader inside the bytes that follow it.     *)
EventSizeChecked ==
  \A i \in 1 .. Len(out) : out[i].header.event_size >= HEADER_LEN

(* The reader implements the event-level stream of BinlogStream.          *)
Abstract == INSTANCE BinlogStream WITH
  delivered <- [i \in 1 .. Len(out) |->
                  [header |-> out[i].header, data |-> out[i].data,
                   checksum |-> out[i].checksum]],
  done <- status = "ended"

AbstractStream == Abstract!Spec
=============================================================================
