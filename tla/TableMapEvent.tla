--------------------------- MODULE TableMapEvent ---------------------------
(***************************************************************************)
(* TableMapEvent of src/binlog.rs: its body codec (BinlogStruct::read,     *)
(* ::write) and the per-column metadata look-up get_column_metadata with   *)
(* ColumnType::get_metadata_len.                                           *)
(*                                                                         *)
(* One behaviour takes one event body as the server wrote it, together     *)
(* with the TABLE_MAP post-header length of the FDE in force (read gets it *)
(* from fde.get_event_type_header_length), reads it, writes it back and    *)
(* looks up the metadata of columns.                                       *)
(*                                                                         *)
(* The codec itself is in TableMapCodec.                                  *)
(***************************************************************************)
EXTENDS TableMapCodec

CONSTANTS
  Inputs,      \* set of [phl, body]: post-header length and event body
  MaxCol       \* look-ups are made for column indexes 0 .. MaxCol

VARIABLES
  phl,       \* TABLE_MAP post-header length of the active FDE
  body,      \* the event body (data of the Event, trailer removed)
  ev,        \* the decoded event: << >> before read or on error, else <<e>>
  written,   \* the bytes write produced (<< >> before write)
  lookups,   \* column index -> result of get_column_metadata
  status     \* "init", "read", "failed", "written"

vars == <<phl, body, ev, written, lookups, status>>

(***************************************************************************)
(* TableMapEvent::get_column_metadata(col_idx), as written: the target's   *)
(* type must parse; the loop over 0..col_idx adds the metadata length of   *)
(* columns_type.get(col_idx) (the target, not the loop's column) each      *)
(* time; the slice is None when it does not fit.  Option as a 0/1-seq.     *)
(***************************************************************************)
GetColumnMetadata(e, colIdx) ==
  LET types == e.columns_type
  IN IF colIdx >= Len(types) \/ types[colIdx + 1] \notin KnownColumnType THEN << >>
     ELSE LET len    == GetMetadataLen(types[colIdx + 1])
              offset == colIdx * GetMetadataLen(types[colIdx + 1])
          IN IF offset + len > Len(e.columns_metadata) THEN << >>
             ELSE << SubSeq(e.columns_metadata, offset + 1, offset + len) >>

-----------------------------------------------------------------------------
Init ==
  /\ \E in \in Inputs : phl = in.phl /\ body = in.body
  /\ ev = << >>
  /\ written = << >>
  /\ lookups = << >>
  /\ status = "init"

\* Mutant: the read error ignored.
ReadIgnoringError ==
  /\ status = "init"
  /\ ev' = TableMapRead(body, phl)
  /\ status' = "read"
  /\ UNCHANGED <<phl, body, written, lookups>>

\* Event::read_event::<TableMapEvent>() on the event's data.
Read ==
  /\ status = "init"
  /\ ev' = TableMapRead(body, phl)
  /\ status' = IF ev' = << >> THEN "failed" ELSE "read"
  /\ UNCHANGED <<phl, body, written, lookups>>

\* Writing the decoded event back (EventData::write).
Write ==
  /\ status = "read"
  /\ written' = TableMapWrite(ev[1])
  /\ status' = "written"
  /\ UNCHANGED <<phl, body, ev, lookups>>

\* A consumer's call of get_column_metadata(c).
Lookup ==
  /\ status \in {"read", "written"}
  /\ \E c \in 0 .. MaxCol :
       /\ c \notin DOMAIN lookups
       /\ lookups' = [x \in DOMAIN lookups \cup {c} |->
                        IF x = c THEN GetColumnMetadata(ev[1], c) ELSE lookups[x]]
  /\ UNCHANGED <<phl, body, ev, written, status>>

Next == Read \/ Write \/ Lookup

Spec == Init /\ [][Next]_vars

-----------------------------------------------------------------------------
TypeOK ==
  /\ status \in {"init", "read", "failed", "written"}
  /\ Len(ev) <= 1 /\ (status \in {"read", "written"} <=> Len(ev) = 1)
  /\ \A e \in Range(ev) :
       /\ e.table_id \in Nat /\ e.flags \in 0 .. 65535
       /\ \A f \in {"database_name", "table_name", "columns_type", "columns_metadata",
                     "null_bitmask", "optional_metadata"} : e[f] \in Seq(Byte)
  /\ \A c \in DOMAIN lookups : Len(lookups[c]) <= 1

(* Spec 8.1: writing back a table map event that was read gives exactly  *)
(* the bytes it was read from (TableMapEvent::read then ::write).         *)
ByteRoundTrip ==
  status = "written" => written = body

(***************************************************************************)
(* Spec 4.8 and scenario E: the metadata of column c starts after the      *)
(* metadata of every column to its left, each of the length its own type   *)
(* gives; a column with an unknown type at or left of c leaves it          *)
(* unresolved (None), and so does a slice that does not fit.               *)
(***************************************************************************)
RefColumnMetadata(e, c) ==
  LET types == e.columns_type
  IN IF c >= Len(types) \/ \E j \in 1 .. (c + 1) : types[j] \notin KnownColumnType
     THEN << >>
     ELSE LET offset == FoldLeft(LAMBDA acc, t : acc + GetMetadataLen(t), 0,
                                 SubSeq(types, 1, c))
              len    == GetMetadataLen(types[c + 1])
          IN IF offset + len > Len(e.columns_metadata) THEN << >>
             ELSE << SubSeq(e.columns_metadata, offset + 1, offset + len) >>

(* get_column_metadata returns what the left-to-right walk of spec 4.8   *)
(* gives, for every column looked up.                                     *)
MetadataLookupMatchesSpec ==
  \A c \in DOMAIN lookups : lookups[c] = RefColumnMetadata(ev[1], c)
=============================================================================
