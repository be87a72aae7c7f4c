--------------------------- MODULE PostHeaderCodecs ---------------------------
(***************************************************************************)
(* The payload codecs of src/binlog.rs: QUERY, ROTATE, INTVAR, RAND, XID,  *)
(* USER_VAR, INCIDENT, BEGIN_LOAD_QUERY, EXECUTE_LOAD_QUERY, TABLE_MAP,    *)
(* ROWS_QUERY and the V2 rows events (WRITE/UPDATE/DELETE_ROWS through     *)
(* RowsEvent), with FormatDescriptionEvent::get_event_type_header_length,  *)
(* EventType::try_from and the whole dispatch of Event::read_data and      *)
(* EventData::write, with its unit and opaque variants.                    *)
(*                                                                         *)
(* One behaviour takes one event (type, body) with the post-header table   *)
(* of the FDE in force, decodes it and writes the decoded payload back.    *)
(* Each codec reads from a reader limited to the body (read_event passes   *)
(* 19 + data.len()); a read past it is UnexpectedEof.  A payload is a      *)
(* record; << >> stands for an error, <<e>> for Ok(e).                     *)
(***************************************************************************)
EXTENDS TableMapCodec

CONSTANTS
  Inputs     \* set of [etype, table, body, whole]

VARIABLES
  etype,     \* header.event_type
  table,     \* event_type_header_lengths of the FDE stored in the event
  body,      \* Event.data
  whole,     \* TRUE when body is all a server wrote for the event
  ev,        \* read_data's result: << >> on error, <<payload>> on success
  written,   \* what EventData::write produced: << >> on error, <<bytes>>
  status     \* "init", "read", "failed", "none" (Ok(None)), "written"

vars == <<etype, table, body, whole, ev, written, status>>

\* EventType codes.
UNKNOWN_EVENT == 0
QUERY_EVENT == 2
STOP_EVENT == 3
ROTATE_EVENT == 4
INTVAR_EVENT == 5
RAND_EVENT == 13
USER_VAR_EVENT == 14
XID_EVENT == 16
BEGIN_LOAD_QUERY_EVENT == 17
EXECUTE_LOAD_QUERY_EVENT == 18
TABLE_MAP_EVENT == 19
WRITE_ROWS_EVENT_V1 == 23
UPDATE_ROWS_EVENT_V1 == 24
DELETE_ROWS_EVENT_V1 == 25
INCIDENT_EVENT == 26
ROWS_QUERY_EVENT == 29
WRITE_ROWS_EVENT == 30
UPDATE_ROWS_EVENT == 31
DELETE_ROWS_EVENT == 32
SLAVE_EVENT == 7
HEARTBEAT_EVENT == 27
ANONYMOUS_GTID_EVENT == 34
PREVIOUS_GTIDS_EVENT == 35
XA_PREPARE_LOG_EVENT == 38
PARTIAL_UPDATE_ROWS_EVENT == 39

\* The variants of enum EventType, 0x00 .. 0x27 (ENUM_END_EVENT, 0x28, only
\* counts them).
EventTypeVariants == 0 .. 39

\* Mutant: the conversion of a release before PREVIOUS_GTIDS_EVENT.
EventTypeTryFromPreGtidSet == 0 .. 34

(* EventType::try_from(u8), which RawField::get calls for the header's    *)
(* event_type: the bytes it maps to a variant; any other is               *)
(* Err(UnknownEventType).                                                  *)
EventTypeTryFrom == 0 .. 35

(* get_event_type_header_length: UNKNOWN_EVENT is 0; otherwise the table  *)
(* entry at event_type - 1 (saturating), else the built-in default.       *)
DefaultHeaderLen(t) ==
  CASE t = QUERY_EVENT -> 13
    [] t \in {ROTATE_EVENT, TABLE_MAP_EVENT} -> 8
    [] t \in {UNKNOWN_EVENT, STOP_EVENT, INTVAR_EVENT, RAND_EVENT, USER_VAR_EVENT,
              XID_EVENT, ROWS_QUERY_EVENT} -> 0
    [] t = BEGIN_LOAD_QUERY_EVENT -> 4
    [] t = EXECUTE_LOAD_QUERY_EVENT -> 26
    [] t = INCIDENT_EVENT -> 2
    [] t \in {WRITE_ROWS_EVENT_V1, UPDATE_ROWS_EVENT_V1, DELETE_ROWS_EVENT_V1} -> 8
    [] t \in {WRITE_ROWS_EVENT, UPDATE_ROWS_EVENT, DELETE_ROWS_EVENT,
              PARTIAL_UPDATE_ROWS_EVENT} -> 10
    [] t = ANONYMOUS_GTID_EVENT -> 42

GetEventTypeHeaderLength(tbl, t) ==
  IF t = UNKNOWN_EVENT THEN 0
  ELSE IF SatSub(t, 1) < Len(tbl) THEN tbl[SatSub(t, 1) + 1]
  ELSE DefaultHeaderLen(t)

\* The n bytes after offset from (cut at the end of b; every use is guarded
\* by a length check on a later offset).
Bytes(b, from, n) == SubSeq(b, from + 1, Min({from + n, Len(b)}))
U(b, from, n) == FromLE(Bytes(b, from, n))

(* Write through output.limit(len): more bytes than len is an error.      *)
Limited(bytes, len) == IF Len(bytes) > len THEN << >> ELSE <<bytes>>

-----------------------------------------------------------------------------
(* RotateEvent: u64 position, name = the rest.                            *)
RotateRead(b) ==
  IF Len(b) < 8 THEN << >>
  ELSE << [position |-> U(b, 0, 8), name |-> SubSeq(b, 9, Len(b))] >>

RotateLen(e) == 8 + Len(e.name)

RotateWrite(e) == Limited(LE(e.position, 8) \o e.name, RotateLen(e))

(***************************************************************************)
(* QueryEvent::read: the 13 bytes of the post-header, post_header_len - 13 *)
(* skipped bytes (saturating), status vars, schema, one byte, the query.   *)
(***************************************************************************)
\* Mutant: the post-header taken as the 13 fixed bytes, whatever the FDE says.
QueryReadFixedPostHeader(b, phl) ==
  LET svLen   == U(b, 11, 2)
      pVars   == 13
      pSchema == pVars + svLen
      pQuery  == pSchema + At(b, 9) + 1
  IN IF Len(b) < 13 \/ pQuery > Len(b) THEN << >>
     ELSE << [thread_id |-> U(b, 0, 4), execution_time |-> U(b, 4, 4),
              error_code |-> U(b, 9, 2),
              status_vars |-> Bytes(b, pVars, svLen),
              schema |-> Bytes(b, pSchema, At(b, 9)),
              query |-> SubSeq(b, pQuery + 1, Len(b))] >>

QueryRead(b, phl) ==
  LET svLen   == U(b, 11, 2)
      pVars   == 13 + SatSub(phl, 13)
      pSchema == pVars + svLen
      pQuery  == pSchema + At(b, 9) + 1
  IN IF Len(b) < 13 \/ pQuery > Len(b) THEN << >>
     ELSE << [thread_id |-> U(b, 0, 4), execution_time |-> U(b, 4, 4),
              error_code |-> U(b, 9, 2),
              status_vars |-> Bytes(b, pVars, svLen),
              schema |-> Bytes(b, pSchema, At(b, 9)),
              query |-> SubSeq(b, pQuery + 1, Len(b))] >>

QueryLen(e) ==
  13 + Min({Len(e.status_vars), 65535}) + Min({Len(e.schema), 255}) + 1 + Len(e.query)

QueryWrite(e) ==
  Limited(LE(e.thread_id, 4) \o LE(e.execution_time, 4)
            \o <<Min({Len(e.schema), 255})>> \o LE(e.error_code, 2)
            \o LE(Min({Len(e.status_vars), 65535}), 2)
            \o e.status_vars \o e.schema \o <<0>> \o e.query,
          QueryLen(e))

(* XidEvent, IntvarEvent: post_header_len skipped bytes, the fixed body,  *)
(* and "bytes remaining on stream" if anything is left.                   *)
XidRead(b, phl) ==
  IF Len(b) # phl + 8 THEN << >> ELSE << [xid |-> U(b, phl, 8)] >>

XidWrite(e) == <<LE(e.xid, 8)>>

IntvarRead(b, phl) ==
  IF Len(b) # phl + 9 THEN << >>
  ELSE << [subtype |-> b[phl + 1], value |-> U(b, phl + 1, 8)] >>

IntvarWrite(e) == <<<<e.subtype>> \o LE(e.value, 8)>>

(* RandEvent: two u64 seeds from the first byte of the body (the post-    *)
(* header length is not consulted), nothing may remain; write emits 16    *)
(* bytes while len() says 8.                                               *)
RandRead(b) ==
  IF Len(b) # 16 THEN << >> ELSE << [seed1 |-> U(b, 0, 8), seed2 |-> U(b, 8, 8)] >>

RandLen(e) == 8

RandWrite(e) == <<LE(e.seed1, 8) \o LE(e.seed2, 8)>>

(***************************************************************************)
(* UserVarEvent::read: u32 name length, the name, is_null (any non-zero    *)
(* byte).  A null variable stops there (STRING_RESULT, charset 63, no      *)
(* value, flags 0).  Otherwise value_type, charset, u32 value length, the  *)
(* value, then a flags byte if one is left, and nothing after it.          *)
(***************************************************************************)
STRING_RESULT == 0

UserVarRead(b) ==
  LET pNull == 4 + U(b, 0, 4)
      pVal  == pNull + 10
      rest  == Len(b) - (pVal + U(b, pNull + 6, 4))
  IN CASE Len(b) < 4 \/ pNull + 1 > Len(b) -> << >>
       [] At(b, pNull + 1) # 0 ->
            << [name |-> Bytes(b, 4, pNull - 4), is_null |-> TRUE,
                value_type |-> STRING_RESULT, charset |-> 63, value |-> << >>,
                flags |-> 0] >>
       [] pVal > Len(b) \/ rest < 0 \/ rest > 1 -> << >>
       [] OTHER ->
            << [name |-> Bytes(b, 4, pNull - 4), is_null |-> FALSE,
                value_type |-> At(b, pNull + 2), charset |-> U(b, pNull + 2, 4),
                value |-> Bytes(b, pVal, U(b, pNull + 6, 4)),
                flags |-> IF rest = 1 THEN b[Len(b)] ELSE 0] >>

UserVarLen(e) ==
  4 + Len(e.name) + 1 + (IF e.is_null THEN 0 ELSE 1 + 4 + 4 + Len(e.value) + 1)

\* A non-null variable is always written with its flags byte.
UserVarWrite(e) ==
  Limited(LE(Len(e.name), 4) \o e.name \o <<IF e.is_null THEN 1 ELSE 0>>
            \o (IF e.is_null THEN << >>
                ELSE <<e.value_type>> \o LE(e.charset, 4) \o LE(Len(e.value), 4)
                       \o e.value \o <<e.flags>>),
          UserVarLen(e))

(* IncidentEvent: u16 type, u8 message length, the message, nothing left. *)
IncidentRead(b) ==
  IF Len(b) < 3 \/ Len(b) # 3 + b[3] THEN << >>
  ELSE << [incident_type |-> U(b, 0, 2), message |-> Bytes(b, 3, b[3])] >>

IncidentLen(e) == 3 + Min({Len(e.message), 255})

IncidentWrite(e) ==
  Limited(LE(e.incident_type, 2) \o <<Min({Len(e.message), 255})>> \o e.message,
          IncidentLen(e))

(* RowsQueryEvent: a length byte that is ignored, the query = the rest;   *)
(* write puts min(len, 255) in that byte.                                 *)
RowsQueryRead(b) ==
  IF Len(b) < 1 THEN << >> ELSE << [query |-> SubSeq(b, 2, Len(b))] >>

RowsQueryLen(e) == 1 + Len(e.query)

RowsQueryWrite(e) == Limited(<<Min({Len(e.query), 255})>> \o e.query, RowsQueryLen(e))

(* BeginLoadQueryEvent: u32 file_id, block_data = the rest.               *)
BeginLoadQueryRead(b) ==
  IF Len(b) < 4 THEN << >> ELSE << [file_id |-> U(b, 0, 4), block_data |-> SubSeq(b, 5, Len(b))] >>

BeginLoadQueryLen(e) == 4 + Len(e.block_data)

BeginLoadQueryWrite(e) == Limited(LE(e.file_id, 4) \o e.block_data, BeginLoadQueryLen(e))

(***************************************************************************)
(* ExecuteLoadQueryEvent: the 13-byte QUERY post-header fields, then       *)
(* file_id, start_pos, end_pos (u32) and dup_handling (u8): 26 bytes, the  *)
(* post-header length of the FDE not consulted; then status vars, schema,  *)
(* one byte, the query = the rest.  len() clamps the status vars at        *)
(* 65535 - 13, write at 65535.                                             *)
(***************************************************************************)
ExecuteLoadQueryRead(b) ==
  LET svLen   == U(b, 11, 2)
      pSchema == 26 + svLen
      pQuery  == pSchema + At(b, 9) + 1
  IN IF Len(b) < 26 \/ pQuery > Len(b) THEN << >>
     ELSE << [thread_id |-> U(b, 0, 4), execution_time |-> U(b, 4, 4),
              error_code |-> U(b, 9, 2), file_id |-> U(b, 13, 4),
              start_pos |-> U(b, 17, 4), end_pos |-> U(b, 21, 4),
              dup_handling |-> b[26],
              status_vars |-> Bytes(b, 26, svLen),
              schema |-> Bytes(b, pSchema, At(b, 9)),
              query |-> SubSeq(b, pQuery + 1, Len(b))] >>

ExecuteLoadQueryLen(e) ==
  26 + Min({Len(e.status_vars), 65535 - 13}) + Min({Len(e.schema), 255}) + 1 + Len(e.query)

ExecuteLoadQueryWrite(e) ==
  Limited(LE(e.thread_id, 4) \o LE(e.execution_time, 4)
            \o <<Min({Len(e.schema), 255})>> \o LE(e.error_code, 2)
            \o LE(Min({Len(e.status_vars), 65535}), 2)
            \o LE(e.file_id, 4) \o LE(e.start_pos, 4) \o LE(e.end_pos, 4)
            \o <<e.dup_handling>> \o e.status_vars \o e.schema \o <<0>> \o e.query,
          ExecuteLoadQueryLen(e))

(***************************************************************************)
(* RowsEvent::read for event type t: table_id u32 when the post-header is  *)
(* 6 bytes, else u48; flags; the extra-data block only when the post-      *)
(* header length equals WRITE_ROWS_EVENT's (the V2 shape), whose length    *)
(* field counts itself (saturating_sub(2)); the lenenc column count; one   *)
(* column bitmap, a second for an UPDATE; rows_data = the rest.  The first *)
(* bitmap is the before image of UPDATE and DELETE, the after image of     *)
(* WRITE.  The images are kept as their raw bytes (see TableMapEvent).     *)
(***************************************************************************)
IsDeleteEvent(t) == t \in {DELETE_ROWS_EVENT, DELETE_ROWS_EVENT_V1}
IsUpdateEvent(t) == t \in {UPDATE_ROWS_EVENT, UPDATE_ROWS_EVENT_V1, PARTIAL_UPDATE_ROWS_EVENT}

RowsRead(t, tbl, b) ==
  LET phl      == GetEventTypeHeaderLength(tbl, t)
      idLen    == IF phl = 6 THEN 4 ELSE 6
      v2       == phl = GetEventTypeHeaderLength(tbl, WRITE_ROWS_EVENT)
      extraLen == IF v2 THEN SatSub(U(b, idLen + 2, 2), 2) ELSE 0
      pCnt     == idLen + 2 + (IF v2 THEN 2 + extraLen ELSE 0)
      cnt      == IF pCnt + 1 <= Len(b) THEN LenencIntAt(b, pCnt + 1)
                  ELSE [val |-> 0, size |-> 1]
      bl       == (cnt.val + 7) \div 8
      pImg     == pCnt + cnt.size
      pRows    == pImg + bl * (IF IsUpdateEvent(t) THEN 2 ELSE 1)
      img1     == <<Bytes(b, pImg, bl)>>
      img2     == IF IsUpdateEvent(t) THEN <<Bytes(b, pImg + bl, bl)>> ELSE << >>
  IN IF pCnt + 1 > Len(b) \/ pRows > Len(b) THEN << >>
     ELSE << [table_id |-> U(b, 0, idLen), flags |-> U(b, idLen, 2),
              extra_data |-> Bytes(b, idLen + 4, extraLen),
              num_columns |-> cnt.val,
              before |-> IF IsUpdateEvent(t) \/ IsDeleteEvent(t) THEN img1 ELSE << >>,
              after  |-> IF IsUpdateEvent(t) THEN img2
                         ELSE IF IsDeleteEvent(t) THEN << >> ELSE img1,
              rows_data |-> SubSeq(b, pRows + 1, Len(b))] >>

RowsBitmapLen(e) == (e.num_columns + 7) \div 8

Flat(o) == IF o = << >> THEN << >> ELSE o[1]     \* Option<BitVec> as raw bytes

\* Mutant: a column bitmap counted for both images of every rows event.
RowsLenBothImages(e) ==
  6 + 2 + 2 + Min({Len(e.extra_data), 65533}) + Len(LenencIntBytes(e.num_columns))
    + RowsBitmapLen(e) * 2 + Len(e.rows_data)

RowsLen(e) ==
  6 + 2 + 2 + Min({Len(e.extra_data), 65533}) + Len(LenencIntBytes(e.num_columns))
    + RowsBitmapLen(e) * (Len(e.before) + Len(e.after)) + Len(e.rows_data)

(* RowsEvent::write: always the V2 shape with a u48 table_id; the images  *)
(* must fill bitmap_len bytes each, else UnexpectedEof.                   *)
\* Mutant: the extra-data length written without counting its own 2 bytes.
RowsWriteBareExtraLen(e) ==
  LET imgs == Flat(e.before) \o Flat(e.after)
  IN IF Len(imgs) < RowsBitmapLen(e) * (Len(e.before) + Len(e.after)) THEN << >>
     ELSE Limited(LE(e.table_id, 6) \o LE(e.flags, 2)
                    \o LE(Min({Len(e.extra_data), 65535}), 2) \o e.extra_data
                    \o LenencIntBytes(e.num_columns) \o imgs \o e.rows_data,
                  RowsLen(e))

RowsWrite(e) ==
  LET imgs == Flat(e.before) \o Flat(e.after)
  IN IF Len(imgs) < RowsBitmapLen(e) * (Len(e.before) + Len(e.after)) THEN << >>
     ELSE Limited(LE(e.table_id, 6) \o LE(e.flags, 2)
                    \o LE(Min({Len(e.extra_data) + 2, 65535}), 2) \o e.extra_data
                    \o LenencIntBytes(e.num_columns) \o imgs \o e.rows_data,
                  RowsLen(e))

-----------------------------------------------------------------------------
RowsTypes == {WRITE_ROWS_EVENT, UPDATE_ROWS_EVENT, DELETE_ROWS_EVENT}

(* Event::read_data: the codec of the event type, with its post-header    *)
(* length from the FDE; unit variants keep nothing, opaque types the data. *)
UnitTypes == {UNKNOWN_EVENT, STOP_EVENT, SLAVE_EVENT, HEARTBEAT_EVENT}

\* The arms that keep self.data.clone(): START_EVENT_V3, the old LOAD
\* events, the pre-GA and V1 rows events, IGNORABLE and the GTID events.
OpaqueTypes ==
  {1, 6} \cup (8 .. 12) \cup (20 .. 25) \cup {28} \cup (33 .. 39)

ReadData(t, tbl, b) ==
  CASE t = QUERY_EVENT -> QueryRead(b, GetEventTypeHeaderLength(tbl, QUERY_EVENT))
    [] t = ROTATE_EVENT -> RotateRead(b)
    [] t = INTVAR_EVENT -> IntvarRead(b, GetEventTypeHeaderLength(tbl, INTVAR_EVENT))
    [] t = RAND_EVENT -> RandRead(b)
    [] t = USER_VAR_EVENT -> UserVarRead(b)
    [] t = XID_EVENT -> XidRead(b, GetEventTypeHeaderLength(tbl, XID_EVENT))
    [] t = BEGIN_LOAD_QUERY_EVENT -> BeginLoadQueryRead(b)
    [] t = EXECUTE_LOAD_QUERY_EVENT -> ExecuteLoadQueryRead(b)
    [] t = TABLE_MAP_EVENT ->
         TableMapRead(b, GetEventTypeHeaderLength(tbl, TABLE_MAP_EVENT))
    [] t = INCIDENT_EVENT -> IncidentRead(b)
    [] t = ROWS_QUERY_EVENT -> RowsQueryRead(b)
    [] t \in RowsTypes -> RowsRead(t, tbl, b)
    [] t \in UnitTypes -> << [unit |-> t] >>
    [] t \in OpaqueTypes -> <<b>>

(* EventData::write for the variant read_data built.                      *)
WriteData(t, e) ==
  CASE t = QUERY_EVENT -> QueryWrite(e)
    [] t = ROTATE_EVENT -> RotateWrite(e)
    [] t = INTVAR_EVENT -> IntvarWrite(e)
    [] t = RAND_EVENT -> RandWrite(e)
    [] t = USER_VAR_EVENT -> UserVarWrite(e)
    [] t = XID_EVENT -> XidWrite(e)
    [] t = BEGIN_LOAD_QUERY_EVENT -> BeginLoadQueryWrite(e)
    [] t = EXECUTE_LOAD_QUERY_EVENT -> ExecuteLoadQueryWrite(e)
    [] t = TABLE_MAP_EVENT -> Limited(TableMapWrite(e), TableMapLen(e))
    [] t = INCIDENT_EVENT -> IncidentWrite(e)
    [] t = ROWS_QUERY_EVENT -> RowsQueryWrite(e)
    [] t \in RowsTypes -> RowsWrite(e)
    [] t \in UnitTypes -> << << >> >>
    [] t \in OpaqueTypes -> <<e>>

(* BinlogStruct::len of the payload structs (the opaque and unit variants *)
(* of EventData have none).                                                *)
StructTypes ==
  {QUERY_EVENT, ROTATE_EVENT, INTVAR_EVENT, RAND_EVENT, USER_VAR_EVENT, XID_EVENT,
   BEGIN_LOAD_QUERY_EVENT, EXECUTE_LOAD_QUERY_EVENT, TABLE_MAP_EVENT, INCIDENT_EVENT,
   ROWS_QUERY_EVENT} \cup RowsTypes

StructLen(t, e) ==
  CASE t = QUERY_EVENT -> QueryLen(e)
    [] t = ROTATE_EVENT -> RotateLen(e)
    [] t = INTVAR_EVENT -> 9
    [] t = RAND_EVENT -> RandLen(e)
    [] t = USER_VAR_EVENT -> UserVarLen(e)
    [] t = XID_EVENT -> 8
    [] t = BEGIN_LOAD_QUERY_EVENT -> BeginLoadQueryLen(e)
    [] t = EXECUTE_LOAD_QUERY_EVENT -> ExecuteLoadQueryLen(e)
    [] t = TABLE_MAP_EVENT -> TableMapLen(e)
    [] t = INCIDENT_EVENT -> IncidentLen(e)
    [] t = ROWS_QUERY_EVENT -> RowsQueryLen(e)
    [] t \in RowsTypes -> RowsLen(e)

Init ==
  /\ \E in \in Inputs : /\ etype = in.etype /\ table = in.table
                        /\ body = in.body /\ whole = in.whole
  /\ ev = << >>
  /\ written = << >>
  /\ status = "init"

\* Mutant: a read error taken for a payload.
ReadIgnoringError ==
  /\ status = "init"
  /\ etype \in EventTypeTryFrom
  /\ ev' = ReadData(etype, table, body)
  /\ status' = "read"
  /\ UNCHANGED <<etype, table, body, whole, written>>

Read ==
  /\ status = "init"
  /\ etype \in EventTypeTryFrom
  /\ ev' = ReadData(etype, table, body)
  /\ status' = IF ev' = << >> THEN "failed" ELSE "read"
  /\ UNCHANGED <<etype, table, body, whole, written>>

\* read_data's early return: the type byte converts to no EventType.
ReadUnknownType ==
  /\ status = "init"
  /\ etype \notin EventTypeTryFrom
  /\ status' = "none"
  /\ UNCHANGED <<etype, table, body, whole, ev, written>>

Write ==
  /\ status = "read"
  /\ written' = WriteData(etype, ev[1])
  /\ status' = "written"
  /\ UNCHANGED <<etype, table, body, whole, ev>>

Next == Read \/ ReadUnknownType \/ Write

Spec == Init /\ [][Next]_vars

-----------------------------------------------------------------------------
TypeOK ==
  /\ status \in {"init", "read", "failed", "none", "written"}
  /\ Len(ev) <= 1 /\ (status \in {"read", "written"} <=> Len(ev) = 1)
  /\ Len(written) <= 1 /\ \A w \in Range(written) : w \in Seq(Byte)

(***************************************************************************)
(* Spec 8.1 and 4.8: a body a server wrote for the event is read without   *)
(* error, and a payload that was read (Event::read_data) is written back   *)
(* (EventData::write) without error as the body it was read from.  The one *)
(* documented exception is a USER_VAR body whose flags byte the server     *)
(* left out: it comes back with a flags byte of 0.  Of a body cut short,   *)
(* what is read is written back as it was, except that the informational  *)
(* length byte of a ROWS_QUERY body is rewritten from the query's length. *)
(***************************************************************************)
RoundTripBytes(t, b, isWhole) ==
  CASE t = USER_VAR_EVENT -> {b, b \o <<0>>}
    [] t = ROWS_QUERY_EVENT /\ ~isWhole /\ b # << >> ->
         {<<Min({Len(b) - 1, 255})>> \o Tail(b)}
    [] OTHER -> {b}

ByteRoundTrip ==
  /\ whole => status # "failed"
  /\ status = "written" => \E w \in RoundTripBytes(etype, body, whole) : written = <<w>>

(* BinlogStruct::len is "the serialized length of this struct in bytes": *)
(* every payload struct written back is exactly as long as its len()      *)
(* says (a caller sizes event_size with it); for TABLE_MAP, whose len()   *)
(* counts (n + 8) / 7 bitmap bytes, spec.md 9 accepts an upper bound.     *)
LenMatchesWrite ==
  (status = "written" /\ etype \in StructTypes /\ written # << >>)
    => IF etype = TABLE_MAP_EVENT THEN Len(written[1]) <= StructLen(etype, ev[1])
       ELSE Len(written[1]) = StructLen(etype, ev[1])

(***************************************************************************)
(* Spec 6: read_data decodes "into a tagged union covering all known event *)
(* types".  It gives Ok(None) only for a type byte that is no variant of   *)
(* EventType; every variant has an arm in read_data, so the conversion     *)
(* (EventType::try_from) must reach each of them.                          *)
(***************************************************************************)
DecodesDeclaredTypes ==
  status = "none" => etype \notin EventTypeVariants

(* The BinlogStruct contract of spec 4.8 and 8.1 and the dispatch of spec  *)
(* 6 as one statement.                                                     *)
CodecContract == ByteRoundTrip /\ LenMatchesWrite /\ DecodesDeclaredTypes
=============================================================================
