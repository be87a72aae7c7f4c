--------------------------- MODULE TableMapCodec ---------------------------
(***************************************************************************)
(* The body codec of TableMapEvent in src/binlog.rs (BinlogStruct::read,   *)
(* ::write, ::len) with ColumnType::get_metadata_len, as operators shared  *)
(* by TableMapEvent (the event and its metadata look-up) and               *)
(* PostHeaderCodecs (the dispatch of every payload codec).                 *)
(*                                                                         *)
(* The event is a record; null_bitmask holds the raw bytes of the BitVec   *)
(* (read truncates the BitVec to num_columns bits, which changes its view  *)
(* but not the storage that as_raw_slice gives back to write).             *)
(***************************************************************************)
EXTENDS BinlogIo

(***************************************************************************)
(* ColumnType (crate::constants, outside this repository): the raw codes   *)
(* that parse, and the codes the look-up distinguishes.                    *)
(***************************************************************************)
MYSQL_TYPE_DECIMAL == 0
MYSQL_TYPE_LONG == 3
MYSQL_TYPE_FLOAT == 4
MYSQL_TYPE_DOUBLE == 5
MYSQL_TYPE_VARCHAR == 15
MYSQL_TYPE_NEWDECIMAL == 246
MYSQL_TYPE_ENUM == 247
MYSQL_TYPE_SET == 248
MYSQL_TYPE_BLOB == 252
MYSQL_TYPE_VAR_STRING == 253
MYSQL_TYPE_STRING == 254

KnownColumnType == (0 .. 20) \cup (243 .. 255)

\* ColumnType::get_metadata_len
GetMetadataLen(t) ==
  CASE t \in {MYSQL_TYPE_STRING, MYSQL_TYPE_VAR_STRING, MYSQL_TYPE_VARCHAR,
              MYSQL_TYPE_DECIMAL, MYSQL_TYPE_NEWDECIMAL,
              MYSQL_TYPE_SET, MYSQL_TYPE_ENUM}                       -> 2
    [] t \in {MYSQL_TYPE_BLOB, MYSQL_TYPE_DOUBLE, MYSQL_TYPE_FLOAT} -> 1
    [] OTHER                                                           -> 0

\* Null bitmap byte length on read: (columns_count + 7) / 8.
BitmaskLen(n) == (n + 7) \div 8

(***************************************************************************)
(* TableMapEvent::read.  Fields are read one after the other from a        *)
(* reader limited to the body; a read past its end is UnexpectedEof.       *)
(* Offsets only grow and every read ends at or before the next offset, so  *)
(* the body is long enough exactly when the offset reached before the      *)
(* optional metadata (the remainder) is within it.  Returns << >> on       *)
(* error, <<event>> on success.                                            *)
(***************************************************************************)
(* A 6-byte TABLE_MAP post-header means a 4-byte table_id, else 6 bytes. *)
TableIdLen(postHeaderLen) == IF postHeaderLen = 6 THEN 4 ELSE 6

TableMapRead(b, postHeaderLen) ==
  LET idLen   == TableIdLen(postHeaderLen)
      pDb     == idLen + 2                        \* after table_id, flags
      dbLen   == At(b, pDb + 1)
      pTbl    == pDb + 1 + dbLen + 1              \* length, name, NUL
      tblLen  == At(b, pTbl + 1)
      pCnt    == pTbl + 1 + tblLen + 1
      cnt     == IF pCnt + 1 <= Len(b) THEN LenencIntAt(b, pCnt + 1)
                 ELSE [val |-> 0, size |-> 1]
      n       == cnt.val
      pTypes  == pCnt + cnt.size
      pMeta   == pTypes + n
      mlen    == IF pMeta + 1 <= Len(b) THEN LenencIntAt(b, pMeta + 1)
                 ELSE [val |-> 0, size |-> 1]
      pMask   == pMeta + mlen.size + mlen.val
      pOpt    == pMask + BitmaskLen(n)
  IN IF pOpt > Len(b) THEN << >>
     ELSE << [table_id          |-> FromLE(SubSeq(b, 1, idLen)),
              flags             |-> FromLE(SubSeq(b, idLen + 1, idLen + 2)),
              database_name     |-> SubSeq(b, pDb + 2, pDb + 1 + dbLen),
              table_name        |-> SubSeq(b, pTbl + 2, pTbl + 1 + tblLen),
              columns_type      |-> SubSeq(b, pTypes + 1, pTypes + n),
              columns_metadata  |-> SubSeq(b, pMeta + mlen.size + 1, pMask),
              null_bitmask      |-> SubSeq(b, pMask + 1, pOpt),
              optional_metadata |-> SubSeq(b, pOpt + 1, Len(b))] >>

(***************************************************************************)
(* TableMapEvent::write: table_id always as u48, the names with a u8       *)
(* length (clamped at 255) and a NUL, lenenc column count, the types, the  *)
(* metadata as a lenenc string, the raw null bitmap, the optional rest.    *)
(***************************************************************************)
\* Mutant: table_id written as a u32.
TableMapWriteU32(e) ==
  LE(e.table_id, 4) \o LE(e.flags, 2)
    \o <<Len(e.database_name)>> \o e.database_name \o <<0>>
    \o <<Len(e.table_name)>> \o e.table_name \o <<0>>
    \o LenencIntBytes(Len(e.columns_type)) \o e.columns_type
    \o LenencStrBytes(e.columns_metadata) \o e.null_bitmask \o e.optional_metadata

TableMapWrite(e) ==
  LE(e.table_id, 6) \o LE(e.flags, 2)
    \o <<Len(e.database_name)>> \o e.database_name \o <<0>>
    \o <<Len(e.table_name)>> \o e.table_name \o <<0>>
    \o LenencIntBytes(Len(e.columns_type)) \o e.columns_type
    \o LenencStrBytes(e.columns_metadata) \o e.null_bitmask \o e.optional_metadata

(***************************************************************************)
(* TableMapEvent::len: the fields as write puts them, except that the null *)
(* bitmap is counted as (columns_count + 8) / 7 bytes.                     *)
(***************************************************************************)
TableMapLen(e) ==
  6 + 2 + 1 + Min({Len(e.database_name), 255}) + 1
    + 1 + Min({Len(e.table_name), 255}) + 1
    + Len(LenencIntBytes(Len(e.columns_type))) + Len(e.columns_type)
    + Len(LenencStrBytes(e.columns_metadata))
    + (Len(e.columns_type) + 8) \div 7 + Len(e.optional_metadata)
=============================================================================
