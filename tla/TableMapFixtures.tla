-------------------------- MODULE TableMapFixtures --------------------------
(***************************************************************************)
(* Table map event bodies as a server writes them (spec.md sections 3 and  *)
(* 4.8), for a few tables, shared by the models of TableMapEvent and of    *)
(* the payload dispatch.                                                   *)
(***************************************************************************)
EXTENDS TableMapCodec

(* The server's layout, written from the spec: table_id (4 bytes under a  *)
(* 6-byte post-header, else 6), flags, the two names with a length byte   *)
(* and a NUL, the column count, the types, the metadata with its length,  *)
(* the null bitmap and the optional metadata.  Counts stay below 251.     *)
ServerTableMap(t, p) ==
  LE(t.id, IF p = 6 THEN 4 ELSE 6) \o LE(t.flags, 2)
    \o <<Len(t.db)>> \o t.db \o <<0>> \o <<Len(t.tbl)>> \o t.tbl \o <<0>>
    \o <<Len(t.types)>> \o t.types \o <<Len(t.meta)>> \o t.meta
    \o t.nulls \o t.opt

\* Scenario E: [VARCHAR, BLOB, VARCHAR] with metadata [a, b, c, d, e].
ScenarioE ==
  [id |-> 258, flags |-> 1, db |-> <<100>>, tbl |-> <<116>>,
   types |-> <<MYSQL_TYPE_VARCHAR, MYSQL_TYPE_BLOB, MYSQL_TYPE_VARCHAR>>,
   meta |-> <<11, 12, 13, 14, 15>>, nulls |-> <<5>>, opt |-> << >>]

\* A LONG column with no metadata before a BLOB, and optional metadata.
LongBlob ==
  [id |-> 7, flags |-> 0, db |-> << >>, tbl |-> <<116, 50>>,
   types |-> <<MYSQL_TYPE_LONG, MYSQL_TYPE_BLOB>>,
   meta |-> <<21>>, nulls |-> <<2>>, opt |-> <<1, 9>>]

\* A column of a type ColumnType does not know (100) before a VARCHAR.
UnknownFirst ==
  [id |-> 9, flags |-> 0, db |-> <<100>>, tbl |-> <<117>>,
   types |-> <<100, MYSQL_TYPE_VARCHAR>>,
   meta |-> <<31, 32>>, nulls |-> <<0>>, opt |-> << >>]

\* Nine columns: the null bitmap takes two bytes.
NineLongs ==
  [id |-> 3, flags |-> 0, db |-> << >>, tbl |-> <<118>>,
   types |-> [i \in 1 .. 9 |-> MYSQL_TYPE_LONG],
   meta |-> << >>, nulls |-> <<255, 1>>, opt |-> << >>]

Tables == {ScenarioE, LongBlob, UnknownFirst, NineLongs}

\* Six LONG columns: one bitmap byte, where TableMapEvent::len counts
\* (6 + 8) / 7 = 2.
SixLongs ==
  [id |-> 4, flags |-> 0, db |-> << >>, tbl |-> <<119>>,
   types |-> [i \in 1 .. 6 |-> MYSQL_TYPE_LONG],
   meta |-> << >>, nulls |-> <<0>>, opt |-> << >>]
=============================================================================
