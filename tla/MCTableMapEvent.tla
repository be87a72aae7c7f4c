--------------------------- MODULE MCTableMapEvent ---------------------------
(***************************************************************************)
(* Table map event bodies as a server writes them (spec.md sections 3 and  *)
(* 4.8), for a few tables, under the usual 8-byte TABLE_MAP post-header,   *)
(* whole or cut at any byte.                                               *)
(***************************************************************************)
EXTENDS TableMapEvent, TableMapFixtures

MCInputs ==
  UNION { {[phl |-> 8, body |-> SubSeq(ServerTableMap(t, 8), 1, k)] :
             k \in 0 .. Len(ServerTableMap(t, 8))} : t \in Tables }
MCMaxCol == 3
=============================================================================
