---------------------------- MODULE ServerEvents ----------------------------
(***************************************************************************)
(* Event bodies as a MySQL server encodes them (spec.md sections 3, 4.8).  *)
(* This is the environment of the codecs, not code of this repository: it  *)
(* is written from the wire layout, apart from the crate's decoders, so    *)
(* a decoder bug does not also change its input.                          *)
(***************************************************************************)
EXTENDS BinlogIo

Zeros(n) == [i \in 1 .. n |-> 0]

(* A QUERY_EVENT body for the fields f under a QUERY post-header length  *)
(* phl: the 13 fixed bytes, padding up to phl, the status variables, the  *)
(* schema and its NUL, the query.                                         *)
ServerQuery(f, phl) ==
  LE(f.thread_id, 4) \o LE(f.execution_time, 4) \o <<Len(f.schema)>>
    \o LE(f.error_code, 2) \o LE(Len(f.status_vars), 2) \o Zeros(SatSub(phl, 13))
    \o f.status_vars \o f.schema \o <<0>> \o f.query
=============================================================================
