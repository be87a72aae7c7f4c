-------------------------- MODULE MCBinlogConsumer --------------------------
(***************************************************************************)
(* The files of MCBinlogReader, and files whose QUERY events carry bodies  *)
(* a server encoded, read by BinlogFile and decoded with read_data.        *)
(***************************************************************************)
EXTENDS MCBinlogReader, BinlogConsumer

(* Files whose QUERY events carry real bodies (spec.md 8.4): under an FDE  *)
(* declaring the usual 13-byte QUERY post-header or a 15-byte one, and a   *)
(* relay log whose second FDE changes the length back to 13.              *)
QueryFields(sc, q) ==
  [thread_id |-> 7, execution_time |-> 1, error_code |-> 0, status_vars |-> << >>,
   schema |-> sc, query |-> q]

QueryFile(s, a, qphl) ==
  << MCFde(s, a, <<56, qphl>>), WireQuery(QueryFields(<<100>>, <<113>>), qphl) >>
QueryRelayLog(s, a, s2, a2) ==
  << MCFde(s, a, <<56, 15>>), WireQuery(QueryFields(<<100>>, <<113>>), 15),
     MCFde(s2, a2, <<56, 13>>), WireQuery(QueryFields(<< >>, <<114, 115>>), 13) >>

MCQueryStreams ==
  LET algs == {BINLOG_CHECKSUM_ALG_OFF, BINLOG_CHECKSUM_ALG_CRC32}
  IN {QueryFile(s, a, qphl) : s \in Servers, a \in algs, qphl \in {13, 15}}
       \cup {QueryRelayLog(s, a, s2, a2) : s \in Servers, a \in algs, s2 \in Servers, a2 \in algs}

MCConsumerStreams == MCStreams \cup MCQueryStreams
=============================================================================
