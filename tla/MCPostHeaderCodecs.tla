------------------------- MODULE MCPostHeaderCodecs -------------------------
(***************************************************************************)
(* Event bodies as a MySQL server writes them (spec.md 4.6, 5), under the  *)
(* post-header length table of the FDE in force, whole and cut at every    *)
(* byte.                                                                   *)
(***************************************************************************)
EXTENDS PostHeaderCodecs, TableMapFixtures, ServerEvents

(* Post-header length tables, indexed by event type - 1.                  *)
\* MySQL 5.7: event types 1 .. 38.
Server57Table ==
  << 56, 13, 0, 8, 0, 18, 0, 4, 4, 4, 4, 18, 0, 0, 95, 0, 4, 26, 8, 0,
     0, 0, 8, 8, 8, 2, 0, 0, 0, 10, 10, 10, 42, 42, 0, 18, 52, 0 >>
\* MySQL 5.1: event types 1 .. 27 (no V2 rows events yet).
Server51Table == SubSeq(Server57Table, 1, 27)
\* The default FDE before any FDE was read: no table, the built-in defaults.
NoFdeTable == << >>
\* An FDE declaring post-headers longer than the defaults (spec.md 8.4) for
\* QUERY, RAND and XID, and the old 6-byte TABLE_MAP post-header.
OddTable ==
  [Server57Table EXCEPT ![QUERY_EVENT] = 15, ![RAND_EVENT] = 8, ![XID_EVENT] = 4,
                        ![TABLE_MAP_EVENT] = 6]

(* The server's encoders.                                                 *)
ServerRows(t, f) ==
  LE(f.table_id, 6) \o LE(f.flags, 2) \o LE(2 + Len(f.extra), 2) \o f.extra
    \o <<f.num_columns>> \o f.images \o f.rows

QueryBodies(tbl) ==
  { ServerQuery([thread_id |-> 7, execution_time |-> 1, error_code |-> 0,
                 status_vars |-> sv, schema |-> sc, query |-> q], tbl[QUERY_EVENT]) :
      sv \in {<< >>, <<0, 5, 0, 0, 0>>}, sc \in {<< >>, <<100>>}, q \in {<< >>, <<113>>} }

ServerExecuteLoadQuery(f) ==
  LE(f.thread_id, 4) \o LE(f.execution_time, 4) \o <<Len(f.schema)>>
    \o LE(f.error_code, 2) \o LE(Len(f.status_vars), 2)
    \o LE(f.file_id, 4) \o LE(f.start_pos, 4) \o LE(f.end_pos, 4) \o <<f.dup>>
    \o f.status_vars \o f.schema \o <<0>> \o f.query

\* USER_VAR as Log_event writes it: a NULL variable, and an INT variable
\* with its flags byte (5.1 and later) or without it (older servers).
UserVarBodies ==
  LET name == LE(1, 4) \o <<120>>
      val  == <<0>> \o <<2>> \o LE(63, 4) \o LE(8, 4) \o LE(5, 8)
  IN {name \o <<1>>, name \o val, name \o val \o <<1>>}

OtherBodies(tbl) ==
  [t \in {ROTATE_EVENT, INTVAR_EVENT, RAND_EVENT, USER_VAR_EVENT, XID_EVENT,
          BEGIN_LOAD_QUERY_EVENT, EXECUTE_LOAD_QUERY_EVENT, TABLE_MAP_EVENT,
          INCIDENT_EVENT, ROWS_QUERY_EVENT, STOP_EVENT} |->
     CASE t = ROTATE_EVENT -> {LE(4, 8) \o n : n \in {<< >>, <<98, 49>>}}
       [] t = INTVAR_EVENT -> {Zeros(tbl[INTVAR_EVENT]) \o <<s>> \o LE(3, 8) : s \in {1, 2}}
       [] t = RAND_EVENT -> {Zeros(tbl[RAND_EVENT]) \o LE(11, 8) \o LE(12, 8)}
       [] t = USER_VAR_EVENT -> UserVarBodies
       [] t = XID_EVENT -> {Zeros(tbl[XID_EVENT]) \o LE(9, 8)}
       [] t = BEGIN_LOAD_QUERY_EVENT -> {LE(5, 4) \o d : d \in {<< >>, <<1, 2>>}}
       [] t = EXECUTE_LOAD_QUERY_EVENT ->
            { ServerExecuteLoadQuery([thread_id |-> 7, execution_time |-> 1,
                error_code |-> 0, file_id |-> 5, start_pos |-> 1, end_pos |-> 3,
                dup |-> 1, status_vars |-> sv, schema |-> <<100>>, query |-> <<113>>]) :
                  sv \in {<< >>, <<0, 5, 0, 0, 0>>} }
       [] t = TABLE_MAP_EVENT ->
            {ServerTableMap(m, tbl[TABLE_MAP_EVENT]) : m \in {ScenarioE, SixLongs, NineLongs}}
       [] t = INCIDENT_EVENT -> {LE(1, 2) \o <<Len(m)>> \o m : m \in {<< >>, <<108>>}}
       [] t = ROWS_QUERY_EVENT -> {<<Len(q)>> \o q : q \in {<< >>, <<113, 114>>}}
       [] t = STOP_EVENT -> {<< >>}]

\* Bodies the crate keeps as bytes: every opaque type, a HEARTBEAT_EVENT
\* (its body is the binlog file name the server is sending) and a type
\* byte past the enum (0x29, HEARTBEAT_LOG_EVENT_V2 of MySQL 8.0.26).
HEARTBEAT_LOG_EVENT_V2 == 41

Raw(t, b) == [etype |-> t, table |-> Server57Table, body |-> b, whole |-> TRUE]

OpaqueInputs(types) == {Raw(t, <<1, 2, 3>>) : t \in types}

\* Column counts 1 and 9 (one and two bitmap bytes).
RowsBodies(t) ==
  { ServerRows(t, [table_id |-> 258, flags |-> 1, extra |-> x, num_columns |-> n,
                   images |-> IF t = UPDATE_ROWS_EVENT THEN img \o img ELSE img,
                   rows |-> r]) :
      x \in {<< >>, <<7>>}, r \in {<< >>, <<0, 4>>},
      <<n, img>> \in {<<1, <<1>> >>, <<9, <<255, 1>> >>} }

Whole(tbl) ==
  {[etype |-> QUERY_EVENT, table |-> tbl, body |-> b, whole |-> TRUE] : b \in QueryBodies(tbl)}
  \cup UNION {{[etype |-> t, table |-> tbl, body |-> b, whole |-> TRUE] : b \in OtherBodies(tbl)[t]}
              : t \in DOMAIN OtherBodies(tbl)}

WholeRows(tbl) ==
  UNION {{[etype |-> t, table |-> tbl, body |-> b, whole |-> TRUE] : b \in RowsBodies(t)}
         : t \in RowsTypes}

\* Every prefix of every body; only the full one is whole.
BodyPrefixes(S) ==
  UNION {{[in EXCEPT !.body = SubSeq(in.body, 1, n), !.whole = (n = Len(in.body))]
            : n \in 0 .. Len(in.body)} : in \in S}

\* Before any FDE the server-side table is the 5.7 one (defaults agree).
\* A whole RAND body is left to MCContractInputs: its len() is wrong.
MCInputs ==
  LET all == BodyPrefixes(Whole(Server57Table) \cup WholeRows(Server57Table)
                          \cup Whole(Server51Table))
             \cup {[in EXCEPT !.table = NoFdeTable]
                   : in \in Whole(Server57Table) \cup WholeRows(Server57Table)}
  IN {in \in all : ~(in.etype = RAND_EVENT /\ in.whole)}
     \cup OpaqueInputs({t \in OpaqueTypes : t <= PREVIOUS_GTIDS_EVENT})
     \cup {Raw(HEARTBEAT_LOG_EVENT_V2, <<98, 49>>)}

\* Server bodies the codecs are not expected to give back: events under
\* OddTable's post-headers, the RAND event (whose len() is 8), the opaque
\* types try_from does not convert, and a HEARTBEAT_EVENT with its name.
MCContractInputs ==
  {in \in Whole(OddTable) : in.etype \in {QUERY_EVENT, RAND_EVENT, XID_EVENT, TABLE_MAP_EVENT}}
  \cup {in \in Whole(Server57Table) : in.etype = RAND_EVENT}
  \cup OpaqueInputs({t \in OpaqueTypes : t > PREVIOUS_GTIDS_EVENT})
  \cup {Raw(HEARTBEAT_EVENT, <<98, 49>>)}
=============================================================================
