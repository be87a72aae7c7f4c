---------------------------- MODULE BinlogRequest ----------------------------
(***************************************************************************)
(* BinlogRequest of src/packets/binlog_request.rs: the builder a replica   *)
(* fills with new and the with_* calls, and as_cmd, which turns it into a  *)
(* COM_BINLOG_DUMP_GTID command when use_gtid is set and into a            *)
(* COM_BINLOG_DUMP command otherwise.                                      *)
(*                                                                         *)
(* Each with_* call takes the builder by value and returns it changed; the *)
(* command as_cmd returns borrows the builder, so it is dropped before the *)
(* next with_* call (cmd is emptied).  The ghost variable `asked` records  *)
(* the argument of the latest call for every field, as the caller sees it; *)
(* the properties compare the command with it.                             *)
(*                                                                         *)
(* TLC integers are 32-bit: the u64 position is a pair [hi, lo] of u32     *)
(* words, pos = hi * 2^32 + lo.                                            *)
(***************************************************************************)
EXTENDS Naturals, Sequences, Bitwise

CONSTANTS
  ServerIds,   \* u32 server ids
  Positions,   \* u64 positions as [hi, lo]
  FlagValues,  \* BinlogDumpFlags bits
  Filenames,   \* binlog file names
  SidLists,    \* sequences of SID blocks
  Hostnames,   \* reported host names
  Ports        \* reported ports

VARIABLES
  req,     \* the builder's fields
  cmd,     \* << >>, or <<the command as_cmd returned>>
  asked    \* the latest argument of every builder call (ghost)

vars == <<req, cmd, asked>>

\* BinlogDumpFlags::BINLOG_DUMP_NON_BLOCK (crate::packets).
BINLOG_DUMP_NON_BLOCK == 1

\* BinlogRequest::new(server_id): pos 4, everything else empty or zero.
NewRequest(sid) ==
  [server_id |-> sid, use_gtid |-> FALSE, flags |-> 0, filename |-> "",
   pos |-> [hi |-> 0, lo |-> 4], sids |-> << >>, hostname |-> "", port |-> 0]

(***************************************************************************)
(* as_cmd: the GTID command takes server_id, the whole u64 position, all   *)
(* the flags, the file name and the SID blocks; the legacy command takes   *)
(* server_id, pos as u32 (the low word), the file name and flags &         *)
(* BINLOG_DUMP_NON_BLOCK.                                                  *)
(***************************************************************************)
\* Mutant: the position passed on without the u32 cast.
AsCmdOfNoTruncation(r) ==
  IF r.use_gtid
  THEN [kind |-> "COM_BINLOG_DUMP_GTID", server_id |-> r.server_id,
        pos |-> r.pos, flags |-> r.flags, filename |-> r.filename, sids |-> r.sids]
  ELSE [kind |-> "COM_BINLOG_DUMP", server_id |-> r.server_id,
        pos |-> r.pos, flags |-> r.flags & BINLOG_DUMP_NON_BLOCK,
        filename |-> r.filename, sids |-> << >>]

AsCmdOf(r) ==
  IF r.use_gtid
  THEN [kind |-> "COM_BINLOG_DUMP_GTID", server_id |-> r.server_id,
        pos |-> r.pos, flags |-> r.flags, filename |-> r.filename, sids |-> r.sids]
  ELSE [kind |-> "COM_BINLOG_DUMP", server_id |-> r.server_id,
        pos |-> [hi |-> 0, lo |-> r.pos.lo], flags |-> r.flags & BINLOG_DUMP_NON_BLOCK,
        filename |-> r.filename, sids |-> << >>]

(***************************************************************************)
(* What the caller is promised, from the doc comments of the fields and    *)
(* getters: the defaults (pos 4, use_gtid false, no flags, empty file name *)
(* and host name, port 0, no SIDs), and for the command: the GTID command  *)
(* carries every field it has; without use_gtid the position "will be      *)
(* truncated to u32", "all flags except BINLOG_DUMP_NON_BLOCK will be      *)
(* truncated" and the SIDs are ignored.                                    *)
(***************************************************************************)
Defaults(sid) ==
  [server_id |-> sid, use_gtid |-> FALSE, flags |-> 0, filename |-> "",
   pos |-> [hi |-> 0, lo |-> 4], sids |-> << >>, hostname |-> "", port |-> 0]

PromisedCmd(a) ==
  [kind |-> IF a.use_gtid THEN "COM_BINLOG_DUMP_GTID" ELSE "COM_BINLOG_DUMP",
   server_id |-> a.server_id, filename |-> a.filename,
   pos |-> IF a.use_gtid THEN a.pos ELSE [hi |-> 0, lo |-> a.pos.lo],
   flags |-> IF a.use_gtid THEN a.flags ELSE a.flags & BINLOG_DUMP_NON_BLOCK,
   sids |-> IF a.use_gtid THEN a.sids ELSE << >>]

-----------------------------------------------------------------------------
Init ==
  \E sid \in ServerIds :
    /\ req = NewRequest(sid)
    /\ cmd = << >>
    /\ asked = Defaults(sid)

\* A fresh builder replaces the old one.
New ==
  \E sid \in ServerIds :
    /\ req' = NewRequest(sid)
    /\ cmd' = << >>
    /\ asked' = Defaults(sid)

\* with_server_id, with_use_gtid, with_flags, with_filename, with_pos,
\* with_sids, with_hostname, with_port: each sets its one field.
Set(field, v) ==
  /\ req' = [req EXCEPT ![field] = v]
  /\ cmd' = << >>
  /\ asked' = [asked EXCEPT ![field] = v]

WithServerId == \E v \in ServerIds : Set("server_id", v)
\* Mutant: with_use_gtid(false) truncating the flags in the builder.
WithUseGtidMaskingFlags ==
  \E v \in BOOLEAN :
    /\ req' = [req EXCEPT !.use_gtid = v,
                          !.flags = IF v THEN @ ELSE @ & BINLOG_DUMP_NON_BLOCK]
    /\ cmd' = << >>
    /\ asked' = [asked EXCEPT !.use_gtid = v]

WithUseGtid  == \E v \in BOOLEAN : Set("use_gtid", v)
WithFlags    == \E v \in FlagValues : Set("flags", v)
WithFilename == \E v \in Filenames : Set("filename", v)
WithPos      == \E v \in Positions : Set("pos", v)
WithSids     == \E v \in SidLists : Set("sids", v)
WithHostname == \E v \in Hostnames : Set("hostname", v)
WithPort     == \E v \in Ports : Set("port", v)

AsCmd ==
  /\ cmd' = <<AsCmdOf(req)>>
  /\ UNCHANGED <<req, asked>>

Next ==
  \/ New
  \/ WithServerId \/ WithUseGtid \/ WithFlags \/ WithFilename
  \/ WithPos \/ WithSids \/ WithHostname \/ WithPort
  \/ AsCmd

Spec == Init /\ [][Next]_vars

-----------------------------------------------------------------------------
TypeOK ==
  /\ req.server_id \in ServerIds /\ req.use_gtid \in BOOLEAN
  /\ req.flags \in FlagValues \cup {0} /\ req.pos \in Positions \cup {[hi |-> 0, lo |-> 4]}
  /\ Len(cmd) <= 1
  /\ \A c \in {cmd[i] : i \in DOMAIN cmd} :
       /\ c.kind \in {"COM_BINLOG_DUMP", "COM_BINLOG_DUMP_GTID"}
       /\ c.kind = "COM_BINLOG_DUMP" => c.pos.hi = 0

(***************************************************************************)
(* After any sequence of new, with_* and as_cmd calls in any order, the    *)
(* command as_cmd returned is the one the doc comments promise for the     *)
(* latest argument of every call: a call of one field never clobbers       *)
(* another, and the u32 truncation of the position (binlog_request.rs:193) *)
(* and the masking of the flags happen in as_cmd, for COM_BINLOG_DUMP only.*)
(***************************************************************************)
CmdFollowsCalls ==
  cmd # << >> => cmd[1] = PromisedCmd(asked)

=============================================================================
