--------------------------- MODULE MCBinlogRequest ---------------------------
(***************************************************************************)
(* Two server ids and file names, positions below and at or above 2^32,    *)
(* the flags NON_BLOCK, THROUGH_POSITION and both, one SID block.          *)
(***************************************************************************)
EXTENDS BinlogRequest

CONSTANTS s1, f1, h1

MCServerIds == {1, 2}
\* 120, and 2^32 + 120 (which a u32 truncation turns into 120).
MCPositions == {[hi |-> 0, lo |-> 120], [hi |-> 1, lo |-> 120]}
\* BINLOG_DUMP_NON_BLOCK = 1, BINLOG_THROUGH_POSITION = 2.
MCFlagValues == {1, 2, 3}
MCFilenames == {"", f1}
MCSidLists == {<< >>, <<s1>>}
MCHostnames == {"", h1}
MCPorts == {0, 3306}
=============================================================================
