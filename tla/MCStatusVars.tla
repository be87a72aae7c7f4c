---------------------------- MODULE MCStatusVars ----------------------------
(***************************************************************************)
(* Status-variable blocks as a MySQL server writes them (spec.md 4.9; the  *)
(* server's Query_log_event::write): each variable is its key code and its *)
(* value, numbers little-endian.  A variable is [key, val] with val the    *)
(* fields get_value should give back.  Blocks hold one or two variables,   *)
(* optionally followed by a byte that is no key, and are cut at any byte.  *)
(***************************************************************************)
EXTENDS StatusVars

\* Field widths of the variables whose fields are numbers.
NumWidths ==
  [k \in {Flags2, SqlMode, AutoIncrement, Charset, LcTimeNames, CharsetDatabase,
          TableMapForUpdate, DdlLoggedWithXid, DefaultCollationForUtf8mb4,
          SqlRequirePrimaryKey, DefaultTableEncryption, Microseconds} |->
     CASE k = Flags2 -> <<4>>
       [] k \in {SqlMode, TableMapForUpdate, DdlLoggedWithXid} -> <<8>>
       [] k = AutoIncrement -> <<2, 2>>
       [] k = Charset -> <<2, 2, 2>>
       [] k = Microseconds -> <<3>>
       [] k \in {LcTimeNames, CharsetDatabase, DefaultCollationForUtf8mb4} -> <<2>>
       [] OTHER -> <<1>>]

LenPrefixed(s) == <<Len(s)>> \o s

ServerValue(var) ==
  LET k == var.key
      f == var.val
  IN CASE k \in DOMAIN NumWidths ->
            FoldLeft(LAMBDA acc, i : acc \o LE(f[i], NumWidths[k][i]), << >>,
                     [i \in 1 .. Len(f) |-> i])
       [] k \in {Catalog, MasterDataWritten, CommitTs, CommitTs2} -> f[1]
       [] k \in {TimeZone, CatalogNz} -> LenPrefixed(f[1])
       [] k = Invoker -> LenPrefixed(f[1]) \o LenPrefixed(f[2])
       [] k = UpdatedDbNames ->
            <<Len(f)>> \o FoldLeft(LAMBDA acc, n : acc \o n \o <<0>>, << >>, f)
       [] k = ExplicitDefaultsForTimestamp -> <<IF f[1] THEN 1 ELSE 0>>

ServerBlock(vs) == FoldLeft(LAMBDA acc, v : acc \o <<v.key>> \o ServerValue(v), << >>, vs)

\* One variable of each key (the single-name UpdatedDbNames, no Microseconds).
PlainVars ==
  { [key |-> Flags2, val |-> <<5>>],
    [key |-> SqlMode, val |-> <<9>>],
    [key |-> Catalog, val |-> << <<3, 115, 116, 100, 0>> >>],
    [key |-> AutoIncrement, val |-> <<1, 2>>],
    [key |-> Charset, val |-> <<33, 8, 45>>],
    [key |-> TimeZone, val |-> << <<85>> >>],
    [key |-> CatalogNz, val |-> << << >> >>],
    [key |-> LcTimeNames, val |-> <<3>>],
    [key |-> CharsetDatabase, val |-> <<8>>],
    [key |-> TableMapForUpdate, val |-> <<1>>],
    [key |-> MasterDataWritten, val |-> << <<1, 2, 3, 4>> >>],
    [key |-> Invoker, val |-> << <<117>>, <<104, 104>> >>],
    [key |-> UpdatedDbNames, val |-> << <<100>> >>],
    [key |-> CommitTs, val |-> << << >> >>],
    [key |-> CommitTs2, val |-> << << >> >>],
    [key |-> ExplicitDefaultsForTimestamp, val |-> <<TRUE>>],
    [key |-> DdlLoggedWithXid, val |-> <<4>>],
    [key |-> DefaultCollationForUtf8mb4, val |-> <<255>>],
    [key |-> SqlRequirePrimaryKey, val |-> <<1>>],
    [key |-> DefaultTableEncryption, val |-> <<0>>] }

TwoDbNames == [key |-> UpdatedDbNames, val |-> << <<100>>, <<101>> >>]
NoDbNames == [key |-> UpdatedDbNames, val |-> << >>]
MicrosecondsVar == [key |-> Microseconds, val |-> <<7>>]

\* The first code past StatusVarKey.
UNKNOWN_KEY == 21

\* Sequences of one or two variables of vs, each with and without a
\* trailing byte that is no key, cut at every byte.
BlocksOf(vs) ==
  LET seqs == {<<v>> : v \in vs} \cup {<<v, w>> : v \in vs, w \in vs}
      full == {[vars |-> s, bytes |-> ServerBlock(s)] : s \in seqs}
              \cup {[vars |-> s, bytes |-> ServerBlock(s) \o <<UNKNOWN_KEY, 1>>] : s \in seqs}
  IN UNION {{[vars |-> f.vars, bytes |-> SubSeq(f.bytes, 1, n)] : n \in 0 .. Len(f.bytes)}
            : f \in full}

MCBlocks == BlocksOf(PlainVars \cup {NoDbNames})

\* Blocks with a variable the decoder has trouble with, after any other.
WithVar(x) == {[vars |-> <<v, x>>, bytes |-> ServerBlock(<<v, x>>)] : v \in PlainVars}

MCDecodeBlocks == WithVar(TwoDbNames) \cup WithVar(MicrosecondsVar)
=============================================================================
