----------------------------- MODULE StatusVars -----------------------------
(***************************************************************************)
(* The status-variables block of a QUERY event (src/binlog.rs): the        *)
(* StatusVarsIterator that splits the block into (key, value) pairs, and   *)
(* StatusVar::get_value that decodes one value.                            *)
(*                                                                         *)
(* One behaviour iterates over one block the way the crate's callers do    *)
(* (StatusVars::get_status_var's find_map, the Debug impl): next() is      *)
(* called until it returns None.  written is what the server encoded in    *)
(* the block, the environment's record of it.                              *)
(***************************************************************************)
EXTENDS BinlogIo

CONSTANTS
  Blocks     \* set of [vars, bytes]: the variables encoded and the bytes

VARIABLES
  written,   \* the variables the server encoded (environment, fixed)
  buf,       \* StatusVarsIterator.status_vars
  pos,       \* StatusVarsIterator.pos
  out,       \* the StatusVars next() returned, as [key, value] records
  done       \* next() has returned None

vars == <<written, buf, pos, out, done>>

(* StatusVarKey, with the codes of StatusVarKey::try_from.               *)
Flags2 == 0
SqlMode == 1
Catalog == 2
AutoIncrement == 3
Charset == 4
TimeZone == 5
CatalogNz == 6
LcTimeNames == 7
CharsetDatabase == 8
TableMapForUpdate == 9
MasterDataWritten == 10
Invoker == 11
UpdatedDbNames == 12
Microseconds == 13
CommitTs == 14
CommitTs2 == 15
ExplicitDefaultsForTimestamp == 16
DdlLoggedWithXid == 17
DefaultCollationForUtf8mb4 == 18
SqlRequirePrimaryKey == 19
DefaultTableEncryption == 20

\* Mutant: one code too many accepted as a key.
StatusVarKeyCodesOffByOne == 0 .. 21

StatusVarKeyCodes == 0 .. 20

FixedLen(key) ==
  CASE key \in {Flags2, AutoIncrement, MasterDataWritten} -> 4
    [] key \in {SqlMode, TableMapForUpdate, DdlLoggedWithXid} -> 8
    [] key = Charset -> 6
    [] key = Microseconds -> 3
    [] key \in {LcTimeNames, CharsetDatabase, DefaultCollationForUtf8mb4} -> 2
    [] key \in {ExplicitDefaultsForTimestamp, SqlRequirePrimaryKey,
                DefaultTableEncryption} -> 1
    [] OTHER -> 0

(* The UpdatedDbNames scan: for each of count names, step over non-NUL    *)
(* bytes, then over the NUL.  Returns the total, or -1 for a None.        *)
RECURSIVE ScanNames(_, _, _, _)
ScanNames(b, p, count, total) ==
  IF count = 0 THEN total
  ELSE IF p + total >= Len(b) THEN -1
  ELSE IF b[p + total + 1] # 0 THEN ScanNames(b, p, count, total + 1)
  ELSE ScanNames(b, p, count - 1, total + 1)

Get(b, i) == IF i < Len(b) THEN b[i + 1] ELSE -1   \* slice::get(i), -1 = None

ValueLen(b, p, key) ==
  CASE key \in {Catalog, TimeZone, CatalogNz} ->
         IF Get(b, p) < 0 THEN -1 ELSE 1 + Get(b, p) + (IF key = Catalog THEN 1 ELSE 0)
    [] key = Invoker ->
         IF Get(b, p) < 0 \/ Get(b, p + 1 + Get(b, p)) < 0 THEN -1
         ELSE 1 + Get(b, p) + 1 + Get(b, p + 1 + Get(b, p))
    [] key = UpdatedDbNames ->
         IF Get(b, p) < 0 THEN -1 ELSE ScanNames(b, p, Get(b, p), 1)
    [] OTHER -> FixedLen(key)

IterNext ==
  /\ ~done
  /\ \/ /\ Get(buf, pos) \notin StatusVarKeyCodes       \* end of block or unknown key
        /\ done' = TRUE
        /\ UNCHANGED <<pos, out>>
     \/ /\ Get(buf, pos) \in StatusVarKeyCodes
        /\ LET key == buf[pos + 1]
               p   == pos + 1
               len == ValueLen(buf, p, key)
           IN \/ /\ len < 0
                 /\ pos' = p /\ done' = TRUE
                 /\ UNCHANGED out
              \/ /\ len >= 0
                 /\ pos' = p + len
                 /\ IF p + len > Len(buf)
                    THEN done' = TRUE /\ UNCHANGED out
                    ELSE /\ out' = Append(out, [key |-> key,
                                                value |-> SubSeq(buf, p + 1, p + len)])
                         /\ UNCHANGED done
  /\ UNCHANGED <<written, buf>>

Init ==
  /\ \E blk \in Blocks : written = blk.vars /\ buf = blk.bytes
  /\ pos = 0
  /\ out = << >>
  /\ done = FALSE

Next == IterNext

(* The callers stop at the first None; until then they keep calling.     *)
Spec == Init /\ [][Next]_vars /\ WF_vars(Next)

-----------------------------------------------------------------------------
(***************************************************************************)
(* StatusVar::get_value: [ok, val] where val is the tuple of the decoded   *)
(* fields (numbers, byte strings, a boolean); ok = FALSE is Err(value).    *)
(* Fixed-width reads take the first bytes and ignore the rest.             *)
(***************************************************************************)
\* Offsets of consecutive little-endian fields of widths ws.
FieldOffset(ws, i) == FoldLeft(LAMBDA a, w : a + w, 0, SubSeq(ws, 1, i - 1))

Nums(v, ws) ==
  IF Len(v) < FieldOffset(ws, Len(ws) + 1) THEN [ok |-> FALSE, val |-> << >>]
  ELSE [ok |-> TRUE,
        val |-> [i \in 1 .. Len(ws) |->
                   FromLE(SubSeq(v, FieldOffset(ws, i) + 1, FieldOffset(ws, i) + ws[i]))]]

(* A u8 length then that many bytes (read.get(..len)); the rest of v.     *)
\* Mutant: the text taken with its length byte.
LenTextWithLen(v) ==
  IF Len(v) < 1 \/ Len(v) - 1 < v[1] THEN [ok |-> FALSE]
  ELSE [ok |-> TRUE, text |-> SubSeq(v, 1, v[1]), rest |-> SubSeq(v, 1 + v[1] + 1, Len(v))]

LenText(v) ==
  IF Len(v) < 1 \/ Len(v) - 1 < v[1] THEN [ok |-> FALSE]
  ELSE [ok |-> TRUE, text |-> SubSeq(v, 2, 1 + v[1]), rest |-> SubSeq(v, 1 + v[1] + 1, Len(v))]

(* The UpdatedDbNames loop: each name ends at the first NUL of the rest,  *)
(* and the rest starts AT that NUL (read = &read[index..]).               *)
RECURSIVE DbNames(_, _)
DbNames(r, k) ==
  IF k = 0 THEN [ok |-> TRUE, val |-> << >>]
  ELSE LET idx  == SelectInSeq(r, LAMBDA x : x = 0)
           more == DbNames(SubSeq(r, idx, Len(r)), k - 1)
       IN IF idx = 0 \/ ~more.ok THEN [ok |-> FALSE, val |-> << >>]
          ELSE [ok |-> TRUE, val |-> <<SubSeq(r, 1, idx - 1)>> \o more.val]

Err == [ok |-> FALSE, val |-> << >>]

GetValue(var) ==
  LET v == var.value
      k == var.key
  IN CASE k \in {Flags2, Microseconds} -> Nums(v, <<4>>)
       [] k \in {SqlMode, TableMapForUpdate, DdlLoggedWithXid} -> Nums(v, <<8>>)
       [] k \in {Catalog, CommitTs, CommitTs2} -> [ok |-> TRUE, val |-> <<v>>]
       [] k = AutoIncrement -> Nums(v, <<2, 2>>)
       [] k = Charset -> Nums(v, <<2, 2, 2>>)
       [] k \in {TimeZone, CatalogNz} ->
            IF LenText(v).ok THEN [ok |-> TRUE, val |-> <<LenText(v).text>>] ELSE Err
       [] k \in {LcTimeNames, CharsetDatabase, DefaultCollationForUtf8mb4} -> Nums(v, <<2>>)
       [] k = MasterDataWritten ->
            IF Len(v) < 4 THEN Err ELSE [ok |-> TRUE, val |-> <<SubSeq(v, 1, 4)>>]
       [] k = Invoker ->
            LET user == LenText(v)
                host == LenText(user.rest)
            IN IF ~user.ok \/ ~host.ok THEN Err
               ELSE [ok |-> TRUE, val |-> <<user.text, host.text>>]
       [] k = UpdatedDbNames ->
            IF Len(v) < 1 THEN Err ELSE DbNames(Tail(v), v[1])
       [] k = ExplicitDefaultsForTimestamp ->
            IF Len(v) < 1 THEN Err ELSE [ok |-> TRUE, val |-> <<v[1] # 0>>]
       [] k \in {SqlRequirePrimaryKey, DefaultTableEncryption} -> Nums(v, <<1>>)

-----------------------------------------------------------------------------
TypeOK ==
  /\ pos \in Nat /\ done \in BOOLEAN
  /\ \A i \in 1 .. Len(out) :
       out[i].key \in Flags2 .. DefaultTableEncryption /\ out[i].value \in Seq(Byte)

(***************************************************************************)
(* Spec 4.9, the length rules of the TLV block, as a reference parse: one  *)
(* key byte, a value whose length the key's rule gives, and so on until an *)
(* unknown key or a value that does not fit.                               *)
(***************************************************************************)
RECURSIVE RefNamesLen(_, _)
\* Bytes taken by k NUL-terminated names at the start of s, -1 if they do not fit.
RefNamesLen(s, k) ==
  IF k = 0 THEN 0
  ELSE LET nul == SelectInSeq(s, LAMBDA x : x = 0)
       IN IF nul = 0 THEN -1
          ELSE LET more == RefNamesLen(SubSeq(s, nul + 1, Len(s)), k - 1)
               IN IF more < 0 THEN -1 ELSE nul + more

RefRuleLen(key, s) ==
  LET b1 == IF Len(s) >= 1 THEN s[1] ELSE -1
  IN CASE key = Flags2 -> 4
       [] key = SqlMode -> 8
       [] key = Catalog -> IF b1 < 0 THEN -1 ELSE 1 + b1 + 1
       [] key = AutoIncrement -> 4
       [] key = Charset -> 6
       [] key \in {TimeZone, CatalogNz} -> IF b1 < 0 THEN -1 ELSE 1 + b1
       [] key \in {LcTimeNames, CharsetDatabase, DefaultCollationForUtf8mb4} -> 2
       [] key \in {TableMapForUpdate, DdlLoggedWithXid} -> 8
       [] key = MasterDataWritten -> 4
       [] key = Invoker ->
            IF b1 < 0 \/ Len(s) < 2 + b1 THEN -1 ELSE 1 + b1 + 1 + s[2 + b1]
       [] key = UpdatedDbNames ->
            IF b1 < 0 \/ RefNamesLen(Tail(s), b1) < 0 THEN -1
            ELSE 1 + RefNamesLen(Tail(s), b1)
       [] key = Microseconds -> 3
       [] key \in {CommitTs, CommitTs2} -> 0
       [] key \in {ExplicitDefaultsForTimestamp, SqlRequirePrimaryKey,
                   DefaultTableEncryption} -> 1

RECURSIVE RefParse(_)
RefParse(s) ==
  IF s = << >> \/ s[1] \notin Flags2 .. DefaultTableEncryption THEN << >>
  ELSE LET len == RefRuleLen(s[1], Tail(s))
       IN IF len < 0 \/ len > Len(s) - 1 THEN << >>
          ELSE << [key |-> s[1], value |-> SubSeq(s, 2, 1 + len)] >>
                 \o RefParse(SubSeq(s, 2 + len, Len(s)))

ValuesDecode ==
  \A i \in 1 .. Len(out) : GetValue(out[i]) = [ok |-> TRUE, val |-> written[i].val]
=============================================================================
