---------------------------- MODULE BinlogStream ----------------------------
(***************************************************************************)
(* What iterating a binlog file promises (spec.md 4.7 and 5), stated on    *)
(* whole events rather than bytes: the file's complete events are handed   *)
(* out one by one in file order, each with its header, its body stripped   *)
(* of the checksum trailer and the checksum that trailer held; after the   *)
(* last complete event the iteration ends, and it does end.                *)
(*                                                                         *)
(* wire is the sequence of events the server wrote and cut the number of   *)
(* bytes of the file that are present; both are fixed for a behaviour.     *)
(***************************************************************************)
EXTENDS BinlogWire

VARIABLES wire, cut, delivered, done

absVars == <<wire, cut, delivered, done>>

Init ==
  /\ delivered = << >>
  /\ done = FALSE

Deliver ==
  /\ ~done
  /\ Len(delivered) < Complete(wire, cut)
  /\ delivered' = Append(delivered, Expected(wire, Len(delivered) + 1))
  /\ UNCHANGED <<wire, cut, done>>

Finish ==
  /\ ~done
  /\ Len(delivered) = Complete(wire, cut)
  /\ done' = TRUE
  /\ UNCHANGED <<wire, cut, delivered>>

Next == Deliver \/ Finish

(* WF_absVars(Next) with ENABLED <<Next>>_absVars written out: Deliver or *)
(* Finish can take a step exactly while the stream is not done.           *)
Fairness == []<>done \/ []<><<Next>>_absVars

Spec == Init /\ [][Next]_absVars /\ Fairness
=============================================================================
