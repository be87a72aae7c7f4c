--------------------------- MODULE BinlogConsumer ---------------------------
(***************************************************************************)
(* The reader and the payload codecs together, as a caller of the crate    *)
(* uses them: it pulls events from BinlogFile and calls Event::read_data   *)
(* on each one it got, at any later time.  read_data decodes with the FDE  *)
(* stored in the event (Event.fde), not with the reader's active FDE, so   *)
(* the two may be interleaved in any order.                                *)
(*                                                                         *)
(* decoded[i] is read_data's result for out[i]: << >> for an error,        *)
(* <<payload>> for Ok(Some(payload)) and NoData for Ok(None).              *)
(***************************************************************************)
EXTENDS BinlogReader

VARIABLE decoded

cvars == <<vars, decoded>>

\* The payload codecs and the read_data dispatch (their state is unused).
Codec == INSTANCE PostHeaderCodecs WITH
  Inputs <- {}, etype <- 0, table <- << >>, body <- << >>, whole <- FALSE,
  ev <- << >>, written <- << >>, status <- "init"

NoData == "None"

(***************************************************************************)
(* Event::read_data for event e.  The type byte converts to an EventType   *)
(* or the result is Ok(None); the FORMAT_DESCRIPTION arm reads the FDE     *)
(* from the data (read_event passes 19 + data.len()) and gives it the      *)
(* event's footer; every other arm is the dispatch of PostHeaderCodecs,    *)
(* with the post-header table of the FDE stored in the event.              *)
(***************************************************************************)
ReadDataOf(e) ==
  LET t == e.header.event_type
  IN CASE t \notin Codec!EventTypeTryFrom -> NoData
       [] t = FORMAT_DESCRIPTION_EVENT ->
            IF FdeReadable(e.data) THEN <<[FdeRead(e.data) EXCEPT !.footer = e.footer]>>
            ELSE << >>
       [] OTHER -> Codec!ReadData(t, e.fde.event_type_header_lengths, e.data)

ConsumerInit == Init /\ decoded = << >>

\* One call of BinlogFile::new or ::next; the decoded payloads stay as they are.
Pull == Next /\ UNCHANGED decoded

\* The caller calls read_data on the next event it has not decoded yet.
Decode ==
  /\ Len(decoded) < Len(out)
  /\ decoded' = Append(decoded, ReadDataOf(out[Len(decoded) + 1]))
  /\ UNCHANGED vars

ConsumerNext == Pull \/ Decode

(* The caller's loop, for ev in file { ev?.read_data() }, keeps pulling    *)
(* and decodes every event it got: the reader's fairness and weak          *)
(* fairness of Decode.                                                     *)
ConsumerSpec == ConsumerInit /\ [][ConsumerNext]_cvars /\ Fairness /\ WF_cvars(Decode)

-----------------------------------------------------------------------------
(***************************************************************************)
(* Spec 8.4 and 9: a QUERY event is decoded to the fields the server       *)
(* encoded, under the QUERY post-header length of the FDE that preceded it *)
(* in the file, even when a later FDE declaring another length has been   *)
(* installed by the time read_data is called.  It takes the reader's FDE   *)
(* installation, the footer and trailer cut of Event::read, the event's    *)
(* stored FDE and QueryEvent::read's padding skip together.                *)
(***************************************************************************)
QueriesDecodeAsSent ==
  \A i \in 1 .. Len(decoded) :
    wire[i].sent # << >> => decoded[i] = wire[i].sent
=============================================================================
