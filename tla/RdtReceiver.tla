---------------------------- MODULE RdtReceiver ----------------------------
(***************************************************************************)
(* One transfer as rdt_receiver.py serves it: run_once, then the linger.   *)
(* Mode is the command-line choice between Receiver ("gbn") and            *)
(* SelectiveRepeatReceiver ("sr"), which differ only in _on_data.          *)
(***************************************************************************)
EXTENDS RdtCommon

CONSTANTS
  Mode,        \* "gbn": no buffer, cumulative answers; "sr": buffer and SACKs
  LingerRtos   \* LINGER \div RTO: whole retransmission timeouts in one linger

ASSUME ReceiverAssumption ==
  /\ Mode \in {"gbn", "sr"}
  /\ LingerRtos \in Nat

VARIABLES
  rpc,          \* where run_once is: "serving", "lingering" or "returned"
  expected,     \* the next sequence number wanted
  delivered,    \* packets handed to the application
  buffer,       \* sequence numbers held back for a gap ("sr" only)
  maxBuffered,  \* max_buffered
  announced,    \* the number run_once returns
  ticks         \* retransmission timeouts that passed since the linger began

receiverVars == <<rpc, expected, delivered, buffer, maxBuffered, announced, ticks>>

ReceiverInit ==
  /\ rpc = "serving"
  /\ expected = 0
  /\ delivered = 0
  /\ buffer = {}
  /\ maxBuffered = 0
  /\ announced = 0
  /\ ticks = 0

(* Mutant: the acknowledgement names the packet that came. *)
OnDataAcksSeq(seq) ==
  /\ IF seq = expected
     THEN /\ expected' = expected + 1
          /\ delivered' = delivered + 1
     ELSE UNCHANGED <<expected, delivered>>
  /\ Transmit(toSender, Packet("ACK", seq + 1))
  /\ UNCHANGED <<buffer, maxBuffered>>

(***************************************************************************)
(* Receiver._on_data: take the packet only if it is the next one, and      *)
(* acknowledge the position in the stream either way.                      *)
(***************************************************************************)
OnDataCumulative(seq) ==
  /\ IF seq = expected
     THEN /\ expected' = expected + 1
          /\ delivered' = delivered + 1
     ELSE UNCHANGED <<expected, delivered>>
  /\ Transmit(toSender, Packet("ACK", expected'))
  /\ UNCHANGED <<buffer, maxBuffered>>

(* Mutant: what arrives early is handed over early. *)
OnDataOverGap(seq) ==
  /\ IF seq >= expected
     THEN /\ expected' = seq + 1
          /\ delivered' = delivered + 1
     ELSE UNCHANGED <<expected, delivered>>
  /\ Transmit(toSender, Packet("SACK", seq))
  /\ UNCHANGED <<buffer, maxBuffered>>

(***************************************************************************)
(* SelectiveRepeatReceiver._on_data: keep what is not yet delivered, hand  *)
(* over the run expected .. end - 1 the buffer now allows, acknowledge     *)
(* this packet.                                                            *)
(***************************************************************************)
OnDataBuffering(seq) ==
  LET held == IF seq >= expected THEN buffer \cup {seq} ELSE buffer IN
  /\ maxBuffered' = Max({maxBuffered, Cardinality(held)})
  /\ \E end \in expected..Count :
       /\ expected..(end - 1) \subseteq held
       /\ end \notin held
       /\ expected' = end
       /\ delivered' = delivered + (end - expected)
       /\ buffer' = held \ (expected..(end - 1))
  /\ Transmit(toSender, Packet("SACK", seq))

OnData(seq) ==
  \/ Mode = "gbn" /\ OnDataCumulative(seq)
  \/ Mode = "sr" /\ OnDataBuffering(seq)

ServeData ==
  /\ rpc = "serving"
  /\ \E i \in Deliverable(toReceiver) :
       /\ toReceiver[i].kind = "DATA"
       /\ toReceiver' = RemoveAt(toReceiver, i)
       /\ OnData(toReceiver[i].number)
  /\ UNCHANGED <<rpc, announced, ticks>>

(* Mutant: no linger. *)
ServeFinAndLeave ==
  /\ rpc = "serving"
  /\ \E i \in Deliverable(toReceiver) :
       /\ toReceiver[i].kind = "FIN"
       /\ toReceiver' = RemoveAt(toReceiver, i)
       /\ announced' = toReceiver[i].number
  /\ Transmit(toSender, Packet("FINACK", expected))
  /\ rpc' = "returned"
  /\ UNCHANGED <<expected, delivered, buffer, maxBuffered, ticks>>

(***************************************************************************)
(* The end of the transfer: confirm it and stay for the linger.            *)
(***************************************************************************)
ServeFin ==
  /\ rpc = "serving"
  /\ \E i \in Deliverable(toReceiver) :
       /\ toReceiver[i].kind = "FIN"
       /\ toReceiver' = RemoveAt(toReceiver, i)
       /\ announced' = toReceiver[i].number
  /\ Transmit(toSender, Packet("FINACK", expected))
  /\ rpc' = "lingering"
  /\ UNCHANGED <<expected, delivered, buffer, maxBuffered, ticks>>

(***************************************************************************)
(* _linger: a repeated FIN is answered again, late data is read and        *)
(* dropped.                                                                *)
(***************************************************************************)
LingerFin ==
  /\ rpc = "lingering"
  /\ \E i \in Deliverable(toReceiver) :
       /\ toReceiver[i].kind = "FIN"
       /\ toReceiver' = RemoveAt(toReceiver, i)
  /\ Transmit(toSender, Packet("FINACK", expected))
  /\ UNCHANGED receiverVars

LingerIgnore ==
  /\ rpc = "lingering"
  /\ \E i \in Deliverable(toReceiver) :
       /\ toReceiver[i].kind # "FIN"
       /\ toReceiver' = RemoveAt(toReceiver, i)
  /\ UNCHANGED <<toSender, lost>>
  /\ UNCHANGED receiverVars

(***************************************************************************)
(* The deadline of the linger passes.  A prompt clock bounds what can have *)
(* happened before: quiet says that the sender used the linger up or fell  *)
(* silent.                                                                 *)
(***************************************************************************)
LingerEnd(quiet) ==
  /\ rpc = "lingering"
  /\ Prompt => quiet
  /\ rpc' = "returned"
  /\ UNCHANGED <<expected, delivered, buffer, maxBuffered, announced, ticks>>
  /\ UNCHANGED channelVars

ReceiverTypeOK ==
  /\ rpc \in {"serving", "lingering", "returned"}
  /\ expected \in 0..Count
  /\ delivered \in 0..Count
  /\ buffer \in SUBSET (0..Count)
  /\ maxBuffered \in Nat
  /\ announced \in 0..Count
  /\ ticks \in 0..LingerRtos
=============================================================================
