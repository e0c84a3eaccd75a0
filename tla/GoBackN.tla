------------------------------ MODULE GoBackN ------------------------------
(***************************************************************************)
(* go_back_n of rdt_sender.py against one run of the receiver: up to       *)
(* Window packets in flight, one timer for the oldest of them, and on a    *)
(* timeout everything from base on goes out again.                         *)
(***************************************************************************)
EXTENDS RdtSender

CONSTANT Window  \* WINDOW

ASSUME WindowAssumption == Window \in Nat \ {0}

VARIABLES
  base,     \* oldest packet not yet acknowledged
  nextseq,  \* next packet never sent before
  cursor    \* next packet to repeat, while pc = "resend"

windowVars == <<base, nextseq, cursor>>
vars == <<channelVars, receiverVars, senderVars, windowVars>>

Init ==
  /\ ChannelInit
  /\ ReceiverInit
  /\ SenderInit
  /\ base = 0
  /\ nextseq = 0
  /\ cursor = 0

CanSend == nextseq < base + Window /\ nextseq < Count

(***************************************************************************)
(* Fill the window, one datagram at a time.                                *)
(***************************************************************************)
SendNext ==
  /\ pc = "window"
  /\ CanSend
  /\ nextseq' = nextseq + 1
  /\ Transmit(toReceiver, Packet("DATA", nextseq))
  /\ UNCHANGED <<toSender, base, cursor>>
  /\ UNCHANGED <<receiverVars, senderVars>>

(***************************************************************************)
(* Mutants of AwaitAck: Take(m) says which datagrams are news, Over when   *)
(* the transfer is complete, Stale what happens on any other datagram.     *)
(***************************************************************************)
AwaitAckIf(Take(_), Over, Stale) ==
  /\ pc = "window"
  /\ ~CanSend
  /\ \E i \in Deliverable(toSender) :
       /\ toSender' = RemoveAt(toSender, i)
       /\ IF Take(toSender[i])
          THEN /\ base' = toSender[i].number
               /\ stalls' = 0
               /\ pc' = IF Over \/ base' = Count THEN "fin" ELSE "window"
               /\ UNCHANGED cursor
          ELSE /\ IF Stale THEN pc' = "resend" /\ cursor' = base ELSE UNCHANGED <<pc, cursor>>
               /\ UNCHANGED <<base, stalls>>
  /\ UNCHANGED <<toReceiver, lost, resent, tries, nextseq>>
  /\ UNCHANGED receiverVars

AwaitAckStale == AwaitAckIf(LAMBDA m : m.kind = "ACK", FALSE, FALSE)

AwaitAckAllSent ==
  AwaitAckIf(LAMBDA m : m.kind = "ACK" /\ m.number > base, nextseq = Count, FALSE)

AwaitAckResends ==
  AwaitAckIf(LAMBDA m : m.kind = "ACK" /\ m.number > base, FALSE, TRUE)

AwaitAckAnyDialect ==
  AwaitAckIf(LAMBDA m : m.kind \in {"ACK", "SACK"} /\ m.number > base, FALSE, FALSE)

(***************************************************************************)
(* _await_ack: an acknowledgement beyond base moves the window there and   *)
(* ends the row of timeouts; any other datagram is read and forgotten.     *)
(***************************************************************************)
AwaitAck ==
  /\ pc = "window"
  /\ ~CanSend
  /\ \E i \in Deliverable(toSender) :
       /\ toSender' = RemoveAt(toSender, i)
       /\ IF toSender[i].kind = "ACK" /\ toSender[i].number > base
          THEN /\ base' = toSender[i].number
               /\ stalls' = 0
               /\ pc' = IF base' < Count THEN "window" ELSE "fin"
          ELSE UNCHANGED <<base, stalls, pc>>
  /\ UNCHANGED <<toReceiver, lost, resent, tries, nextseq, cursor>>
  /\ UNCHANGED receiverVars

(***************************************************************************)
(* The timer of the oldest packet expired: go back to it, or give up.      *)
(***************************************************************************)
Timeout ==
  /\ pc = "window"
  /\ ~CanSend
  /\ TimerExpires
  /\ stalls' = stalls + 1
  /\ pc' = IF stalls' > MaxRetries THEN "failed" ELSE "resend"
  /\ cursor' = base
  /\ UNCHANGED <<resent, tries, base, nextseq>>
  /\ UNCHANGED <<channelVars, receiverVars>>

Resend ==
  /\ pc = "resend"
  /\ cursor < nextseq
  /\ cursor' = cursor + 1
  /\ resent' = resent + 1
  /\ pc' = IF cursor' < nextseq THEN "resend" ELSE "window"
  /\ Transmit(toReceiver, Packet("DATA", cursor))
  /\ UNCHANGED <<toSender, stalls, tries, base, nextseq>>
  /\ UNCHANGED receiverVars

SenderNext ==
  \/ SendNext
  \/ AwaitAck
  \/ Timeout
  \/ Resend
  \/ Finish /\ UNCHANGED windowVars

ReceiverStep == ReceiverNext /\ UNCHANGED windowVars

Next == SenderNext \/ ReceiverStep

(***************************************************************************)
(* The sending and the receiving thread each run on when they can; the     *)
(* network delivers what it does not drop.                                 *)
(***************************************************************************)
Fairness == WF_vars(SenderNext) /\ WF_vars(ReceiverStep)

Spec == Init /\ [][Next]_vars /\ Fairness
-----------------------------------------------------------------------------

(* The sequence numbers, counters and channels keep their ranges. *)
TypeOK ==
  /\ ChannelTypeOK
  /\ ReceiverTypeOK
  /\ SenderTypeOK
  /\ base \in 0..Count
  /\ nextseq \in 0..Count
  /\ cursor \in 0..Count

(***************************************************************************)
(* Each end's idea of the other's position brackets the truth, across all  *)
(* that is lost, repeated and still on its way: nothing the sender counts  *)
(* as safe is missing at the receiver, nothing is delivered that was never *)
(* sent, and no more than a window is uncertain.                           *)
(***************************************************************************)
WindowBrackets ==
  /\ base <= expected
  /\ expected <= nextseq
  /\ nextseq <= base + Window

(***************************************************************************)
(* Whatever is on its way still tells the truth when it arrives, however   *)
(* long it was delayed and however often repeated: data was sent from the  *)
(* window, an acknowledgement names no packet that is missing, FIN and     *)
(* FINACK travel only when the receiver has everything.                    *)
(***************************************************************************)
Sent(m) ==
  \/ m.kind = "DATA" /\ m.number < nextseq
  \/ m.kind = "FIN" /\ m.number = Count /\ expected = Count

Answered(m) ==
  \/ m.kind = "ACK" /\ m.number <= expected
  \/ m.kind = "FINACK" /\ rpc # "serving"

DatagramsTrue ==
  /\ toReceiver \in Seq({m \in Message : Sent(m)})
  /\ toSender \in Seq({m \in Message : Answered(m)})

(***************************************************************************)
(* rdt_compare.py's assertion, made of both ends: once the receiver has    *)
(* seen the end of the transfer, and so once the sender reports success,   *)
(* everything announced is with the application.                           *)
(***************************************************************************)
NothingMissing ==
  /\ rpc # "serving" => delivered = Count /\ announced = Count
  /\ pc = "done" => rpc # "serving"
=============================================================================
