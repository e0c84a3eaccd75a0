---------------------------- MODULE StopAndWait ----------------------------
(***************************************************************************)
(* stop_and_wait of rdt_sender.py against one run of the receiver: one     *)
(* packet in flight, repeated until its acknowledgement arrives.           *)
(***************************************************************************)
EXTENDS RdtSender

VARIABLE seq  \* the packet being sent

vars == <<channelVars, receiverVars, senderVars, seq>>

Init ==
  /\ ChannelInit
  /\ ReceiverInit
  /\ SenderInit
  /\ seq = 0

SendNext ==
  /\ pc = "window"
  /\ pc' = "await"
  /\ stalls' = 0
  /\ Transmit(toReceiver, Packet("DATA", seq))
  /\ UNCHANGED <<toSender, resent, tries, seq>>
  /\ UNCHANGED receiverVars

(* Mutant: an acknowledgement that asks for seq itself is taken for news. *)
AwaitAckOffByOne ==
  /\ pc = "await"
  /\ \E i \in Deliverable(toSender) :
       /\ toSender' = RemoveAt(toSender, i)
       /\ IF toSender[i].kind = "ACK" /\ toSender[i].number >= seq
          THEN /\ seq' = seq + 1
               /\ pc' = IF seq' < Count THEN "window" ELSE "fin"
          ELSE UNCHANGED <<seq, pc>>
  /\ UNCHANGED <<toReceiver, lost, stalls, resent, tries>>
  /\ UNCHANGED receiverVars

(***************************************************************************)
(* _await_ack above seq: move on by one packet, not to the number the      *)
(* acknowledgement names.                                                  *)
(***************************************************************************)
AwaitAck ==
  /\ pc = "await"
  /\ \E i \in Deliverable(toSender) :
       /\ toSender' = RemoveAt(toSender, i)
       /\ IF toSender[i].kind = "ACK" /\ toSender[i].number > seq
          THEN /\ seq' = seq + 1
               /\ pc' = IF seq' < Count THEN "window" ELSE "fin"
          ELSE UNCHANGED <<seq, pc>>
  /\ UNCHANGED <<toReceiver, lost, stalls, resent, tries>>
  /\ UNCHANGED receiverVars

(***************************************************************************)
(* attempts is stalls + 1: the packet goes out MaxRetries times in all.    *)
(***************************************************************************)
Timeout ==
  /\ pc = "await"
  /\ TimerExpires
  /\ stalls' = stalls + 1
  /\ IF stalls' + 1 > MaxRetries
     THEN /\ pc' = "failed"
          /\ UNCHANGED <<resent, channelVars>>
     ELSE /\ resent' = resent + 1
          /\ Transmit(toReceiver, Packet("DATA", seq))
          /\ UNCHANGED <<pc, toSender>>
  /\ UNCHANGED <<tries, seq>>
  /\ UNCHANGED receiverVars

SenderNext ==
  \/ SendNext
  \/ AwaitAck
  \/ Timeout
  \/ Finish /\ UNCHANGED seq

ReceiverStep == ReceiverNext /\ UNCHANGED seq

Next == SenderNext \/ ReceiverStep

(* Both threads run on when they can. *)
Fairness == WF_vars(SenderNext) /\ WF_vars(ReceiverStep)

Spec == Init /\ [][Next]_vars /\ Fairness
-----------------------------------------------------------------------------

(* The sequence numbers, counters and channels keep their ranges. *)
TypeOK ==
  /\ ChannelTypeOK
  /\ ReceiverTypeOK
  /\ SenderTypeOK
  /\ seq \in 0..Count
=============================================================================
