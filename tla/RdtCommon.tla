----------------------------- MODULE RdtCommon -----------------------------
(***************************************************************************)
(* The packets and the two lossy channels of 09_reliable_transfer: what    *)
(* the sender puts into its LossyChannel reaches the receiver through      *)
(* toReceiver, and the receiver's answers come back through toSender.      *)
(*                                                                         *)
(* One direction is one sequence: the channel's delay queue, the pump      *)
(* thread, the network and the socket's receive buffer, in the order in    *)
(* which datagrams were handed over.  With JITTER = 0 every datagram waits *)
(* equally long and the queue is first-in first-out; with jitter any       *)
(* datagram may overtake any other.                                        *)
(***************************************************************************)
EXTENDS Naturals, SequencesExt

CONSTANTS
  Count,       \* COUNT: data packets in the transfer
  MaxRetries,  \* MAX_RETRIES
  Jitter,      \* JITTER > 0: datagrams overtake each other
  Prompt,      \* RTO exceeds the round trip, as 0.15 s against 2 * 0.010 s do
  MaxLoss,     \* bound: datagrams the two channels drop in one transfer
  Capacity     \* bound: datagrams one direction holds before the kernel drops

ASSUME RdtAssumption ==
  /\ Count \in Nat
  /\ MaxRetries \in Nat \ {0}
  /\ Jitter \in BOOLEAN
  /\ Prompt \in BOOLEAN
  /\ MaxLoss \in Nat
  /\ Capacity \in Nat \ {0}

VARIABLES
  toReceiver,  \* datagrams travelling from the sender to the receiver
  toSender,    \* datagrams travelling back
  lost         \* datagrams dropped so far, LossyChannel.dropped of both ends

channelVars == <<toReceiver, toSender, lost>>

(***************************************************************************)
(* HEADER is a kind and a number; the payload says nothing the number does *)
(* not.                                                                    *)
(***************************************************************************)
Packet(kind, number) == [kind |-> kind, number |-> number]

Message == [kind : {"DATA", "ACK", "FIN", "FINACK", "SACK"}, number : 0..Count]

(***************************************************************************)
(* LossyChannel.sendto: the datagram is dropped and nobody is told, or it  *)
(* joins the queue.  A queue that is full loses it without the channel     *)
(* knowing, as a socket's receive buffer does.                             *)
(***************************************************************************)
Transmit(channel, datagram) ==
  \/ /\ Len(channel) < Capacity
     /\ channel' = Append(channel, datagram)
     /\ UNCHANGED lost
  \/ /\ lost < MaxLoss
     /\ lost' = lost + 1
     /\ UNCHANGED channel
  \/ /\ Len(channel) = Capacity
     /\ UNCHANGED <<channel, lost>>

(***************************************************************************)
(* The positions _pump and recvfrom may deliver from.                      *)
(***************************************************************************)
Deliverable(channel) ==
  IF Jitter THEN DOMAIN channel ELSE {i \in DOMAIN channel : i = 1}

ChannelInit ==
  /\ toReceiver = <<>>
  /\ toSender = <<>>
  /\ lost = 0

ChannelTypeOK ==
  /\ toReceiver \in Seq(Message)
  /\ toSender \in Seq(Message)
  /\ lost \in 0..MaxLoss
=============================================================================
