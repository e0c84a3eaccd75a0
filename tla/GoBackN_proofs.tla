--------------------------- MODULE GoBackN_proofs ---------------------------
(***************************************************************************)
(* Go-back-N with the receiver that speaks its dialect is reliable, for    *)
(* every number of packets, window, retry limit and linger, with or        *)
(* without jitter, and whatever the channels lose.  And with a prompt      *)
(* clock a lost datagram costs it a window of packets, no more, in         *)
(* channels that keep the order and take two windows.                      *)
(***************************************************************************)
EXTENDS GoBackN, SequenceTheorems, FiniteSetTheorems, TLAPS

(***************************************************************************)
(* What the operations on a channel keep true of the datagrams in it.  The *)
(* invariant says of a channel that it is a sequence over some set of      *)
(* datagrams that are true in the present state, so that three facts       *)
(* suffice: receiving, sending, and widening the set.                      *)
(***************************************************************************)

(* Receiving a datagram leaves the others in the channel. *)
LEMMA RemoveAtInSeq ==
  ASSUME NEW S, NEW s \in Seq(S), NEW i \in DOMAIN s
  PROVE  RemoveAt(s, i) \in Seq(S)
<1>1. /\ Len(s) \in Nat
      /\ i \in 1..Len(s)
      /\ \A k \in 1..Len(s) : s[k] \in S
  BY LenProperties, ElementOfSeq
<1>2. SubSeq(s, 1, i - 1) \in Seq(S)
  BY <1>1, SubSeqProperties
<1>3. SubSeq(s, i + 1, Len(s)) \in Seq(S)
  BY <1>1, SubSeqProperties
<1> QED
  BY <1>2, <1>3, ConcatProperties DEF RemoveAt

(* Sending adds at most the datagram sent, and counts at most one loss. *)
LEMMA TransmitToReceiver ==
  ASSUME NEW S, NEW datagram \in S, toReceiver \in Seq(S), lost \in 0..MaxLoss,
         Transmit(toReceiver, datagram)
  PROVE  toReceiver' \in Seq(S) /\ lost' \in 0..MaxLoss
<1>1. Append(toReceiver, datagram) \in Seq(S)
  BY AppendProperties
<1>2. MaxLoss \in Nat
  BY RdtAssumption DEF RdtAssumption
<1> QED
  BY <1>1, <1>2 DEF Transmit

LEMMA TransmitToSender ==
  ASSUME NEW S, NEW datagram \in S, toSender \in Seq(S), lost \in 0..MaxLoss,
         Transmit(toSender, datagram)
  PROVE  toSender' \in Seq(S) /\ lost' \in 0..MaxLoss
<1>1. Append(toSender, datagram) \in Seq(S)
  BY AppendProperties
<1>2. MaxLoss \in Nat
  BY RdtAssumption DEF RdtAssumption
<1> QED
  BY <1>1, <1>2 DEF Transmit

(* Whatever may be delivered next is somewhere in the channel. *)
LEMMA DeliverableInDomain ==
  ASSUME NEW channel, NEW i \in Deliverable(channel)
  PROVE  i \in DOMAIN channel
  BY DEF Deliverable

(* A datagram received was one of the channel's, and the rest stay. *)
LEMMA Received ==
  ASSUME NEW S, NEW channel \in Seq(S), NEW i \in Deliverable(channel)
  PROVE  channel[i] \in S /\ RemoveAt(channel, i) \in Seq(S)
<1>1. i \in DOMAIN channel
  BY DeliverableInDomain
<1>2. i \in 1..Len(channel)
  BY <1>1, LenProperties
<1> QED
  BY <1>1, <1>2, RemoveAtInSeq, ElementOfSeq

-----------------------------------------------------------------------------

(***************************************************************************)
(* The inductive invariant.  WindowBrackets alone does not survive an      *)
(* acknowledgement or a packet that arrives: what they say must be true,   *)
(* which is DatagramsTrue.  FIN says that nothing is missing, and is true  *)
(* because the sender reaches pc = "fin" only with base = Count.           *)
(***************************************************************************)
Inv ==
  /\ TypeOK
  /\ DatagramsTrue
  /\ WindowBrackets
  /\ NothingMissing
  /\ delivered = expected
  /\ pc \in {"fin", "finwait", "done"} => base = Count
  /\ pc # "failed" => stalls <= MaxRetries

LEMMA InitInv == Init => Inv
<1> SUFFICES ASSUME Init PROVE Inv
  OBVIOUS
<1> USE RdtAssumption, ReceiverAssumption, WindowAssumption
    DEF RdtAssumption, ReceiverAssumption, WindowAssumption
<1>1. TypeOK
  BY DEF Init, TypeOK, ChannelInit, ReceiverInit, SenderInit, ChannelTypeOK,
         ReceiverTypeOK, SenderTypeOK
<1>2. DatagramsTrue
  BY DEF Init, ChannelInit, DatagramsTrue
<1>3. WindowBrackets /\ NothingMissing
  BY DEF Init, ReceiverInit, SenderInit, WindowBrackets, NothingMissing
<1> QED
  BY <1>1, <1>2, <1>3 DEF Init, Inv, ReceiverInit, SenderInit

(* The datagrams that are true to tell in the present state. *)
TrueData == {m \in Message : Sent(m)}
TrueAnswers == {m \in Message : Answered(m)}

(***************************************************************************)
(* What was true to tell stays true: sequence numbers only grow, and the   *)
(* receiver does not forget that it has seen the end.                      *)
(***************************************************************************)
LEMMA StaysTrue ==
  ASSUME Inv,
         nextseq' \in Nat, nextseq <= nextseq',
         expected' \in 0..Count, expected <= expected',
         rpc # "serving" => rpc' # "serving"
  PROVE  /\ toReceiver \in Seq(TrueData')
         /\ toSender \in Seq(TrueAnswers')
<1> USE RdtAssumption DEF RdtAssumption
<1>1. /\ nextseq \in Nat /\ expected \in 0..Count
      /\ toReceiver \in Seq(TrueData)
      /\ toSender \in Seq(TrueAnswers)
  BY DEF Inv, TypeOK, ReceiverTypeOK, DatagramsTrue, TrueData, TrueAnswers
<1>2. \A m \in Message : m.number \in 0..Count
  BY DEF Message
<1>3. TrueData \subseteq TrueData'
  BY <1>1, <1>2 DEF TrueData, Sent
<1>4. TrueAnswers \subseteq TrueAnswers'
  BY <1>1, <1>2 DEF TrueAnswers, Answered
<1> QED
  BY <1>1, <1>3, <1>4, SeqMonotonic

(* Packets are messages, whatever their kind. *)
LEMMA PacketIsMessage ==
  ASSUME NEW kind \in {"DATA", "ACK", "FIN", "FINACK", "SACK"}, NEW number \in 0..Count
  PROVE  /\ Packet(kind, number) \in Message
         /\ Packet(kind, number).kind = kind
         /\ Packet(kind, number).number = number
  BY DEF Packet, Message

(***************************************************************************)
(* The channels' share of the invariant, from the facts that the steps     *)
(* establish about them.                                                   *)
(***************************************************************************)
LEMMA ChannelsOK ==
  ASSUME toReceiver' \in Seq(TrueData'), toSender' \in Seq(TrueAnswers'),
         lost' \in 0..MaxLoss
  PROVE  ChannelTypeOK' /\ DatagramsTrue'
<1>1. TrueData' \subseteq Message /\ TrueAnswers' \subseteq Message
  BY DEF TrueData, TrueAnswers
<1>2. toReceiver' \in Seq(Message) /\ toSender' \in Seq(Message)
  BY <1>1, SeqMonotonic
<1> QED
  BY <1>2 DEF ChannelTypeOK, DatagramsTrue, TrueData, TrueAnswers

LEMMA SendNextInv == ASSUME Inv, SendNext PROVE Inv'
<1> USE RdtAssumption, ReceiverAssumption, WindowAssumption
    DEF RdtAssumption, ReceiverAssumption, WindowAssumption
<1>1. /\ nextseq' = nextseq + 1 /\ nextseq < Count /\ nextseq < base + Window
      /\ UNCHANGED <<receiverVars, senderVars, toSender, base, cursor>>
  BY DEF SendNext, CanSend
<1>2. nextseq \in 0..Count /\ expected \in 0..Count /\ base \in 0..Count
  BY DEF Inv, TypeOK, ReceiverTypeOK
<1>3. toReceiver \in Seq(TrueData') /\ toSender \in Seq(TrueAnswers')
  BY <1>1, <1>2, StaysTrue DEF receiverVars
<1>4. Packet("DATA", nextseq) \in TrueData'
  BY <1>1, <1>2, PacketIsMessage DEF TrueData, Sent
<1>5. toReceiver' \in Seq(TrueData') /\ lost' \in 0..MaxLoss
  BY <1>3, <1>4, TransmitToReceiver DEF SendNext, Inv, TypeOK, ChannelTypeOK
<1>6. ChannelTypeOK' /\ DatagramsTrue'
  BY <1>1, <1>3, <1>5, ChannelsOK
<1>7. TypeOK'
  BY <1>1, <1>2, <1>6
     DEF Inv, TypeOK, ReceiverTypeOK, SenderTypeOK, receiverVars, senderVars
<1>8. WindowBrackets' /\ NothingMissing'
  BY <1>1, <1>2 DEF Inv, WindowBrackets, NothingMissing, receiverVars, senderVars
<1> QED
  BY <1>1, <1>6, <1>7, <1>8 DEF Inv, receiverVars, senderVars

LEMMA AwaitAckInv == ASSUME Inv, AwaitAck PROVE Inv'
<1> USE RdtAssumption, ReceiverAssumption, WindowAssumption
    DEF RdtAssumption, ReceiverAssumption, WindowAssumption
<1>1. PICK i \in Deliverable(toSender) :
        /\ toSender' = RemoveAt(toSender, i)
        /\ IF toSender[i].kind = "ACK" /\ toSender[i].number > base
           THEN /\ base' = toSender[i].number
                /\ stalls' = 0
                /\ pc' = IF base' < Count THEN "window" ELSE "fin"
           ELSE UNCHANGED <<base, stalls, pc>>
  BY DEF AwaitAck
<1>2. /\ pc = "window" /\ nextseq >= base /\ nextseq \in 0..Count
      /\ base \in 0..Count /\ expected \in 0..Count
      /\ UNCHANGED <<receiverVars, toReceiver, lost, resent, tries, nextseq, cursor>>
  BY DEF AwaitAck, Inv, TypeOK, ReceiverTypeOK, WindowBrackets
<1>3. toReceiver \in Seq(TrueData') /\ toSender \in Seq(TrueAnswers')
  BY <1>2, StaysTrue DEF receiverVars
<1>4. toSender[i] \in TrueAnswers' /\ toSender' \in Seq(TrueAnswers')
  BY <1>1, <1>3, Received
<1>5. toSender[i].kind = "ACK" => toSender[i].number \in 0..expected
  BY <1>2, <1>4 DEF TrueAnswers, Answered, Message, receiverVars
<1>6. ChannelTypeOK' /\ DatagramsTrue'
  BY <1>2, <1>3, <1>4, ChannelsOK DEF Inv, TypeOK, ChannelTypeOK
<1>7. /\ base' \in 0..Count /\ base <= base' /\ base' <= expected
      /\ stalls' \in 0..MaxRetries
      /\ pc' \in {"window", "fin"} /\ (pc' = "fin" => base' = Count)
  BY <1>1, <1>2, <1>5 DEF Inv, TypeOK, SenderTypeOK, WindowBrackets
<1>8. TypeOK'
  BY <1>2, <1>6, <1>7 DEF Inv, TypeOK, ReceiverTypeOK, SenderTypeOK, receiverVars
<1>9. WindowBrackets'
  <2>1. expected <= nextseq /\ nextseq <= base + Window
    BY DEF Inv, WindowBrackets
  <2>2. nextseq' = nextseq /\ expected' = expected
    BY <1>2 DEF receiverVars
  <2>3. base \in Int /\ base' \in Int /\ nextseq \in Int /\ Window \in Int
    BY <1>2, <1>7
  <2>4. \A b, c, n, w \in Int : b <= c /\ n <= b + w => n <= c + w
    OBVIOUS
  <2>5. nextseq <= base' + Window
    BY <1>7, <2>1, <2>3, <2>4
  <2> QED
    BY <1>7, <2>1, <2>2, <2>5 DEF WindowBrackets
<1>10. NothingMissing'
  BY <1>2, <1>7 DEF Inv, NothingMissing, receiverVars
<1> QED
  BY <1>2, <1>6, <1>7, <1>8, <1>9, <1>10 DEF Inv, receiverVars

LEMMA TimeoutInv == ASSUME Inv, Timeout PROVE Inv'
<1> USE RdtAssumption, ReceiverAssumption, WindowAssumption
    DEF RdtAssumption, ReceiverAssumption, WindowAssumption
<1>1. /\ pc = "window" /\ stalls' = stalls + 1 /\ cursor' = base
      /\ pc' = IF stalls' > MaxRetries THEN "failed" ELSE "resend"
      /\ UNCHANGED <<channelVars, receiverVars, resent, tries, base, nextseq>>
  BY DEF Timeout
<1>2. stalls \in 0..MaxRetries
  BY <1>1 DEF Inv, TypeOK, SenderTypeOK
<1>3. ChannelTypeOK' /\ DatagramsTrue'
  BY <1>1 DEF Inv, TypeOK, ChannelTypeOK, DatagramsTrue, Sent, Answered,
              channelVars, receiverVars
<1>4. TypeOK'
  BY <1>1, <1>2, <1>3 DEF Inv, TypeOK, ReceiverTypeOK, SenderTypeOK, receiverVars
<1> QED
  BY <1>1, <1>2, <1>3, <1>4 DEF Inv, WindowBrackets, NothingMissing, receiverVars

LEMMA ResendInv == ASSUME Inv, Resend PROVE Inv'
<1> USE RdtAssumption, ReceiverAssumption, WindowAssumption
    DEF RdtAssumption, ReceiverAssumption, WindowAssumption
<1>1. /\ pc = "resend" /\ cursor < nextseq /\ cursor' = cursor + 1
      /\ resent' = resent + 1
      /\ pc' = IF cursor' < nextseq THEN "resend" ELSE "window"
      /\ UNCHANGED <<receiverVars, toSender, stalls, tries, base, nextseq>>
  BY DEF Resend
<1>2. nextseq \in 0..Count /\ expected \in 0..Count /\ cursor \in 0..Count
  BY DEF Inv, TypeOK, ReceiverTypeOK
<1>3. toReceiver \in Seq(TrueData') /\ toSender \in Seq(TrueAnswers')
  BY <1>1, <1>2, StaysTrue DEF receiverVars
<1>4. Packet("DATA", cursor) \in TrueData'
  BY <1>1, <1>2, PacketIsMessage DEF TrueData, Sent
<1>5. toReceiver' \in Seq(TrueData') /\ lost' \in 0..MaxLoss
  BY <1>3, <1>4, TransmitToReceiver DEF Resend, Inv, TypeOK, ChannelTypeOK
<1>6. ChannelTypeOK' /\ DatagramsTrue'
  BY <1>1, <1>3, <1>5, ChannelsOK
<1>7. TypeOK'
  BY <1>1, <1>2, <1>6 DEF Inv, TypeOK, ReceiverTypeOK, SenderTypeOK, receiverVars
<1> QED
  BY <1>1, <1>6, <1>7 DEF Inv, WindowBrackets, NothingMissing, receiverVars

(***************************************************************************)
(* The closing handshake.  FIN is true to send because nothing is missing; *)
(* a FINACK that arrives says that the receiver has seen it.               *)
(***************************************************************************)
LEMMA FinSendInv == ASSUME Inv, FinSend, UNCHANGED windowVars PROVE Inv'
<1> USE RdtAssumption, ReceiverAssumption, WindowAssumption
    DEF RdtAssumption, ReceiverAssumption, WindowAssumption
<1>1. /\ pc = "fin" /\ pc' = "finwait" /\ tries < MaxRetries /\ tries' = tries + 1
      /\ UNCHANGED <<receiverVars, windowVars, toSender, stalls, resent>>
  BY DEF FinSend
<1>2. /\ nextseq \in 0..Count /\ expected \in 0..Count
      /\ base = Count /\ expected = Count
  BY <1>1 DEF Inv, TypeOK, ReceiverTypeOK, WindowBrackets
<1>3. toReceiver \in Seq(TrueData') /\ toSender \in Seq(TrueAnswers')
  BY <1>1, <1>2, StaysTrue DEF receiverVars, windowVars
<1>4. Packet("FIN", Count) \in TrueData'
  BY <1>1, <1>2, PacketIsMessage DEF TrueData, Sent, receiverVars
<1>5. toReceiver' \in Seq(TrueData') /\ lost' \in 0..MaxLoss
  BY <1>3, <1>4, TransmitToReceiver DEF FinSend, Inv, TypeOK, ChannelTypeOK
<1>6. ChannelTypeOK' /\ DatagramsTrue'
  BY <1>1, <1>3, <1>5, ChannelsOK
<1>7. TypeOK'
  BY <1>1, <1>6
     DEF Inv, TypeOK, ReceiverTypeOK, SenderTypeOK, receiverVars, windowVars
<1> QED
  BY <1>1, <1>2, <1>6, <1>7
     DEF Inv, WindowBrackets, NothingMissing, receiverVars, windowVars

LEMMA FinReceiveInv == ASSUME Inv, FinReceive, UNCHANGED windowVars PROVE Inv'
<1> USE RdtAssumption, ReceiverAssumption, WindowAssumption
    DEF RdtAssumption, ReceiverAssumption, WindowAssumption
<1>1. PICK i \in Deliverable(toSender) :
        /\ toSender' = RemoveAt(toSender, i)
        /\ pc' = IF toSender[i].kind = "FINACK" THEN "done" ELSE "fin"
  BY DEF FinReceive
<1>2. /\ pc = "finwait" /\ nextseq \in 0..Count /\ expected \in 0..Count /\ base = Count
      /\ UNCHANGED <<receiverVars, windowVars, toReceiver, lost, stalls, resent, tries>>
  BY DEF FinReceive, Inv, TypeOK, ReceiverTypeOK
<1>3. toReceiver \in Seq(TrueData') /\ toSender \in Seq(TrueAnswers')
  BY <1>2, StaysTrue DEF receiverVars, windowVars
<1>4. toSender[i] \in TrueAnswers' /\ toSender' \in Seq(TrueAnswers')
  BY <1>1, <1>3, Received
<1>5. pc' = "done" => rpc' # "serving"
  BY <1>1, <1>2, <1>4 DEF TrueAnswers, Answered
<1>6. ChannelTypeOK' /\ DatagramsTrue'
  BY <1>2, <1>3, <1>4, ChannelsOK DEF Inv, TypeOK, ChannelTypeOK
<1>7. TypeOK'
  BY <1>1, <1>2, <1>6
     DEF Inv, TypeOK, ReceiverTypeOK, SenderTypeOK, receiverVars, windowVars
<1> QED
  BY <1>1, <1>2, <1>5, <1>6, <1>7
     DEF Inv, WindowBrackets, NothingMissing, receiverVars, windowVars

LEMMA FinTimeoutInv == ASSUME Inv, FinTimeout, UNCHANGED windowVars PROVE Inv'
<1> USE RdtAssumption, ReceiverAssumption, WindowAssumption
    DEF RdtAssumption, ReceiverAssumption, WindowAssumption
<1>1. /\ pc = "finwait" /\ pc' = "fin"
      /\ ticks' = IF rpc = "lingering" /\ ticks < LingerRtos THEN ticks + 1 ELSE ticks
      /\ UNCHANGED <<rpc, expected, delivered, buffer, maxBuffered, announced>>
      /\ UNCHANGED <<channelVars, windowVars, stalls, resent, tries>>
  BY DEF FinTimeout
<1>2. ChannelTypeOK' /\ DatagramsTrue'
  BY <1>1 DEF Inv, TypeOK, ChannelTypeOK, DatagramsTrue, Sent, Answered,
              channelVars, windowVars
<1>3. TypeOK'
  BY <1>1, <1>2 DEF Inv, TypeOK, ReceiverTypeOK, SenderTypeOK, windowVars
<1> QED
  BY <1>1, <1>2, <1>3 DEF Inv, WindowBrackets, NothingMissing, windowVars

LEMMA FinGiveUpInv == ASSUME Inv, FinGiveUp, UNCHANGED windowVars PROVE Inv'
<1>1. /\ pc' = "failed"
      /\ UNCHANGED <<channelVars, receiverVars, windowVars, stalls, resent, tries>>
  BY DEF FinGiveUp
<1>2. ChannelTypeOK' /\ DatagramsTrue'
  BY <1>1 DEF Inv, TypeOK, ChannelTypeOK, DatagramsTrue, Sent, Answered,
              channelVars, receiverVars, windowVars
<1>3. TypeOK'
  BY <1>1, <1>2 DEF Inv, TypeOK, ReceiverTypeOK, SenderTypeOK, receiverVars, windowVars
<1> QED
  BY <1>1, <1>2, <1>3
     DEF Inv, WindowBrackets, NothingMissing, receiverVars, windowVars

(***************************************************************************)
(* The receiver.  The packet it takes was sent, so expected stays within   *)
(* nextseq; the acknowledgement it returns names what it has.              *)
(***************************************************************************)
LEMMA ServeDataInv ==
  ASSUME Mode = "gbn", Inv, ServeData, UNCHANGED <<senderVars, windowVars>>
  PROVE  Inv'
<1> USE RdtAssumption, ReceiverAssumption, WindowAssumption
    DEF RdtAssumption, ReceiverAssumption, WindowAssumption
<1>1. PICK i \in Deliverable(toReceiver) :
        /\ toReceiver[i].kind = "DATA"
        /\ toReceiver' = RemoveAt(toReceiver, i)
        /\ OnDataCumulative(toReceiver[i].number)
  BY DEF ServeData, OnData
<1>2. /\ rpc = "serving" /\ nextseq \in 0..Count /\ expected \in 0..Count
      /\ toReceiver \in Seq(TrueData)
      /\ UNCHANGED <<rpc, announced, ticks, buffer, maxBuffered, senderVars, windowVars>>
  BY <1>1 DEF ServeData, OnDataCumulative, Inv, TypeOK, ReceiverTypeOK, DatagramsTrue,
              TrueData
<1>3. toReceiver[i] \in TrueData
  BY <1>2, Received
<1>4. toReceiver[i].number < nextseq
  BY <1>1, <1>3 DEF TrueData, Sent
<1>5. /\ expected' \in 0..Count /\ expected <= expected' /\ expected' <= nextseq
      /\ delivered' = expected'
  BY <1>1, <1>2, <1>4 DEF OnDataCumulative, Inv, WindowBrackets
<1>6. toReceiver \in Seq(TrueData') /\ toSender \in Seq(TrueAnswers')
  BY <1>2, <1>5, StaysTrue DEF windowVars
<1>7. toReceiver' \in Seq(TrueData')
  BY <1>1, <1>6, Received
<1>8. Packet("ACK", expected') \in TrueAnswers'
  BY <1>5, PacketIsMessage DEF TrueAnswers, Answered
<1>9. toSender' \in Seq(TrueAnswers') /\ lost' \in 0..MaxLoss
  BY <1>1, <1>6, <1>8, TransmitToSender DEF OnDataCumulative, Inv, TypeOK, ChannelTypeOK
<1>10. ChannelTypeOK' /\ DatagramsTrue'
  BY <1>7, <1>9, ChannelsOK
<1>11. TypeOK'
  BY <1>2, <1>5, <1>10
     DEF Inv, TypeOK, ReceiverTypeOK, SenderTypeOK, senderVars, windowVars
<1>12. WindowBrackets'
  <2>1. base \in 0..Count /\ base <= expected /\ nextseq <= base + Window
    BY DEF Inv, TypeOK, WindowBrackets
  <2> QED
    BY <1>2, <1>5, <2>1 DEF WindowBrackets, windowVars
<1>13. NothingMissing'
  BY <1>2 DEF Inv, NothingMissing, senderVars
<1> QED
  BY <1>2, <1>5, <1>10, <1>11, <1>12, <1>13 DEF Inv, senderVars, windowVars

LEMMA ServeFinInv ==
  ASSUME Inv, ServeFin, UNCHANGED <<senderVars, windowVars>>
  PROVE  Inv'
<1> USE RdtAssumption, ReceiverAssumption, WindowAssumption
    DEF RdtAssumption, ReceiverAssumption, WindowAssumption
<1>1. PICK i \in Deliverable(toReceiver) :
        /\ toReceiver[i].kind = "FIN"
        /\ toReceiver' = RemoveAt(toReceiver, i)
        /\ announced' = toReceiver[i].number
  BY DEF ServeFin
<1>2. /\ rpc = "serving" /\ rpc' = "lingering"
      /\ nextseq \in 0..Count /\ expected \in 0..Count
      /\ toReceiver \in Seq(TrueData)
      /\ UNCHANGED <<expected, delivered, buffer, maxBuffered, ticks, senderVars, windowVars>>
  BY DEF ServeFin, Inv, TypeOK, ReceiverTypeOK, DatagramsTrue, TrueData
<1>3. toReceiver[i] \in TrueData
  BY <1>2, Received
<1>4. expected = Count /\ announced' = Count
  BY <1>1, <1>3 DEF TrueData, Sent
<1>5. toReceiver \in Seq(TrueData') /\ toSender \in Seq(TrueAnswers')
  BY <1>2, StaysTrue DEF windowVars
<1>6. toReceiver' \in Seq(TrueData')
  BY <1>1, <1>5, Received
<1>7. Packet("FINACK", expected) \in TrueAnswers'
  BY <1>2, PacketIsMessage DEF TrueAnswers, Answered
<1>8. toSender' \in Seq(TrueAnswers') /\ lost' \in 0..MaxLoss
  BY <1>5, <1>7, TransmitToSender DEF ServeFin, Inv, TypeOK, ChannelTypeOK
<1>9. ChannelTypeOK' /\ DatagramsTrue'
  BY <1>6, <1>8, ChannelsOK
<1>10. TypeOK'
  BY <1>2, <1>4, <1>9
     DEF Inv, TypeOK, ReceiverTypeOK, SenderTypeOK, senderVars, windowVars
<1> QED
  BY <1>2, <1>4, <1>9, <1>10
     DEF Inv, WindowBrackets, NothingMissing, senderVars, windowVars

LEMMA LingerInv ==
  ASSUME Inv, LingerFin \/ LingerIgnore, UNCHANGED <<senderVars, windowVars>>
  PROVE  Inv'
<1> USE RdtAssumption, ReceiverAssumption, WindowAssumption
    DEF RdtAssumption, ReceiverAssumption, WindowAssumption
<1>1. PICK i \in Deliverable(toReceiver) : toReceiver' = RemoveAt(toReceiver, i)
  BY DEF LingerFin, LingerIgnore
<1>2. /\ rpc = "lingering" /\ nextseq \in 0..Count /\ expected \in 0..Count
      /\ UNCHANGED <<receiverVars, senderVars, windowVars>>
  BY DEF LingerFin, LingerIgnore, Inv, TypeOK, ReceiverTypeOK
<1>3. toReceiver \in Seq(TrueData') /\ toSender \in Seq(TrueAnswers')
  BY <1>2, StaysTrue DEF receiverVars, windowVars
<1>4. toReceiver' \in Seq(TrueData')
  BY <1>1, <1>3, Received
<1>5. Packet("FINACK", expected) \in TrueAnswers'
  BY <1>2, PacketIsMessage DEF TrueAnswers, Answered, receiverVars
<1>6. toSender' \in Seq(TrueAnswers') /\ lost' \in 0..MaxLoss
  <2>1. lost \in 0..MaxLoss
    BY DEF Inv, TypeOK, ChannelTypeOK
  <2>2. CASE LingerFin
    BY <1>3, <1>5, <2>1, <2>2, TransmitToSender DEF LingerFin
  <2>3. CASE LingerIgnore
    BY <1>3, <2>1, <2>3 DEF LingerIgnore
  <2> QED
    BY <2>2, <2>3
<1>7. ChannelTypeOK' /\ DatagramsTrue'
  BY <1>4, <1>6, ChannelsOK
<1>8. TypeOK'
  BY <1>2, <1>7
     DEF Inv, TypeOK, ReceiverTypeOK, SenderTypeOK, receiverVars, senderVars, windowVars
<1> QED
  BY <1>2, <1>7, <1>8
     DEF Inv, WindowBrackets, NothingMissing, receiverVars, senderVars, windowVars

LEMMA LingerEndInv ==
  ASSUME Inv, LingerEnd(LingerQuiet), UNCHANGED <<senderVars, windowVars>>
  PROVE  Inv'
<1>1. /\ rpc = "lingering" /\ rpc' = "returned"
      /\ UNCHANGED <<expected, delivered, buffer, maxBuffered, announced, ticks>>
      /\ UNCHANGED <<channelVars, senderVars, windowVars>>
  BY DEF LingerEnd
<1>2. nextseq \in 0..Count /\ expected \in 0..Count
  BY DEF Inv, TypeOK, ReceiverTypeOK
<1>3. ChannelTypeOK' /\ DatagramsTrue'
  BY <1>1, <1>2, StaysTrue, ChannelsOK, RdtAssumption
     DEF RdtAssumption, Inv, TypeOK, ChannelTypeOK, channelVars, windowVars
<1>4. TypeOK'
  BY <1>1, <1>3
     DEF Inv, TypeOK, ReceiverTypeOK, SenderTypeOK, senderVars, windowVars
<1> QED
  BY <1>1, <1>3, <1>4
     DEF Inv, WindowBrackets, NothingMissing, senderVars, windowVars

LEMMA NextInv == ASSUME Mode = "gbn", Inv, [Next]_vars PROVE Inv'
<1>1. CASE SendNext
  BY <1>1, SendNextInv
<1>2. CASE AwaitAck
  BY <1>2, AwaitAckInv
<1>3. CASE Timeout
  BY <1>3, TimeoutInv
<1>4. CASE Resend
  BY <1>4, ResendInv
<1>5. CASE Finish /\ UNCHANGED windowVars
  BY <1>5, FinSendInv, FinReceiveInv, FinTimeoutInv, FinGiveUpInv DEF Finish
<1>6. CASE ReceiverStep
  BY <1>6, ServeDataInv, ServeFinInv, LingerInv, LingerEndInv
     DEF ReceiverStep, ReceiverNext
<1>7. CASE UNCHANGED vars
  BY <1>7
     DEF vars, channelVars, receiverVars, senderVars, windowVars, Inv, TypeOK,
         ChannelTypeOK, ReceiverTypeOK, SenderTypeOK, DatagramsTrue, Sent, Answered,
         WindowBrackets, NothingMissing
<1> QED
  BY <1>1, <1>2, <1>3, <1>4, <1>5, <1>6, <1>7 DEF Next, SenderNext

(***************************************************************************)
(* go_back_n, paired with Receiver: every datagram on its way is true, the *)
(* two ends bracket each other, and nothing is missing when the end of the *)
(* transfer is seen or reported, in every reachable state.                 *)
(***************************************************************************)
THEOREM Safety ==
  ASSUME Mode = "gbn"
  PROVE  Spec => [](TypeOK /\ DatagramsTrue /\ WindowBrackets /\ NothingMissing)
<1>1. Init => Inv
  BY InitInv
<1>2. Inv /\ [Next]_vars => Inv'
  BY NextInv
<1>3. Inv => TypeOK /\ DatagramsTrue /\ WindowBrackets /\ NothingMissing
  BY DEF Inv
<1> QED
  BY <1>1, <1>2, <1>3, PTL DEF Spec

(***************************************************************************)
(* Every step of the protocol is one of ReliableTransfer's steps, or       *)
(* changes nothing that it speaks of.                                      *)
(***************************************************************************)
LEMMA SenderStepRefines ==
  ASSUME Inv, Inv', SenderNext
  PROVE  [Transfer!Next]_(Transfer!vars)
<1> USE DEF Transfer!vars, Outcome, SenderOver
<1>1. CASE SendNext
  BY <1>1 DEF SendNext, receiverVars, senderVars
<1>2. CASE AwaitAck
  BY <1>2 DEF AwaitAck, receiverVars
<1>3. CASE Timeout
  BY <1>3 DEF Timeout, receiverVars, Transfer!Next, Transfer!GiveUp
<1>4. CASE Resend
  BY <1>4 DEF Resend, receiverVars
<1>5. CASE FinSend
  BY <1>5 DEF FinSend, receiverVars
<1>6. CASE FinReceive
  BY <1>6 DEF FinReceive, receiverVars, Inv, NothingMissing, Transfer!Next, Transfer!Complete
<1>7. CASE FinTimeout
  BY <1>7 DEF FinTimeout
<1>8. CASE FinGiveUp
  BY <1>8 DEF FinGiveUp, receiverVars, Transfer!Next, Transfer!GiveUp
<1> QED
  BY <1>1, <1>2, <1>3, <1>4, <1>5, <1>6, <1>7, <1>8 DEF SenderNext, Finish

LEMMA ReceiverStepRefines ==
  ASSUME Mode = "gbn", Inv, Inv', ReceiverStep
  PROVE  [Transfer!Next]_(Transfer!vars)
<1> USE DEF Transfer!vars, Outcome, SenderOver
<1>1. Outcome' = Outcome
  BY DEF ReceiverStep, ReceiverNext, senderVars
<1>2. CASE ServeData
  <2>1. delivered \in 0..Count /\ delivered' \in 0..Count
    BY DEF Inv, TypeOK, ReceiverTypeOK
  <2>2. rpc = "serving" /\ rpc' = rpc /\ (delivered' = delivered \/ delivered' = delivered + 1)
    BY <1>2 DEF ServeData, OnData, OnDataCumulative
  <2>3. CASE delivered' = delivered
    BY <1>1, <2>2, <2>3
  <2>4. CASE delivered' = delivered + 1
    <3>1. delivered' \in (delivered + 1)..Count
      BY <2>1, <2>4
    <3> QED
      BY <1>1, <2>2, <3>1 DEF Transfer!Next, Transfer!Deliver
  <2> QED
    BY <2>2, <2>3, <2>4
<1>3. CASE ServeFin
  <2>1. /\ rpc = "serving" /\ rpc' # "serving"
        /\ delivered' = delivered /\ delivered' = Count
    BY <1>3 DEF ServeFin, Inv, NothingMissing
  <2> QED
    BY <1>1, <2>1 DEF Transfer!Next, Transfer!End
<1>4. CASE LingerFin \/ LingerIgnore
  BY <1>1, <1>4 DEF LingerFin, LingerIgnore, receiverVars
<1>5. CASE LingerEnd(LingerQuiet)
  BY <1>1, <1>5 DEF LingerEnd
<1> QED
  BY <1>2, <1>3, <1>4, <1>5 DEF ReceiverStep, ReceiverNext

(***************************************************************************)
(* go_back_n with Receiver implements the reliable transfer: in order,     *)
(* nothing missing at the end, success only after the end.                 *)
(***************************************************************************)
THEOREM Reliable ==
  ASSUME Mode = "gbn"
  PROVE  Spec => ImplementsTransfer
<1>1. Init => Transfer!Init
  BY DEF Init, ReceiverInit, SenderInit, Transfer!Init, Outcome, SenderOver
<1>2. Inv /\ Inv' /\ [Next]_vars => [Transfer!Next]_(Transfer!vars)
  <2> SUFFICES ASSUME Inv, Inv', [Next]_vars
               PROVE  [Transfer!Next]_(Transfer!vars)
    OBVIOUS
  <2>1. CASE Next
    BY <2>1, SenderStepRefines, ReceiverStepRefines DEF Next
  <2>2. CASE UNCHANGED vars
    BY <2>2 DEF vars, receiverVars, senderVars, Transfer!vars, Outcome, SenderOver
  <2> QED
    BY <2>1, <2>2
<1>3. Init => Inv
  BY InitInv
<1>4. Inv /\ [Next]_vars => Inv'
  BY NextInv
<1> QED
  BY <1>1, <1>2, <1>3, <1>4, PTL DEF Spec, ImplementsTransfer, Transfer!Spec

-----------------------------------------------------------------------------
(***************************************************************************)
(* The price of a loss.  While the channels keep the order and the timer   *)
(* outlasts the round trip, the sender, the two channels and the receiver  *)
(* form a Pipeline: the packets on their way are consecutive, up to the    *)
(* next one to be sent, and each acknowledgement on its way answers one    *)
(* packet.  Timeout cannot happen then, since an empty pipeline would mean *)
(* that everything is acknowledged.  A datagram dropped breaks the         *)
(* Pipeline and pays for the one window that the timeout sends again; the  *)
(* timeout finds both channels empty, and so begins a new Pipeline.        *)
(***************************************************************************)
Busy == pc \in {"window", "resend"}

(* The packet that the sender sends next. *)
Top == IF pc = "resend" THEN cursor ELSE nextseq

(* Packets that the timeout before has yet to send again. *)
Owed == IF pc = "resend" THEN nextseq - cursor ELSE 0

(* The packets below Heard were read by the receiver, those below Seen     *)
(* also answered to the sender.                                            *)
Heard == Top - Len(toReceiver)
Seen == Heard - Len(toSender)

Pipeline ==
  /\ \A i \in 1..Len(toReceiver) : toReceiver[i].number = Heard + i - 1
  /\ Heard <= expected /\ expected <= Heard + Window
  /\ Seen <= base /\ base <= Seen + Window
  /\ \A j \in 1..Len(toSender) :
       Seen + j <= toSender[j].number /\ toSender[j].number <= Seen + j + Window

Paid == Window * lost

Flow ==
  /\ resent <= Paid
  /\ Busy =>
       /\ rpc = "serving"
       /\ base < Count
       /\ \A i \in 1..Len(toReceiver) : toReceiver[i].kind = "DATA"
       /\ \A j \in 1..Len(toSender) : toSender[j].kind = "ACK"
       /\ pc = "resend" => base <= cursor /\ cursor < nextseq
       /\ resent + Owed <= Paid
       /\ Pipeline \/ resent + Owed + Window <= Paid

(* Sequences that grow at the end and shrink at the head. *)
LEMMA Longer ==
  ASSUME NEW S, NEW s \in Seq(S), NEW m \in S
  PROVE  /\ Append(s, m) \in Seq(S)
         /\ Len(s) \in Nat
         /\ Len(Append(s, m)) = Len(s) + 1
         /\ \A i \in 1..Len(s) : Append(s, m)[i] = s[i]
         /\ Append(s, m)[Len(s) + 1] = m
  BY AppendProperties, LenProperties

LEMMA Heads ==
  ASSUME Jitter = FALSE, NEW S, NEW channel \in Seq(S), NEW i \in Deliverable(channel)
  PROVE  /\ i = 1
         /\ Len(channel) \in Nat \ {0} /\ 1 \in 1..Len(channel) /\ channel[1] \in S
         /\ Len(RemoveAt(channel, i)) = Len(channel) - 1
         /\ \A k \in 1..(Len(channel) - 1) : RemoveAt(channel, i)[k] = channel[k + 1]
<1>1. i = 1 /\ i \in DOMAIN channel
  BY DEF Deliverable
<1>2. /\ Len(channel) \in Nat \ {0} /\ 1 \in 1..Len(channel)
      /\ \A k \in 1..Len(channel) : channel[k] \in S
  BY <1>1, LenProperties, ElementOfSeq
<1> DEFINE rest == SubSeq(channel, 2, Len(channel))
<1>3. /\ rest \in Seq(S) /\ Len(rest) = Len(channel) - 1
      /\ \A k \in 1..(Len(channel) - 1) : rest[k] = channel[k + 1]
  <2>1. rest \in Seq(S) /\ Len(rest) = Len(channel) - 1
    BY <1>2, SubSeqProperties
  <2>2. \A k \in 1..(Len(channel) - 1) : rest[k] = channel[2 + k - 1] /\ 2 + k - 1 = k + 1
    BY <1>2, SubSeqProperties
  <2> QED
    BY <2>1, <2>2
<1>4. RemoveAt(channel, 1) = <<>> \o rest
  <2>1. SubSeq(channel, 1, 0) = <<>>
    BY <1>2
  <2> QED
    BY <2>1 DEF RemoveAt
<1> HIDE DEF rest
<1>5. <<>> \o rest = rest
  BY <1>3, ConcatEmptySeq
<1> QED
  BY <1>1, <1>2, <1>3, <1>4, <1>5

LEMMA MessageRead ==
  ASSUME Jitter = FALSE, NEW channel \in Seq(Message), NEW i \in Deliverable(channel)
  PROVE  /\ i = 1
         /\ Len(channel) \in Nat \ {0} /\ 1 \in 1..Len(channel) /\ channel[1] \in Message
         /\ Len(RemoveAt(channel, i)) = Len(channel) - 1
         /\ \A k \in 1..(Len(channel) - 1) : RemoveAt(channel, i)[k] = channel[k + 1]
  BY Heads

(* What the invariant says of the channels and of the numbers. *)
LEMMA Channels ==
  ASSUME Inv
  PROVE  /\ toReceiver \in Seq(Message) /\ toSender \in Seq(Message)
         /\ Len(toReceiver) \in Nat /\ Len(toSender) \in Nat
<1>1. toReceiver \in Seq(Message) /\ toSender \in Seq(Message)
  BY DEF Inv, TypeOK, ChannelTypeOK
<1> QED
  BY <1>1, LenProperties

LEMMA Numbers ==
  ASSUME Inv
  PROVE  /\ base \in Nat /\ nextseq \in Nat /\ cursor \in Nat /\ expected \in Nat
         /\ resent \in Nat /\ lost \in Nat
         /\ Count \in Nat /\ Window \in Nat /\ Window # 0 /\ Capacity \in Nat
         /\ nextseq <= Count
         /\ base <= expected /\ expected <= nextseq /\ nextseq <= base + Window
         /\ Top \in Nat /\ Heard \in Int /\ Seen \in Int /\ Owed \in Int
         /\ Paid \in Nat
<1> USE RdtAssumption, WindowAssumption DEF RdtAssumption, WindowAssumption
<1>1. /\ base \in Nat /\ nextseq \in Nat /\ cursor \in Nat /\ expected \in Nat
      /\ resent \in Nat /\ lost \in Nat
      /\ nextseq <= Count
      /\ base <= expected /\ expected <= nextseq /\ nextseq <= base + Window
  BY DEF Inv, TypeOK, ChannelTypeOK, ReceiverTypeOK, SenderTypeOK, WindowBrackets
<1>2. Top \in Nat /\ Heard \in Int /\ Seen \in Int /\ Owed \in Int
  BY <1>1, Channels DEF Top, Heard, Seen, Owed
<1>3. \A w, l \in Nat : w * l \in Nat
  OBVIOUS
<1> QED
  BY <1>1, <1>2, <1>3 DEF Paid

(* Each loss pays for a window. *)
LEMMA LossPays ==
  ASSUME Inv
  PROVE  /\ lost' = lost => Paid' = Paid
         /\ lost' = lost + 1 => Paid' = Paid + Window
         /\ \A m : Transmit(toReceiver, m) \/ Transmit(toSender, m) =>
                     lost' = lost \/ lost' = lost + 1
<1>1. \A w, l \in Nat : w * (l + 1) = w * l + w
  OBVIOUS
<1> QED
  BY <1>1, Numbers DEF Paid, Transmit

(* When the sender is over the window, only losses are counted. *)
LEMMA FlowAfter ==
  ASSUME Inv, Flow, ~Busy', resent' = resent, lost' = lost \/ lost' = lost + 1
  PROVE  Flow'
<1>1. Paid' = Paid \/ Paid' = Paid + Window
  BY LossPays
<1> QED
  BY <1>1, Numbers DEF Flow

(* At most two windows are on their way in a Pipeline. *)
LEMMA TwoWindows ==
  ASSUME Inv, Pipeline, Top <= base + Window
  PROVE  /\ Len(toReceiver) + Len(toSender) <= 2 * Window
         /\ Top < base + Window => Len(toReceiver) + Len(toSender) < 2 * Window
<1>1. \A t, r, a, b, w \in Int : b <= t - r - a + w /\ t <= b + w => r + a <= 2 * w
  OBVIOUS
<1>2. \A t, r, a, b, w \in Int : b <= t - r - a + w /\ t < b + w => r + a < 2 * w
  OBVIOUS
<1>3. /\ Top \in Int /\ base \in Int /\ Window \in Int
      /\ Len(toReceiver) \in Int /\ Len(toSender) \in Int
  BY Numbers, Channels
<1>4. base <= Top - Len(toReceiver) - Len(toSender) + Window
  BY DEF Pipeline, Seen, Heard
<1> QED
  BY <1>1, <1>2, <1>3, <1>4

(***************************************************************************)
(* A packet goes out, for the first time or again.  In a Pipeline there is *)
(* room for it: at most two windows are on their way.                      *)
(***************************************************************************)
LEMMA PacketJoins ==
  ASSUME Capacity >= 2 * Window, Inv, Flow, Busy, Busy',
         Top < base + Window, Top < Count, Top' = Top + 1, Owed \in Nat,
         Transmit(toReceiver, Packet("DATA", Top)),
         resent' + Owed' = resent + Owed, resent' \in Nat, Owed' \in Nat,
         pc' = "resend" => base <= cursor' /\ cursor' < nextseq',
         UNCHANGED <<toSender, rpc, expected, base>>
  PROVE  Flow'
<1> DEFINE m == Packet("DATA", Top)
           w == resent + Owed
<1>1. m \in Message /\ m.kind = "DATA" /\ m.number = Top
  <2>1. Top \in 0..Count
    BY Numbers
  <2> QED
    BY <2>1, PacketIsMessage
<1>2. \/ toReceiver' = Append(toReceiver, m) /\ lost' = lost
      \/ toReceiver' = toReceiver /\ lost' = lost + 1
      \/ toReceiver' = toReceiver /\ lost' = lost /\ Len(toReceiver) = Capacity
  BY DEF Transmit
<1>3. /\ Paid' = Paid \/ Paid' = Paid + Window
      /\ lost' = lost => Paid' = Paid
      /\ lost' = lost + 1 => Paid' = Paid + Window
  BY <1>2, LossPays
<1>4. /\ \A i \in 1..Len(toReceiver) : toReceiver[i].kind = "DATA"
      /\ \A j \in 1..Len(toSender) : toSender[j].kind = "ACK"
      /\ rpc = "serving" /\ base < Count
      /\ w <= Paid /\ (Pipeline \/ w + Window <= Paid)
  BY DEF Flow
<1> HIDE DEF m
<1>5. toReceiver' = Append(toReceiver, m) =>
        /\ Len(toReceiver') = Len(toReceiver) + 1
        /\ \A i \in 1..Len(toReceiver) : toReceiver'[i] = toReceiver[i]
        /\ toReceiver'[Len(toReceiver) + 1] = m
  BY <1>1, Channels, Longer
<1>6. \A i \in 1..(Len(toReceiver) + 1) : i \in 1..Len(toReceiver) \/ i = Len(toReceiver) + 1
  BY Channels
<1>7. \A i \in 1..Len(toReceiver') : toReceiver'[i].kind = "DATA"
  BY <1>1, <1>2, <1>4, <1>5, <1>6
<1>8. Pipeline => Len(toReceiver) # Capacity
  <2>1. Top <= base + Window
    BY Numbers
  <2>2. Pipeline => Len(toReceiver) + Len(toSender) < 2 * Window
    BY <2>1, TwoWindows
  <2>3. Len(toReceiver) \in Nat /\ Len(toSender) \in Nat /\ Window \in Nat /\ Capacity \in Nat
    BY Numbers, Channels
  <2> QED
    BY <2>2, <2>3
<1>9. ASSUME Pipeline, toReceiver' = Append(toReceiver, m)
      PROVE  Pipeline'
  <2>1. Heard' = Heard /\ Seen' = Seen
    <3>1. \A t, r \in Int : (t + 1) - (r + 1) = t - r
      OBVIOUS
    <3>2. Top \in Int /\ Len(toReceiver) \in Int
      BY Numbers, Channels
    <3>3. Heard' = (Top + 1) - (Len(toReceiver) + 1)
      BY <1>5, <1>9 DEF Heard
    <3> QED
      BY <3>1, <3>2, <3>3 DEF Heard, Seen
  <2>2. m.number = Heard + (Len(toReceiver) + 1) - 1
    <3>1. \A t, r \in Int : t = (t - r) + (r + 1) - 1
      OBVIOUS
    <3>2. Top \in Int /\ Len(toReceiver) \in Int
      BY Numbers, Channels
    <3> QED
      BY <1>1, <3>1, <3>2 DEF Heard
  <2>3. \A i \in 1..Len(toReceiver') : toReceiver'[i].number = Heard + i - 1
    BY <1>5, <1>6, <1>9, <2>2 DEF Pipeline
  <2> QED
    BY <1>9, <2>1, <2>3 DEF Pipeline
<1>10. w \in Nat /\ w = resent' + Owed'
  <2> QED
    BY Numbers
<1>11. w <= Paid' /\ (Pipeline' \/ w + Window <= Paid')
  <2>1. \A o, p, q, n \in Nat :
          o <= p /\ (q = p \/ q = p + n) =>
            /\ o <= q
            /\ q = p + n => o + n <= q
            /\ o + n <= p => o + n <= q
    OBVIOUS
  <2>2. w \in Nat /\ Paid \in Nat /\ Paid' \in Nat /\ Window \in Nat
    BY <1>3, <1>10, Numbers
  <2> HIDE DEF w
  <2>3. /\ w <= Paid'
        /\ lost' = lost + 1 => w + Window <= Paid'
        /\ w + Window <= Paid => w + Window <= Paid'
    BY <1>3, <1>4, <2>1, <2>2
  <2> QED
    BY <1>2, <1>4, <1>8, <1>9, <2>3
<1>12. resent' <= Paid'
  <2>1. Paid' \in Nat
    BY <1>3, Numbers
  <2> QED
    BY <1>10, <1>11, <2>1
<1> QED
  BY <1>4, <1>7, <1>10, <1>11, <1>12 DEF Flow

LEMMA SendNextFlow ==
  ASSUME Capacity >= 2 * Window, Inv, Flow, SendNext
  PROVE  Flow'
<1>1. /\ pc = "window" /\ nextseq < Count /\ nextseq < base + Window
      /\ nextseq' = nextseq + 1 /\ Transmit(toReceiver, Packet("DATA", nextseq))
      /\ UNCHANGED <<toSender, base, cursor, rpc, expected, pc, resent>>
  BY DEF SendNext, CanSend, receiverVars, senderVars
<1>2. Busy /\ Busy' /\ Top = nextseq /\ Top' = nextseq' /\ Owed = 0 /\ Owed' = 0
  BY <1>1 DEF Busy, Top, Owed
<1>3. /\ resent' \in Nat /\ Owed \in Nat /\ Owed' \in Nat
      /\ resent' + Owed' = resent + Owed
  BY <1>1, <1>2, Numbers
<1>4. /\ Top < base + Window /\ Top < Count /\ Top' = Top + 1
      /\ Transmit(toReceiver, Packet("DATA", Top))
      /\ ~(pc' = "resend")
  BY <1>1, <1>2
<1> QED
  BY <1>1, <1>2, <1>3, <1>4, PacketJoins

LEMMA ResendFlow ==
  ASSUME Capacity >= 2 * Window, Inv, Flow, Resend
  PROVE  Flow'
<1>1. /\ pc = "resend" /\ cursor < nextseq /\ cursor' = cursor + 1 /\ resent' = resent + 1
      /\ pc' = IF cursor' < nextseq THEN "resend" ELSE "window"
      /\ Transmit(toReceiver, Packet("DATA", cursor))
      /\ UNCHANGED <<toSender, base, nextseq, rpc, expected>>
  BY DEF Resend, receiverVars
<1>2. Busy /\ Busy' /\ base <= cursor
  BY <1>1 DEF Busy, Flow
<1>3. Top = cursor /\ Top < base + Window /\ Top < Count
  BY <1>1, Numbers DEF Top
<1>4. /\ Top' = Top + 1 /\ resent' \in Nat /\ Owed \in Nat /\ Owed' \in Nat
      /\ resent' + Owed' = resent + Owed
      /\ pc' = "resend" => base <= cursor' /\ cursor' < nextseq'
  BY <1>1, <1>2, Numbers DEF Top, Owed
<1> QED
  BY <1>1, <1>2, <1>3, <1>4, PacketJoins

LEMMA AwaitAckFlow ==
  ASSUME Jitter = FALSE, Inv, Flow, AwaitAck
  PROVE  Flow'
<1>1. PICK i \in Deliverable(toSender) :
        /\ toSender' = RemoveAt(toSender, i)
        /\ IF toSender[i].kind = "ACK" /\ toSender[i].number > base
           THEN /\ base' = toSender[i].number
                /\ pc' = IF base' < Count THEN "window" ELSE "fin"
           ELSE UNCHANGED <<base, pc>>
  BY DEF AwaitAck
<1>2. /\ pc = "window"
      /\ UNCHANGED <<toReceiver, lost, resent, nextseq, cursor, rpc, expected>>
  BY DEF AwaitAck, receiverVars
<1>3. CASE pc' = "fin"
  BY <1>2, <1>3, FlowAfter DEF Busy
<1>4. CASE pc' = "window"
  <2>1. /\ i = 1 /\ 1 \in 1..Len(toSender) /\ toSender[1] \in Message
        /\ Len(toSender') = Len(toSender) - 1
        /\ \A k \in 1..(Len(toSender) - 1) : toSender'[k] = toSender[k + 1]
    <3>1. toSender \in Seq(Message)
      BY Channels
    <3>2. /\ i = 1 /\ 1 \in 1..Len(toSender) /\ toSender[1] \in Message
          /\ Len(RemoveAt(toSender, i)) = Len(toSender) - 1
          /\ \A k \in 1..(Len(toSender) - 1) : RemoveAt(toSender, i)[k] = toSender[k + 1]
      BY <3>1, MessageRead
    <3> QED
      BY <1>1, <3>2
  <2>2. /\ \A j \in 1..Len(toSender) : toSender[j].kind = "ACK"
        /\ \A k \in 1..(Len(toSender) - 1) : k + 1 \in 1..Len(toSender)
    BY <1>2, Channels DEF Flow, Busy
  <2>3. \A k \in 1..Len(toSender') : toSender'[k].kind = "ACK"
    BY <2>1, <2>2
  <2>4. /\ toSender[1].number \in Nat
        /\ \/ base' = toSender[1].number /\ toSender[1].number > base
           \/ base' = base /\ ~(toSender[1].number > base)
    BY <1>1, <2>1, <2>2 DEF Message
  <2>5. base' < Count
    BY <1>1, <1>2, <1>4 DEF Flow, Busy
  <2>6. ASSUME Pipeline PROVE Pipeline'
    <3>1. Heard' = Heard /\ Seen' = Seen + 1 /\ Seen \in Int /\ Heard \in Int
      BY <1>2, <1>4, <2>1, Numbers, Channels DEF Heard, Seen, Top
    <3>2. Seen + 1 <= toSender[1].number /\ toSender[1].number <= Seen + 1 + Window
      BY <2>1, <2>6 DEF Pipeline
    <3>3. Seen + 1 <= base' /\ base' <= Seen + 1 + Window
      <4>1. \A a, b, n, w \in Int :
              ~(n > b) /\ a + 1 <= n /\ b <= a + w => a + 1 <= b /\ b <= a + 1 + w
        OBVIOUS
      <4>2. base \in Int /\ Window \in Int /\ base <= Seen + Window
        BY <2>6, Numbers DEF Pipeline
      <4> QED
        BY <2>4, <3>1, <3>2, <4>1, <4>2
    <3>4. ASSUME NEW k \in 1..Len(toSender')
          PROVE  /\ (Seen + 1) + k <= toSender'[k].number
                 /\ toSender'[k].number <= (Seen + 1) + k + Window
      <4>1. k + 1 \in 1..Len(toSender) /\ toSender'[k] = toSender[k + 1]
        BY <2>1, <2>2
      <4>2. Seen + (k + 1) <= toSender[k + 1].number
            /\ toSender[k + 1].number <= Seen + (k + 1) + Window
        BY <2>6, <4>1 DEF Pipeline
      <4>3. Seen + (k + 1) = (Seen + 1) + k
        BY <3>1
      <4> QED
        BY <4>1, <4>2, <4>3
    <3> QED
      BY <1>2, <2>6, <3>1, <3>3, <3>4 DEF Pipeline
  <2>7. Paid' = Paid /\ Owed' = Owed
    BY <1>2, <1>4 DEF Paid, Owed
  <2> QED
    BY <1>2, <1>4, <2>3, <2>5, <2>6, <2>7 DEF Flow, Busy
<1> QED
  BY <1>1, <1>2, <1>3, <1>4

(***************************************************************************)
(* The timer expires when both channels are empty, and then not in a       *)
(* Pipeline: a loss has paid for what is to be sent again.                 *)
(***************************************************************************)
LEMMA TimeoutFlow ==
  ASSUME Prompt, Inv, Flow, Timeout
  PROVE  Flow'
<1>1. /\ pc = "window" /\ ~CanSend /\ TimerExpires
      /\ pc' = "failed" \/ pc' = "resend"
      /\ cursor' = base
      /\ UNCHANGED <<toReceiver, toSender, lost, resent, base, nextseq, rpc, expected>>
  BY DEF Timeout, channelVars, receiverVars
<1>2. CASE pc' = "failed"
  BY <1>1, <1>2, FlowAfter DEF Busy
<1>3. CASE pc' = "resend"
  <2>1. rpc = "serving" /\ base < Count /\ toReceiver = <<>> /\ toSender = <<>>
    BY <1>1 DEF TimerExpires, Flow, Busy
  <2>2. Len(toReceiver) = 0 /\ Len(toSender) = 0
    BY <2>1
  <2>3. base < nextseq
    BY <1>1, <2>1, Numbers DEF CanSend
  <2>4. Heard = nextseq /\ Seen = nextseq /\ Owed = 0
    BY <1>1, <2>2, Numbers DEF Heard, Seen, Owed, Top
  <2>5. ~Pipeline
    BY <2>3, <2>4, Numbers DEF Pipeline
  <2>6. resent + 0 + Window <= Paid
    BY <1>1, <2>4, <2>5 DEF Flow, Busy
  <2>7. /\ Paid' = Paid /\ Owed' = nextseq - base
        /\ Top' = base /\ Heard' = base - 0 /\ Seen' = base - 0 - 0
    BY <1>1, <1>3, <2>2 DEF Paid, Owed, Top, Heard, Seen
  <2>8. resent' + Owed' <= Paid' /\ resent' <= Paid'
    BY <1>1, <2>6, <2>7, Numbers
  <2>9. Heard' = base /\ Seen' = base
    BY <2>7, Numbers
  <2>10. /\ base <= expected /\ expected <= base + Window
         /\ base <= base /\ base <= base + Window
    BY Numbers
  <2>11. Pipeline'
    BY <1>1, <2>2, <2>9, <2>10 DEF Pipeline
  <2>12. base <= cursor' /\ cursor' < nextseq'
    BY <1>1, <2>3, Numbers
  <2>13. /\ \A i \in 1..Len(toReceiver') : toReceiver'[i].kind = "DATA"
         /\ \A j \in 1..Len(toSender') : toSender'[j].kind = "ACK"
    BY <1>1, <2>2
  <2> QED
    BY <1>1, <2>1, <2>8, <2>11, <2>12, <2>13 DEF Flow
<1> QED
  BY <1>1, <1>2, <1>3

(***************************************************************************)
(* The receiver answers every packet of a Pipeline.  The next packet is    *)
(* number Heard, which is the one expected or an old one.                  *)
(***************************************************************************)
LEMMA ServeDataFlow ==
  ASSUME Jitter = FALSE, Capacity >= 2 * Window, Mode = "gbn", Inv, Flow, Busy, ServeData,
         UNCHANGED <<senderVars, windowVars>>
  PROVE  Flow'
<1>1. PICK i \in Deliverable(toReceiver) :
        /\ toReceiver' = RemoveAt(toReceiver, i)
        /\ OnDataCumulative(toReceiver[i].number)
  BY DEF ServeData, OnData
<1>2. UNCHANGED <<pc, resent, base, nextseq, cursor, rpc>>
  BY DEF ServeData, senderVars, windowVars
<1> DEFINE m == Packet("ACK", expected')
           r == Len(toReceiver)
           a == Len(toSender)
           w == resent + Owed
<1>3. /\ i = 1 /\ r \in Nat \ {0} /\ 1 \in 1..r /\ toReceiver[1] \in Message
      /\ Len(toReceiver') = r - 1
      /\ \A k \in 1..(r - 1) : toReceiver'[k] = toReceiver[k + 1]
  <2>1. toReceiver \in Seq(Message)
    BY Channels
  <2>2. /\ i = 1 /\ r \in Nat \ {0} /\ 1 \in 1..r /\ toReceiver[1] \in Message
        /\ Len(RemoveAt(toReceiver, i)) = r - 1
        /\ \A k \in 1..(r - 1) : RemoveAt(toReceiver, i)[k] = toReceiver[k + 1]
    BY <2>1, MessageRead
  <2> QED
    BY <1>1, <2>2
<1> DEFINE seq == toReceiver[1].number
<1>4. /\ expected' = IF seq = expected THEN expected + 1 ELSE expected
      /\ Transmit(toSender, m)
  BY <1>1, <1>3 DEF OnDataCumulative
<1>5. m \in Message /\ m.kind = "ACK" /\ m.number = expected'
  <2>1. Inv'
    BY ServeDataInv
  <2>2. expected' \in 0..Count
    BY <2>1 DEF Inv, TypeOK, ReceiverTypeOK
  <2> QED
    BY <2>2, PacketIsMessage
<1>6. \/ toSender' = Append(toSender, m) /\ lost' = lost
      \/ toSender' = toSender /\ lost' = lost + 1
      \/ toSender' = toSender /\ lost' = lost /\ a = Capacity
  BY <1>4 DEF Transmit
<1>7. /\ Paid' = Paid \/ Paid' = Paid + Window
      /\ lost' = lost => Paid' = Paid
      /\ lost' = lost + 1 => Paid' = Paid + Window
  BY <1>6, LossPays
<1> HIDE DEF m
<1>8. toSender' = Append(toSender, m) =>
        /\ Len(toSender') = a + 1
        /\ \A j \in 1..a : toSender'[j] = toSender[j]
        /\ toSender'[a + 1] = m
  BY <1>5, Channels, Longer
<1>9. \A j \in 1..(a + 1) : j \in 1..a \/ j = a + 1
  BY Channels
<1>10. /\ \A k \in 1..r : toReceiver[k].kind = "DATA"
       /\ \A j \in 1..a : toSender[j].kind = "ACK"
       /\ rpc = "serving" /\ base < Count
       /\ pc = "resend" => base <= cursor /\ cursor < nextseq
       /\ w <= Paid /\ (Pipeline \/ w + Window <= Paid)
  BY DEF Flow
<1>11. \A k \in 1..(r - 1) : k + 1 \in 1..r
  BY <1>3
<1>12. /\ \A k \in 1..Len(toReceiver') : toReceiver'[k].kind = "DATA"
       /\ \A j \in 1..Len(toSender') : toSender'[j].kind = "ACK"
  <2>1. \A k \in 1..Len(toReceiver') : toReceiver'[k].kind = "DATA"
    BY <1>3, <1>10, <1>11
  <2>2. toSender' = Append(toSender, m) =>
          \A j \in 1..Len(toSender') : toSender'[j].kind = "ACK"
    BY <1>5, <1>8, <1>9, <1>10
  <2>3. toSender' = toSender =>
          \A j \in 1..Len(toSender') : toSender'[j].kind = "ACK"
    BY <1>10
  <2> QED
    BY <1>6, <2>1, <2>2, <2>3
<1>13. Pipeline => a # Capacity
  <2>1. Top <= base + Window
    <3>1. /\ base \in Nat /\ nextseq \in Nat /\ cursor \in Nat /\ Window \in Nat
          /\ nextseq <= base + Window
          /\ pc = "resend" => cursor < nextseq
      BY <1>10, Numbers
    <3> QED
      BY <3>1 DEF Top
  <2>2. Pipeline => r + a <= 2 * Window
    BY <2>1, TwoWindows
  <2>3. a \in Nat /\ Window \in Nat /\ Capacity \in Nat
    BY Numbers, Channels
  <2> QED
    BY <1>3, <2>2, <2>3
<1>14. ASSUME Pipeline, toSender' = Append(toSender, m)
       PROVE  Pipeline'
  <2>1. Heard' = Heard + 1 /\ Seen' = Seen
    <3>1. \A t, x, y \in Int : /\ t - (x - 1) = t - x + 1
                               /\ t - (x - 1) - (y + 1) = t - x - y
      OBVIOUS
    <3>2. Top \in Int /\ r \in Int /\ a \in Int
      BY Numbers, Channels
    <3>3. Top' = Top
      BY <1>2 DEF Top
    <3> QED
      BY <1>3, <1>8, <1>14, <3>1, <3>2, <3>3 DEF Heard, Seen
  <2>2. /\ seq = Heard /\ Heard <= expected /\ expected <= Heard + Window
        /\ Heard \in Int /\ Seen \in Int /\ expected \in Int /\ Window \in Nat \ {0}
    <3>1. seq = Heard + 1 - 1
      BY <1>3, <1>14 DEF Pipeline
    <3> QED
      BY <1>14, <3>1, Numbers DEF Pipeline
  <2> HIDE DEF seq
  <2>3. Heard + 1 <= expected' /\ expected' <= Heard + 1 + Window
    BY <1>4, <2>2
  <2>4. \A k \in 1..Len(toReceiver') : toReceiver'[k].number = Heard' + k - 1
    <3> SUFFICES ASSUME NEW k \in 1..(r - 1)
                 PROVE  toReceiver'[k].number = (Heard + 1) + k - 1
      BY <1>3, <2>1
    <3>1. toReceiver'[k] = toReceiver[k + 1] /\ k + 1 \in 1..r
      BY <1>3, <1>11
    <3>2. toReceiver[k + 1].number = Heard + (k + 1) - 1
      BY <1>14, <3>1 DEF Pipeline
    <3>3. Heard + (k + 1) - 1 = (Heard + 1) + k - 1
      BY <2>2
    <3> QED
      BY <3>1, <3>2, <3>3
  <2>5. \A j \in 1..Len(toSender') :
          Seen + j <= toSender'[j].number /\ toSender'[j].number <= Seen + j + Window
    <3>1. \A j \in 1..a :
            Seen + j <= toSender'[j].number /\ toSender'[j].number <= Seen + j + Window
      BY <1>8, <1>14 DEF Pipeline
    <3>2. Seen + (a + 1) = Heard + 1
      <4>1. \A h, y \in Int : (h - y) + (y + 1) = h + 1
        OBVIOUS
      <4> QED
        BY <2>2, <4>1, Channels DEF Seen
    <3>3. toSender'[a + 1].number = expected'
      BY <1>5, <1>8, <1>14
    <3> QED
      BY <1>8, <1>9, <1>14, <2>3, <3>1, <3>2, <3>3
  <2> QED
    BY <1>2, <1>14, <2>1, <2>3, <2>4, <2>5 DEF Pipeline
<1>15. Owed' = Owed /\ w \in Nat
  <2>1. Owed' = Owed
    BY <1>2 DEF Owed
  <2>2. /\ resent \in Nat /\ nextseq \in Nat /\ cursor \in Nat
        /\ pc = "resend" => cursor < nextseq
    BY <1>10, Numbers
  <2>3. Owed \in Nat
    BY <2>2 DEF Owed
  <2> QED
    BY <2>1, <2>2, <2>3
<1>16. w <= Paid' /\ (Pipeline' \/ w + Window <= Paid')
  <2>1. \A o, p, q, n \in Nat :
          o <= p /\ (q = p \/ q = p + n) =>
            /\ o <= q
            /\ q = p + n => o + n <= q
            /\ o + n <= p => o + n <= q
    OBVIOUS
  <2>2. w \in Nat /\ Paid \in Nat /\ Paid' \in Nat /\ Window \in Nat
    BY <1>7, <1>15, Numbers
  <2> HIDE DEF w
  <2>3. /\ w <= Paid'
        /\ lost' = lost + 1 => w + Window <= Paid'
        /\ w + Window <= Paid => w + Window <= Paid'
    BY <1>7, <1>10, <2>1, <2>2
  <2> QED
    BY <1>6, <1>10, <1>13, <1>14, <2>3
<1>17. resent' <= Paid'
  <2>1. resent <= Paid
    BY DEF Flow
  <2>2. resent \in Nat /\ Paid \in Nat /\ Window \in Nat
    BY Numbers
  <2>3. \A x, p, n \in Nat : x <= p => x <= p + n
    OBVIOUS
  <2>4. resent <= Paid'
    BY <1>7, <2>1, <2>2, <2>3
  <2> QED
    BY <1>2, <2>4
<1> QED
  BY <1>2, <1>10, <1>12, <1>15, <1>16, <1>17 DEF Flow

LEMMA ReceiverStepFlow ==
  ASSUME Jitter = FALSE, Capacity >= 2 * Window, Mode = "gbn", Inv, Flow, ReceiverStep
  PROVE  Flow'
<1>1. UNCHANGED <<senderVars, windowVars>>
  BY DEF ReceiverStep, ReceiverNext
<1>2. CASE ~Busy
  <2>1. ~Busy' /\ resent' = resent
    BY <1>1, <1>2 DEF Busy, senderVars
  <2>2. lost' = lost \/ lost' = lost + 1
    BY LossPays DEF ReceiverStep, ReceiverNext, ServeData, OnData, OnDataCumulative,
       OnDataBuffering, ServeFin, LingerFin, LingerIgnore, LingerEnd, channelVars
  <2> QED
    BY <2>1, <2>2, FlowAfter
<1>3. CASE Busy
  <2>1. rpc = "serving"
    BY <1>3 DEF Flow
  <2>2. \A i \in Deliverable(toReceiver) : toReceiver[i].kind # "FIN"
    <3> SUFFICES ASSUME NEW i \in Deliverable(toReceiver)
                 PROVE  toReceiver[i].kind # "FIN"
      OBVIOUS
    <3>1. toReceiver \in Seq(Message)
      BY Channels
    <3>2. i = 1 /\ 1 \in 1..Len(toReceiver)
      BY <3>1, MessageRead
    <3>3. \A k \in 1..Len(toReceiver) : toReceiver[k].kind = "DATA"
      BY <1>3 DEF Flow
    <3> QED
      BY <3>2, <3>3
  <2>3. ServeData
    BY <2>1, <2>2 DEF ReceiverStep, ReceiverNext, ServeFin, LingerFin, LingerIgnore, LingerEnd
  <2> QED
    BY <1>1, <1>3, <2>3, ServeDataFlow
<1> QED
  BY <1>2, <1>3

(* The closing handshake comes after Busy, and repeats no packet. *)
LEMMA FinishFlow ==
  ASSUME Inv, Flow, Finish
  PROVE  Flow'
<1>1. /\ ~Busy' /\ resent' = resent
      /\ lost' = lost \/ lost' = lost + 1
  BY LossPays
     DEF Finish, FinSend, FinReceive, FinTimeout, FinGiveUp, Busy, channelVars, senderVars
<1> QED
  BY <1>1, FlowAfter

LEMMA InitFlow == Init => Flow
<1> SUFFICES ASSUME Init PROVE Flow
  OBVIOUS
<1>1. /\ toReceiver = <<>> /\ toSender = <<>> /\ lost = 0
      /\ rpc = "serving" /\ expected = 0 /\ base = 0 /\ nextseq = 0 /\ resent = 0
      /\ pc = IF Count = 0 THEN "fin" ELSE "window"
  BY DEF Init, ChannelInit, ReceiverInit, SenderInit
<1>2. Len(toReceiver) = 0 /\ Len(toSender) = 0 /\ Count \in Nat /\ Window \in Nat
  BY <1>1, RdtAssumption, WindowAssumption DEF RdtAssumption, WindowAssumption
<1>3. Paid = 0
  BY <1>1, <1>2 DEF Paid
<1>4. Owed = 0 /\ Top = 0 /\ Heard = 0 /\ Seen = 0
  BY <1>1, <1>2 DEF Owed, Top, Heard, Seen
<1>5. Pipeline
  BY <1>1, <1>2, <1>4 DEF Pipeline
<1> QED
  BY <1>1, <1>2, <1>3, <1>4, <1>5 DEF Flow, Busy

LEMMA NextFlow ==
  ASSUME Jitter = FALSE, Prompt, Capacity >= 2 * Window, Mode = "gbn", Inv, Flow, [Next]_vars
  PROVE  Flow'
<1>1. CASE UNCHANGED vars
  <2>1. /\ UNCHANGED <<toReceiver, toSender, lost, rpc, expected>>
        /\ UNCHANGED <<pc, resent, base, nextseq, cursor>>
    BY <1>1 DEF vars, channelVars, receiverVars, senderVars, windowVars
  <2>2. /\ Busy' = Busy /\ Owed' = Owed /\ Heard' = Heard /\ Seen' = Seen /\ Paid' = Paid
    BY <2>1 DEF Busy, Owed, Heard, Seen, Paid, Top
  <2> QED
    BY <2>1, <2>2 DEF Flow, Pipeline
<1>2. CASE Next
  BY <1>2, SendNextFlow, AwaitAckFlow, TimeoutFlow, ResendFlow, FinishFlow, ReceiverStepFlow
     DEF Next, SenderNext
<1> QED
  BY <1>1, <1>2

(***************************************************************************)
(* What go-back-N repeats is bounded by what was lost: while the channels  *)
(* keep the order, the timer outlasts the round trip and a direction holds *)
(* two windows, every loss costs at most one window of repetitions, however *)
(* long the transfer and whatever is lost.                                 *)
(***************************************************************************)
THEOREM RepeatsPaidByLoss ==
  ASSUME Mode = "gbn", Prompt, Jitter = FALSE, Capacity >= 2 * Window
  PROVE  Spec => [](resent <= Window * lost)
<1>1. Init => Inv /\ Flow
  BY InitInv, InitFlow
<1>2. Inv /\ Flow /\ [Next]_vars => Inv' /\ Flow'
  BY NextInv, NextFlow
<1>3. Flow => resent <= Window * lost
  BY DEF Flow, Paid
<1> QED
  BY <1>1, <1>2, <1>3, PTL DEF Spec
=============================================================================
