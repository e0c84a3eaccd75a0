----------------------- MODULE SelectiveRepeat_proofs -----------------------
(***************************************************************************)
(* Selective repeat with the receiver that speaks its dialect is reliable, *)
(* for every number of packets, window, retry limit and linger, with or    *)
(* without jitter and a prompt clock, and whatever the channels lose.  And *)
(* with a prompt clock a lost datagram costs it one packet, in any order   *)
(* of arrival, in channels that take a window.                             *)
(***************************************************************************)
EXTENDS SelectiveRepeat, SequenceTheorems, FiniteSetTheorems, WellFoundedInduction, TLAPS

(***************************************************************************)
(* What the operations on a channel keep true of the datagrams in it.  The *)
(* invariant says of a channel that it is a sequence over some set of      *)
(* datagrams that are true in the present state, so that three facts       *)
(* suffice: receiving, sending, and widening the set.                      *)
(***************************************************************************)

(* Receiving a datagram leaves the others in the channel. *)
LEMMA RemoveAtInSeq ==
  ASSUME NEW S, NEW s \in Seq(S), NEW i \in DOMAIN s
  PROVE  RemoveAt(s, i) \in Seq(S)
<1>1. /\ Len(s) \in Nat
      /\ i \in 1..Len(s)
      /\ \A k \in 1..Len(s) : s[k] \in S
  BY LenProperties, ElementOfSeq
<1>2. SubSeq(s, 1, i - 1) \in Seq(S)
  BY <1>1, SubSeqProperties
<1>3. SubSeq(s, i + 1, Len(s)) \in Seq(S)
  BY <1>1, SubSeqProperties
<1> QED
  BY <1>2, <1>3, ConcatProperties DEF RemoveAt

(* Sending adds at most the datagram sent, and counts at most one loss. *)
LEMMA TransmitToReceiver ==
  ASSUME NEW S, NEW datagram \in S, toReceiver \in Seq(S), lost \in 0..MaxLoss,
         Transmit(toReceiver, datagram)
  PROVE  toReceiver' \in Seq(S) /\ lost' \in 0..MaxLoss
<1>1. Append(toReceiver, datagram) \in Seq(S)
  BY AppendProperties
<1>2. MaxLoss \in Nat
  BY RdtAssumption DEF RdtAssumption
<1> QED
  BY <1>1, <1>2 DEF Transmit

LEMMA TransmitToSender ==
  ASSUME NEW S, NEW datagram \in S, toSender \in Seq(S), lost \in 0..MaxLoss,
         Transmit(toSender, datagram)
  PROVE  toSender' \in Seq(S) /\ lost' \in 0..MaxLoss
<1>1. Append(toSender, datagram) \in Seq(S)
  BY AppendProperties
<1>2. MaxLoss \in Nat
  BY RdtAssumption DEF RdtAssumption
<1> QED
  BY <1>1, <1>2 DEF Transmit

(* Whatever may be delivered next is somewhere in the channel. *)
LEMMA DeliverableInDomain ==
  ASSUME NEW channel, NEW i \in Deliverable(channel)
  PROVE  i \in DOMAIN channel
  BY DEF Deliverable

(* A datagram received was one of the channel's, and the rest stay. *)
LEMMA Received ==
  ASSUME NEW S, NEW channel \in Seq(S), NEW i \in Deliverable(channel)
  PROVE  channel[i] \in S /\ RemoveAt(channel, i) \in Seq(S)
<1>1. i \in DOMAIN channel
  BY DeliverableInDomain
<1>2. i \in 1..Len(channel)
  BY <1>1, LenProperties
<1> QED
  BY <1>1, <1>2, RemoveAtInSeq, ElementOfSeq

-----------------------------------------------------------------------------
(* What the helpers of the community modules return. *)

LEMMA LeastNumber ==
  ASSUME NEW S \in SUBSET Nat, S # {}
  PROVE  \E x \in S : \A y \in S : x <= y
<1>1. IsWellFoundedOn(OpToRel(<, Nat), Nat)
  BY NatLessThanWellFounded
<1>2. PICK x \in S : \A y \in S : ~ (<<y, x>> \in OpToRel(<, Nat))
  BY <1>1, WFMin
<1>3. ASSUME NEW y \in S
      PROVE  x <= y
  <2>1. <<y, x>> \notin {p \in Nat \X Nat : p[1] < p[2]}
    BY <1>2 DEF OpToRel
  <2> QED
    BY <2>1
<1> QED
  BY <1>3

LEMMA MinIsLeast ==
  ASSUME NEW S \in SUBSET Nat, S # {}
  PROVE  Min(S) \in S /\ \A y \in S : Min(S) <= y
  BY LeastNumber DEF Min

LEMMA MaxOfTwo ==
  ASSUME NEW a \in Nat, NEW b \in Nat
  PROVE  Max({a, b}) = IF a >= b THEN a ELSE b
  BY DEF Max

LEMMA RemoveAtKeeps ==
  ASSUME NEW S, NEW s \in Seq(S), NEW k \in DOMAIN s, NEW i \in DOMAIN s, i # k
  PROVE  \E j \in DOMAIN RemoveAt(s, k) : RemoveAt(s, k)[j] = s[i]
<1> DEFINE left == SubSeq(s, 1, k - 1)
           right == SubSeq(s, k + 1, Len(s))
<1>1. /\ Len(s) \in Nat
      /\ k \in 1..Len(s) /\ i \in 1..Len(s)
      /\ \A j \in 1..Len(s) : s[j] \in S
  BY LenProperties, ElementOfSeq
<1>2. /\ left \in Seq(S) /\ Len(left) = k - 1
      /\ \A j \in 1..(k - 1) : left[j] = s[j]
  BY <1>1, SubSeqProperties
<1>3. /\ right \in Seq(S) /\ Len(right) = Len(s) - k
      /\ \A j \in 1..(Len(s) - k) : right[j] = s[k + j]
  BY <1>1, SubSeqProperties
<1> HIDE DEF left, right
<1>4. /\ left \o right \in Seq(S)
      /\ Len(left \o right) = Len(s) - 1
      /\ \A j \in 1..(Len(s) - 1) :
           (left \o right)[j] = IF j <= k - 1 THEN left[j] ELSE right[j - (k - 1)]
  <2>1. /\ left \o right \in Seq(S)
        /\ Len(left \o right) = Len(left) + Len(right)
        /\ \A j \in 1..(Len(left) + Len(right)) :
             (left \o right)[j] = IF j <= Len(left) THEN left[j] ELSE right[j - Len(left)]
    BY <1>2, <1>3, ConcatProperties
  <2>2. Len(left) + Len(right) = Len(s) - 1
    BY <1>1, <1>2, <1>3
  <2> QED
    BY <1>2, <2>1, <2>2
<1>5. DOMAIN (left \o right) = 1..(Len(s) - 1)
  BY <1>4, LenProperties
<1>6. CASE i < k
  <2>1. i \in 1..(Len(s) - 1) /\ i <= k - 1 /\ i \in 1..(k - 1)
    BY <1>1, <1>6
  <2> QED
    BY <1>2, <1>4, <1>5, <2>1 DEF RemoveAt, left, right
<1>7. CASE i > k
  <2>1. /\ i - 1 \in 1..(Len(s) - 1) /\ ~ (i - 1 <= k - 1)
        /\ i - k \in 1..(Len(s) - k) /\ (i - 1) - (k - 1) = i - k /\ k + (i - k) = i
    BY <1>1, <1>7
  <2> QED
    BY <1>3, <1>4, <1>5, <2>1 DEF RemoveAt, left, right
<1> QED
  BY <1>1, <1>6, <1>7

LEMMA RemoveFirstKeeps ==
  ASSUME NEW S, NEW s \in Seq(S), NEW e
  PROVE  /\ RemoveFirst(s, e) \in Seq(S)
         /\ \A i \in DOMAIN s :
              s[i] # e => \E j \in DOMAIN RemoveFirst(s, e) : RemoveFirst(s, e)[j] = s[i]
<1>1. Len(s) \in Nat /\ DOMAIN s = 1..Len(s)
  BY LenProperties
<1>2. CASE ~ \E i \in 1..Len(s) : s[i] = e
  BY <1>2 DEF RemoveFirst
<1>3. CASE \E i \in 1..Len(s) : s[i] = e
  <2> DEFINE places == {i \in 1..Len(s) : s[i] = e}
  <2>1. places \in SUBSET Nat /\ places # {}
    BY <1>1, <1>3
  <2>2. RemoveFirst(s, e) = RemoveAt(s, Min(places))
    BY <1>3, <2>1 DEF RemoveFirst, SelectInSeq
  <2>3. Min(places) \in places
    <3> HIDE DEF places
    <3> QED
      BY <2>1, MinIsLeast
  <2>4. PICK k \in DOMAIN s : k = Min(places) /\ s[k] = e
    BY <1>1, <2>3
  <2> HIDE DEF places
  <2>5. RemoveAt(s, k) \in Seq(S)
    BY RemoveAtInSeq
  <2>6. \A i \in DOMAIN s :
          s[i] # e => \E j \in DOMAIN RemoveAt(s, k) : RemoveAt(s, k)[j] = s[i]
    BY <2>4, RemoveAtKeeps
  <2> QED
    BY <2>2, <2>4, <2>5, <2>6
<1> QED
  BY <1>2, <1>3

-----------------------------------------------------------------------------

(* What the receiver has of the packets, delivered or held back. *)
Has(n) == n < expected \/ n \in buffer

(* Whatever is on its way still tells the truth when it arrives. *)
Sent(m) ==
  \/ m.kind = "DATA" /\ m.number < nextseq
  \/ m.kind = "FIN" /\ m.number = Count /\ expected = Count

Answered(m) ==
  \/ m.kind = "SACK" /\ Has(m.number)
  \/ m.kind = "FINACK" /\ rpc # "serving"

TrueData == {m \in Message : Sent(m)}
TrueAnswers == {m \in Message : Answered(m)}

DatagramsTrue ==
  /\ toReceiver \in Seq(TrueData)
  /\ toSender \in Seq(TrueAnswers)

(* The positions of the two ends, and what the receiver holds back. *)
Brackets ==
  /\ base <= expected /\ expected <= nextseq /\ nextseq <= base + Window
  /\ \A n \in buffer : expected < n /\ n < nextseq

(* What is acknowledged has arrived, and base is the first that is not. *)
AcksTrue ==
  /\ \A n \in acked : Has(n)
  /\ \A n \in Nat : n < base => n \in acked
  /\ base \notin acked

(* Every packet that waits for its acknowledgement has a timer. *)
TimersRun ==
  /\ order \in Seq(0..(nextseq - 1))
  /\ \A n \in base..(nextseq - 1) : n \in acked \/ \E i \in DOMAIN order : order[i] = n

NothingMissing ==
  /\ rpc # "serving" => delivered = Count /\ announced = Count
  /\ pc = "done" => rpc # "serving"

PhaseOK ==
  /\ pc = "window" => base < Count
  /\ pc \in {"fin", "finwait", "done"} => base = Count
  /\ pc # "failed" => stalls <= MaxRetries

Inv ==
  /\ TypeOK
  /\ DatagramsTrue
  /\ Brackets
  /\ AcksTrue
  /\ TimersRun
  /\ NothingMissing
  /\ PhaseOK
  /\ delivered = expected
  /\ BufferWithinWindow
-----------------------------------------------------------------------------
LEMMA InitInv == Init => Inv
<1> SUFFICES ASSUME Init PROVE Inv
  OBVIOUS
<1> USE RdtAssumption, ReceiverAssumption, WindowAssumption
    DEF RdtAssumption, ReceiverAssumption, WindowAssumption
<1>1. TypeOK /\ BufferWithinWindow
  BY DEF Init, TypeOK, BufferWithinWindow, ChannelInit, ReceiverInit, SenderInit,
         ChannelTypeOK, ReceiverTypeOK, SenderTypeOK
<1>2. DatagramsTrue
  BY DEF Init, ChannelInit, DatagramsTrue
<1>3. Brackets /\ AcksTrue /\ TimersRun
  BY EmptySeq DEF Init, ReceiverInit, Brackets, AcksTrue, TimersRun
<1>4. NothingMissing /\ PhaseOK
  BY DEF Init, ReceiverInit, SenderInit, NothingMissing, PhaseOK
<1> QED
  BY <1>1, <1>2, <1>3, <1>4 DEF Init, Inv, ReceiverInit

(* The ranges that the proofs of the steps start from. *)
LEMMA Ranges ==
  ASSUME Inv
  PROVE  /\ Count \in Nat /\ Window \in Nat \ {0} /\ MaxLoss \in Nat /\ MaxRetries \in Nat
         /\ base \in Nat /\ expected \in Nat /\ nextseq \in Nat
         /\ base <= expected /\ expected <= nextseq /\ nextseq <= base + Window
         /\ nextseq <= Count
         /\ buffer \in SUBSET Nat /\ acked \in SUBSET Nat
         /\ \A n \in buffer : expected < n /\ n < nextseq
         /\ \A n \in acked : n < nextseq
         /\ toReceiver \in Seq(TrueData) /\ toSender \in Seq(TrueAnswers)
         /\ lost \in 0..MaxLoss
<1>1. Count \in Nat /\ Window \in Nat \ {0} /\ MaxLoss \in Nat /\ MaxRetries \in Nat
  BY RdtAssumption, WindowAssumption DEF RdtAssumption, WindowAssumption
<1>2. /\ base \in 0..Count /\ expected \in 0..Count /\ nextseq \in 0..Count
      /\ buffer \in SUBSET (0..Count) /\ acked \in SUBSET (0..Count)
      /\ lost \in 0..MaxLoss
  BY DEF Inv, TypeOK, ReceiverTypeOK, ChannelTypeOK
<1>3. /\ base <= expected /\ expected <= nextseq /\ nextseq <= base + Window
      /\ \A n \in buffer : expected < n /\ n < nextseq
  BY DEF Inv, Brackets
<1>4. \A n \in acked : n < nextseq
  BY <1>1, <1>2, <1>3 DEF Inv, AcksTrue, Has
<1>5. toReceiver \in Seq(TrueData) /\ toSender \in Seq(TrueAnswers)
  BY DEF Inv, DatagramsTrue
<1> QED
  BY <1>1, <1>2, <1>3, <1>4, <1>5

(***************************************************************************)
(* What was true to tell stays true: the sender's window only advances,    *)
(* and the receiver forgets no packet that it has and no end that it saw.  *)
(***************************************************************************)
LEMMA StaysTrue ==
  ASSUME Inv,
         nextseq' \in Nat, nextseq <= nextseq',
         \A n \in Nat : Has(n) => Has(n)',
         expected = Count => expected' = Count,
         rpc # "serving" => rpc' # "serving"
  PROVE  /\ toReceiver \in Seq(TrueData')
         /\ toSender \in Seq(TrueAnswers')
<1>1. /\ nextseq \in Nat /\ toReceiver \in Seq(TrueData) /\ toSender \in Seq(TrueAnswers)
  BY Ranges
<1>2. \A m \in Message : m.number \in Nat
  BY RdtAssumption DEF Message, RdtAssumption
<1>3. TrueData \subseteq TrueData'
  BY <1>1, <1>2 DEF TrueData, Sent
<1>4. TrueAnswers \subseteq TrueAnswers'
  BY <1>2 DEF TrueAnswers, Answered
<1> QED
  BY <1>1, <1>3, <1>4, SeqMonotonic

LEMMA PacketIsMessage ==
  ASSUME NEW kind \in {"DATA", "ACK", "FIN", "FINACK", "SACK"}, NEW number \in 0..Count
  PROVE  /\ Packet(kind, number) \in Message
         /\ Packet(kind, number).kind = kind
         /\ Packet(kind, number).number = number
  BY DEF Packet, Message

(***************************************************************************)
(* The channels' share of the invariant, from the facts that the steps     *)
(* establish about them.                                                   *)
(***************************************************************************)
LEMMA ChannelsOK ==
  ASSUME toReceiver' \in Seq(TrueData'), toSender' \in Seq(TrueAnswers'),
         lost' \in 0..MaxLoss
  PROVE  ChannelTypeOK' /\ DatagramsTrue'
<1>1. TrueData' \subseteq Message /\ TrueAnswers' \subseteq Message
  BY DEF TrueData, TrueAnswers
<1>2. toReceiver' \in Seq(Message) /\ toSender' \in Seq(Message)
  BY <1>1, SeqMonotonic
<1> QED
  BY <1>2 DEF ChannelTypeOK, DatagramsTrue

(* A step of the closing handshake, or of the linger, moves no window. *)
LEMMA WindowsStay ==
  ASSUME Inv, UNCHANGED <<expected, delivered, buffer, maxBuffered, windowVars>>
  PROVE  /\ Brackets' /\ AcksTrue' /\ TimersRun' /\ BufferWithinWindow'
         /\ delivered' = expected'
         /\ \A n \in Nat : Has(n) => Has(n)'
  BY DEF Inv, Brackets, AcksTrue, TimersRun, BufferWithinWindow, Has, windowVars
LEMMA TimersTyped ==
  ASSUME TimersRun', nextseq' \in 0..Count
  PROVE  order' \in Seq(0..Count)
<1>1. \A c \in Nat : \A n \in 0..c : 0..(n - 1) \subseteq 0..c
  OBVIOUS
<1>2. 0..(nextseq' - 1) \subseteq 0..Count
  BY <1>1, RdtAssumption DEF RdtAssumption
<1> QED
  BY <1>2, SeqMonotonic DEF TimersRun
-----------------------------------------------------------------------------
(* The sender. *)

LEMMA SendNextInv == ASSUME Inv, SendNext PROVE Inv'
<1>1. /\ nextseq' = nextseq + 1 /\ nextseq < Count /\ nextseq < base + Window
      /\ order' = Append(order, nextseq)
      /\ Transmit(toReceiver, Packet("DATA", nextseq))
      /\ UNCHANGED <<receiverVars, senderVars, toSender, base, acked>>
  BY DEF SendNext, CanSend
<1>2. \A n \in Nat : Has(n) => Has(n)'
  BY <1>1 DEF Has, receiverVars
<1>3. toReceiver \in Seq(TrueData') /\ toSender \in Seq(TrueAnswers')
  BY <1>1, <1>2, Ranges, StaysTrue DEF receiverVars
<1>4. Packet("DATA", nextseq) \in TrueData'
  <2>1. nextseq \in 0..Count /\ nextseq < nextseq'
    BY <1>1, Ranges
  <2> QED
    BY <2>1, PacketIsMessage DEF TrueData, Sent
<1>5. toReceiver' \in Seq(TrueData') /\ lost' \in 0..MaxLoss
  BY <1>1, <1>3, <1>4, Ranges, TransmitToReceiver
<1>6. ChannelTypeOK' /\ DatagramsTrue'
  BY <1>1, <1>3, <1>5, ChannelsOK
<1>7. Brackets'
  BY <1>1, Ranges DEF Brackets, receiverVars
<1>8. AcksTrue'
  BY <1>1, <1>2, Ranges DEF Inv, AcksTrue, receiverVars
<1>9. TimersRun'
  <2>1. 0..(nextseq - 1) \subseteq 0..(nextseq' - 1) /\ nextseq \in 0..(nextseq' - 1)
    BY <1>1, Ranges
  <2>2. order \in Seq(0..(nextseq' - 1))
    BY <2>1, SeqMonotonic DEF Inv, TimersRun
  <2>3. /\ order' \in Seq(0..(nextseq' - 1))
        /\ Len(order') = Len(order) + 1
        /\ \A i \in 1..Len(order) : order'[i] = order[i]
        /\ order'[Len(order) + 1] = nextseq
    BY <1>1, <2>1, <2>2, AppendProperties
  <2>4. Len(order) \in Nat /\ DOMAIN order = 1..Len(order) /\ DOMAIN order' = 1..Len(order')
    BY <2>2, <2>3, LenProperties
  <2>5. ASSUME NEW n \in base'..(nextseq' - 1), n \notin acked'
        PROVE  \E i \in DOMAIN order' : order'[i] = n
    <3>1. CASE n = nextseq
      <4>1. Len(order) + 1 \in DOMAIN order'
        BY <2>3, <2>4
      <4> QED
        BY <2>3, <3>1, <4>1
    <3>2. CASE n \in base..(nextseq - 1)
      <4>1. PICK i \in DOMAIN order : order[i] = n
        BY <1>1, <2>5, <3>2 DEF Inv, TimersRun
      <4>2. i \in DOMAIN order' /\ order'[i] = n
        BY <2>3, <2>4, <4>1
      <4> QED
        BY <4>2
    <3>3. n \in base..nextseq /\ base \in Nat /\ nextseq \in Nat
      <4>1. base' = base /\ nextseq' - 1 = nextseq
        BY <1>1, Ranges
      <4> QED
        BY <2>5, <4>1, Ranges
    <3>4. n = nextseq \/ n \in base..(nextseq - 1)
      BY <3>3
    <3> QED
      BY <3>1, <3>2, <3>4
  <2> QED
    BY <2>3, <2>5 DEF TimersRun
<1>10. TypeOK'
  <2>1. nextseq' \in 0..Count
    BY <1>1, Ranges
  <2>2. order' \in Seq(0..Count)
    BY <1>9, <2>1, TimersTyped
  <2> QED
    BY <1>1, <1>6, <2>1, <2>2
       DEF Inv, TypeOK, ReceiverTypeOK, SenderTypeOK, receiverVars, senderVars
<1>11. NothingMissing' /\ PhaseOK' /\ BufferWithinWindow'
  BY <1>1 DEF Inv, NothingMissing, PhaseOK, BufferWithinWindow, receiverVars, senderVars
<1> QED
  BY <1>1, <1>6, <1>7, <1>8, <1>9, <1>10, <1>11 DEF Inv, receiverVars

LEMMA AwaitSackInv == ASSUME Inv, AwaitSack PROVE Inv'
<1>1. PICK i \in Deliverable(toSender) :
        /\ toSender' = RemoveAt(toSender, i)
        /\ IF toSender[i].kind = "SACK" /\ toSender[i].number \notin acked
           THEN /\ acked' = acked \cup {toSender[i].number}
                /\ order' = RemoveFirst(order, toSender[i].number)
                /\ base' = Min((base..nextseq) \ acked')
                /\ stalls' = 0
                /\ pc' = IF base' < Count THEN "window" ELSE "fin"
           ELSE UNCHANGED <<acked, order, base, stalls, pc>>
  BY DEF AwaitSack
<1>2. /\ pc = "window"
      /\ UNCHANGED <<receiverVars, toReceiver, lost, resent, tries, nextseq>>
  BY DEF AwaitSack
<1>3. \A n \in Nat : Has(n) => Has(n)'
  BY <1>2 DEF Has, receiverVars
<1>4. toReceiver \in Seq(TrueData') /\ toSender \in Seq(TrueAnswers')
  BY <1>2, <1>3, Ranges, StaysTrue DEF receiverVars
<1>5. toSender[i] \in TrueAnswers /\ toSender' \in Seq(TrueAnswers')
  BY <1>1, <1>4, Ranges, Received
<1>6. ChannelTypeOK' /\ DatagramsTrue'
  BY <1>2, <1>4, <1>5, Ranges, ChannelsOK
<1>7. CASE ~ (toSender[i].kind = "SACK" /\ toSender[i].number \notin acked)
  <2>1. UNCHANGED <<receiverVars, senderVars, windowVars>>
    BY <1>1, <1>2, <1>7 DEF senderVars, windowVars
  <2>2. /\ Brackets' /\ AcksTrue' /\ TimersRun' /\ BufferWithinWindow'
        /\ delivered' = expected'
    BY <2>1, WindowsStay DEF receiverVars
  <2>3. TypeOK'
    BY <1>6, <2>1
       DEF Inv, TypeOK, ReceiverTypeOK, SenderTypeOK, receiverVars, senderVars, windowVars
  <2> QED
    BY <1>6, <2>1, <2>2, <2>3
       DEF Inv, NothingMissing, PhaseOK, receiverVars, senderVars, windowVars
<1>8. CASE toSender[i].kind = "SACK" /\ toSender[i].number \notin acked
  <2> DEFINE open == (base..nextseq) \ acked'
  <2>1. PICK number \in 0..Count : number = toSender[i].number /\ Has(number)
    BY <1>5, <1>8 DEF TrueAnswers, Answered, Message
  <2>2. /\ acked' = acked \cup {number}
        /\ order' = RemoveFirst(order, number)
        /\ base' = Min(open)
        /\ stalls' = 0
        /\ pc' = IF base' < Count THEN "window" ELSE "fin"
    BY <1>1, <1>8, <2>1
  <2>3. number \in Nat /\ number < nextseq
    <3>1. number \in 0..Count /\ (number < expected \/ number \in buffer)
      BY <2>1 DEF Has
    <3>2. /\ Count \in Nat /\ expected \in Nat /\ nextseq \in Nat /\ expected <= nextseq
          /\ \A n \in buffer : n < nextseq
      BY Ranges
    <3> QED
      BY <3>1, <3>2
  <2>4. open \in SUBSET Nat /\ nextseq \in open
    BY <2>2, <2>3, Ranges
  <2>5. base' \in open /\ \A n \in open : base' <= n
    <3> HIDE DEF open
    <3> QED
      BY <2>2, <2>4, MinIsLeast
  <2>6. base' \in Nat /\ base <= base' /\ base' <= nextseq /\ base' \notin acked'
    BY <2>5, Ranges
  <2>7. ASSUME NEW n \in Nat, n < base'
        PROVE  n \in acked'
    <3>1. CASE n < base
      BY <2>2, <3>1 DEF Inv, AcksTrue
    <3>2. CASE ~ (n < base)
      <4>1. n \in base..nextseq /\ ~ (base' <= n)
        BY <2>6, <2>7, <3>2, Ranges
      <4>2. n \notin open
        BY <2>5, <4>1
      <4> QED
        BY <4>1, <4>2
    <3> QED
      BY <3>1, <3>2
  <2> HIDE DEF open
  <2>8. AcksTrue'
    <3>1. \A n \in acked' : Has(n)'
      BY <1>3, <2>1, <2>2, <2>3, Ranges DEF Inv, AcksTrue
    <3> QED
      BY <2>6, <2>7, <3>1 DEF AcksTrue
  <2>9. base' <= expected
    <3>1. expected \notin acked'
      BY <2>1, <2>2, Ranges DEF Inv, AcksTrue, Has
    <3>2. expected \in Nat /\ base' \in Nat
      BY <2>6, Ranges
    <3>3. ~ (expected < base')
      BY <2>7, <3>1, <3>2
    <3> QED
      BY <3>2, <3>3
  <2>10. Brackets'
    <3>1. nextseq <= base' + Window
      <4>1. \A b, c, n, w \in Nat : b <= c /\ n <= b + w => n <= c + w
        OBVIOUS
      <4> QED
        BY <2>6, <4>1, Ranges
    <3> QED
      BY <1>2, <2>9, <3>1, Ranges DEF Brackets, receiverVars
  <2>11. TimersRun'
    <3>1. /\ order \in Seq(0..(nextseq - 1))
          /\ \A n \in base..(nextseq - 1) : n \in acked \/ \E j \in DOMAIN order : order[j] = n
      BY DEF Inv, TimersRun
    <3>2. /\ order' \in Seq(0..(nextseq - 1))
          /\ \A j \in DOMAIN order :
               order[j] # number => \E k \in DOMAIN order' : order'[k] = order[j]
      BY <2>2, <3>1, RemoveFirstKeeps
    <3>3. ASSUME NEW n \in base'..(nextseq - 1), n \notin acked'
          PROVE  \E k \in DOMAIN order' : order'[k] = n
      <4>1. n \in base..(nextseq - 1) /\ n \notin acked /\ n # number
        BY <2>2, <2>6, <3>3, Ranges
      <4> QED
        BY <3>1, <3>2, <4>1
    <3> QED
      BY <1>2, <3>2, <3>3 DEF TimersRun
  <2>12. TypeOK'
    <3>1. base' \in 0..Count /\ nextseq' \in 0..Count
      BY <1>2, <2>6, Ranges
    <3>2. order' \in Seq(0..Count) /\ acked' \in SUBSET (0..Count)
      BY <2>1, <2>2, <2>11, <3>1, TimersTyped DEF Inv, TypeOK
    <3>3. ReceiverTypeOK'
      BY <1>2 DEF Inv, TypeOK, ReceiverTypeOK, receiverVars
    <3>4. SenderTypeOK'
      <4>1. 0 \in 0..(MaxRetries + 1)
        BY Ranges
      <4> QED
        BY <1>2, <2>2, <4>1 DEF Inv, TypeOK, SenderTypeOK
    <3> QED
      BY <1>6, <3>1, <3>2, <3>3, <3>4 DEF TypeOK
  <2>13. PhaseOK'
    BY <2>2, <2>6, Ranges DEF PhaseOK
  <2>14. NothingMissing'
    BY <1>2, <2>2 DEF Inv, NothingMissing, receiverVars
  <2> QED
    BY <1>2, <1>6, <2>8, <2>10, <2>11, <2>12, <2>13, <2>14
       DEF Inv, BufferWithinWindow, receiverVars
<1> QED
  BY <1>7, <1>8

(* While the sender waits a packet is outstanding: the break is not taken. *)
LEMMA NeverIdle == ASSUME Inv PROVE pc = "window" /\ ~CanSend => order # <<>>
<1> SUFFICES ASSUME pc = "window", ~CanSend PROVE order # <<>>
  OBVIOUS
<1>1. base < Count /\ base \notin acked
  BY DEF Inv, PhaseOK, AcksTrue
<1>2. base \in base..(nextseq - 1)
  BY <1>1, Ranges DEF CanSend
<1>3. PICK i \in DOMAIN order : order[i] = base
  BY <1>1, <1>2 DEF Inv, TimersRun
<1> QED
  BY <1>3

LEMMA TimeoutInv == ASSUME Inv, Timeout PROVE Inv'
<1>1. /\ pc = "window" /\ stalls' = stalls + 1
      /\ UNCHANGED <<receiverVars, tries, base, nextseq, acked>>
  BY DEF Timeout
<1>2. stalls \in 0..MaxRetries /\ MaxRetries \in Nat
  BY <1>1, Ranges DEF Inv, TypeOK, SenderTypeOK, PhaseOK
<1>3. \A n \in Nat : Has(n) => Has(n)'
  BY <1>1 DEF Has, receiverVars
<1>4. toReceiver \in Seq(TrueData') /\ toSender \in Seq(TrueAnswers')
  BY <1>1, <1>3, Ranges, StaysTrue DEF receiverVars
<1>5. CASE stalls' > MaxRetries
  <2>1. pc' = "failed" /\ UNCHANGED <<resent, windowVars, channelVars>>
    BY <1>1, <1>5 DEF Timeout, windowVars
  <2>2. ChannelTypeOK' /\ DatagramsTrue'
    BY <1>4, <2>1, Ranges, ChannelsOK DEF channelVars
  <2>3. /\ Brackets' /\ AcksTrue' /\ TimersRun' /\ BufferWithinWindow'
        /\ delivered' = expected'
    BY <1>1, <2>1, WindowsStay DEF receiverVars
  <2>4. TypeOK'
    BY <1>1, <1>2, <2>1, <2>2
       DEF Inv, TypeOK, ReceiverTypeOK, SenderTypeOK, receiverVars, windowVars
  <2> QED
    BY <1>1, <2>1, <2>2, <2>3, <2>4 DEF Inv, NothingMissing, PhaseOK, receiverVars
<1>6. CASE ~ (stalls' > MaxRetries)
  <2>1. /\ resent' = resent + 1
        /\ order' = Append(Tail(order), Head(order))
        /\ Transmit(toReceiver, Packet("DATA", Head(order)))
        /\ UNCHANGED <<pc, toSender>>
    BY <1>6 DEF Timeout
  <2>2. order # <<>> /\ order \in Seq(0..(nextseq - 1))
    BY NeverIdle DEF Timeout, Inv, TimersRun
  <2>3. /\ Head(order) \in 0..(nextseq - 1)
        /\ Tail(order) \in Seq(0..(nextseq - 1))
        /\ Len(Tail(order)) = Len(order) - 1
        /\ \A i \in 1..Len(Tail(order)) : Tail(order)[i] = order[i + 1]
    BY <2>2, HeadTailProperties
  <2>4. Head(order) \in 0..Count /\ Head(order) < nextseq
    BY <2>3, Ranges
  <2>5. Packet("DATA", Head(order)) \in TrueData'
    BY <1>1, <2>4, PacketIsMessage DEF TrueData, Sent
  <2>6. toReceiver' \in Seq(TrueData') /\ lost' \in 0..MaxLoss
    BY <1>4, <2>1, <2>5, Ranges, TransmitToReceiver
  <2>7. ChannelTypeOK' /\ DatagramsTrue'
    BY <1>4, <2>1, <2>6, ChannelsOK
  <2>8. TimersRun'
    <3>1. /\ order' \in Seq(0..(nextseq - 1))
          /\ Len(order') = Len(Tail(order)) + 1
          /\ \A i \in 1..Len(Tail(order)) : order'[i] = Tail(order)[i]
          /\ order'[Len(Tail(order)) + 1] = Head(order)
      BY <2>1, <2>3, AppendProperties
    <3>2. /\ Len(order) \in Nat /\ Len(order) > 0 /\ DOMAIN order = 1..Len(order)
          /\ DOMAIN order' = 1..Len(order) /\ Len(order') = Len(order)
          /\ Head(order) = order[1]
      BY <2>2, <2>3, <3>1, LenProperties, EmptySeq
    <3>3. ASSUME NEW i \in DOMAIN order
          PROVE  \E j \in DOMAIN order' : order'[j] = order[i]
      <4>1. CASE i = 1
        <5>1. Len(order) \in DOMAIN order' /\ order'[Len(order)] = order[1]
          BY <2>3, <3>1, <3>2
        <5> QED
          BY <4>1, <5>1
      <4>2. CASE i # 1
        <5>1. i - 1 \in 1..Len(Tail(order)) /\ i - 1 \in DOMAIN order' /\ (i - 1) + 1 = i
          BY <2>3, <3>2, <4>2
        <5>2. order'[i - 1] = order[i]
          BY <2>3, <3>1, <5>1
        <5> QED
          BY <5>1, <5>2
      <4> QED
        BY <4>1, <4>2
    <3>4. \A n \in base..(nextseq - 1) : n \in acked \/ \E i \in DOMAIN order : order[i] = n
      BY DEF Inv, TimersRun
    <3> QED
      BY <1>1, <3>1, <3>3, <3>4 DEF TimersRun
  <2>9. TypeOK'
    <3>1. nextseq' \in 0..Count
      BY <1>1 DEF Inv, TypeOK
    <3>2. order' \in Seq(0..Count)
      BY <2>8, <3>1, TimersTyped
    <3> QED
      BY <1>1, <1>2, <1>6, <2>1, <2>7, <3>2
         DEF Inv, TypeOK, ReceiverTypeOK, SenderTypeOK, receiverVars
  <2>10. Brackets' /\ AcksTrue'
    BY <1>1, <1>3, Ranges DEF Inv, Brackets, AcksTrue, receiverVars
  <2>11. NothingMissing' /\ PhaseOK' /\ BufferWithinWindow'
    BY <1>1, <1>2, <1>6, <2>1
       DEF Inv, NothingMissing, PhaseOK, BufferWithinWindow, receiverVars
  <2> QED
    BY <1>1, <2>7, <2>8, <2>9, <2>10, <2>11 DEF Inv, receiverVars
<1> QED
  BY <1>5, <1>6

(***************************************************************************)
(* The closing handshake.  FIN is true to send because nothing is missing; *)
(* a FINACK that arrives says that the receiver has seen it.               *)
(***************************************************************************)
LEMMA FinSendInv == ASSUME Inv, FinSend, UNCHANGED windowVars PROVE Inv'
<1>1. /\ pc = "fin" /\ pc' = "finwait" /\ tries < MaxRetries /\ tries' = tries + 1
      /\ UNCHANGED <<receiverVars, windowVars, toSender, stalls, resent>>
      /\ Transmit(toReceiver, Packet("FIN", Count))
  BY DEF FinSend
<1>2. base = Count /\ expected = Count
  BY <1>1, Ranges DEF Inv, PhaseOK
<1>3. /\ Brackets' /\ AcksTrue' /\ TimersRun' /\ BufferWithinWindow'
      /\ delivered' = expected'
      /\ \A n \in Nat : Has(n) => Has(n)'
  BY <1>1, WindowsStay DEF receiverVars
<1>4. toReceiver \in Seq(TrueData') /\ toSender \in Seq(TrueAnswers')
  BY <1>1, <1>3, Ranges, StaysTrue DEF receiverVars, windowVars
<1>5. Packet("FIN", Count) \in TrueData'
  <2>1. Count \in 0..Count
    BY Ranges
  <2> QED
    BY <1>1, <1>2, <2>1, PacketIsMessage DEF TrueData, Sent, receiverVars
<1>6. toReceiver' \in Seq(TrueData') /\ lost' \in 0..MaxLoss
  BY <1>1, <1>4, <1>5, Ranges, TransmitToReceiver
<1>7. ChannelTypeOK' /\ DatagramsTrue'
  BY <1>1, <1>4, <1>6, ChannelsOK
<1>8. TypeOK'
  <2>1. tries' \in 0..MaxRetries
    BY <1>1, Ranges DEF Inv, TypeOK, SenderTypeOK
  <2> QED
    BY <1>1, <1>7, <2>1
       DEF Inv, TypeOK, ReceiverTypeOK, SenderTypeOK, receiverVars, windowVars
<1> QED
  BY <1>1, <1>2, <1>3, <1>7, <1>8
     DEF Inv, NothingMissing, PhaseOK, receiverVars, windowVars

LEMMA FinReceiveInv == ASSUME Inv, FinReceive, UNCHANGED windowVars PROVE Inv'
<1>1. PICK i \in Deliverable(toSender) :
        /\ toSender' = RemoveAt(toSender, i)
        /\ pc' = IF toSender[i].kind = "FINACK" THEN "done" ELSE "fin"
  BY DEF FinReceive
<1>2. /\ pc = "finwait"
      /\ UNCHANGED <<receiverVars, windowVars, toReceiver, lost, stalls, resent, tries>>
  BY DEF FinReceive
<1>3. /\ Brackets' /\ AcksTrue' /\ TimersRun' /\ BufferWithinWindow'
      /\ delivered' = expected'
      /\ \A n \in Nat : Has(n) => Has(n)'
  BY <1>2, WindowsStay DEF receiverVars
<1>4. toReceiver \in Seq(TrueData') /\ toSender \in Seq(TrueAnswers')
  BY <1>2, <1>3, Ranges, StaysTrue DEF receiverVars, windowVars
<1>5. toSender[i] \in TrueAnswers /\ toSender' \in Seq(TrueAnswers')
  BY <1>1, <1>4, Ranges, Received
<1>6. pc' = "done" => rpc' # "serving"
  BY <1>1, <1>2, <1>5 DEF TrueAnswers, Answered, receiverVars
<1>7. ChannelTypeOK' /\ DatagramsTrue'
  BY <1>2, <1>4, <1>5, Ranges, ChannelsOK
<1>8. TypeOK'
  BY <1>1, <1>2, <1>7
     DEF Inv, TypeOK, ReceiverTypeOK, SenderTypeOK, receiverVars, windowVars
<1> QED
  BY <1>1, <1>2, <1>3, <1>6, <1>7, <1>8
     DEF Inv, NothingMissing, PhaseOK, receiverVars, windowVars

LEMMA FinTimeoutInv == ASSUME Inv, FinTimeout, UNCHANGED windowVars PROVE Inv'
<1>1. /\ pc = "finwait" /\ pc' = "fin"
      /\ ticks' = IF rpc = "lingering" /\ ticks < LingerRtos THEN ticks + 1 ELSE ticks
      /\ UNCHANGED <<rpc, expected, delivered, buffer, maxBuffered, announced>>
      /\ UNCHANGED <<channelVars, windowVars, stalls, resent, tries>>
  BY DEF FinTimeout
<1>2. /\ Brackets' /\ AcksTrue' /\ TimersRun' /\ BufferWithinWindow'
      /\ delivered' = expected'
      /\ \A n \in Nat : Has(n) => Has(n)'
  BY <1>1, WindowsStay
<1>3. ChannelTypeOK' /\ DatagramsTrue'
  BY <1>1, <1>2, Ranges, StaysTrue, ChannelsOK DEF channelVars, windowVars
<1>4. TypeOK'
  <2>1. ticks' \in 0..LingerRtos
    BY <1>1, ReceiverAssumption DEF ReceiverAssumption, Inv, TypeOK, ReceiverTypeOK
  <2> QED
    BY <1>1, <1>3, <2>1 DEF Inv, TypeOK, ReceiverTypeOK, SenderTypeOK, windowVars
<1> QED
  BY <1>1, <1>2, <1>3, <1>4 DEF Inv, NothingMissing, PhaseOK, windowVars

LEMMA FinGiveUpInv == ASSUME Inv, FinGiveUp, UNCHANGED windowVars PROVE Inv'
<1>1. /\ pc' = "failed"
      /\ UNCHANGED <<channelVars, receiverVars, windowVars, stalls, resent, tries>>
  BY DEF FinGiveUp
<1>2. /\ Brackets' /\ AcksTrue' /\ TimersRun' /\ BufferWithinWindow'
      /\ delivered' = expected'
      /\ \A n \in Nat : Has(n) => Has(n)'
  BY <1>1, WindowsStay DEF receiverVars
<1>3. ChannelTypeOK' /\ DatagramsTrue'
  BY <1>1, <1>2, Ranges, StaysTrue, ChannelsOK DEF channelVars, receiverVars, windowVars
<1>4. TypeOK'
  BY <1>1, <1>3 DEF Inv, TypeOK, ReceiverTypeOK, SenderTypeOK, receiverVars, windowVars
<1> QED
  BY <1>1, <1>2, <1>3, <1>4 DEF Inv, NothingMissing, PhaseOK, receiverVars
-----------------------------------------------------------------------------
(* The receiver. *)

(***************************************************************************)
(* SelectiveRepeatReceiver._on_data: what came is kept, the run it         *)
(* completes is handed over, and no packet is forgotten.                   *)
(***************************************************************************)
LEMMA OnDataKeeps ==
  ASSUME Inv, NEW seq \in Nat, seq < nextseq, OnDataBuffering(seq)
  PROVE  /\ expected' \in Nat /\ expected <= expected' /\ expected' <= nextseq
         /\ delivered' = expected'
         /\ buffer' \in SUBSET Nat
         /\ \A n \in buffer' : expected' < n /\ n < nextseq
         /\ \A n \in Nat : Has(n) => Has(n)'
         /\ Has(seq)'
         /\ maxBuffered' \in Nat /\ maxBuffered' <= Window
<1> DEFINE held == IF seq >= expected THEN buffer \cup {seq} ELSE buffer
<1>1. PICK end \in expected..Count :
        /\ expected..(end - 1) \subseteq held
        /\ end \notin held
        /\ expected' = end
        /\ delivered' = delivered + (end - expected)
        /\ buffer' = held \ (expected..(end - 1))
  BY DEF OnDataBuffering
<1>2. maxBuffered' = Max({maxBuffered, Cardinality(held)})
  BY DEF OnDataBuffering
<1>3. /\ expected \in Nat /\ end \in Nat /\ nextseq \in Nat /\ Count \in Nat
      /\ base \in Nat /\ Window \in Nat
      /\ expected <= end /\ expected <= nextseq
      /\ base <= expected /\ nextseq <= base + Window
  BY Ranges
<1>4. held \in SUBSET Nat /\ \A n \in held : expected <= n /\ n < nextseq
  BY Ranges
<1>5. buffer \subseteq held /\ (seq >= expected => seq \in held)
  OBVIOUS
<1> HIDE DEF held
<1>6. end <= nextseq
  <2>1. CASE end = expected
    BY <1>3, <2>1
  <2>2. CASE end # expected
    <3>1. end - 1 \in expected..(end - 1)
      BY <1>3, <2>2
    <3>2. end - 1 < nextseq
      BY <1>1, <1>4, <3>1
    <3> QED
      BY <1>3, <3>2
  <2> QED
    BY <2>1, <2>2
<1>7. delivered' = end
  <2>1. delivered = expected
    BY DEF Inv
  <2> QED
    BY <1>1, <1>3, <2>1
<1>8. ASSUME NEW n \in buffer'
      PROVE  n \in Nat /\ end < n /\ n < nextseq
  <2>1. n \in held /\ n \notin expected..(end - 1) /\ n # end
    BY <1>1
  <2>2. n \in Nat /\ expected <= n /\ n < nextseq
    BY <1>4, <2>1
  <2> QED
    BY <1>3, <2>1, <2>2
<1>9. \A n \in held : n < end \/ n \in buffer'
  BY <1>1, <1>3, <1>4
<1>10. ASSUME NEW n \in Nat, n < expected \/ n \in held
       PROVE  Has(n)'
  BY <1>1, <1>3, <1>9, <1>10 DEF Has
<1>11. Cardinality(held) \in Nat /\ Cardinality(held) <= Window
  <2> DEFINE span == expected..(nextseq - 1)
  <2>1. held \subseteq span
    BY <1>3, <1>4
  <2>2. IsFiniteSet(span) /\ Cardinality(span) <= Window
    <3>1. /\ IsFiniteSet(span)
          /\ Cardinality(span) = IF expected > nextseq - 1
                                 THEN 0 ELSE (nextseq - 1) - expected + 1
      BY <1>3, FS_Interval
    <3> HIDE DEF span
    <3> QED
      BY <1>3, <3>1
  <2> HIDE DEF span
  <2>3. /\ IsFiniteSet(held) /\ Cardinality(held) <= Cardinality(span)
        /\ Cardinality(held) \in Nat /\ Cardinality(span) \in Nat
    BY <2>1, <2>2, FS_Subset, FS_CardinalityType
  <2> QED
    BY <1>3, <2>2, <2>3
<1>12. maxBuffered' \in Nat /\ maxBuffered' <= Window
  <2>1. maxBuffered \in Nat /\ maxBuffered <= Window
    BY DEF Inv, TypeOK, ReceiverTypeOK, BufferWithinWindow
  <2> QED
    BY <1>2, <1>11, <2>1, MaxOfTwo
<1>13. Has(seq)'
  BY <1>3, <1>5, <1>10
<1>14. \A n \in Nat : Has(n) => Has(n)'
  BY <1>5, <1>10 DEF Has
<1> QED
  BY <1>1, <1>3, <1>6, <1>7, <1>8, <1>12, <1>13, <1>14

LEMMA ServeDataInv ==
  ASSUME Mode = "sr", Inv, ServeData, UNCHANGED <<senderVars, windowVars>>
  PROVE  Inv'
<1>1. PICK i \in Deliverable(toReceiver) :
        /\ toReceiver[i].kind = "DATA"
        /\ toReceiver' = RemoveAt(toReceiver, i)
        /\ OnDataBuffering(toReceiver[i].number)
  BY DEF ServeData, OnData
<1>2. /\ rpc = "serving"
      /\ UNCHANGED <<rpc, announced, ticks, senderVars, windowVars>>
  BY DEF ServeData
<1>3. toReceiver[i] \in TrueData
  BY Ranges, Received
<1>4. PICK seq \in 0..Count :
        /\ seq = toReceiver[i].number /\ seq < nextseq
        /\ OnDataBuffering(seq)
  BY <1>1, <1>3 DEF TrueData, Sent, Message
<1>5. seq \in Nat
  OBVIOUS
<1>6. /\ expected' \in Nat /\ expected <= expected' /\ expected' <= nextseq
      /\ delivered' = expected'
      /\ buffer' \in SUBSET Nat
      /\ \A n \in buffer' : expected' < n /\ n < nextseq
      /\ \A n \in Nat : Has(n) => Has(n)'
      /\ Has(seq)'
      /\ maxBuffered' \in Nat /\ maxBuffered' <= Window
  BY <1>4, <1>5, OnDataKeeps
<1>7. toReceiver \in Seq(TrueData') /\ toSender \in Seq(TrueAnswers')
  <2>1. expected = Count => expected' = Count
    BY <1>6, Ranges
  <2> QED
    BY <1>2, <1>6, <2>1, Ranges, StaysTrue DEF windowVars
<1>8. toReceiver' \in Seq(TrueData')
  BY <1>1, <1>7, Received
<1>9. Packet("SACK", seq) \in TrueAnswers'
  BY <1>6, PacketIsMessage DEF TrueAnswers, Answered
<1>10. toSender' \in Seq(TrueAnswers') /\ lost' \in 0..MaxLoss
  BY <1>4, <1>7, <1>9, Ranges, TransmitToSender DEF OnDataBuffering
<1>11. ChannelTypeOK' /\ DatagramsTrue'
  BY <1>8, <1>10, ChannelsOK
<1>12. Brackets'
  BY <1>2, <1>6, Ranges DEF Brackets, windowVars
<1>13. AcksTrue'
  <2>1. \A n \in acked : n \in Nat /\ Has(n)
    BY Ranges DEF Inv, AcksTrue
  <2> QED
    BY <1>2, <1>6, <2>1 DEF Inv, AcksTrue, windowVars
<1>14. TimersRun'
  BY <1>2 DEF Inv, TimersRun, windowVars
<1>15. TypeOK'
  <2>1. expected' \in 0..Count /\ buffer' \in SUBSET (0..Count)
    BY <1>6, Ranges
  <2>2. ReceiverTypeOK'
    BY <1>2, <1>6, <2>1 DEF Inv, TypeOK, ReceiverTypeOK
  <2> QED
    BY <1>2, <1>11, <2>2 DEF Inv, TypeOK, SenderTypeOK, senderVars, windowVars
<1>16. NothingMissing' /\ PhaseOK' /\ BufferWithinWindow'
  BY <1>2, <1>6
     DEF Inv, NothingMissing, PhaseOK, BufferWithinWindow, senderVars, windowVars
<1> QED
  BY <1>6, <1>11, <1>12, <1>13, <1>14, <1>15, <1>16 DEF Inv

LEMMA ServeFinInv ==
  ASSUME Inv, ServeFin, UNCHANGED <<senderVars, windowVars>>
  PROVE  Inv'
<1>1. PICK i \in Deliverable(toReceiver) :
        /\ toReceiver[i].kind = "FIN"
        /\ toReceiver' = RemoveAt(toReceiver, i)
        /\ announced' = toReceiver[i].number
  BY DEF ServeFin
<1>2. /\ rpc = "serving" /\ rpc' = "lingering"
      /\ Transmit(toSender, Packet("FINACK", expected))
      /\ UNCHANGED <<expected, delivered, buffer, maxBuffered, ticks, senderVars, windowVars>>
  BY DEF ServeFin
<1>3. toReceiver[i] \in TrueData
  BY Ranges, Received
<1>4. expected = Count /\ announced' = Count
  BY <1>1, <1>3 DEF TrueData, Sent
<1>5. /\ Brackets' /\ AcksTrue' /\ TimersRun' /\ BufferWithinWindow'
      /\ delivered' = expected'
      /\ \A n \in Nat : Has(n) => Has(n)'
  BY <1>2, WindowsStay
<1>6. toReceiver \in Seq(TrueData') /\ toSender \in Seq(TrueAnswers')
  BY <1>2, <1>5, Ranges, StaysTrue DEF windowVars
<1>7. toReceiver' \in Seq(TrueData')
  BY <1>1, <1>6, Received
<1>8. Packet("FINACK", expected) \in TrueAnswers'
  <2>1. expected \in 0..Count
    BY Ranges
  <2> QED
    BY <1>2, <2>1, PacketIsMessage DEF TrueAnswers, Answered
<1>9. toSender' \in Seq(TrueAnswers') /\ lost' \in 0..MaxLoss
  BY <1>2, <1>6, <1>8, Ranges, TransmitToSender
<1>10. ChannelTypeOK' /\ DatagramsTrue'
  BY <1>7, <1>9, ChannelsOK
<1>11. TypeOK'
  <2>1. announced' \in 0..Count
    BY <1>4, Ranges
  <2> QED
    BY <1>2, <1>10, <2>1
       DEF Inv, TypeOK, ReceiverTypeOK, SenderTypeOK, senderVars, windowVars
<1> QED
  BY <1>2, <1>4, <1>5, <1>10, <1>11
     DEF Inv, NothingMissing, PhaseOK, senderVars, windowVars

LEMMA LingerInv ==
  ASSUME Inv, LingerFin \/ LingerIgnore, UNCHANGED <<senderVars, windowVars>>
  PROVE  Inv'
<1>1. PICK i \in Deliverable(toReceiver) : toReceiver' = RemoveAt(toReceiver, i)
  BY DEF LingerFin, LingerIgnore
<1>2. /\ rpc = "lingering"
      /\ UNCHANGED <<receiverVars, senderVars, windowVars>>
  BY DEF LingerFin, LingerIgnore
<1>3. /\ Brackets' /\ AcksTrue' /\ TimersRun' /\ BufferWithinWindow'
      /\ delivered' = expected'
      /\ \A n \in Nat : Has(n) => Has(n)'
  BY <1>2, WindowsStay DEF receiverVars
<1>4. toReceiver \in Seq(TrueData') /\ toSender \in Seq(TrueAnswers')
  BY <1>2, <1>3, Ranges, StaysTrue DEF receiverVars, windowVars
<1>5. toReceiver' \in Seq(TrueData')
  BY <1>1, <1>4, Received
<1>6. Packet("FINACK", expected) \in TrueAnswers'
  <2>1. expected \in 0..Count
    BY Ranges
  <2> QED
    BY <1>2, <2>1, PacketIsMessage DEF TrueAnswers, Answered, receiverVars
<1>7. toSender' \in Seq(TrueAnswers') /\ lost' \in 0..MaxLoss
  <2>1. CASE LingerFin
    BY <1>4, <1>6, <2>1, Ranges, TransmitToSender DEF LingerFin
  <2>2. CASE LingerIgnore
    BY <1>4, <2>2, Ranges DEF LingerIgnore
  <2> QED
    BY <2>1, <2>2
<1>8. ChannelTypeOK' /\ DatagramsTrue'
  BY <1>5, <1>7, ChannelsOK
<1>9. TypeOK'
  BY <1>2, <1>8
     DEF Inv, TypeOK, ReceiverTypeOK, SenderTypeOK, receiverVars, senderVars, windowVars
<1> QED
  BY <1>2, <1>3, <1>8, <1>9
     DEF Inv, NothingMissing, PhaseOK, receiverVars, senderVars, windowVars

LEMMA LingerEndInv ==
  ASSUME Inv, LingerEnd(LingerQuiet), UNCHANGED <<senderVars, windowVars>>
  PROVE  Inv'
<1>1. /\ rpc = "lingering" /\ rpc' = "returned"
      /\ UNCHANGED <<expected, delivered, buffer, maxBuffered, announced, ticks>>
      /\ UNCHANGED <<channelVars, senderVars, windowVars>>
  BY DEF LingerEnd
<1>2. /\ Brackets' /\ AcksTrue' /\ TimersRun' /\ BufferWithinWindow'
      /\ delivered' = expected'
      /\ \A n \in Nat : Has(n) => Has(n)'
  BY <1>1, WindowsStay
<1>3. ChannelTypeOK' /\ DatagramsTrue'
  BY <1>1, <1>2, Ranges, StaysTrue, ChannelsOK DEF channelVars, windowVars
<1>4. TypeOK'
  BY <1>1, <1>3
     DEF Inv, TypeOK, ReceiverTypeOK, SenderTypeOK, senderVars, windowVars
<1> QED
  BY <1>1, <1>2, <1>3, <1>4
     DEF Inv, NothingMissing, PhaseOK, senderVars, windowVars

LEMMA NextInv == ASSUME Mode = "sr", Inv, [Next]_vars PROVE Inv'
<1>1. CASE SendNext
  BY <1>1, SendNextInv
<1>2. CASE AwaitSack
  BY <1>2, AwaitSackInv
<1>3. CASE Timeout
  BY <1>3, TimeoutInv
<1>4. CASE Finish /\ UNCHANGED windowVars
  BY <1>4, FinSendInv, FinReceiveInv, FinTimeoutInv, FinGiveUpInv DEF Finish
<1>5. CASE ReceiverStep
  BY <1>5, ServeDataInv, ServeFinInv, LingerInv, LingerEndInv
     DEF ReceiverStep, ReceiverNext
<1>6. CASE UNCHANGED vars
  BY <1>6
     DEF vars, channelVars, receiverVars, senderVars, windowVars, Inv, TypeOK,
         ChannelTypeOK, ReceiverTypeOK, SenderTypeOK, DatagramsTrue, TrueData,
         TrueAnswers, Sent, Answered, Has, Brackets, AcksTrue, TimersRun,
         NothingMissing, PhaseOK, BufferWithinWindow
<1> QED
  BY <1>1, <1>2, <1>3, <1>4, <1>5, <1>6 DEF Next, SenderNext
-----------------------------------------------------------------------------
(***************************************************************************)
(* selective_repeat, paired with SelectiveRepeatReceiver: what the sender  *)
(* believes of each packet is true and base is the oldest that it does not *)
(* hold acknowledged, it never waits with nothing outstanding, the         *)
(* receiver's buffer never outgrows the window, and nothing is missing     *)
(* when the end of the transfer is seen or reported.                       *)
(***************************************************************************)
THEOREM Safety ==
  ASSUME Mode = "sr"
  PROVE  Spec => [](TypeOK /\ WindowBrackets /\ BufferWithinWindow /\ NothingMissing)
<1>1. Init => Inv
  BY InitInv
<1>2. Inv /\ [Next]_vars => Inv'
  BY NextInv
<1>3. Inv => TypeOK /\ WindowBrackets /\ BufferWithinWindow /\ NothingMissing
  <2> SUFFICES ASSUME Inv PROVE WindowBrackets
    BY DEF Inv
  <2>1. acked \subseteq (0..(expected - 1)) \cup buffer
    BY Ranges DEF Inv, AcksTrue, Has
  <2>2. buffer \subseteq (expected + 1)..(nextseq - 1)
    BY Ranges
  <2>3. 0..(base - 1) \subseteq acked /\ base \notin acked
    BY Ranges DEF Inv, AcksTrue
  <2> QED
    BY <2>1, <2>2, <2>3, Ranges, NeverIdle DEF WindowBrackets
<1> QED
  BY <1>1, <1>2, <1>3, PTL DEF Spec

(***************************************************************************)
(* Every step of the protocol is one of ReliableTransfer's steps, or       *)
(* changes nothing that it speaks of.                                      *)
(***************************************************************************)
LEMMA SenderStepRefines ==
  ASSUME Inv, Inv', SenderNext
  PROVE  [Transfer!Next]_(Transfer!vars)
<1> USE DEF Transfer!vars, Outcome, SenderOver
<1>1. CASE SendNext
  BY <1>1 DEF SendNext, receiverVars, senderVars
<1>2. CASE AwaitSack
  BY <1>2 DEF AwaitSack, receiverVars
<1>3. CASE Timeout
  BY <1>3 DEF Timeout, receiverVars, Transfer!Next, Transfer!GiveUp
<1>4. CASE FinSend
  BY <1>4 DEF FinSend, receiverVars
<1>5. CASE FinReceive
  BY <1>5 DEF FinReceive, receiverVars, Inv, NothingMissing, Transfer!Next, Transfer!Complete
<1>6. CASE FinTimeout
  BY <1>6 DEF FinTimeout
<1>7. CASE FinGiveUp
  BY <1>7 DEF FinGiveUp, receiverVars, Transfer!Next, Transfer!GiveUp
<1> QED
  BY <1>1, <1>2, <1>3, <1>4, <1>5, <1>6, <1>7 DEF SenderNext, Finish

LEMMA ReceiverStepRefines ==
  ASSUME Mode = "sr", Inv, Inv', ReceiverStep
  PROVE  [Transfer!Next]_(Transfer!vars)
<1> USE DEF Transfer!vars, Outcome, SenderOver
<1>1. Outcome' = Outcome
  BY DEF ReceiverStep, ReceiverNext, senderVars
<1>2. CASE ServeData
  <2>1. PICK seq : OnDataBuffering(seq)
    BY <1>2 DEF ServeData, OnData
  <2>2. PICK end \in expected..Count : delivered' = delivered + (end - expected)
    BY <2>1 DEF OnDataBuffering
  <2>3. delivered \in Nat /\ delivered = expected /\ Count \in Nat
    BY Ranges DEF Inv
  <2>4. delivered' = delivered \/ delivered' \in (delivered + 1)..Count
    BY <2>2, <2>3
  <2>5. rpc = "serving" /\ rpc' = rpc
    BY <1>2 DEF ServeData
  <2> QED
    BY <1>1, <2>4, <2>5 DEF Transfer!Next, Transfer!Deliver
<1>3. CASE ServeFin
  <2>1. /\ rpc = "serving" /\ rpc' # "serving"
        /\ delivered' = delivered /\ delivered' = Count
    BY <1>3 DEF ServeFin, Inv, NothingMissing
  <2> QED
    BY <1>1, <2>1 DEF Transfer!Next, Transfer!End
<1>4. CASE LingerFin \/ LingerIgnore
  BY <1>1, <1>4 DEF LingerFin, LingerIgnore, receiverVars
<1>5. CASE LingerEnd(LingerQuiet)
  BY <1>1, <1>5 DEF LingerEnd
<1> QED
  BY <1>2, <1>3, <1>4, <1>5 DEF ReceiverStep, ReceiverNext

(***************************************************************************)
(* selective_repeat with SelectiveRepeatReceiver implements the reliable   *)
(* transfer: in order, nothing missing at the end, success only after it.  *)
(***************************************************************************)
THEOREM Reliable ==
  ASSUME Mode = "sr"
  PROVE  Spec => ImplementsTransfer
<1>1. Init => Transfer!Init
  BY DEF Init, ReceiverInit, SenderInit, Transfer!Init, Outcome, SenderOver
<1>2. Inv /\ Inv' /\ [Next]_vars => [Transfer!Next]_(Transfer!vars)
  <2> SUFFICES ASSUME Inv, Inv', [Next]_vars
               PROVE  [Transfer!Next]_(Transfer!vars)
    OBVIOUS
  <2>1. CASE Next
    BY <2>1, SenderStepRefines, ReceiverStepRefines DEF Next
  <2>2. CASE UNCHANGED vars
    BY <2>2 DEF vars, receiverVars, senderVars, Transfer!vars, Outcome, SenderOver
  <2> QED
    BY <2>1, <2>2
<1>3. Init => Inv
  BY InitInv
<1>4. Inv /\ [Next]_vars => Inv'
  BY NextInv
<1> QED
  BY <1>1, <1>2, <1>3, <1>4, PTL DEF Spec, ImplementsTransfer, Transfer!Spec

-----------------------------------------------------------------------------
(* Sequences that hold nothing twice. *)

Once(s) == \A i, j \in 1..Len(s) : s[i] = s[j] => i = j

(* One more item, not in the sequence yet. *)
LEMMA JoinOnce ==
  ASSUME NEW S, NEW s \in Seq(S), NEW m \in S
  PROVE  /\ ToSet(Append(s, m)) = ToSet(s) \cup {m}
         /\ Once(s) /\ m \notin ToSet(s) => Once(Append(s, m))
<1> DEFINE t == Append(s, m)
<1>1. /\ t \in Seq(S) /\ Len(s) \in Nat /\ Len(t) = Len(s) + 1
      /\ \A i \in 1..Len(s) : t[i] = s[i]
      /\ t[Len(s) + 1] = m
  BY AppendProperties, LenProperties
<1>2. DOMAIN s = 1..Len(s) /\ DOMAIN t = 1..Len(t)
  BY <1>1, LenProperties
<1> HIDE DEF t
<1>3. /\ \A i \in 1..Len(t) : i \in 1..Len(s) \/ i = Len(s) + 1
      /\ \A i \in 1..Len(s) : i \in 1..Len(t)
      /\ Len(s) + 1 \in 1..Len(t)
  BY <1>1
<1>4. ToSet(t) = ToSet(s) \cup {m}
  <2>1. ToSet(t) \subseteq ToSet(s) \cup {m}
    BY <1>1, <1>2, <1>3 DEF ToSet
  <2>2. ToSet(s) \cup {m} \subseteq ToSet(t)
    BY <1>1, <1>2, <1>3 DEF ToSet
  <2> QED
    BY <2>1, <2>2
<1>5. ASSUME Once(s), m \notin ToSet(s)
      PROVE  Once(t)
  <2>1. \A i \in 1..Len(s) : s[i] # m
    BY <1>2, <1>5 DEF ToSet
  <2> QED
    BY <1>1, <1>3, <1>5, <2>1 DEF Once
<1> QED
  BY <1>4, <1>5 DEF t

(* An item taken out takes its value with it. *)
LEMMA RemoveAtItems ==
  ASSUME NEW S, NEW s \in Seq(S), NEW k \in 1..Len(s)
  PROVE  /\ RemoveAt(s, k) \in Seq(S)
         /\ Len(RemoveAt(s, k)) = Len(s) - 1
         /\ \A j \in 1..(Len(s) - 1) : RemoveAt(s, k)[j] = IF j < k THEN s[j] ELSE s[j + 1]
<1> DEFINE left == SubSeq(s, 1, k - 1)
           right == SubSeq(s, k + 1, Len(s))
<1>1. Len(s) \in Nat /\ \A j \in 1..Len(s) : s[j] \in S
  BY LenProperties, ElementOfSeq
<1>2. /\ left \in Seq(S) /\ Len(left) = k - 1
      /\ \A j \in 1..(k - 1) : left[j] = s[j]
  BY <1>1, SubSeqProperties
<1>3. /\ right \in Seq(S) /\ Len(right) = Len(s) - k
      /\ \A j \in 1..(Len(s) - k) : right[j] = s[k + j]
  BY <1>1, SubSeqProperties
<1> HIDE DEF left, right
<1>4. /\ left \o right \in Seq(S)
      /\ Len(left \o right) = Len(left) + Len(right)
      /\ \A j \in 1..(Len(left) + Len(right)) :
           (left \o right)[j] = IF j <= Len(left) THEN left[j] ELSE right[j - Len(left)]
  BY <1>2, <1>3, ConcatProperties
<1>5. Len(left) + Len(right) = Len(s) - 1
  BY <1>1, <1>2, <1>3
<1>6. ASSUME NEW j \in 1..(Len(s) - 1)
      PROVE  (left \o right)[j] = IF j < k THEN s[j] ELSE s[j + 1]
  <2>1. CASE j < k
    <3>1. j <= Len(left) /\ j \in 1..(k - 1)
      BY <1>2, <2>1
    <3> QED
      BY <1>2, <1>4, <1>5, <2>1, <3>1
  <2>2. CASE ~(j < k)
    <3>1. /\ ~(j <= Len(left))
          /\ j - Len(left) \in 1..(Len(s) - k) /\ k + (j - Len(left)) = j + 1
      BY <1>1, <1>2, <2>2
    <3> QED
      BY <1>3, <1>4, <1>5, <2>2, <3>1
  <2> QED
    BY <2>1, <2>2
<1> QED
  BY <1>4, <1>5, <1>6 DEF RemoveAt, left, right

LEMMA LeaveOnce ==
  ASSUME NEW S, NEW s \in Seq(S), NEW k \in DOMAIN s, Once(s)
  PROVE  /\ RemoveAt(s, k) \in Seq(S)
         /\ Once(RemoveAt(s, k))
         /\ ToSet(RemoveAt(s, k)) = ToSet(s) \ {s[k]}
<1> DEFINE t == RemoveAt(s, k)
<1>1. Len(s) \in Nat /\ DOMAIN s = 1..Len(s) /\ k \in 1..Len(s)
  BY LenProperties
<1>2. /\ t \in Seq(S) /\ Len(t) = Len(s) - 1
      /\ \A j \in 1..(Len(s) - 1) : t[j] = IF j < k THEN s[j] ELSE s[j + 1]
  BY <1>1, RemoveAtItems
<1>3. DOMAIN t = 1..(Len(s) - 1)
  BY <1>2, LenProperties
<1> HIDE DEF t
<1> DEFINE from(j) == IF j < k THEN j ELSE j + 1
<1>4. \A j \in 1..(Len(s) - 1) : from(j) \in 1..Len(s) /\ from(j) # k /\ t[j] = s[from(j)]
  BY <1>1, <1>2
<1>5. \A i, j \in 1..(Len(s) - 1) : from(i) = from(j) => i = j
  BY <1>1
<1>6. \A i \in 1..Len(s) : i # k => \E j \in 1..(Len(s) - 1) : from(j) = i
  <2> SUFFICES ASSUME NEW i \in 1..Len(s), i # k
               PROVE  \E j \in 1..(Len(s) - 1) : from(j) = i
    OBVIOUS
  <2>1. CASE i < k
    <3>1. i \in 1..(Len(s) - 1) /\ from(i) = i
      BY <1>1, <2>1
    <3> QED
      BY <3>1
  <2>2. CASE i > k
    <3>1. i - 1 \in 1..(Len(s) - 1) /\ from(i - 1) = i
      BY <1>1, <2>2
    <3> QED
      BY <3>1
  <2> QED
    BY <1>1, <2>1, <2>2
<1> HIDE DEF from
<1>7. Once(t)
  BY <1>2, <1>4, <1>5 DEF Once
<1>8. ToSet(t) \subseteq ToSet(s) \ {s[k]}
  <2> SUFFICES ASSUME NEW j \in 1..(Len(s) - 1)
               PROVE  t[j] \in ToSet(s) /\ t[j] # s[k]
    BY <1>3 DEF ToSet
  <2> QED
    BY <1>1, <1>4 DEF Once, ToSet
<1>9. ToSet(s) \ {s[k]} \subseteq ToSet(t)
  <2> SUFFICES ASSUME NEW i \in 1..Len(s), s[i] # s[k]
               PROVE  s[i] \in ToSet(t)
    BY <1>1 DEF ToSet
  <2>1. PICK j \in 1..(Len(s) - 1) : from(j) = i
    BY <1>6
  <2> QED
    BY <1>3, <1>4, <2>1 DEF ToSet
<1> QED
  BY <1>2, <1>7, <1>8, <1>9 DEF t

(* The item that waited longest goes to the end. *)
LEMMA RotateOnce ==
  ASSUME NEW S, NEW s \in Seq(S), s # <<>>, Once(s)
  PROVE  /\ Head(s) \in ToSet(s)
         /\ Once(Append(Tail(s), Head(s)))
         /\ ToSet(Append(Tail(s), Head(s))) = ToSet(s)
<1>1. /\ Len(s) \in Nat \ {0} /\ DOMAIN s = 1..Len(s) /\ 1 \in 1..Len(s)
      /\ Head(s) = s[1] /\ s[1] \in S
  BY LenProperties, EmptySeq, HeadTailProperties, ElementOfSeq
<1>2. /\ Tail(s) \in Seq(S) /\ Len(Tail(s)) = Len(s) - 1
      /\ \A i \in 1..(Len(s) - 1) : Tail(s)[i] = s[i + 1]
  BY <1>1, HeadTailProperties
<1>3. /\ \A i \in 1..(Len(s) - 1) : i + 1 \in 1..Len(s) /\ i + 1 # 1
      /\ \A i, j \in 1..(Len(s) - 1) : i + 1 = j + 1 => i = j
      /\ \A i \in 1..Len(s) :
           i = 1 \/ (i - 1 \in 1..(Len(s) - 1) /\ (i - 1) + 1 = i)
  BY <1>1
<1>4. Once(Tail(s)) /\ \A i \in 1..(Len(s) - 1) : Tail(s)[i] # s[1]
  BY <1>1, <1>2, <1>3 DEF Once
<1>5. DOMAIN Tail(s) = 1..(Len(s) - 1)
  BY <1>2, LenProperties
<1>6. ToSet(Tail(s)) \cup {s[1]} = ToSet(s) /\ s[1] \notin ToSet(Tail(s))
  <2>1. ToSet(Tail(s)) \cup {s[1]} \subseteq ToSet(s)
    BY <1>1, <1>2, <1>3, <1>5 DEF ToSet
  <2>2. ASSUME NEW i \in 1..Len(s)
        PROVE  s[i] \in ToSet(Tail(s)) \cup {s[1]}
    <3>1. CASE i = 1
      BY <3>1
    <3>2. CASE i - 1 \in 1..(Len(s) - 1) /\ (i - 1) + 1 = i
      <4>1. Tail(s)[i - 1] = s[i] /\ i - 1 \in DOMAIN Tail(s)
        BY <1>2, <1>5, <3>2
      <4> QED
        BY <4>1 DEF ToSet
    <3> QED
      BY <1>3, <3>1, <3>2
  <2>3. ToSet(s) \subseteq ToSet(Tail(s)) \cup {s[1]}
    BY <1>1, <2>2 DEF ToSet
  <2>4. s[1] \notin ToSet(Tail(s))
    BY <1>4, <1>5 DEF ToSet
  <2> QED
    BY <2>1, <2>3, <2>4
<1>7. /\ ToSet(Append(Tail(s), s[1])) = ToSet(Tail(s)) \cup {s[1]}
      /\ Once(Append(Tail(s), s[1]))
  <2> DEFINE rest == Tail(s)
  <2>1. rest \in Seq(S) /\ s[1] \in S /\ Once(rest) /\ s[1] \notin ToSet(rest)
    BY <1>1, <1>2, <1>4, <1>6
  <2> HIDE DEF rest
  <2>2. ToSet(Append(rest, s[1])) = ToSet(rest) \cup {s[1]} /\ Once(Append(rest, s[1]))
    BY <2>1, JoinOnce
  <2> QED
    BY <2>2 DEF rest
<1>8. Head(s) \in ToSet(s)
  BY <1>1 DEF ToSet
<1> QED
  BY <1>1, <1>6, <1>7, <1>8

(* The first, and only, place of an item. *)
LEMMA RemoveFirstOnce ==
  ASSUME NEW S, NEW s \in Seq(S), Once(s), NEW e \in ToSet(s)
  PROVE  /\ Once(RemoveFirst(s, e))
         /\ ToSet(RemoveFirst(s, e)) = ToSet(s) \ {e}
<1>1. Len(s) \in Nat /\ DOMAIN s = 1..Len(s)
  BY LenProperties
<1> DEFINE places == {i \in 1..Len(s) : s[i] = e}
<1>2. places \in SUBSET Nat /\ places # {}
  BY <1>1 DEF ToSet
<1>3. RemoveFirst(s, e) = RemoveAt(s, Min(places))
  BY <1>2 DEF RemoveFirst, SelectInSeq
<1>4. Min(places) \in places
  <2> HIDE DEF places
  <2> QED
    BY <1>2, MinIsLeast
<1>5. PICK k \in DOMAIN s : k = Min(places) /\ s[k] = e
  BY <1>1, <1>4
<1> HIDE DEF places
<1> QED
  BY <1>3, <1>5, LeaveOnce

(* Packets of one kind, each once, are no more than their numbers. *)
LEMMA AtMostAsMany ==
  ASSUME NEW S, NEW s \in Seq(S), Once(s), NEW kind, NEW T, IsFiniteSet(T),
         ToSet(s) \subseteq {Packet(kind, n) : n \in T}
  PROVE  Len(s) <= Cardinality(T)
<1>1. Len(s) \in Nat /\ DOMAIN s = 1..Len(s)
  BY LenProperties
<1>2. \A i \in 1..Len(s) : s[i].number \in T /\ s[i] = Packet(kind, s[i].number)
  BY <1>1 DEF ToSet, Packet
<1> DEFINE f == [i \in 1..Len(s) |-> s[i].number]
<1>3. f \in [1..Len(s) -> T]
  BY <1>2
<1>4. \A i, j \in 1..Len(s) : f[i] = f[j] => i = j
  <2> SUFFICES ASSUME NEW i \in 1..Len(s), NEW j \in 1..Len(s), s[i].number = s[j].number
               PROVE  i = j
    OBVIOUS
  <2>1. s[i] = s[j]
    BY <1>2
  <2> QED
    BY <2>1 DEF Once
<1> HIDE DEF f
<1>5. f \in Injection(1..Len(s), T)
  BY <1>3, <1>4 DEF Injection, IsInjective
<1>6. Cardinality(1..Len(s)) <= Cardinality(T)
  BY <1>5, FS_Injection
<1>7. Cardinality(1..Len(s)) = Len(s)
  <2>1. Cardinality(1..Len(s)) = IF 1 > Len(s) THEN 0 ELSE Len(s) - 1 + 1
    BY <1>1, FS_Interval
  <2> QED
    BY <1>1, <2>1
<1> QED
  BY <1>6, <1>7

-----------------------------------------------------------------------------
(***************************************************************************)
(* The price of a loss.  While the timer outlasts the round trip, every    *)
(* packet outstanding is on its way once, as a DATA packet or as its       *)
(* answer, or it is Missing: dropped since it went out last.  Only the     *)
(* timer of a missing packet can expire, and so every packet sent again    *)
(* was paid for by the loss that made it missing.                          *)
(***************************************************************************)
Outstanding == {n \in 0..(nextseq - 1) : n \notin acked}

DataOnItsWay(n) == Packet("DATA", n) \in ToSet(toReceiver)
AnswerOnItsWay(n) == Packet("SACK", n) \in ToSet(toSender)

Missing == {n \in Outstanding : ~DataOnItsWay(n) /\ ~AnswerOnItsWay(n)}

Accounted ==
  /\ rpc = "serving"
  /\ Once(toReceiver)
  /\ ToSet(toReceiver) \subseteq {Packet("DATA", n) : n \in Outstanding}
  /\ Once(toSender)
  /\ ToSet(toSender) \subseteq {Packet("SACK", n) : n \in Outstanding}
  /\ \A n \in Outstanding : ~(DataOnItsWay(n) /\ AnswerOnItsWay(n))
  /\ Once(order)
  /\ ToSet(order) = Outstanding
  /\ resent + Cardinality(Missing) <= lost

Flow ==
  /\ resent <= lost
  /\ pc = "window" => Accounted

LEMMA PacketsDiffer ==
  ASSUME NEW kind, NEW n, NEW k
  PROVE  Packet(kind, n) = Packet(kind, k) => n = k
<1>1. Packet(kind, n).number = n /\ Packet(kind, k).number = k
  BY DEF Packet
<1> QED
  BY <1>1

LEMMA Sequences ==
  ASSUME Inv
  PROVE  /\ toReceiver \in Seq(Message) /\ toSender \in Seq(Message)
         /\ order \in Seq(0..Count)
         /\ Len(toReceiver) \in Nat /\ Len(toSender) \in Nat
         /\ resent \in Nat /\ lost \in Nat /\ Capacity \in Nat
<1>1. /\ toReceiver \in Seq(Message) /\ toSender \in Seq(Message)
      /\ order \in Seq(0..Count) /\ resent \in Nat /\ lost \in 0..MaxLoss
  BY DEF Inv, TypeOK, ChannelTypeOK, SenderTypeOK
<1> QED
  BY <1>1, LenProperties, RdtAssumption DEF RdtAssumption

(* No more than a window is outstanding, less while there is room in it. *)
LEMMA WithinWindow ==
  ASSUME Inv
  PROVE  /\ IsFiniteSet(Outstanding) /\ Cardinality(Outstanding) \in Nat
         /\ Cardinality(Outstanding) <= Window
         /\ nextseq < base + Window => Cardinality(Outstanding) < Window
         /\ Outstanding \subseteq 0..Count
<1> DEFINE span == base..(nextseq - 1)
<1>1. Outstanding \subseteq span
  BY Ranges DEF Outstanding, Inv, AcksTrue
<1>2. IsFiniteSet(span) /\ Cardinality(span) <= nextseq - base
  <2>1. /\ IsFiniteSet(span)
        /\ Cardinality(span) = IF base > nextseq - 1 THEN 0 ELSE (nextseq - 1) - base + 1
    <3>1. base \in Int /\ nextseq - 1 \in Int
      BY Ranges
    <3> QED
      BY <3>1, FS_Interval
  <2> HIDE DEF span
  <2> QED
    BY <2>1, Ranges
<1> HIDE DEF span
<1>3. /\ IsFiniteSet(Outstanding) /\ Cardinality(Outstanding) \in Nat
      /\ Cardinality(span) \in Nat
      /\ Cardinality(Outstanding) <= Cardinality(span)
  BY <1>1, <1>2, FS_Subset, FS_CardinalityType
<1>4. Outstanding \subseteq 0..Count
  BY Ranges DEF Outstanding
<1>5. \A o, s \in Nat : \A n, b, w \in Nat :
        o <= s /\ s <= n - b =>
          /\ n <= b + w => o <= w
          /\ n < b + w => o < w
  OBVIOUS
<1>6. nextseq \in Nat /\ base \in Nat /\ Window \in Nat /\ nextseq <= base + Window
  BY Ranges
<1> QED
  BY <1>2, <1>3, <1>4, <1>5, <1>6

LEMMA MissingCounted ==
  ASSUME Inv
  PROVE  IsFiniteSet(Missing) /\ Cardinality(Missing) \in Nat
<1>1. Missing \subseteq Outstanding
  BY DEF Missing
<1> QED
  BY <1>1, WithinWindow, FS_Subset, FS_CardinalityType

(* There is room for a packet of Outstanding that is not in the channel. *)
LEMMA RoomFor ==
  ASSUME Capacity >= Window, Inv, NEW s \in Seq(Message), Once(s), NEW kind,
         NEW n \in Outstanding,
         ToSet(s) \subseteq {Packet(kind, k) : k \in Outstanding},
         Packet(kind, n) \notin ToSet(s)
  PROVE  Len(s) # Capacity
<1> DEFINE others == Outstanding \ {n}
<1>1. ToSet(s) \subseteq {Packet(kind, k) : k \in others}
  OBVIOUS
<1>2. IsFiniteSet(others) /\ Cardinality(others) = Cardinality(Outstanding) - 1
  BY WithinWindow, FS_RemoveElement
<1> HIDE DEF others
<1>3. Len(s) <= Cardinality(others)
  BY <1>1, <1>2, AtMostAsMany
<1>4. Len(s) \in Nat
  BY LenProperties
<1>5. /\ Cardinality(Outstanding) \in Nat /\ Cardinality(Outstanding) <= Window
      /\ Window \in Nat /\ Capacity \in Nat
  BY WithinWindow, Ranges, Sequences
<1> QED
  BY <1>2, <1>3, <1>4, <1>5

(* When the window is done, only losses are counted. *)
LEMMA FlowAfter ==
  ASSUME Inv, Flow, pc' # "window", resent' = resent, lost' = lost \/ lost' = lost + 1
  PROVE  Flow'
  BY Sequences DEF Flow

(* A packet sent is on its way, or missing and paid for. *)
LEMMA OneMoreMissing ==
  ASSUME Inv, NEW T, NEW n, T \subseteq Missing \cup {n}
  PROVE  IsFiniteSet(T) /\ Cardinality(T) \in Nat /\ Cardinality(T) <= Cardinality(Missing) + 1
<1>1. /\ IsFiniteSet(Missing \cup {n})
      /\ Cardinality(Missing \cup {n}) <= Cardinality(Missing) + 1
  <2>1. /\ IsFiniteSet(Missing \cup {n})
        /\ Cardinality(Missing \cup {n}) =
             IF n \in Missing THEN Cardinality(Missing) ELSE Cardinality(Missing) + 1
    BY MissingCounted, FS_AddElement
  <2> QED
    BY <2>1, MissingCounted
<1>2. /\ IsFiniteSet(T) /\ Cardinality(T) <= Cardinality(Missing \cup {n})
      /\ Cardinality(T) \in Nat /\ Cardinality(Missing \cup {n}) \in Nat
  BY <1>1, FS_Subset, FS_CardinalityType
<1> QED
  BY <1>1, <1>2, MissingCounted

LEMMA NoMoreMissing ==
  ASSUME Inv, NEW T, T \subseteq Missing
  PROVE  Cardinality(T) \in Nat /\ Cardinality(T) <= Cardinality(Missing)
  BY MissingCounted, FS_Subset, FS_CardinalityType

LEMMA OneLessMissing ==
  ASSUME Inv, NEW T, NEW n \in Missing, T \subseteq Missing \ {n}
  PROVE  Cardinality(T) \in Nat /\ Cardinality(T) + 1 <= Cardinality(Missing)
<1>1. /\ IsFiniteSet(Missing \ {n})
      /\ Cardinality(Missing \ {n}) = Cardinality(Missing) - 1
  BY MissingCounted, FS_RemoveElement
<1>2. /\ Cardinality(T) <= Cardinality(Missing \ {n})
      /\ Cardinality(T) \in Nat
  BY <1>1, FS_Subset, FS_CardinalityType
<1> QED
  BY <1>1, <1>2, MissingCounted

-----------------------------------------------------------------------------
LEMMA SendNextFlow ==
  ASSUME Capacity >= Window, Inv, Flow, SendNext
  PROVE  Flow'
<1>1. /\ pc = "window" /\ nextseq < Count /\ nextseq < base + Window
      /\ nextseq' = nextseq + 1 /\ order' = Append(order, nextseq)
      /\ Transmit(toReceiver, Packet("DATA", nextseq))
      /\ UNCHANGED <<toSender, acked, rpc, pc, resent>>
  BY DEF SendNext, CanSend, receiverVars, senderVars
<1> DEFINE m == Packet("DATA", nextseq)
<1>2. Accounted
  BY <1>1 DEF Flow
<1>3. nextseq \notin Outstanding /\ Outstanding' = Outstanding \cup {nextseq}
  <2>1. nextseq \notin acked /\ nextseq \in Nat
    BY Ranges
  <2>2. \A n : n \in 0..(nextseq' - 1) <=> n \in 0..(nextseq - 1) \/ n = nextseq
    BY <1>1, <2>1
  <2> QED
    BY <1>1, <2>1, <2>2 DEF Outstanding
<1>4. m \in Message /\ nextseq \in 0..Count
  <2>1. nextseq \in 0..Count
    BY <1>1, Ranges
  <2> QED
    BY <2>1, PacketIsMessage
<1>5. m \notin ToSet(toReceiver) /\ Packet("SACK", nextseq) \notin ToSet(toSender)
  BY <1>2, <1>3, PacketsDiffer DEF Accounted
<1>6. Len(toReceiver) # Capacity
  <2>1. /\ toReceiver \in Seq(Message) /\ Once(toReceiver) /\ IsFiniteSet(Outstanding)
        /\ ToSet(toReceiver) \subseteq {Packet("DATA", n) : n \in Outstanding}
    BY <1>2, WithinWindow, Sequences DEF Accounted
  <2>2. Len(toReceiver) <= Cardinality(Outstanding)
    BY <2>1, AtMostAsMany
  <2>3. Cardinality(Outstanding) \in Nat /\ Cardinality(Outstanding) < Window
    BY <1>1, WithinWindow
  <2>4. Len(toReceiver) \in Nat /\ Capacity \in Nat /\ Window \in Nat
    BY Ranges, Sequences
  <2> QED
    BY <2>2, <2>3, <2>4
<1>7. Once(order') /\ ToSet(order') = Outstanding'
  <2>1. nextseq \notin ToSet(order) /\ order \in Seq(0..Count) /\ Once(order)
    BY <1>2, <1>3, Sequences DEF Accounted
  <2>2. /\ ToSet(Append(order, nextseq)) = ToSet(order) \cup {nextseq}
        /\ Once(Append(order, nextseq))
    <3>1. /\ ToSet(Append(order, nextseq)) = ToSet(order) \cup {nextseq}
          /\ Once(order) /\ nextseq \notin ToSet(order) => Once(Append(order, nextseq))
      BY <1>4, <2>1, JoinOnce
    <3> QED
      BY <2>1, <3>1
  <2> QED
    BY <1>1, <1>2, <1>3, <2>2 DEF Accounted
<1>8. CASE toReceiver' = Append(toReceiver, m) /\ lost' = lost
  <2>1. ToSet(toReceiver') = ToSet(toReceiver) \cup {m} /\ Once(toReceiver')
    BY <1>2, <1>4, <1>5, <1>8, Sequences, JoinOnce DEF Accounted
  <2>2. ToSet(toReceiver') \subseteq {Packet("DATA", n) : n \in Outstanding'}
    BY <1>2, <1>3, <2>1 DEF Accounted
  <2>3. ToSet(toSender') \subseteq {Packet("SACK", n) : n \in Outstanding'}
    BY <1>1, <1>2, <1>3 DEF Accounted
  <2>4. ASSUME NEW n \in Outstanding'
        PROVE  ~(DataOnItsWay(n)' /\ AnswerOnItsWay(n)')
    <3>1. CASE n = nextseq
      BY <1>1, <1>5, <3>1 DEF AnswerOnItsWay
    <3>2. CASE n \in Outstanding /\ n # nextseq
      <4>1. Packet("DATA", n) # m
        BY <3>2, PacketsDiffer
      <4> QED
        BY <1>1, <1>2, <2>1, <3>2, <4>1 DEF Accounted, DataOnItsWay, AnswerOnItsWay
    <3> QED
      BY <1>3, <3>1, <3>2
  <2>5. Missing' \subseteq Missing
    BY <1>1, <1>3, <2>1 DEF Missing, DataOnItsWay, AnswerOnItsWay
  <2>6. Cardinality(Missing') \in Nat /\ Cardinality(Missing') <= Cardinality(Missing)
    BY <2>5, NoMoreMissing
  <2>7. resent' + Cardinality(Missing') <= lost' /\ resent' <= lost'
    BY <1>1, <1>2, <1>8, <2>6, MissingCounted, Sequences DEF Accounted
  <2> QED
    BY <1>1, <1>2, <1>7, <2>1, <2>2, <2>3, <2>4, <2>7 DEF Flow, Accounted
<1>9. CASE toReceiver' = toReceiver /\ lost' = lost + 1
  <2>1. /\ ToSet(toReceiver') \subseteq {Packet("DATA", n) : n \in Outstanding'}
        /\ ToSet(toSender') \subseteq {Packet("SACK", n) : n \in Outstanding'}
    BY <1>1, <1>2, <1>3, <1>9 DEF Accounted
  <2>2. \A n \in Outstanding' : ~(DataOnItsWay(n)' /\ AnswerOnItsWay(n)')
    BY <1>1, <1>2, <1>3, <1>5, <1>9 DEF Accounted, DataOnItsWay, AnswerOnItsWay
  <2>3. Missing' \subseteq Missing \cup {nextseq}
    BY <1>1, <1>3, <1>9 DEF Missing, DataOnItsWay, AnswerOnItsWay
  <2>4. Cardinality(Missing') \in Nat /\ Cardinality(Missing') <= Cardinality(Missing) + 1
    BY <2>3, OneMoreMissing
  <2>5. resent' + Cardinality(Missing') <= lost' /\ resent' <= lost'
    BY <1>1, <1>2, <1>9, <2>4, MissingCounted, Sequences DEF Accounted
  <2> QED
    BY <1>1, <1>2, <1>7, <1>9, <2>1, <2>2, <2>5 DEF Flow, Accounted
<1> QED
  BY <1>1, <1>6, <1>8, <1>9 DEF Transmit

LEMMA AwaitSackFlow ==
  ASSUME Inv, Flow, AwaitSack
  PROVE  Flow'
<1>1. PICK i \in Deliverable(toSender) :
        /\ toSender' = RemoveAt(toSender, i)
        /\ IF toSender[i].kind = "SACK" /\ toSender[i].number \notin acked
           THEN /\ acked' = acked \cup {toSender[i].number}
                /\ order' = RemoveFirst(order, toSender[i].number)
                /\ pc' = IF base' < Count THEN "window" ELSE "fin"
           ELSE UNCHANGED <<acked, order, base, stalls, pc>>
  BY DEF AwaitSack
<1>2. /\ pc = "window"
      /\ UNCHANGED <<rpc, toReceiver, lost, resent, nextseq>>
  BY DEF AwaitSack, receiverVars
<1>3. Accounted
  BY <1>2 DEF Flow
<1>4. i \in DOMAIN toSender /\ toSender[i] \in ToSet(toSender)
  BY DeliverableInDomain DEF ToSet
<1>5. PICK n \in Outstanding : toSender[i] = Packet("SACK", n)
  BY <1>3, <1>4 DEF Accounted
<1>6. toSender[i].kind = "SACK" /\ toSender[i].number = n /\ n \notin acked
  BY <1>5 DEF Packet, Outstanding
<1>7. /\ acked' = acked \cup {n} /\ order' = RemoveFirst(order, n)
      /\ pc' = "window" \/ pc' = "fin"
  BY <1>1, <1>6
<1>8. Outstanding' = Outstanding \ {n}
  BY <1>2, <1>7 DEF Outstanding
<1>9. Once(toSender') /\ ToSet(toSender') = ToSet(toSender) \ {Packet("SACK", n)}
  BY <1>1, <1>3, <1>4, <1>5, Sequences, LeaveOnce DEF Accounted
<1>10. AnswerOnItsWay(n) /\ ~DataOnItsWay(n)
  BY <1>3, <1>4, <1>5 DEF Accounted, AnswerOnItsWay
<1>11. ToSet(toReceiver') \subseteq {Packet("DATA", k) : k \in Outstanding'}
  BY <1>2, <1>3, <1>8, <1>10 DEF Accounted, DataOnItsWay
<1>12. ToSet(toSender') \subseteq {Packet("SACK", k) : k \in Outstanding'}
  BY <1>3, <1>8, <1>9 DEF Accounted
<1>13. \A k \in Outstanding' : ~(DataOnItsWay(k)' /\ AnswerOnItsWay(k)')
  BY <1>2, <1>3, <1>8, <1>9 DEF Accounted, DataOnItsWay, AnswerOnItsWay
<1>14. Once(order') /\ ToSet(order') = Outstanding'
  <2>1. n \in ToSet(order) /\ order \in Seq(0..Count) /\ Once(order)
    BY <1>3, Sequences DEF Accounted
  <2>2. Once(RemoveFirst(order, n)) /\ ToSet(RemoveFirst(order, n)) = ToSet(order) \ {n}
    BY <2>1, RemoveFirstOnce
  <2> QED
    BY <1>3, <1>7, <1>8, <2>2 DEF Accounted
<1>15. Missing' \subseteq Missing
  <2> SUFFICES ASSUME NEW k \in Missing'
               PROVE  k \in Missing
    OBVIOUS
  <2>1. k \in Outstanding /\ k # n /\ ~DataOnItsWay(k)' /\ ~AnswerOnItsWay(k)'
    BY <1>8 DEF Missing
  <2>2. Packet("SACK", k) # Packet("SACK", n)
    BY <2>1, PacketsDiffer
  <2> QED
    BY <1>2, <1>9, <2>1, <2>2 DEF Missing, DataOnItsWay, AnswerOnItsWay
<1>16. Cardinality(Missing') \in Nat /\ Cardinality(Missing') <= Cardinality(Missing)
  BY <1>15, NoMoreMissing
<1>17. resent' + Cardinality(Missing') <= lost' /\ resent' <= lost'
  BY <1>2, <1>3, <1>16, MissingCounted, Sequences DEF Accounted
<1> QED
  BY <1>2, <1>3, <1>9, <1>11, <1>12, <1>13, <1>14, <1>17 DEF Flow, Accounted

(***************************************************************************)
(* The timer that expires is of a missing packet: it goes out again, and   *)
(* is missing no longer, or missing again for a new loss.                  *)
(***************************************************************************)
LEMMA TimeoutFlow ==
  ASSUME Prompt, Capacity >= Window, Inv, Flow, Timeout
  PROVE  Flow'
<1>1. /\ pc = "window" /\ ~CanSend /\ PacketTimerExpires(Head(order))
      /\ UNCHANGED <<base, nextseq, acked, rpc>>
  BY DEF Timeout, receiverVars
<1>2. Accounted
  BY <1>1 DEF Flow
<1>3. CASE pc' = "failed" /\ UNCHANGED <<resent, order, channelVars>>
  BY <1>3, FlowAfter DEF channelVars
<1>4. CASE /\ resent' = resent + 1
           /\ order' = Append(Tail(order), Head(order))
           /\ Transmit(toReceiver, Packet("DATA", Head(order)))
           /\ UNCHANGED <<pc, toSender>>
  <2> DEFINE n == Head(order)
             m == Packet("DATA", n)
  <2>1. n \in ToSet(order) /\ Once(order') /\ ToSet(order') = ToSet(order)
    <3>1. order # <<>> /\ Once(order) /\ order \in Seq(0..Count)
      BY <1>1, <1>2, NeverIdle, Sequences DEF Accounted
    <3> QED
      BY <1>4, <3>1, RotateOnce
  <2>2. n \in Outstanding /\ Outstanding' = Outstanding
    BY <1>1, <1>2, <2>1 DEF Accounted, Outstanding
  <2>3. m \notin ToSet(toReceiver) /\ Packet("SACK", n) \notin ToSet(toSender)
    BY <1>1, <1>2 DEF PacketTimerExpires, Accounted
  <2>4. n \in Missing
    BY <2>2, <2>3 DEF Missing, DataOnItsWay, AnswerOnItsWay
  <2>5. m \in Message
    BY <2>2, WithinWindow, PacketIsMessage
  <2>6. Transmit(toReceiver, m) /\ toSender' = toSender /\ resent' = resent + 1 /\ pc' = pc
    BY <1>4
  <2> HIDE DEF n
  <2>7. Len(toReceiver) # Capacity
    BY <1>2, <2>2, <2>3, Sequences, RoomFor DEF Accounted
  <2>8. CASE toReceiver' = Append(toReceiver, m) /\ lost' = lost
    <3>1. ToSet(toReceiver') = ToSet(toReceiver) \cup {m} /\ Once(toReceiver')
      BY <1>2, <2>3, <2>5, <2>8, Sequences, JoinOnce DEF Accounted
    <3>2. ToSet(toReceiver') \subseteq {Packet("DATA", k) : k \in Outstanding'}
      BY <1>2, <2>2, <3>1 DEF Accounted
    <3>3. ASSUME NEW k \in Outstanding'
          PROVE  ~(DataOnItsWay(k)' /\ AnswerOnItsWay(k)')
      <4>1. CASE k = n
        BY <2>3, <2>6, <4>1 DEF AnswerOnItsWay
      <4>2. CASE k # n
        <5>1. Packet("DATA", k) # m
          BY <4>2, PacketsDiffer
        <5> QED
          BY <1>2, <2>2, <2>6, <3>1, <5>1 DEF Accounted, DataOnItsWay, AnswerOnItsWay
      <4> QED
        BY <4>1, <4>2
    <3>4. Missing' \subseteq Missing \ {n}
      BY <2>2, <2>6, <3>1 DEF Missing, DataOnItsWay, AnswerOnItsWay
    <3>5. Cardinality(Missing') \in Nat /\ Cardinality(Missing') + 1 <= Cardinality(Missing)
      BY <2>4, <3>4, OneLessMissing
    <3>6. resent' + Cardinality(Missing') <= lost' /\ resent' <= lost'
      BY <1>2, <2>6, <2>8, <3>5, MissingCounted, Sequences DEF Accounted
    <3> QED
      BY <1>1, <1>2, <2>1, <2>2, <2>6, <3>1, <3>2, <3>3, <3>6 DEF Flow, Accounted
  <2>9. CASE toReceiver' = toReceiver /\ lost' = lost + 1
    <3>1. Missing' \subseteq Missing
      BY <2>2, <2>6, <2>9 DEF Missing, DataOnItsWay, AnswerOnItsWay
    <3>2. Cardinality(Missing') \in Nat /\ Cardinality(Missing') <= Cardinality(Missing)
      BY <3>1, NoMoreMissing
    <3>3. resent' + Cardinality(Missing') <= lost' /\ resent' <= lost'
      BY <1>2, <2>6, <2>9, <3>2, MissingCounted, Sequences DEF Accounted
    <3>4. \A k \in Outstanding' : ~(DataOnItsWay(k)' /\ AnswerOnItsWay(k)')
      BY <1>2, <2>2, <2>6, <2>9 DEF Accounted, DataOnItsWay, AnswerOnItsWay
    <3> QED
      BY <1>1, <1>2, <2>1, <2>2, <2>6, <2>9, <3>3, <3>4 DEF Flow, Accounted
  <2> QED
    BY <2>6, <2>7, <2>8, <2>9 DEF Transmit
<1> QED
  BY <1>3, <1>4 DEF Timeout

(***************************************************************************)
(* The receiver answers each packet once, and the answer takes its place.  *)
(***************************************************************************)
LEMMA ServeDataFlow ==
  ASSUME Capacity >= Window, Mode = "sr", Inv, Flow, pc = "window", ServeData,
         UNCHANGED <<senderVars, windowVars>>
  PROVE  Flow'
<1>1. PICK i \in Deliverable(toReceiver) :
        /\ toReceiver' = RemoveAt(toReceiver, i)
        /\ OnDataBuffering(toReceiver[i].number)
  BY DEF ServeData, OnData
<1>2. UNCHANGED <<rpc, pc, resent, nextseq, acked, order>>
  BY DEF ServeData, senderVars, windowVars
<1>3. Accounted
  BY DEF Flow
<1>4. i \in DOMAIN toReceiver /\ toReceiver[i] \in ToSet(toReceiver)
  BY DeliverableInDomain DEF ToSet
<1>5. PICK n \in Outstanding : toReceiver[i] = Packet("DATA", n)
  BY <1>3, <1>4 DEF Accounted
<1> DEFINE m == Packet("SACK", n)
<1>6. Transmit(toSender, m)
  <2>1. toReceiver[i].number = n
    BY <1>5 DEF Packet
  <2> QED
    BY <1>1, <2>1 DEF OnDataBuffering
<1>7. m \in Message
  BY WithinWindow, PacketIsMessage
<1>8. Once(toReceiver') /\ ToSet(toReceiver') = ToSet(toReceiver) \ {Packet("DATA", n)}
  BY <1>1, <1>3, <1>4, <1>5, Sequences, LeaveOnce DEF Accounted
<1>9. DataOnItsWay(n) /\ ~AnswerOnItsWay(n) /\ m \notin ToSet(toSender)
  BY <1>3, <1>4, <1>5 DEF Accounted, DataOnItsWay, AnswerOnItsWay
<1>10. Outstanding' = Outstanding
  BY <1>2 DEF Outstanding
<1>11. ToSet(toReceiver') \subseteq {Packet("DATA", k) : k \in Outstanding'}
  BY <1>3, <1>8, <1>10 DEF Accounted
<1>12. Len(toSender) # Capacity
  BY <1>3, <1>9, Sequences, RoomFor DEF Accounted
<1>13. CASE toSender' = Append(toSender, m) /\ lost' = lost
  <2>1. ToSet(toSender') = ToSet(toSender) \cup {m} /\ Once(toSender')
    BY <1>3, <1>7, <1>9, <1>13, Sequences, JoinOnce DEF Accounted
  <2>2. ToSet(toSender') \subseteq {Packet("SACK", k) : k \in Outstanding'}
    BY <1>3, <1>10, <2>1 DEF Accounted
  <2>3. ASSUME NEW k \in Outstanding'
        PROVE  ~(DataOnItsWay(k)' /\ AnswerOnItsWay(k)')
    <3>1. CASE k = n
      BY <1>8, <3>1 DEF DataOnItsWay
    <3>2. CASE k # n
      <4>1. Packet("SACK", k) # m
        BY <3>2, PacketsDiffer
      <4> QED
        BY <1>3, <1>8, <1>10, <2>1, <4>1 DEF Accounted, DataOnItsWay, AnswerOnItsWay
    <3> QED
      BY <3>1, <3>2
  <2>4. Missing' \subseteq Missing
    <3> SUFFICES ASSUME NEW k \in Missing'
                 PROVE  k \in Missing
      OBVIOUS
    <3>1. k \in Outstanding /\ ~DataOnItsWay(k)' /\ ~AnswerOnItsWay(k)'
      BY <1>10 DEF Missing
    <3>2. k # n
      BY <2>1, <3>1 DEF AnswerOnItsWay
    <3>3. Packet("DATA", k) # Packet("DATA", n)
      BY <3>2, PacketsDiffer
    <3> QED
      BY <1>8, <2>1, <3>1, <3>3 DEF Missing, DataOnItsWay, AnswerOnItsWay
  <2>5. Cardinality(Missing') \in Nat /\ Cardinality(Missing') <= Cardinality(Missing)
    BY <2>4, NoMoreMissing
  <2>6. resent' + Cardinality(Missing') <= lost' /\ resent' <= lost'
    BY <1>2, <1>3, <1>13, <2>5, MissingCounted, Sequences DEF Accounted
  <2> QED
    BY <1>2, <1>3, <1>8, <1>10, <1>11, <2>1, <2>2, <2>3, <2>6 DEF Flow, Accounted
<1>14. CASE toSender' = toSender /\ lost' = lost + 1
  <2>1. ToSet(toSender') \subseteq {Packet("SACK", k) : k \in Outstanding'}
    BY <1>3, <1>10, <1>14 DEF Accounted
  <2>2. \A k \in Outstanding' : ~(DataOnItsWay(k)' /\ AnswerOnItsWay(k)')
    BY <1>3, <1>8, <1>10, <1>14 DEF Accounted, DataOnItsWay, AnswerOnItsWay
  <2>3. Missing' \subseteq Missing \cup {n}
    <3> SUFFICES ASSUME NEW k \in Missing', k # n
                 PROVE  k \in Missing
      OBVIOUS
    <3>1. k \in Outstanding /\ ~DataOnItsWay(k)' /\ ~AnswerOnItsWay(k)'
      BY <1>10 DEF Missing
    <3>2. Packet("DATA", k) # Packet("DATA", n)
      BY PacketsDiffer
    <3> QED
      BY <1>8, <1>14, <3>1, <3>2 DEF Missing, DataOnItsWay, AnswerOnItsWay
  <2>4. Cardinality(Missing') \in Nat /\ Cardinality(Missing') <= Cardinality(Missing) + 1
    BY <2>3, OneMoreMissing
  <2>5. resent' + Cardinality(Missing') <= lost' /\ resent' <= lost'
    BY <1>2, <1>3, <1>14, <2>4, MissingCounted, Sequences DEF Accounted
  <2> QED
    BY <1>2, <1>3, <1>8, <1>10, <1>11, <1>14, <2>1, <2>2, <2>5 DEF Flow, Accounted
<1> QED
  BY <1>6, <1>12, <1>13, <1>14 DEF Transmit

LEMMA ReceiverStepFlow ==
  ASSUME Capacity >= Window, Mode = "sr", Inv, Flow, ReceiverStep
  PROVE  Flow'
<1>1. UNCHANGED <<senderVars, windowVars>>
  BY DEF ReceiverStep, ReceiverNext
<1>2. CASE pc # "window"
  <2>1. pc' # "window" /\ resent' = resent
    BY <1>1, <1>2 DEF senderVars
  <2>2. lost' = lost \/ lost' = lost + 1
    BY DEF ReceiverStep, ReceiverNext, ServeData, OnData, OnDataCumulative,
       OnDataBuffering, ServeFin, LingerFin, LingerIgnore, LingerEnd, channelVars, Transmit
  <2> QED
    BY <2>1, <2>2, FlowAfter
<1>3. CASE pc = "window"
  <2>1. Accounted
    BY <1>3 DEF Flow
  <2>2. ASSUME NEW i \in Deliverable(toReceiver)
        PROVE  toReceiver[i].kind # "FIN"
    <3>1. toReceiver[i] \in ToSet(toReceiver)
      BY DeliverableInDomain DEF ToSet
    <3> QED
      BY <2>1, <3>1 DEF Accounted, Packet
  <2>3. ServeData
    BY <2>1, <2>2
       DEF ReceiverStep, ReceiverNext, ServeFin, LingerFin, LingerIgnore, LingerEnd, Accounted
  <2> QED
    BY <1>1, <1>3, <2>3, ServeDataFlow
<1> QED
  BY <1>2, <1>3

(* The closing handshake comes after the window, and repeats no packet. *)
LEMMA FinishFlow ==
  ASSUME Inv, Flow, Finish
  PROVE  Flow'
<1>1. /\ pc' # "window" /\ resent' = resent
      /\ lost' = lost \/ lost' = lost + 1
  BY DEF Finish, FinSend, FinReceive, FinTimeout, FinGiveUp, channelVars, senderVars, Transmit
<1> QED
  BY <1>1, FlowAfter

LEMMA InitFlow == Init => Flow
<1> SUFFICES ASSUME Init PROVE Flow
  OBVIOUS
<1>1. /\ toReceiver = <<>> /\ toSender = <<>> /\ order = <<>> /\ lost = 0
      /\ rpc = "serving" /\ nextseq = 0 /\ resent = 0 /\ acked = {}
  BY DEF Init, ChannelInit, ReceiverInit, SenderInit
<1>2. Outstanding = {} /\ Missing = {} /\ Cardinality(Missing) = 0
  <2>1. Outstanding = {} /\ Missing = {}
    BY <1>1 DEF Outstanding, Missing
  <2> QED
    BY <2>1, FS_EmptySet
<1>3. /\ Once(<<>>) /\ ToSet(<<>>) = {}
  BY DEF Once, ToSet
<1>4. Accounted
  BY <1>1, <1>2, <1>3 DEF Accounted
<1> QED
  BY <1>1, <1>4 DEF Flow

LEMMA NextFlow ==
  ASSUME Prompt, Capacity >= Window, Mode = "sr", Inv, Flow, [Next]_vars
  PROVE  Flow'
<1>1. CASE UNCHANGED vars
  <2>1. UNCHANGED <<toReceiver, toSender, lost, rpc, pc, resent, nextseq, acked, order>>
    BY <1>1 DEF vars, channelVars, receiverVars, senderVars, windowVars
  <2>2. Outstanding' = Outstanding
    BY <2>1 DEF Outstanding
  <2>3. Missing' = Missing
    BY <2>1, <2>2 DEF Missing, DataOnItsWay, AnswerOnItsWay
  <2> QED
    BY <2>1, <2>2, <2>3 DEF Flow, Accounted, DataOnItsWay, AnswerOnItsWay
<1>2. CASE Next
  BY <1>2, SendNextFlow, AwaitSackFlow, TimeoutFlow, FinishFlow, ReceiverStepFlow
     DEF Next, SenderNext
<1> QED
  BY <1>1, <1>2

(***************************************************************************)
(* What selective repeat repeats is bounded by what was lost: while the    *)
(* timer outlasts the round trip and a direction holds one window, every   *)
(* datagram dropped costs at most one repetition, in whatever order the    *)
(* channels deliver and however long the transfer.                         *)
(***************************************************************************)
THEOREM RepeatsPaidByLoss ==
  ASSUME Mode = "sr", Prompt, Capacity >= Window
  PROVE  Spec => [](resent <= lost)
<1>1. Init => Inv /\ Flow
  BY InitInv, InitFlow
<1>2. Inv /\ Flow /\ [Next]_vars => Inv' /\ Flow'
  BY NextInv, NextFlow
<1>3. Flow => resent <= lost
  BY DEF Flow
<1> QED
  BY <1>1, <1>2, <1>3, PTL DEF Spec
=============================================================================
