-------------------------- MODULE RdtServer_proofs --------------------------
(***************************************************************************)
(* One transfer after another, each from a stop-and-wait sender that may   *)
(* be killed at any moment: for every number of packets, of losses and of  *)
(* senders, success is true unless the sender before left in the middle,   *)
(* and every report is about a whole run.  JITTER is 0, as in              *)
(* rdt_common.py, so that datagrams arrive in the order sent.              *)
(*                                                                         *)
(* The argument.  What the receiver has yet to read, the datagrams of      *)
(* earlier senders before those of the present one, is one Line.  A FIN    *)
(* joins it only when the receiver has, or is about to be at, the end of a *)
(* transfer; so wherever the Line is cut by a sender's death, its next FIN *)
(* finds the receiver with all packets or with none.                       *)
(*                                                                         *)
(* The last part is about one transfer by itself, with or without jitter:  *)
(* it is reliable, and each packet repeated answers for a datagram lost.   *)
(***************************************************************************)
EXTENDS RdtServer, SequenceTheorems, FiniteSetTheorems, TLAPS

(* What is sent to the receiver, what the present sender has sent it, and *)
(* what it answers.                                                        *)
Datagram ==
  {Packet("DATA", n) : n \in {k \in Nat : k < Count}} \cup {Packet("FIN", Count)}

Sent ==
  {Packet("DATA", n) : n \in {k \in Nat : k < Count /\ k <= seq}}
    \cup {Packet("FIN", Count)}

Answer == {Packet(kind, n) : kind \in {"ACK", "FINACK"}, n \in 0..Count}

(* What the receiver reads next, in this order. *)
Line == stale \o toReceiver

IsFin(datagram) == datagram.kind = "FIN"

HasFin(s) == \E i \in 1..Len(s) : IsFin(s[i])

AllFin(s) == \A i \in 1..Len(s) : IsFin(s[i])

(* Nothing but FINs before a FIN, behind a FIN, between two of them. *)
FinsFirst(s) == \A j \in 1..Len(s) : IsFin(s[j]) => \A i \in 1..j : IsFin(s[i])

FinsLast(s) == \A i \in 1..Len(s) : IsFin(s[i]) => \A j \in i..Len(s) : IsFin(s[j])

FinsTogether(s) ==
  \A i, k \in 1..Len(s) : IsFin(s[i]) /\ IsFin(s[k]) => \A j \in i..k : IsFin(s[j])

Sending == pc \in {"window", "await"}

Finishing == pc \in {"fin", "finwait"}

(***************************************************************************)
(* An answer to the present sender: nothing stale was before the datagram  *)
(* it answers, and while the sender sends, the receiver is in the same     *)
(* transfer and has what it acknowledged.                                  *)
(***************************************************************************)
TrueAnswers ==
  {a \in Answer :
     /\ stale = <<>>
     /\ a.kind = "FINACK" => finSeen
     /\ Sending => rpc = "serving" /\ a.number <= expected}

Types ==
  /\ toReceiver \in Seq(Sent)
  /\ stale \in Seq(Datagram)
  /\ toSender \in Seq(TrueAnswers)
  /\ rpc \in {"serving", "lingering", "returned"}
  /\ pc \in {"window", "await", "fin", "finwait", "done", "failed"}
  /\ expected \in 0..Count
  /\ delivered \in Nat
  /\ seq \in 0..Count
  /\ credited \in Nat
  /\ finSeen \in BOOLEAN
  /\ interrupted \in BOOLEAN

SenderPlace ==
  /\ Sending => seq < Count /\ ~HasFin(toReceiver)
  /\ FinsLast(toReceiver)

(* The receiver's place, and what the next FIN will find. *)
ReceiverPlace ==
  /\ rpc = "serving" => expected = delivered
  /\ ReportsWholeRuns
  /\ FinsTogether(Line)
  /\ rpc = "serving" /\ HasFin(Line) => expected = Count \/ (expected = 0 /\ FinsFirst(Line))
  /\ rpc # "serving" => FinsFirst(Line)

(* A sender that announces the end has been told that all is there. *)
EndIsNear ==
  Finishing =>
    /\ rpc = "serving" => expected = Count \/ (expected = 0 /\ AllFin(Line))
    /\ rpc # "serving" => AllFin(Line)
    /\ FinsLast(Line)

(* Once its FIN was read, a sender has nothing but FINs on their way. *)
AfterFin ==
  finSeen =>
    /\ stale = <<>>
    /\ ~Sending
    /\ AllFin(toReceiver)
    /\ rpc = "serving" => expected = 0

(* What was delivered of the present sender, unless the one before broke   *)
(* off.                                                                    *)
Credit ==
  ~interrupted =>
    /\ AllFin(stale)
    /\ stale # <<>> => credited = 0
    /\ ~finSeen /\ rpc = "serving" => expected = credited
    /\ ~finSeen /\ rpc # "serving" => credited = 0
    /\ Sending => credited \in {seq, seq + 1}
    /\ Finishing \/ pc = "done" \/ finSeen \/ HasFin(toReceiver) => credited = Count

Inv ==
  /\ Types
  /\ SenderPlace
  /\ ReceiverPlace
  /\ EndIsNear
  /\ AfterFin
  /\ Credit

(* What Inv speaks of beside the two channels' contents. *)
placeVars == <<rpc, expected, delivered, announced, seq, stale, credited, finSeen, interrupted>>
-----------------------------------------------------------------------------
(* Runs of FINs in a sequence. *)

LEMMA Rest ==
  ASSUME NEW S, NEW s \in Seq(S), s # <<>>
  PROVE  /\ Head(s) = s[1] /\ s[1] \in S
         /\ Tail(s) \in Seq(S)
         /\ Len(s) \in Nat \ {0}
         /\ Len(Tail(s)) = Len(s) - 1
         /\ \A i \in 1..(Len(s) - 1) : Tail(s)[i] = s[i + 1]
  BY HeadTailProperties, ElementOfSeq, EmptySeq, LenProperties

LEMMA Longer ==
  ASSUME NEW S, NEW s \in Seq(S), NEW m \in S
  PROVE  /\ Append(s, m) \in Seq(S)
         /\ Len(s) \in Nat
         /\ Len(Append(s, m)) = Len(s) + 1
         /\ \A i \in 1..Len(s) : Append(s, m)[i] = s[i]
         /\ Append(s, m)[Len(s) + 1] = m
  BY AppendProperties, LenProperties

LEMMA Wider ==
  ASSUME NEW S, NEW T, S \subseteq T, NEW s \in Seq(S)
  PROVE  s \in Seq(T)
  BY LenProperties, ElementOfSeq, SeqDef

LEMMA FinsOfRest ==
  ASSUME NEW S, NEW s \in Seq(S), s # <<>>
  PROVE  /\ HasFin(Tail(s)) => HasFin(s)
         /\ AllFin(s) => AllFin(Tail(s)) /\ IsFin(s[1])
         /\ FinsFirst(s) => FinsFirst(Tail(s))
         /\ FinsLast(s) => FinsLast(Tail(s))
         /\ FinsTogether(s) => FinsTogether(Tail(s))
         /\ FinsFirst(s) /\ HasFin(s) => IsFin(s[1])
         /\ IsFin(s[1]) => HasFin(s)
         /\ IsFin(s[1]) /\ FinsLast(s) => AllFin(s)
         /\ IsFin(s[1]) /\ FinsTogether(s) => FinsFirst(s)
<1>1. /\ Len(s) \in Nat \ {0}
      /\ Len(Tail(s)) = Len(s) - 1
      /\ \A i \in 1..(Len(s) - 1) : Tail(s)[i] = s[i + 1]
  BY Rest
<1>2. HasFin(Tail(s)) => HasFin(s)
  BY <1>1 DEF HasFin
<1>3. AllFin(s) => AllFin(Tail(s)) /\ IsFin(s[1])
  BY <1>1 DEF AllFin
<1>4. FinsFirst(s) => FinsFirst(Tail(s))
  <2> SUFFICES ASSUME FinsFirst(s),
                      NEW j \in 1..(Len(s) - 1), IsFin(s[j + 1]), NEW i \in 1..j
               PROVE  IsFin(s[i + 1])
    BY <1>1 DEF FinsFirst
  <2> QED
    BY <1>1 DEF FinsFirst
<1>5. FinsLast(s) => FinsLast(Tail(s))
  <2> SUFFICES ASSUME FinsLast(s),
                      NEW i \in 1..(Len(s) - 1), IsFin(s[i + 1]), NEW j \in i..(Len(s) - 1)
               PROVE  IsFin(s[j + 1])
    BY <1>1 DEF FinsLast
  <2> QED
    BY <1>1 DEF FinsLast
<1>6. FinsTogether(s) => FinsTogether(Tail(s))
  <2> SUFFICES ASSUME FinsTogether(s),
                      NEW i \in 1..(Len(s) - 1), NEW k \in 1..(Len(s) - 1),
                      IsFin(s[i + 1]), IsFin(s[k + 1]), NEW j \in i..k
               PROVE  IsFin(s[j + 1])
    BY <1>1 DEF FinsTogether
  <2> QED
    BY <1>1 DEF FinsTogether
<1>7. FinsFirst(s) /\ HasFin(s) => IsFin(s[1])
  BY <1>1 DEF FinsFirst, HasFin
<1>8. IsFin(s[1]) => HasFin(s)
  BY <1>1 DEF HasFin
<1>9. IsFin(s[1]) /\ FinsLast(s) => AllFin(s)
  BY <1>1 DEF FinsLast, AllFin
<1>10. IsFin(s[1]) /\ FinsTogether(s) => FinsFirst(s)
  BY <1>1 DEF FinsTogether, FinsFirst
<1> QED
  BY <1>2, <1>3, <1>4, <1>5, <1>6, <1>7, <1>8, <1>9, <1>10

LEMMA FinsOfLonger ==
  ASSUME NEW S, NEW s \in Seq(S), NEW m \in S
  PROVE  /\ ~IsFin(m) /\ HasFin(Append(s, m)) => HasFin(s)
         /\ ~IsFin(m) /\ FinsFirst(s) => FinsFirst(Append(s, m))
         /\ ~IsFin(m) /\ FinsTogether(s) => FinsTogether(Append(s, m))
         /\ ~HasFin(s) => FinsLast(Append(s, m))
         /\ IsFin(m) /\ AllFin(s) => AllFin(Append(s, m))
         /\ IsFin(m) /\ FinsLast(s) => FinsLast(Append(s, m)) /\ FinsTogether(Append(s, m))
<1> DEFINE t == Append(s, m)
<1>1. /\ Len(s) \in Nat
      /\ Len(t) = Len(s) + 1
      /\ \A i \in 1..Len(s) : t[i] = s[i]
      /\ t[Len(s) + 1] = m
  BY Longer
<1> HIDE DEF t
<1>2. \A i \in 1..Len(t) : i \in 1..Len(s) \/ i = Len(s) + 1
  BY <1>1
<1>3. ~IsFin(m) /\ HasFin(t) => HasFin(s)
  BY <1>1, <1>2 DEF HasFin
<1>4. ~IsFin(m) /\ FinsFirst(s) => FinsFirst(t)
  <2> SUFFICES ASSUME ~IsFin(m), FinsFirst(s),
                      NEW j \in 1..Len(t), IsFin(t[j]), NEW i \in 1..j
               PROVE  IsFin(t[i])
    BY DEF FinsFirst
  <2>1. j \in 1..Len(s) /\ i \in 1..Len(s)
    BY <1>1, <1>2
  <2> QED
    BY <1>1, <2>1 DEF FinsFirst
<1>5. ~IsFin(m) /\ FinsTogether(s) => FinsTogether(t)
  <2> SUFFICES ASSUME ~IsFin(m), FinsTogether(s),
                      NEW i \in 1..Len(t), NEW k \in 1..Len(t),
                      IsFin(t[i]), IsFin(t[k]), NEW j \in i..k
               PROVE  IsFin(t[j])
    BY DEF FinsTogether
  <2>1. i \in 1..Len(s) /\ k \in 1..Len(s) /\ j \in 1..Len(s)
    BY <1>1, <1>2
  <2> QED
    BY <1>1, <2>1 DEF FinsTogether
<1>6. ~HasFin(s) => FinsLast(t)
  <2> SUFFICES ASSUME ~HasFin(s),
                      NEW i \in 1..Len(t), IsFin(t[i]), NEW j \in i..Len(t)
               PROVE  IsFin(t[j])
    BY DEF FinsLast
  <2>1. i = Len(s) + 1
    BY <1>1, <1>2 DEF HasFin
  <2>2. j = i
    BY <1>1, <2>1
  <2> QED
    BY <2>2
<1>7. IsFin(m) /\ AllFin(s) => AllFin(t)
  BY <1>1, <1>2 DEF AllFin
<1>8. IsFin(m) /\ FinsLast(s) => FinsLast(t)
  <2> SUFFICES ASSUME IsFin(m), FinsLast(s),
                      NEW i \in 1..Len(t), IsFin(t[i]), NEW j \in i..Len(t)
               PROVE  IsFin(t[j])
    BY DEF FinsLast
  <2>1. CASE j = Len(s) + 1
    BY <1>1, <2>1
  <2>2. CASE j # Len(s) + 1
    <3>1. j \in 1..Len(s) /\ i \in 1..Len(s) /\ j \in i..Len(s)
      BY <1>1, <2>2
    <3> QED
      BY <1>1, <3>1 DEF FinsLast
  <2> QED
    BY <2>1, <2>2
<1>9. FinsLast(t) => FinsTogether(t)
  <2> SUFFICES ASSUME FinsLast(t),
                      NEW i \in 1..Len(t), NEW k \in 1..Len(t),
                      IsFin(t[i]), IsFin(t[k]), NEW j \in i..k
               PROVE  IsFin(t[j])
    BY DEF FinsTogether
  <2>1. j \in i..Len(t)
    BY <1>1
  <2> QED
    BY <2>1 DEF FinsLast
<1> QED
  BY <1>3, <1>4, <1>5, <1>6, <1>7, <1>8, <1>9 DEF t

(* What a first part of a sequence inherits. *)
LEMMA FinsOfPart ==
  ASSUME NEW S, NEW s \in Seq(S), NEW t \in Seq(S), Len(t) <= Len(s),
         \A i \in 1..Len(t) : t[i] = s[i]
  PROVE  /\ HasFin(t) => HasFin(s)
         /\ AllFin(s) => AllFin(t)
         /\ FinsFirst(s) => FinsFirst(t)
         /\ FinsLast(s) => FinsLast(t)
         /\ FinsTogether(s) => FinsTogether(t)
<1>1. Len(s) \in Nat /\ Len(t) \in Nat
  BY LenProperties
<1>2. HasFin(t) => HasFin(s)
  BY <1>1 DEF HasFin
<1>3. AllFin(s) => AllFin(t)
  BY <1>1 DEF AllFin
<1>4. FinsFirst(s) => FinsFirst(t)
  <2> SUFFICES ASSUME FinsFirst(s), NEW j \in 1..Len(t), IsFin(t[j]), NEW i \in 1..j
               PROVE  IsFin(t[i])
    BY DEF FinsFirst
  <2>1. j \in 1..Len(s) /\ i \in 1..Len(t)
    BY <1>1
  <2> QED
    BY <2>1 DEF FinsFirst
<1>5. FinsLast(s) => FinsLast(t)
  <2> SUFFICES ASSUME FinsLast(s),
                      NEW i \in 1..Len(t), IsFin(t[i]), NEW j \in i..Len(t)
               PROVE  IsFin(t[j])
    BY DEF FinsLast
  <2>1. i \in 1..Len(s) /\ j \in i..Len(s) /\ j \in 1..Len(t)
    BY <1>1
  <2> QED
    BY <2>1 DEF FinsLast
<1>6. FinsTogether(s) => FinsTogether(t)
  <2> SUFFICES ASSUME FinsTogether(s),
                      NEW i \in 1..Len(t), NEW k \in 1..Len(t),
                      IsFin(t[i]), IsFin(t[k]), NEW j \in i..k
               PROVE  IsFin(t[j])
    BY DEF FinsTogether
  <2>1. i \in 1..Len(s) /\ k \in 1..Len(s) /\ j \in 1..Len(t)
    BY <1>1
  <2> QED
    BY <2>1 DEF FinsTogether
<1> QED
  BY <1>2, <1>3, <1>4, <1>5, <1>6

LEMMA OnlyFins ==
  ASSUME NEW S, NEW s \in Seq(S), AllFin(s)
  PROVE  FinsFirst(s) /\ FinsLast(s)
<1>1. Len(s) \in Nat
  BY LenProperties
<1> QED
  BY <1>1 DEF AllFin, FinsFirst, FinsLast
-----------------------------------------------------------------------------
(* Datagrams and answers. *)

LEMMA DatagramIs ==
  ASSUME NEW m \in Datagram
  PROVE  /\ IsFin(m) => m = Packet("FIN", Count) /\ m.number = Count
         /\ ~IsFin(m) => m.kind = "DATA" /\ m.number \in Nat /\ m.number < Count
  BY DEF Datagram, Packet, IsFin

LEMMA SentIs ==
  ASSUME NEW m \in Sent
  PROVE  /\ m \in Datagram
         /\ ~IsFin(m) => m.number <= seq
  BY DEF Sent, Datagram, Packet, IsFin

LEMMA SendsDatagrams ==
  ASSUME seq \in 0..Count
  PROVE  /\ seq < Count => Packet("DATA", seq) \in Sent /\ ~IsFin(Packet("DATA", seq))
         /\ Packet("FIN", Count) \in Sent /\ IsFin(Packet("FIN", Count))
  BY RdtAssumption DEF Sent, Packet, IsFin, RdtAssumption

LEMMA AnswersOf ==
  ASSUME NEW n \in 0..Count, stale = <<>>
  PROVE  /\ (Sending => rpc = "serving" /\ n <= expected) => Packet("ACK", n) \in TrueAnswers
         /\ ~Sending /\ finSeen => Packet("FINACK", n) \in TrueAnswers
  BY DEF TrueAnswers, Answer, Packet

LEMMA AnswerIs ==
  ASSUME NEW a \in TrueAnswers
  PROVE  /\ a.kind \in {"ACK", "FINACK"} /\ a.number \in 0..Count
         /\ stale = <<>>
         /\ a.kind = "FINACK" => finSeen
         /\ Sending => rpc = "serving" /\ a.number <= expected
  BY DEF TrueAnswers, Answer, Packet

(* Both channels are first-in first-out: what arrives is the head. *)
LEMMA Heads ==
  ASSUME Jitter = FALSE, NEW S, NEW channel \in Seq(S), NEW i \in Deliverable(channel)
  PROVE  /\ i = 1 /\ channel # <<>>
         /\ RemoveAt(channel, i) = Tail(channel)
<1>1. i = 1 /\ i \in DOMAIN channel
  BY DEF Deliverable
<1>2. channel # <<>>
  BY <1>1
<1>3. /\ Len(channel) \in Nat /\ Len(channel) >= 1
      /\ \A k \in 1..Len(channel) : channel[k] \in S
  BY <1>2, Rest, ElementOfSeq
<1>4. RemoveAt(channel, 1) = <<>> \o SubSeq(channel, 2, Len(channel))
  <2>1. SubSeq(channel, 1, 0) = <<>>
    BY <1>3
  <2> QED
    BY <2>1 DEF RemoveAt
<1>5. SubSeq(channel, 2, Len(channel)) \in Seq(S)
  BY <1>3, SubSeqProperties
<1>6. <<>> \o SubSeq(channel, 2, Len(channel)) = SubSeq(channel, 2, Len(channel))
  BY <1>5, ConcatEmptySeq
<1>7. SubSeq(channel, 2, Len(channel)) = Tail(channel)
  BY <1>2 DEF Tail
<1> QED
  BY <1>1, <1>2, <1>4, <1>6, <1>7
-----------------------------------------------------------------------------
(* The line of what the receiver reads. *)

LEMMA LineIs ==
  ASSUME stale \in Seq(Datagram), toReceiver \in Seq(Sent)
  PROVE  /\ toReceiver \in Seq(Datagram)
         /\ Line \in Seq(Datagram)
         /\ Len(stale) \in Nat /\ Len(toReceiver) \in Nat
         /\ Len(Line) = Len(stale) + Len(toReceiver)
         /\ \A i \in 1..Len(stale) : Line[i] = stale[i]
         /\ \A i \in 1..Len(toReceiver) : Line[Len(stale) + i] = toReceiver[i]
         /\ stale = <<>> => Line = toReceiver
<1>1. toReceiver \in Seq(Datagram)
  <2>1. Sent \subseteq Datagram
    BY SentIs
  <2> QED
    BY <2>1, Wider
<1>2. /\ Line \in Seq(Datagram)
      /\ Len(Line) = Len(stale) + Len(toReceiver)
      /\ \A i \in 1..(Len(stale) + Len(toReceiver)) :
           Line[i] = IF i <= Len(stale) THEN stale[i] ELSE toReceiver[i - Len(stale)]
  BY <1>1, ConcatProperties DEF Line
<1>3. Len(stale) \in Nat /\ Len(toReceiver) \in Nat
  BY LenProperties
<1>4. stale = <<>> => Line = toReceiver
  BY <1>1, ConcatEmptySeq DEF Line
<1>5. ASSUME NEW i \in 1..Len(toReceiver)
      PROVE  Line[Len(stale) + i] = toReceiver[i]
  <2>1. Len(stale) + i \in 1..(Len(stale) + Len(toReceiver)) /\ ~ (Len(stale) + i <= Len(stale))
        /\ (Len(stale) + i) - Len(stale) = i
    BY <1>3
  <2> QED
    BY <1>2, <2>1
<1> QED
  BY <1>1, <1>2, <1>3, <1>4, <1>5

(* A sender's datagram joins the line at its end. *)
LEMMA LineGrows ==
  ASSUME stale \in Seq(Datagram), toReceiver \in Seq(Sent),
         NEW m \in Sent, toReceiver' = Append(toReceiver, m), UNCHANGED stale
  PROVE  Line' = Append(Line, m)
<1>1. toReceiver \in Seq(Datagram) /\ m \in Datagram
  BY LineIs, SentIs
<1>2. stale \o Append(toReceiver, m) = Append(stale \o toReceiver, m)
  BY <1>1
<1> QED
  BY <1>2 DEF Line

(* The receiver reads the head of the line. *)
LEMMA LineServed ==
  ASSUME stale \in Seq(Datagram), toReceiver \in Seq(Sent), stale = <<>>,
         toReceiver' = Tail(toReceiver), UNCHANGED stale, toReceiver # <<>>
  PROVE  Line # <<>> /\ Line[1] = toReceiver[1] /\ Line' = Tail(Line)
<1>1. Line = toReceiver /\ toReceiver \in Seq(Datagram)
  BY LineIs
<1>2. Tail(toReceiver) \in Seq(Datagram)
  BY <1>1, Rest
<1>3. Line' = Tail(toReceiver)
  BY <1>2, ConcatEmptySeq DEF Line
<1> QED
  BY <1>1, <1>3

LEMMA LineServedStale ==
  ASSUME stale \in Seq(Datagram), toReceiver \in Seq(Sent), stale # <<>>,
         stale' = Tail(stale), UNCHANGED toReceiver
  PROVE  Line # <<>> /\ Line[1] = stale[1] /\ Line' = Tail(Line)
<1>1. /\ toReceiver \in Seq(Datagram)
      /\ Len(stale) \in Nat \ {0} /\ Len(toReceiver) \in Nat
      /\ Line \in Seq(Datagram)
      /\ Len(Line) = Len(stale) + Len(toReceiver)
      /\ \A i \in 1..Len(stale) : Line[i] = stale[i]
  BY LineIs, Rest
<1>2. Line # <<>> /\ Line[1] = stale[1]
  BY <1>1
<1>3. Tail(stale) \o toReceiver = Tail(stale \o toReceiver)
  BY <1>1
<1> QED
  BY <1>2, <1>3 DEF Line

(* The line in its two parts. *)
LEMMA PartsOfLine ==
  ASSUME stale \in Seq(Datagram), toReceiver \in Seq(Sent)
  PROVE  /\ AllFin(Line) <=> AllFin(stale) /\ AllFin(toReceiver)
         /\ HasFin(Line) <=> HasFin(stale) \/ HasFin(toReceiver)
         /\ FinsLast(Line) => FinsLast(toReceiver)
<1>1. /\ Len(stale) \in Nat /\ Len(toReceiver) \in Nat
      /\ Len(Line) = Len(stale) + Len(toReceiver)
      /\ \A i \in 1..Len(stale) : Line[i] = stale[i]
      /\ \A i \in 1..Len(toReceiver) : Line[Len(stale) + i] = toReceiver[i]
  BY LineIs
<1>2. \A i \in 1..Len(Line) :
        i \in 1..Len(stale) \/ \E k \in 1..Len(toReceiver) : i = Len(stale) + k
  <2> SUFFICES ASSUME NEW i \in 1..Len(Line), i \notin 1..Len(stale)
               PROVE  \E k \in 1..Len(toReceiver) : i = Len(stale) + k
    OBVIOUS
  <2>1. i - Len(stale) \in 1..Len(toReceiver) /\ i = Len(stale) + (i - Len(stale))
    BY <1>1
  <2> QED
    BY <2>1
<1>3. \A k \in 1..Len(toReceiver) : Len(stale) + k \in 1..Len(Line)
  BY <1>1
<1>4. \A i \in 1..Len(stale) : i \in 1..Len(Line)
  BY <1>1
<1>5. AllFin(Line) <=> AllFin(stale) /\ AllFin(toReceiver)
  BY <1>1, <1>2, <1>3, <1>4 DEF AllFin
<1>6. HasFin(Line) <=> HasFin(stale) \/ HasFin(toReceiver)
  BY <1>1, <1>2, <1>3, <1>4 DEF HasFin
<1>7. ASSUME FinsLast(Line), NEW i \in 1..Len(toReceiver), IsFin(toReceiver[i]),
             NEW j \in i..Len(toReceiver)
      PROVE  IsFin(toReceiver[j])
  <2>1. /\ j \in 1..Len(toReceiver)
        /\ Len(stale) + i \in 1..Len(Line)
        /\ Len(stale) + j \in (Len(stale) + i)..Len(Line)
    BY <1>1, <1>3
  <2> QED
    BY <1>1, <1>7, <2>1 DEF FinsLast
<1> QED
  BY <1>5, <1>6, <1>7 DEF FinsLast
-----------------------------------------------------------------------------
(* The sender's steps. *)

LEMMA InitInv ==
  ASSUME ServerInit
  PROVE  Inv
<1>1. Count \in Nat
  BY RdtAssumption DEF RdtAssumption
<1>2. /\ toReceiver = <<>> /\ toSender = <<>> /\ stale = <<>>
      /\ rpc = "serving" /\ expected = 0 /\ delivered = 0
      /\ pc = (IF Count = 0 THEN "fin" ELSE "window") /\ seq = 0
      /\ credited = 0 /\ finSeen = FALSE /\ interrupted = FALSE
  BY DEF ServerInit, Init, ChannelInit, ReceiverInit, SenderInit
<1>3. Types
  <2>1. /\ toReceiver \in Seq(Sent) /\ stale \in Seq(Datagram)
        /\ toSender \in Seq(TrueAnswers)
    BY <1>2
  <2>2. pc \in {"window", "await", "fin", "finwait", "done", "failed"}
    BY <1>2
  <2>3. expected \in 0..Count /\ delivered \in Nat /\ seq \in 0..Count /\ credited \in Nat
    BY <1>1, <1>2
  <2> QED
    BY <1>2, <2>1, <2>2, <2>3 DEF Types
<1>4. Line = <<>>
  BY <1>2, <1>3, LineIs DEF Types
<1>5. ~HasFin(<<>>) /\ AllFin(<<>>) /\ FinsFirst(<<>>) /\ FinsLast(<<>>) /\ FinsTogether(<<>>)
  BY DEF HasFin, AllFin, FinsFirst, FinsLast, FinsTogether
<1>6. SenderPlace
  BY <1>1, <1>2, <1>5 DEF SenderPlace, Sending
<1>7. ReceiverPlace
  BY <1>2, <1>4, <1>5 DEF ReceiverPlace, ReportsWholeRuns
<1>8. EndIsNear
  BY <1>2, <1>4, <1>5 DEF EndIsNear, Finishing
<1>9. AfterFin
  BY <1>2 DEF AfterFin
<1>10. Credit
  BY <1>2, <1>5 DEF Credit, Sending, Finishing
<1> QED
  BY <1>3, <1>6, <1>7, <1>8, <1>9, <1>10 DEF Inv

(* It waits, gives up or is killed, or is content; it may have read an     *)
(* answer.                                                                 *)
LEMMA NothingSent ==
  ASSUME Inv, UNCHANGED <<toReceiver, placeVars>>,
         toSender' \in Seq(TrueAnswers),
         \/ pc' = "failed"
         \/ Sending /\ pc' \in {"window", "await"}
         \/ Finishing /\ pc' \in {"fin", "finwait", "done"}
  PROVE  Inv'
<1>1. /\ Sending' => Sending
      /\ Finishing' => Finishing
      /\ pc' = "done" => Finishing
  BY DEF Inv, Types, Sending, Finishing
<1>2. /\ UNCHANGED <<toReceiver, rpc, expected, delivered, announced, seq, stale>>
      /\ UNCHANGED <<credited, finSeen, interrupted, Line, Sent>>
  BY DEF placeVars, Line, Sent
<1>3. Types'
  <2>1. TrueAnswers \subseteq TrueAnswers'
    BY <1>1, <1>2 DEF TrueAnswers
  <2>2. toSender' \in Seq(TrueAnswers')
    BY <2>1, Wider
  <2> QED
    BY <1>2, <2>2 DEF Inv, Types, Sending, Finishing
<1>4. SenderPlace'
  BY <1>1, <1>2 DEF Inv, SenderPlace
<1>5. ReceiverPlace'
  BY <1>2 DEF Inv, ReceiverPlace, ReportsWholeRuns
<1>6. EndIsNear'
  BY <1>1, <1>2 DEF Inv, EndIsNear
<1>7. AfterFin'
  BY <1>1, <1>2 DEF Inv, AfterFin
<1>8. Credit'
  BY <1>1, <1>2 DEF Inv, Credit
<1> QED
  BY <1>3, <1>4, <1>5, <1>6, <1>7, <1>8 DEF Inv

LEMMA DataSent ==
  ASSUME Inv, Sending, pc' = "await",
         toReceiver' = Append(toReceiver, Packet("DATA", seq)),
         UNCHANGED <<toSender, placeVars>>
  PROVE  Inv'
<1> DEFINE m == Packet("DATA", seq)
<1>1. Types /\ seq < Count /\ seq \in 0..Count
  BY DEF Inv, Types, SenderPlace
<1>2. m \in Sent /\ m \in Datagram /\ ~IsFin(m)
  BY <1>1, SendsDatagrams, SentIs
<1>3. toReceiver' = Append(toReceiver, m) /\ UNCHANGED stale
  BY DEF placeVars
<1> HIDE DEF m
<1>4. Line' = Append(Line, m)
  BY <1>1, <1>2, <1>3, LineGrows DEF Types
<1>5. /\ UNCHANGED <<rpc, expected, delivered, announced, seq, stale>>
      /\ UNCHANGED <<credited, finSeen, interrupted, Sent, toSender>>
      /\ Sending' /\ Sending /\ ~Finishing' /\ pc' # "done" /\ Sending' = Sending
  BY DEF placeVars, Sent, Sending, Finishing
<1>6. Types'
  <2>1. TrueAnswers' = TrueAnswers
    BY <1>5 DEF TrueAnswers
  <2>2. toReceiver' \in Seq(Sent)
    BY <1>1, <1>2, <1>3, Longer DEF Types
  <2> QED
    BY <1>1, <1>5, <2>1, <2>2 DEF Types
<1>7. /\ ~HasFin(toReceiver)
      /\ ~HasFin(toReceiver')
      /\ FinsLast(toReceiver')
  <2>1. ~HasFin(toReceiver)
    BY DEF Inv, SenderPlace
  <2> QED
    BY <1>1, <1>2, <1>3, <2>1, FinsOfLonger DEF Types
<1>8. SenderPlace'
  BY <1>1, <1>5, <1>7 DEF SenderPlace
<1>9. ReceiverPlace'
  <2>1. Line \in Seq(Datagram)
    BY <1>1, LineIs DEF Types
  <2>2. /\ HasFin(Line') => HasFin(Line)
        /\ FinsFirst(Line) => FinsFirst(Line')
        /\ FinsTogether(Line) => FinsTogether(Line')
    BY <1>2, <1>4, <2>1, FinsOfLonger
  <2> QED
    BY <1>5, <2>2 DEF Inv, ReceiverPlace, ReportsWholeRuns
<1>10. EndIsNear'
  BY <1>5 DEF EndIsNear
<1>11. AfterFin'
  BY <1>5 DEF Inv, AfterFin
<1>12. Credit'
  BY <1>5, <1>7, <1>11 DEF Inv, Credit, AfterFin
<1> QED
  BY <1>6, <1>8, <1>9, <1>10, <1>11, <1>12 DEF Inv

LEMMA FinSent ==
  ASSUME Inv, Finishing, pc' = "finwait",
         toReceiver' = Append(toReceiver, Packet("FIN", Count)),
         UNCHANGED <<toSender, placeVars>>
  PROVE  Inv'
<1> DEFINE m == Packet("FIN", Count)
<1>1. Types
  BY DEF Inv
<1>2. m \in Sent /\ m \in Datagram /\ IsFin(m)
  BY <1>1, SendsDatagrams, SentIs DEF Types
<1>3. toReceiver' = Append(toReceiver, m) /\ UNCHANGED stale
  BY DEF placeVars
<1> HIDE DEF m
<1>4. Line' = Append(Line, m)
  BY <1>1, <1>2, <1>3, LineGrows DEF Types
<1>5. /\ UNCHANGED <<rpc, expected, delivered, announced, seq, stale>>
      /\ UNCHANGED <<credited, finSeen, interrupted, Sent, toSender>>
      /\ ~Sending' /\ ~Sending /\ Finishing /\ Finishing'
  BY DEF placeVars, Sent, Sending, Finishing
<1>6. Types'
  <2>1. TrueAnswers' = TrueAnswers
    BY <1>5 DEF TrueAnswers
  <2>2. toReceiver' \in Seq(Sent)
    BY <1>1, <1>2, <1>3, Longer DEF Types
  <2> QED
    BY <1>1, <1>5, <2>1, <2>2 DEF Types
<1>7. Line \in Seq(Datagram) /\ Line' \in Seq(Datagram)
  BY <1>1, <1>2, <1>4, LineIs, Longer DEF Types
<1>8. /\ FinsLast(Line')
      /\ FinsTogether(Line')
      /\ AllFin(Line) => AllFin(Line') /\ FinsFirst(Line')
      /\ AllFin(toReceiver) => AllFin(toReceiver')
  <2>1. FinsLast(Line)
    BY <1>5 DEF Inv, EndIsNear
  <2>2. /\ FinsLast(Line')
        /\ FinsTogether(Line')
        /\ AllFin(Line) => AllFin(Line')
    BY <1>2, <1>4, <1>7, <2>1, FinsOfLonger
  <2>3. AllFin(Line') => FinsFirst(Line')
    BY <1>7, OnlyFins
  <2>4. AllFin(toReceiver) => AllFin(toReceiver')
    BY <1>1, <1>2, <1>3, FinsOfLonger DEF Types
  <2> QED
    BY <2>2, <2>3, <2>4
<1>9. SenderPlace'
  <2>1. FinsLast(toReceiver')
    BY <1>1, <1>2, <1>3, FinsOfLonger DEF Inv, SenderPlace, Types
  <2> QED
    BY <1>5, <2>1 DEF SenderPlace
<1>10. ReceiverPlace'
  BY <1>5, <1>8 DEF Inv, ReceiverPlace, EndIsNear, ReportsWholeRuns
<1>11. EndIsNear'
  BY <1>5, <1>8 DEF Inv, EndIsNear
<1>12. AfterFin'
  BY <1>5, <1>8 DEF Inv, AfterFin
<1>13. Credit'
  BY <1>5, <1>8 DEF Inv, Credit
<1> QED
  BY <1>6, <1>9, <1>10, <1>11, <1>12, <1>13 DEF Inv

(* The acknowledgement of the packet it sends. *)
LEMMA AckTaken ==
  ASSUME Inv, pc = "await", toSender # <<>>,
         toSender[1].kind = "ACK", toSender[1].number > seq,
         toSender' = Tail(toSender), seq' = seq + 1,
         pc' = IF seq' < Count THEN "window" ELSE "fin",
         UNCHANGED <<toReceiver, rpc, expected, delivered, announced, stale>>,
         UNCHANGED <<credited, finSeen, interrupted>>
  PROVE  Inv'
<1>1. Types /\ Sending /\ seq < Count /\ ~HasFin(toReceiver) /\ FinsLast(toReceiver)
  BY DEF Inv, SenderPlace, Sending
<1>2. toSender[1] \in TrueAnswers /\ Tail(toSender) \in Seq(TrueAnswers)
  BY <1>1, Rest DEF Types
<1>3. /\ stale = <<>> /\ rpc = "serving"
      /\ toSender[1].number \in 0..Count /\ toSender[1].number <= expected
      /\ seq \in 0..Count /\ expected \in 0..Count /\ Count \in Nat
  BY <1>1, <1>2, AnswerIs, RdtAssumption DEF Types, RdtAssumption
<1>4. seq + 1 \in 0..Count /\ expected >= seq + 1
  BY <1>1, <1>3
<1>5. Line = toReceiver /\ Line' = toReceiver'
  BY <1>1, <1>3, LineIs DEF Types, Line
<1>6. ~finSeen
  BY <1>1 DEF Inv, AfterFin
<1>7. Types'
  <2>1. Sent \subseteq Sent'
    BY <1>3 DEF Sent
  <2>2. toReceiver' \in Seq(Sent')
    BY <1>1, <2>1, Wider DEF Types
  <2>3. TrueAnswers \subseteq TrueAnswers'
    BY <1>1 DEF TrueAnswers
  <2>4. toSender' \in Seq(TrueAnswers')
    BY <1>2, <2>3, Wider
  <2> QED
    BY <1>1, <1>4, <2>2, <2>4 DEF Types
<1>8. SenderPlace'
  BY <1>1, <1>3, <1>4 DEF SenderPlace, Sending
<1>9. ReceiverPlace'
  BY <1>5 DEF Inv, ReceiverPlace, ReportsWholeRuns
<1>10. EndIsNear'
  <2>1. Finishing' => expected = Count
    BY <1>3, <1>4 DEF Finishing
  <2> QED
    BY <1>1, <1>3, <1>5, <2>1 DEF EndIsNear
<1>11. AfterFin'
  BY <1>6 DEF AfterFin
<1>12. Credit'
  <2>1. CASE interrupted
    BY <2>1 DEF Credit
  <2>2. CASE ~interrupted
    <3>1. /\ AllFin(stale) /\ expected = credited /\ credited \in {seq, seq + 1}
      BY <1>1, <1>3, <1>6, <2>2 DEF Inv, Credit
    <3>2. credited = seq + 1
      BY <1>3, <1>4, <3>1
    <3>3. Finishing' \/ (pc = "done")' => seq + 1 = Count
      BY <1>3, <1>4 DEF Finishing
    <3> QED
      BY <1>1, <1>3, <1>6, <3>1, <3>2, <3>3 DEF Credit, Sending
  <2> QED
    BY <1>1, <2>1, <2>2 DEF Types
<1> QED
  BY <1>7, <1>8, <1>9, <1>10, <1>11, <1>12 DEF Inv
-----------------------------------------------------------------------------
(* The receiver's steps, with a datagram of the present sender. *)

LEMMA CountIsNat == Count \in Nat /\ 0 \in 0..Count /\ Count \in 0..Count
  BY RdtAssumption DEF RdtAssumption

(* What is at the head of the present sender's datagrams. *)
LEMMA HeadOfSent ==
  ASSUME Inv, toReceiver # <<>>
  PROVE  /\ toReceiver[1] \in Sent /\ Tail(toReceiver) \in Seq(Sent)
         /\ FinsLast(Tail(toReceiver))
         /\ HasFin(Tail(toReceiver)) => HasFin(toReceiver)
         /\ AllFin(toReceiver) => AllFin(Tail(toReceiver)) /\ IsFin(toReceiver[1])
         /\ IsFin(toReceiver[1]) =>
              /\ toReceiver[1].number = Count
              /\ HasFin(toReceiver) /\ AllFin(toReceiver)
         /\ ~IsFin(toReceiver[1]) =>
              /\ toReceiver[1].kind = "DATA"
              /\ toReceiver[1].number \in Nat
              /\ toReceiver[1].number < Count /\ toReceiver[1].number <= seq
<1>1. toReceiver \in Seq(Sent) /\ FinsLast(toReceiver)
  BY DEF Inv, Types, SenderPlace
<1>2. toReceiver[1] \in Sent /\ Tail(toReceiver) \in Seq(Sent)
  BY <1>1, Rest
<1>3. toReceiver[1] \in Datagram /\ (~IsFin(toReceiver[1]) => toReceiver[1].number <= seq)
  BY <1>2, SentIs
<1> QED
  BY <1>1, <1>2, <1>3, FinsOfRest, DatagramIs

(* What taking the head off the line keeps. *)
LEMMA LineShrinks ==
  ASSUME Inv, Line # <<>>, Line' = Tail(Line)
  PROVE  /\ HasFin(Line') => HasFin(Line)
         /\ AllFin(Line) => AllFin(Line')
         /\ FinsFirst(Line) => FinsFirst(Line')
         /\ FinsLast(Line) => FinsLast(Line')
         /\ FinsTogether(Line) /\ FinsTogether(Line')
         /\ FinsFirst(Line) /\ HasFin(Line) => IsFin(Line[1])
         /\ AllFin(Line) => IsFin(Line[1])
         /\ IsFin(Line[1]) => HasFin(Line) /\ FinsFirst(Line)
         /\ IsFin(Line[1]) /\ FinsLast(Line) => AllFin(Line)
<1>1. Line \in Seq(Datagram)
  BY LineIs DEF Inv, Types
<1>2. FinsTogether(Line)
  BY DEF Inv, ReceiverPlace
<1> QED
  BY <1>1, <1>2, FinsOfRest

LEMMA DataServed ==
  ASSUME Inv, stale = <<>>, rpc = "serving", toReceiver # <<>>,
         ~IsFin(toReceiver[1]), toReceiver' = Tail(toReceiver),
         \/ /\ toReceiver[1].number = expected
            /\ expected' = expected + 1 /\ delivered' = delivered + 1
         \/ /\ toReceiver[1].number # expected
            /\ UNCHANGED <<expected, delivered>>
            ,
         toSender' = toSender \/ toSender' = Append(toSender, Packet("ACK", expected')),
         credited' = credited + (delivered' - delivered),
         UNCHANGED <<rpc, announced, pc, seq, stale, finSeen, interrupted>>
  PROVE  Inv'
<1>1. Types /\ UNCHANGED <<Sent, Sending, Finishing>>
  BY DEF Inv, Sent, Sending, Finishing
<1>2. Line # <<>> /\ Line[1] = toReceiver[1] /\ Line' = Tail(Line)
  BY <1>1, LineServed DEF Types
<1>3. ~finSeen /\ ~AllFin(Line)
  BY <1>2, HeadOfSent, LineShrinks DEF Inv, AfterFin
<1>4. expected = delivered /\ expected \in 0..Count /\ delivered \in Nat /\ credited \in Nat
      /\ seq \in 0..Count
  BY DEF Inv, Types, ReceiverPlace
<1>5. \/ /\ toReceiver[1].number = expected /\ expected < Count /\ expected <= seq
         /\ expected' = expected + 1 /\ delivered' = delivered + 1 /\ credited' = credited + 1
      \/ UNCHANGED <<expected, delivered, credited>>
  <2>1. toReceiver[1].number < Count /\ toReceiver[1].number <= seq
    BY HeadOfSent
  <2>2. CASE /\ toReceiver[1].number = expected
             /\ expected' = expected + 1 /\ delivered' = delivered + 1
    <3>1. credited' = credited + 1
      BY <1>4, <2>2
    <3>2. expected < Count /\ expected <= seq
      BY <2>1, <2>2
    <3> QED
      BY <2>2, <3>1, <3>2
  <2>3. CASE UNCHANGED <<expected, delivered>>
    BY <1>4, <2>3
  <2> QED
    BY <2>2, <2>3
<1>6. expected' \in 0..Count /\ delivered' \in Nat /\ credited' \in Nat
      /\ expected <= expected' /\ expected' = delivered'
  <2>1. CASE expected < Count /\ expected' = expected + 1 /\ delivered' = delivered + 1
             /\ credited' = credited + 1
    BY <1>4, <2>1, CountIsNat
  <2>2. CASE UNCHANGED <<expected, delivered, credited>>
    BY <1>4, <2>2
  <2> QED
    BY <1>5, <2>1, <2>2
<1>7. HasFin(Line) => expected = Count /\ UNCHANGED <<expected, delivered, credited>>
  BY <1>2, <1>4, <1>5, LineShrinks, HeadOfSent, CountIsNat DEF Inv, ReceiverPlace
<1>8. Types'
  <2>1. TrueAnswers \subseteq TrueAnswers'
    <3> SUFFICES ASSUME NEW a \in TrueAnswers PROVE a \in TrueAnswers'
      OBVIOUS
    <3>1. a \in Answer /\ a.number \in 0..Count
          /\ (a.kind = "FINACK" => finSeen) /\ (Sending => a.number <= expected)
      BY AnswerIs DEF TrueAnswers
    <3>2. Sending => a.number <= expected'
      BY <1>4, <1>6, <3>1, CountIsNat
    <3> QED
      BY <1>1, <3>1, <3>2 DEF TrueAnswers
  <2>2. Packet("ACK", expected') \in TrueAnswers'
    <3>1. Packet("ACK", expected') \in Answer /\ Packet("ACK", expected').number = expected'
          /\ Packet("ACK", expected').kind = "ACK"
      BY <1>6 DEF Answer, Packet
    <3> QED
      BY <1>6, <3>1 DEF TrueAnswers
  <2>3. toSender \in Seq(TrueAnswers')
    BY <1>1, <2>1, Wider DEF Types
  <2>4. toSender' \in Seq(TrueAnswers')
    BY <2>2, <2>3, Longer
  <2> QED
    BY <1>1, <1>6, <2>4, HeadOfSent DEF Types
<1>9. SenderPlace'
  BY <1>1, HeadOfSent DEF Inv, SenderPlace
<1>10. ReceiverPlace'
  BY <1>2, <1>6, <1>7, LineShrinks DEF Inv, ReceiverPlace, ReportsWholeRuns
<1>11. EndIsNear'
  BY <1>1, <1>2, <1>3, <1>4, <1>5, LineShrinks, CountIsNat DEF Inv, EndIsNear
<1>12. AfterFin'
  BY <1>3 DEF AfterFin
<1>13. Credit'
  <2>1. CASE interrupted
    BY <2>1 DEF Credit
  <2>2. CASE ~interrupted
    <3>1. /\ AllFin(stale) /\ expected = credited
          /\ Sending => credited \in {seq, seq + 1}
          /\ Finishing \/ pc = "done" \/ HasFin(toReceiver) => credited = Count
      BY <1>3, <2>2 DEF Inv, Credit
    <3>2. expected' = credited'
      BY <1>5, <3>1
    <3>3. Sending => credited' \in {seq, seq + 1}
      BY <1>4, <1>5, <3>1
    <3>4. Finishing \/ pc = "done" \/ HasFin(toReceiver') => credited' = Count
      BY <1>4, <1>5, <3>1, HeadOfSent, CountIsNat
    <3> QED
      BY <1>1, <1>3, <3>1, <3>2, <3>3, <3>4 DEF Credit
  <2> QED
    BY <1>1, <2>1, <2>2 DEF Types
<1> QED
  BY <1>8, <1>9, <1>10, <1>11, <1>12, <1>13 DEF Inv

(* A FIN, the first one or a repeated one. *)
LEMMA FinServed ==
  ASSUME Inv, stale = <<>>, toReceiver # <<>>,
         IsFin(toReceiver[1]), toReceiver' = Tail(toReceiver),
         \/ rpc = "serving" /\ announced' = toReceiver[1].number
         \/ rpc = "lingering" /\ announced' = announced
         ,
         rpc' = "lingering", finSeen' = TRUE,
         toSender' = toSender \/ toSender' = Append(toSender, Packet("FINACK", expected)),
         UNCHANGED <<expected, delivered, credited, pc, seq, stale, interrupted>>
  PROVE  Inv'
<1>1. Types /\ UNCHANGED <<Sent, Sending, Finishing>>
  BY DEF Inv, Sent, Sending, Finishing
<1>2. Line # <<>> /\ Line[1] = toReceiver[1] /\ Line' = Tail(Line) /\ Line = toReceiver
  BY <1>1, LineServed, LineIs DEF Types
<1>3. toReceiver[1].number = Count /\ HasFin(toReceiver) /\ AllFin(toReceiver) /\ AllFin(toReceiver')
  BY HeadOfSent
<1>4. ~Sending
  BY <1>3 DEF Inv, SenderPlace
<1>5. announced' = Count /\ delivered \in {0, Count}
  BY <1>2, <1>3 DEF Inv, ReceiverPlace, ReportsWholeRuns
<1>6. AllFin(Line') /\ FinsFirst(Line') /\ FinsLast(Line')
  <2>1. AllFin(Line) /\ FinsFirst(Line) /\ FinsLast(Line)
    BY <1>1, <1>2, <1>3, OnlyFins DEF Types
  <2> QED
    BY <1>2, <2>1, LineShrinks
<1>7. Types'
  <2>1. TrueAnswers \subseteq TrueAnswers'
    BY <1>1, <1>4 DEF TrueAnswers
  <2>2. Packet("FINACK", expected) \in TrueAnswers'
    <3>1. Packet("FINACK", expected) \in Answer
      BY <1>1 DEF Answer, Packet, Types
    <3> QED
      BY <1>1, <1>4, <3>1 DEF TrueAnswers
  <2>3. toSender \in Seq(TrueAnswers')
    BY <1>1, <2>1, Wider DEF Types
  <2>4. toSender' \in Seq(TrueAnswers')
    BY <2>2, <2>3, Longer
  <2> QED
    BY <1>1, <2>4, HeadOfSent DEF Types
<1>8. SenderPlace'
  BY <1>1, <1>4, HeadOfSent DEF Inv, SenderPlace
<1>9. ReceiverPlace'
  BY <1>2, <1>5, <1>6, LineShrinks DEF ReceiverPlace, ReportsWholeRuns
<1>10. EndIsNear'
  BY <1>6 DEF EndIsNear
<1>11. AfterFin'
  BY <1>1, <1>3, <1>4 DEF AfterFin
<1>12. Credit'
  BY <1>1, <1>3, <1>4 DEF Inv, Credit
<1> QED
  BY <1>7, <1>8, <1>9, <1>10, <1>11, <1>12 DEF Inv

(* Late data is read and dropped. *)
LEMMA DataIgnored ==
  ASSUME Inv, stale = <<>>, rpc = "lingering", toReceiver # <<>>,
         ~IsFin(toReceiver[1]), toReceiver' = Tail(toReceiver),
         UNCHANGED <<toSender, pc, placeVars>>
  PROVE  Inv'
<1>1. Types /\ UNCHANGED <<Sent, Sending, Finishing, TrueAnswers>>
  BY DEF Inv, Sent, Sending, Finishing, TrueAnswers, placeVars
<1>2. /\ UNCHANGED <<rpc, expected, delivered, announced, seq, stale>>
      /\ UNCHANGED <<credited, finSeen, interrupted>>
  BY DEF placeVars
<1>3. Line # <<>> /\ Line[1] = toReceiver[1] /\ Line' = Tail(Line)
  BY <1>1, <1>2, LineServed DEF Types
<1>4. Types'
  BY <1>1, <1>2, HeadOfSent DEF Types
<1>5. SenderPlace'
  BY <1>1, <1>2, HeadOfSent DEF Inv, SenderPlace
<1>6. ReceiverPlace'
  BY <1>2, <1>3, LineShrinks DEF Inv, ReceiverPlace, ReportsWholeRuns
<1>7. EndIsNear'
  BY <1>1, <1>2, <1>3, LineShrinks DEF Inv, EndIsNear
<1>8. AfterFin'
  BY <1>1, <1>2, HeadOfSent DEF Inv, AfterFin
<1>9. Credit'
  BY <1>1, <1>2, HeadOfSent DEF Inv, Credit
<1> QED
  BY <1>4, <1>5, <1>6, <1>7, <1>8, <1>9 DEF Inv

LEMMA LingerOver ==
  ASSUME Inv, rpc = "lingering", rpc' = "returned",
         UNCHANGED <<toReceiver, toSender, pc, expected, delivered, announced, seq, stale>>,
         UNCHANGED <<credited, finSeen, interrupted>>
  PROVE  Inv'
<1>1. Types /\ UNCHANGED <<Sent, Sending, Finishing, Line>>
  BY DEF Inv, Sent, Sending, Finishing, Line
<1>2. Types'
  <2>1. TrueAnswers \subseteq TrueAnswers'
    BY <1>1 DEF TrueAnswers
  <2>2. toSender' \in Seq(TrueAnswers')
    BY <1>1, <2>1, Wider DEF Types
  <2> QED
    BY <1>1, <2>2 DEF Types
<1>3. SenderPlace'
  BY <1>1 DEF Inv, SenderPlace
<1>4. ReceiverPlace'
  BY <1>1 DEF Inv, ReceiverPlace, ReportsWholeRuns
<1>5. EndIsNear'
  BY <1>1 DEF Inv, EndIsNear
<1>6. AfterFin'
  BY <1>1 DEF Inv, AfterFin
<1>7. Credit'
  BY <1>1 DEF Inv, Credit
<1> QED
  BY <1>2, <1>3, <1>4, <1>5, <1>6, <1>7 DEF Inv
-----------------------------------------------------------------------------
(* The steps between the transfers. *)

LEMMA NextRunInv ==
  ASSUME Inv, NextRun
  PROVE  Inv'
<1>1. /\ rpc = "returned" /\ rpc' = "serving" /\ expected' = 0 /\ delivered' = 0
      /\ UNCHANGED <<toReceiver, toSender, pc, seq, stale, credited, finSeen, interrupted>>
  BY DEF NextRun, channelVars, senderVars, historyVars
<1>2. Types /\ UNCHANGED <<Sent, Sending, Finishing, Line>>
  BY <1>1 DEF Inv, Sent, Sending, Finishing, Line
<1>3. Types'
  <2>1. TrueAnswers \subseteq TrueAnswers'
    BY <1>1, <1>2 DEF TrueAnswers
  <2>2. toSender' \in Seq(TrueAnswers')
    BY <1>1, <1>2, <2>1, Wider DEF Types
  <2> QED
    BY <1>1, <1>2, <2>2, CountIsNat DEF Types
<1>4. SenderPlace'
  BY <1>1, <1>2 DEF Inv, SenderPlace
<1>5. ReceiverPlace'
  BY <1>1, <1>2 DEF Inv, ReceiverPlace, ReportsWholeRuns
<1>6. EndIsNear'
  BY <1>1, <1>2 DEF Inv, EndIsNear
<1>7. AfterFin'
  BY <1>1, <1>2 DEF Inv, AfterFin
<1>8. Credit'
  BY <1>1, <1>2 DEF Inv, Credit
<1> QED
  BY <1>3, <1>4, <1>5, <1>6, <1>7, <1>8 DEF Inv

LEMMA ServeStaleInv ==
  ASSUME Inv, ServeStale
  PROVE  Inv'
<1> DEFINE m == stale[1]
           taken == rpc = "serving" /\ m = Packet("DATA", expected)
           ends == rpc = "serving" /\ m.kind = "FIN"
<1>1. Types
  BY DEF Inv
<1>2. stale # <<>> /\ stale' = Tail(stale) /\ Head(stale) = m /\ m \in Datagram
  BY <1>1, Rest DEF ServeStale, Types
<1>3. /\ rpc # "returned"
      /\ expected' = IF taken THEN expected + 1 ELSE expected
      /\ delivered' = IF taken THEN delivered + 1 ELSE delivered
      /\ announced' = IF ends THEN m.number ELSE announced
      /\ rpc' = IF ends THEN "lingering" ELSE rpc
      /\ UNCHANGED <<toReceiver, toSender, pc, seq, credited, finSeen, interrupted>>
  BY <1>2 DEF ServeStale, channelVars, senderVars, historyVars
<1>4. UNCHANGED <<Sent, Sending, Finishing>>
  BY <1>3 DEF Sent, Sending, Finishing
<1>5. Line # <<>> /\ Line[1] = m /\ Line' = Tail(Line)
  BY <1>1, <1>2, <1>3, LineServedStale DEF Types
<1>6. ~finSeen
  BY <1>2 DEF Inv, AfterFin
<1>7. taken => ~IsFin(m) /\ expected < Count
  <2>1. taken => m.kind = "DATA" /\ m.number = expected
    BY DEF Packet
  <2> QED
    BY <1>2, <2>1, DatagramIs DEF IsFin
<1>8. IsFin(m) <=> m.kind = "FIN"
  BY DEF IsFin
<1>9. m.kind = "FIN" => m.number = Count
  BY <1>2, <1>8, DatagramIs
<1> HIDE DEF m
<1>10. expected \in 0..Count /\ delivered \in Nat /\ Count \in Nat
  BY <1>1, CountIsNat DEF Types
<1>11. /\ expected' \in 0..Count /\ delivered' \in Nat
       /\ rpc' \in {"serving", "lingering"}
       /\ rpc' = "serving" => rpc = "serving" /\ ~IsFin(m)
  BY <1>1, <1>3, <1>7, <1>8, <1>10 DEF Types
<1>12. Types'
  <2>1. toSender = <<>>
    <3>1. SUFFICES ASSUME toSender # <<>> PROVE FALSE
      OBVIOUS
    <3>2. toSender[1] \in TrueAnswers
      BY <1>1, <3>1, Rest DEF Types
    <3> QED
      BY <1>2, <3>2, AnswerIs
  <2>2. toSender' \in Seq(TrueAnswers')
    BY <1>3, <2>1
  <2>3. stale' \in Seq(Datagram)
    BY <1>1, <1>2, Rest DEF Types
  <2> QED
    BY <1>1, <1>3, <1>4, <1>11, <2>2, <2>3 DEF Types
<1>13. SenderPlace'
  BY <1>3, <1>4 DEF Inv, SenderPlace
<1>14. HasFin(Line) /\ rpc = "serving" => ~taken
  BY <1>5, <1>7, <1>10, LineShrinks DEF Inv, ReceiverPlace
<1>15. ReceiverPlace'
  <2>1. rpc' = "serving" => expected' = delivered'
    BY <1>3, <1>10, <1>11 DEF Inv, ReceiverPlace
  <2>2. rpc' # "serving" => announced' = Count /\ delivered' \in {0, Count}
    <3>1. CASE ends
      BY <1>3, <1>5, <1>7, <1>8, <1>9, <3>1, LineShrinks DEF Inv, ReceiverPlace
    <3>2. CASE ~ends
      BY <1>3, <3>2 DEF Inv, ReceiverPlace, ReportsWholeRuns
    <3> QED
      BY <3>1, <3>2
  <2>3. FinsTogether(Line')
    BY <1>5, LineShrinks
  <2>4. rpc' = "serving" /\ HasFin(Line') => expected' = Count \/ (expected' = 0 /\ FinsFirst(Line'))
    BY <1>3, <1>5, <1>11, <1>14, LineShrinks DEF Inv, ReceiverPlace
  <2>5. rpc' # "serving" => FinsFirst(Line')
    <3>1. CASE ends
      BY <1>5, <1>8, <3>1, LineShrinks
    <3>2. CASE ~ends
      BY <1>3, <1>5, <3>2, LineShrinks DEF Inv, ReceiverPlace
    <3> QED
      BY <3>1, <3>2
  <2> QED
    BY <2>1, <2>2, <2>3, <2>4, <2>5 DEF ReceiverPlace, ReportsWholeRuns
<1>16. EndIsNear'
  <2>1. SUFFICES ASSUME Finishing PROVE EndIsNear'
    BY <1>4 DEF EndIsNear
  <2>2. FinsLast(Line) /\ FinsLast(Line')
    BY <1>5, <2>1, LineShrinks DEF Inv, EndIsNear
  <2>3. rpc = "serving" => expected = Count \/ (expected = 0 /\ AllFin(Line))
    BY <2>1 DEF Inv, EndIsNear
  <2>4. rpc = "serving" => ~taken
    BY <1>5, <1>7, <1>10, <2>3, LineShrinks
  <2>5. ends => AllFin(Line')
    BY <1>5, <1>8, <2>2, LineShrinks
  <2>6. rpc # "serving" => AllFin(Line')
    BY <1>5, <2>1, LineShrinks DEF Inv, EndIsNear
  <2>7. rpc' = "serving" => expected' = Count \/ (expected' = 0 /\ AllFin(Line'))
    BY <1>3, <1>5, <1>11, <2>3, <2>4, LineShrinks
  <2>8. rpc' # "serving" => AllFin(Line')
    BY <1>3, <2>5, <2>6
  <2> QED
    BY <2>2, <2>7, <2>8 DEF EndIsNear
<1>17. AfterFin'
  BY <1>3, <1>6 DEF AfterFin
<1>18. Credit'
  <2>1. CASE interrupted
    BY <1>3, <2>1 DEF Credit
  <2>2. CASE ~interrupted
    <3>1. AllFin(stale) /\ credited = 0
      BY <1>2, <2>2 DEF Inv, Credit
    <3>2. AllFin(stale') /\ IsFin(m)
      BY <1>1, <1>2, <3>1, FinsOfRest DEF Types, m
    <3>3. rpc' # "serving"
      BY <1>11, <3>2
    <3>4. /\ Sending => credited \in {seq, seq + 1}
          /\ Finishing \/ pc = "done" \/ finSeen \/ HasFin(toReceiver) => credited = Count
      BY <2>2 DEF Inv, Credit
    <3> QED
      BY <1>3, <1>4, <3>1, <3>2, <3>3, <3>4 DEF Credit
  <2> QED
    BY <1>1, <2>1, <2>2 DEF Types
<1> QED
  BY <1>12, <1>13, <1>15, <1>16, <1>17, <1>18 DEF Inv

(* What is left of the line when a sender's process is gone. *)
LEMMA LineCut ==
  ASSUME Inv, NEW k \in 0..Len(toReceiver)
  PROVE  /\ stale \o SubSeq(toReceiver, 1, k) \in Seq(Datagram)
         /\ Len(stale \o SubSeq(toReceiver, 1, k)) <= Len(Line)
         /\ \A i \in 1..Len(stale \o SubSeq(toReceiver, 1, k)) :
              (stale \o SubSeq(toReceiver, 1, k))[i] = Line[i]
         /\ stale = <<>> /\ AllFin(toReceiver) => AllFin(stale \o SubSeq(toReceiver, 1, k))
<1>1. /\ stale \in Seq(Datagram) /\ toReceiver \in Seq(Datagram) /\ Line \in Seq(Datagram)
      /\ Len(stale) \in Nat /\ Len(toReceiver) \in Nat
      /\ Len(Line) = Len(stale) + Len(toReceiver)
      /\ \A i \in 1..Len(stale) : Line[i] = stale[i]
      /\ \A i \in 1..Len(toReceiver) : Line[Len(stale) + i] = toReceiver[i]
  BY LineIs DEF Inv, Types
<1>2. PICK part : part = SubSeq(toReceiver, 1, k)
  OBVIOUS
<1>3. /\ part \in Seq(Datagram) /\ Len(part) = k
      /\ \A i \in 1..k : part[i] = toReceiver[i]
  <2>1. \A i \in 1..Len(toReceiver) : toReceiver[i] \in Datagram
    BY <1>1, ElementOfSeq
  <2> QED
    BY <1>1, <1>2, <2>1, SubSeqProperties
<1>4. PICK whole : whole = stale \o part
  OBVIOUS
<1>5. /\ whole \in Seq(Datagram)
      /\ Len(whole) = Len(stale) + k
      /\ \A i \in 1..(Len(stale) + k) :
           whole[i] = IF i <= Len(stale) THEN stale[i] ELSE part[i - Len(stale)]
  <2>1. /\ whole \in Seq(Datagram)
        /\ Len(whole) = Len(stale) + Len(part)
        /\ \A i \in 1..(Len(stale) + Len(part)) :
             whole[i] = IF i <= Len(stale) THEN stale[i] ELSE part[i - Len(stale)]
    <3>1. part \in Seq(Datagram)
      BY <1>3
    <3> QED
      BY <1>1, <1>4, <3>1, ConcatProperties
  <2> QED
    BY <1>3, <2>1
<1>6. Len(whole) <= Len(Line)
  BY <1>1, <1>5
<1>7. ASSUME NEW i \in 1..Len(whole)
      PROVE  whole[i] = Line[i]
  <2>1. CASE i <= Len(stale)
    BY <1>1, <1>5, <2>1
  <2>2. CASE ~ (i <= Len(stale))
    <3>1. i - Len(stale) \in 1..k /\ i - Len(stale) \in 1..Len(toReceiver)
          /\ Len(stale) + (i - Len(stale)) = i
      BY <1>1, <1>5, <2>2
    <3> QED
      BY <1>1, <1>3, <1>5, <2>2, <3>1
  <2> QED
    BY <2>1, <2>2
<1>8. ASSUME stale = <<>>, AllFin(toReceiver)
      PROVE  AllFin(whole)
  <2>1. Line = toReceiver
    BY <1>8, LineIs DEF Inv, Types
  <2> QED
    BY <1>1, <1>5, <1>6, <1>7, <1>8, <2>1, FinsOfPart
<1> QED
  BY <1>2, <1>4, <1>5, <1>6, <1>7, <1>8

LEMMA NewSenderInv ==
  ASSUME Inv, NewSender
  PROVE  Inv'
<1>1. /\ pc' = (IF Count = 0 THEN "fin" ELSE "window") /\ seq' = 0
      /\ toReceiver' = <<>> /\ toSender' = <<>>
      /\ credited' = 0 /\ finSeen' = FALSE /\ interrupted' = ~finSeen
      /\ UNCHANGED <<rpc, expected, delivered, announced>>
  BY DEF NewSender, receiverVars
<1>2. PICK k \in 0..Len(toReceiver) : stale' = stale \o SubSeq(toReceiver, 1, k)
  BY DEF NewSender
<1>3. Types /\ Count \in Nat
  BY CountIsNat DEF Inv
<1>4. /\ stale' \in Seq(Datagram)
      /\ Len(stale') <= Len(Line)
      /\ \A i \in 1..Len(stale') : stale'[i] = Line[i]
      /\ stale = <<>> /\ AllFin(toReceiver) => AllFin(stale')
  BY <1>2, LineCut
<1>5. Line' = stale' /\ Line \in Seq(Datagram)
  <2>1. stale' \o <<>> = stale'
    BY <1>4, ConcatEmptySeq
  <2> QED
    BY <1>1, <1>3, <2>1, LineIs DEF Line, Types
<1>6. /\ HasFin(Line') => HasFin(Line)
      /\ FinsFirst(Line) => FinsFirst(Line')
      /\ FinsTogether(Line) => FinsTogether(Line')
  BY <1>4, <1>5, FinsOfPart
<1>7. Types'
  <2>1. toReceiver' \in Seq(Sent') /\ toSender' \in Seq(TrueAnswers')
    BY <1>1
  <2>2. pc' \in {"window", "await", "fin", "finwait", "done", "failed"}
        /\ interrupted' \in BOOLEAN /\ finSeen' \in BOOLEAN
    BY <1>1, <1>3 DEF Types
  <2> QED
    BY <1>1, <1>3, <1>4, <2>1, <2>2 DEF Types
<1>8. ~HasFin(<<>>) /\ FinsLast(<<>>)
  BY DEF HasFin, FinsLast
<1>9. SenderPlace'
  BY <1>1, <1>3, <1>8 DEF SenderPlace, Sending
<1>10. ReceiverPlace'
  BY <1>1, <1>6 DEF Inv, ReceiverPlace, ReportsWholeRuns
<1>11. EndIsNear'
  <2>1. CASE Count # 0
    BY <1>1, <2>1 DEF EndIsNear, Finishing
  <2>2. CASE Count = 0
    <3>1. \A d \in Datagram : IsFin(d)
      BY <2>2, DatagramIs
    <3>2. AllFin(Line') /\ Line' \in Seq(Datagram)
      BY <1>4, <1>5, <3>1, ElementOfSeq DEF AllFin
    <3>3. FinsLast(Line')
      BY <3>2, OnlyFins
    <3>4. expected' = Count
      BY <1>1, <1>3, <2>2 DEF Types
    <3> QED
      BY <3>2, <3>3, <3>4 DEF EndIsNear
  <2> QED
    BY <2>1, <2>2
<1>12. AfterFin'
  BY <1>1 DEF AfterFin
<1>13. Credit'
  <2>1. CASE ~finSeen
    BY <1>1, <2>1 DEF Credit
  <2>2. CASE finSeen
    <3>1. AllFin(stale') /\ (rpc' = "serving" => expected' = 0)
      BY <1>1, <1>4, <2>2 DEF Inv, AfterFin
    <3>2. /\ Sending' => credited' \in {seq', seq' + 1}
          /\ Finishing' \/ pc' = "done" => credited' = Count
          /\ ~HasFin(toReceiver')
      BY <1>1, <1>8 DEF Finishing
    <3> QED
      BY <1>1, <3>1, <3>2 DEF Credit
  <2> QED
    BY <1>3, <2>1, <2>2 DEF Types
<1> QED
  BY <1>7, <1>9, <1>10, <1>11, <1>12, <1>13 DEF Inv
-----------------------------------------------------------------------------
(* Every step of the system is one of these. *)

(* A step that reads no FIN leaves finSeen, and credits what it delivers. *)
LEMMA NoFinRead ==
  ASSUME Jitter = FALSE, Inv, TransferStep,
         rpc' = rpc \/ rpc # "serving",
         \/ UNCHANGED toReceiver
         \/ \E m \in Sent : toReceiver' = Append(toReceiver, m)
         \/ rpc # "lingering"
         \/ toReceiver # <<>> /\ ~IsFin(toReceiver[1])
  PROVE  /\ UNCHANGED <<finSeen, stale, sender, interrupted>>
         /\ credited' = credited + (delivered' - delivered)
         /\ UNCHANGED delivered => UNCHANGED credited
<1>1. /\ finSeen' = (finSeen \/ ServeFin \/ LingerFin)
      /\ credited' = credited + (delivered' - delivered)
      /\ UNCHANGED <<stale, sender, interrupted>>
      /\ toReceiver \in Seq(Sent) /\ finSeen \in BOOLEAN
      /\ credited \in Nat /\ delivered \in Nat
  BY DEF TransferStep, Inv, Types
<1>2. ~ServeFin
  BY DEF ServeFin
<1>3. ASSUME LingerFin PROVE FALSE
  <2>1. PICK i \in Deliverable(toReceiver) :
          toReceiver[i].kind = "FIN" /\ toReceiver' = RemoveAt(toReceiver, i)
    BY <1>3 DEF LingerFin
  <2>2. i = 1 /\ toReceiver # <<>> /\ toReceiver' = Tail(toReceiver)
    BY <1>1, <2>1, Heads
  <2>3. IsFin(toReceiver[1]) /\ rpc = "lingering"
    BY <1>3, <2>1, <2>2 DEF IsFin, LingerFin
  <2>4. Len(toReceiver) \in Nat \ {0} /\ Len(toReceiver') = Len(toReceiver) - 1
    BY <1>1, <2>2, Rest
  <2>5. ASSUME NEW m \in Sent, toReceiver' = Append(toReceiver, m) PROVE FALSE
    <3>1. Len(toReceiver') = Len(toReceiver) + 1
      BY <1>1, <2>5, Longer
    <3> QED
      BY <2>4, <3>1
  <2> QED
    BY <2>3, <2>4, <2>5
<1>4. finSeen' = finSeen
  BY <1>1, <1>2, <1>3
<1>5. UNCHANGED delivered => UNCHANGED credited
  BY <1>1
<1> QED
  BY <1>1, <1>4, <1>5

(* The answer at the head of the channel. *)
LEMMA AnswerRead ==
  ASSUME Jitter = FALSE, Inv, NEW i \in Deliverable(toSender)
  PROVE  /\ i = 1 /\ toSender # <<>>
         /\ RemoveAt(toSender, i) = Tail(toSender)
         /\ Tail(toSender) \in Seq(TrueAnswers)
<1>1. toSender \in Seq(TrueAnswers)
  BY DEF Inv, Types
<1>2. i = 1 /\ toSender # <<>> /\ RemoveAt(toSender, i) = Tail(toSender)
  BY <1>1, Heads
<1>3. Tail(toSender) \in Seq(TrueAnswers)
  BY <1>1, <1>2, Rest
<1> QED
  BY <1>2, <1>3

LEMMA DatagramRead ==
  ASSUME Jitter = FALSE, Inv, NEW i \in Deliverable(toReceiver)
  PROVE  /\ i = 1 /\ toReceiver # <<>>
         /\ RemoveAt(toReceiver, i) = Tail(toReceiver)
         /\ IsFin(toReceiver[1]) <=> toReceiver[1].kind = "FIN"
<1>1. toReceiver \in Seq(Sent)
  BY DEF Inv, Types
<1> QED
  BY <1>1, Heads DEF IsFin

LEMMA SenderInv ==
  ASSUME Jitter = FALSE, Inv, TransferStep, SenderNext
  PROVE  Inv'
<1>1. Types /\ Packet("FIN", Count) \in Sent
      /\ (Sending => Packet("DATA", seq) \in Sent)
  BY SendsDatagrams DEF Inv, Types, SenderPlace
<1>2. toSender \in Seq(TrueAnswers)
  BY <1>1 DEF Types
<1>3. CASE SendNext
  <2>1. /\ Sending /\ pc' = "await"
        /\ UNCHANGED <<toSender, seq, rpc, expected, delivered, announced>>
        /\ \/ UNCHANGED toReceiver
           \/ toReceiver' = Append(toReceiver, Packet("DATA", seq))
    BY <1>3 DEF SendNext, Transmit, Sending, receiverVars
  <2>2. UNCHANGED placeVars
    BY <1>1, <2>1, NoFinRead DEF placeVars
  <2> QED
    BY <1>2, <2>1, <2>2, DataSent, NothingSent
<1>4. CASE AwaitAck
  <2>1. /\ pc = "await" /\ UNCHANGED <<toReceiver, rpc, expected, delivered, announced>>
    BY <1>4 DEF AwaitAck, receiverVars
  <2>2. UNCHANGED <<credited, finSeen, stale, interrupted>>
    BY <2>1, NoFinRead
  <2>3. PICK i \in Deliverable(toSender) :
          /\ toSender' = RemoveAt(toSender, i)
          /\ IF toSender[i].kind = "ACK" /\ toSender[i].number > seq
             THEN /\ seq' = seq + 1
                  /\ pc' = IF seq' < Count THEN "window" ELSE "fin"
             ELSE UNCHANGED <<seq, pc>>
    BY <1>4 DEF AwaitAck
  <2>4. /\ i = 1 /\ toSender # <<>> /\ toSender' = Tail(toSender)
        /\ toSender' \in Seq(TrueAnswers)
    BY <2>3, AnswerRead
  <2>5. CASE toSender[1].kind = "ACK" /\ toSender[1].number > seq
    BY <2>1, <2>2, <2>3, <2>4, <2>5, AckTaken
  <2>6. CASE ~ (toSender[1].kind = "ACK" /\ toSender[1].number > seq)
    <3>1. UNCHANGED <<seq, pc>>
      BY <2>3, <2>4, <2>6
    <3>2. Sending /\ pc' \in {"window", "await"} /\ UNCHANGED placeVars
      BY <2>1, <2>2, <3>1 DEF Sending, placeVars
    <3> QED
      BY <2>1, <2>4, <3>2, NothingSent
  <2> QED
    BY <2>5, <2>6
<1>5. CASE Timeout
  <2>1. /\ Sending
        /\ UNCHANGED <<toSender, seq, rpc, expected, delivered, announced>>
        /\ \/ pc' = "failed" /\ UNCHANGED toReceiver
           \/ /\ pc' = "await"
              /\ \/ UNCHANGED toReceiver
                 \/ toReceiver' = Append(toReceiver, Packet("DATA", seq))
    BY <1>5 DEF Timeout, Transmit, Sending, receiverVars, channelVars
  <2>2. UNCHANGED placeVars
    BY <1>1, <2>1, NoFinRead DEF placeVars
  <2> QED
    BY <1>2, <2>1, <2>2, DataSent, NothingSent
<1>6. CASE FinSend /\ UNCHANGED seq
  <2>1. /\ Finishing /\ pc' = "finwait"
        /\ UNCHANGED <<toSender, seq, rpc, expected, delivered, announced>>
        /\ \/ UNCHANGED toReceiver
           \/ toReceiver' = Append(toReceiver, Packet("FIN", Count))
    BY <1>6 DEF FinSend, Transmit, Finishing, receiverVars
  <2>2. UNCHANGED placeVars
    BY <1>1, <2>1, NoFinRead DEF placeVars
  <2> QED
    BY <1>2, <2>1, <2>2, FinSent, NothingSent
<1>7. CASE FinReceive /\ UNCHANGED seq
  <2>1. /\ Finishing /\ pc' \in {"done", "fin"}
        /\ UNCHANGED <<toReceiver, seq, rpc, expected, delivered, announced>>
        /\ \E i \in Deliverable(toSender) : toSender' = RemoveAt(toSender, i)
    BY <1>7 DEF FinReceive, Finishing, receiverVars
  <2>2. UNCHANGED placeVars
    BY <2>1, NoFinRead DEF placeVars
  <2>3. toSender' \in Seq(TrueAnswers)
    BY <2>1, AnswerRead
  <2> QED
    BY <2>1, <2>2, <2>3, NothingSent
<1>8. CASE (FinTimeout \/ FinGiveUp) /\ UNCHANGED seq
  <2>1. /\ Finishing /\ pc' \in {"fin", "failed"}
        /\ UNCHANGED <<toReceiver, toSender, seq, rpc, expected, delivered, announced>>
    BY <1>8 DEF FinTimeout, FinGiveUp, Finishing, receiverVars, channelVars
  <2>2. UNCHANGED placeVars
    BY <2>1, NoFinRead DEF placeVars
  <2> QED
    BY <1>2, <2>1, <2>2, NothingSent
<1> QED
  BY <1>3, <1>4, <1>5, <1>6, <1>7, <1>8 DEF SenderNext, Finish

LEMMA ReceiverInv ==
  ASSUME Mode = "gbn", Jitter = FALSE, Inv, TransferStep,
         \/ stale = <<>> /\ ReceiverStep
         \/ LingerEnd(LingerQuiet) /\ UNCHANGED <<senderVars, seq>>
  PROVE  Inv'
<1>1. UNCHANGED <<pc, seq>>
  BY DEF ReceiverStep, ReceiverNext, senderVars
<1>2. UNCHANGED <<stale, interrupted>>
  BY DEF TransferStep
<1>3. CASE ServeData /\ stale = <<>>
  <2>1. /\ rpc = "serving" /\ UNCHANGED <<rpc, announced>>
    BY <1>3 DEF ServeData
  <2>2. PICK i \in Deliverable(toReceiver) :
          /\ toReceiver[i].kind = "DATA"
          /\ toReceiver' = RemoveAt(toReceiver, i)
          /\ OnDataCumulative(toReceiver[i].number)
    BY <1>3 DEF ServeData, OnData
  <2>3. /\ i = 1 /\ toReceiver # <<>> /\ toReceiver' = Tail(toReceiver)
        /\ ~IsFin(toReceiver[1])
    BY <2>2, DatagramRead DEF IsFin
  <2>4. UNCHANGED finSeen /\ credited' = credited + (delivered' - delivered)
    BY <2>1, <2>3, NoFinRead
  <2>5. \/ /\ toReceiver[1].number = expected
           /\ expected' = expected + 1 /\ delivered' = delivered + 1
        \/ /\ toReceiver[1].number # expected
           /\ UNCHANGED <<expected, delivered>>
    BY <2>2, <2>3 DEF OnDataCumulative
  <2>6. toSender' = toSender \/ toSender' = Append(toSender, Packet("ACK", expected'))
    BY <2>2 DEF OnDataCumulative, Transmit
  <2> QED
    BY <1>1, <1>2, <1>3, <2>1, <2>3, <2>4, <2>5, <2>6, DataServed
<1>4. CASE ServeFin /\ stale = <<>>
  <2>1. PICK i \in Deliverable(toReceiver) :
          /\ toReceiver[i].kind = "FIN"
          /\ toReceiver' = RemoveAt(toReceiver, i)
          /\ announced' = toReceiver[i].number
    BY <1>4 DEF ServeFin
  <2>2. /\ toReceiver # <<>> /\ IsFin(toReceiver[1]) /\ toReceiver' = Tail(toReceiver)
        /\ announced' = toReceiver[1].number
    BY <2>1, DatagramRead
  <2>3. /\ rpc = "serving" /\ rpc' = "lingering"
        /\ toSender' = toSender \/ toSender' = Append(toSender, Packet("FINACK", expected))
        /\ UNCHANGED <<expected, delivered>>
    BY <1>4 DEF ServeFin, Transmit
  <2>4. finSeen' = TRUE
    <3>1. finSeen' = (finSeen \/ ServeFin \/ LingerFin)
      BY DEF TransferStep
    <3> QED
      BY <1>4, <3>1
  <2>5. UNCHANGED credited
    BY <2>3 DEF TransferStep, Inv, Types
  <2> QED
    BY <1>1, <1>2, <1>4, <2>2, <2>3, <2>4, <2>5, FinServed
<1>5. CASE LingerFin /\ stale = <<>>
  <2>1. PICK i \in Deliverable(toReceiver) :
          /\ toReceiver[i].kind = "FIN"
          /\ toReceiver' = RemoveAt(toReceiver, i)
    BY <1>5 DEF LingerFin
  <2>2. toReceiver # <<>> /\ IsFin(toReceiver[1]) /\ toReceiver' = Tail(toReceiver)
    BY <2>1, DatagramRead
  <2>3. /\ rpc = "lingering" /\ rpc' = "lingering"
        /\ toSender' = toSender \/ toSender' = Append(toSender, Packet("FINACK", expected))
        /\ UNCHANGED <<expected, delivered, announced>>
    BY <1>5 DEF LingerFin, Transmit, receiverVars
  <2>4. finSeen' = TRUE
    <3>1. finSeen' = (finSeen \/ ServeFin \/ LingerFin)
      BY DEF TransferStep
    <3> QED
      BY <1>5, <3>1
  <2>5. UNCHANGED credited
    BY <2>3 DEF TransferStep, Inv, Types
  <2> QED
    BY <1>1, <1>2, <1>5, <2>2, <2>3, <2>4, <2>5, FinServed
<1>6. CASE LingerIgnore /\ stale = <<>>
  <2>1. PICK i \in Deliverable(toReceiver) :
          /\ toReceiver[i].kind # "FIN"
          /\ toReceiver' = RemoveAt(toReceiver, i)
    BY <1>6 DEF LingerIgnore
  <2>2. toReceiver # <<>> /\ ~IsFin(toReceiver[1]) /\ toReceiver' = Tail(toReceiver)
    BY <2>1, DatagramRead
  <2>3. /\ rpc = "lingering"
        /\ UNCHANGED <<rpc, expected, delivered, announced, toSender>>
    BY <1>6 DEF LingerIgnore, receiverVars
  <2>4. UNCHANGED placeVars
    BY <1>1, <1>2, <2>2, <2>3, NoFinRead DEF placeVars
  <2> QED
    BY <1>1, <1>6, <2>2, <2>3, <2>4, DataIgnored
<1>7. CASE LingerEnd(LingerQuiet)
  <2>1. /\ rpc = "lingering" /\ rpc' = "returned"
        /\ UNCHANGED <<toReceiver, toSender, expected, delivered, announced>>
    BY <1>7 DEF LingerEnd, channelVars
  <2>2. UNCHANGED <<credited, finSeen>>
    BY <2>1, NoFinRead
  <2> QED
    BY <1>1, <1>2, <2>1, <2>2, LingerOver
<1> QED
  BY <1>3, <1>4, <1>5, <1>6, <1>7 DEF ReceiverStep, ReceiverNext

LEMMA ServerStepInv ==
  ASSUME Mode = "gbn", Jitter = FALSE, Inv, [ServerNext]_serverVars
  PROVE  Inv'
<1>1. CASE TransferStep
  BY <1>1, SenderInv, ReceiverInv DEF TransferStep
<1>2. CASE ServeStale
  BY <1>2, ServeStaleInv
<1>3. CASE NextRun
  BY <1>3, NextRunInv
<1>4. CASE Abort
  <2>1. pc' = "failed" /\ UNCHANGED <<toReceiver, toSender, placeVars>>
    BY <1>4 DEF Abort, channelVars, receiverVars, historyVars, placeVars
  <2> QED
    BY <2>1, NothingSent DEF Inv, Types
<1>5. CASE NewSender
  BY <1>5, NewSenderInv
<1>6. CASE UNCHANGED serverVars
  <2>1. /\ UNCHANGED <<toReceiver, toSender, rpc, expected, delivered, announced, pc, seq>>
        /\ UNCHANGED <<stale, credited, finSeen, interrupted>>
    BY <1>6 DEF serverVars, vars, channelVars, receiverVars, senderVars, historyVars
  <2>2. UNCHANGED <<Sent, TrueAnswers, Sending, Finishing, Line>>
    BY <2>1 DEF Sent, TrueAnswers, Sending, Finishing, Line
  <2>3. Types' /\ SenderPlace'
    BY <2>1, <2>2 DEF Inv, Types, SenderPlace
  <2>4. ReceiverPlace' /\ EndIsNear'
    BY <2>1, <2>2 DEF Inv, ReceiverPlace, ReportsWholeRuns, EndIsNear
  <2>5. AfterFin' /\ Credit'
    BY <2>1, <2>2 DEF Inv, AfterFin, Credit
  <2> QED
    BY <2>3, <2>4, <2>5 DEF Inv
<1> QED
  BY <1>1, <1>2, <1>3, <1>4, <1>5, <1>6 DEF ServerNext

LEMMA InvShows ==
  ASSUME Inv
  PROVE  SuccessIsTrue /\ NeverTwoAhead /\ ReportsWholeRuns
<1>1. SuccessIsTrue
  BY DEF Inv, Credit, SuccessIsTrue
<1>2. ReportsWholeRuns
  BY DEF Inv, ReceiverPlace
<1>3. ASSUME ~interrupted, pc \in {"window", "await"}
      PROVE  /\ credited \in {seq, seq + 1}
             /\ \A i \in DOMAIN toSender : toSender[i].number <= seq + 1
  <2>1. Sending /\ ~finSeen
    BY <1>3 DEF Sending, Inv, AfterFin
  <2>2. credited \in {seq, seq + 1} /\ (rpc = "serving" => expected = credited)
    BY <1>3, <2>1 DEF Inv, Credit
  <2>3. toSender \in Seq(TrueAnswers) /\ seq \in 0..Count /\ Count \in Nat
    BY CountIsNat DEF Inv, Types
  <2>4. ASSUME NEW i \in DOMAIN toSender
        PROVE  toSender[i].number <= seq + 1
    <3>1. toSender[i] \in TrueAnswers
      BY <2>3, LenProperties, ElementOfSeq
    <3>2. toSender[i].number \in 0..Count /\ toSender[i].number <= credited
      BY <2>1, <2>2, <3>1, AnswerIs
    <3> QED
      BY <2>2, <2>3, <3>2
  <2> QED
    BY <2>2, <2>4
<1>4. NeverTwoAhead
  BY <1>3 DEF NeverTwoAhead
<1> QED
  BY <1>1, <1>2, <1>4

(***************************************************************************)
(* Whatever is lost, however many packets a transfer has, however many     *)
(* senders come one after another and whenever they are killed: success is *)
(* true unless the sender before left in the middle, the ends stay within  *)
(* one packet, and main of rdt_receiver.py reports whole runs.  The        *)
(* receiver is the one for stop-and-wait, and JITTER 0, as it is in        *)
(* rdt_common.py.                                                          *)
(***************************************************************************)
THEOREM Safety ==
  ASSUME Mode = "gbn", Jitter = FALSE
  PROVE  ServerSpec => [](SuccessIsTrue /\ NeverTwoAhead /\ ReportsWholeRuns)
<1>1. ServerInit => Inv
  BY InitInv
<1>2. Inv /\ [ServerNext]_serverVars => Inv'
  BY ServerStepInv
<1>3. Inv => SuccessIsTrue /\ NeverTwoAhead /\ ReportsWholeRuns
  BY InvShows
<1> QED
  BY <1>1, <1>2, <1>3, PTL DEF ServerSpec

-----------------------------------------------------------------------------
(***************************************************************************)
(* One transfer by itself, StopAndWait's own specification: here the       *)
(* datagrams may overtake each other.  The ends bracket each other, and    *)
(* every datagram on its way is true.                                      *)
(***************************************************************************)
TrueToSend(m) ==
  \/ m.kind = "DATA" /\ m.number <= seq /\ m.number < Count
  \/ m.kind = "FIN" /\ m.number = Count /\ expected = Count

TrueToAnswer(m) ==
  \/ m.kind = "ACK" /\ m.number <= expected
  \/ m.kind = "FINACK" /\ rpc # "serving"

AloneData == {m \in Message : TrueToSend(m)}
AloneAnswers == {m \in Message : TrueToAnswer(m)}

OneApart == seq <= expected /\ expected <= seq + 1

AllThere ==
  /\ rpc # "serving" => delivered = Count /\ announced = Count
  /\ pc = "done" => rpc # "serving"

AloneInv ==
  /\ TypeOK
  /\ toReceiver \in Seq(AloneData)
  /\ toSender \in Seq(AloneAnswers)
  /\ OneApart
  /\ AllThere
  /\ delivered = expected
  /\ Sending => seq < Count
  /\ pc \in {"fin", "finwait", "done"} => seq = Count
  /\ pc # "failed" => stalls < MaxRetries

(* Receiving a datagram leaves the others in the channel. *)
LEMMA RemoveAtInSeq ==
  ASSUME NEW S, NEW s \in Seq(S), NEW i \in DOMAIN s
  PROVE  RemoveAt(s, i) \in Seq(S)
<1>1. /\ Len(s) \in Nat
      /\ i \in 1..Len(s)
      /\ \A k \in 1..Len(s) : s[k] \in S
  BY LenProperties, ElementOfSeq
<1>2. SubSeq(s, 1, i - 1) \in Seq(S)
  BY <1>1, SubSeqProperties
<1>3. SubSeq(s, i + 1, Len(s)) \in Seq(S)
  BY <1>1, SubSeqProperties
<1> QED
  BY <1>2, <1>3, ConcatProperties DEF RemoveAt

(* Sending adds at most the datagram sent, and counts at most one loss. *)
LEMMA TransmitToReceiver ==
  ASSUME NEW S, NEW datagram \in S, toReceiver \in Seq(S), lost \in 0..MaxLoss,
         Transmit(toReceiver, datagram)
  PROVE  toReceiver' \in Seq(S) /\ lost' \in 0..MaxLoss
<1>1. Append(toReceiver, datagram) \in Seq(S)
  BY AppendProperties
<1>2. MaxLoss \in Nat
  BY RdtAssumption DEF RdtAssumption
<1> QED
  BY <1>1, <1>2 DEF Transmit

LEMMA TransmitToSender ==
  ASSUME NEW S, NEW datagram \in S, toSender \in Seq(S), lost \in 0..MaxLoss,
         Transmit(toSender, datagram)
  PROVE  toSender' \in Seq(S) /\ lost' \in 0..MaxLoss
<1>1. Append(toSender, datagram) \in Seq(S)
  BY AppendProperties
<1>2. MaxLoss \in Nat
  BY RdtAssumption DEF RdtAssumption
<1> QED
  BY <1>1, <1>2 DEF Transmit

(* Whatever may be delivered next is somewhere in the channel. *)
LEMMA DeliverableInDomain ==
  ASSUME NEW channel, NEW i \in Deliverable(channel)
  PROVE  i \in DOMAIN channel
  BY DEF Deliverable

(* A datagram received was one of the channel's, and the rest stay. *)
LEMMA Received ==
  ASSUME NEW S, NEW channel \in Seq(S), NEW i \in Deliverable(channel)
  PROVE  channel[i] \in S /\ RemoveAt(channel, i) \in Seq(S)
<1>1. i \in DOMAIN channel
  BY DeliverableInDomain
<1>2. i \in 1..Len(channel)
  BY <1>1, LenProperties
<1> QED
  BY <1>1, <1>2, RemoveAtInSeq, ElementOfSeq

LEMMA AloneInit == Init => AloneInv
<1> SUFFICES ASSUME Init PROVE AloneInv
  OBVIOUS
<1> USE RdtAssumption, ReceiverAssumption DEF RdtAssumption, ReceiverAssumption
<1>1. TypeOK
  BY DEF Init, TypeOK, ChannelInit, ReceiverInit, SenderInit, ChannelTypeOK,
         ReceiverTypeOK, SenderTypeOK
<1>2. toReceiver \in Seq(AloneData) /\ toSender \in Seq(AloneAnswers)
  BY DEF Init, ChannelInit
<1>3. OneApart /\ AllThere
  BY DEF Init, ReceiverInit, SenderInit, OneApart, AllThere
<1> QED
  BY <1>1, <1>2, <1>3 DEF Init, AloneInv, ReceiverInit, SenderInit, Sending

(* What was true to tell stays true. *)
LEMMA AloneStaysTrue ==
  ASSUME AloneInv,
         seq' \in Nat, seq <= seq',
         expected' \in 0..Count, expected <= expected',
         rpc # "serving" => rpc' # "serving"
  PROVE  /\ toReceiver \in Seq(AloneData')
         /\ toSender \in Seq(AloneAnswers')
<1> USE RdtAssumption DEF RdtAssumption
<1>1. /\ seq \in Nat /\ expected \in 0..Count
      /\ toReceiver \in Seq(AloneData)
      /\ toSender \in Seq(AloneAnswers)
  BY DEF AloneInv, TypeOK, ReceiverTypeOK
<1>2. \A m \in Message : m.number \in 0..Count
  BY DEF Message
<1>3. AloneData \subseteq AloneData'
  BY <1>1, <1>2 DEF AloneData, TrueToSend
<1>4. AloneAnswers \subseteq AloneAnswers'
  BY <1>1, <1>2 DEF AloneAnswers, TrueToAnswer
<1> QED
  BY <1>1, <1>3, <1>4, SeqMonotonic

(* Packets are messages, whatever their kind. *)
LEMMA PacketIsMessage ==
  ASSUME NEW kind \in {"DATA", "ACK", "FIN", "FINACK", "SACK"}, NEW number \in 0..Count
  PROVE  /\ Packet(kind, number) \in Message
         /\ Packet(kind, number).kind = kind
         /\ Packet(kind, number).number = number
  BY DEF Packet, Message

(* The channels' share of the invariant. *)
LEMMA AloneChannels ==
  ASSUME toReceiver' \in Seq(AloneData'), toSender' \in Seq(AloneAnswers'),
         lost' \in 0..MaxLoss
  PROVE  ChannelTypeOK'
<1>1. AloneData' \subseteq Message /\ AloneAnswers' \subseteq Message
  BY DEF AloneData, AloneAnswers
<1>2. toReceiver' \in Seq(Message) /\ toSender' \in Seq(Message)
  BY <1>1, SeqMonotonic
<1> QED
  BY <1>2 DEF ChannelTypeOK

(***************************************************************************)
(* The sender.  A packet goes out first, or again, as long as seq is less  *)
(* than Count; an acknowledgement above seq says that the packet arrived.  *)
(***************************************************************************)
LEMMA AloneSend ==
  ASSUME AloneInv, SendNext \/ Timeout
  PROVE  AloneInv'
<1> USE RdtAssumption, ReceiverAssumption DEF RdtAssumption, ReceiverAssumption
<1>1. /\ Sending /\ pc' \in {"await", "failed"}
      /\ UNCHANGED <<receiverVars, toSender, tries, seq>>
      /\ Transmit(toReceiver, Packet("DATA", seq)) \/ UNCHANGED channelVars
  BY DEF SendNext, Timeout, Sending, channelVars
<1>2. seq \in 0..Count /\ expected \in 0..Count /\ seq < Count
  BY <1>1 DEF AloneInv, TypeOK, ReceiverTypeOK
<1>3. toReceiver \in Seq(AloneData') /\ toSender \in Seq(AloneAnswers')
  BY <1>1, <1>2, AloneStaysTrue DEF receiverVars
<1>4. Packet("DATA", seq) \in AloneData'
  BY <1>1, <1>2, PacketIsMessage DEF AloneData, TrueToSend
<1>5. toReceiver' \in Seq(AloneData') /\ lost' \in 0..MaxLoss
  BY <1>1, <1>3, <1>4, TransmitToReceiver DEF AloneInv, TypeOK, ChannelTypeOK, channelVars
<1>6. toSender' \in Seq(AloneAnswers') /\ ChannelTypeOK'
  BY <1>1, <1>3, <1>5, AloneChannels
<1>7. stalls' \in 0..(MaxRetries + 1) /\ resent' \in Nat /\ (pc' # "failed" => stalls' < MaxRetries)
  <2>1. stalls \in 0..(MaxRetries + 1) /\ resent \in Nat /\ stalls < MaxRetries
    BY <1>1 DEF AloneInv, TypeOK, SenderTypeOK, Sending
  <2>2. CASE SendNext
    BY <2>1, <2>2 DEF SendNext
  <2>3. CASE Timeout
    BY <2>1, <2>3 DEF Timeout
  <2> QED
    BY <2>2, <2>3
<1>8. TypeOK'
  BY <1>1, <1>6, <1>7 DEF AloneInv, TypeOK, ReceiverTypeOK, SenderTypeOK, receiverVars
<1> QED
  BY <1>1, <1>2, <1>5, <1>6, <1>7, <1>8
     DEF AloneInv, OneApart, AllThere, Sending, receiverVars

LEMMA AloneAwaitAck == ASSUME AloneInv, AwaitAck PROVE AloneInv'
<1> USE RdtAssumption, ReceiverAssumption DEF RdtAssumption, ReceiverAssumption
<1>1. PICK i \in Deliverable(toSender) :
        /\ toSender' = RemoveAt(toSender, i)
        /\ IF toSender[i].kind = "ACK" /\ toSender[i].number > seq
           THEN /\ seq' = seq + 1
                /\ pc' = IF seq' < Count THEN "window" ELSE "fin"
           ELSE UNCHANGED <<seq, pc>>
  BY DEF AwaitAck
<1>2. /\ pc = "await" /\ seq \in 0..Count /\ expected \in 0..Count /\ seq < Count
      /\ UNCHANGED <<receiverVars, toReceiver, lost, stalls, resent, tries>>
  BY DEF AwaitAck, AloneInv, TypeOK, ReceiverTypeOK, Sending
<1>3. seq' \in Nat /\ seq <= seq'
  BY <1>1, <1>2
<1>4. toReceiver \in Seq(AloneData') /\ toSender \in Seq(AloneAnswers')
  BY <1>2, <1>3, AloneStaysTrue DEF receiverVars
<1>5. toSender[i] \in AloneAnswers' /\ toSender' \in Seq(AloneAnswers')
  BY <1>1, <1>4, Received
<1>6. toSender[i].kind = "ACK" => toSender[i].number \in 0..expected
  BY <1>2, <1>5 DEF AloneAnswers, TrueToAnswer, Message, receiverVars
<1>7. ChannelTypeOK'
  BY <1>2, <1>4, <1>5, AloneChannels DEF AloneInv, TypeOK, ChannelTypeOK
<1>8. /\ seq' \in 0..Count /\ seq' <= expected /\ expected <= seq' + 1
      /\ pc' \in {"await", "window", "fin"}
      /\ pc' \in {"await", "window"} => seq' < Count
      /\ pc' = "fin" => seq' = Count
  BY <1>1, <1>2, <1>6 DEF AloneInv, OneApart
<1>9. TypeOK'
  BY <1>2, <1>7, <1>8 DEF AloneInv, TypeOK, ReceiverTypeOK, SenderTypeOK, receiverVars
<1> QED
  BY <1>2, <1>4, <1>5, <1>8, <1>9
     DEF AloneInv, OneApart, AllThere, Sending, receiverVars

(***************************************************************************)
(* The closing handshake.  FIN is true to send because nothing is missing; *)
(* a FINACK that arrives says that the receiver has seen it.               *)
(***************************************************************************)
LEMMA AloneFinSend == ASSUME AloneInv, FinSend, UNCHANGED seq PROVE AloneInv'
<1> USE RdtAssumption, ReceiverAssumption
    DEF RdtAssumption, ReceiverAssumption
<1>1. /\ pc = "fin" /\ pc' = "finwait" /\ tries < MaxRetries /\ tries' = tries + 1
      /\ UNCHANGED <<receiverVars, seq, toSender, stalls, resent>>
  BY DEF FinSend
<1>2. /\ seq \in 0..Count /\ expected \in 0..Count
      /\ seq = Count /\ expected = Count
  BY <1>1 DEF AloneInv, TypeOK, ReceiverTypeOK, OneApart
<1>3. toReceiver \in Seq(AloneData') /\ toSender \in Seq(AloneAnswers')
  BY <1>1, <1>2, AloneStaysTrue DEF receiverVars
<1>4. Packet("FIN", Count) \in AloneData'
  BY <1>1, <1>2, PacketIsMessage DEF AloneData, TrueToSend, receiverVars
<1>5. toReceiver' \in Seq(AloneData') /\ lost' \in 0..MaxLoss
  BY <1>3, <1>4, TransmitToReceiver DEF FinSend, AloneInv, TypeOK, ChannelTypeOK
<1>6. ChannelTypeOK' /\ toReceiver' \in Seq(AloneData') /\ toSender' \in Seq(AloneAnswers')
  BY <1>1, <1>3, <1>5, AloneChannels
<1>7. TypeOK'
  BY <1>1, <1>6
     DEF AloneInv, TypeOK, ReceiverTypeOK, SenderTypeOK, receiverVars
<1> QED
  BY <1>1, <1>2, <1>6, <1>7
     DEF AloneInv, OneApart, AllThere, Sending, receiverVars

LEMMA AloneFinReceive == ASSUME AloneInv, FinReceive, UNCHANGED seq PROVE AloneInv'
<1> USE RdtAssumption, ReceiverAssumption
    DEF RdtAssumption, ReceiverAssumption
<1>1. PICK i \in Deliverable(toSender) :
        /\ toSender' = RemoveAt(toSender, i)
        /\ pc' = IF toSender[i].kind = "FINACK" THEN "done" ELSE "fin"
  BY DEF FinReceive
<1>2. /\ pc = "finwait" /\ seq \in 0..Count /\ expected \in 0..Count /\ seq = Count
      /\ UNCHANGED <<receiverVars, seq, toReceiver, lost, stalls, resent, tries>>
  BY DEF FinReceive, AloneInv, TypeOK, ReceiverTypeOK
<1>3. toReceiver \in Seq(AloneData') /\ toSender \in Seq(AloneAnswers')
  BY <1>2, AloneStaysTrue DEF receiverVars
<1>4. toSender[i] \in AloneAnswers' /\ toSender' \in Seq(AloneAnswers')
  BY <1>1, <1>3, Received
<1>5. pc' = "done" => rpc' # "serving"
  BY <1>1, <1>2, <1>4 DEF AloneAnswers, TrueToAnswer
<1>6. ChannelTypeOK' /\ toReceiver' \in Seq(AloneData') /\ toSender' \in Seq(AloneAnswers')
  BY <1>2, <1>3, <1>4, AloneChannels DEF AloneInv, TypeOK, ChannelTypeOK
<1>7. TypeOK'
  BY <1>1, <1>2, <1>6
     DEF AloneInv, TypeOK, ReceiverTypeOK, SenderTypeOK, receiverVars
<1> QED
  BY <1>1, <1>2, <1>5, <1>6, <1>7
     DEF AloneInv, OneApart, AllThere, Sending, receiverVars

LEMMA AloneFinTimeout == ASSUME AloneInv, FinTimeout, UNCHANGED seq PROVE AloneInv'
<1> USE RdtAssumption, ReceiverAssumption
    DEF RdtAssumption, ReceiverAssumption
<1>1. /\ pc = "finwait" /\ pc' = "fin"
      /\ ticks' = IF rpc = "lingering" /\ ticks < LingerRtos THEN ticks + 1 ELSE ticks
      /\ UNCHANGED <<rpc, expected, delivered, buffer, maxBuffered, announced>>
      /\ UNCHANGED <<channelVars, seq, stalls, resent, tries>>
  BY DEF FinTimeout
<1>2. ChannelTypeOK' /\ toReceiver' \in Seq(AloneData') /\ toSender' \in Seq(AloneAnswers')
  BY <1>1 DEF AloneInv, TypeOK, ChannelTypeOK, AloneData, AloneAnswers, TrueToSend, TrueToAnswer,
              channelVars
<1>3. TypeOK'
  BY <1>1, <1>2 DEF AloneInv, TypeOK, ReceiverTypeOK, SenderTypeOK
<1> QED
  BY <1>1, <1>2, <1>3 DEF AloneInv, OneApart, AllThere, Sending

LEMMA AloneFinGiveUp == ASSUME AloneInv, FinGiveUp, UNCHANGED seq PROVE AloneInv'
<1>1. /\ pc' = "failed"
      /\ UNCHANGED <<channelVars, receiverVars, seq, stalls, resent, tries>>
  BY DEF FinGiveUp
<1>2. ChannelTypeOK' /\ toReceiver' \in Seq(AloneData') /\ toSender' \in Seq(AloneAnswers')
  BY <1>1 DEF AloneInv, TypeOK, ChannelTypeOK, AloneData, AloneAnswers, TrueToSend, TrueToAnswer,
              channelVars, receiverVars
<1>3. TypeOK'
  BY <1>1, <1>2 DEF AloneInv, TypeOK, ReceiverTypeOK, SenderTypeOK, receiverVars
<1> QED
  BY <1>1, <1>2, <1>3
     DEF AloneInv, OneApart, AllThere, Sending, receiverVars

(***************************************************************************)
(* The receiver.  The packet it takes was sent, so expected stays within   *)
(* seq; the acknowledgement it returns names what it has.              *)
(***************************************************************************)
LEMMA AloneServeData ==
  ASSUME Mode = "gbn", AloneInv, ServeData, UNCHANGED <<senderVars, seq>>
  PROVE  AloneInv'
<1> USE RdtAssumption, ReceiverAssumption DEF RdtAssumption, ReceiverAssumption
<1>1. PICK i \in Deliverable(toReceiver) :
        /\ toReceiver[i].kind = "DATA"
        /\ toReceiver' = RemoveAt(toReceiver, i)
        /\ OnDataCumulative(toReceiver[i].number)
  BY DEF ServeData, OnData
<1>2. /\ rpc = "serving" /\ seq \in 0..Count /\ expected \in 0..Count
      /\ toReceiver \in Seq(AloneData)
      /\ UNCHANGED <<rpc, announced, ticks, buffer, maxBuffered, senderVars, seq>>
  BY <1>1 DEF ServeData, OnDataCumulative, AloneInv, TypeOK, ReceiverTypeOK
<1>3. toReceiver[i] \in AloneData
  BY <1>2, Received
<1>4. toReceiver[i].number <= seq /\ toReceiver[i].number < Count
  BY <1>1, <1>3 DEF AloneData, TrueToSend
<1>5. /\ expected' \in 0..Count /\ expected <= expected' /\ expected' <= seq + 1
      /\ delivered' = expected'
  BY <1>1, <1>2, <1>4 DEF OnDataCumulative, AloneInv, OneApart
<1>6. toReceiver \in Seq(AloneData') /\ toSender \in Seq(AloneAnswers')
  BY <1>2, <1>5, AloneStaysTrue
<1>7. toReceiver' \in Seq(AloneData')
  BY <1>1, <1>6, Received
<1>8. Packet("ACK", expected') \in AloneAnswers'
  BY <1>5, PacketIsMessage DEF AloneAnswers, TrueToAnswer
<1>9. toSender' \in Seq(AloneAnswers') /\ lost' \in 0..MaxLoss
  BY <1>1, <1>6, <1>8, TransmitToSender DEF OnDataCumulative, AloneInv, TypeOK, ChannelTypeOK
<1>10. ChannelTypeOK'
  BY <1>7, <1>9, AloneChannels
<1>11. TypeOK'
  BY <1>2, <1>5, <1>10
     DEF AloneInv, TypeOK, ReceiverTypeOK, SenderTypeOK, senderVars
<1>12. OneApart' /\ AllThere'
  BY <1>2, <1>5 DEF AloneInv, OneApart, AllThere, senderVars
<1> QED
  BY <1>2, <1>5, <1>7, <1>9, <1>11, <1>12 DEF AloneInv, Sending, senderVars

LEMMA AloneServeFin ==
  ASSUME AloneInv, ServeFin, UNCHANGED <<senderVars, seq>>
  PROVE  AloneInv'
<1> USE RdtAssumption, ReceiverAssumption
    DEF RdtAssumption, ReceiverAssumption
<1>1. PICK i \in Deliverable(toReceiver) :
        /\ toReceiver[i].kind = "FIN"
        /\ toReceiver' = RemoveAt(toReceiver, i)
        /\ announced' = toReceiver[i].number
  BY DEF ServeFin
<1>2. /\ rpc = "serving" /\ rpc' = "lingering"
      /\ seq \in 0..Count /\ expected \in 0..Count
      /\ toReceiver \in Seq(AloneData)
      /\ UNCHANGED <<expected, delivered, buffer, maxBuffered, ticks, senderVars, seq>>
  BY DEF ServeFin, AloneInv, TypeOK, ReceiverTypeOK, AloneData
<1>3. toReceiver[i] \in AloneData
  BY <1>2, Received
<1>4. expected = Count /\ announced' = Count
  BY <1>1, <1>3 DEF AloneData, TrueToSend
<1>5. toReceiver \in Seq(AloneData') /\ toSender \in Seq(AloneAnswers')
  BY <1>2, AloneStaysTrue
<1>6. toReceiver' \in Seq(AloneData')
  BY <1>1, <1>5, Received
<1>7. Packet("FINACK", expected) \in AloneAnswers'
  BY <1>2, PacketIsMessage DEF AloneAnswers, TrueToAnswer
<1>8. toSender' \in Seq(AloneAnswers') /\ lost' \in 0..MaxLoss
  BY <1>5, <1>7, TransmitToSender DEF ServeFin, AloneInv, TypeOK, ChannelTypeOK
<1>9. ChannelTypeOK' /\ toReceiver' \in Seq(AloneData') /\ toSender' \in Seq(AloneAnswers')
  BY <1>6, <1>8, AloneChannels
<1>10. TypeOK'
  BY <1>2, <1>4, <1>9
     DEF AloneInv, TypeOK, ReceiverTypeOK, SenderTypeOK, senderVars
<1> QED
  BY <1>2, <1>4, <1>9, <1>10
     DEF AloneInv, OneApart, AllThere, Sending, senderVars

LEMMA AloneLinger ==
  ASSUME AloneInv, LingerFin \/ LingerIgnore, UNCHANGED <<senderVars, seq>>
  PROVE  AloneInv'
<1> USE RdtAssumption, ReceiverAssumption
    DEF RdtAssumption, ReceiverAssumption
<1>1. PICK i \in Deliverable(toReceiver) : toReceiver' = RemoveAt(toReceiver, i)
  BY DEF LingerFin, LingerIgnore
<1>2. /\ rpc = "lingering" /\ seq \in 0..Count /\ expected \in 0..Count
      /\ UNCHANGED <<receiverVars, senderVars, seq>>
  BY DEF LingerFin, LingerIgnore, AloneInv, TypeOK, ReceiverTypeOK
<1>3. toReceiver \in Seq(AloneData') /\ toSender \in Seq(AloneAnswers')
  BY <1>2, AloneStaysTrue DEF receiverVars
<1>4. toReceiver' \in Seq(AloneData')
  BY <1>1, <1>3, Received
<1>5. Packet("FINACK", expected) \in AloneAnswers'
  BY <1>2, PacketIsMessage DEF AloneAnswers, TrueToAnswer, receiverVars
<1>6. toSender' \in Seq(AloneAnswers') /\ lost' \in 0..MaxLoss
  <2>1. lost \in 0..MaxLoss
    BY DEF AloneInv, TypeOK, ChannelTypeOK
  <2>2. CASE LingerFin
    BY <1>3, <1>5, <2>1, <2>2, TransmitToSender DEF LingerFin
  <2>3. CASE LingerIgnore
    BY <1>3, <2>1, <2>3 DEF LingerIgnore
  <2> QED
    BY <2>2, <2>3
<1>7. ChannelTypeOK' /\ toReceiver' \in Seq(AloneData') /\ toSender' \in Seq(AloneAnswers')
  BY <1>4, <1>6, AloneChannels
<1>8. TypeOK'
  BY <1>2, <1>7
     DEF AloneInv, TypeOK, ReceiverTypeOK, SenderTypeOK, receiverVars, senderVars
<1> QED
  BY <1>2, <1>7, <1>8
     DEF AloneInv, OneApart, AllThere, Sending, receiverVars, senderVars

LEMMA AloneLingerEnd ==
  ASSUME AloneInv, LingerEnd(LingerQuiet), UNCHANGED <<senderVars, seq>>
  PROVE  AloneInv'
<1>1. /\ rpc = "lingering" /\ rpc' = "returned"
      /\ UNCHANGED <<expected, delivered, buffer, maxBuffered, announced, ticks>>
      /\ UNCHANGED <<channelVars, senderVars, seq>>
  BY DEF LingerEnd
<1>2. seq \in 0..Count /\ expected \in 0..Count
  BY DEF AloneInv, TypeOK, ReceiverTypeOK
<1>3. ChannelTypeOK' /\ toReceiver' \in Seq(AloneData') /\ toSender' \in Seq(AloneAnswers')
  BY <1>1, <1>2, AloneStaysTrue, AloneChannels, RdtAssumption
     DEF RdtAssumption, AloneInv, TypeOK, ChannelTypeOK, channelVars
<1>4. TypeOK'
  BY <1>1, <1>3
     DEF AloneInv, TypeOK, ReceiverTypeOK, SenderTypeOK, senderVars
<1> QED
  BY <1>1, <1>3, <1>4
     DEF AloneInv, OneApart, AllThere, Sending, senderVars

LEMMA AloneNext == ASSUME Mode = "gbn", AloneInv, [Next]_vars PROVE AloneInv'
<1>1. CASE SendNext \/ Timeout
  BY <1>1, AloneSend
<1>2. CASE AwaitAck
  BY <1>2, AloneAwaitAck
<1>3. CASE Finish /\ UNCHANGED seq
  BY <1>3, AloneFinSend, AloneFinReceive, AloneFinTimeout, AloneFinGiveUp DEF Finish
<1>4. CASE ReceiverStep
  BY <1>4, AloneServeData, AloneServeFin, AloneLinger, AloneLingerEnd
     DEF ReceiverStep, ReceiverNext
<1>5. CASE UNCHANGED vars
  BY <1>5
     DEF vars, channelVars, receiverVars, senderVars, AloneInv, TypeOK,
         ChannelTypeOK, ReceiverTypeOK, SenderTypeOK, AloneData, AloneAnswers,
         TrueToSend, TrueToAnswer, OneApart, AllThere, Sending
<1> QED
  BY <1>1, <1>2, <1>3, <1>4, <1>5 DEF Next, SenderNext

LEMMA AloneSenderRefines ==
  ASSUME AloneInv, AloneInv', SenderNext
  PROVE  [Transfer!Next]_(Transfer!vars)
<1> USE DEF Transfer!vars, Outcome, SenderOver
<1>1. CASE SendNext
  BY <1>1 DEF SendNext, receiverVars
<1>2. CASE AwaitAck
  BY <1>2 DEF AwaitAck, receiverVars
<1>3. CASE Timeout
  BY <1>3 DEF Timeout, receiverVars, Transfer!Next, Transfer!GiveUp
<1>4. CASE FinSend
  BY <1>4 DEF FinSend, receiverVars
<1>5. CASE FinReceive
  BY <1>5 DEF FinReceive, receiverVars, AloneInv, AllThere, Transfer!Next, Transfer!Complete
<1>6. CASE FinTimeout
  BY <1>6 DEF FinTimeout
<1>7. CASE FinGiveUp
  BY <1>7 DEF FinGiveUp, receiverVars, Transfer!Next, Transfer!GiveUp
<1> QED
  BY <1>1, <1>2, <1>3, <1>4, <1>5, <1>6, <1>7 DEF SenderNext, Finish

LEMMA AloneReceiverRefines ==
  ASSUME Mode = "gbn", AloneInv, AloneInv', ReceiverStep
  PROVE  [Transfer!Next]_(Transfer!vars)
<1> USE DEF Transfer!vars, Outcome, SenderOver
<1>1. Outcome' = Outcome
  BY DEF ReceiverStep, ReceiverNext, senderVars
<1>2. CASE ServeData
  <2>1. delivered \in 0..Count /\ delivered' \in 0..Count
    BY DEF AloneInv, TypeOK, ReceiverTypeOK
  <2>2. rpc = "serving" /\ rpc' = rpc /\ (delivered' = delivered \/ delivered' = delivered + 1)
    BY <1>2 DEF ServeData, OnData, OnDataCumulative
  <2>3. CASE delivered' = delivered
    BY <1>1, <2>2, <2>3
  <2>4. CASE delivered' = delivered + 1
    <3>1. delivered' \in (delivered + 1)..Count
      BY <2>1, <2>4
    <3> QED
      BY <1>1, <2>2, <3>1 DEF Transfer!Next, Transfer!Deliver
  <2> QED
    BY <2>2, <2>3, <2>4
<1>3. CASE ServeFin
  <2>1. /\ rpc = "serving" /\ rpc' # "serving"
        /\ delivered' = delivered /\ delivered' = Count
    BY <1>3 DEF ServeFin, AloneInv, AllThere
  <2> QED
    BY <1>1, <2>1 DEF Transfer!Next, Transfer!End
<1>4. CASE LingerFin \/ LingerIgnore
  BY <1>1, <1>4 DEF LingerFin, LingerIgnore, receiverVars
<1>5. CASE LingerEnd(LingerQuiet)
  BY <1>1, <1>5 DEF LingerEnd
<1> QED
  BY <1>2, <1>3, <1>4, <1>5 DEF ReceiverStep, ReceiverNext

(***************************************************************************)
(* One stop-and-wait transfer implements the reliable transfer, jitter or  *)
(* none: in order, nothing missing at the end, success only after the end. *)
(***************************************************************************)
THEOREM Reliable ==
  ASSUME Mode = "gbn"
  PROVE  Spec => ImplementsTransfer
<1>1. Init => Transfer!Init
  BY DEF Init, ReceiverInit, SenderInit, Transfer!Init, Outcome, SenderOver
<1>2. AloneInv /\ AloneInv' /\ [Next]_vars => [Transfer!Next]_(Transfer!vars)
  <2> SUFFICES ASSUME AloneInv, AloneInv', [Next]_vars
               PROVE  [Transfer!Next]_(Transfer!vars)
    OBVIOUS
  <2>1. CASE Next
    BY <2>1, AloneSenderRefines, AloneReceiverRefines DEF Next
  <2>2. CASE UNCHANGED vars
    BY <2>2 DEF vars, receiverVars, senderVars, Transfer!vars, Outcome, SenderOver
  <2> QED
    BY <2>1, <2>2
<1>3. Init => AloneInv
  BY AloneInit
<1>4. AloneInv /\ [Next]_vars => AloneInv'
  BY AloneNext
<1> QED
  BY <1>1, <1>2, <1>3, <1>4, PTL DEF Spec, ImplementsTransfer, Transfer!Spec

-----------------------------------------------------------------------------
(***************************************************************************)
(* With a timeout longer than the round trip there is at most one datagram *)
(* between the ends while the sender sends: nothing, and then a datagram   *)
(* was dropped that no retransmission answers for; or the packet; or an    *)
(* acknowledgement that is news.                                           *)
(***************************************************************************)
NothingBetween == toReceiver = <<>> /\ toSender = <<>>

PacketBetween == toReceiver = <<Packet("DATA", seq)>> /\ toSender = <<>>

AckBetween ==
  /\ toReceiver = <<>>
  /\ \E n \in (seq + 1)..Count : toSender = <<Packet("ACK", n)>>

OneBetween ==
  /\ pc = "window" => NothingBetween
  /\ pc = "await" => (NothingBetween /\ resent < lost) \/ PacketBetween \/ AckBetween
  /\ Sending => rpc = "serving"
  /\ resent <= lost

LEMMA OnlyOne ==
  ASSUME NEW x
  PROVE  /\ \A i \in Deliverable(<<x>>) : i = 1 /\ RemoveAt(<<x>>, i) = <<>>
         /\ Deliverable(<<>>) = {}
<1>1. DOMAIN <<x>> = {1} /\ Len(<<x>>) = 1 /\ DOMAIN <<>> = {}
  OBVIOUS
<1>2. SubSeq(<<x>>, 1, 0) = <<>> /\ SubSeq(<<x>>, 2, 1) = <<>>
  <2>1. <<x>> \in Seq({x})
    OBVIOUS
  <2> QED
    BY <2>1
<1>3. RemoveAt(<<x>>, 1) = <<>>
  BY <1>1, <1>2 DEF RemoveAt
<1>4. \A i \in Deliverable(<<x>>) : i = 1
  BY <1>1 DEF Deliverable
<1> QED
  BY <1>1, <1>3, <1>4 DEF Deliverable

(* The one place there is is free: a datagram is sent or dropped. *)
LEMMA SentOrDropped ==
  ASSUME lost \in Nat
  PROVE  /\ \A m : toReceiver = <<>> /\ Transmit(toReceiver, m) =>
                     \/ toReceiver' = <<m>> /\ lost' = lost
                     \/ toReceiver' = <<>> /\ lost' = lost + 1
         /\ \A m : toSender = <<>> /\ Transmit(toSender, m) =>
                     \/ toSender' = <<m>> /\ lost' = lost
                     \/ toSender' = <<>> /\ lost' = lost + 1
<1>1. Capacity # 0
  BY RdtAssumption DEF RdtAssumption
<1>2. \A m : Append(<<>>, m) = <<m>> /\ Len(<<>>) = 0
  OBVIOUS
<1> QED
  BY <1>1, <1>2 DEF Transmit

LEMMA LossGrows ==
  ASSUME AloneInv
  PROVE  /\ lost \in Nat /\ resent \in Nat /\ seq \in Nat
         /\ \A m : Transmit(toReceiver, m) \/ Transmit(toSender, m) =>
                     lost' \in Nat /\ lost <= lost'
<1>1. lost \in Nat /\ resent \in Nat /\ seq \in Nat
  BY RdtAssumption DEF AloneInv, TypeOK, ChannelTypeOK, SenderTypeOK, RdtAssumption
<1> QED
  BY <1>1 DEF Transmit

LEMMA OneBetweenSends ==
  ASSUME Prompt, AloneInv, OneBetween, SenderNext
  PROVE  OneBetween'
<1>0. lost \in Nat /\ resent \in Nat /\ seq \in Nat
  BY LossGrows
<1>1. CASE SendNext
  <2>1. /\ toReceiver = <<>> /\ toSender = <<>> /\ rpc = "serving"
        /\ Transmit(toReceiver, Packet("DATA", seq))
        /\ pc' = "await" /\ toSender' = <<>> /\ rpc' = rpc /\ seq' = seq /\ resent' = resent
    BY <1>1 DEF SendNext, OneBetween, NothingBetween, Sending, receiverVars
  <2>2. \/ toReceiver' = <<Packet("DATA", seq)>> /\ lost' = lost
        \/ toReceiver' = <<>> /\ lost' = lost + 1
    BY <1>0, <2>1, SentOrDropped
  <2> QED
    BY <1>0, <2>1, <2>2 DEF OneBetween, NothingBetween, PacketBetween, Sending
<1>2. CASE Timeout
  <2>1. pc = "await" /\ rpc = "serving" /\ toReceiver = <<>> /\ toSender = <<>>
    BY <1>2 DEF Timeout, TimerExpires, OneBetween, Sending
  <2>2. resent < lost
    BY <2>1 DEF OneBetween, PacketBetween, AckBetween
  <2>3. CASE pc' = "failed" /\ UNCHANGED <<resent, channelVars>>
    BY <2>2, <2>3 DEF OneBetween, Sending, channelVars
  <2>4. CASE /\ resent' = resent + 1 /\ Transmit(toReceiver, Packet("DATA", seq))
             /\ UNCHANGED <<pc, toSender>>
    <3>1. \/ toReceiver' = <<Packet("DATA", seq)>> /\ lost' = lost
          \/ toReceiver' = <<>> /\ lost' = lost + 1
      BY <1>0, <2>1, <2>4, SentOrDropped
    <3>2. rpc' = rpc /\ seq' = seq
      BY <1>2 DEF Timeout, receiverVars
    <3> QED
      BY <1>0, <2>1, <2>2, <2>4, <3>1, <3>2
         DEF OneBetween, NothingBetween, PacketBetween, Sending
  <2> QED
    BY <1>2, <2>3, <2>4 DEF Timeout
<1>3. CASE AwaitAck
  <2>1. PICK i \in Deliverable(toSender) :
          /\ toSender' = RemoveAt(toSender, i)
          /\ IF toSender[i].kind = "ACK" /\ toSender[i].number > seq
             THEN /\ seq' = seq + 1
                  /\ pc' = IF seq' < Count THEN "window" ELSE "fin"
             ELSE UNCHANGED <<seq, pc>>
    BY <1>3 DEF AwaitAck
  <2>2. pc = "await" /\ UNCHANGED <<toReceiver, lost, resent, rpc>>
    BY <1>3 DEF AwaitAck, receiverVars
  <2>3. AckBetween
    BY <2>1, <2>2, OnlyOne DEF OneBetween, NothingBetween, PacketBetween
  <2>4. PICK n \in (seq + 1)..Count : toSender = <<Packet("ACK", n)>>
    BY <2>3 DEF AckBetween
  <2>5. i = 1 /\ toSender' = <<>>
    BY <2>1, <2>4, OnlyOne
  <2>6. toSender[i].kind = "ACK" /\ toSender[i].number > seq
    BY <1>0, <2>4, <2>5 DEF Packet
  <2>7. pc' \in {"window", "fin"}
    BY <2>1, <2>6
  <2> QED
    BY <2>2, <2>3, <2>5, <2>7 DEF OneBetween, NothingBetween, AckBetween, Sending
<1>4. CASE Finish
  <2>1. ~Sending /\ ~Sending' /\ resent' = resent /\ lost' \in Nat /\ lost <= lost'
    BY <1>0, <1>4, LossGrows
       DEF Finish, FinSend, FinReceive, FinTimeout, FinGiveUp, Sending, channelVars
  <2> QED
    BY <1>0, <2>1 DEF OneBetween, Sending
<1> QED
  BY <1>1, <1>2, <1>3, <1>4 DEF SenderNext

LEMMA OneBetweenAnswers ==
  ASSUME Mode = "gbn", AloneInv, OneBetween, ReceiverStep
  PROVE  OneBetween'
<1>0. lost \in Nat /\ resent \in Nat /\ seq \in Nat
  BY LossGrows
<1>1. UNCHANGED <<pc, stalls, resent, tries, seq>>
  BY DEF ReceiverStep, ReceiverNext, senderVars
<1>2. lost' \in Nat /\ lost <= lost'
  BY <1>0, LossGrows
     DEF ReceiverStep, ReceiverNext, ServeData, OnData, OnDataCumulative, OnDataBuffering,
         ServeFin, LingerFin, LingerIgnore, LingerEnd, channelVars
<1>3. CASE ~Sending
  BY <1>0, <1>1, <1>2, <1>3 DEF OneBetween, Sending
<1>4. CASE Sending
  <2>1. rpc = "serving"
    BY <1>4 DEF OneBetween
  <2>2. PICK i \in Deliverable(toReceiver) :
          \/ /\ toReceiver[i].kind = "DATA" /\ toReceiver' = RemoveAt(toReceiver, i)
             /\ OnDataCumulative(toReceiver[i].number) /\ rpc' = rpc
          \/ toReceiver[i].kind = "FIN"
    BY <2>1 DEF ReceiverStep, ReceiverNext, ServeData, OnData, ServeFin, LingerFin,
                LingerIgnore, LingerEnd
  <2>3. pc = "await" /\ PacketBetween
    BY <1>4, <2>2, OnlyOne DEF OneBetween, NothingBetween, AckBetween, Sending
  <2>4. i = 1 /\ toReceiver[i] = Packet("DATA", seq) /\ RemoveAt(toReceiver, i) = <<>>
    BY <2>2, <2>3, OnlyOne DEF PacketBetween
  <2>5. /\ toReceiver' = <<>> /\ rpc' = rpc /\ OnDataCumulative(seq)
    BY <2>2, <2>4 DEF Packet
  <2>6. expected' \in (seq + 1)..Count
    BY <1>0, <1>4, <2>5, RdtAssumption
       DEF OnDataCumulative, AloneInv, OneApart, TypeOK, ReceiverTypeOK, RdtAssumption
  <2>7. \/ toSender' = <<Packet("ACK", expected')>> /\ lost' = lost
        \/ toSender' = <<>> /\ lost' = lost + 1
    BY <1>0, <2>3, <2>5, SentOrDropped DEF OnDataCumulative, PacketBetween
  <2>8. CASE toSender' = <<Packet("ACK", expected')>> /\ lost' = lost
    <3>1. AckBetween'
      BY <1>1, <2>5, <2>6, <2>8 DEF AckBetween
    <3> QED
      BY <1>1, <2>1, <2>3, <2>5, <2>8, <3>1 DEF OneBetween
  <2>9. CASE toSender' = <<>> /\ lost' = lost + 1
    BY <1>0, <1>1, <2>1, <2>3, <2>5, <2>9 DEF OneBetween, NothingBetween
  <2> QED
    BY <2>7, <2>8, <2>9
<1> QED
  BY <1>3, <1>4

(***************************************************************************)
(* Stop-and-wait repeats no packet but for a datagram that was dropped, if *)
(* the timeout is longer than the round trip, jitter or none, and for any  *)
(* number of packets and losses.                                           *)
(***************************************************************************)
THEOREM RepeatsPaidByLoss ==
  ASSUME Mode = "gbn", Prompt
  PROVE  Spec => [](resent <= lost)
<1>1. Init => AloneInv /\ OneBetween
  <2>1. Init => OneBetween
    BY DEF Init, ChannelInit, SenderInit, ReceiverInit, OneBetween, NothingBetween, Sending
  <2> QED
    BY <2>1, AloneInit
<1>2. AloneInv /\ OneBetween /\ [Next]_vars => AloneInv' /\ OneBetween'
  <2> SUFFICES ASSUME AloneInv, OneBetween, [Next]_vars PROVE AloneInv' /\ OneBetween'
    OBVIOUS
  <2>1. CASE UNCHANGED vars
    <3>1. OneBetween'
      BY <2>1 DEF vars, channelVars, receiverVars, senderVars, OneBetween, NothingBetween,
                  PacketBetween, AckBetween, Sending
    <3> QED
      BY <3>1, AloneNext
  <2> QED
    BY <2>1, AloneNext, OneBetweenSends, OneBetweenAnswers DEF Next
<1>3. OneBetween => resent <= lost
  BY DEF OneBetween
<1> QED
  BY <1>1, <1>2, <1>3, PTL DEF Spec
=============================================================================
