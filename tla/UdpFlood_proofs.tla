-------------------------- MODULE UdpFlood_proofs --------------------------
(***************************************************************************)
(* Chapter 7, for every number of packets, end markers and clients, every  *)
(* size of the queue and whatever is lost, refused or duplicated: what the *)
(* server counts as gaps, and when its report is true.                     *)
(*                                                                         *)
(* The argument.  Counting a packet adds as much to received and gaps as   *)
(* to expected and late, in any order of arrival; so gaps are what is      *)
(* missing below expected, but for the late ones.  On a network that keeps *)
(* the order, what was reported, what is counted, what is on its way and   *)
(* what the client will send next follow each other in one line, session   *)
(* by session and number by number.  A client's packets pass along it from *)
(* the queue to the run without changing in number, until one of its end   *)
(* markers is first.                                                       *)
(***************************************************************************)
EXTENDS UdpFlood, SequenceTheorems, FiniteSetTheorems, TLAPS

DataPackets == [kind : {"DATA"}, session : Nat, number : 0..(Count - 1)]

EndMarkers == [kind : {"END"}, session : Nat, number : Nat, lost : Nat]

(* A packet as the histories of a run name it. *)
Named == Nat \X (0..(Count - 1))

DataOf(p) == [kind |-> "DATA", session |-> p[1], number |-> p[2]]

Runs == [received : Nat, expected : 0..Count, gaps : Nat, late : Nat, seen : SUBSET Named]

Types ==
  /\ orderly \in BOOLEAN
  /\ queue \in Seq(DataPackets \cup EndMarkers)
  /\ session \in Nat
  /\ pc \in {"data", "end", "exited"}
  /\ seq \in Nat /\ (pc = "data" => seq < Count)
  /\ sent \in Nat /\ dropped \in Nat
  /\ heard \in SUBSET Nat /\ reported \in SUBSET Nat
  /\ run \in Runs /\ idled \in SUBSET Named

(* What Run.data keeps, in whichever order the packets come. *)
RunCounts ==
  /\ IsFiniteSet(run.seen) /\ IsFiniteSet(idled)
  /\ \A p \in run.seen : p[2] < run.expected
  /\ run.received + run.gaps = run.expected + run.late
  /\ active <=> run.seen # {}
  /\ ~active => run = NewRun

(* What the client puts out next, as far as the order goes. *)
Coming == IF pc = "data" THEN Data(seq) ELSE End

Mark(s) == [kind |-> "END", session |-> s]

Before(d, e) ==
  /\ d.session <= e.session
  /\ d.session = e.session =>
       e.kind = "END" \/ (d.kind = "DATA" /\ d.number < e.number)

(* Sessions reported, packets counted, the queue and what comes next. *)
QueueInLine ==
  /\ \A i, j \in DOMAIN queue : i < j => Before(queue[i], queue[j])
  /\ \A i \in DOMAIN queue : Before(queue[i], Coming)

SeenInLine ==
  /\ \A p \in run.seen \cup idled :
       /\ Before(DataOf(p), Coming)
       /\ \A i \in DOMAIN queue : Before(DataOf(p), queue[i])
  /\ \A p \in idled, q \in run.seen : Before(DataOf(p), DataOf(q))

ReportedInLine ==
  \A s \in reported :
    /\ Before(Mark(s), Coming)
    /\ \A i \in DOMAIN queue : Before(Mark(s), queue[i])
    /\ \A p \in run.seen : Before(Mark(s), DataOf(p))

HeardInLine == \A s \in heard : Before(Mark(s), Coming)

(* The packets of a session that are counted or will be. *)
Arrivals(s) ==
  {p \in Named :
     /\ p[1] = s
     /\ p \in run.seen \cup idled \/ \E i \in DOMAIN queue : queue[i] = DataOf(p)}

(* Some of them are not reported yet. *)
Pending(s) ==
  \/ \E p \in run.seen : p[1] = s
  \/ \E i \in DOMAIN queue : queue[i].kind = "DATA" /\ queue[i].session = s

ArrivalsCounted ==
  \A s \in Nat \ reported :
    /\ \A i \in DOMAIN queue :
         queue[i].kind = "END" /\ queue[i].session = s
           => Cardinality(Arrivals(s)) + queue[i].lost = queue[i].number
    /\ pc # "exited" /\ session = s => Cardinality(Arrivals(s)) + dropped = sent

(* An end marker that was not lost is still behind the packets it ends. *)
MarkerBehind ==
  \A s \in heard :
    Pending(s) => \E i \in DOMAIN queue : queue[i].kind = "END" /\ queue[i].session = s

(* A run of packets of one client has none late. *)
SingleRun ==
  /\ run.received = Cardinality(run.seen)
  /\ (\A p, q \in run.seen : p[1] = q[1]) /\ run.seen # {} =>
       run.late = 0 /\ \E p \in run.seen : run.expected = p[2] + 1

(* What was reported is over. *)
ReportPast ==
  \A r \in ToSet(report) :
    /\ r.end.session \in 0..session
    /\ SessionsOf(r.run) \subseteq 0..r.end.session

InOneLine ==
  /\ QueueInLine /\ SeenInLine /\ ReportedInLine /\ HeardInLine
  /\ ArrivalsCounted
  /\ MarkerBehind
  /\ SingleRun
  /\ ReportPast

Inv == Types /\ RunCounts /\ (orderly => InOneLine /\ ReportTrue)
-----------------------------------------------------------------------------
(* The datagrams, and the queue they stand in. *)

LEMMA CountIsNat == Count \in Nat /\ Count > 0
  BY FloodAssumption DEF FloodAssumption

LEMMA DatagramIs ==
  ASSUME Types, NEW i \in DOMAIN queue
  PROVE  /\ queue[i].kind \in {"DATA", "END"} /\ queue[i].session \in Nat
         /\ queue[i].kind = "DATA" =>
              /\ queue[i] \in DataPackets /\ queue[i].number \in Nat
              /\ queue[i] = DataOf(<<queue[i].session, queue[i].number>>)
              /\ <<queue[i].session, queue[i].number>> \in Named
         /\ queue[i].kind = "END" => queue[i].number \in Nat /\ queue[i].lost \in Nat
<1>1. queue[i] \in DataPackets \cup EndMarkers
  BY LenProperties, ElementOfSeq DEF Types
<1>2. CASE queue[i] \in EndMarkers
  BY <1>2 DEF EndMarkers
<1>3. CASE queue[i] \in DataPackets
  BY <1>3, CountIsNat DEF DataPackets, DataOf, Named
<1> QED
  BY <1>1, <1>2, <1>3

LEMMA NamedIs ==
  ASSUME NEW p \in Named
  PROVE  /\ p[1] \in Nat /\ p[2] \in 0..(Count - 1) /\ p[2] \in Nat /\ p = <<p[1], p[2]>>
         /\ DataOf(p) \in DataPackets
         /\ DataOf(p).kind = "DATA" /\ DataOf(p).session = p[1] /\ DataOf(p).number = p[2]
  BY CountIsNat DEF Named, DataOf, DataPackets

LEMMA FirstRemoved ==
  ASSUME NEW S, NEW s \in Seq(S), 1 \in DOMAIN s
  PROVE  /\ RemoveAt(s, 1) \in Seq(S)
         /\ \A j \in DOMAIN RemoveAt(s, 1) :
              j \in Nat /\ j + 1 \in DOMAIN s /\ RemoveAt(s, 1)[j] = s[j + 1]
         /\ \A j \in DOMAIN s :
              j # 1 => j - 1 \in DOMAIN RemoveAt(s, 1) /\ RemoveAt(s, 1)[j - 1] = s[j]
<1> DEFINE left == SubSeq(s, 1, 0)
           right == SubSeq(s, 2, Len(s))
<1>1. Len(s) \in Nat /\ DOMAIN s = 1..Len(s) /\ \A j \in 1..Len(s) : s[j] \in S
  BY LenProperties, ElementOfSeq
<1>2. left \in Seq(S) /\ Len(left) = 0
  BY <1>1, SubSeqProperties
<1>3. /\ right \in Seq(S) /\ Len(right) = Len(s) - 1
      /\ \A j \in 1..(Len(s) - 1) : right[j] = s[1 + j]
  BY <1>1, SubSeqProperties
<1>4. RemoveAt(s, 1) = left \o right
  BY DEF RemoveAt
<1> HIDE DEF left, right
<1>5. /\ left \o right \in Seq(S)
      /\ Len(left \o right) = Len(s) - 1
      /\ \A j \in 1..(Len(s) - 1) : (left \o right)[j] = s[1 + j]
  <2>1. /\ left \o right \in Seq(S)
        /\ Len(left \o right) = Len(left) + Len(right)
        /\ \A j \in 1..(Len(left) + Len(right)) :
             (left \o right)[j] = IF j <= Len(left) THEN left[j] ELSE right[j - Len(left)]
    BY <1>2, <1>3, ConcatProperties
  <2> QED
    BY <1>1, <1>2, <1>3, <2>1
<1>6. DOMAIN (left \o right) = 1..(Len(s) - 1)
  BY <1>5, LenProperties
<1>7. ASSUME NEW j \in 1..(Len(s) - 1)
      PROVE  j \in Nat /\ j + 1 \in 1..Len(s) /\ (left \o right)[j] = s[j + 1]
  <2>1. 1 + j = j + 1 /\ j \in Nat /\ j + 1 \in 1..Len(s)
    BY <1>1
  <2> QED
    BY <1>5, <2>1
<1>8. ASSUME NEW j \in 1..Len(s), j # 1
      PROVE  j - 1 \in 1..(Len(s) - 1) /\ (left \o right)[j - 1] = s[j]
  <2>1. j - 1 \in 1..(Len(s) - 1) /\ 1 + (j - 1) = j
    BY <1>1, <1>8
  <2> QED
    BY <1>5, <2>1
<1> QED
  BY <1>1, <1>4, <1>5, <1>6, <1>7, <1>8

LEMMA ReceivedIs ==
  ASSUME Types, NEW i, Received(i)
  PROVE  /\ UNCHANGED <<orderly, clientVars>> /\ i \in DOMAIN queue
         /\ queue' \in Seq(DataPackets \cup EndMarkers)
         /\ orderly =>
              /\ i = 1
              /\ \A j \in DOMAIN queue' :
                   j \in Nat /\ j + 1 \in DOMAIN queue /\ queue'[j] = queue[j + 1]
              /\ \A j \in DOMAIN queue :
                   j # 1 => j - 1 \in DOMAIN queue' /\ queue'[j - 1] = queue[j]
<1>1. /\ UNCHANGED <<orderly, clientVars>> /\ i \in DOMAIN queue
      /\ orderly => i = 1
      /\ queue' = RemoveAt(queue, i) \/ (~orderly /\ queue' = queue)
      /\ queue \in Seq(DataPackets \cup EndMarkers)
  BY DEF Received, Types
<1>2. RemoveAt(queue, i) \in Seq(DataPackets \cup EndMarkers)
  <2>1. /\ Len(queue) \in Nat /\ i \in 1..Len(queue)
        /\ \A k \in 1..Len(queue) : queue[k] \in DataPackets \cup EndMarkers
    BY <1>1, LenProperties, ElementOfSeq
  <2>2. SubSeq(queue, 1, i - 1) \in Seq(DataPackets \cup EndMarkers)
    BY <1>1, <2>1, SubSeqProperties
  <2>3. SubSeq(queue, i + 1, Len(queue)) \in Seq(DataPackets \cup EndMarkers)
    BY <1>1, <2>1, SubSeqProperties
  <2> QED
    BY <2>2, <2>3, ConcatProperties DEF RemoveAt
<1> QED
  BY <1>1, <1>2, FirstRemoved

LEMMA AppendedIs ==
  ASSUME Types, NEW d \in DataPackets \cup EndMarkers, queue' = Append(queue, d)
  PROVE  /\ queue' \in Seq(DataPackets \cup EndMarkers)
         /\ Len(queue) \in Nat /\ DOMAIN queue = 1..Len(queue)
         /\ DOMAIN queue' = 1..(Len(queue) + 1)
         /\ \A i \in DOMAIN queue : queue'[i] = queue[i]
         /\ queue'[Len(queue) + 1] = d
<1>1. /\ Append(queue, d) \in Seq(DataPackets \cup EndMarkers)
      /\ Len(Append(queue, d)) = Len(queue) + 1
      /\ \A i \in 1..Len(queue) : Append(queue, d)[i] = queue[i]
      /\ Append(queue, d)[Len(queue) + 1] = d
  BY AppendProperties DEF Types
<1>2. Len(queue) \in Nat /\ DOMAIN queue = 1..Len(queue)
  BY LenProperties DEF Types
<1>3. DOMAIN queue' = 1..Len(queue')
  BY <1>1, LenProperties
<1> QED
  BY <1>1, <1>2, <1>3
-----------------------------------------------------------------------------
(* What is counted, in whichever order it comes. *)

LEMMA CountedIs ==
  ASSUME Types, RunCounts, NEW d \in DataPackets, run' = Counted(d)
  PROVE  /\ run' \in Runs
         /\ run'.seen = run.seen \cup {<<d.session, d.number>>}
         /\ <<d.session, d.number>> \in Named
         /\ run'.received = run.received + 1
         /\ run'.expected = IF d.number >= run.expected THEN d.number + 1 ELSE run.expected
         /\ run'.late = run.late + IF d.number < run.expected THEN 1 ELSE 0
         /\ run'.gaps = run.gaps + IF d.number > run.expected THEN d.number - run.expected ELSE 0
<1>1. /\ run \in Runs /\ d.session \in Nat /\ d.number \in 0..(Count - 1)
      /\ Count \in Nat
  BY CountIsNat DEF Types, DataPackets
<1>2. /\ run.received \in Nat /\ run.expected \in 0..Count /\ run.gaps \in Nat
      /\ run.late \in Nat /\ run.seen \in SUBSET Named
      /\ DOMAIN run = {"received", "expected", "gaps", "late", "seen"}
  BY <1>1 DEF Runs
<1>3. /\ run'.seen = run.seen \cup {<<d.session, d.number>>}
      /\ run'.received = run.received + 1
      /\ run'.expected = IF d.number >= run.expected THEN d.number + 1 ELSE run.expected
      /\ run'.late = run.late + IF d.number < run.expected THEN 1 ELSE 0
      /\ run'.gaps = run.gaps + IF d.number > run.expected THEN d.number - run.expected ELSE 0
  BY <1>2 DEF Counted
<1>4. <<d.session, d.number>> \in Named
  BY <1>1 DEF Named
<1>5. /\ run'.received \in Nat /\ run'.expected \in 0..Count
      /\ run'.gaps \in Nat /\ run'.late \in Nat
  BY <1>1, <1>2, <1>3
<1>6. run'.seen \in SUBSET Named
  BY <1>2, <1>3, <1>4
<1>7. run' = [received |-> run'.received, expected |-> run'.expected, gaps |-> run'.gaps,
              late |-> run'.late, seen |-> run'.seen]
  BY <1>2 DEF Counted
<1> QED
  BY <1>3, <1>4, <1>5, <1>6, <1>7 DEF Runs

LEMMA NewRunIs ==
  /\ NewRun \in Runs /\ NewRun.seen = {} /\ NewRun.received = 0 /\ NewRun.expected = 0
  /\ NewRun.gaps = 0 /\ NewRun.late = 0
  BY CountIsNat DEF NewRun, Runs

LEMMA CountsKept ==
  ASSUME Types, RunCounts, NEW d \in DataPackets, run' = Counted(d), active' = TRUE,
         UNCHANGED idled
  PROVE  RunCounts'
<1>1. /\ d.number \in Nat /\ run.received \in Nat /\ run.expected \in Nat
      /\ run.gaps \in Nat /\ run.late \in Nat
  BY CountIsNat DEF Types, Runs, DataPackets
<1>2. run'.received + run'.gaps = run'.expected + run'.late
  <2>1. run.received + run.gaps = run.expected + run.late
    BY DEF RunCounts
  <2>2. /\ run'.received = run.received + 1
        /\ run'.expected = IF d.number >= run.expected THEN d.number + 1 ELSE run.expected
        /\ run'.late = run.late + IF d.number < run.expected THEN 1 ELSE 0
        /\ run'.gaps = run.gaps + IF d.number > run.expected THEN d.number - run.expected ELSE 0
    BY CountedIs
  <2> QED
    BY <1>1, <2>1, <2>2
<1>3. ASSUME NEW p \in run'.seen
      PROVE  p[2] < run'.expected
  <2>1. run'.expected = IF d.number >= run.expected THEN d.number + 1 ELSE run.expected
    BY CountedIs
  <2>2. CASE p \in run.seen
    <3>1. p[2] < run.expected /\ p[2] \in Nat
      BY <2>2, NamedIs DEF RunCounts, Types, Runs
    <3> QED
      BY <1>1, <2>1, <3>1
  <2>3. CASE p = <<d.session, d.number>>
    BY <1>1, <2>1, <2>3
  <2> QED
    BY <2>2, <2>3, CountedIs
<1>4. IsFiniteSet(run'.seen) /\ run'.seen # {}
  <2>1. run'.seen = run.seen \cup {<<d.session, d.number>>} /\ IsFiniteSet(run.seen)
    BY CountedIs DEF RunCounts
  <2>2. IsFiniteSet(run.seen \cup {<<d.session, d.number>>})
    BY <2>1, FS_AddElement
  <2> QED
    BY <2>1, <2>2
<1> QED
  BY <1>2, <1>3, <1>4 DEF RunCounts

LEMMA AlwaysKept ==
  ASSUME Types, RunCounts, [Next]_vars
  PROVE  Types' /\ RunCounts'
<1>1. CASE StartClient
  BY <1>1, CountIsNat DEF Types, RunCounts, StartClient, serverVars
<1>2. ASSUME NextPacket
      PROVE  /\ seq' \in Nat /\ pc' \in {"data", "end"} /\ (pc' = "data" => seq' < Count)
             /\ UNCHANGED <<orderly, session, heard, serverVars>>
  BY <1>2, CountIsNat DEF Types, NextPacket
<1>3. CASE SendData
  <2>1. NextPacket /\ sent' = sent + 1
        /\ \/ queue' = Append(queue, Data(seq)) /\ dropped' = dropped
           \/ queue' = queue /\ dropped' = dropped + 1
        /\ pc = "data"
    BY <1>3 DEF SendData, NextPacket
  <2>2. Data(seq) \in DataPackets
    BY <2>1, CountIsNat DEF Types, Data, DataPackets
  <2>3. queue' \in Seq(DataPackets \cup EndMarkers) /\ sent' \in Nat /\ dropped' \in Nat
    <3>1. CASE queue' = Append(queue, Data(seq))
      BY <2>1, <2>2, <3>1, AppendedIs DEF Types
    <3>2. CASE UNCHANGED queue
      BY <2>1, <3>2 DEF Types
    <3> QED
      BY <2>1, <3>1, <3>2
  <2>4. /\ seq' \in Nat /\ pc' \in {"data", "end"} /\ (pc' = "data" => seq' < Count)
        /\ UNCHANGED <<orderly, session, heard, serverVars>>
    BY <1>2, <2>1
  <2>5. RunCounts'
    BY <2>4 DEF RunCounts, serverVars
  <2> QED
    BY <2>3, <2>4, <2>5 DEF Types, serverVars
<1>4. CASE Refused
  <2>1. /\ NextPacket
        /\ UNCHANGED <<queue, sent, dropped>>
    BY <1>4 DEF Refused
  <2>2. /\ seq' \in Nat /\ pc' \in {"data", "end"} /\ (pc' = "data" => seq' < Count)
        /\ UNCHANGED <<orderly, session, heard, serverVars>>
    BY <1>2, <2>1
  <2>3. RunCounts'
    BY <2>2 DEF RunCounts, serverVars
  <2> QED
    BY <2>1, <2>2, <2>3 DEF Types, serverVars
<1>5. CASE SendEnd
  <2>1. /\ UNCHANGED <<orderly, session, sent, dropped, serverVars>>
        /\ \/ queue' = Append(queue, End) /\ heard' = heard \cup {session}
           \/ UNCHANGED <<queue, heard>>
        /\ seq' = seq + 1 /\ pc' \in {"end", "exited"}
    BY <1>5 DEF SendEnd
  <2>2. End \in EndMarkers
    BY DEF Types, End, EndMarkers
  <2>3. queue' \in Seq(DataPackets \cup EndMarkers)
    <3>1. CASE queue' = Append(queue, End)
      BY <2>2, <3>1, AppendedIs
    <3>2. CASE UNCHANGED queue
      BY <3>2 DEF Types
    <3> QED
      BY <2>1, <3>1, <3>2
  <2>4. heard' \in SUBSET Nat /\ seq' \in Nat
    <3>1. session \in Nat /\ heard \in SUBSET Nat /\ seq \in Nat
      BY DEF Types
    <3>2. heard' = heard \cup {session} \/ heard' = heard
      BY <2>1
    <3>3. heard' \in SUBSET Nat
      BY <3>1, <3>2
    <3>4. seq' \in Nat
      BY <2>1, <3>1
    <3> QED
      BY <3>3, <3>4
  <2>5. RunCounts'
    BY <2>1 DEF RunCounts, serverVars
  <2> QED
    BY <2>1, <2>3, <2>4, <2>5 DEF Types, serverVars
<1>6. CASE ServeData
  <2>1. PICK i \in DOMAIN queue : queue[i].kind = "DATA" /\ Received(i) /\ run' = Counted(queue[i])
    BY <1>6 DEF ServeData
  <2>2. queue[i] \in DataPackets /\ active' = TRUE /\ reported' = reported /\ idled' = idled
    BY <1>6, <2>1, DatagramIs DEF ServeData
  <2>3. run' \in Runs /\ RunCounts'
    BY <2>1, <2>2, CountedIs, CountsKept
  <2>4. queue' \in Seq(DataPackets \cup EndMarkers) /\ UNCHANGED <<orderly, clientVars>>
    BY <2>1, ReceivedIs
  <2> QED
    BY <2>2, <2>3, <2>4 DEF Types, clientVars
<1>7. ASSUME active' = FALSE, run' = NewRun, IsFiniteSet(idled')
      PROVE  RunCounts' /\ run' \in Runs
  BY <1>7, NewRunIs, FS_EmptySet DEF RunCounts
<1>8. CASE ServeEnd
  <2>1. PICK i \in DOMAIN queue :
          Received(i) /\ (reported' = reported \/ reported' = reported \cup {queue[i].session})
    BY <1>8 DEF ServeEnd
  <2>2. reported' \in SUBSET Nat
    <3>1. queue[i].session \in Nat
      BY DatagramIs
    <3> QED
      BY <2>1, <3>1 DEF Types
  <2>3. queue' \in Seq(DataPackets \cup EndMarkers) /\ UNCHANGED <<orderly, clientVars>>
    BY <2>1, ReceivedIs
  <2>4. active' = FALSE /\ run' = NewRun /\ idled' = idled /\ IsFiniteSet(idled')
    BY <1>8 DEF ServeEnd, RunCounts
  <2> QED
    BY <1>7, <2>2, <2>3, <2>4 DEF Types, clientVars
<1>9. CASE IdleReport
  <2>1. /\ active' = FALSE /\ run' = NewRun /\ idled' = idled \cup run.seen
        /\ UNCHANGED <<orderly, queue, clientVars, reported>>
    BY <1>9 DEF IdleReport
  <2>2. IsFiniteSet(idled')
    BY <2>1, FS_Union DEF RunCounts
  <2>3. idled' \in SUBSET Named
    BY <2>1 DEF Types, Runs
  <2> QED
    BY <1>7, <2>1, <2>2, <2>3 DEF Types, clientVars
<1>10. CASE UNCHANGED vars
  BY <1>10 DEF vars, Types, RunCounts, clientVars, serverVars
<1> QED
  BY <1>1, <1>3, <1>4, <1>5, <1>6, <1>8, <1>9, <1>10 DEF Next, ClientNext, ServerNext

(* So gaps are what is missing, but for what came late. *)
LEMMA CountsAreExact == Types /\ RunCounts => GapsExact
<1> SUFFICES ASSUME Types, RunCounts PROVE GapsExact
  OBVIOUS
<1> DEFINE all == 0..(run.expected - 1)
           numbers == NumbersOf(run)
<1>1. /\ run.expected \in Nat /\ run.received \in Nat /\ run.gaps \in Nat /\ run.late \in Nat
      /\ run.received + run.gaps = run.expected + run.late
  BY CountIsNat DEF Types, Runs, RunCounts
<1>2. numbers \subseteq all
  <2> SUFFICES ASSUME NEW p \in run.seen PROVE p[2] \in all
    BY DEF NumbersOf
  <2>1. p[2] \in Nat /\ p[2] < run.expected
    BY NamedIs DEF Types, Runs, RunCounts
  <2> QED
    BY <1>1, <2>1
<1>3. IsFiniteSet(all) /\ Cardinality(all) = run.expected
  <2>1. 0 \in Int /\ run.expected - 1 \in Int
    BY <1>1
  <2>2. /\ IsFiniteSet(all)
        /\ Cardinality(all) = IF 0 > run.expected - 1 THEN 0 ELSE (run.expected - 1) - 0 + 1
    BY <2>1, FS_Interval
  <2> QED
    BY <1>1, <2>2
<1> HIDE DEF all, numbers
<1>4. IsFiniteSet(numbers) /\ all \cap numbers = numbers
  BY <1>2, <1>3, FS_Subset
<1>5. Cardinality(all \ numbers) = run.expected - Cardinality(numbers)
  <2>1. Cardinality(all \ numbers) = Cardinality(all) - Cardinality(all \cap numbers)
    BY <1>3, FS_Difference
  <2> QED
    BY <1>3, <1>4, <2>1
<1>6. Cardinality(numbers) \in Nat
  BY <1>4, FS_CardinalityType
<1>7. run.gaps = Cardinality(all \ numbers) + run.late - (run.received - Cardinality(numbers))
  <2>1. \A m, c, e, v, g, l \in Nat :
          m = e - c /\ v + g = e + l => g = m + l - (v - c)
    OBVIOUS
  <2>2. Cardinality(all \ numbers) \in Nat
    <3>1. IsFiniteSet(all \ numbers)
      BY <1>3, FS_Difference
    <3> QED
      BY <3>1, FS_CardinalityType
  <2> QED
    BY <1>1, <1>5, <1>6, <2>1, <2>2
<1> QED
  BY <1>7 DEF GapsExact, all, numbers
-----------------------------------------------------------------------------
(* The line: what comes before stays before what comes next. *)

Sane(d) ==
  /\ d.session \in Nat /\ d.kind \in {"DATA", "END"}
  /\ d.kind = "DATA" => d.number \in Nat

LEMMA SaneOnes ==
  ASSUME Types
  PROVE  /\ \A i \in DOMAIN queue : Sane(queue[i])
         /\ \A p \in run.seen \cup idled : Sane(DataOf(p)) /\ p \in Named
         /\ \A s \in Nat : Sane(Mark(s))
         /\ reported \subseteq Nat /\ heard \subseteq Nat
<1>1. \A i \in DOMAIN queue : Sane(queue[i])
  BY DatagramIs DEF Sane
<1>2. \A p \in run.seen \cup idled : Sane(DataOf(p)) /\ p \in Named
  BY NamedIs DEF Sane, Types, Runs
<1>3. \A s \in Nat : Sane(Mark(s))
  BY DEF Sane, Mark
<1> QED
  BY <1>1, <1>2, <1>3 DEF Types

LEMMA ComingIs ==
  /\ Coming.session = session
  /\ pc = "data" => Coming.kind = "DATA" /\ Coming.number = seq
  /\ pc # "data" => Coming.kind = "END"
  BY DEF Coming, Data, End

(* The client only goes on: to later numbers, end markers and sessions. *)
GoesOn ==
  \/ session' = session /\ (pc = "data" => pc' # "data" \/ seq' > seq) /\ (pc # "data" => pc' # "data")
  \/ session' > session

LEMMA MovesOn ==
  ASSUME Types, Types', GoesOn, NEW d, Sane(d), Before(d, Coming)
  PROVE  Before(d, Coming')
<1>1. /\ session \in Nat /\ session' \in Nat /\ seq \in Nat /\ seq' \in Nat
  BY DEF Types
<1>2. /\ Coming'.session = session'
      /\ pc' = "data" => Coming'.kind = "DATA" /\ Coming'.number = seq'
      /\ pc' # "data" => Coming'.kind = "END"
  BY DEF Coming, Data, End
<1>3. d.session \in Nat /\ (d.kind = "DATA" => d.number \in Nat)
  BY DEF Sane
<1> QED
  BY <1>1, <1>2, <1>3, ComingIs DEF Before, GoesOn

(* Nothing joins or leaves the line. *)
LEMMA LineStays ==
  ASSUME Types, QueueInLine, SeenInLine, ReportedInLine, HeardInLine,
         UNCHANGED <<queue, run, idled, reported, heard>>,
         \A d : Sane(d) /\ Before(d, Coming) => Before(d, Coming')
  PROVE  QueueInLine' /\ SeenInLine' /\ ReportedInLine' /\ HeardInLine'
<1>1. QueueInLine'
  BY SaneOnes DEF QueueInLine
<1>2. SeenInLine'
  BY SaneOnes DEF SeenInLine
<1>3. ReportedInLine'
  BY SaneOnes DEF ReportedInLine
<1>4. HeardInLine'
  BY SaneOnes DEF HeardInLine
<1> QED
  BY <1>1, <1>2, <1>3, <1>4

(* What the client puts out next joins it. *)
LEMMA LineGrows ==
  ASSUME Types, QueueInLine, SeenInLine, ReportedInLine,
         NEW d \in DataPackets \cup EndMarkers, queue' = Append(queue, d),
         \A e : Before(e, Coming) => Before(e, d), Before(d, Coming'),
         UNCHANGED <<run, idled, reported>>,
         \A e : Sane(e) /\ Before(e, Coming) => Before(e, Coming')
  PROVE  QueueInLine' /\ SeenInLine' /\ ReportedInLine'
<1>1. /\ Len(queue) \in Nat /\ DOMAIN queue = 1..Len(queue)
      /\ DOMAIN queue' = 1..(Len(queue) + 1)
      /\ \A i \in DOMAIN queue : queue'[i] = queue[i]
      /\ queue'[Len(queue) + 1] = d
  BY AppendedIs
<1>2. \A i \in DOMAIN queue' : i \in DOMAIN queue \/ i = Len(queue) + 1
  BY <1>1
<1>3. ASSUME NEW i \in DOMAIN queue', NEW j \in DOMAIN queue', i < j
      PROVE  Before(queue'[i], queue'[j])
  <2>1. i \in DOMAIN queue
    BY <1>1, <1>3
  <2>2. CASE j \in DOMAIN queue
    BY <1>1, <1>3, <2>1, <2>2 DEF QueueInLine
  <2>3. CASE j = Len(queue) + 1
    BY <1>1, <2>1, <2>3 DEF QueueInLine
  <2> QED
    BY <1>2, <2>2, <2>3
<1>4. ASSUME NEW i \in DOMAIN queue'
      PROVE  Before(queue'[i], Coming')
  <2>1. CASE i \in DOMAIN queue
    BY <1>1, <2>1, SaneOnes DEF QueueInLine
  <2>2. CASE i = Len(queue) + 1
    BY <1>1, <2>2
  <2> QED
    BY <1>2, <2>1, <2>2
<1>5. ASSUME NEW e, Sane(e), Before(e, Coming), \A i \in DOMAIN queue : Before(e, queue[i])
      PROVE  Before(e, Coming') /\ \A i \in DOMAIN queue' : Before(e, queue'[i])
  BY <1>1, <1>2, <1>5
<1>6. SeenInLine'
  BY <1>5, SaneOnes DEF SeenInLine
<1>7. ReportedInLine'
  BY <1>5, SaneOnes DEF ReportedInLine
<1> QED
  BY <1>3, <1>4, <1>6, <1>7 DEF QueueInLine
-----------------------------------------------------------------------------
(* The arrivals of a session. *)

LEMMA ArrivalsFinite ==
  ASSUME NEW s \in Nat
  PROVE  IsFiniteSet(Arrivals(s)) /\ Cardinality(Arrivals(s)) \in Nat
<1>1. IsFiniteSet(0..(Count - 1))
  BY CountIsNat, FS_Interval
<1>2. IsFiniteSet({s})
  BY FS_Singleton
<1>3. IsFiniteSet({s} \X (0..(Count - 1)))
  BY <1>1, <1>2, FS_Product
<1>4. Arrivals(s) \in SUBSET ({s} \X (0..(Count - 1)))
  BY DEF Arrivals, Named
<1>5. IsFiniteSet(Arrivals(s))
  BY <1>3, <1>4, FS_Subset
<1> QED
  BY <1>5, FS_CardinalityType

LEMMA ArrivalsInLine ==
  ASSUME Types, QueueInLine, SeenInLine, NEW s, NEW p \in Arrivals(s)
  PROVE  Before(DataOf(p), Coming)
<1>1. CASE p \in run.seen \cup idled
  BY <1>1 DEF SeenInLine
<1>2. CASE \E i \in DOMAIN queue : queue[i] = DataOf(p)
  BY <1>2 DEF QueueInLine
<1> QED
  BY <1>1, <1>2 DEF Arrivals

LEMMA ArrivalsStay ==
  ASSUME UNCHANGED <<queue, run, idled>>, NEW s
  PROVE  Arrivals(s)' = Arrivals(s) /\ Pending(s)' = Pending(s)
  BY DEF Arrivals, Pending

(* A packet put out is one arrival more, an end marker none. *)
LEMMA ArrivalsGrow ==
  ASSUME Types, NEW d \in DataPackets \cup EndMarkers, queue' = Append(queue, d),
         UNCHANGED <<run, idled>>, NEW s \in Nat
  PROVE  /\ d.kind # "DATA" \/ d.session # s
              => Arrivals(s)' = Arrivals(s) /\ Pending(s)' = Pending(s)
         /\ d.kind = "DATA" /\ d.session = s
              => Arrivals(s)' = Arrivals(s) \cup {<<d.session, d.number>>}
<1>1. /\ Len(queue) \in Nat /\ DOMAIN queue = 1..Len(queue)
      /\ DOMAIN queue' = 1..(Len(queue) + 1)
      /\ \A i \in DOMAIN queue : queue'[i] = queue[i]
      /\ queue'[Len(queue) + 1] = d
  BY AppendedIs
<1>2. /\ \A i \in DOMAIN queue' : i \in DOMAIN queue \/ i = Len(queue) + 1
      /\ \A i \in DOMAIN queue : i \in DOMAIN queue'
      /\ Len(queue) + 1 \in DOMAIN queue'
  BY <1>1
<1>3. ASSUME NEW p \in Named
      PROVE  (\E i \in DOMAIN queue' : queue'[i] = DataOf(p))
               <=> (\E i \in DOMAIN queue : queue[i] = DataOf(p)) \/ d = DataOf(p)
  BY <1>1, <1>2
<1>4. ASSUME NEW p \in Named
      PROVE  p \in Arrivals(s)' <=> p \in Arrivals(s) \/ (p[1] = s /\ d = DataOf(p))
  BY <1>3 DEF Arrivals
<1>5. Arrivals(s) \subseteq Named /\ Arrivals(s)' \subseteq Named
  BY DEF Arrivals
<1>6. CASE d.kind # "DATA" \/ d.session # s
  <2>1. \A p \in Named : ~ (p[1] = s /\ d = DataOf(p))
    BY <1>6, NamedIs
  <2>2. Pending(s)' = Pending(s)
    BY <1>1, <1>2, <1>6 DEF Pending
  <2> QED
    BY <1>4, <1>5, <1>6, <2>1, <2>2
<1>7. CASE d.kind = "DATA" /\ d.session = s
  <2>1. d \in DataPackets /\ <<d.session, d.number>> \in Named
        /\ d = DataOf(<<d.session, d.number>>)
    BY <1>7 DEF DataPackets, EndMarkers, Named, DataOf
  <2>2. \A p \in Named : (p[1] = s /\ d = DataOf(p)) <=> p = <<d.session, d.number>>
    BY <1>7, <2>1, NamedIs
  <2> QED
    BY <1>4, <1>5, <1>7, <2>1, <2>2
<1> QED
  BY <1>6, <1>7
-----------------------------------------------------------------------------
(* The client's steps, on a network that keeps the order. *)

LEMMA ReportStays ==
  ASSUME Types, Types', ReportPast, ReportTrue, UNCHANGED <<orderly, report, idled>>,
         session <= session', heard' \subseteq heard \cup {session}
  PROVE  ReportPast' /\ ReportTrue'
<1>1. session \in Nat /\ session' \in Nat
  BY DEF Types
<1>2. ReportPast'
  BY <1>1 DEF ReportPast
<1>3. ASSUME orderly, NEW r \in ToSet(report)
      PROVE  (SessionsOf(r.run) \ {r.end.session}) \cap heard' = {}
  <2>1. (SessionsOf(r.run) \ {r.end.session}) \cap heard = {}
    BY <1>3 DEF ReportTrue
  <2>2. r.end.session \in 0..session /\ SessionsOf(r.run) \subseteq 0..r.end.session
    BY <1>3 DEF ReportPast
  <2>3. session \notin SessionsOf(r.run) \ {r.end.session}
    BY <1>1, <2>2
  <2> QED
    BY <2>1, <2>3
<1>4. ReportTrue'
  BY <1>3 DEF ReportTrue, IdledOf
<1> QED
  BY <1>2, <1>4

(* The server's own part of the invariant does not look at the client. *)
LEMMA SingleStays ==
  ASSUME SingleRun, UNCHANGED run
  PROVE  SingleRun'
  BY DEF SingleRun

LEMMA StartClientFacts ==
  ASSUME Types, Types', InOneLine, ReportTrue, StartClient
  PROVE  InOneLine' /\ ReportTrue'
<1>1. /\ session \in Nat /\ session' = session + 1 /\ pc' = "data" /\ pc = "exited"
      /\ sent' = 0 /\ dropped' = 0
      /\ UNCHANGED <<orderly, queue, heard, active, run, report, reported, idled>>
  BY DEF Types, StartClient, serverVars
<1>2. QueueInLine' /\ SeenInLine' /\ ReportedInLine' /\ HeardInLine'
  <2>1. \A d : Sane(d) /\ Before(d, Coming) => Before(d, Coming')
    BY <1>1, MovesOn DEF GoesOn
  <2> QED
    BY <1>1, <2>1, LineStays DEF InOneLine
<1>3. \A s : Arrivals(s)' = Arrivals(s) /\ Pending(s)' = Pending(s)
  BY <1>1, ArrivalsStay
<1>4. ArrivalsCounted'
  <2>1. ASSUME NEW s \in Nat \ reported', NEW i \in DOMAIN queue',
               queue'[i].kind = "END", queue'[i].session = s
        PROVE  Cardinality(Arrivals(s)') + queue'[i].lost = queue'[i].number
    <3>1. Arrivals(s)' = Arrivals(s)
      BY <1>3
    <3>2. Cardinality(Arrivals(s)) + queue[i].lost = queue[i].number
      BY <1>1, <2>1 DEF InOneLine, ArrivalsCounted
    <3> QED
      BY <1>1, <3>1, <3>2
  <2>2. Arrivals(session + 1) = {}
    <3>1. ASSUME NEW p \in Arrivals(session + 1)
          PROVE  FALSE
      <4>1. Before(DataOf(p), Coming)
        BY ArrivalsInLine DEF InOneLine
      <4>2. p \in Named /\ p[1] = session + 1
        BY DEF Arrivals
      <4> QED
        BY <1>1, <4>1, <4>2, NamedIs, ComingIs DEF Before
    <3> QED
      BY <3>1
  <2>3. ASSUME NEW s \in Nat, session' = s
        PROVE  Cardinality(Arrivals(s)') + dropped' = sent'
    <3>1. Arrivals(s)' = {}
      BY <1>1, <1>3, <2>2, <2>3
    <3>2. Cardinality({}) = 0
      BY FS_EmptySet
    <3> QED
      BY <1>1, <3>1, <3>2
  <2> QED
    BY <2>1, <2>3 DEF ArrivalsCounted
<1>5. MarkerBehind'
  BY <1>1, <1>3 DEF InOneLine, MarkerBehind
<1>6. SingleRun' /\ ReportPast' /\ ReportTrue'
  BY <1>1, SingleStays, ReportStays DEF InOneLine
<1> QED
  BY <1>2, <1>4, <1>5, <1>6 DEF InOneLine

(* send_all, whatever becomes of the packet. *)
LEMMA PacketFacts ==
  ASSUME Types, Types', InOneLine, ReportTrue, SendData \/ Refused
  PROVE  InOneLine' /\ ReportTrue'
<1>1. /\ session \in Nat /\ seq \in 0..(Count - 1) /\ seq \in Nat /\ pc = "data"
      /\ pc' # "exited" /\ pc' = "data" => seq' = seq + 1
      /\ sent \in Nat /\ dropped \in Nat
      /\ UNCHANGED <<orderly, session, heard, active, run, report, reported, idled>>
  BY CountIsNat DEF Types, SendData, Refused, NextPacket, serverVars
<1>2. \/ queue' = Append(queue, Data(seq)) /\ sent' = sent + 1 /\ dropped' = dropped
      \/ queue' = queue /\ sent' = sent + 1 /\ dropped' = dropped + 1
      \/ queue' = queue /\ sent' = sent /\ dropped' = dropped
  BY DEF SendData, Refused
<1>3. /\ Data(seq) \in DataPackets /\ Coming = Data(seq) /\ Data(seq).kind = "DATA"
      /\ Data(seq).session = session /\ Data(seq).number = seq
  BY <1>1 DEF Data, DataPackets, Coming
<1>4. \A d : Sane(d) /\ Before(d, Coming) => Before(d, Coming')
  BY <1>1, MovesOn DEF GoesOn
<1>5. session \notin reported /\ session \notin heard
  BY <1>3 DEF InOneLine, ReportedInLine, HeardInLine, Before, Mark
<1>6. ASSUME NEW s \in Nat
      PROVE  /\ s # session => Arrivals(s)' = Arrivals(s) /\ Pending(s)' = Pending(s)
             /\ s = session => Arrivals(s)' =
                  IF queue' = queue THEN Arrivals(s) ELSE Arrivals(s) \cup {<<session, seq>>}
  <2>1. CASE queue' = queue
    BY <1>1, <2>1, ArrivalsStay
  <2>2. CASE queue' # queue
    BY <1>1, <1>2, <1>3, <2>2, ArrivalsGrow
  <2> QED
    BY <2>1, <2>2
<1>7. <<session, seq>> \notin Arrivals(session)
  <2> SUFFICES ASSUME <<session, seq>> \in Arrivals(session) PROVE FALSE
    OBVIOUS
  <2>1. Before(DataOf(<<session, seq>>), Coming)
    BY ArrivalsInLine DEF InOneLine
  <2> QED
    BY <1>1, <1>3, <2>1 DEF Before, DataOf
<1>8. QueueInLine' /\ SeenInLine' /\ ReportedInLine' /\ HeardInLine'
  <2>1. CASE queue' = queue
    BY <1>1, <1>4, <2>1, LineStays DEF InOneLine
  <2>2. CASE queue' = Append(queue, Data(seq))
    <3>1. Before(Data(seq), Coming')
      <4>1. /\ Coming'.session = session
            /\ pc' = "data" => Coming'.kind = "DATA" /\ Coming'.number = seq + 1
            /\ pc' # "data" => Coming'.kind = "END"
        BY <1>1 DEF Coming, Data, End
      <4> QED
        BY <1>1, <1>3, <4>1 DEF Before
    <3>2. QueueInLine' /\ SeenInLine' /\ ReportedInLine'
      BY <1>1, <1>3, <1>4, <2>2, <3>1, LineGrows DEF InOneLine
    <3>3. HeardInLine'
      BY <1>1, <1>4, SaneOnes DEF InOneLine, HeardInLine
    <3> QED
      BY <3>2, <3>3
  <2> QED
    BY <1>2, <2>1, <2>2
<1>9. \A i \in DOMAIN queue' : queue'[i].kind = "END" => i \in DOMAIN queue /\ queue'[i] = queue[i]
  <2>1. CASE queue' = Append(queue, Data(seq))
    <3>1. /\ DOMAIN queue = 1..Len(queue) /\ Len(queue) \in Nat
          /\ DOMAIN queue' = 1..(Len(queue) + 1)
          /\ \A i \in DOMAIN queue : queue'[i] = queue[i]
          /\ queue'[Len(queue) + 1] = Data(seq)
      BY <1>3, <2>1, AppendedIs
    <3> QED
      BY <1>3, <3>1
  <2> QED
    BY <1>2, <2>1
<1>10. ArrivalsCounted'
  <2>1. ASSUME NEW s \in Nat \ reported', NEW i \in DOMAIN queue',
               queue'[i].kind = "END", queue'[i].session = s
        PROVE  Cardinality(Arrivals(s)') + queue'[i].lost = queue'[i].number
    <3>1. i \in DOMAIN queue /\ queue'[i] = queue[i] /\ queue[i].kind = "END"
      BY <1>9, <2>1
    <3>2. s # session
      <4>1. Before(queue[i], Coming)
        BY <3>1 DEF InOneLine, QueueInLine
      <4> QED
        BY <1>3, <2>1, <3>1, <4>1 DEF Before
    <3>3. Arrivals(s)' = Arrivals(s)
      BY <1>6, <3>2
    <3>4. Cardinality(Arrivals(s)) + queue[i].lost = queue[i].number
      BY <1>1, <2>1, <3>1 DEF InOneLine, ArrivalsCounted
    <3> QED
      BY <3>1, <3>3, <3>4
  <2>2. ASSUME NEW s \in Nat, s = session
        PROVE  Cardinality(Arrivals(s)') + dropped' = sent'
    <3>1. /\ Cardinality(Arrivals(s)) + dropped = sent
          /\ IsFiniteSet(Arrivals(s)) /\ Cardinality(Arrivals(s)) \in Nat
      BY <1>1, <1>5, <2>2, ArrivalsFinite DEF InOneLine, ArrivalsCounted
    <3>2. CASE queue' = queue
      <4>1. Arrivals(s)' = Arrivals(s)
        BY <1>6, <3>2
      <4>2. (sent' = sent + 1 /\ dropped' = dropped + 1) \/ (sent' = sent /\ dropped' = dropped)
        <5>1. queue' # Append(queue, Data(seq))
          <6>1. queue \in Seq(DataPackets \cup EndMarkers) /\ Len(queue) \in Nat
            BY LenProperties DEF Types
          <6>2. Len(Append(queue, Data(seq))) = Len(queue) + 1
            BY <1>3, <6>1, AppendProperties
          <6> QED
            BY <3>2, <6>1, <6>2
        <5> QED
          BY <1>2, <5>1
      <4> QED
        BY <1>1, <3>1, <4>1, <4>2
    <3>3. CASE queue' # queue
      <4>1. Arrivals(s)' = Arrivals(s) \cup {<<session, seq>>}
        BY <1>6, <2>2, <3>3
      <4>2. Cardinality(Arrivals(s) \cup {<<session, seq>>}) = Cardinality(Arrivals(s)) + 1
        BY <1>7, <2>2, <3>1, FS_AddElement
      <4>3. sent' = sent + 1 /\ dropped' = dropped
        BY <1>2, <3>3
      <4>4. Cardinality(Arrivals(s)') = Cardinality(Arrivals(s)) + 1
        BY <4>1, <4>2
      <4> QED
        BY <1>1, <3>1, <4>3, <4>4
    <3> QED
      BY <3>2, <3>3
  <2> QED
    BY <1>1, <2>1, <2>2 DEF ArrivalsCounted
<1>11. MarkerBehind'
  <2> SUFFICES ASSUME NEW s \in heard', Pending(s)'
               PROVE  \E i \in DOMAIN queue' : queue'[i].kind = "END" /\ queue'[i].session = s
    BY DEF MarkerBehind
  <2>1. s \in heard /\ s \in Nat /\ s # session
    BY <1>1, <1>5, SaneOnes
  <2>2. Pending(s)
    BY <1>6, <2>1
  <2>3. PICK i \in DOMAIN queue : queue[i].kind = "END" /\ queue[i].session = s
    BY <2>1, <2>2 DEF InOneLine, MarkerBehind
  <2>4. i \in DOMAIN queue' /\ queue'[i] = queue[i]
    <3>1. CASE queue' = Append(queue, Data(seq))
      <4>1. /\ DOMAIN queue = 1..Len(queue) /\ Len(queue) \in Nat
            /\ DOMAIN queue' = 1..(Len(queue) + 1)
            /\ \A j \in DOMAIN queue : queue'[j] = queue[j]
        BY <1>3, <3>1, AppendedIs
      <4> QED
        BY <4>1
    <3> QED
      BY <1>2, <3>1
  <2> QED
    BY <2>3, <2>4
<1>12. SingleRun' /\ ReportPast' /\ ReportTrue'
  BY <1>1, SingleStays, ReportStays DEF InOneLine
<1> QED
  BY <1>8, <1>10, <1>11, <1>12 DEF InOneLine

(* One of the end markers. *)
LEMMA SendEndFacts ==
  ASSUME Types, Types', InOneLine, ReportTrue, SendEnd
  PROVE  InOneLine' /\ ReportTrue'
<1>1. /\ session \in Nat /\ pc = "end" /\ pc' # "data"
      /\ sent \in Nat /\ dropped \in Nat
      /\ UNCHANGED <<orderly, session, sent, dropped, active, run, report, reported, idled>>
      /\ \/ queue' = Append(queue, End) /\ heard' = heard \cup {session}
         \/ queue' = queue /\ heard' = heard
  BY DEF Types, SendEnd, serverVars
<1>2. /\ End \in EndMarkers /\ Coming = End /\ End.kind = "END"
      /\ End.session = session /\ End.number = sent /\ End.lost = dropped
  BY <1>1 DEF End, EndMarkers, Coming
<1>3. \A d : Sane(d) /\ Before(d, Coming) => Before(d, Coming')
  BY <1>1, MovesOn DEF GoesOn
<1>4. Coming'.session = session /\ Coming'.kind = "END"
  BY <1>1 DEF Coming, Data, End
<1>5. ASSUME NEW s \in Nat
      PROVE  Arrivals(s)' = Arrivals(s) /\ Pending(s)' = Pending(s)
  <2>1. CASE queue' = queue
    BY <1>1, <2>1, ArrivalsStay
  <2>2. CASE queue' = Append(queue, End)
    BY <1>1, <1>2, <2>2, ArrivalsGrow
  <2> QED
    BY <1>1, <2>1, <2>2
<1>6. CASE queue' = queue /\ heard' = heard
  <2>1. QueueInLine' /\ SeenInLine' /\ ReportedInLine' /\ HeardInLine'
    BY <1>1, <1>3, <1>6, LineStays DEF InOneLine
  <2>2. ArrivalsCounted'
    BY <1>1, <1>5, <1>6 DEF InOneLine, ArrivalsCounted
  <2>3. MarkerBehind'
    BY <1>5, <1>6, SaneOnes DEF InOneLine, MarkerBehind
  <2>4. SingleRun' /\ ReportPast' /\ ReportTrue'
    BY <1>1, <1>6, SingleStays, ReportStays DEF InOneLine
  <2> QED
    BY <2>1, <2>2, <2>3, <2>4 DEF InOneLine
<1>7. CASE queue' = Append(queue, End) /\ heard' = heard \cup {session}
  <2>1. /\ DOMAIN queue = 1..Len(queue) /\ Len(queue) \in Nat
        /\ DOMAIN queue' = 1..(Len(queue) + 1)
        /\ \A j \in DOMAIN queue : queue'[j] = queue[j]
        /\ queue'[Len(queue) + 1] = End
    BY <1>2, <1>7, AppendedIs
  <2>2. /\ \A i \in DOMAIN queue' : i \in DOMAIN queue \/ i = Len(queue) + 1
        /\ \A i \in DOMAIN queue : i \in DOMAIN queue'
        /\ Len(queue) + 1 \in DOMAIN queue'
    BY <2>1
  <2>3. QueueInLine' /\ SeenInLine' /\ ReportedInLine'
    <3>1. Before(End, Coming')
      BY <1>1, <1>2, <1>4 DEF Before
    <3> QED
      BY <1>1, <1>2, <1>3, <1>7, <3>1, LineGrows DEF InOneLine
  <2>4. HeardInLine'
    <3>1. Before(Mark(session), Coming')
      BY <1>1, <1>4 DEF Before, Mark
    <3>2. \A s \in heard : Before(Mark(s), Coming')
      BY <1>3, SaneOnes DEF InOneLine, HeardInLine
    <3> QED
      BY <1>7, <3>1, <3>2 DEF HeardInLine
  <2>5. ArrivalsCounted'
    <3>1. ASSUME NEW s \in Nat \ reported', NEW i \in DOMAIN queue',
                 queue'[i].kind = "END", queue'[i].session = s
          PROVE  Cardinality(Arrivals(s)') + queue'[i].lost = queue'[i].number
      <4>1. Arrivals(s)' = Arrivals(s) /\ s \in Nat \ reported
        BY <1>1, <1>5
      <4>2. CASE i \in DOMAIN queue
        <5>1. Cardinality(Arrivals(s)) + queue[i].lost = queue[i].number
          BY <2>1, <3>1, <4>1, <4>2 DEF InOneLine, ArrivalsCounted
        <5> QED
          BY <2>1, <4>1, <4>2, <5>1
      <4>3. CASE i = Len(queue) + 1
        <5>1. session = s /\ queue'[i] = End
          BY <1>2, <2>1, <3>1, <4>3
        <5>2. Cardinality(Arrivals(s)) + dropped = sent
          BY <1>1, <4>1, <5>1 DEF InOneLine, ArrivalsCounted
        <5> QED
          BY <1>2, <4>1, <5>1, <5>2
      <4> QED
        BY <2>2, <4>2, <4>3
    <3>2. ASSUME NEW s \in Nat \ reported', session' = s
          PROVE  Cardinality(Arrivals(s)') + dropped' = sent'
      <4>1. Arrivals(s)' = Arrivals(s)
        BY <1>5
      <4>2. Cardinality(Arrivals(s)) + dropped = sent
        BY <1>1, <3>2 DEF InOneLine, ArrivalsCounted
      <4> QED
        BY <1>1, <4>1, <4>2
    <3> QED
      BY <3>1, <3>2 DEF ArrivalsCounted
  <2>6. MarkerBehind'
    <3> SUFFICES ASSUME NEW s \in heard', Pending(s)'
                 PROVE  \E i \in DOMAIN queue' : queue'[i].kind = "END" /\ queue'[i].session = s
      BY DEF MarkerBehind
    <3>1. CASE s = session
      BY <1>2, <2>1, <2>2, <3>1
    <3>2. CASE s \in heard
      <4>1. Pending(s)
        BY <1>5, <3>2, SaneOnes
      <4>2. PICK i \in DOMAIN queue : queue[i].kind = "END" /\ queue[i].session = s
        BY <3>2, <4>1 DEF InOneLine, MarkerBehind
      <4> QED
        BY <2>1, <2>2, <4>2
    <3> QED
      BY <1>7, <3>1, <3>2
  <2>7. SingleRun' /\ ReportPast' /\ ReportTrue'
    BY <1>1, <1>7, SingleStays, ReportStays DEF InOneLine
  <2> QED
    BY <2>3, <2>4, <2>5, <2>6, <2>7 DEF InOneLine
<1> QED
  BY <1>1, <1>6, <1>7
-----------------------------------------------------------------------------
(* The server's steps, on a network that keeps the order. *)

(* The first datagram leaves the queue, and the others keep their places. *)
LEMMA HeadLeaves ==
  ASSUME Types, orderly, InOneLine, NEW i, Received(i)
  PROVE  /\ 1 \in DOMAIN queue /\ i = 1
         /\ UNCHANGED <<orderly, session, pc, seq, sent, dropped, heard>>
         /\ Coming' = Coming
         /\ QueueInLine' /\ HeardInLine'
         /\ \A j \in DOMAIN queue' :
              \E k \in DOMAIN queue : queue'[j] = queue[k] /\ Before(queue[1], queue[k])
         /\ \A k \in DOMAIN queue :
              queue[k] # queue[1] => \E j \in DOMAIN queue' : queue'[j] = queue[k]
<1>1. /\ i = 1 /\ 1 \in DOMAIN queue
      /\ UNCHANGED <<orderly, session, pc, seq, sent, dropped, heard>>
      /\ \A j \in DOMAIN queue' :
           j \in Nat /\ j + 1 \in DOMAIN queue /\ queue'[j] = queue[j + 1]
      /\ \A j \in DOMAIN queue :
           j # 1 => j - 1 \in DOMAIN queue' /\ queue'[j - 1] = queue[j]
  BY ReceivedIs DEF clientVars
<1>2. Coming' = Coming
  BY <1>1 DEF Coming, Data, End
<1>3. \A j \in DOMAIN queue' : j + 1 > 1
  <2>1. queue' \in Seq(DataPackets \cup EndMarkers)
    BY ReceivedIs
  <2>2. DOMAIN queue' = 1..Len(queue') /\ Len(queue') \in Nat
    BY <2>1, LenProperties
  <2> QED
    BY <2>2
<1>4. QueueInLine'
  <2>1. ASSUME NEW j \in DOMAIN queue', NEW k \in DOMAIN queue', j < k
        PROVE  Before(queue'[j], queue'[k])
    <3>1. j + 1 \in DOMAIN queue /\ k + 1 \in DOMAIN queue /\ j + 1 < k + 1
      BY <1>1, <2>1
    <3> QED
      BY <1>1, <3>1 DEF InOneLine, QueueInLine
  <2>2. ASSUME NEW j \in DOMAIN queue'
        PROVE  Before(queue'[j], Coming')
    BY <1>1, <1>2 DEF InOneLine, QueueInLine
  <2> QED
    BY <2>1, <2>2 DEF QueueInLine
<1>5. HeardInLine'
  BY <1>1, <1>2 DEF InOneLine, HeardInLine
<1>6. ASSUME NEW j \in DOMAIN queue'
      PROVE  \E k \in DOMAIN queue : queue'[j] = queue[k] /\ Before(queue[1], queue[k])
  <2>1. j + 1 \in DOMAIN queue /\ 1 < j + 1 /\ queue'[j] = queue[j + 1]
    BY <1>1, <1>3
  <2> QED
    BY <1>1, <2>1 DEF InOneLine, QueueInLine
<1>7. ASSUME NEW k \in DOMAIN queue, queue[k] # queue[1]
      PROVE  \E j \in DOMAIN queue' : queue'[j] = queue[k]
  BY <1>1, <1>7
<1> QED
  BY <1>1, <1>2, <1>4, <1>5, <1>6, <1>7

LEMMA NothingReported ==
  ASSUME report' = <<>>
  PROVE  ReportPast' /\ ReportTrue'
<1>1. ToSet(<<>>) = {}
  BY DEF ToSet
<1> QED
  BY <1>1 DEF ReportPast, ReportTrue

LEMMA ServeDataFacts ==
  ASSUME Types, RunCounts, orderly, InOneLine, ServeData
  PROVE  InOneLine' /\ ReportTrue'
<1> DEFINE d == queue[1]
           p == <<d.session, d.number>>
<1>1. PICK i \in DOMAIN queue : queue[i].kind = "DATA" /\ Received(i) /\ run' = Counted(queue[i])
  BY DEF ServeData
<1>2. /\ 1 \in DOMAIN queue /\ i = 1
      /\ UNCHANGED <<orderly, session, pc, seq, sent, dropped, heard>>
      /\ Coming' = Coming
      /\ QueueInLine' /\ HeardInLine'
      /\ \A j \in DOMAIN queue' :
           \E k \in DOMAIN queue : queue'[j] = queue[k] /\ Before(queue[1], queue[k])
      /\ \A k \in DOMAIN queue :
           queue[k] # queue[1] => \E j \in DOMAIN queue' : queue'[j] = queue[k]
  BY <1>1, HeadLeaves
<1>3. /\ d \in DataPackets /\ d.kind = "DATA" /\ d.session \in Nat /\ d.number \in Nat
      /\ d = DataOf(p) /\ p \in Named
  BY <1>1, <1>2, DatagramIs
<1>4. /\ run'.seen = run.seen \cup {p}
      /\ run'.received = run.received + 1
      /\ run'.expected = IF d.number >= run.expected THEN d.number + 1 ELSE run.expected
      /\ run'.late = run.late + IF d.number < run.expected THEN 1 ELSE 0
  BY <1>1, <1>2, <1>3, CountedIs
<1>5. UNCHANGED <<reported, idled>> /\ report' = <<>>
  BY DEF ServeData
<1>6. p[1] = d.session /\ p[2] = d.number
  OBVIOUS
<1> HIDE DEF d, p
<1>7. /\ Before(d, Coming)
      /\ \A q \in run.seen \cup idled : Before(DataOf(q), d)
      /\ \A s \in reported : Before(Mark(s), d)
  BY <1>2 DEF InOneLine, QueueInLine, SeenInLine, ReportedInLine, d
<1>8. SeenInLine'
  <2>1. ASSUME NEW q \in run.seen \cup idled
        PROVE  Before(DataOf(q), Coming') /\ \A j \in DOMAIN queue' : Before(DataOf(q), queue'[j])
    BY <1>2 DEF InOneLine, SeenInLine
  <2>2. Before(DataOf(p), Coming') /\ \A j \in DOMAIN queue' : Before(DataOf(p), queue'[j])
    BY <1>2, <1>3, <1>7 DEF d
  <2>3. \A q \in idled, r \in run.seen \cup {p} : Before(DataOf(q), DataOf(r))
    BY <1>3, <1>7 DEF InOneLine, SeenInLine
  <2> QED
    BY <1>4, <1>5, <2>1, <2>2, <2>3 DEF SeenInLine
<1>9. ReportedInLine'
  <2>1. ASSUME NEW s \in reported
        PROVE  /\ Before(Mark(s), Coming') /\ \A j \in DOMAIN queue' : Before(Mark(s), queue'[j])
               /\ \A q \in run.seen \cup {p} : Before(Mark(s), DataOf(q))
    BY <1>2, <1>3, <1>7 DEF InOneLine, ReportedInLine
  <2> QED
    BY <1>4, <1>5, <2>1 DEF ReportedInLine
<1>10. ASSUME NEW s
       PROVE  Arrivals(s)' = Arrivals(s)
  <2>1. ASSUME NEW q \in Named
        PROVE  (q \in run'.seen \cup idled \/ \E j \in DOMAIN queue' : queue'[j] = DataOf(q))
                 <=> (q \in run.seen \cup idled \/ \E k \in DOMAIN queue : queue[k] = DataOf(q))
    <3>1. DataOf(q) = d => q = p
      BY <1>3, NamedIs
    <3> QED
      BY <1>2, <1>3, <1>4, <3>1 DEF d
  <2> QED
    BY <1>5, <2>1 DEF Arrivals
<1>11. ArrivalsCounted'
  <2>1. ASSUME NEW s \in Nat \ reported', NEW j \in DOMAIN queue',
               queue'[j].kind = "END", queue'[j].session = s
        PROVE  Cardinality(Arrivals(s)') + queue'[j].lost = queue'[j].number
    <3>1. PICK k \in DOMAIN queue : queue'[j] = queue[k]
      BY <1>2
    <3>2. Cardinality(Arrivals(s)) + queue[k].lost = queue[k].number
      BY <1>5, <2>1, <3>1 DEF InOneLine, ArrivalsCounted
    <3>3. Arrivals(s)' = Arrivals(s)
      BY <1>10
    <3> QED
      BY <3>1, <3>2, <3>3
  <2>2. ASSUME NEW s \in Nat \ reported', pc' # "exited", session' = s
        PROVE  Cardinality(Arrivals(s)') + dropped' = sent'
    <3>1. Cardinality(Arrivals(s)) + dropped = sent
      BY <1>2, <1>5, <2>2 DEF InOneLine, ArrivalsCounted
    <3>2. Arrivals(s)' = Arrivals(s)
      BY <1>10
    <3> QED
      BY <1>2, <3>1, <3>2
  <2> QED
    BY <2>1, <2>2 DEF ArrivalsCounted
<1>12. MarkerBehind'
  <2> SUFFICES ASSUME NEW s \in heard', Pending(s)'
               PROVE  \E j \in DOMAIN queue' : queue'[j].kind = "END" /\ queue'[j].session = s
    BY DEF MarkerBehind
  <2>1. s \in heard /\ Pending(s)
    <3>1. CASE \E q \in run'.seen : q[1] = s
      BY <1>2, <1>3, <1>4, <1>6, <3>1 DEF Pending, d
    <3>2. CASE \E j \in DOMAIN queue' : queue'[j].kind = "DATA" /\ queue'[j].session = s
      BY <1>2, <3>2 DEF Pending
    <3> QED
      BY <1>2, <3>1, <3>2 DEF Pending
  <2>2. PICK k \in DOMAIN queue : queue[k].kind = "END" /\ queue[k].session = s
    BY <2>1 DEF InOneLine, MarkerBehind
  <2>3. queue[k] # queue[1]
    BY <1>3, <2>2 DEF d
  <2> QED
    BY <1>2, <2>2, <2>3
<1>13. SingleRun'
  <2>1. p \notin run.seen
    <3> SUFFICES ASSUME p \in run.seen PROVE FALSE
      OBVIOUS
    <3>1. Before(d, d)
      BY <1>3, <1>7
    <3> QED
      BY <1>3, <3>1 DEF Before
  <2>2. run'.received = Cardinality(run'.seen)
    <3>1. Cardinality(run.seen \cup {p}) = Cardinality(run.seen) + 1
      BY <2>1, FS_AddElement DEF RunCounts
    <3> QED
      BY <1>4, <3>1 DEF InOneLine, SingleRun
  <2>3. ASSUME \A q, r \in run'.seen : q[1] = r[1]
        PROVE  run'.late = 0 /\ \E q \in run'.seen : run'.expected = q[2] + 1
    <3>1. run.late = 0 /\ d.number >= run.expected
      <4>1. CASE run.seen = {}
        <5>1. run = NewRun
          BY <4>1 DEF RunCounts
        <5> QED
          BY <1>3, <5>1, NewRunIs
      <4>2. CASE run.seen # {}
        <5>1. \A q, r \in run.seen : q[1] = r[1]
          BY <1>4, <2>3
        <5>2. run.late = 0 /\ \E q \in run.seen : run.expected = q[2] + 1
          BY <4>2, <5>1 DEF InOneLine, SingleRun
        <5>3. PICK q \in run.seen : run.expected = q[2] + 1
          BY <5>2
        <5>4. q[1] = d.session /\ q[2] \in Nat /\ Before(DataOf(q), d)
          BY <1>4, <1>6, <1>7, <2>3, NamedIs, SaneOnes
        <5>5. q[2] < d.number
          <6>1. DataOf(q).session = q[1] /\ DataOf(q).number = q[2]
            BY DEF DataOf
          <6> QED
            BY <1>3, <5>4, <6>1 DEF Before
        <5> QED
          BY <1>3, <5>2, <5>3, <5>4, <5>5
      <4> QED
        BY <4>1, <4>2
    <3>2. run.expected \in Nat
      BY CountIsNat DEF Types, Runs
    <3>3. run'.late = 0 /\ run'.expected = d.number + 1
      BY <1>3, <1>4, <3>1, <3>2
    <3> QED
      BY <1>4, <1>6, <3>3
  <2> QED
    BY <2>2, <2>3 DEF SingleRun
<1> QED
  BY <1>2, <1>5, <1>8, <1>9, <1>11, <1>12, <1>13, NothingReported DEF InOneLine

(* What an end marker causes to be reported. *)
LEMMA ReportIsTrue ==
  ASSUME Types, RunCounts, orderly, InOneLine, active,
         1 \in DOMAIN queue, queue[1].kind = "END",
         UNCHANGED <<session, heard, idled>>,
         report' = <<[end |-> queue[1], run |-> run, again |-> queue[1].session \in reported]>>
  PROVE  ReportPast' /\ ReportTrue'
<1> DEFINE s == queue[1].session
           r == [end |-> queue[1], run |-> run, again |-> queue[1].session \in reported]
<1>1. /\ s \in Nat /\ session \in Nat /\ queue[1].number \in Nat /\ queue[1].lost \in Nat
      /\ Count \in Nat
  BY DatagramIs, CountIsNat DEF Types
<1>2. ToSet(report') = {r}
  BY DEF ToSet
<1>3. r.end = queue[1] /\ r.run = run /\ r.again = (s \in reported)
  OBVIOUS
<1>4. /\ Before(queue[1], Coming)
      /\ \A k \in DOMAIN queue : k = 1 \/ 1 < k
      /\ \A k \in DOMAIN queue : 1 < k => Before(queue[1], queue[k])
      /\ \A q \in run.seen \cup idled : Before(DataOf(q), queue[1])
  <2>1. DOMAIN queue = 1..Len(queue) /\ Len(queue) \in Nat
    BY LenProperties DEF Types
  <2>2. \A k \in DOMAIN queue : k = 1 \/ 1 < k
    BY <2>1
  <2> QED
    BY <2>2 DEF InOneLine, QueueInLine, SeenInLine
<1> HIDE DEF r, s
<1>5. s <= session
  BY <1>4, ComingIs DEF Before, s
<1>6. ASSUME NEW q \in run.seen
      PROVE  q \in Named /\ q[1] \in Nat /\ q[1] <= s
  <2>1. q \in Named /\ q[1] \in Nat /\ DataOf(q).session = q[1]
    BY NamedIs, SaneOnes
  <2> QED
    BY <1>4, <2>1 DEF Before, s
<1>7. SessionsOf(run) \subseteq 0..s
  BY <1>1, <1>6 DEF SessionsOf
<1>8. ReportPast'
  <2>1. s \in 0..session
    BY <1>1, <1>5
  <2>2. r.end.session = s
    BY <1>3 DEF s
  <2> QED
    BY <1>2, <1>3, <1>7, <2>1, <2>2 DEF ReportPast
<1>9. s \notin reported
  <2> SUFFICES ASSUME s \in reported PROVE FALSE
    OBVIOUS
  <2>1. PICK q \in run.seen : TRUE
    BY DEF RunCounts
  <2>2. Before(Mark(s), DataOf(q))
    BY <2>1 DEF InOneLine, ReportedInLine
  <2>3. q[1] \in Nat /\ q[1] <= s /\ DataOf(q).session = q[1] /\ DataOf(q).kind = "DATA"
    BY <1>6, NamedIs
  <2> QED
    BY <1>1, <2>2, <2>3 DEF Before, Mark
<1>10. ASSUME NEW t \in SessionsOf(run), t \in heard
       PROVE  t = s
  <2>1. PICK q \in run.seen : t = q[1]
    BY DEF SessionsOf
  <2>2. Pending(t) /\ t \in Nat /\ t <= s
    BY <1>6, <2>1 DEF Pending
  <2>3. PICK k \in DOMAIN queue : queue[k].session = t
    BY <1>10, <2>2 DEF InOneLine, MarkerBehind
  <2>4. s <= t
    BY <1>1, <1>4, <2>3 DEF Before, s
  <2> QED
    BY <1>1, <2>2, <2>4
<1>11. ASSUME SessionsOf(run) = {s}
       PROVE  /\ queue[1].number - run.received = queue[1].lost + Cardinality(IdledOf(s))
              /\ run.gaps <= Count - run.received
  <2>1. \A q \in run.seen : q[1] = s
    BY <1>11 DEF SessionsOf
  <2>2. Arrivals(s) = run.seen \cup IdledOf(s)
    <3>1. ASSUME NEW k \in DOMAIN queue, NEW q \in Named, queue[k] = DataOf(q), q[1] = s
          PROVE  FALSE
      <4>1. queue[k].kind = "DATA" /\ queue[k].session = s
        BY <3>1, NamedIs
      <4>2. k # 1 /\ Before(queue[1], queue[k])
        BY <1>4, <4>1
      <4> QED
        BY <4>1, <4>2 DEF Before, s
    <3> QED
      BY <1>6, <2>1, <3>1 DEF Arrivals, IdledOf, Types
  <2>3. Cardinality(Arrivals(s)) + queue[1].lost = queue[1].number
    BY <1>1, <1>9 DEF InOneLine, ArrivalsCounted, s
  <2>4. run.received = Cardinality(run.seen) /\ run.received \in Nat
    BY DEF InOneLine, SingleRun, Types, Runs
  <2>5. run.late = 0
    BY <2>1 DEF InOneLine, SingleRun, RunCounts
  <2>6. /\ run.gaps \in Nat /\ run.expected \in 0..Count
        /\ run.received + run.gaps = run.expected + run.late
    BY DEF Types, Runs, RunCounts
  <2>7. run.seen \cap IdledOf(s) = {}
    <3> SUFFICES ASSUME NEW q \in run.seen, q \in idled PROVE FALSE
      BY DEF IdledOf
    <3>1. Before(DataOf(q), DataOf(q)) /\ q \in Named
      BY SaneOnes DEF InOneLine, SeenInLine
    <3> QED
      BY <3>1, NamedIs DEF Before
  <2>8. /\ IsFiniteSet(run.seen) /\ IsFiniteSet(IdledOf(s))
        /\ Cardinality(IdledOf(s)) \in Nat
    <3>1. IsFiniteSet(run.seen) /\ IsFiniteSet(idled) /\ IdledOf(s) \in SUBSET idled
      BY DEF RunCounts, IdledOf
    <3> QED
      BY <3>1, FS_Subset, FS_CardinalityType
  <2>9. Cardinality(Arrivals(s)) = run.received + Cardinality(IdledOf(s))
    <3>1. Cardinality(run.seen \cup IdledOf(s)) =
            Cardinality(run.seen) + Cardinality(IdledOf(s)) - Cardinality(run.seen \cap IdledOf(s))
      BY <2>8, FS_Union
    <3>2. Cardinality(run.seen \cap IdledOf(s)) = 0
      BY <2>7, FS_EmptySet
    <3>3. Cardinality(Arrivals(s)) = Cardinality(run.seen \cup IdledOf(s))
      BY <2>2
    <3> QED
      BY <2>4, <2>8, <3>1, <3>2, <3>3
  <2>10. run.received + Cardinality(IdledOf(s)) + queue[1].lost = queue[1].number
    BY <2>3, <2>9
  <2> QED
    BY <1>1, <2>4, <2>5, <2>6, <2>8, <2>10
<1>12. ReportTrue'
  <2>1. /\ ~ r.again
        /\ (SessionsOf(r.run) \ {r.end.session}) \cap heard = {}
        /\ SessionsOf(r.run) = {r.end.session} =>
             /\ r.end.number - r.run.received =
                  r.end.lost + Cardinality(IdledOf(r.end.session))
             /\ r.run.gaps <= Count - r.run.received
    <3>1. r.end.session = s
      BY <1>3 DEF s
    <3>2. ~ r.again
      BY <1>3, <1>9
    <3>3. (SessionsOf(run) \ {s}) \cap heard = {}
      BY <1>10
    <3> QED
      BY <1>3, <1>11, <3>1, <3>2, <3>3
  <2>2. \A t : IdledOf(t)' = IdledOf(t)
    BY DEF IdledOf
  <2> QED
    BY <1>2, <2>1, <2>2 DEF ReportTrue
<1> QED
  BY <1>8, <1>12

(* A run that is over leaves nothing behind. *)
LEMMA RunOver ==
  ASSUME run' = NewRun
  PROVE  run'.seen = {} /\ SingleRun'
<1>1. run'.seen = {} /\ run'.received = 0
  BY NewRunIs
<1>2. Cardinality({}) = 0
  BY FS_EmptySet
<1> QED
  BY <1>1, <1>2 DEF SingleRun

LEMMA ServeEndFacts ==
  ASSUME Types, RunCounts, orderly, InOneLine, ServeEnd
  PROVE  InOneLine' /\ ReportTrue'
<1> DEFINE d == queue[1]
<1>1. PICK i \in DOMAIN queue :
        /\ queue[i].kind = "END"
        /\ Received(i)
        /\ IF active
           THEN /\ report' = <<[end |-> queue[i], run |-> run,
                                again |-> queue[i].session \in reported]>>
                /\ reported' = reported \cup {queue[i].session}
           ELSE report' = <<>> /\ UNCHANGED reported
  BY DEF ServeEnd
<1>2. /\ 1 \in DOMAIN queue /\ i = 1
      /\ UNCHANGED <<orderly, session, pc, seq, sent, dropped, heard>>
      /\ Coming' = Coming
      /\ QueueInLine' /\ HeardInLine'
      /\ \A j \in DOMAIN queue' :
           \E k \in DOMAIN queue : queue'[j] = queue[k] /\ Before(queue[1], queue[k])
      /\ \A k \in DOMAIN queue :
           queue[k] # queue[1] => \E j \in DOMAIN queue' : queue'[j] = queue[k]
  BY <1>1, HeadLeaves
<1>3. d.kind = "END" /\ d.session \in Nat /\ session \in Nat
  BY <1>1, <1>2, DatagramIs DEF Types
<1>4. run' = NewRun /\ run'.seen = {} /\ UNCHANGED idled
  BY NewRunIs DEF ServeEnd
<1>5. reported' = reported \/ (active /\ reported' = reported \cup {d.session})
  BY <1>1, <1>2
<1>6. ReportPast' /\ ReportTrue'
  <2>1. CASE active
    BY <1>1, <1>2, <1>3, <1>4, <2>1, ReportIsTrue
  <2>2. CASE ~active
    BY <1>1, <2>2, NothingReported
  <2> QED
    BY <2>1, <2>2
<1>7. active => d.session \in reported'
  BY <1>1, <1>2
<1> HIDE DEF d
<1>8. ReportedInLine'
  <2>1. ASSUME NEW s \in reported
        PROVE  Before(Mark(s), Coming') /\ \A j \in DOMAIN queue' : Before(Mark(s), queue'[j])
    BY <1>2 DEF InOneLine, ReportedInLine
  <2>2. /\ Before(Mark(d.session), Coming')
        /\ \A j \in DOMAIN queue' : Before(Mark(d.session), queue'[j])
    <3>1. \A e : Before(d, e) => Before(Mark(d.session), e)
      BY <1>3 DEF Before, Mark
    <3>2. Before(d, Coming)
      BY <1>2 DEF InOneLine, QueueInLine, d
    <3> QED
      BY <1>2, <3>1, <3>2 DEF d
  <2> QED
    BY <1>4, <1>5, <2>1, <2>2 DEF ReportedInLine
<1>9. ASSUME NEW q \in run.seen
      PROVE  active /\ q[1] \in Nat /\ q[1] <= d.session
  <2>1. Before(DataOf(q), d)
    BY <1>2 DEF InOneLine, SeenInLine, d
  <2> QED
    BY <1>3, <2>1, NamedIs, SaneOnes DEF Before, RunCounts
<1>10. ASSUME NEW s \in Nat, d.session < s \/ ~active
       PROVE  Arrivals(s)' = Arrivals(s)
  <2>1. \A q \in run.seen : q[1] # s
    BY <1>3, <1>9, <1>10
  <2>2. ASSUME NEW q \in Named
        PROVE  (\E j \in DOMAIN queue' : queue'[j] = DataOf(q))
                 <=> (\E k \in DOMAIN queue : queue[k] = DataOf(q))
    <3>1. DataOf(q) # d
      BY <1>3, NamedIs
    <3> QED
      BY <1>2, <3>1 DEF d
  <2> QED
    BY <1>4, <2>1, <2>2 DEF Arrivals
<1>11. ASSUME NEW s \in Nat \ reported', s >= d.session
       PROVE  Arrivals(s)' = Arrivals(s) /\ s \in Nat \ reported
  <2>1. d.session < s \/ ~active
    BY <1>3, <1>7, <1>11
  <2> QED
    BY <1>5, <1>10, <2>1
<1>12. ArrivalsCounted'
  <2>1. ASSUME NEW s \in Nat \ reported', NEW j \in DOMAIN queue',
               queue'[j].kind = "END", queue'[j].session = s
        PROVE  Cardinality(Arrivals(s)') + queue'[j].lost = queue'[j].number
    <3>1. PICK k \in DOMAIN queue : queue'[j] = queue[k] /\ Before(d, queue[k])
      BY <1>2 DEF d
    <3>2. s >= d.session
      BY <1>3, <2>1, <3>1 DEF Before
    <3>3. Arrivals(s)' = Arrivals(s) /\ s \in Nat \ reported
      BY <1>11, <3>2
    <3>4. Cardinality(Arrivals(s)) + queue[k].lost = queue[k].number
      BY <2>1, <3>1, <3>3 DEF InOneLine, ArrivalsCounted
    <3> QED
      BY <3>1, <3>3, <3>4
  <2>2. ASSUME NEW s \in Nat \ reported', pc' # "exited", session' = s
        PROVE  Cardinality(Arrivals(s)') + dropped' = sent'
    <3>1. s >= d.session
      <4>1. Before(d, Coming)
        BY <1>2 DEF InOneLine, QueueInLine, d
      <4> QED
        BY <1>2, <1>3, <2>2, <4>1, ComingIs DEF Before
    <3>2. Arrivals(s)' = Arrivals(s) /\ s \in Nat \ reported
      BY <1>11, <3>1
    <3>3. Cardinality(Arrivals(s)) + dropped = sent
      BY <1>2, <2>2, <3>2 DEF InOneLine, ArrivalsCounted
    <3> QED
      BY <1>2, <3>2, <3>3
  <2> QED
    BY <2>1, <2>2 DEF ArrivalsCounted
<1>13. MarkerBehind'
  <2> SUFFICES ASSUME NEW s \in heard', Pending(s)'
               PROVE  \E j \in DOMAIN queue' : queue'[j].kind = "END" /\ queue'[j].session = s
    BY DEF MarkerBehind
  <2>1. s \in heard /\ s \in Nat
    BY <1>2, SaneOnes
  <2>2. PICK j \in DOMAIN queue' : queue'[j].kind = "DATA" /\ queue'[j].session = s
    BY <1>4 DEF Pending
  <2>3. PICK k \in DOMAIN queue :
          queue[k].kind = "DATA" /\ queue[k].session = s /\ Before(d, queue[k])
    BY <1>2, <2>2 DEF d
  <2>4. d.session < s
    BY <1>3, <2>1, <2>3 DEF Before
  <2>5. Pending(s)
    BY <2>3 DEF Pending
  <2>6. PICK m \in DOMAIN queue : queue[m].kind = "END" /\ queue[m].session = s
    BY <2>1, <2>5 DEF InOneLine, MarkerBehind
  <2>7. queue[m] # queue[1]
    BY <1>3, <2>1, <2>4, <2>6 DEF d
  <2> QED
    BY <1>2, <2>6, <2>7
<1>14. SeenInLine'
  <2>1. ASSUME NEW q \in idled
        PROVE  Before(DataOf(q), Coming') /\ \A j \in DOMAIN queue' : Before(DataOf(q), queue'[j])
    BY <1>2 DEF InOneLine, SeenInLine
  <2> QED
    BY <1>4, <2>1 DEF SeenInLine
<1> QED
  BY <1>2, <1>4, <1>6, <1>8, <1>12, <1>13, <1>14, RunOver DEF InOneLine

(* What the idle timeout reports was counted, and stays so. *)
LEMMA IdleReportFacts ==
  ASSUME Types, InOneLine, IdleReport
  PROVE  InOneLine' /\ ReportTrue'
<1>1. /\ queue = <<>> /\ report' = <<>> /\ run' = NewRun /\ run'.seen = {}
      /\ idled' = idled \cup run.seen
      /\ UNCHANGED <<orderly, queue, session, pc, seq, sent, dropped, heard, reported>>
  BY NewRunIs DEF IdleReport, clientVars
<1>2. Coming' = Coming /\ DOMAIN queue = {}
  BY <1>1 DEF Coming, Data, End
<1>3. QueueInLine' /\ HeardInLine' /\ ReportedInLine'
  BY <1>1, <1>2 DEF InOneLine, QueueInLine, HeardInLine, ReportedInLine
<1>4. SeenInLine'
  BY <1>1, <1>2 DEF InOneLine, SeenInLine
<1>5. \A s : Arrivals(s)' = Arrivals(s) /\ ~Pending(s)'
  BY <1>1, <1>2 DEF Arrivals, Pending
<1>6. ArrivalsCounted' /\ MarkerBehind'
  BY <1>1, <1>2, <1>5 DEF InOneLine, ArrivalsCounted, MarkerBehind
<1> QED
  BY <1>1, <1>3, <1>4, <1>6, RunOver, NothingReported DEF InOneLine
-----------------------------------------------------------------------------
LEMMA InitFacts == Init => Inv
<1> SUFFICES ASSUME Init PROVE Inv
  OBVIOUS
<1>1. /\ queue = <<>> /\ run = NewRun /\ run.seen = {} /\ DOMAIN queue = {}
      /\ heard = {} /\ reported = {} /\ report = <<>> /\ pc = "exited" /\ active = FALSE
      /\ idled = {}
  BY NewRunIs DEF Init
<1>2. Types
  BY NewRunIs, EmptySeq DEF Init, Types
<1>3. RunCounts
  BY <1>1, NewRunIs, FS_EmptySet DEF RunCounts
<1>4. QueueInLine /\ SeenInLine /\ ReportedInLine /\ HeardInLine
  BY <1>1 DEF QueueInLine, SeenInLine, ReportedInLine, HeardInLine
<1>5. ArrivalsCounted /\ MarkerBehind
  BY <1>1 DEF ArrivalsCounted, MarkerBehind
<1>6. SingleRun
  BY <1>1, NewRunIs, FS_EmptySet DEF SingleRun
<1>7. ReportPast /\ ReportTrue
  <2>1. ToSet(<<>>) = {}
    BY DEF ToSet
  <2> QED
    BY <1>1, <2>1 DEF ReportPast, ReportTrue
<1> QED
  BY <1>2, <1>3, <1>4, <1>5, <1>6, <1>7 DEF Inv, InOneLine

LEMMA Step == Inv /\ [Next]_vars => Inv'
<1> SUFFICES ASSUME Inv, [Next]_vars PROVE Inv'
  OBVIOUS
<1>1. Types /\ RunCounts /\ Types' /\ RunCounts'
  BY AlwaysKept DEF Inv
<1>2. UNCHANGED orderly
  BY DEF Next, ClientNext, ServerNext, StartClient, SendData, Refused, NextPacket, SendEnd,
         ServeData, ServeEnd, IdleReport, Received, vars
<1>3. ASSUME orderly
      PROVE  InOneLine' /\ ReportTrue'
  <2>1. InOneLine /\ ReportTrue
    BY <1>3 DEF Inv
  <2>2. CASE StartClient
    BY <1>1, <2>1, <2>2, StartClientFacts
  <2>3. CASE SendData \/ Refused
    BY <1>1, <2>1, <2>3, PacketFacts
  <2>4. CASE SendEnd
    BY <1>1, <2>1, <2>4, SendEndFacts
  <2>5. CASE ServeData
    BY <1>1, <1>3, <2>1, <2>5, ServeDataFacts
  <2>6. CASE ServeEnd
    BY <1>1, <1>3, <2>1, <2>6, ServeEndFacts
  <2>7. CASE IdleReport
    BY <1>1, <2>1, <2>7, IdleReportFacts
  <2>8. CASE UNCHANGED vars
    <3>1. UNCHANGED <<orderly, queue, session, pc, seq, sent, dropped, heard,
                      run, report, reported, idled>>
      BY <2>8 DEF vars, clientVars, serverVars
    <3>2. Coming' = Coming /\ \A s : Arrivals(s)' = Arrivals(s) /\ Pending(s)' = Pending(s)
      BY <3>1, ArrivalsStay DEF Coming, Data, End
    <3>3. QueueInLine' /\ SeenInLine' /\ ReportedInLine' /\ HeardInLine'
      BY <2>1, <3>1, <3>2
         DEF InOneLine, QueueInLine, SeenInLine, ReportedInLine, HeardInLine
    <3>4. ArrivalsCounted' /\ MarkerBehind'
      BY <2>1, <3>1, <3>2 DEF InOneLine, ArrivalsCounted, MarkerBehind
    <3>5. SingleRun' /\ ReportPast' /\ ReportTrue'
      BY <2>1, <3>1 DEF InOneLine, SingleRun, ReportPast, ReportTrue, IdledOf
    <3> QED
      BY <3>3, <3>4, <3>5 DEF InOneLine
  <2> QED
    BY <2>2, <2>3, <2>4, <2>5, <2>6, <2>7, <2>8 DEF Next, ClientNext, ServerNext
<1> QED
  BY <1>1, <1>2, <1>3 DEF Inv

(***************************************************************************)
(* What udp_flood_server.py reports, for every number of packets, end      *)
(* markers, clients and duplicates and every size of the queue: its gaps   *)
(* are what is missing but for the late packets, whatever the network      *)
(* does, and on a network that keeps the order the loss an end marker      *)
(* makes it report is that client's loss, reported once.                   *)
(***************************************************************************)
THEOREM Safety == Spec => [](GapsExact /\ ReportTrue)
<1>1. Inv => GapsExact
  BY CountsAreExact DEF Inv
<1>2. Inv => ReportTrue
  BY DEF Inv, ReportTrue
<1> QED
  BY <1>1, <1>2, InitFacts, Step, PTL DEF Spec
=============================================================================
