--------------------------- MODULE BufUser_proofs ---------------------------
(***************************************************************************)
(* The two bounded buffers and the program that uses them, for every       *)
(* capacity and any number of producers.  Both classes keep a ring, so     *)
(* what the ring does comes first; then the monitor by itself, with any    *)
(* producers and consumers; then the semaphores; then the messages.        *)
(***************************************************************************)
EXTENDS BufUser, SequenceTheorems, FiniteSetTheorems, FunctionTheorems, TLAPS

(***************************************************************************)
(* The arithmetic of a ring of n slots: the slot k places behind slot o.   *)
(***************************************************************************)
LEMMA RingSlot ==
  ASSUME NEW n \in Nat \ {0}, NEW o \in 0..(n - 1), NEW k \in 0..n
  PROVE  /\ (o + k) % n = IF o + k < n THEN o + k ELSE o + k - n
         /\ (o + k) % n \in 0..(n - 1)
<1>1. (o + k) % n = IF o + k < n THEN o + k ELSE o + k - n
  <2>1. CASE o + k < n
    BY <2>1
  <2>2. CASE o + k >= n
    BY <2>2
  <2> QED
    BY <2>1, <2>2
<1>2. (IF o + k < n THEN o + k ELSE o + k - n) \in 0..(n - 1)
  OBVIOUS
<1> QED
  BY <1>1, <1>2

(* Fewer than n places apart, two slots differ. *)
LEMMA RingDistinct ==
  ASSUME NEW n \in Nat \ {0}, NEW o \in 0..(n - 1),
         NEW j \in 0..(n - 1), NEW k \in 0..(n - 1), j # k
  PROVE  (o + j) % n # (o + k) % n
<1> DEFINE place(i) == IF o + i < n THEN o + i ELSE o + i - n
<1>1. (o + j) % n = place(j) /\ (o + k) % n = place(k)
  <2>1. j \in 0..n /\ k \in 0..n
    OBVIOUS
  <2> QED
    BY <2>1, RingSlot
<1>2. place(j) # place(k)
  <2>1. CASE o + j < n /\ o + k < n
    BY <2>1
  <2>2. CASE o + j >= n /\ o + k >= n
    BY <2>2
  <2>3. CASE o + j < n /\ o + k >= n
    BY <2>3
  <2>4. CASE o + j >= n /\ o + k < n
    BY <2>4
  <2> QED
    BY <2>1, <2>2, <2>3, <2>4
<1> QED
  BY <1>1, <1>2

(* When the slot they are counted from advances, places shift by one. *)
LEMMA RingShift ==
  ASSUME NEW n \in Nat \ {0}, NEW o \in 0..(n - 1), NEW k \in 0..(n - 1)
  PROVE  (((o + 1) % n) + k) % n = (o + (k + 1)) % n
<1> DEFINE first == IF o + 1 < n THEN o + 1 ELSE o + 1 - n
           before == IF o + (k + 1) < n THEN o + (k + 1) ELSE o + (k + 1) - n
           after == IF first + k < n THEN first + k ELSE first + k - n
<1>1. (o + 1) % n = first /\ first \in 0..(n - 1)
  <2>1. 1 \in 0..n
    OBVIOUS
  <2>2. (o + 1) % n = first
    BY <2>1, RingSlot
  <2>3. (o + 1) % n \in 0..(n - 1)
    BY <2>1, RingSlot
  <2> QED
    BY <2>2, <2>3
<1>2. (first + k) % n = after
  <2>1. k \in 0..n
    OBVIOUS
  <2> HIDE DEF first
  <2> QED
    BY <1>1, <2>1, RingSlot
<1>3. (o + (k + 1)) % n = before
  <2>1. k + 1 \in 0..n
    OBVIOUS
  <2> QED
    BY <2>1, RingSlot
<1>4. after = before
  OBVIOUS
<1> QED
  BY <1>1, <1>2, <1>3, <1>4

LEMMA RingNext ==
  ASSUME NEW n \in Nat \ {0}, NEW o \in 0..(n - 1), NEW k \in 0..(n - 1)
  PROVE  (((o + k) % n) + 1) % n = (o + (k + 1)) % n
<1> DEFINE place == IF o + k < n THEN o + k ELSE o + k - n
           next == IF place + 1 < n THEN place + 1 ELSE place + 1 - n
           sum == IF o + (k + 1) < n THEN o + (k + 1) ELSE o + (k + 1) - n
<1>1. k \in 0..n /\ k + 1 \in 0..n /\ 1 \in 0..n
  OBVIOUS
<1>2. (o + k) % n = place
  BY <1>1, RingSlot
<1>3. place \in 0..(n - 1)
  BY <1>1, <1>2, RingSlot
<1>4. (place + 1) % n = next
  <2> HIDE DEF place
  <2> QED
    BY <1>1, <1>3, RingSlot
<1>5. (o + (k + 1)) % n = sum
  BY <1>1, RingSlot
<1>6. next = sum
  OBVIOUS
<1> QED
  BY <1>2, <1>4, <1>5, <1>6
-----------------------------------------------------------------------------
(***************************************************************************)
(* The ring: a queue of n items from slot `first' on, all else empty.      *)
(***************************************************************************)
Place(first, k) == (first + k) % Size

Holds(d, first, n) ==
  /\ d \in [Slots -> Items \cup {None}]
  /\ \A i \in Slots : d[i] \in Items <=> i \in {Place(first, k) : k \in 0..(n - 1)}

QueueOf(d, first, n) == [k \in 1..n |-> d[(first + k - 1) % Size]]

LEMMA PlaceFacts ==
  ASSUME NEW first \in Slots
  PROVE  /\ \A k \in 0..Size : Place(first, k) \in Slots
         /\ \A j, k \in 0..(Size - 1) : j # k => Place(first, j) # Place(first, k)
         /\ \A k \in 0..(Size - 1) : (Place(first, k) + 1) % Size = Place(first, k + 1)
         /\ \A k \in 0..(Size - 1) : Place((first + 1) % Size, k) = Place(first, k + 1)
         /\ Place(first, 0) = first
         /\ (first + 1) % Size \in Slots
<1>1. Size \in Nat \ {0} /\ first \in 0..(Size - 1)
  BY BufferAssumption DEF BufferAssumption, Slots
<1>2. \A k \in 0..Size : Place(first, k) \in Slots
  BY <1>1, RingSlot DEF Place, Slots
<1>3. \A j, k \in 0..(Size - 1) : j # k => Place(first, j) # Place(first, k)
  BY <1>1, RingDistinct DEF Place
<1>4. \A k \in 0..(Size - 1) : (Place(first, k) + 1) % Size = Place(first, k + 1)
  BY <1>1, RingNext DEF Place
<1>5. Place(first, 0) = first
  <2>1. 0 \in 0..Size /\ first + 0 = first /\ first < Size
    BY <1>1
  <2> QED
    BY <1>1, <2>1, RingSlot DEF Place
<1>6. \A k \in 0..(Size - 1) : Place((first + 1) % Size, k) = Place(first, k + 1)
  BY <1>1, RingShift DEF Place
<1>7. (first + 1) % Size \in Slots
  <2>1. 1 \in 0..Size
    BY <1>1
  <2> QED
    BY <1>2, <2>1 DEF Place
<1> QED
  BY <1>2, <1>3, <1>4, <1>5, <1>6, <1>7

LEMMA QueueSeq ==
  ASSUME NEW d, NEW first \in Slots, NEW n \in 0..Size, Holds(d, first, n)
  PROVE  /\ QueueOf(d, first, n) \in Seq(Items)
         /\ Len(QueueOf(d, first, n)) = n
         /\ \A k \in 1..n : QueueOf(d, first, n)[k] = d[Place(first, k - 1)]
<1>1. Size \in Nat \ {0} /\ first \in 0..(Size - 1) /\ n \in Nat
  BY BufferAssumption DEF BufferAssumption, Slots
<1>2. \A k \in 1..n : k - 1 \in 0..(n - 1) /\ k - 1 \in 0..Size
  BY <1>1
<1>3. \A k \in 1..n : d[Place(first, k - 1)] \in Items
  BY <1>2, PlaceFacts DEF Holds
<1>4. QueueOf(d, first, n) = [k \in 1..n |-> d[Place(first, k - 1)]]
  <2>1. \A k \in 1..n : first + k - 1 = first + (k - 1)
    BY <1>1
  <2> QED
    BY <2>1 DEF QueueOf, Place
<1>5. QueueOf(d, first, n) \in [1..n -> Items]
  BY <1>3, <1>4
<1> QED
  BY <1>1, <1>4, <1>5, SeqDef, LenProperties

(* Two sequences with the same length and elements are the same. *)
LEMMA SameSeq ==
  ASSUME NEW S, NEW s \in Seq(S), NEW t \in Seq(S), Len(s) = Len(t),
         \A k \in 1..Len(s) : s[k] = t[k]
  PROVE  s = t
  BY SeqEqual

Written(d, slot, x, d2) == d2 = [d EXCEPT ![slot] = x]

(* Depositing fills the slot behind the last: the queue grows by the item. *)
LEMMA RingAppend ==
  ASSUME NEW d, NEW first \in Slots, NEW n \in 0..(Size - 1), Holds(d, first, n),
         NEW slot, slot = Place(first, n),
         NEW item \in Items, NEW d2, Written(d, slot, item, d2)
  PROVE  /\ Holds(d2, first, n + 1)
         /\ QueueOf(d2, first, n + 1) = Append(QueueOf(d, first, n), item)
         /\ slot \in Slots /\ d[slot] \notin Items
<1>0. PICK m : m = n + 1
  OBVIOUS
<1>1. /\ Size \in Nat \ {0} /\ None \notin Items
      /\ n \in 0..Size /\ m \in 0..Size /\ n \in Nat /\ m = n + 1
  BY <1>0, BufferAssumption DEF BufferAssumption
<1>2. slot \in Slots
  BY <1>1, PlaceFacts
<1>3. Holds(d2, first, m)
  <2>1. 0..(m - 1) = 0..(n - 1) \cup {n}
    BY <1>1
  <2>2. {Place(first, k) : k \in 0..(m - 1)} = {Place(first, k) : k \in 0..(n - 1)} \cup {slot}
    BY <2>1
  <2>3. d2 \in [Slots -> Items \cup {None}]
    BY <1>2 DEF Holds, Written
  <2>4. \A i \in Slots : d2[i] \in Items <=> i = slot \/ d[i] \in Items
    BY <1>2 DEF Holds, Written
  <2> QED
    BY <2>2, <2>3, <2>4 DEF Holds
<1>4. d[slot] \notin Items
  <2>1. \A k \in 0..(n - 1) : Place(first, k) # slot
    <3>1. \A k \in 0..(n - 1) : k \in 0..(Size - 1) /\ k # n
      BY <1>1
    <3>2. \A j, k \in 0..(Size - 1) : j # k => Place(first, j) # Place(first, k)
      BY PlaceFacts
    <3> QED
      BY <3>1, <3>2
  <2> QED
    BY <1>2, <2>1 DEF Holds
<1> DEFINE q == QueueOf(d, first, n)
           r == QueueOf(d2, first, m)
<1>5. /\ q \in Seq(Items) /\ Len(q) = n
      /\ \A k \in 1..n : q[k] = d[Place(first, k - 1)]
  BY <1>1, QueueSeq
<1>6. /\ r \in Seq(Items) /\ Len(r) = m
      /\ \A k \in 1..m : r[k] = d2[Place(first, k - 1)]
  <2>1. m \in 0..Size
    BY <1>1
  <2> QED
    BY <2>1, <1>3, QueueSeq
<1> HIDE DEF q, r
<1>7. /\ Append(q, item) \in Seq(Items)
      /\ Len(Append(q, item)) = m
      /\ \A k \in 1..n : Append(q, item)[k] = q[k]
      /\ Append(q, item)[m] = item
  BY <1>0, <1>5, AppendProperties
<1>8. ASSUME NEW k \in 1..m PROVE r[k] = Append(q, item)[k]
  <2>1. CASE k = m
    <3>1. k - 1 = n
      BY <1>1, <2>1
    <3>2. d2[slot] = item
      BY <1>2 DEF Holds, Written
    <3> QED
      BY <1>6, <1>7, <2>1, <3>1, <3>2
  <2>2. CASE k # m
    <3>1. k \in 1..n /\ k - 1 \in 0..(n - 1)
      BY <1>1, <2>2
    <3>2. Place(first, k - 1) \in Slots /\ d[Place(first, k - 1)] \in Items
      <4>1. k - 1 \in 0..Size
        BY <1>1, <3>1
      <4> QED
        BY <3>1, <4>1, PlaceFacts DEF Holds
    <3>3. Place(first, k - 1) # slot
      BY <1>4, <3>2
    <3>4. d2[Place(first, k - 1)] = d[Place(first, k - 1)]
      BY <3>2, <3>3 DEF Holds, Written
    <3> QED
      BY <1>5, <1>6, <1>7, <3>1, <3>4
  <2> QED
    BY <2>1, <2>2
<1>9. r = Append(q, item)
  BY <1>6, <1>7, <1>8, SameSeq
<1> QED
  BY <1>0, <1>2, <1>3, <1>4, <1>9 DEF q, r

(* Taking empties the first slot: the queue loses its head. *)
LEMMA RingTail ==
  ASSUME NEW d, NEW first \in Slots, NEW n \in 1..Size, Holds(d, first, n),
         NEW d2, Written(d, first, None, d2)
  PROVE  /\ Holds(d2, (first + 1) % Size, n - 1)
         /\ QueueOf(d2, (first + 1) % Size, n - 1) = Tail(QueueOf(d, first, n))
         /\ QueueOf(d, first, n) # <<>>
         /\ Head(QueueOf(d, first, n)) = d[first]
         /\ d[first] \in Items
<1> DEFINE next == (first + 1) % Size
<1>1. /\ Size \in Nat \ {0} /\ None \notin Items
      /\ n \in 0..Size /\ n - 1 \in 0..Size /\ n \in Nat /\ first \in Slots
  BY BufferAssumption DEF BufferAssumption
<1>2. next \in Slots /\ \A k \in 0..(Size - 1) : Place(next, k) = Place(first, k + 1)
  BY PlaceFacts
<1>3. Place(first, 0) = first /\ \A k \in 1..(n - 1) : Place(first, k) \in Slots /\ Place(first, k) # first
  <2>1. \A k \in 1..(n - 1) : k \in 0..Size /\ k \in 0..(Size - 1) /\ k # 0 /\ 0 \in 0..(Size - 1)
    BY <1>1
  <2> QED
    BY <2>1, PlaceFacts
<1>4. d[first] \in Items
  <2>1. 0 \in 0..(n - 1)
    BY <1>1
  <2> QED
    BY <2>1, <1>3 DEF Holds
<1>5. Holds(d2, next, n - 1)
  <2>1. {Place(next, k) : k \in 0..((n - 1) - 1)} = {Place(first, k) : k \in 1..(n - 1)}
    <3>1. \A k \in 0..((n - 1) - 1) : k \in 0..(Size - 1) /\ k + 1 \in 1..(n - 1)
      BY <1>1
    <3>2. \A k \in 1..(n - 1) : k - 1 \in 0..((n - 1) - 1) /\ (k - 1) + 1 = k
      BY <1>1
    <3> HIDE DEF next
    <3> QED
      BY <1>2, <3>1, <3>2
  <2>2. {Place(first, k) : k \in 0..(n - 1)} = {first} \cup {Place(first, k) : k \in 1..(n - 1)}
    <3>1. 0..(n - 1) = {0} \cup 1..(n - 1)
      BY <1>1
    <3> QED
      BY <3>1, <1>3
  <2>3. first \notin {Place(first, k) : k \in 1..(n - 1)}
    BY <1>3
  <2> HIDE DEF next
  <2> QED
    BY <1>1, <2>1, <2>2, <2>3 DEF Holds, Written
<1> HIDE DEF next
<1> DEFINE q == QueueOf(d, first, n)
           r == QueueOf(d2, next, n - 1)
<1>6. /\ q \in Seq(Items) /\ Len(q) = n
      /\ \A k \in 1..n : q[k] = d[Place(first, k - 1)]
  BY <1>1, QueueSeq
<1>7. /\ r \in Seq(Items) /\ Len(r) = n - 1
      /\ \A k \in 1..(n - 1) : r[k] = d2[Place(next, k - 1)]
  BY <1>1, <1>2, <1>5, QueueSeq
<1> HIDE DEF q, r
<1>8. q # <<>>
  BY <1>1, <1>6
<1>9. Head(q) = d[first]
  <2>1. Head(q) = q[1] /\ 1 \in 1..n /\ 1 - 1 = 0
    BY <1>1, <1>6, <1>8
  <2> QED
    BY <1>3, <1>6, <2>1
<1>10. /\ Tail(q) \in Seq(Items) /\ Len(Tail(q)) = n - 1
       /\ \A k \in 1..(n - 1) : Tail(q)[k] = q[k + 1]
  BY <1>6, <1>8, HeadTailProperties
<1>11. ASSUME NEW k \in 1..(n - 1) PROVE r[k] = Tail(q)[k]
  <2>1. /\ k - 1 \in 0..(Size - 1) /\ (k - 1) + 1 = k
        /\ k + 1 \in 1..n /\ (k + 1) - 1 = k
    BY <1>1
  <2>2. Place(next, k - 1) = Place(first, k)
    BY <1>2, <2>1
  <2>3. d2[Place(first, k)] = d[Place(first, k)]
    BY <1>3 DEF Holds, Written
  <2> QED
    BY <1>6, <1>7, <1>10, <2>1, <2>2, <2>3
<1>12. r = Tail(q)
  BY <1>7, <1>10, <1>11, SameSeq
<1> QED
  BY <1>4, <1>5, <1>8, <1>9, <1>12 DEF q, r, next
-----------------------------------------------------------------------------
(***************************************************************************)
(* The monitor.  The three safety invariants are inductive together: a     *)
(* wake-up is never lost because the counter is right, items come only out *)
(* of filled slots because the ring is consistent.                         *)
(***************************************************************************)
Inv == TypeOK /\ RingConsistent /\ NoLostWakeup

LEMMA MonitorRing ==
  ASSUME TypeOK
  PROVE  /\ RingConsistent <=> in = Place(out, used) /\ Holds(data, out, used)
         /\ Contents = QueueOf(data, out, used)
BY DEF TypeOK, RingConsistent, FilledSlots, Holds, Place, Contents, QueueOf

LEMMA MonitorRingAfter ==
  TypeOK' => /\ RingConsistent' <=> in' = Place(out', used') /\ Holds(data', out', used')
             /\ Contents' = QueueOf(data', out', used')
BY DEF TypeOK, RingConsistent, FilledSlots, Holds, Place, Contents, QueueOf

LEMMA InitInv == Init => Inv
<1> SUFFICES ASSUME Init PROVE Inv
  OBVIOUS
<1>1. Size \in Nat \ {0} /\ 0 \in Slots /\ None \notin Items
  BY BufferAssumption DEF BufferAssumption, Slots
<1>2. TypeOK
  BY <1>1 DEF Init, TypeOK
<1>3. FilledSlots = {}
  BY DEF Init, FilledSlots
<1>4. in = (out + used) % Size
  BY <1>1, PlaceFacts DEF Init, Place
<1>5. RingConsistent
  BY <1>1, <1>3, <1>4 DEF Init, RingConsistent
<1>6. NoLostWakeup
  BY DEF Init, NoLostWakeup
<1> QED
  BY <1>2, <1>5, <1>6 DEF Inv

LEMMA PutKeeps ==
  ASSUME Inv, NEW p \in Producers, NEW item \in Items, Put(p, item)
  PROVE  Inv' /\ Contents' = Append(Contents, item)
<1>1. /\ Size \in Nat \ {0}
      /\ out \in Slots /\ used \in 0..(Size - 1) /\ used \in 0..Size
      /\ waiting \subseteq Producers \cup Consumers
      /\ in = Place(out, used) /\ Holds(data, out, used)
      /\ Contents = QueueOf(data, out, used)
  BY BufferAssumption, MonitorRing DEF BufferAssumption, Put, Inv, TypeOK
<1>2. /\ data' = [data EXCEPT ![in] = item]
      /\ in' = (in + 1) % Size /\ used' = used + 1 /\ out' = out /\ got' = got
      /\ waiting' = IF used' = 1 THEN {} ELSE waiting
  BY DEF Put
<1>3. /\ Holds(data', out, used + 1)
      /\ QueueOf(data', out, used + 1) = Append(QueueOf(data, out, used), item)
  <2>1. Written(data, in, item, data')
    BY <1>2 DEF Written
  <2> QED
    BY <1>1, <2>1, RingAppend
<1>4. in' = Place(out, used + 1) /\ in' \in Slots
  <2>1. used + 1 \in 0..Size
    BY <1>1
  <2> QED
    BY <1>1, <1>2, <2>1, PlaceFacts
<1>5. TypeOK'
  <2>1. used' \in 0..Size
    BY <1>1, <1>2
  <2> QED
    BY <1>1, <1>2, <1>3, <1>4, <2>1 DEF Inv, TypeOK, Holds
<1>6. RingConsistent' /\ Contents' = Append(Contents, item)
  BY <1>1, <1>2, <1>3, <1>4, <1>5, MonitorRingAfter
<1>7. NoLostWakeup'
  <2>1. \A q \in Producers : q \notin waiting
    BY <1>1 DEF Inv, NoLostWakeup
  <2>2. \A c \in Consumers : c \in waiting => used = 0
    BY DEF Inv, NoLostWakeup
  <2> QED
    BY <1>1, <1>2, <2>1, <2>2 DEF NoLostWakeup
<1> QED
  BY <1>5, <1>6, <1>7 DEF Inv

LEMMA GetKeeps ==
  ASSUME Inv, NEW c \in Consumers, Get(c)
  PROVE  /\ Inv'
         /\ Contents # <<>>
         /\ got' = [got EXCEPT ![c] = <<Head(Contents)>>]
         /\ Contents' = Tail(Contents)
<1>1. /\ Size \in Nat \ {0}
      /\ out \in Slots /\ used \in 1..Size /\ used \in 0..Size
      /\ waiting \subseteq Producers \cup Consumers
      /\ in = Place(out, used) /\ in \in Slots /\ Holds(data, out, used)
      /\ Contents = QueueOf(data, out, used)
  BY BufferAssumption, MonitorRing DEF BufferAssumption, Get, Inv, TypeOK
<1>2. /\ data' = [data EXCEPT ![out] = None]
      /\ out' = (out + 1) % Size /\ used' = used - 1 /\ in' = in
      /\ got' = [got EXCEPT ![c] = <<data[out]>>]
      /\ waiting' = IF used' = Size - 1 THEN {} ELSE waiting
  BY DEF Get
<1>3. /\ Holds(data', out', used - 1)
      /\ QueueOf(data', out', used - 1) = Tail(QueueOf(data, out, used))
      /\ QueueOf(data, out, used) # <<>>
      /\ Head(QueueOf(data, out, used)) = data[out]
      /\ data[out] \in Items
  <2>1. Written(data, out, None, data')
    BY <1>2 DEF Written
  <2> QED
    BY <1>1, <1>2, <2>1, RingTail
<1>4. out' \in Slots /\ in = Place(out', used - 1)
  <2>1. used - 1 \in 0..(Size - 1) /\ (used - 1) + 1 = used
    BY <1>1
  <2> QED
    BY <1>1, <1>2, <2>1, PlaceFacts
<1>5. TypeOK'
  <2>1. <<data[out]>> \in Seq(Items)
    BY <1>3
  <2>2. used' \in 0..Size
    BY <1>1, <1>2
  <2>3. got' \in [Consumers -> Seq(Items)]
    BY <1>2, <2>1 DEF Inv, TypeOK
  <2> QED
    BY <1>1, <1>2, <1>3, <1>4, <2>2, <2>3 DEF TypeOK, Holds
<1>6. RingConsistent' /\ Contents' = Tail(Contents)
  BY <1>1, <1>2, <1>3, <1>4, <1>5, MonitorRingAfter
<1>7. NoLostWakeup'
  <2>1. \A d \in Consumers : d \notin waiting
    BY <1>1 DEF Inv, NoLostWakeup
  <2>2. \A q \in Producers : q \in waiting => used = Size
    BY DEF Inv, NoLostWakeup
  <2> QED
    BY <1>1, <1>2, <2>1, <2>2 DEF NoLostWakeup
<1> QED
  BY <1>1, <1>2, <1>3, <1>5, <1>6, <1>7 DEF Inv

LEMMA WaitInv ==
  ASSUME Inv,
         \/ \E p \in Producers : PutWaits(p)
         \/ \E c \in Consumers : GetWaits(c)
  PROVE  Inv'
<1>1. PICK t \in Producers \cup Consumers :
        /\ Wait(t)
        /\ t \in Producers => used = Size
        /\ t \in Consumers => used = 0
  BY BufferAssumption DEF BufferAssumption, PutWaits, GetWaits
<1>2. UNCHANGED <<data, in, out, used, got>> /\ waiting' = waiting \cup {t}
  BY <1>1 DEF Wait
<1>3. TypeOK'
  BY <1>2 DEF Inv, TypeOK
<1>4. RingConsistent'
  BY <1>2 DEF Inv, RingConsistent, FilledSlots
<1>5. NoLostWakeup'
  BY <1>1, <1>2 DEF Inv, NoLostWakeup
<1> QED
  BY <1>3, <1>4, <1>5 DEF Inv

LEMMA NextInv == Inv /\ [Next]_bufferVars => Inv'
<1> SUFFICES ASSUME Inv, [Next]_bufferVars PROVE Inv'
  OBVIOUS
<1>1. CASE \E p \in Producers, item \in Items : Put(p, item)
  BY <1>1, PutKeeps
<1>2. CASE \E c \in Consumers : Get(c)
  BY <1>2, GetKeeps
<1>3. CASE (\E p \in Producers : PutWaits(p)) \/ (\E c \in Consumers : GetWaits(c))
  BY <1>3, WaitInv
<1>4. CASE UNCHANGED bufferVars
  BY <1>4 DEF bufferVars, Inv, TypeOK, RingConsistent, FilledSlots, NoLostWakeup
<1> QED
  BY <1>1, <1>2, <1>3, <1>4 DEF Next, ProducerStep, ConsumerStep

(***************************************************************************)
(* The monitor buffer loses no wake-up by notifying on two transitions     *)
(* only, and its pointers, its counter and its slots always agree.         *)
(***************************************************************************)
THEOREM Safety == Spec => [](TypeOK /\ RingConsistent /\ NoLostWakeup)
<1>1. Inv => TypeOK /\ RingConsistent /\ NoLostWakeup
  BY DEF Inv
<1> QED
  BY <1>1, InitInv, NextInv, PTL DEF Spec
(***************************************************************************)
(* The ring is a queue: depositing appends to its contents, taking removes *)
(* and returns their head, and nothing else changes them.                  *)
(***************************************************************************)
LEMMA MonitorInit == Init => Fifo!Init
<1> SUFFICES ASSUME Init PROVE Fifo!Init
  OBVIOUS
<1>1. 0 \in Slots /\ 0 \in 0..Size /\ TypeOK /\ Holds(data, out, 0)
  <2>1. TypeOK /\ RingConsistent
    BY InitInv DEF Inv
  <2>2. 0 \in Slots /\ 0 \in 0..Size
    BY BufferAssumption DEF BufferAssumption, Slots
  <2> QED
    BY <2>1, <2>2, MonitorRing DEF Init
<1>2. Contents \in Seq(Items) /\ Len(Contents) = 0
  BY <1>1, MonitorRing, QueueSeq DEF Init
<1>3. Contents = <<>>
  BY <1>2, EmptySeq
<1> QED
  BY <1>3 DEF Init, Fifo!Init

LEMMA MonitorStep == Inv /\ [Next]_bufferVars => [Fifo!Next]_(Fifo!vars)
<1> SUFFICES ASSUME Inv, [Next]_bufferVars
             PROVE  [Fifo!Next]_(Fifo!vars)
  OBVIOUS
<1>1. ASSUME NEW p \in Producers, NEW item \in Items, Put(p, item)
      PROVE  Fifo!Next
  <2>1. Len(Contents) < Size
    <3>1. /\ used \in 0..Size /\ used # Size /\ Size \in Nat
          /\ out \in Slots /\ Holds(data, out, used)
          /\ Contents = QueueOf(data, out, used)
      BY <1>1, MonitorRing, BufferAssumption DEF BufferAssumption, Put, Inv, TypeOK
    <3>2. Len(Contents) = used
      BY <3>1, QueueSeq
    <3> QED
      BY <3>1, <3>2
  <2>2. Contents' = Append(Contents, item) /\ UNCHANGED got
    BY <1>1, PutKeeps DEF Put
  <2> QED
    BY <2>1, <2>2 DEF Fifo!Next, Fifo!Put
<1>2. ASSUME NEW c \in Consumers, Get(c)
      PROVE  Fifo!Next
  BY <1>2, GetKeeps DEF Fifo!Next, Fifo!Get
<1>3. ASSUME NEW t, Wait(t)
      PROVE  UNCHANGED Fifo!vars
  BY <1>3 DEF Wait, Contents, Fifo!vars
<1>4. CASE UNCHANGED bufferVars
  BY <1>4 DEF bufferVars, Contents, Fifo!vars
<1> QED
  BY <1>1, <1>2, <1>3, <1>4
     DEF Next, ProducerStep, ConsumerStep, PutWaits, GetWaits

(* The monitor buffer implements the first-in first-out queue.             *)
THEOREM Refinement == Spec => ImplementsFifo
<1> QED
  BY InitInv, NextInv, MonitorInit, MonitorStep, PTL DEF Spec, ImplementsFifo, Fifo!Spec
-----------------------------------------------------------------------------
(***************************************************************************)
(* The semaphores.  First who the threads are, and that the instance       *)
(* speaks of the same ones and counts as we do.                            *)
(***************************************************************************)
LEMMA ThreadFacts ==
  /\ Thread = Producers \cup {Consumer} /\ Consumers = {Consumer}
  /\ Consumer \notin Producers
  /\ Sem!Threads = Thread /\ Sem!Slots = Slots
  /\ IsFiniteSet(Thread)
<1> USE BufUserAssumption DEF BufUserAssumption
<1>1. Thread = Producers \cup {Consumer} /\ Consumer \notin Producers /\ Consumers = {Consumer}
  BY DEF Thread, Consumer
<1>2. IsFiniteSet(Thread)
  BY FS_Interval DEF Thread
<1> QED
  BY <1>1, <1>2 DEF Sem!Threads, Sem!Slots, Slots

LEMMA SameCardinality == \A S : Sem!Cardinality(S) = Cardinality(S)
BY DEF Sem!Cardinality, Cardinality

(* The threads that come into question are finitely many. *)
LEMMA FiniteThreads ==
  ASSUME NEW S \in SUBSET Thread
  PROVE  IsFiniteSet(S) /\ Cardinality(S) \in Nat
BY ThreadFacts, FS_Subset, FS_CardinalityType

(* How a number of threads changes when one of them moves. *)
One(condition) == IF condition THEN 1 ELSE 0

LEMMA OneMoves ==
  ASSUME NEW X \in SUBSET Thread, NEW Y \in SUBSET Thread, NEW t,
         \A u \in Thread : u # t => (u \in X <=> u \in Y)
  PROVE  Cardinality(Y) = Cardinality(X) + One(t \in Y) - One(t \in X)
<1>1. IsFiniteSet(X) /\ Cardinality(X) \in Nat
  BY FiniteThreads
<1>2. CASE t \in X /\ t \notin Y
  <2>1. Y = X \ {t}
    BY <1>2
  <2> QED
    BY <1>1, <1>2, <2>1, FS_RemoveElement DEF One
<1>3. CASE t \notin X /\ t \in Y
  <2>1. Y = X \cup {t}
    BY <1>3
  <2> QED
    BY <1>1, <1>3, <2>1, FS_AddElement DEF One
<1>4. CASE t \in X <=> t \in Y
  <2>1. Y = X
    BY <1>4
  <2> QED
    BY <1>1, <1>4, <2>1 DEF One
<1> QED
  BY <1>2, <1>3, <1>4

(***************************************************************************)
(* A semaphore serves those who enter: all who wait are among them, and if *)
(* any wait, the units that are free are no more than the others, who are  *)
(* awake and on their way to take them.                                    *)
(***************************************************************************)
SemaphoreOf == [s : Nat, waiting : SUBSET Thread]

Serves(sem, entering) ==
  /\ sem.waiting \subseteq entering
  /\ sem.waiting # {} => sem.s <= Cardinality(entering \ sem.waiting)

LEMMA PassServes ==
  ASSUME NEW sem \in SemaphoreOf, NEW entering \in SUBSET Thread, NEW i \in entering,
         Serves(sem, entering), Sem!Passes(sem, i)
  PROVE  /\ sem.s > 0
         /\ Sem!AfterPass(sem) \in SemaphoreOf
         /\ Sem!AfterPass(sem).s = sem.s - 1
         /\ Serves(Sem!AfterPass(sem), entering \ {i})
<1>1. /\ sem.s > 0 /\ sem.s \in Nat /\ i \notin sem.waiting
      /\ Sem!AfterPass(sem) = [s |-> sem.s - 1, waiting |-> sem.waiting]
  BY DEF SemaphoreOf, Sem!Passes, Sem!AfterPass
<1>2. (entering \ {i}) \ sem.waiting = (entering \ sem.waiting) \ {i}
  OBVIOUS
<1>3. IsFiniteSet(entering \ sem.waiting)
  BY FiniteThreads
<1>4. i \in entering \ sem.waiting
  BY <1>1
<1>5. Cardinality((entering \ {i}) \ sem.waiting) = Cardinality(entering \ sem.waiting) - 1
  BY <1>2, <1>3, <1>4, FS_RemoveElement
<1>6. Cardinality(entering \ sem.waiting) \in Nat
  BY <1>3, FS_CardinalityType
<1> QED
  BY <1>1, <1>5, <1>6 DEF Serves, SemaphoreOf

LEMMA WaitServes ==
  ASSUME NEW sem \in SemaphoreOf, NEW entering \in SUBSET Thread, NEW i \in entering,
         Serves(sem, entering), Sem!Waits(sem, i)
  PROVE  /\ Sem!AfterWait(sem, i) \in SemaphoreOf
         /\ Sem!AfterWait(sem, i).s = sem.s
         /\ Serves(Sem!AfterWait(sem, i), entering)
<1>1. /\ sem.s = 0
      /\ Sem!AfterWait(sem, i) = [s |-> sem.s, waiting |-> sem.waiting \cup {i}]
  BY DEF SemaphoreOf, Sem!Waits, Sem!AfterWait
<1>2. Cardinality(entering \ (sem.waiting \cup {i})) \in Nat
  BY FiniteThreads
<1> QED
  BY <1>1, <1>2 DEF Serves, SemaphoreOf

LEMMA VServes ==
  ASSUME NEW sem \in SemaphoreOf, NEW entering \in SUBSET Thread,
         Serves(sem, entering), NEW after \in Sem!AfterV(sem)
  PROVE  /\ after \in SemaphoreOf
         /\ after.s = sem.s + 1
         /\ Serves(after, entering)
<1>1. CASE sem.waiting = {}
  BY <1>1 DEF Serves, SemaphoreOf, Sem!AfterV
<1>2. CASE sem.waiting # {}
  <2>1. PICK t \in sem.waiting : after = [s |-> sem.s + 1, waiting |-> sem.waiting \ {t}]
    BY <1>2 DEF Sem!AfterV
  <2>2. entering \ (sem.waiting \ {t}) = (entering \ sem.waiting) \cup {t}
    BY DEF Serves
  <2>3. IsFiniteSet(entering \ sem.waiting) /\ t \notin entering \ sem.waiting
    BY FiniteThreads
  <2>4. Cardinality(entering \ (sem.waiting \ {t})) = Cardinality(entering \ sem.waiting) + 1
    BY <2>2, <2>3, FS_AddElement
  <2>5. Cardinality(entering \ sem.waiting) \in Nat /\ sem.s \in Nat
    BY <2>3, FS_CardinalityType DEF SemaphoreOf
  <2> QED
    BY <1>2, <2>1, <2>4, <2>5 DEF Serves, SemaphoreOf
<1> QED
  BY <1>1, <1>2

(* Another thread on its way does no harm. *)
LEMMA MoreEnter ==
  ASSUME NEW sem \in SemaphoreOf, NEW entering \in SUBSET Thread,
         NEW more \in SUBSET Thread, entering \subseteq more, Serves(sem, entering)
  PROVE  Serves(sem, more)
<1>1. /\ entering \ sem.waiting \in SUBSET (more \ sem.waiting)
      /\ IsFiniteSet(more \ sem.waiting)
      /\ Cardinality(entering \ sem.waiting) \in Nat
      /\ Cardinality(more \ sem.waiting) \in Nat
  BY FiniteThreads
<1>2. Cardinality(entering \ sem.waiting) <= Cardinality(more \ sem.waiting)
  BY <1>1, FS_Subset
<1> QED
  BY <1>1, <1>2 DEF Serves, SemaphoreOf

(***************************************************************************)
(* The semaphores' part of the invariant.  Loaded are those whose step at  *)
(* the ring is not yet passed on: a deposit not yet counted by full, or a  *)
(* unit of full taken and not yet fetched.                                 *)
(***************************************************************************)
Locations == {"count", "enter", "access", "clear", "advance", "leave", "signal"}
Critical == {"access", "clear", "advance", "leave"}
Calls == {"put", "putStop", "get"}

InCritical == {t \in Thread : at[t] \in Critical}
Busy == {t \in Thread : at[t] # "count"}
Loaded ==
  {t \in Thread : IF t = Consumer THEN at[t] \in {"enter", "access"}
                                  ELSE at[t] \in {"clear", "advance", "leave", "signal"}}

AtEmpty == {p \in Producers : at[p] = "count" /\ pc[p] \in Calls}
AtFull == {c \in Consumers : at[c] = "count" /\ pc[c] \in Calls}
AtMutex == {t \in Thread : at[t] = "enter" /\ pc[t] \in Calls}

SemTypeOK ==
  /\ at \in [Thread -> Locations]
  /\ empty \in SemaphoreOf /\ full \in SemaphoreOf /\ mutex \in SemaphoreOf
  /\ pc \in [Thread -> {"new", "check", "ended"} \cup Calls]

(* Only who called put() or get() is inside one. *)
CallsOK == \A t \in Thread : at[t] # "count" => pc[t] \in Calls

Accounts ==
  /\ mutex.s = 1 - Cardinality(InCritical)
  /\ empty.s + full.s + Cardinality(Busy) = Size

Served ==
  /\ Serves(empty, AtEmpty)
  /\ Serves(full, AtFull)
  /\ Serves(mutex, AtMutex)

SemPart == SemTypeOK /\ CallsOK /\ Accounts /\ Served

LEMMA SetsOfThreads ==
  /\ InCritical \in SUBSET Thread /\ Busy \in SUBSET Thread /\ Loaded \in SUBSET Thread
  /\ AtEmpty \in SUBSET Thread /\ AtFull \in SUBSET Thread /\ AtMutex \in SUBSET Thread
BY ThreadFacts DEF InCritical, Busy, Loaded, AtEmpty, AtFull, AtMutex

LEMMA SetsOfThreadsAfter ==
  /\ InCritical' \in SUBSET Thread /\ Busy' \in SUBSET Thread /\ Loaded' \in SUBSET Thread
  /\ AtEmpty' \in SUBSET Thread /\ AtFull' \in SUBSET Thread /\ AtMutex' \in SUBSET Thread
BY ThreadFacts DEF InCritical, Busy, Loaded, AtEmpty, AtFull, AtMutex

LEMMA Counted ==
  /\ Cardinality(InCritical) \in Nat /\ Cardinality(Busy) \in Nat /\ Cardinality(Loaded) \in Nat
BY SetsOfThreads, FiniteThreads

(* What a thread's move changes about the numbers. *)
LEMMA GotoFacts ==
  ASSUME SemTypeOK, NEW t \in Thread, NEW from \in Locations, NEW to \in Locations,
         Sem!Goto(t, from, to)
  PROVE  /\ at' \in [Thread -> Locations]
         /\ at[t] = from /\ at'[t] = to
         /\ \A u \in Thread : u # t => at'[u] = at[u]
         /\ Cardinality(InCritical') =
              Cardinality(InCritical) + One(to \in Critical) - One(from \in Critical)
         /\ Cardinality(Busy') = Cardinality(Busy) + One(to # "count") - One(from # "count")
         /\ Cardinality(Loaded') = Cardinality(Loaded) + One(t \in Loaded') - One(t \in Loaded)
<1>1. /\ at' \in [Thread -> Locations]
      /\ at[t] = from /\ at'[t] = to
      /\ \A u \in Thread : u # t => at'[u] = at[u]
  BY DEF Sem!Goto, SemTypeOK
<1>2. /\ t \in InCritical <=> from \in Critical
      /\ t \in InCritical' <=> to \in Critical
      /\ \A u \in Thread : u # t => (u \in InCritical <=> u \in InCritical')
  BY <1>1 DEF InCritical
<1>3. /\ t \in Busy <=> from # "count"
      /\ t \in Busy' <=> to # "count"
      /\ \A u \in Thread : u # t => (u \in Busy <=> u \in Busy')
  BY <1>1 DEF Busy
<1>4. \A u \in Thread : u # t => (u \in Loaded <=> u \in Loaded')
  BY <1>1 DEF Loaded
<1>5. Cardinality(InCritical') =
        Cardinality(InCritical) + One(to \in Critical) - One(from \in Critical)
  <2>1. One(t \in InCritical) = One(from \in Critical) /\ One(t \in InCritical') = One(to \in Critical)
    BY <1>2 DEF One
  <2> QED
    BY <1>2, <2>1, SetsOfThreads, SetsOfThreadsAfter, OneMoves
<1>6. Cardinality(Busy') = Cardinality(Busy) + One(to # "count") - One(from # "count")
  <2>1. One(t \in Busy) = One(from # "count") /\ One(t \in Busy') = One(to # "count")
    BY <1>3 DEF One
  <2> QED
    BY <1>3, <2>1, SetsOfThreads, SetsOfThreadsAfter, OneMoves
<1>7. Cardinality(Loaded') = Cardinality(Loaded) + One(t \in Loaded') - One(t \in Loaded)
  BY <1>4, SetsOfThreads, SetsOfThreadsAfter, OneMoves
<1> QED
  BY <1>1, <1>5, <1>6, <1>7

LEMMA PassEmptyInv ==
  ASSUME SemPart, NEW p \in Producers, pc[p] \in Calls, Sem!PassEmpty(p), UNCHANGED pc
  PROVE  SemPart'
<1>1. /\ Sem!Passes(empty, p) /\ Sem!Goto(p, "count", "enter")
      /\ empty' = Sem!AfterPass(empty) /\ UNCHANGED <<full, mutex, pc>>
      /\ SemTypeOK /\ p \in Thread /\ p \notin Consumers
  BY ThreadFacts DEF Sem!PassEmpty, SemPart
<1>2. /\ at' \in [Thread -> Locations]
      /\ at[p] = "count" /\ at'[p] = "enter"
      /\ \A u \in Thread : u # p => at'[u] = at[u]
      /\ Cardinality(InCritical') = Cardinality(InCritical) + 0 - 0
      /\ Cardinality(Busy') = Cardinality(Busy) + 1 - 0
  BY <1>1, GotoFacts DEF Locations, Critical, One
<1>3. /\ p \in AtEmpty /\ AtEmpty' = AtEmpty \ {p} /\ AtFull' = AtFull
      /\ AtMutex \subseteq AtMutex'
  BY <1>1, <1>2, ThreadFacts DEF AtEmpty, AtFull, AtMutex
<1>4. /\ empty.s > 0 /\ empty' \in SemaphoreOf /\ empty'.s = empty.s - 1
      /\ Serves(empty', AtEmpty')
  BY <1>1, <1>3, SetsOfThreads, PassServes DEF SemPart, SemTypeOK, Served
<1>5. Serves(mutex', AtMutex')
  BY <1>1, <1>3, SetsOfThreads, SetsOfThreadsAfter, MoreEnter DEF SemPart, SemTypeOK, Served
<1>6. Served'
  BY <1>1, <1>3, <1>4, <1>5 DEF SemPart, Served
<1>7. SemTypeOK'
  BY <1>1, <1>2, <1>4 DEF SemTypeOK
<1>8. CallsOK'
  BY <1>1, <1>2 DEF SemPart, CallsOK
<1>9. Accounts'
  <2>1. empty.s \in Nat /\ full.s \in Nat /\ mutex.s \in Nat
    BY <1>1 DEF SemTypeOK, SemaphoreOf
  <2> QED
    BY <1>1, <1>2, <1>4, <2>1, Counted, BufferAssumption
       DEF BufferAssumption, SemPart, Accounts
<1> QED
  BY <1>6, <1>7, <1>8, <1>9 DEF SemPart

LEMMA PassFullInv ==
  ASSUME SemPart, NEW c \in Consumers, pc[c] \in Calls, Sem!PassFull(c), UNCHANGED pc
  PROVE  SemPart'
<1>1. /\ Sem!Passes(full, c) /\ Sem!Goto(c, "count", "enter")
      /\ full' = Sem!AfterPass(full) /\ UNCHANGED <<empty, mutex, pc>>
      /\ SemTypeOK /\ c \in Thread /\ c \notin Producers
  BY ThreadFacts DEF Sem!PassFull, SemPart
<1>2. /\ at' \in [Thread -> Locations]
      /\ at[c] = "count" /\ at'[c] = "enter"
      /\ \A u \in Thread : u # c => at'[u] = at[u]
      /\ Cardinality(InCritical') = Cardinality(InCritical) + 0 - 0
      /\ Cardinality(Busy') = Cardinality(Busy) + 1 - 0
  BY <1>1, GotoFacts DEF Locations, Critical, One
<1>3. /\ c \in AtFull /\ AtFull' = AtFull \ {c} /\ AtEmpty' = AtEmpty
      /\ AtMutex \subseteq AtMutex'
  BY <1>1, <1>2, ThreadFacts DEF AtEmpty, AtFull, AtMutex
<1>4. /\ full.s > 0 /\ full' \in SemaphoreOf /\ full'.s = full.s - 1
      /\ Serves(full', AtFull')
  BY <1>1, <1>3, SetsOfThreads, PassServes DEF SemPart, SemTypeOK, Served
<1>5. Serves(mutex', AtMutex')
  BY <1>1, <1>3, SetsOfThreads, SetsOfThreadsAfter, MoreEnter DEF SemPart, SemTypeOK, Served
<1>6. Served'
  BY <1>1, <1>3, <1>4, <1>5 DEF SemPart, Served
<1>7. SemTypeOK'
  BY <1>1, <1>2, <1>4 DEF SemTypeOK
<1>8. CallsOK'
  BY <1>1, <1>2 DEF SemPart, CallsOK
<1>9. Accounts'
  <2>1. empty.s \in Nat /\ full.s \in Nat /\ mutex.s \in Nat
    BY <1>1 DEF SemTypeOK, SemaphoreOf
  <2> QED
    BY <1>1, <1>2, <1>4, <2>1, Counted, BufferAssumption
       DEF BufferAssumption, SemPart, Accounts
<1> QED
  BY <1>6, <1>7, <1>8, <1>9 DEF SemPart

LEMMA PassMutexInv ==
  ASSUME SemPart, NEW t \in Thread, pc[t] \in Calls, Sem!PassMutex(t), UNCHANGED pc
  PROVE  SemPart'
<1>1. /\ Sem!Passes(mutex, t) /\ Sem!Goto(t, "enter", "access")
      /\ mutex' = Sem!AfterPass(mutex) /\ UNCHANGED <<empty, full, pc>>
      /\ SemTypeOK
  BY DEF Sem!PassMutex, Sem!semVars, SemPart
<1>2. /\ at' \in [Thread -> Locations]
      /\ at[t] = "enter" /\ at'[t] = "access"
      /\ \A u \in Thread : u # t => at'[u] = at[u]
      /\ Cardinality(InCritical') = Cardinality(InCritical) + 1 - 0
      /\ Cardinality(Busy') = Cardinality(Busy) + 1 - 1
  BY <1>1, GotoFacts DEF Locations, Critical, One
<1>3. /\ t \in AtMutex /\ AtMutex' = AtMutex \ {t}
      /\ AtEmpty' = AtEmpty /\ AtFull' = AtFull
  BY <1>1, <1>2, ThreadFacts DEF AtEmpty, AtFull, AtMutex
<1>4. /\ mutex.s > 0 /\ mutex' \in SemaphoreOf /\ mutex'.s = mutex.s - 1
      /\ Serves(mutex', AtMutex')
  BY <1>1, <1>3, SetsOfThreads, PassServes DEF SemPart, SemTypeOK, Served
<1>5. Served'
  BY <1>1, <1>3, <1>4 DEF SemPart, Served
<1>6. SemTypeOK'
  BY <1>1, <1>2, <1>4 DEF SemTypeOK
<1>7. CallsOK'
  BY <1>1, <1>2 DEF SemPart, CallsOK
<1>8. Accounts'
  <2>1. empty.s \in Nat /\ full.s \in Nat /\ mutex.s \in Nat
    BY <1>1 DEF SemTypeOK, SemaphoreOf
  <2> QED
    BY <1>1, <1>2, <1>4, <2>1, Counted, BufferAssumption
       DEF BufferAssumption, SemPart, Accounts
<1> QED
  BY <1>5, <1>6, <1>7, <1>8 DEF SemPart

LEMMA LeaveInv ==
  ASSUME SemPart, NEW t \in Thread, pc[t] \in Calls, Sem!Leave(t), UNCHANGED pc
  PROVE  SemPart'
<1>1. /\ Sem!Goto(t, "leave", "signal")
      /\ mutex' \in Sem!AfterV(mutex) /\ UNCHANGED <<empty, full, pc>>
      /\ SemTypeOK
  BY DEF Sem!Leave, Sem!semVars, SemPart
<1>2. /\ at' \in [Thread -> Locations]
      /\ at[t] = "leave" /\ at'[t] = "signal"
      /\ \A u \in Thread : u # t => at'[u] = at[u]
      /\ Cardinality(InCritical') = Cardinality(InCritical) + 0 - 1
      /\ Cardinality(Busy') = Cardinality(Busy) + 1 - 1
  BY <1>1, GotoFacts DEF Locations, Critical, One
<1>3. AtMutex' = AtMutex /\ AtEmpty' = AtEmpty /\ AtFull' = AtFull
  BY <1>1, <1>2, ThreadFacts DEF AtEmpty, AtFull, AtMutex
<1>4. mutex' \in SemaphoreOf /\ mutex'.s = mutex.s + 1 /\ Serves(mutex', AtMutex)
  BY <1>1, SetsOfThreads, VServes DEF SemPart, SemTypeOK, Served
<1>5. Served'
  BY <1>1, <1>3, <1>4 DEF SemPart, Served
<1>6. SemTypeOK'
  BY <1>1, <1>2, <1>4 DEF SemTypeOK
<1>7. CallsOK'
  BY <1>1, <1>2 DEF SemPart, CallsOK
<1>8. Accounts'
  <2>1. empty.s \in Nat /\ full.s \in Nat /\ mutex.s \in Nat
    BY <1>1 DEF SemTypeOK, SemaphoreOf
  <2> QED
    BY <1>1, <1>2, <1>4, <2>1, Counted, BufferAssumption
       DEF BufferAssumption, SemPart, Accounts
<1> QED
  BY <1>5, <1>6, <1>7, <1>8 DEF SemPart

(* Whoever finds no unit waits, and is one of those who enter. *)
LEMMA WaitsInv ==
  ASSUME SemPart, NEW t \in Thread, pc[t] \in Calls, UNCHANGED pc,
         \/ t \in Producers /\ Sem!WaitEmpty(t)
         \/ t \in Consumers /\ Sem!WaitFull(t)
         \/ Sem!WaitMutex(t)
  PROVE  SemPart'
<1>1. SemTypeOK /\ CallsOK /\ Served /\ UNCHANGED at
  BY DEF SemPart, Sem!WaitEmpty, Sem!WaitFull, Sem!WaitMutex
<1>2. AtEmpty' = AtEmpty /\ AtFull' = AtFull /\ AtMutex' = AtMutex /\ CallsOK'
  BY <1>1 DEF AtEmpty, AtFull, AtMutex, CallsOK
<1>3. InCritical' = InCritical /\ Busy' = Busy
  BY <1>1 DEF InCritical, Busy
<1>4. CASE t \in Producers /\ Sem!WaitEmpty(t)
  <2>1. /\ t \in AtEmpty /\ Sem!Waits(empty, t)
        /\ empty' = Sem!AfterWait(empty, t) /\ UNCHANGED <<full, mutex>>
    BY <1>4 DEF Sem!WaitEmpty, AtEmpty
  <2>2. empty' \in SemaphoreOf /\ empty'.s = empty.s /\ Serves(empty', AtEmpty)
    BY <1>1, <2>1, SetsOfThreads, WaitServes DEF SemTypeOK, Served
  <2> QED
    BY <1>1, <1>2, <1>3, <2>1, <2>2 DEF SemPart, SemTypeOK, Served, Accounts
<1>5. CASE t \in Consumers /\ Sem!WaitFull(t)
  <2>1. /\ t \in AtFull /\ Sem!Waits(full, t)
        /\ full' = Sem!AfterWait(full, t) /\ UNCHANGED <<empty, mutex>>
    BY <1>5 DEF Sem!WaitFull, AtFull
  <2>2. full' \in SemaphoreOf /\ full'.s = full.s /\ Serves(full', AtFull)
    BY <1>1, <2>1, SetsOfThreads, WaitServes DEF SemTypeOK, Served
  <2> QED
    BY <1>1, <1>2, <1>3, <2>1, <2>2 DEF SemPart, SemTypeOK, Served, Accounts
<1>6. CASE Sem!WaitMutex(t)
  <2>1. /\ t \in AtMutex /\ Sem!Waits(mutex, t)
        /\ mutex' = Sem!AfterWait(mutex, t) /\ UNCHANGED <<empty, full>>
    BY <1>6 DEF Sem!WaitMutex, AtMutex
  <2>2. mutex' \in SemaphoreOf /\ mutex'.s = mutex.s /\ Serves(mutex', AtMutex)
    BY <1>1, <2>1, SetsOfThreads, WaitServes DEF SemTypeOK, Served
  <2> QED
    BY <1>1, <1>2, <1>3, <2>1, <2>2 DEF SemPart, SemTypeOK, Served, Accounts
<1> QED
  BY <1>4, <1>5, <1>6

(* Inside the critical section nothing changes for the semaphores. *)
LEMMA InsideInv ==
  ASSUME SemPart, NEW t \in Thread, NEW from \in Critical, NEW to \in Critical,
         Sem!Goto(t, from, to), UNCHANGED <<empty, full, mutex, pc>>
  PROVE  SemPart'
<1>1. /\ SemTypeOK /\ from \in Locations /\ to \in Locations
      /\ from # "count" /\ to # "count" /\ from # "enter" /\ to # "enter"
  BY DEF SemPart, Critical, Locations
<1>2. /\ at' \in [Thread -> Locations]
      /\ at[t] = from /\ at'[t] = to
      /\ \A u \in Thread : u # t => at'[u] = at[u]
      /\ Cardinality(InCritical') = Cardinality(InCritical) + 1 - 1
      /\ Cardinality(Busy') = Cardinality(Busy) + 1 - 1
  BY <1>1, GotoFacts DEF One
<1>3. AtMutex' = AtMutex /\ AtEmpty' = AtEmpty /\ AtFull' = AtFull
  BY <1>1, <1>2, ThreadFacts DEF AtEmpty, AtFull, AtMutex
<1>4. Served' /\ SemTypeOK' /\ CallsOK'
  BY <1>1, <1>2, <1>3 DEF SemPart, Served, SemTypeOK, CallsOK
<1>5. Accounts'
  BY <1>2, Counted DEF SemPart, Accounts
<1> QED
  BY <1>4, <1>5 DEF SemPart

(***************************************************************************)
(* The call returns: one more filled slot, or one more free one, and the   *)
(* thread goes on wherever its program says.                               *)
(***************************************************************************)
PcGoes(t) ==
  /\ pc' \in [Thread -> {"new", "check", "ended"} \cup Calls]
  /\ \A u \in Thread : u # t => pc'[u] = pc[u]

LEMMA SignalFullInv ==
  ASSUME SemPart, NEW p \in Producers, Sem!SignalFull(p), PcGoes(p)
  PROVE  SemPart'
<1>1. /\ Sem!Goto(p, "signal", "count")
      /\ full' \in Sem!AfterV(full) /\ UNCHANGED <<empty, mutex>>
      /\ SemTypeOK /\ p \in Thread /\ p \notin Consumers
  BY ThreadFacts DEF Sem!SignalFull, Sem!semVars, SemPart
<1>2. /\ at' \in [Thread -> Locations]
      /\ at[p] = "signal" /\ at'[p] = "count"
      /\ \A u \in Thread : u # p => at'[u] = at[u]
      /\ Cardinality(InCritical') = Cardinality(InCritical) + 0 - 0
      /\ Cardinality(Busy') = Cardinality(Busy) + 0 - 1
  BY <1>1, GotoFacts DEF Locations, Critical, One
<1>3. AtMutex' = AtMutex /\ AtEmpty \subseteq AtEmpty' /\ AtFull' = AtFull
  BY <1>1, <1>2, ThreadFacts DEF AtEmpty, AtFull, AtMutex, PcGoes
<1>4. full' \in SemaphoreOf /\ full'.s = full.s + 1 /\ Serves(full', AtFull)
  BY <1>1, SetsOfThreads, VServes DEF SemPart, SemTypeOK, Served
<1>5. Serves(empty', AtEmpty')
  BY <1>1, <1>3, SetsOfThreads, SetsOfThreadsAfter, MoreEnter DEF SemPart, SemTypeOK, Served
<1>6. Served'
  BY <1>1, <1>3, <1>4, <1>5 DEF SemPart, Served
<1>7. SemTypeOK'
  BY <1>1, <1>2, <1>4 DEF SemTypeOK, PcGoes
<1>8. CallsOK'
  BY <1>1, <1>2 DEF SemPart, CallsOK, PcGoes
<1>9. Accounts'
  <2>1. empty.s \in Nat /\ full.s \in Nat /\ mutex.s \in Nat
    BY <1>1 DEF SemTypeOK, SemaphoreOf
  <2> QED
    BY <1>1, <1>2, <1>4, <2>1, Counted, BufferAssumption
       DEF BufferAssumption, SemPart, Accounts
<1> QED
  BY <1>6, <1>7, <1>8, <1>9 DEF SemPart

LEMMA SignalEmptyInv ==
  ASSUME SemPart, NEW c \in Consumers, Sem!SignalEmpty(c), PcGoes(c)
  PROVE  SemPart'
<1>1. /\ Sem!Goto(c, "signal", "count")
      /\ empty' \in Sem!AfterV(empty) /\ UNCHANGED <<full, mutex>>
      /\ SemTypeOK /\ c \in Thread /\ c \notin Producers
  BY ThreadFacts DEF Sem!SignalEmpty, Sem!semVars, SemPart
<1>2. /\ at' \in [Thread -> Locations]
      /\ at[c] = "signal" /\ at'[c] = "count"
      /\ \A u \in Thread : u # c => at'[u] = at[u]
      /\ Cardinality(InCritical') = Cardinality(InCritical) + 0 - 0
      /\ Cardinality(Busy') = Cardinality(Busy) + 0 - 1
  BY <1>1, GotoFacts DEF Locations, Critical, One
<1>3. AtMutex' = AtMutex /\ AtFull \subseteq AtFull' /\ AtEmpty' = AtEmpty
  BY <1>1, <1>2, ThreadFacts DEF AtEmpty, AtFull, AtMutex, PcGoes
<1>4. empty' \in SemaphoreOf /\ empty'.s = empty.s + 1 /\ Serves(empty', AtEmpty)
  BY <1>1, SetsOfThreads, VServes DEF SemPart, SemTypeOK, Served
<1>5. Serves(full', AtFull')
  BY <1>1, <1>3, SetsOfThreads, SetsOfThreadsAfter, MoreEnter DEF SemPart, SemTypeOK, Served
<1>6. Served'
  BY <1>1, <1>3, <1>4, <1>5 DEF SemPart, Served
<1>7. SemTypeOK'
  BY <1>1, <1>2, <1>4 DEF SemTypeOK, PcGoes
<1>8. CallsOK'
  BY <1>1, <1>2 DEF SemPart, CallsOK, PcGoes
<1>9. Accounts'
  <2>1. empty.s \in Nat /\ full.s \in Nat /\ mutex.s \in Nat
    BY <1>1 DEF SemTypeOK, SemaphoreOf
  <2> QED
    BY <1>1, <1>2, <1>4, <2>1, Counted, BufferAssumption
       DEF BufferAssumption, SemPart, Accounts
<1> QED
  BY <1>6, <1>7, <1>8, <1>9 DEF SemPart

(* A thread that is in no call goes on in its program. *)
LEMMA OutsideInv ==
  ASSUME SemPart, NEW t \in Thread, pc[t] \notin Calls, PcGoes(t),
         UNCHANGED <<empty, full, mutex, at>>
  PROVE  SemPart'
<1>1. at[t] = "count" /\ SemTypeOK /\ SemTypeOK' /\ CallsOK'
  BY DEF SemPart, CallsOK, SemTypeOK, PcGoes
<1>2. /\ AtEmpty \subseteq AtEmpty' /\ AtFull \subseteq AtFull' /\ AtMutex' = AtMutex
      /\ InCritical' = InCritical /\ Busy' = Busy
  BY <1>1, ThreadFacts DEF AtEmpty, AtFull, AtMutex, InCritical, Busy, PcGoes
<1>3. Serves(empty, AtEmpty') /\ Serves(full, AtFull')
  BY <1>1, <1>2, SetsOfThreads, SetsOfThreadsAfter, MoreEnter DEF SemPart, SemTypeOK, Served
<1>4. Served'
  BY <1>2, <1>3 DEF SemPart, Served
<1>5. Accounts'
  BY <1>2 DEF SemPart, Accounts
<1> QED
  BY <1>1, <1>4, <1>5 DEF SemPart

LEMMA SemUnchangedInv ==
  ASSUME SemPart, UNCHANGED <<empty, full, mutex, at, pc>>
  PROVE  SemPart'
BY DEF SemPart, SemTypeOK, CallsOK, Accounts, Served, InCritical, Busy,
       AtEmpty, AtFull, AtMutex

(***************************************************************************)
(* What the two properties about the semaphores say is part of this.       *)
(***************************************************************************)
LEMMA SemPartSays ==
  ASSUME SemPart
  PROVE  UnitsAccounted /\ NobodyOverslept
<1>1. /\ empty.s \in Nat /\ full.s \in Nat /\ mutex.s \in Nat
  BY DEF SemPart, SemTypeOK, SemaphoreOf
<1>2. /\ Sem!At(Sem!Threads, Sem!InRing) = InCritical
      /\ Sem!At(Sem!Threads, Sem!InRing \cup {"enter", "signal"}) = Busy
  BY ThreadFacts DEF Sem!At, Sem!InRing, InCritical, Critical, Busy, SemPart, SemTypeOK, Locations
<1>3. UnitsAccounted
  BY <1>1, <1>2, SameCardinality DEF UnitsAccounted, Sem!UnitsAccounted, SemPart, Accounts
<1>4. LET callers == {t \in Thread : pc[t] \in {"put", "putStop", "get"}}
      IN  /\ Sem!At(callers \cap Producers, {"count"}) = AtEmpty
          /\ Sem!At(callers \cap Consumers, {"count"}) = AtFull
          /\ Sem!At(callers, {"enter"}) = AtMutex
  BY ThreadFacts DEF Sem!At, AtEmpty, AtFull, AtMutex, Calls
<1>5. ASSUME NEW sem, NEW entering, Serves(sem, entering)
      PROVE  Sem!NoLostWakeup(sem, entering)
  BY <1>5, SameCardinality DEF Serves, Sem!NoLostWakeup
<1>6. NobodyOverslept
  BY <1>4, <1>5 DEF NobodyOverslept, Sem!NobodyOverslept, SemPart, Served
<1> QED
  BY <1>3, <1>6
-----------------------------------------------------------------------------
(***************************************************************************)
(* The ring under the semaphores.  A thread at "advance" has written or    *)
(* cleared its slot and not yet moved its pointer, one at "clear" has not  *)
(* cleared the slot either that it has read; First and NextIn are where    *)
(* the pointers will be, Ring what the slots will hold then, HowFull the   *)
(* number of items in the ring.                                            *)
(***************************************************************************)
First == IF at[Consumer] \in {"clear", "advance"} THEN (out + 1) % Size ELSE out
NextIn == IF \E p \in Producers : at[p] = "advance" THEN (in + 1) % Size ELSE in
HowFull == full.s + Cardinality(Loaded)
Ring == IF at[Consumer] = "clear" THEN [data EXCEPT ![out] = None] ELSE data
SemQueue == QueueOf(Ring, First, HowFull)

SemRing ==
  /\ in \in Slots /\ out \in Slots
  /\ Holds(Ring, First, HowFull)
  /\ NextIn = Place(First, HowFull)
  /\ Cardinality({i \in Slots : Ring[i] \in Items}) = HowFull
  /\ taken \in [Consumers -> Seq(Items)]
  /\ at[Consumer] \in AfterRing => \E item \in Items : taken[Consumer] = <<item>>

(* The critical section is for one thread. *)
LEMMA OneInside ==
  ASSUME SemPart, NEW t \in InCritical, NEW u \in InCritical
  PROVE  t = u
<1>1. Cardinality(InCritical) \in Nat /\ IsFiniteSet(InCritical)
  BY SetsOfThreads, FiniteThreads
<1>2. Cardinality(InCritical) <= 1
  BY <1>1 DEF SemPart, SemTypeOK, SemaphoreOf, Accounts
<1>3. Cardinality(InCritical) = 1
  BY <1>1, <1>2, FS_EmptySet
<1>4. \E x : InCritical = {x}
  BY <1>1, <1>3, FS_Singleton
<1> QED
  BY <1>4

(* The ring holds no more than Size items, fewer while one is deposited,   *)
(* and at least the one a consumer is about to take.                       *)
LEMMA HowFullFacts ==
  ASSUME SemPart
  PROVE  /\ HowFull \in 0..Size
         /\ \A p \in Producers : at[p] = "access" => HowFull \in 0..(Size - 1)
         /\ at[Consumer] = "access" => HowFull \in 1..Size
<1>1. /\ empty.s \in Nat /\ full.s \in Nat
      /\ empty.s + full.s + Cardinality(Busy) = Size
      /\ Cardinality(Busy) \in Nat /\ Cardinality(Loaded) \in Nat
      /\ IsFiniteSet(Busy) /\ IsFiniteSet(Loaded)
      /\ Size \in Nat
  BY SetsOfThreads, FiniteThreads, Counted, BufferAssumption
     DEF BufferAssumption, SemPart, SemTypeOK, SemaphoreOf, Accounts
<1>2. Loaded \in SUBSET Busy
  BY DEF Loaded, Busy
<1>3. Cardinality(Loaded) <= Cardinality(Busy)
  BY <1>1, <1>2, FS_Subset
<1>4. HowFull \in 0..Size
  BY <1>1, <1>3 DEF HowFull
<1>5. ASSUME NEW p \in Producers, at[p] = "access"
      PROVE  HowFull \in 0..(Size - 1)
  <2>1. p \notin Loaded /\ p \in Busy
    BY <1>5, ThreadFacts DEF Loaded, Busy
  <2>2. Loaded \cup {p} \in SUBSET Busy
    BY <1>2, <2>1
  <2>3. Cardinality(Loaded \cup {p}) = Cardinality(Loaded) + 1
    BY <1>1, <2>1, FS_AddElement
  <2>4. Cardinality(Loaded \cup {p}) <= Cardinality(Busy)
    BY <1>1, <2>2, FS_Subset
  <2> QED
    BY <1>1, <2>3, <2>4 DEF HowFull
<1>6. ASSUME at[Consumer] = "access"
      PROVE  HowFull \in 1..Size
  <2>1. Loaded # {}
    BY <1>6, ThreadFacts DEF Loaded
  <2>2. Cardinality(Loaded) # 0
    BY <1>1, <2>1, FS_EmptySet
  <2> QED
    BY <1>1, <1>4, <2>2 DEF HowFull
<1> QED
  BY <1>4, <1>5, <1>6

LEMMA FirstInSlots ==
  ASSUME SemRing
  PROVE  First \in Slots /\ NextIn \in Slots
BY PlaceFacts DEF SemRing, First, NextIn

(* The queue of BufUser is this one. *)
LEMMA SemContents ==
  ASSUME SemPart, SemRing
  PROVE  /\ Sem!Contents = SemQueue
         /\ SemQueue \in Seq(Items) /\ Len(SemQueue) = HowFull
<1>1. Sem!First = First
  <2>1. out \in 0..(Size - 1) /\ Size \in Nat \ {0}
    BY BufferAssumption DEF BufferAssumption, SemRing, Slots
  <2>2. CASE at[Consumer] \in {"clear", "advance"}
    <3>1. Sem!At(Consumers, {"clear", "advance"}) = {Consumer}
      BY <2>2, ThreadFacts DEF Sem!At
    <3>2. Cardinality(Sem!At(Consumers, {"clear", "advance"})) = 1
      BY <3>1, FS_Singleton
    <3> QED
      BY <2>2, <3>2, SameCardinality DEF Sem!First, First
  <2>3. CASE at[Consumer] \notin {"clear", "advance"}
    <3>1. Sem!At(Consumers, {"clear", "advance"}) = {}
      BY <2>3, ThreadFacts DEF Sem!At
    <3>2. Cardinality(Sem!At(Consumers, {"clear", "advance"})) = 0
      BY <3>1, FS_EmptySet
    <3>3. (out + 0) % Size = out
      <4>1. Place(out, 0) = out
        BY PlaceFacts DEF SemRing
      <4> QED
        BY <4>1 DEF Place
    <3> QED
      BY <2>3, <3>2, <3>3, SameCardinality DEF Sem!First, First
  <2> QED
    BY <2>2, <2>3
<1>2. Sem!Ring = Ring
  <2>1. Sem!At(Consumers, {"clear"}) = {} <=> at[Consumer] # "clear"
    BY ThreadFacts DEF Sem!At
  <2> QED
    BY <2>1 DEF Sem!Ring, Ring
<1>3. Sem!Filled = HowFull
  <2>1. {i \in Sem!Slots : Sem!Ring[i] # None} = {i \in Slots : Ring[i] \in Items}
    BY <1>2, ThreadFacts, BufferAssumption DEF BufferAssumption, SemRing, Holds
  <2> QED
    BY <2>1, SameCardinality DEF Sem!Filled, SemRing
<1>4. Sem!Contents = SemQueue
  BY <1>1, <1>2, <1>3 DEF Sem!Contents, SemQueue, QueueOf
<1>5. First \in Slots /\ HowFull \in 0..Size
  BY FirstInSlots, HowFullFacts
<1> QED
  BY <1>4, <1>5, QueueSeq DEF SemQueue, SemRing

(* Steps that leave the ring alone. *)
LEMMA RingLeft ==
  ASSUME SemRing, UNCHANGED <<in, out, taken>>, Ring' = Ring,
         First' = First, NextIn' = NextIn, HowFull' = HowFull,
         at'[Consumer] \in AfterRing => at[Consumer] \in AfterRing
  PROVE  SemRing' /\ SemQueue' = SemQueue
BY DEF SemRing, SemQueue, QueueOf, Place, Holds

LEMMA RingLeftByMove ==
  ASSUME SemPart, SemRing, NEW t \in Thread, NEW from \in Locations, NEW to \in Locations,
         Sem!Goto(t, from, to), {from, to} \cap {"clear", "advance"} = {},
         to \in AfterRing => from \in AfterRing,
         UNCHANGED <<data, in, out, taken>>,
         full'.s + One(t \in Loaded') = full.s + One(t \in Loaded), full'.s \in Nat
  PROVE  SemRing' /\ SemQueue' = SemQueue
<1>1. /\ at[t] = from /\ at'[t] = to
      /\ \A u \in Thread : u # t => at'[u] = at[u]
      /\ Cardinality(Loaded') = Cardinality(Loaded) + One(t \in Loaded') - One(t \in Loaded)
  BY GotoFacts DEF SemPart
<1>2. First' = First /\ NextIn' = NextIn /\ Ring' = Ring
  BY <1>1, ThreadFacts DEF First, NextIn, Ring
<1>3. HowFull' = HowFull
  <2>1. full.s \in Nat /\ Cardinality(Loaded) \in Nat
    BY Counted DEF SemPart, SemTypeOK, SemaphoreOf
  <2>2. One(t \in Loaded') \in {0, 1} /\ One(t \in Loaded) \in {0, 1}
    BY DEF One
  <2> QED
    BY <1>1, <2>1, <2>2 DEF HowFull
<1>4. at'[Consumer] \in AfterRing => at[Consumer] \in AfterRing
  BY <1>1, ThreadFacts
<1> QED
  BY <1>2, <1>3, <1>4, RingLeft

(* Taking and returning units leaves the number of items as it is: what    *)
(* full does not count, Loaded does.                                       *)
LEMMA SemaphoreStepsLeaveRing ==
  ASSUME SemPart, SemRing, NEW t \in Thread,
         \/ t \in Producers /\ (Sem!PassEmpty(t) \/ Sem!SignalFull(t))
         \/ t \in Consumers /\ (Sem!PassFull(t) \/ Sem!SignalEmpty(t))
         \/ Sem!PassMutex(t) \/ Sem!Leave(t)
  PROVE  SemRing' /\ SemQueue' = SemQueue
<1>1. SemTypeOK /\ Served /\ full.s \in Nat /\ full \in SemaphoreOf /\ UNCHANGED <<data, in, out, taken>>
  BY DEF SemPart, SemTypeOK, SemaphoreOf, Sem!PassEmpty, Sem!SignalFull, Sem!PassFull,
         Sem!SignalEmpty, Sem!PassMutex, Sem!Leave, Sem!ringVars
<1>2. CASE t \in Producers /\ Sem!PassEmpty(t)
  <2>1. Sem!Goto(t, "count", "enter") /\ UNCHANGED full
    BY <1>2 DEF Sem!PassEmpty
  <2>2. at[t] = "count" /\ at'[t] = "enter" /\ t # Consumer
    BY <1>1, <1>2, <2>1, GotoFacts, ThreadFacts DEF Locations
  <2>3. One(t \in Loaded') = One(t \in Loaded)
    BY <2>2 DEF Loaded, One
  <2> QED
    BY <1>1, <2>1, <2>3, RingLeftByMove DEF Locations, AfterRing
<1>3. CASE t \in Producers /\ Sem!SignalFull(t)
  <2>1. Sem!Goto(t, "signal", "count") /\ full' \in Sem!AfterV(full)
    BY <1>3 DEF Sem!SignalFull
  <2>2. at[t] = "signal" /\ at'[t] = "count" /\ t # Consumer
    BY <1>1, <1>3, <2>1, GotoFacts, ThreadFacts DEF Locations
  <2>3. One(t \in Loaded') = 0 /\ One(t \in Loaded) = 1
    BY <2>2, ThreadFacts DEF Loaded, One
  <2>4. full'.s = full.s + 1
    BY <1>1, <2>1, SetsOfThreads, VServes DEF Served
  <2> QED
    BY <1>1, <2>1, <2>3, <2>4, RingLeftByMove DEF Locations, AfterRing
<1>4. CASE t \in Consumers /\ Sem!PassFull(t)
  <2>1. Sem!Goto(t, "count", "enter") /\ Sem!Passes(full, t) /\ full' = Sem!AfterPass(full)
    BY <1>4 DEF Sem!PassFull
  <2>2. at[t] = "count" /\ at'[t] = "enter" /\ t = Consumer
    BY <1>1, <1>4, <2>1, GotoFacts, ThreadFacts DEF Locations
  <2>3. One(t \in Loaded') = 1 /\ One(t \in Loaded) = 0
    BY <2>2, ThreadFacts DEF Loaded, One
  <2>4. full.s > 0 /\ full'.s = full.s - 1
    BY <1>1, <2>1 DEF Sem!Passes, Sem!AfterPass, SemaphoreOf
  <2> QED
    BY <1>1, <2>1, <2>3, <2>4, RingLeftByMove DEF Locations, AfterRing
<1>5. CASE t \in Consumers /\ Sem!SignalEmpty(t)
  <2>1. Sem!Goto(t, "signal", "count") /\ UNCHANGED full
    BY <1>5 DEF Sem!SignalEmpty
  <2>2. at[t] = "signal" /\ at'[t] = "count" /\ t = Consumer
    BY <1>1, <1>5, <2>1, GotoFacts, ThreadFacts DEF Locations
  <2>3. One(t \in Loaded') = One(t \in Loaded)
    BY <2>2 DEF Loaded, One
  <2> QED
    BY <1>1, <2>1, <2>3, RingLeftByMove DEF Locations, AfterRing
<1>6. CASE Sem!PassMutex(t)
  <2>1. Sem!Goto(t, "enter", "access") /\ UNCHANGED full
    BY <1>6 DEF Sem!PassMutex
  <2>2. at[t] = "enter" /\ at'[t] = "access"
    BY <1>1, <2>1, GotoFacts DEF Locations
  <2>3. One(t \in Loaded') = One(t \in Loaded)
    BY <2>2 DEF Loaded, One
  <2> QED
    BY <1>1, <2>1, <2>3, RingLeftByMove DEF Locations, AfterRing
<1>7. CASE Sem!Leave(t)
  <2>1. Sem!Goto(t, "leave", "signal") /\ UNCHANGED full
    BY <1>7 DEF Sem!Leave
  <2>2. at[t] = "leave" /\ at'[t] = "signal"
    BY <1>1, <2>1, GotoFacts DEF Locations
  <2>3. One(t \in Loaded') = One(t \in Loaded)
    BY <2>2 DEF Loaded, One
  <2> QED
    BY <1>1, <2>1, <2>3, RingLeftByMove DEF Locations, AfterRing
<1> QED
  BY <1>2, <1>3, <1>4, <1>5, <1>6, <1>7

LEMMA WaitsLeaveRing ==
  ASSUME SemPart, SemRing, NEW t \in Thread,
         Sem!WaitEmpty(t) \/ Sem!WaitFull(t) \/ Sem!WaitMutex(t)
  PROVE  SemRing' /\ SemQueue' = SemQueue
<1>1. full'.s = full.s /\ UNCHANGED <<data, in, out, taken, at>>
  BY DEF Sem!WaitEmpty, Sem!WaitFull, Sem!WaitMutex, Sem!ringVars, Sem!AfterWait,
         SemPart, SemTypeOK, SemaphoreOf
<1>2. First' = First /\ NextIn' = NextIn /\ HowFull' = HowFull /\ Ring' = Ring
  BY <1>1 DEF First, NextIn, HowFull, Loaded, Ring
<1> QED
  BY <1>1, <1>2, RingLeft

(* Alone in the critical section, one at "access" sees the pointers right. *)
LEMMA AloneAtAccess ==
  ASSUME SemPart, NEW t \in Thread, at[t] \in Critical
  PROVE  /\ \A u \in Thread : u # t => at[u] \notin Critical
         /\ t # Consumer => First = out /\ Ring = data
         /\ t = Consumer => NextIn = in
         /\ at[t] \notin {"clear", "advance"} => First = out /\ NextIn = in /\ Ring = data
<1>1. \A u \in Thread : u # t => at[u] \notin Critical
  BY OneInside DEF InCritical
<1>2. "clear" \in Critical /\ "advance" \in Critical
  BY DEF Critical
<1> QED
  BY <1>1, <1>2, ThreadFacts DEF First, NextIn, Ring

LEMMA DepositRing ==
  ASSUME SemPart, SemRing, NEW p \in Producers, NEW item \in Items, Sem!Deposit(p, item)
  PROVE  /\ SemRing'
         /\ Len(SemQueue) < Size
         /\ SemQueue' = Append(SemQueue, item)
<1>1. /\ Sem!Goto(p, "access", "advance") /\ Written(data, in, item, data')
      /\ UNCHANGED <<in, out, full, taken>>
      /\ p \in Thread /\ p # Consumer /\ SemTypeOK
  BY ThreadFacts DEF Sem!Deposit, Sem!semVars, Written, SemPart
<1>2. /\ at[p] = "access" /\ at'[p] = "advance"
      /\ \A u \in Thread : u # p => at'[u] = at[u]
      /\ Cardinality(Loaded') = Cardinality(Loaded) + One(p \in Loaded') - One(p \in Loaded)
  BY <1>1, GotoFacts DEF Locations
<1>3. First = out /\ NextIn = in /\ Ring = data
  BY <1>1, <1>2, AloneAtAccess DEF Critical
<1>4. First' = out /\ NextIn' = (in + 1) % Size /\ Ring' = data'
  <2>1. at'[Consumer] \notin {"clear", "advance"}
    BY <1>1, <1>2, AloneAtAccess, ThreadFacts DEF Critical
  <2> QED
    BY <1>1, <1>2, <2>1 DEF First, NextIn, Ring
<1>5. HowFull' = HowFull + 1 /\ HowFull \in 0..(Size - 1) /\ HowFull \in Nat
  <2>1. One(p \in Loaded') = 1 /\ One(p \in Loaded) = 0
    BY <1>1, <1>2 DEF Loaded, One
  <2>2. full.s \in Nat /\ Cardinality(Loaded) \in Nat
    BY Counted DEF SemPart, SemTypeOK, SemaphoreOf
  <2>3. HowFull' = HowFull + 1
    BY <1>1, <1>2, <2>1, <2>2 DEF HowFull
  <2> QED
    BY <1>2, <2>3, HowFullFacts
<1>6. /\ out \in Slots /\ in \in Slots /\ Holds(data, out, HowFull) /\ in = Place(out, HowFull)
  BY <1>3 DEF SemRing
<1>7. /\ Holds(data', out, HowFull + 1)
      /\ QueueOf(data', out, HowFull + 1) = Append(QueueOf(data, out, HowFull), item)
      /\ data[in] \notin Items
  BY <1>1, <1>5, <1>6, RingAppend
<1>8. SemQueue' = Append(SemQueue, item)
  BY <1>3, <1>4, <1>5, <1>7 DEF SemQueue, QueueOf
<1>9. Len(SemQueue) < Size
  BY <1>5, SemContents, BufferAssumption DEF BufferAssumption
<1>10. Cardinality({i \in Slots : data'[i] \in Items}) = HowFull + 1
  <2>1. {i \in Slots : data'[i] \in Items} = {i \in Slots : data[i] \in Items} \cup {in}
    BY <1>1, <1>6 DEF Holds, Written
  <2>2. IsFiniteSet({i \in Slots : data[i] \in Items})
    <3>1. IsFiniteSet(Slots)
      BY FS_Interval, BufferAssumption DEF BufferAssumption, Slots
    <3> QED
      BY <3>1, FS_Subset
  <2>3. {i \in Slots : data[i] \in Items} = {i \in Slots : Ring[i] \in Items}
    BY <1>3
  <2>4. Cardinality({i \in Slots : data[i] \in Items}) = HowFull
    BY <2>3 DEF SemRing
  <2> QED
    BY <1>7, <2>1, <2>2, <2>4, FS_AddElement
<1>11. NextIn' = Place(out, HowFull + 1)
  BY <1>4, <1>5, <1>6, PlaceFacts
<1>12. /\ Holds(Ring', First', HowFull') /\ NextIn' = Place(First', HowFull')
       /\ Cardinality({i \in Slots : Ring'[i] \in Items}) = HowFull'
  BY <1>4, <1>5, <1>7, <1>10, <1>11
<1>13. at'[Consumer] \in AfterRing => at[Consumer] \in AfterRing
  BY <1>1, <1>2, ThreadFacts
<1>14. SemRing'
  BY <1>1, <1>12, <1>13 DEF SemRing, Holds, Place
<1> QED
  BY <1>8, <1>9, <1>14

LEMMA FetchRing ==
  ASSUME SemPart, SemRing, Sem!Fetch(Consumer)
  PROVE  /\ SemRing'
         /\ SemQueue # <<>>
         /\ taken' = [taken EXCEPT ![Consumer] = <<Head(SemQueue)>>]
         /\ SemQueue' = Tail(SemQueue)
<1> DEFINE c == Consumer
<1>1. /\ Sem!Goto(c, "access", "clear") /\ UNCHANGED data
      /\ taken' = [taken EXCEPT ![c] = <<data[out]>>]
      /\ UNCHANGED <<in, out, full>>
      /\ c \in Thread /\ c \in Consumers /\ SemTypeOK
  BY ThreadFacts DEF Sem!Fetch, Sem!ringVars, Sem!semVars, SemPart
<1>2. /\ at[c] = "access" /\ at'[c] = "clear"
      /\ \A u \in Thread : u # c => at'[u] = at[u]
      /\ Cardinality(Loaded') = Cardinality(Loaded) + One(c \in Loaded') - One(c \in Loaded)
  BY <1>1, GotoFacts DEF Locations
<1>3. First = out /\ NextIn = in /\ Ring = data
  BY <1>1, <1>2, AloneAtAccess DEF Critical
<1>4. First' = (out + 1) % Size /\ NextIn' = in /\ Written(Ring, out, None, Ring')
  <2>1. \A p \in Producers : at'[p] # "advance"
    BY <1>1, <1>2, AloneAtAccess, ThreadFacts DEF Critical
  <2> QED
    BY <1>1, <1>2, <1>3, <2>1 DEF First, NextIn, Ring, Written
<1>5. HowFull' = HowFull - 1 /\ HowFull \in 1..Size /\ HowFull \in Nat
  <2>1. One(c \in Loaded') = 0 /\ One(c \in Loaded) = 1
    BY <1>1, <1>2 DEF Loaded, One
  <2>2. full.s \in Nat /\ Cardinality(Loaded) \in Nat
    BY Counted DEF SemPart, SemTypeOK, SemaphoreOf
  <2>3. HowFull' = HowFull - 1
    BY <1>1, <1>2, <2>1, <2>2 DEF HowFull
  <2> QED
    BY <1>2, <2>3, HowFullFacts
<1>6. /\ out \in Slots /\ Holds(Ring, out, HowFull) /\ in = Place(out, HowFull)
  BY <1>3 DEF SemRing
<1> DEFINE next == (out + 1) % Size
<1>7. /\ Holds(Ring', next, HowFull - 1)
      /\ QueueOf(Ring', next, HowFull - 1) = Tail(QueueOf(Ring, out, HowFull))
      /\ QueueOf(Ring, out, HowFull) # <<>>
      /\ Head(QueueOf(Ring, out, HowFull)) = data[out]
      /\ data[out] \in Items
  BY <1>3, <1>4, <1>5, <1>6, RingTail
<1>8. /\ SemQueue # <<>> /\ data[out] = Head(SemQueue)
      /\ SemQueue' = Tail(SemQueue)
  BY <1>3, <1>4, <1>5, <1>7 DEF SemQueue, QueueOf
<1>9. Cardinality({i \in Slots : Ring'[i] \in Items}) = HowFull - 1
  <2>1. {i \in Slots : Ring'[i] \in Items} = {i \in Slots : Ring[i] \in Items} \ {out}
    BY <1>4, <1>6, BufferAssumption DEF BufferAssumption, Holds, Written
  <2>2. IsFiniteSet({i \in Slots : Ring[i] \in Items})
    <3>1. IsFiniteSet(Slots)
      BY FS_Interval, BufferAssumption DEF BufferAssumption, Slots
    <3> QED
      BY <3>1, FS_Subset
  <2>3. Cardinality({i \in Slots : Ring[i] \in Items}) = HowFull
    BY DEF SemRing
  <2>4. out \in {i \in Slots : Ring[i] \in Items}
    BY <1>3, <1>6, <1>7
  <2>5. Cardinality({i \in Slots : Ring[i] \in Items} \ {out}) = HowFull - 1
    <3> DEFINE filled == {i \in Slots : Ring[i] \in Items}
    <3>1. IsFiniteSet(filled) /\ Cardinality(filled) = HowFull /\ out \in filled
      BY <2>2, <2>3, <2>4
    <3> HIDE DEF filled
    <3>2. Cardinality(filled \ {out}) = HowFull - 1
      BY <3>1, FS_RemoveElement
    <3> QED
      BY <3>2 DEF filled
  <2> QED
    BY <2>1, <2>5
<1>10. NextIn' = Place(next, HowFull - 1)
  <2>1. HowFull - 1 \in 0..(Size - 1) /\ (HowFull - 1) + 1 = HowFull
    BY <1>5, BufferAssumption DEF BufferAssumption
  <2> QED
    BY <1>4, <1>6, <2>1, PlaceFacts
<1>11. /\ Holds(Ring', First', HowFull') /\ NextIn' = Place(First', HowFull')
       /\ Cardinality({i \in Slots : Ring'[i] \in Items}) = HowFull'
  BY <1>4, <1>5, <1>7, <1>9, <1>10
<1>12. /\ taken' \in [Consumers -> Seq(Items)]
       /\ taken'[c] = <<data[out]>> /\ data[out] \in Items
  <2>1. <<data[out]>> \in Seq(Items)
    BY <1>7
  <2> QED
    BY <1>1, <1>7, <2>1 DEF SemRing
<1>13. SemRing'
  BY <1>1, <1>11, <1>12 DEF SemRing, Holds, Place
<1> QED
  BY <1>1, <1>8, <1>13

(* The slot that was read is cleared: it was none of the ring already.     *)
LEMMA ClearRing ==
  ASSUME SemPart, SemRing, Sem!Clear(Consumer)
  PROVE  SemRing' /\ SemQueue' = SemQueue
<1>1. /\ Sem!Goto(Consumer, "clear", "advance")
      /\ data' = [data EXCEPT ![out] = None]
      /\ UNCHANGED <<in, out, full, taken>>
      /\ Consumer \in Thread /\ SemTypeOK
  BY ThreadFacts DEF Sem!Clear, Sem!semVars, SemPart
<1>2. /\ at[Consumer] = "clear" /\ at'[Consumer] = "advance"
      /\ \A u \in Thread : u # Consumer => at'[u] = at[u]
  BY <1>1, GotoFacts DEF Locations
<1>3. First' = First /\ NextIn' = NextIn /\ Ring' = Ring
  BY <1>1, <1>2, ThreadFacts DEF First, NextIn, Ring
<1>4. HowFull' = HowFull
  <2>1. Loaded' = Loaded
    BY <1>1, <1>2 DEF Loaded
  <2> QED
    BY <1>1, <2>1 DEF HowFull
<1>5. at[Consumer] \in AfterRing
  BY <1>2 DEF AfterRing
<1> QED
  BY <1>1, <1>3, <1>4, <1>5, RingLeft

(* Moving a pointer changes nothing: First and NextIn were there already.  *)
LEMMA AdvanceInRing ==
  ASSUME SemPart, SemRing, NEW p \in Producers, Sem!AdvanceIn(p)
  PROVE  SemRing' /\ SemQueue' = SemQueue
<1>1. /\ Sem!Goto(p, "advance", "leave")
      /\ in' = (in + 1) % Size
      /\ UNCHANGED <<data, out, full, taken>>
      /\ p \in Thread /\ p # Consumer /\ SemTypeOK
  BY ThreadFacts DEF Sem!AdvanceIn, Sem!semVars, SemPart
<1>2. /\ at[p] = "advance" /\ at'[p] = "leave"
      /\ \A u \in Thread : u # p => at'[u] = at[u]
      /\ \A u \in Thread : u # p => at[u] \notin Critical
  BY <1>1, GotoFacts, AloneAtAccess DEF Locations, Critical
<1>3. First' = First /\ Ring' = Ring
  BY <1>1, <1>2, ThreadFacts DEF First, Ring, Critical
<1>4. NextIn = (in + 1) % Size /\ NextIn' = NextIn
  BY <1>1, <1>2, ThreadFacts DEF NextIn, Critical
<1>5. Loaded' = Loaded
  BY <1>1, <1>2 DEF Loaded
<1>6. HowFull' = HowFull
  BY <1>1, <1>5 DEF HowFull
<1>7. at'[Consumer] \in AfterRing => at[Consumer] \in AfterRing
  BY <1>1, <1>2, ThreadFacts
<1>8. in' \in Slots
  BY <1>1, PlaceFacts DEF SemRing
<1> QED
  BY <1>1, <1>3, <1>4, <1>6, <1>7, <1>8 DEF SemRing, SemQueue, QueueOf, Place, Holds

LEMMA AdvanceOutRing ==
  ASSUME SemPart, SemRing, Sem!AdvanceOut(Consumer)
  PROVE  SemRing' /\ SemQueue' = SemQueue
<1>1. /\ Sem!Goto(Consumer, "advance", "leave")
      /\ out' = (out + 1) % Size
      /\ UNCHANGED <<data, in, full, taken>>
      /\ Consumer \in Thread /\ SemTypeOK
  BY ThreadFacts DEF Sem!AdvanceOut, Sem!semVars, SemPart
<1>2. /\ at[Consumer] = "advance" /\ at'[Consumer] = "leave"
      /\ \A u \in Thread : u # Consumer => at'[u] = at[u]
  BY <1>1, GotoFacts DEF Locations
<1>3. First' = First /\ NextIn' = NextIn /\ Ring' = Ring
  BY <1>1, <1>2, ThreadFacts DEF First, NextIn, Ring
<1>4. Loaded' = Loaded
  BY <1>1, <1>2 DEF Loaded
<1>5. HowFull' = HowFull
  BY <1>1, <1>4 DEF HowFull
<1>6. at[Consumer] \in AfterRing
  BY <1>2 DEF AfterRing
<1>7. out' \in Slots
  BY <1>1, PlaceFacts DEF SemRing
<1> QED
  BY <1>1, <1>3, <1>5, <1>6, <1>7 DEF SemRing, SemQueue, QueueOf, Place, Holds
-----------------------------------------------------------------------------
(***************************************************************************)
(* The buffer in the program, whichever main made.  The one it did not     *)
(* make stays as it was at first; the semaphores' part holds of idle       *)
(* semaphores too.                                                         *)
(***************************************************************************)
SemIdle ==
  /\ at = [t \in Thread |-> "count"]
  /\ empty.waiting = {} /\ full.waiting = {} /\ mutex.waiting = {}
  /\ taken = [c \in Consumers |-> <<>>]

MonIdle ==
  /\ used = 0 /\ waiting = {}
  /\ got = [c \in Consumers |-> <<>>]

BufferOK ==
  /\ choice \in {"mon", "sem"}
  /\ choice = "mon" => Inv /\ SemIdle
  /\ choice = "sem" => MonIdle /\ SemRing
  /\ SemPart

PcType == pc \in [Thread -> {"new", "check", "ended"} \cup Calls]

LEMMA InitBuffer == UserInit => BufferOK
<1> SUFFICES ASSUME UserInit PROVE BufferOK
  OBVIOUS
<1>1. /\ Init /\ Inv /\ pc = [t \in Thread |-> "new"] /\ choice \in {"mon", "sem"}
      /\ in = 0 /\ out = 0 /\ used = 0
      /\ at = [t \in Thread |-> "count"] /\ taken = [c \in Consumers |-> <<>>]
      /\ empty = [s |-> Size, waiting |-> {}]
      /\ full = [s |-> 0, waiting |-> {}]
      /\ mutex = [s |-> 1, waiting |-> {}]
  BY InitInv, ThreadFacts DEF UserInit, Init, Sem!Init, Sem!NewSemaphore
<1>2. Size \in Nat \ {0} /\ 0 \in Slots /\ None \notin Items
  BY BufferAssumption DEF BufferAssumption, Slots
<1>3. SemIdle /\ MonIdle
  BY <1>1 DEF SemIdle, MonIdle, Init
<1>4. InCritical = {} /\ Busy = {} /\ Loaded = {} /\ Cardinality({}) = 0
  BY <1>1, FS_EmptySet DEF InCritical, Busy, Loaded, Critical
<1>5. SemTypeOK
  BY <1>1, <1>2 DEF SemTypeOK, SemaphoreOf, Locations
<1>6. CallsOK /\ Served
  BY <1>1 DEF CallsOK, Served, Serves
<1>7. Accounts
  BY <1>1, <1>2, <1>4 DEF Accounts
<1>8. SemRing
  <2>1. First = 0 /\ NextIn = 0 /\ HowFull = 0 /\ Ring = data
    BY <1>1, <1>4, ThreadFacts DEF First, NextIn, HowFull, Ring
  <2>2. Holds(data, 0, 0) /\ Place(0, 0) = 0
    BY <1>1, <1>2, MonitorRing, PlaceFacts DEF Inv
  <2>3. {i \in Slots : data[i] \in Items} = {}
    BY <1>1, <1>2 DEF Init
  <2>4. taken \in [Consumers -> Seq(Items)]
    BY <1>1
  <2>5. at[Consumer] \notin AfterRing
    BY <1>1, ThreadFacts DEF AfterRing
  <2> QED
    BY <1>1, <1>2, <1>4, <2>1, <2>2, <2>3, <2>4, <2>5 DEF SemRing
<1> QED
  BY <1>1, <1>3, <1>5, <1>6, <1>7, <1>8 DEF BufferOK, SemPart

(* While the monitor is at work the semaphores stay idle. *)
LEMMA IdleKeeps ==
  ASSUME SemPart, SemIdle, UNCHANGED semVars, PcType'
  PROVE  SemPart' /\ SemIdle'
<1>1. UNCHANGED <<empty, full, mutex, at, taken>>
  BY DEF semVars
<1>2. SemIdle' /\ SemTypeOK'
  BY <1>1 DEF SemIdle, SemPart, SemTypeOK, PcType
<1>3. CallsOK'
  BY <1>1 DEF SemIdle, CallsOK
<1>4. InCritical' = InCritical /\ Busy' = Busy
  BY <1>1 DEF InCritical, Busy
<1>5. Accounts'
  BY <1>1, <1>4 DEF SemPart, Accounts
<1>6. Served'
  BY <1>1 DEF SemIdle, Served, Serves
<1> QED
  BY <1>2, <1>3, <1>5, <1>6 DEF SemPart

(* The line of items from the consumer's hand to the end of the buffer.    *)
LEMMA LineIs ==
  ASSUME BufferOK
  PROVE  /\ choice = "mon" => Line = Contents
         /\ choice = "sem" => Line = InHand \o SemQueue
         /\ Line \in Seq(Items)
<1>1. CASE choice = "mon"
  <2>1. InHand = <<>> /\ Stored = Contents
    BY <1>1, ThreadFacts DEF BufferOK, SemIdle, InHand, AfterRing, Stored
  <2>2. Contents \in Seq(Items)
    <3>1. used \in 0..Size /\ out \in Slots /\ Holds(data, out, used)
      BY <1>1, MonitorRing DEF BufferOK, Inv, TypeOK
    <3> QED
      BY <1>1, <3>1, MonitorRing, QueueSeq DEF BufferOK, Inv
  <2> QED
    BY <1>1, <2>1, <2>2 DEF Line
<1>2. CASE choice = "sem"
  <2>1. Stored = SemQueue /\ SemQueue \in Seq(Items)
    BY <1>2, SemContents DEF BufferOK, Stored
  <2>2. InHand \in Seq(Items)
    BY <1>2, ThreadFacts DEF BufferOK, SemRing, InHand
  <2> QED
    BY <1>2, <2>1, <2>2 DEF Line
<1> QED
  BY <1>1, <1>2 DEF BufferOK

LEMMA LineFacts ==
  BufferOK => Line \in Seq(Items) /\ (choice = "sem" => Line = InHand \o SemQueue)
BY LineIs

LEMMA LineAfter ==
  (BufferOK => Line \in Seq(Items) /\ (choice = "sem" => Line = InHand \o SemQueue))'
BY LineFacts, PTL

(***************************************************************************)
(* What a step inside a call of put() does, and one inside get().  Only    *)
(* the thread of the call moves, and a deposit adds its item to the line.  *)
(***************************************************************************)
OnlyMoves(t) == \A u \in Thread : u # t => at'[u] = at[u]
Deposits(p, item) ==
  \/ Line' = Line /\ (at'[p] \in AfterRing <=> at[p] \in AfterRing)
  \/ Line' = Append(Line, item) /\ at[p] \notin AfterRing /\ at'[p] \in AfterRing

LEMMA SemProducerLine ==
  ASSUME BufferOK, choice = "sem", UNCHANGED <<choice, used, waiting, got, taken>>,
         SemPart', SemRing', NEW p \in Producers, OnlyMoves(p)
  PROVE  /\ BufferOK'
         /\ SemQueue' = SemQueue => Line' = Line
         /\ \A item \in Items : SemQueue' = Append(SemQueue, item) => Line' = Append(Line, item)
<1>1. BufferOK'
  BY DEF BufferOK, MonIdle
<1>2. at'[Consumer] = at[Consumer]
  BY ThreadFacts DEF OnlyMoves
<1>3. InHand' = InHand
  BY <1>2 DEF InHand
<1>4. Line = InHand \o SemQueue /\ Line' = InHand \o SemQueue'
  BY <1>1, <1>3, LineFacts, LineAfter
<1>5. InHand \in Seq(Items) /\ SemQueue \in Seq(Items)
  BY SemContents, ThreadFacts DEF BufferOK, SemRing, InHand
<1>6. \A item \in Items : InHand \o Append(SemQueue, item) = Append(InHand \o SemQueue, item)
  BY <1>5
<1> QED
  BY <1>1, <1>4, <1>6

LEMMA MonWaitLine ==
  ASSUME BufferOK, choice = "mon", UNCHANGED <<choice, semVars>>, PcType', NEW t,
         \/ t \in Producers /\ PutWaits(t)
         \/ t \in Consumers /\ GetWaits(t)
  PROVE  BufferOK' /\ Line' = Line /\ UNCHANGED at
<1>1. Wait(t) /\ Inv' /\ SemPart' /\ SemIdle'
  BY WaitInv, IdleKeeps DEF BufferOK, PutWaits, GetWaits
<1>2. Contents' = Contents /\ UNCHANGED <<at, taken>>
  BY <1>1 DEF Wait, Contents, semVars
<1>3. Line' = Line
  BY <1>2 DEF Line, InHand, Stored
<1> QED
  BY <1>1, <1>2, <1>3 DEF BufferOK

LEMMA InPutStep ==
  ASSUME BufferOK, NEW p \in Producers, NEW item \in Items, pc[p] \in Calls,
         InPut(p, item), UNCHANGED <<pc, choice>>
  PROVE  BufferOK' /\ OnlyMoves(p) /\ Deposits(p, item)
<1>1. SemPart /\ SemTypeOK /\ PcType' /\ p \in Thread
  BY ThreadFacts DEF BufferOK, SemPart, SemTypeOK, PcType
<1>2. CASE MonOnly /\ PutWaits(p)
  BY <1>1, <1>2, MonWaitLine DEF MonOnly, OnlyMoves, Deposits
<1>3. CASE SemOnly /\ Sem!InPut(p, item)
  <2>1. choice = "sem" /\ SemRing /\ UNCHANGED <<used, waiting, got, choice>>
    BY <1>3 DEF SemOnly, BufferOK
  <2>2. CASE Sem!PassEmpty(p) \/ Sem!PassMutex(p) \/ Sem!Leave(p)
    <3>1. SemPart' /\ SemRing' /\ SemQueue' = SemQueue
      BY <1>1, <2>1, <2>2, PassEmptyInv, PassMutexInv, LeaveInv, SemaphoreStepsLeaveRing
    <3>2. PICK from \in Locations, to \in Locations :
            /\ Sem!Goto(p, from, to)
            /\ from \in AfterRing <=> to \in AfterRing
      BY <2>2 DEF Sem!PassEmpty, Sem!PassMutex, Sem!Leave, Locations, AfterRing
    <3>3. OnlyMoves(p) /\ at[p] = from /\ at'[p] = to
      BY <1>1, <3>2, GotoFacts DEF OnlyMoves
    <3>4. UNCHANGED taken
      BY <2>2 DEF Sem!PassEmpty, Sem!PassMutex, Sem!Leave
    <3> QED
      BY <2>1, <3>1, <3>2, <3>3, <3>4, SemProducerLine DEF Deposits
  <2>3. CASE Sem!WaitEmpty(p) \/ Sem!WaitMutex(p)
    <3>1. SemPart' /\ SemRing' /\ SemQueue' = SemQueue
      BY <1>1, <2>1, <2>3, WaitsInv, WaitsLeaveRing
    <3>2. UNCHANGED <<at, taken>>
      BY <2>3 DEF Sem!WaitEmpty, Sem!WaitMutex
    <3>3. OnlyMoves(p)
      BY <3>2 DEF OnlyMoves
    <3> QED
      BY <2>1, <3>1, <3>2, <3>3, SemProducerLine DEF Deposits
  <2>4. CASE Sem!AdvanceIn(p)
    <3>1. Sem!Goto(p, "advance", "leave") /\ UNCHANGED <<empty, full, mutex, taken>>
      BY <2>4 DEF Sem!AdvanceIn, Sem!semVars
    <3>2. SemPart'
      BY <1>1, <3>1, InsideInv DEF Critical
    <3>3. SemRing' /\ SemQueue' = SemQueue
      BY <1>1, <2>1, <2>4, AdvanceInRing
    <3>4. OnlyMoves(p) /\ at[p] = "advance" /\ at'[p] = "leave"
      BY <1>1, <3>1, GotoFacts DEF OnlyMoves, Locations
    <3>5. at[p] \in AfterRing /\ at'[p] \in AfterRing
      BY <3>4 DEF AfterRing
    <3> QED
      BY <2>1, <3>1, <3>2, <3>3, <3>4, <3>5, SemProducerLine DEF Deposits
  <2>5. CASE Sem!Deposit(p, item)
    <3>1. Sem!Goto(p, "access", "advance") /\ UNCHANGED <<empty, full, mutex, taken>>
      BY <2>5 DEF Sem!Deposit, Sem!semVars
    <3>2. SemPart'
      BY <1>1, <3>1, InsideInv DEF Critical
    <3>3. SemRing' /\ SemQueue' = Append(SemQueue, item)
      BY <1>1, <2>1, <2>5, DepositRing
    <3>4. OnlyMoves(p) /\ at[p] = "access" /\ at'[p] = "advance"
      BY <1>1, <3>1, GotoFacts DEF OnlyMoves, Locations
    <3>5. at[p] \notin AfterRing /\ at'[p] \in AfterRing
      BY <3>4 DEF AfterRing
    <3> QED
      BY <2>1, <3>1, <3>2, <3>3, <3>4, <3>5, SemProducerLine DEF Deposits
  <2> QED
    BY <1>3, <2>2, <2>3, <2>4, <2>5 DEF Sem!InPut
<1> QED
  BY <1>2, <1>3 DEF InPut

(* The step with which put() returns: the monitor deposits in it, the      *)
(* semaphore buffer has done so before.                                    *)
Finishes(p, item) ==
  /\ at'[p] \notin AfterRing
  /\ \/ Line' = Line /\ at[p] \in AfterRing
     \/ Line' = Append(Line, item) /\ at[p] \notin AfterRing

LEMMA PutReturnsStep ==
  ASSUME BufferOK, NEW p \in Producers, NEW item \in Items,
         PutReturns(p, item), PcGoes(p), UNCHANGED choice
  PROVE  BufferOK' /\ OnlyMoves(p) /\ Finishes(p, item)
<1>1. SemPart /\ SemTypeOK /\ PcType' /\ p \in Thread
  BY ThreadFacts DEF BufferOK, SemPart, PcType, PcGoes
<1>2. CASE MonOnly /\ Put(p, item)
  <2>1. choice = "mon" /\ choice' = "mon" /\ UNCHANGED semVars /\ Inv /\ SemIdle
    BY <1>2 DEF MonOnly, BufferOK
  <2>2. Inv' /\ Contents' = Append(Contents, item)
    BY <1>2, <2>1, PutKeeps
  <2>3. SemPart' /\ SemIdle'
    BY <1>1, <2>1, IdleKeeps
  <2>4. OnlyMoves(p) /\ at[p] \notin AfterRing /\ at'[p] \notin AfterRing
        /\ InHand = <<>> /\ InHand' = <<>>
    BY <1>1, <2>1, <2>3, ThreadFacts DEF OnlyMoves, SemIdle, AfterRing, InHand
  <2>5. Line = Contents
    BY <2>1, LineIs
  <2>6. Contents \in Seq(Items)
    BY <2>5, LineIs
  <2>7. Line' = Contents'
    <3>1. Append(Contents, item) \in Seq(Items)
      BY <2>6
    <3>2. Contents' \in Seq(Items)
      BY <2>2, <3>1
    <3> QED
      BY <2>1, <2>4, <3>2 DEF Line, Stored
  <2> QED
    BY <2>1, <2>2, <2>3, <2>4, <2>5, <2>7 DEF BufferOK, Finishes
<1>3. CASE SemOnly /\ Sem!SignalFull(p)
  <2>1. choice = "sem" /\ SemRing /\ UNCHANGED <<used, waiting, got, choice>>
    BY <1>3 DEF SemOnly, BufferOK
  <2>2. SemPart' /\ SemRing' /\ SemQueue' = SemQueue
    BY <1>1, <1>3, <2>1, SignalFullInv, SemaphoreStepsLeaveRing
  <2>3. Sem!Goto(p, "signal", "count") /\ UNCHANGED taken
    BY <1>3 DEF Sem!SignalFull
  <2>4. OnlyMoves(p) /\ at[p] = "signal" /\ at'[p] = "count"
    BY <1>1, <2>3, GotoFacts DEF OnlyMoves, Locations
  <2>5. at[p] \in AfterRing /\ at'[p] \notin AfterRing
    BY <2>4 DEF AfterRing
  <2> QED
    BY <2>1, <2>2, <2>3, <2>4, <2>5, SemProducerLine DEF Finishes
<1> QED
  BY <1>2, <1>3 DEF PutReturns

LEMMA SemConsumerLine ==
  ASSUME BufferOK, choice = "sem", UNCHANGED <<choice, used, waiting, got>>,
         SemPart', SemRing', SemQueue' = SemQueue, UNCHANGED taken,
         at'[Consumer] \in AfterRing <=> at[Consumer] \in AfterRing
  PROVE  BufferOK' /\ Line' = Line
<1>1. BufferOK'
  BY DEF BufferOK, MonIdle
<1>2. InHand' = InHand
  BY DEF InHand
<1> QED
  BY <1>1, <1>2, LineFacts, LineAfter

LEMMA InGetStep ==
  ASSUME BufferOK, pc[Consumer] \in Calls, InGet(Consumer), UNCHANGED <<pc, choice>>
  PROVE  BufferOK' /\ OnlyMoves(Consumer) /\ Line' = Line
<1> DEFINE c == Consumer
<1>1. SemPart /\ SemTypeOK /\ PcType' /\ c \in Thread /\ c \in Consumers
  BY ThreadFacts DEF BufferOK, SemPart, SemTypeOK, PcType
<1>2. CASE MonOnly /\ GetWaits(c)
  BY <1>1, <1>2, MonWaitLine DEF MonOnly, OnlyMoves
<1>3. CASE SemOnly /\ Sem!InGet(c)
  <2>1. choice = "sem" /\ SemRing /\ UNCHANGED <<used, waiting, got, choice>>
    BY <1>3 DEF SemOnly, BufferOK
  <2>2. CASE Sem!PassFull(c) \/ Sem!PassMutex(c) \/ Sem!Leave(c)
    <3>1. SemPart' /\ SemRing' /\ SemQueue' = SemQueue
      BY <1>1, <2>1, <2>2, PassFullInv, PassMutexInv, LeaveInv, SemaphoreStepsLeaveRing
    <3>2. PICK from \in Locations, to \in Locations :
            /\ Sem!Goto(c, from, to)
            /\ from \in AfterRing <=> to \in AfterRing
      BY <2>2 DEF Sem!PassFull, Sem!PassMutex, Sem!Leave, Locations, AfterRing
    <3>3. OnlyMoves(c) /\ at[c] = from /\ at'[c] = to
      BY <1>1, <3>2, GotoFacts DEF OnlyMoves
    <3>4. UNCHANGED taken
      BY <2>2 DEF Sem!PassFull, Sem!PassMutex, Sem!Leave
    <3> QED
      BY <2>1, <3>1, <3>2, <3>3, <3>4, SemConsumerLine
  <2>3. CASE Sem!WaitFull(c) \/ Sem!WaitMutex(c)
    <3>1. SemPart' /\ SemRing' /\ SemQueue' = SemQueue
      BY <1>1, <2>1, <2>3, WaitsInv, WaitsLeaveRing
    <3>2. UNCHANGED <<at, taken>>
      BY <2>3 DEF Sem!WaitFull, Sem!WaitMutex
    <3>3. OnlyMoves(c)
      BY <3>2 DEF OnlyMoves
    <3> QED
      BY <2>1, <3>1, <3>2, <3>3, SemConsumerLine
  <2>4. CASE Sem!AdvanceOut(c)
    <3>1. Sem!Goto(c, "advance", "leave") /\ UNCHANGED <<empty, full, mutex, taken>>
      BY <2>4 DEF Sem!AdvanceOut, Sem!semVars
    <3>2. SemPart'
      BY <1>1, <3>1, InsideInv DEF Critical
    <3>3. SemRing' /\ SemQueue' = SemQueue
      BY <1>1, <2>1, <2>4, AdvanceOutRing
    <3>4. OnlyMoves(c) /\ at[c] = "advance" /\ at'[c] = "leave"
      BY <1>1, <3>1, GotoFacts DEF OnlyMoves, Locations
    <3>5. at[c] \in AfterRing /\ at'[c] \in AfterRing
      BY <3>4 DEF AfterRing
    <3> QED
      BY <2>1, <3>1, <3>2, <3>3, <3>4, <3>5, SemConsumerLine
  <2>5. CASE Sem!Fetch(c)
    <3>1. Sem!Goto(c, "access", "clear") /\ UNCHANGED <<empty, full, mutex>>
      BY <2>5 DEF Sem!Fetch, Sem!semVars
    <3>2. SemPart'
      BY <1>1, <3>1, InsideInv DEF Critical
    <3>3. /\ SemRing' /\ SemQueue # <<>> /\ SemQueue' = Tail(SemQueue)
          /\ taken' = [taken EXCEPT ![c] = <<Head(SemQueue)>>]
      BY <1>1, <2>1, <2>5, FetchRing
    <3>4. OnlyMoves(c) /\ at[c] = "access" /\ at'[c] = "clear"
      BY <1>1, <3>1, GotoFacts DEF OnlyMoves, Locations
    <3>5. BufferOK'
      BY <2>1, <3>2, <3>3 DEF BufferOK, MonIdle
    <3>6. InHand = <<>> /\ InHand' = <<Head(SemQueue)>>
      BY <1>1, <2>1, <3>3, <3>4 DEF InHand, AfterRing, SemRing
    <3>7. SemQueue \in Seq(Items)
      BY <1>1, <2>1, SemContents
    <3>8. <<Head(SemQueue)>> \o Tail(SemQueue) = <<>> \o SemQueue
      BY <3>3, <3>7
    <3> QED
      BY <2>1, <3>3, <3>4, <3>5, <3>6, <3>8, LineFacts, LineAfter
  <2>6. CASE Sem!Clear(c)
    <3>1. Sem!Goto(c, "clear", "advance") /\ UNCHANGED <<empty, full, mutex, taken>>
      BY <2>6 DEF Sem!Clear, Sem!semVars
    <3>2. SemPart'
      BY <1>1, <3>1, InsideInv DEF Critical
    <3>3. SemRing' /\ SemQueue' = SemQueue
      BY <1>1, <2>1, <2>6, ClearRing
    <3>4. OnlyMoves(c) /\ at[c] = "clear" /\ at'[c] = "advance"
      BY <1>1, <3>1, GotoFacts DEF OnlyMoves, Locations
    <3>5. at[c] \in AfterRing /\ at'[c] \in AfterRing
      BY <3>4 DEF AfterRing
    <3> QED
      BY <2>1, <3>1, <3>2, <3>3, <3>4, <3>5, SemConsumerLine
  <2> QED
    BY <1>3, <2>2, <2>3, <2>4, <2>5, <2>6 DEF Sem!InGet
<1> QED
  BY <1>2, <1>3 DEF InGet

(* The step with which get() returns hands over the head of the line. *)
LEMMA GetReturnsStep ==
  ASSUME BufferOK, GetReturns(Consumer), PcGoes(Consumer), UNCHANGED choice
  PROVE  /\ BufferOK' /\ OnlyMoves(Consumer)
         /\ Line # <<>> /\ Returned(Consumer) = Head(Line) /\ Line' = Tail(Line)
<1> DEFINE c == Consumer
<1>1. SemPart /\ SemTypeOK /\ PcType' /\ c \in Thread /\ c \in Consumers
  BY ThreadFacts DEF BufferOK, SemPart, PcType, PcGoes
<1>2. CASE MonOnly /\ Get(c)
  <2>1. choice = "mon" /\ choice' = "mon" /\ UNCHANGED semVars /\ Inv /\ SemIdle
    BY <1>2 DEF MonOnly, BufferOK
  <2>2. /\ Inv' /\ Contents # <<>> /\ Contents' = Tail(Contents)
        /\ got' = [got EXCEPT ![c] = <<Head(Contents)>>]
    BY <1>1, <1>2, <2>1, GetKeeps
  <2>3. SemPart' /\ SemIdle'
    BY <1>1, <2>1, IdleKeeps
  <2>4. OnlyMoves(c) /\ InHand' = <<>>
    BY <1>1, <2>1, <2>3, ThreadFacts DEF OnlyMoves, SemIdle, AfterRing, InHand
  <2>5. Line = Contents /\ Contents \in Seq(Items)
    BY <2>1, LineIs
  <2>6. Line' = Contents'
    <3>1. Tail(Contents) \in Seq(Items)
      BY <2>2, <2>5
    <3>2. Contents' \in Seq(Items)
      BY <2>2, <3>1
    <3> QED
      BY <2>1, <2>4, <3>2 DEF Line, Stored
  <2>7. Returned(c) = Head(Contents)
    BY <1>1, <2>1, <2>2 DEF Returned, Inv, TypeOK
  <2> QED
    BY <2>1, <2>2, <2>3, <2>4, <2>5, <2>6, <2>7 DEF BufferOK
<1>3. CASE SemOnly /\ Sem!SignalEmpty(c)
  <2>1. choice = "sem" /\ SemRing /\ UNCHANGED <<used, waiting, got, choice>>
    BY <1>3 DEF SemOnly, BufferOK
  <2>2. SemPart' /\ SemRing' /\ SemQueue' = SemQueue
    BY <1>1, <1>3, <2>1, SignalEmptyInv, SemaphoreStepsLeaveRing
  <2>3. Sem!Goto(c, "signal", "count") /\ UNCHANGED taken
    BY <1>3 DEF Sem!SignalEmpty
  <2>4. OnlyMoves(c) /\ at[c] = "signal" /\ at'[c] = "count"
    BY <1>1, <2>3, GotoFacts DEF OnlyMoves, Locations
  <2>5. PICK item \in Items : taken[c] = <<item>>
    BY <2>1, <2>4 DEF SemRing, AfterRing
  <2>6. InHand = <<item>> /\ InHand' = <<>>
    BY <2>4, <2>5 DEF InHand, AfterRing
  <2>7. BufferOK'
    BY <2>1, <2>2 DEF BufferOK, MonIdle
  <2>8. Line = <<item>> \o SemQueue /\ Line' = <<>> \o SemQueue
    BY <2>1, <2>2, <2>6, <2>7, LineFacts, LineAfter
  <2>9. SemQueue \in Seq(Items)
    BY <1>1, <2>1, SemContents
  <2>10. Line # <<>> /\ Head(Line) = item /\ Line' = Tail(Line)
    BY <2>8, <2>9
  <2>11. Returned(c) = item
    BY <2>1, <2>3, <2>5 DEF Returned
  <2> QED
    BY <2>4, <2>7, <2>10, <2>11
<1> QED
  BY <1>2, <1>3 DEF GetReturns

(* A step that is not inside a call. *)
LEMMA OutsideStep ==
  ASSUME BufferOK, UNCHANGED <<objectVars, choice>>,
         \/ UNCHANGED pc
         \/ \E t \in Thread : pc[t] \notin Calls /\ PcGoes(t)
  PROVE  BufferOK' /\ Line' = Line /\ UNCHANGED at
<1>1. UNCHANGED <<data, in, out, used, waiting, got, empty, full, mutex, at, taken>>
  BY DEF objectVars, bufferVars, semVars
<1>2. SemPart'
  BY <1>1, OutsideInv, SemUnchangedInv DEF BufferOK
<1>3. choice = "mon" => Inv' /\ SemIdle'
  BY <1>1 DEF BufferOK, Inv, TypeOK, RingConsistent, FilledSlots, NoLostWakeup, SemIdle
<1>4. choice = "sem" => MonIdle' /\ SemRing'
  <2>1. First' = First /\ NextIn' = NextIn /\ HowFull' = HowFull /\ Ring' = Ring
    BY <1>1 DEF First, NextIn, HowFull, Loaded, Ring
  <2> QED
    BY <1>1, <2>1, RingLeft DEF BufferOK, MonIdle
<1>5. Contents' = Contents /\ Sem!Contents' = Sem!Contents /\ InHand' = InHand
  BY <1>1 DEF Contents, Sem!Contents, Sem!First, Sem!Ring, Sem!Filled, Sem!At, InHand
<1>6. Line' = Line
  BY <1>5 DEF Line, Stored
<1> QED
  BY <1>1, <1>2, <1>3, <1>4, <1>6 DEF BufferOK
-----------------------------------------------------------------------------
(***************************************************************************)
(* The line of items, seen by itself.  First the count of the items from a *)
(* set T among the first k, when the line grows and when it shrinks.       *)
(***************************************************************************)
NumberIn(line, T, k) == Cardinality({j \in 1..k : line[j] \in T})

LEMMA NumberFacts ==
  ASSUME NEW line, NEW T, NEW k \in Nat
  PROVE  /\ NumberIn(line, T, k) \in Nat
         /\ NumberIn(line, T, 0) = 0
         /\ NumberIn(line, T, k + 1) = NumberIn(line, T, k) + One(line[k + 1] \in T)
<1> DEFINE X(n) == {j \in 1..n : line[j] \in T}
<1>1. ASSUME NEW n \in Nat
      PROVE  IsFiniteSet(X(n)) /\ Cardinality(X(n)) \in Nat
  <2>1. IsFiniteSet(1..n) /\ X(n) \in SUBSET (1..n)
    BY FS_Interval
  <2> QED
    BY <2>1, FS_Subset, FS_CardinalityType
<1>2. \A n \in Nat : NumberIn(line, T, n) = Cardinality(X(n))
  BY DEF NumberIn
<1>3. NumberIn(line, T, k) \in Nat
  BY <1>1, <1>2
<1>4. NumberIn(line, T, 0) = 0
  <2>1. X(0) = {}
    OBVIOUS
  <2> QED
    BY <1>2, <2>1, FS_EmptySet
<1>5. NumberIn(line, T, k + 1) = NumberIn(line, T, k) + One(line[k + 1] \in T)
  <2>1. CASE line[k + 1] \in T
    <3>1. X(k + 1) = X(k) \cup {k + 1} /\ k + 1 \notin X(k)
      BY <2>1
    <3>2. Cardinality(X(k) \cup {k + 1}) = Cardinality(X(k)) + 1
      BY <1>1, <3>1, FS_AddElement
    <3> QED
      BY <1>2, <2>1, <3>1, <3>2 DEF One
  <2>2. CASE line[k + 1] \notin T
    <3>1. X(k + 1) = X(k)
      BY <2>2
    <3>2. NumberIn(line, T, k + 1) = NumberIn(line, T, k)
      BY <3>1 DEF NumberIn
    <3> QED
      BY <1>3, <2>2, <3>2 DEF One
  <2> QED
    BY <2>1, <2>2
<1> QED
  BY <1>3, <1>4, <1>5

LEMMA NumberAppend ==
  ASSUME NEW S, NEW line \in Seq(S), NEW x \in S, NEW T
  PROVE  /\ \A k \in 0..Len(line) : NumberIn(Append(line, x), T, k) = NumberIn(line, T, k)
         /\ NumberIn(Append(line, x), T, Len(line) + 1)
              = NumberIn(line, T, Len(line)) + One(x \in T)
<1> DEFINE longer == Append(line, x)
<1>1. /\ Len(line) \in Nat /\ longer[Len(line) + 1] = x
      /\ \A j \in 1..Len(line) : longer[j] = line[j]
  OBVIOUS
<1> HIDE DEF longer
<1>2. ASSUME NEW k \in 0..Len(line)
      PROVE  NumberIn(longer, T, k) = NumberIn(line, T, k)
  <2>1. {j \in 1..k : longer[j] \in T} = {j \in 1..k : line[j] \in T}
    BY <1>1
  <2> QED
    BY <2>1 DEF NumberIn
<1>3. NumberIn(longer, T, Len(line) + 1) = NumberIn(line, T, Len(line)) + One(x \in T)
  <2>1. NumberIn(longer, T, Len(line)) = NumberIn(line, T, Len(line))
    BY <1>1, <1>2
  <2>2. NumberIn(longer, T, Len(line) + 1)
          = NumberIn(longer, T, Len(line)) + One(longer[Len(line) + 1] \in T)
    BY <1>1, NumberFacts
  <2> QED
    BY <1>1, <2>1, <2>2
<1> QED
  BY <1>2, <1>3 DEF longer

LEMMA NumberTail ==
  ASSUME NEW S, NEW line \in Seq(S), line # <<>>, NEW T, NEW k \in 0..Len(Tail(line))
  PROVE  NumberIn(line, T, k + 1) = NumberIn(Tail(line), T, k) + One(Head(line) \in T)
<1> DEFINE rest == Tail(line)
           X == {j \in 1..k : rest[j] \in T}
           Y == {j \in 2..(k + 1) : line[j] \in T}
           f == [j \in X |-> j + 1]
<1>1. /\ k \in Nat /\ k <= Len(rest)
      /\ line[1] = Head(line)
      /\ \A j \in 1..k : rest[j] = line[j + 1]
  OBVIOUS
<1> HIDE DEF rest
<1>2. IsFiniteSet(X) /\ Cardinality(X) \in Nat
  <2>1. IsFiniteSet(1..k) /\ X \in SUBSET (1..k)
    BY <1>1, FS_Interval
  <2> QED
    BY <2>1, FS_Subset, FS_CardinalityType
<1>3. IsFiniteSet(Y) /\ Cardinality(Y) = Cardinality(X)
  <2>1. \A j \in X : j + 1 \in Y
    BY <1>1
  <2>2. \A i \in Y : i - 1 \in X /\ (i - 1) + 1 = i
    <3> SUFFICES ASSUME NEW i \in Y PROVE i - 1 \in X /\ (i - 1) + 1 = i
      OBVIOUS
    <3>1. i - 1 \in 1..k /\ (i - 1) + 1 = i /\ line[i] \in T
      BY <1>1
    <3> QED
      BY <1>1, <3>1
  <2>3. \A i, j \in X : i + 1 = j + 1 => i = j
    BY <1>1
  <2>4. f \in Bijection(X, Y)
    <3>1. f \in [X -> Y]
      BY <2>1
    <3>2. \A i, j \in X : f[i] = f[j] => i = j
      BY <2>3
    <3>3. \A i \in Y : \E j \in X : f[j] = i
      BY <2>2
    <3> HIDE DEF f, X, Y
    <3> QED
      BY <3>1, <3>2, <3>3, Fun_IsBij
  <2>5. ExistsBijection(X, Y)
    BY <2>4 DEF ExistsBijection
  <2> HIDE DEF X, Y
  <2> QED
    BY <1>2, <2>5, FS_Bijection
<1>4. CASE Head(line) \in T
  <2>1. {j \in 1..(k + 1) : line[j] \in T} = Y \cup {1} /\ 1 \notin Y
    BY <1>1, <1>4
  <2>2. Cardinality(Y \cup {1}) = Cardinality(Y) + 1
    BY <1>3, <2>1, FS_AddElement
  <2> QED
    BY <1>2, <1>3, <1>4, <2>1, <2>2 DEF NumberIn, One, rest
<1>5. CASE Head(line) \notin T
  <2>1. {j \in 1..(k + 1) : line[j] \in T} = Y
    BY <1>1, <1>5
  <2>2. NumberIn(line, T, k + 1) = Cardinality(X) /\ NumberIn(rest, T, k) = Cardinality(X)
    BY <1>3, <2>1 DEF NumberIn
  <2>3. One(Head(line) \in T) = 0
    BY <1>5 DEF One
  <2> HIDE DEF X, Y
  <2>4. NumberIn(line, T, k + 1) = NumberIn(rest, T, k) + 0
    BY <1>2, <2>2
  <2> QED
    BY <2>3, <2>4 DEF rest
<1> QED
  BY <1>4, <1>5

(* Counting on modulo n, from a number or from its remainder.              *)
LEMMA CountOn ==
  ASSUME NEW n \in Nat \ {0}, NEW a \in Nat, NEW m \in Nat
  PROVE  ((a % n) + m) % n = (a + m) % n /\ a % n \in 0..(n - 1)
<1>1. \A b \in Nat : \E q \in Nat, r \in 0..(n - 1) : b = n * q + r /\ b % n = r
  OBVIOUS
<1>2. \A q \in Int, r \in 0..(n - 1) : (n * q + r) % n = r
  OBVIOUS
<1>3. PICK p \in Nat, r \in 0..(n - 1) : a = n * p + r /\ a % n = r
  BY <1>1
<1>4. r + m \in Nat
  OBVIOUS
<1>5. PICK q \in Nat, s \in 0..(n - 1) : r + m = n * q + s /\ (r + m) % n = s
  BY <1>1, <1>4
<1>6. a + m = n * (p + q) + s
  <2>1. n * p + (n * q + s) = n * (p + q) + s
    OBVIOUS
  <2> QED
    BY <1>3, <1>5, <2>1
<1>7. (a + m) % n = s
  BY <1>2, <1>6
<1> QED
  BY <1>3, <1>5, <1>7

(***************************************************************************)
(* The messages of one producer, the elements of T, are in order when      *)
(* their stamps count on from the one the consumer should see first to the *)
(* one the producer gives next.                                            *)
(***************************************************************************)
InOrder(line, T, first, next) ==
  /\ \A k \in 1..Len(line) : line[k] \in T =>
       line[k].stamp = (first + NumberIn(line, T, k - 1)) % Stamps
  /\ next = (first + NumberIn(line, T, Len(line))) % Stamps

LEMMA OrderAppend ==
  ASSUME NEW S, NEW line \in Seq(S), NEW m \in S, NEW T,
         NEW first \in 0..(Stamps - 1), NEW next, NEW after,
         InOrder(line, T, first, next),
         m \in T => m.stamp = next /\ after = (next + 1) % Stamps,
         m \notin T => after = next
  PROVE  InOrder(Append(line, m), T, first, after)
<1> DEFINE longer == Append(line, m)
           n == Len(line)
<1>1. /\ n \in Nat /\ Len(longer) = n + 1 /\ longer[n + 1] = m
      /\ \A k \in 1..n : longer[k] = line[k]
  OBVIOUS
<1>2. /\ \A k \in 0..n : NumberIn(longer, T, k) = NumberIn(line, T, k)
      /\ NumberIn(longer, T, n + 1) = NumberIn(line, T, n) + One(m \in T)
  BY NumberAppend
<1>3. Stamps \in Nat \ {0} /\ first \in Nat /\ NumberIn(line, T, n) \in Nat
  BY <1>1, NumberFacts, BufUserAssumption, BufferAssumption DEF BufUserAssumption, BufferAssumption
<1>4. next = (first + NumberIn(line, T, n)) % Stamps
  BY DEF InOrder
<1> HIDE DEF longer, n
<1>5. ASSUME NEW k \in 1..Len(longer), longer[k] \in T
      PROVE  longer[k].stamp = (first + NumberIn(longer, T, k - 1)) % Stamps
  <2>1. CASE k = n + 1
    <3>1. k - 1 = n /\ n \in 0..n
      BY <1>1, <2>1
    <3> QED
      BY <1>1, <1>2, <1>4, <1>5, <2>1, <3>1
  <2>2. CASE k # n + 1
    <3>1. k \in 1..n /\ k - 1 \in 0..n
      BY <1>1, <2>2
    <3> QED
      BY <1>1, <1>2, <1>5, <3>1 DEF InOrder, n
  <2> QED
    BY <2>1, <2>2
<1>6. after = (first + NumberIn(longer, T, n + 1)) % Stamps
  <2>1. CASE m \in T
    <3>1. NumberIn(longer, T, n + 1) = NumberIn(line, T, n) + 1
      BY <1>2, <2>1 DEF One
    <3>2. PICK a \in Nat : a = first + NumberIn(line, T, n)
      BY <1>3
    <3>3. after = ((a % Stamps) + 1) % Stamps
      BY <1>4, <2>1, <3>2
    <3>4. first + NumberIn(longer, T, n + 1) = a + 1
      BY <1>3, <3>1, <3>2
    <3>5. ((a % Stamps) + 1) % Stamps = (a + 1) % Stamps
      BY <1>3, CountOn
    <3> QED
      BY <3>3, <3>4, <3>5
  <2>2. CASE m \notin T
    <3>1. NumberIn(longer, T, n + 1) = NumberIn(line, T, n)
      BY <1>2, <1>3, <2>2 DEF One
    <3> QED
      BY <1>4, <2>2, <3>1
  <2> QED
    BY <2>1, <2>2
<1> QED
  BY <1>1, <1>5, <1>6 DEF InOrder, longer

LEMMA OrderTail ==
  ASSUME NEW S, NEW line \in Seq(S), line # <<>>, NEW T,
         NEW first \in 0..(Stamps - 1), NEW next, NEW after,
         InOrder(line, T, first, next),
         Head(line) \in T => after = (Head(line).stamp + 1) % Stamps,
         Head(line) \notin T => after = first
  PROVE  InOrder(Tail(line), T, after, next)
<1> DEFINE rest == Tail(line)
           n == Len(rest)
<1>1. /\ n \in Nat /\ Len(line) = n + 1 /\ line[1] = Head(line)
      /\ \A k \in 1..n : rest[k] = line[k + 1]
  OBVIOUS
<1>2. \A k \in 0..n : NumberIn(line, T, k + 1) = NumberIn(rest, T, k) + One(Head(line) \in T)
  BY NumberTail
<1>3. Stamps \in Nat \ {0} /\ first \in Nat
  BY BufUserAssumption, BufferAssumption DEF BufUserAssumption, BufferAssumption
<1>4. /\ \A k \in 1..(n + 1) : line[k] \in T =>
           line[k].stamp = (first + NumberIn(line, T, k - 1)) % Stamps
      /\ next = (first + NumberIn(line, T, n + 1)) % Stamps
  BY <1>1 DEF InOrder
<1> HIDE DEF rest, n
<1>5. \A k \in 0..n : (first + NumberIn(line, T, k + 1)) % Stamps
                        = (after + NumberIn(rest, T, k)) % Stamps
  <2> SUFFICES ASSUME NEW k \in 0..n
               PROVE  (first + NumberIn(line, T, k + 1)) % Stamps
                        = (after + NumberIn(rest, T, k)) % Stamps
    OBVIOUS
  <2>1. PICK j \in Nat : j = NumberIn(rest, T, k)
    BY NumberFacts
  <2>2. CASE Head(line) \in T
    <3>1. NumberIn(line, T, k + 1) = j + 1
      BY <1>2, <2>1, <2>2 DEF One
    <3>2. line[1].stamp = (first + NumberIn(line, T, 0)) % Stamps
      <4>1. 1 \in 1..(n + 1) /\ 1 - 1 = 0
        BY <1>1
      <4> QED
        BY <1>1, <1>4, <2>2, <4>1
    <3>3. NumberIn(line, T, 0) = 0 /\ first % Stamps = first
      BY <1>3, NumberFacts
    <3>4. line[1].stamp = first
      BY <1>3, <3>2, <3>3
    <3>5. after = (first + 1) % Stamps
      BY <1>1, <2>2, <3>4
    <3>6. PICK b \in Nat : b = first + 1
      BY <1>3
    <3>7. ((b % Stamps) + j) % Stamps = (b + j) % Stamps
      BY <1>3, CountOn
    <3>8. b + j = first + (j + 1)
      BY <1>3, <3>6
    <3> QED
      BY <2>1, <3>1, <3>5, <3>6, <3>7, <3>8
  <2>3. CASE Head(line) \notin T
    <3>1. NumberIn(line, T, k + 1) = j
      BY <1>2, <2>1, <2>3 DEF One
    <3> QED
      BY <2>1, <2>3, <3>1
  <2> QED
    BY <2>2, <2>3
<1>6. ASSUME NEW k \in 1..n, rest[k] \in T
      PROVE  rest[k].stamp = (after + NumberIn(rest, T, k - 1)) % Stamps
  <2>1. k + 1 \in 1..(n + 1) /\ (k + 1) - 1 = (k - 1) + 1 /\ k - 1 \in 0..n
    BY <1>1
  <2>2. line[k + 1].stamp = (first + NumberIn(line, T, (k - 1) + 1)) % Stamps
    BY <1>1, <1>4, <1>6, <2>1
  <2> QED
    BY <1>1, <1>5, <2>1, <2>2
<1>7. next = (after + NumberIn(rest, T, n)) % Stamps
  <2>1. n \in 0..n
    BY <1>1
  <2> QED
    BY <1>4, <1>5, <2>1
<1> QED
  BY <1>6, <1>7 DEF InOrder, rest, n

(***************************************************************************)
(* The line and what everybody knows of it: sent, the stamp each producer  *)
(* gives its next message; first, the one the consumer should see next     *)
(* from each; said, the producers that have put their Stop; rem, how many  *)
(* Stops the consumer still waits for.  Once all have said it, the last    *)
(* item is a Stop: nothing of interest follows the Stop that ends the      *)
(* consumer.                                                               *)
(***************************************************************************)
Account(line, sent, first, said, rem) ==
  /\ line \in Seq(UserItems)
  /\ sent \in [Producers -> 0..(Stamps - 1)]
  /\ first \in [Producers -> 0..(Stamps - 1)]
  /\ said \in SUBSET Producers
  /\ rem = Cardinality(Producers \ said) + NumberIn(line, {Stop}, Len(line))
  /\ \A p \in Producers : InOrder(line, MessagesOf(p), first[p], sent[p])
  /\ said = Producers /\ line # <<>> => line[Len(line)] = Stop

LEMMA MessageFacts ==
  /\ \A p \in Producers : MessagesOf(p) \in SUBSET Messages
  /\ \A m \in Messages : m.from \in Producers /\ m.stamp \in 0..(Stamps - 1) /\ m # Stop
  /\ \A m \in Messages, p \in Producers : m \in MessagesOf(p) <=> p = m.from
  /\ \A p \in Producers : Stop \notin MessagesOf(p)
  /\ UserItems = Messages \cup {Stop} /\ Items = UserItems
  /\ Stamps \in Nat \ {0} /\ \A a \in Nat : (a + 1) % Stamps \in 0..(Stamps - 1)
<1> USE BufUserAssumption DEF BufUserAssumption
<1>1. Stamps \in Nat \ {0}
  BY BufferAssumption DEF BufferAssumption
<1>2. \A a \in Nat : (a + 1) % Stamps \in 0..(Stamps - 1)
  <2> SUFFICES ASSUME NEW a \in Nat PROVE (a + 1) % Stamps \in 0..(Stamps - 1)
    OBVIOUS
  <2>1. PICK b \in Nat : b = a + 1
    OBVIOUS
  <2> QED
    BY <1>1, <2>1, CountOn
<1>3. \A p \in Producers : MessagesOf(p) \in SUBSET Messages
  BY DEF MessagesOf, Messages
<1>4. \A m \in Messages : m.from \in Producers /\ m.stamp \in 0..(Stamps - 1) /\ m # Stop
  BY DEF Messages
<1>5. \A m \in Messages, p \in Producers : m \in MessagesOf(p) <=> p = m.from
  BY DEF Messages, MessagesOf
<1> QED
  BY <1>1, <1>2, <1>3, <1>4, <1>5 DEF UserItems

LEMMA AccountMessage ==
  ASSUME NEW line, NEW sent, NEW first, NEW said, NEW rem,
         Account(line, sent, first, said, rem),
         NEW p \in Producers \ said, NEW m \in MessagesOf(p), m.stamp = sent[p],
         NEW after, after = [sent EXCEPT ![p] = (@ + 1) % Stamps]
  PROVE  Account(Append(line, m), after, first, said, rem)
<1>1. /\ line \in Seq(UserItems) /\ m \in UserItems /\ m \in Messages /\ m # Stop
      /\ Append(line, m) \in Seq(UserItems)
      /\ Len(Append(line, m)) = Len(line) + 1 /\ Len(line) \in Nat
  BY MessageFacts DEF Account
<1>2. after \in [Producers -> 0..(Stamps - 1)]
  BY MessageFacts DEF Account
<1>3. ASSUME NEW q \in Producers
      PROVE  InOrder(Append(line, m), MessagesOf(q), first[q], after[q])
  <2>1. first[q] \in 0..(Stamps - 1) /\ InOrder(line, MessagesOf(q), first[q], sent[q])
    BY DEF Account
  <2>2. m \in MessagesOf(q) => m.stamp = sent[q] /\ after[q] = (sent[q] + 1) % Stamps
    BY <1>1, MessageFacts DEF Account
  <2>3. m \notin MessagesOf(q) => after[q] = sent[q]
    BY DEF Account
  <2> QED
    BY <1>1, <2>1, <2>2, <2>3, OrderAppend
<1>4. NumberIn(Append(line, m), {Stop}, Len(line) + 1) = NumberIn(line, {Stop}, Len(line))
  <2>1. One(m \in {Stop}) = 0
    BY <1>1 DEF One
  <2>2. NumberIn(line, {Stop}, Len(line)) \in Nat
    BY <1>1, NumberFacts
  <2> QED
    BY <1>1, <2>1, <2>2, NumberAppend
<1>5. said # Producers
  OBVIOUS
<1> QED
  BY <1>1, <1>2, <1>3, <1>4, <1>5 DEF Account

LEMMA AccountStop ==
  ASSUME NEW line, NEW sent, NEW first, NEW said, NEW rem,
         Account(line, sent, first, said, rem),
         NEW p \in Producers \ said
  PROVE  Account(Append(line, Stop), sent, first, said \cup {p}, rem)
<1>1. /\ line \in Seq(UserItems) /\ Stop \in UserItems
      /\ Append(line, Stop) \in Seq(UserItems)
      /\ Len(Append(line, Stop)) = Len(line) + 1 /\ Len(line) \in Nat
      /\ Append(line, Stop)[Len(line) + 1] = Stop
  BY MessageFacts DEF Account
<1>2. ASSUME NEW q \in Producers
      PROVE  InOrder(Append(line, Stop), MessagesOf(q), first[q], sent[q])
  <2>1. first[q] \in 0..(Stamps - 1) /\ InOrder(line, MessagesOf(q), first[q], sent[q])
    BY DEF Account
  <2> QED
    BY <1>1, <2>1, MessageFacts, OrderAppend
<1>3. NumberIn(Append(line, Stop), {Stop}, Len(line) + 1)
        = NumberIn(line, {Stop}, Len(line)) + 1
  <2>1. One(Stop \in {Stop}) = 1
    BY DEF One
  <2> QED
    BY <1>1, <2>1, NumberAppend
<1>4. Cardinality(Producers \ (said \cup {p})) = Cardinality(Producers \ said) - 1
  <2>1. Producers \ (said \cup {p}) = (Producers \ said) \ {p}
    OBVIOUS
  <2>2. IsFiniteSet(Producers \ said)
    BY ThreadFacts, FS_Subset
  <2> QED
    BY <2>1, <2>2, FS_RemoveElement
<1>5. Cardinality(Producers \ said) \in Nat /\ NumberIn(line, {Stop}, Len(line)) \in Nat
  BY <1>1, ThreadFacts, FS_Subset, FS_CardinalityType, NumberFacts
<1>6. rem = Cardinality(Producers \ (said \cup {p}))
              + NumberIn(Append(line, Stop), {Stop}, Len(line) + 1)
  BY <1>3, <1>4, <1>5 DEF Account
<1> QED
  BY <1>1, <1>2, <1>6 DEF Account

(* What the consumer takes is the head of the line.                        *)
LEMMA AccountTake ==
  ASSUME NEW line, NEW sent, NEW first, NEW said, NEW rem,
         Account(line, sent, first, said, rem), line # <<>>,
         NEW after, NEW left,
         Head(line) = Stop => after = first /\ left = rem - 1,
         Head(line) # Stop =>
           /\ after = [first EXCEPT ![Head(line).from] = (Head(line).stamp + 1) % Stamps]
           /\ left = rem
  PROVE  Account(Tail(line), sent, after, said, left)
<1>1. /\ line \in Seq(UserItems) /\ Head(line) \in UserItems
      /\ Tail(line) \in Seq(UserItems)
      /\ Len(line) = Len(Tail(line)) + 1 /\ Len(Tail(line)) \in Nat
      /\ Tail(line) # <<>> => Tail(line)[Len(Tail(line))] = line[Len(line)]
  BY DEF Account
<1>2. Head(line) # Stop => Head(line) \in Messages
  BY <1>1, MessageFacts
<1>3. after \in [Producers -> 0..(Stamps - 1)]
  <2>1. CASE Head(line) = Stop
    BY <2>1 DEF Account
  <2>2. CASE Head(line) # Stop
    <3>1. (Head(line).stamp + 1) % Stamps \in 0..(Stamps - 1)
      BY <1>2, <2>2, MessageFacts
    <3> QED
      BY <2>2, <3>1 DEF Account
  <2> QED
    BY <2>1, <2>2
<1>4. ASSUME NEW q \in Producers
      PROVE  InOrder(Tail(line), MessagesOf(q), after[q], sent[q])
  <2>1. first[q] \in 0..(Stamps - 1) /\ InOrder(line, MessagesOf(q), first[q], sent[q])
    BY DEF Account
  <2>2. Head(line) \in MessagesOf(q) => after[q] = (Head(line).stamp + 1) % Stamps
    BY <1>2, MessageFacts DEF Account
  <2>3. Head(line) \notin MessagesOf(q) => after[q] = first[q]
    BY <1>2, MessageFacts DEF Account
  <2> QED
    BY <1>1, <2>1, <2>2, <2>3, OrderTail
<1>5. left = Cardinality(Producers \ said) + NumberIn(Tail(line), {Stop}, Len(Tail(line)))
  <2>1. NumberIn(line, {Stop}, Len(Tail(line)) + 1)
          = NumberIn(Tail(line), {Stop}, Len(Tail(line))) + One(Head(line) \in {Stop})
    <3>1. Len(Tail(line)) \in 0..Len(Tail(line))
      BY <1>1
    <3> QED
      BY <1>1, <3>1, NumberTail
  <2>2. Cardinality(Producers \ said) \in Nat
    BY ThreadFacts, FS_Subset, FS_CardinalityType
  <2>3. NumberIn(Tail(line), {Stop}, Len(Tail(line))) \in Nat
    BY <1>1, NumberFacts
  <2>4. rem = Cardinality(Producers \ said) + NumberIn(line, {Stop}, Len(Tail(line)) + 1)
    BY <1>1 DEF Account
  <2>5. CASE Head(line) = Stop
    <3>1. One(Head(line) \in {Stop}) = 1
      BY <2>5 DEF One
    <3> QED
      BY <2>1, <2>2, <2>3, <2>4, <2>5, <3>1
  <2>6. CASE Head(line) # Stop
    <3>1. One(Head(line) \in {Stop}) = 0
      BY <2>6 DEF One
    <3> QED
      BY <2>1, <2>2, <2>3, <2>4, <2>6, <3>1
  <2> QED
    BY <2>5, <2>6
<1> QED
  BY <1>1, <1>3, <1>4, <1>5 DEF Account
-----------------------------------------------------------------------------
(***************************************************************************)
(* The program.  Its invariant joins the buffer's, where each thread may   *)
(* be, and the account of the line.                                        *)
(***************************************************************************)
Sent == [p \in Producers |-> (stamp[p] + Deposited(p)) % Stamps]

SaysIt(p) == pc[p] = "ended" \/ (pc[p] = "putStop" /\ at[p] \in AfterRing)
Said == {p \in Producers : SaysIt(p)}

ThreadsOK ==
  /\ \A p \in Producers : pc[p] \in {"new", "check", "put", "putStop", "ended"}
  /\ pc[Consumer] \in {"new", "get", "ended"}
  /\ pc[Consumer] = "ended" => remaining = 0
  /\ stamp \in [Producers -> 0..(Stamps - 1)]

(* main starts each thread once. *)
MainOK ==
  /\ mainPc[2] \in Thread
  /\ mainPc[1] = "start" => \A u \in Thread : u >= mainPc[2] => pc[u] = "new"

UserInv ==
  /\ BufferOK /\ ThreadsOK /\ MainOK
  /\ Account(Line, Sent, nextRead, Said, remaining)

(* The line is empty at first. *)
LEMMA LineAtFirst == UserInit => Line = <<>> /\ (choice = "sem" => SemQueue = <<>>)
<1> SUFFICES ASSUME UserInit PROVE Line = <<>> /\ (choice = "sem" => SemQueue = <<>>)
  OBVIOUS
<1>0. BufferOK /\ Thread = Producers \cup {Consumer}
  BY InitBuffer, ThreadFacts
<1>1. at = [t \in Thread |-> "count"] /\ Contents = <<>>
  <2>1. Fifo!Init
    BY MonitorInit DEF UserInit
  <2> QED
    BY <2>1, ThreadFacts DEF Fifo!Init, UserInit, Sem!Init
<1>2. CASE choice = "mon"
  BY <1>1, <1>2, LineIs, <1>0
<1>3. CASE choice = "sem"
  <2>1. InHand = <<>>
    BY <1>0, <1>1 DEF InHand, AfterRing
  <2>2. HowFull = 0
    <3>1. Loaded = {} /\ Cardinality({}) = 0 /\ full.s = 0
      BY <1>0, <1>1, FS_EmptySet DEF Loaded, UserInit, Sem!Init, Sem!NewSemaphore
    <3> QED
      BY <3>1 DEF HowFull
  <2>3. SemQueue \in Seq(Items) /\ Len(SemQueue) = 0
    BY <1>0, <1>3, <2>2, SemContents DEF BufferOK
  <2>4. SemQueue = <<>>
    BY <2>3, EmptySeq
  <2> QED
    BY <1>0, <1>3, <2>1, <2>4, LineIs
<1> QED
  BY <1>0, <1>2, <1>3 DEF BufferOK

LEMMA InitUser == UserInit => UserInv
<1> SUFFICES ASSUME UserInit PROVE UserInv
  OBVIOUS
<1>1. BufferOK /\ Thread = Producers \cup {Consumer} /\ Consumer \notin Producers
  BY InitBuffer, ThreadFacts
<1>2. Stamps \in Nat \ {0} /\ 0 \in 0..(Stamps - 1) /\ 0 % Stamps = 0 /\ NPROC \in Nat
  BY MessageFacts, BufUserAssumption DEF BufUserAssumption
<1>3. /\ pc = [t \in Thread |-> "new"] /\ stamp = [p \in Producers |-> 0]
      /\ nextRead = [p \in Producers |-> 0] /\ remaining = NPROC /\ mainPc = <<"start", 0>>
  BY DEF UserInit
<1>4. ThreadsOK
  BY <1>1, <1>2, <1>3 DEF ThreadsOK
<1>5. MainOK
  <2>1. 0 \in Thread
    BY <1>2 DEF Thread
  <2> QED
    BY <1>3, <2>1 DEF MainOK
<1>6. Line = <<>>
  BY LineAtFirst
<1>7. Sent = [p \in Producers |-> 0] /\ Said = {}
  BY <1>1, <1>2, <1>3 DEF Sent, Deposited, Said, SaysIt
<1>8. Account(<<>>, [p \in Producers |-> 0], nextRead, {}, remaining)
  <2>1. \A T : NumberIn(<<>>, T, 0) = 0
    BY NumberFacts
  <2>2. \A p \in Producers : InOrder(<<>>, MessagesOf(p), 0, 0)
    BY <1>2, <2>1 DEF InOrder
  <2>3. Cardinality(Producers) = NPROC
    <3>1. Producers = 0..(NPROC - 1) /\ 0 \in Int /\ NPROC - 1 \in Int
      BY <1>2, BufUserAssumption DEF BufUserAssumption
    <3> QED
      BY <1>2, <3>1, FS_Interval
  <2> QED
    BY <1>2, <1>3, <2>1, <2>2, <2>3 DEF Account
<1> QED
  BY <1>1, <1>4, <1>5, <1>6, <1>7, <1>8 DEF UserInv

(* Whoever does not move keeps what it sent and said. *)
LEMMA OthersSame ==
  ASSUME NEW t \in Thread, OnlyMoves(t), \A u \in Thread : u # t => pc'[u] = pc[u],
         \A q \in Producers : q # t => stamp'[q] = stamp[q]
  PROVE  \A q \in Producers : q # t =>
           Sent'[q] = Sent[q] /\ Deposited(q)' = Deposited(q) /\ (q \in Said' <=> q \in Said)
BY ThreadFacts DEF OnlyMoves, Sent, Deposited, Said, SaysIt

(* A step that changes nothing of the line. *)
LEMMA SameLine ==
  ASSUME UserInv, NEW t \in Thread, OnlyMoves(t), \A u \in Thread : u # t => pc'[u] = pc[u],
         UNCHANGED <<stamp, nextRead, remaining>>, Line' = Line,
         t \in Producers =>
           Deposited(t)' = Deposited(t) /\ (SaysIt(t)' <=> SaysIt(t))
  PROVE  Account(Line', Sent', nextRead', Said', remaining')
<1>1. \A q \in Producers : Sent'[q] = Sent[q] /\ (q \in Said' <=> q \in Said)
  BY OthersSame DEF Sent, Said
<1>2. Sent' = Sent
  BY <1>1 DEF Sent
<1>3. Said' = Said
  BY <1>1 DEF Said
<1> QED
  BY <1>2, <1>3 DEF UserInv

(* The invariants' parts that a thread's step leaves to check. *)
LEMMA ThreadStep ==
  ASSUME UserInv, NEW t \in Thread, pc' = [pc EXCEPT ![t] = pc'[t]],
         IF t \in Producers
           THEN pc'[t] \in {"check", "put", "putStop", "ended"} /\ UNCHANGED remaining
           ELSE pc'[t] \in {"get", "ended"} /\ (pc'[t] = "ended" => remaining' = 0)
  PROVE  /\ PcGoes(t) /\ \A u \in Thread : u # t => pc'[u] = pc[u]
         /\ stamp' \in [Producers -> 0..(Stamps - 1)] => ThreadsOK'
<1>1. pc \in [Thread -> {"new", "check", "ended"} \cup Calls]
  BY DEF UserInv, BufferOK, SemPart, SemTypeOK
<1>2. PcGoes(t) /\ \A u \in Thread : u # t => pc'[u] = pc[u]
  BY <1>1, ThreadFacts DEF PcGoes, Calls
<1> QED
  BY <1>1, <1>2, ThreadFacts DEF UserInv, ThreadsOK

LEMMA MainStays ==
  ASSUME UserInv, NEW t \in Thread, pc[t] # "new",
         \A u \in Thread : u # t => pc'[u] = pc[u], UNCHANGED mainPc
  PROVE  MainOK'
BY DEF UserInv, MainOK

(* Not in a call means at its beginning. *)
LEMMA AtCount ==
  ASSUME UserInv, NEW t \in Thread, pc[t] \notin Calls
  PROVE  at[t] \notin AfterRing
BY DEF UserInv, BufferOK, SemPart, CallsOK, AfterRing

LEMMA CheckRunningKeeps ==
  ASSUME UserInv, NEW p \in Producers, CheckRunning(p), UNCHANGED choice
  PROVE  UserInv'
<1>1. /\ pc[p] = "check" /\ pc' = [pc EXCEPT ![p] = pc'[p]] /\ pc'[p] \in {"put", "putStop"}
      /\ UNCHANGED <<objectVars, stamp, nextRead, remaining, mainPc>> /\ p \in Thread
  BY ThreadFacts DEF CheckRunning, UserInv, BufferOK, SemPart, SemTypeOK
<1>2. PcGoes(p) /\ (\A u \in Thread : u # p => pc'[u] = pc[u]) /\ ThreadsOK' /\ MainOK'
  BY <1>1, ThreadStep, MainStays DEF UserInv, ThreadsOK
<1>3. BufferOK' /\ Line' = Line /\ UNCHANGED at
  BY <1>1, <1>2, OutsideStep DEF UserInv, Calls
<1>4. OnlyMoves(p)
  BY <1>3 DEF OnlyMoves
<1>5. at[p] \notin AfterRing
  BY <1>1, AtCount DEF Calls
<1>6. Deposited(p)' = Deposited(p) /\ (SaysIt(p)' <=> SaysIt(p))
  BY <1>1, <1>3, <1>5 DEF Deposited, SaysIt
<1> QED
  BY <1>1, <1>2, <1>3, <1>4, <1>6, SameLine DEF UserInv

LEMMA ItemsToPut ==
  ASSUME UserInv, NEW p \in Producers
  PROVE  /\ Message(p) \in MessagesOf(p) /\ Message(p) \in Items /\ Stop \in Items
         /\ Message(p).stamp = stamp[p] /\ stamp[p] % Stamps = stamp[p]
         /\ (stamp[p] + 0) % Stamps = stamp[p]
         /\ stamp[p] \in Nat
<1>1. stamp[p] \in 0..(Stamps - 1) /\ Stamps \in Nat \ {0}
  BY MessageFacts DEF UserInv, ThreadsOK
<1>2. Message(p) \in MessagesOf(p) /\ Message(p).stamp = stamp[p]
  BY <1>1 DEF Message, MessagesOf
<1>3. stamp[p] % Stamps = stamp[p]
  BY <1>1
<1> QED
  BY <1>1, <1>2, <1>3, MessageFacts

LEMMA PutMessageKeeps ==
  ASSUME UserInv, NEW p \in Producers, PutMessage(p), UNCHANGED choice
  PROVE  UserInv'
<1>1. /\ pc[p] = "put" /\ pc' = [pc EXCEPT ![p] = pc'[p]] /\ pc'[p] = "check"
      /\ PutReturns(p, Message(p)) /\ stamp' = [stamp EXCEPT ![p] = (@ + 1) % Stamps]
      /\ UNCHANGED <<nextRead, remaining, mainPc>> /\ p \in Thread
  BY ThreadFacts DEF PutMessage, UserInv, BufferOK, SemPart, SemTypeOK
<1>2. /\ stamp[p] \in Nat /\ stamp[p] % Stamps = stamp[p] /\ (stamp[p] + 0) % Stamps = stamp[p]
      /\ Message(p) \in MessagesOf(p) /\ Message(p) \in Items /\ Message(p).stamp = stamp[p]
  BY ItemsToPut
<1>3. (stamp[p] + 1) % Stamps \in 0..(Stamps - 1) /\ stamp' \in [Producers -> 0..(Stamps - 1)]
  BY <1>1, <1>2, MessageFacts DEF UserInv, ThreadsOK
<1>4. PcGoes(p) /\ (\A u \in Thread : u # p => pc'[u] = pc[u]) /\ ThreadsOK' /\ MainOK'
  BY <1>1, <1>3, ThreadStep, MainStays
<1>5. BufferOK' /\ OnlyMoves(p) /\ Finishes(p, Message(p))
  BY <1>1, <1>2, <1>4, PutReturnsStep DEF UserInv
<1>6. \A q \in Producers : q # p => Sent'[q] = Sent[q] /\ (q \in Said' <=> q \in Said)
  <2>1. \A q \in Producers : q # p => stamp'[q] = stamp[q]
    BY <1>1 DEF UserInv, ThreadsOK
  <2> QED
    BY <1>1, <1>4, <1>5, <2>1, OthersSame
<1>7. p \notin Said /\ Said' = Said
  <2>1. p \notin Said /\ p \notin Said'
    BY <1>1 DEF Said, SaysIt
  <2> QED
    BY <1>6, <2>1 DEF Said
<1>8. Sent'[p] = (stamp[p] + 1) % Stamps
  <2>1. stamp'[p] = (stamp[p] + 1) % Stamps /\ Deposited(p)' = 0
    BY <1>1 DEF Deposited, UserInv, ThreadsOK
  <2>2. (stamp'[p] + 0) % Stamps = stamp'[p]
    BY <1>3, <2>1, MessageFacts
  <2> QED
    BY <2>1, <2>2 DEF Sent
<1>9. CASE Line' = Line /\ at[p] \in AfterRing
  <2>1. Sent[p] = (stamp[p] + 1) % Stamps
    BY <1>1, <1>9 DEF Sent, Deposited
  <2>2. Sent' = Sent
    BY <1>6, <1>8, <2>1 DEF Sent
  <2> QED
    BY <1>1, <1>4, <1>5, <1>7, <1>9, <2>2 DEF UserInv
<1>10. CASE Line' = Append(Line, Message(p)) /\ at[p] \notin AfterRing
  <2>1. Sent[p] = stamp[p]
    BY <1>2, <1>10 DEF Sent, Deposited
  <2>2. Sent' = [Sent EXCEPT ![p] = (@ + 1) % Stamps]
    BY <1>6, <1>8, <2>1 DEF Sent
  <2>3. Account(Append(Line, Message(p)), Sent', nextRead, Said, remaining)
    BY <1>2, <1>7, <2>1, <2>2, AccountMessage DEF UserInv
  <2> QED
    BY <1>1, <1>4, <1>5, <1>7, <1>10, <2>3 DEF UserInv
<1> QED
  BY <1>5, <1>9, <1>10 DEF Finishes

LEMMA PutStopKeeps ==
  ASSUME UserInv, NEW p \in Producers, PutStop(p), UNCHANGED choice
  PROVE  UserInv'
<1>1. /\ pc[p] = "putStop" /\ pc' = [pc EXCEPT ![p] = pc'[p]] /\ pc'[p] = "ended"
      /\ PutReturns(p, Stop)
      /\ UNCHANGED <<stamp, nextRead, remaining, mainPc>> /\ p \in Thread
  BY ThreadFacts DEF PutStop, UserInv, BufferOK, SemPart, SemTypeOK
<1>2. PcGoes(p) /\ (\A u \in Thread : u # p => pc'[u] = pc[u]) /\ ThreadsOK' /\ MainOK'
  BY <1>1, ThreadStep, MainStays DEF UserInv, ThreadsOK
<1>3. BufferOK' /\ OnlyMoves(p) /\ Finishes(p, Stop)
  BY <1>1, <1>2, ItemsToPut, PutReturnsStep DEF UserInv
<1>4. Deposited(p) = 0 /\ Deposited(p)' = 0 /\ SaysIt(p)'
  BY <1>1 DEF Deposited, SaysIt
<1>5. \A q \in Producers : q # p => Sent'[q] = Sent[q] /\ (q \in Said' <=> q \in Said)
  BY <1>1, <1>2, <1>3, OthersSame
<1>6. Sent' = Sent
  BY <1>1, <1>4, <1>5 DEF Sent
<1>7. CASE Line' = Line /\ at[p] \in AfterRing
  <2>1. SaysIt(p)
    BY <1>1, <1>7 DEF SaysIt
  <2> QED
    BY <1>1, <1>2, <1>3, <1>4, <1>7, <2>1, SameLine DEF UserInv
<1>8. CASE Line' = Append(Line, Stop) /\ at[p] \notin AfterRing
  <2>1. p \notin Said
    BY <1>1, <1>8 DEF Said, SaysIt
  <2>2. Said' = Said \cup {p}
    BY <1>4, <1>5 DEF Said
  <2>3. Account(Append(Line, Stop), Sent, nextRead, Said \cup {p}, remaining)
    BY <2>1, AccountStop DEF UserInv
  <2> QED
    BY <1>1, <1>2, <1>3, <1>6, <1>8, <2>2, <2>3 DEF UserInv
<1> QED
  BY <1>3, <1>7, <1>8 DEF Finishes

LEMMA PuttingKeeps ==
  ASSUME UserInv, NEW p \in Producers, Putting(p), UNCHANGED choice
  PROVE  UserInv'
<1>1. /\ UNCHANGED <<pc, stamp, nextRead, remaining, mainPc>> /\ p \in Thread
      /\ ThreadsOK' /\ MainOK'
  BY ThreadFacts DEF Putting, threadVars, UserInv, ThreadsOK, MainOK
<1>2. \A u \in Thread : u # p => pc'[u] = pc[u]
  BY <1>1
<1>3. CASE pc[p] = "put" /\ InPut(p, Message(p))
  <2>1. /\ Message(p) \in MessagesOf(p) /\ Message(p) \in Items /\ Message(p).stamp = stamp[p]
        /\ (stamp[p] + 0) % Stamps = stamp[p]
    BY ItemsToPut
  <2>2. BufferOK' /\ OnlyMoves(p) /\ Deposits(p, Message(p))
    BY <1>1, <1>3, <2>1, InPutStep DEF UserInv, Calls
  <2>3. CASE Line' = Line /\ (at'[p] \in AfterRing <=> at[p] \in AfterRing)
    <3>1. Deposited(p)' = Deposited(p) /\ (SaysIt(p)' <=> SaysIt(p))
      BY <1>1, <2>3 DEF Deposited, SaysIt
    <3> QED
      BY <1>1, <1>2, <2>2, <2>3, <3>1, SameLine DEF UserInv
  <2>4. CASE Line' = Append(Line, Message(p)) /\ at[p] \notin AfterRing /\ at'[p] \in AfterRing
    <3>1. \A q \in Producers : q # p => Sent'[q] = Sent[q] /\ (q \in Said' <=> q \in Said)
      BY <1>1, <1>2, <2>2, OthersSame
    <3>2. p \notin Said /\ p \notin Said'
      BY <1>1, <1>3 DEF Said, SaysIt
    <3>3. Said' = Said
      BY <3>1, <3>2 DEF Said
    <3>4. Sent[p] = stamp[p] /\ Sent'[p] = (stamp[p] + 1) % Stamps
      BY <1>1, <1>3, <2>1, <2>4 DEF Sent, Deposited
    <3>5. Sent' = [Sent EXCEPT ![p] = (@ + 1) % Stamps]
      BY <3>1, <3>4 DEF Sent
    <3>6. Account(Append(Line, Message(p)), Sent', nextRead, Said, remaining)
      BY <2>1, <3>2, <3>4, <3>5, AccountMessage DEF UserInv
    <3> QED
      BY <1>1, <2>2, <2>4, <3>3, <3>6 DEF UserInv
  <2> QED
    BY <2>2, <2>3, <2>4 DEF Deposits
<1>4. CASE pc[p] = "putStop" /\ InPut(p, Stop)
  <2>1. BufferOK' /\ OnlyMoves(p) /\ Deposits(p, Stop)
    BY <1>1, <1>4, ItemsToPut, InPutStep DEF UserInv, Calls
  <2>2. Deposited(p) = 0 /\ Deposited(p)' = 0
    BY <1>1, <1>4 DEF Deposited
  <2>3. CASE Line' = Line /\ (at'[p] \in AfterRing <=> at[p] \in AfterRing)
    <3>1. SaysIt(p)' <=> SaysIt(p)
      BY <1>1, <2>3 DEF SaysIt
    <3> QED
      BY <1>1, <1>2, <2>1, <2>2, <2>3, <3>1, SameLine DEF UserInv
  <2>4. CASE Line' = Append(Line, Stop) /\ at[p] \notin AfterRing /\ at'[p] \in AfterRing
    <3>1. \A q \in Producers : q # p => Sent'[q] = Sent[q] /\ (q \in Said' <=> q \in Said)
      BY <1>1, <1>2, <2>1, OthersSame
    <3>2. p \notin Said /\ p \in Said'
      BY <1>1, <1>4, <2>4 DEF Said, SaysIt
    <3>3. Said' = Said \cup {p}
      BY <3>1, <3>2 DEF Said
    <3>4. Sent' = Sent
      BY <1>1, <2>2, <3>1 DEF Sent
    <3>5. Account(Append(Line, Stop), Sent, nextRead, Said \cup {p}, remaining)
      BY <3>2, AccountStop DEF UserInv
    <3> QED
      BY <1>1, <2>1, <2>4, <3>3, <3>4, <3>5 DEF UserInv
  <2> QED
    BY <2>1, <2>3, <2>4 DEF Deposits
<1> QED
  BY <1>3, <1>4 DEF Putting

LEMMA TakeKeeps ==
  ASSUME UserInv, Take, UNCHANGED choice
  PROVE  UserInv'
<1> DEFINE c == Consumer
           item == Returned(c)
<1>1. /\ pc[c] = "get" /\ GetReturns(c) /\ c \in Thread /\ c \notin Producers
      /\ pc' = [pc EXCEPT ![c] = pc'[c]]
      /\ pc'[c] = IF remaining' > 0 THEN "get" ELSE "ended"
      /\ UNCHANGED <<running, stamp, mainPc>>
  BY ThreadFacts DEF Take, UserInv, BufferOK, SemPart, SemTypeOK
<1>2. /\ item = Stop => nextRead' = nextRead /\ remaining' = remaining - 1
      /\ item # Stop =>
           /\ nextRead' = [nextRead EXCEPT ![item.from] = (item.stamp + 1) % Stamps]
           /\ remaining' = remaining
  BY DEF Take
<1> HIDE DEF item
<1>3. PcGoes(c) /\ \A u \in Thread : u # c => pc'[u] = pc[u]
  BY <1>1 DEF PcGoes, UserInv, BufferOK, SemPart, SemTypeOK, Calls
<1>4. /\ BufferOK' /\ OnlyMoves(c)
      /\ Line # <<>> /\ item = Head(Line) /\ Line' = Tail(Line)
  BY <1>1, <1>3, GetReturnsStep DEF UserInv, item
<1>5. Account(Tail(Line), Sent, nextRead', Said, remaining')
  BY <1>2, <1>4, AccountTake DEF UserInv
<1>6. Sent' = Sent /\ Said' = Said
  <2>1. \A q \in Producers : Sent'[q] = Sent[q] /\ (q \in Said' <=> q \in Said)
    BY <1>1, <1>3, <1>4, OthersSame
  <2> QED
    BY <2>1 DEF Sent, Said
<1>7. remaining' \in Nat
  <2>1. PICK n \in Nat : n = Cardinality(Producers \ Said)
    BY ThreadFacts, FS_Subset, FS_CardinalityType
  <2>2. Len(Tail(Line)) \in Nat
    BY <1>5 DEF Account
  <2>3. NumberIn(Tail(Line), {Stop}, Len(Tail(Line))) \in Nat
    BY <2>2, NumberFacts
  <2> QED
    BY <1>5, <2>1, <2>3 DEF Account
<1>8. ThreadsOK'
  <2>1. pc'[c] \in {"get", "ended"} /\ (pc'[c] = "ended" => remaining' = 0)
    BY <1>1, <1>7
  <2> QED
    BY <1>1, <2>1, ThreadStep DEF UserInv, ThreadsOK
<1>9. MainOK'
  BY <1>1, <1>3, MainStays
<1> QED
  BY <1>4, <1>5, <1>6, <1>8, <1>9 DEF UserInv

LEMMA TakingKeeps ==
  ASSUME UserInv, Taking, UNCHANGED choice
  PROVE  UserInv'
<1>1. /\ pc[Consumer] = "get" /\ InGet(Consumer)
      /\ UNCHANGED <<pc, stamp, nextRead, remaining, mainPc>>
      /\ ThreadsOK' /\ MainOK' /\ Consumer \in Thread /\ Consumer \notin Producers
  BY ThreadFacts DEF Taking, threadVars, UserInv, ThreadsOK, MainOK
<1>2. BufferOK' /\ OnlyMoves(Consumer) /\ Line' = Line
  BY <1>1, InGetStep DEF UserInv, Calls
<1> QED
  BY <1>1, <1>2, SameLine DEF UserInv

LEMMA StartKeeps ==
  ASSUME UserInv, NEW t \in Thread, Start(t), UNCHANGED choice
  PROVE  UserInv'
<1>1. /\ mainPc = <<"start", t>> /\ pc[t] = "new" /\ pc' = [pc EXCEPT ![t] = pc'[t]]
      /\ pc'[t] = IF t = Consumer THEN "get" ELSE "check"
      /\ mainPc' = IF t = Consumer THEN <<"stop", 0>> ELSE <<"start", t + 1>>
      /\ UNCHANGED <<objectVars, stamp, nextRead, remaining>>
  BY DEF Start, UserInv, MainOK, Thread, BufferOK, SemPart, SemTypeOK
<1>2. PcGoes(t) /\ (\A u \in Thread : u # t => pc'[u] = pc[u]) /\ ThreadsOK'
  BY <1>1, ThreadFacts, ThreadStep DEF UserInv, ThreadsOK
<1>3. MainOK'
  <2>1. NPROC \in Nat /\ Consumer = NPROC
    BY BufUserAssumption DEF BufUserAssumption, Consumer
  <2>2. CASE t = Consumer
    BY <1>1, <2>1, <2>2 DEF MainOK, Thread
  <2>3. CASE t # Consumer
    <3>1. t + 1 \in Thread /\ \A u \in Thread : u >= t + 1 => u >= t /\ u # t
      BY <2>1, <2>3 DEF Thread
    <3>2. \A u \in Thread : u >= t + 1 => pc'[u] = "new"
      BY <1>1, <1>2, <3>1 DEF UserInv, MainOK
    <3> QED
      BY <1>1, <2>3, <3>1, <3>2 DEF MainOK
  <2> QED
    BY <2>2, <2>3
<1>4. BufferOK' /\ Line' = Line /\ UNCHANGED at
  BY <1>1, <1>2, OutsideStep DEF UserInv, Calls
<1>5. OnlyMoves(t)
  BY <1>4 DEF OnlyMoves
<1>6. t \in Producers => Deposited(t)' = Deposited(t) /\ (SaysIt(t)' <=> SaysIt(t))
  BY <1>1, ThreadFacts DEF Deposited, SaysIt
<1> QED
  BY <1>1, <1>2, <1>3, <1>4, <1>5, <1>6, SameLine DEF UserInv

(* Asking a producer to stop, joining a thread, and a step of nobody.      *)
LEMMA MainKeeps ==
  ASSUME UserInv, UNCHANGED choice,
         \/ \E p \in Producers : StopProducer(p)
         \/ \E t \in Thread : Join(t)
         \/ UNCHANGED vars
  PROVE  UserInv'
<1>1. UNCHANGED <<objectVars, pc, stamp, nextRead, remaining>>
  BY DEF StopProducer, Join, threadVars, vars
<1>2. MainOK'
  <2>1. CASE \E p \in Producers : StopProducer(p)
    BY <2>1, ThreadFacts DEF StopProducer, MainOK
  <2>2. CASE \E t \in Thread : Join(t)
    <3>1. PICK t \in Thread : Join(t)
      BY <2>2
    <3>2. t # Consumer => t + 1 \in Thread
      BY BufUserAssumption DEF BufUserAssumption, Thread, Consumer
    <3>3. mainPc' \in {<<"ended", t>>, <<"join", Consumer>>, <<"stop", t + 1>>}
          /\ (t = Consumer => mainPc' # <<"stop", t + 1>>)
      BY <3>1 DEF Join
    <3> QED
      BY <3>2, <3>3, ThreadFacts DEF MainOK
  <2>3. CASE UNCHANGED vars
    BY <2>3 DEF vars, threadVars, UserInv, MainOK
  <2> QED
    BY <2>1, <2>2, <2>3
<1>3. ThreadsOK'
  BY <1>1 DEF UserInv, ThreadsOK
<1>4. BufferOK' /\ Line' = Line /\ UNCHANGED at
  BY <1>1, OutsideStep DEF UserInv
<1>5. Sent' = Sent /\ Said' = Said
  BY <1>1, <1>4 DEF Sent, Deposited, Said, SaysIt
<1> QED
  BY <1>1, <1>2, <1>3, <1>4, <1>5 DEF UserInv

LEMMA UserNextKeeps == UserInv /\ [UserNext]_vars => UserInv'
<1> SUFFICES ASSUME UserInv, [UserNext]_vars PROVE UserInv'
  OBVIOUS
<1>1. CASE UNCHANGED vars
  <2>1. UNCHANGED choice
    BY <1>1 DEF vars
  <2> QED
    BY <1>1, <2>1, MainKeeps
<1>2. CASE UserNext
  <2>1. UNCHANGED choice
    BY <1>2 DEF UserNext
  <2>2. ASSUME NEW p \in Producers, RunProducer(p)
        PROVE  UserInv'
    BY <2>1, <2>2, CheckRunningKeeps, PutMessageKeeps, PutStopKeeps, PuttingKeeps DEF RunProducer
  <2>3. CASE RunConsumer
    BY <2>1, <2>3, TakeKeeps, TakingKeeps DEF RunConsumer
  <2>4. CASE MainStep
    BY <2>1, <2>4, StartKeeps, MainKeeps DEF MainStep
  <2> QED
    BY <1>2, <2>2, <2>3, <2>4 DEF UserNext
<1> QED
  BY <1>1, <1>2

(***************************************************************************)
(* When the consumer has ended it waits for no further Stop: all have said *)
(* it, and none is in the line any more, so neither is anything else; and  *)
(* a producer that has deposited its Stop and not returned from put() yet  *)
(* would still have it in the ring.                                        *)
(***************************************************************************)
LEMMA LeftBehind ==
  ASSUME UserInv, pc[Consumer] = "ended"
  PROVE  /\ Stored = <<>> /\ nextRead = stamp
         /\ \A p \in Producers : pc[p] = "ended"
<1>1. /\ remaining = 0 /\ Account(Line, Sent, nextRead, Said, 0)
      /\ stamp \in [Producers -> 0..(Stamps - 1)]
      /\ Line \in Seq(UserItems) /\ Len(Line) \in Nat
  BY DEF UserInv, ThreadsOK, Account
<1>2. Cardinality(Producers \ Said) = 0 /\ NumberIn(Line, {Stop}, Len(Line)) = 0
  <2>1. Cardinality(Producers \ Said) \in Nat /\ NumberIn(Line, {Stop}, Len(Line)) \in Nat
    BY <1>1, ThreadFacts, FS_Subset, FS_CardinalityType, NumberFacts
  <2> QED
    BY <1>1, <2>1 DEF Account
<1>3. Said = Producers
  <2>1. IsFiniteSet(Producers \ Said)
    BY ThreadFacts, FS_Subset
  <2>2. Producers \ Said = {}
    BY <1>2, <2>1, FS_EmptySet
  <2> QED
    BY <2>2 DEF Said
<1>4. Line = <<>>
  <2> SUFFICES ASSUME Line # <<>> PROVE FALSE
    OBVIOUS
  <2>1. Line[Len(Line)] = Stop /\ Len(Line) - 1 \in Nat
    BY <1>1, <1>3 DEF Account
  <2>2. PICK k \in Nat : k = Len(Line) - 1
    BY <2>1
  <2>3. k + 1 = Len(Line)
    BY <1>1, <2>2
  <2>4. NumberIn(Line, {Stop}, k + 1) = NumberIn(Line, {Stop}, k) + 1
    <3>1. One(Line[k + 1] \in {Stop}) = 1
      BY <2>1, <2>3 DEF One
    <3> QED
      BY <3>1, NumberFacts
  <2>5. NumberIn(Line, {Stop}, k) \in Nat
    BY NumberFacts
  <2> QED
    BY <1>2, <2>3, <2>4, <2>5
<1>5. Stored = <<>> /\ (choice = "sem" => Loaded = {})
  <2>1. CASE choice = "mon"
    BY <1>4, <2>1, LineIs DEF UserInv, Stored
  <2>2. CASE choice = "sem"
    <3>1. /\ Line = InHand \o SemQueue /\ Stored = SemQueue
          /\ InHand \in Seq(Items) /\ SemQueue \in Seq(Items) /\ Len(SemQueue) = HowFull
      BY <2>2, LineIs, SemContents, ThreadFacts DEF UserInv, BufferOK, Stored, SemRing, InHand
    <3>2. SemQueue = <<>> /\ HowFull = 0
      BY <1>4, <3>1
    <3>3. full.s \in Nat /\ Cardinality(Loaded) \in Nat /\ IsFiniteSet(Loaded)
      BY SetsOfThreads, FiniteThreads DEF UserInv, BufferOK, SemPart, SemTypeOK, SemaphoreOf
    <3>4. Cardinality(Loaded) = 0
      BY <3>2, <3>3 DEF HowFull
    <3> QED
      BY <3>1, <3>2, <3>3, <3>4, FS_EmptySet
  <2> QED
    BY <2>1, <2>2 DEF UserInv, BufferOK
<1>6. ASSUME NEW p \in Producers
      PROVE  pc[p] = "ended"
  <2>1. SaysIt(p) /\ p \in Thread /\ p # Consumer
    BY <1>3, ThreadFacts DEF Said
  <2>2. at[p] \notin AfterRing
    <3>1. CASE choice = "mon"
      BY <2>1, <3>1 DEF UserInv, BufferOK, SemIdle, AfterRing
    <3>2. CASE choice = "sem"
      BY <1>5, <2>1, <3>2 DEF Loaded, AfterRing
    <3> QED
      BY <3>1, <3>2 DEF UserInv, BufferOK
  <2> QED
    BY <2>1, <2>2 DEF SaysIt
<1>7. ASSUME NEW p \in Producers
      PROVE  nextRead[p] = stamp[p]
  <2>1. /\ Sent[p] = (nextRead[p] + 0) % Stamps /\ nextRead[p] \in 0..(Stamps - 1)
    <3>1. Len(<<>>) = 0 /\ NumberIn(<<>>, MessagesOf(p), 0) = 0
      BY NumberFacts
    <3> QED
      BY <1>1, <1>4, <3>1 DEF Account, InOrder
  <2>2. Sent[p] = (stamp[p] + 0) % Stamps
    BY <1>6 DEF Sent, Deposited
  <2>3. \A n \in Nat \ {0} : \A a \in 0..(n - 1) : (a + 0) % n = a
    OBVIOUS
  <2>4. stamp[p] \in 0..(Stamps - 1) /\ Stamps \in Nat \ {0}
    BY <1>1, MessageFacts
  <2> QED
    BY <2>1, <2>2, <2>3, <2>4
<1>8. nextRead = stamp
  BY <1>1, <1>7 DEF Account
<1> QED
  BY <1>5, <1>6, <1>8

(***************************************************************************)
(* Whichever buffer main makes, nobody sleeps who could go on and the      *)
(* semaphores account for every slot; no message is lost, repeated or      *)
(* overtaken on its way; and the consumer leaves nothing behind.           *)
(***************************************************************************)
THEOREM ProgramSafety ==
  UserSpec => [](/\ NoLostWakeup /\ UnitsAccounted /\ NobodyOverslept
                 /\ MessagesInOrder /\ NothingLeftBehind)
<1>1. UserInv => NoLostWakeup /\ UnitsAccounted /\ NobodyOverslept
  <2> SUFFICES ASSUME UserInv PROVE NoLostWakeup /\ UnitsAccounted /\ NobodyOverslept
    OBVIOUS
  <2>1. NoLostWakeup
    BY DEF UserInv, BufferOK, Inv, MonIdle, NoLostWakeup
  <2> QED
    BY <2>1, SemPartSays DEF UserInv, BufferOK
<1>2. UserInv => MessagesInOrder
  BY DEF UserInv, Account, InOrder, MessagesInOrder, NumberOf, NumberIn, Sent
<1>3. UserInv => NothingLeftBehind
  BY LeftBehind DEF NothingLeftBehind
<1> QED
  BY <1>1, <1>2, <1>3, InitUser, UserNextKeeps, PTL DEF UserSpec
-----------------------------------------------------------------------------
(***************************************************************************)
(* Both buffers as queues, in the program.  Under the semaphores an item   *)
(* is in the queue from the write of its slot to the read of it.           *)
(***************************************************************************)
LEMMA QueueNow == BufferOK => (choice = "sem" => Sem!Contents = SemQueue)
BY SemContents DEF BufferOK

LEMMA QueueAfter == (BufferOK => (choice = "sem" => Sem!Contents = SemQueue))'
BY QueueNow, PTL

SemQueueSteps ==
  \/ SemQueue' = SemQueue /\ UNCHANGED taken
  \/ \E item \in Items :
       Len(SemQueue) < Size /\ SemQueue' = Append(SemQueue, item) /\ UNCHANGED taken
  \/ \E c \in Consumers :
       /\ SemQueue # <<>> /\ SemQueue' = Tail(SemQueue)
       /\ taken' = [taken EXCEPT ![c] = <<Head(SemQueue)>>]

LEMMA SemCallSteps ==
  ASSUME SemPart, SemRing,
         \/ \E p \in Producers, item \in Items : Sem!InPut(p, item)
         \/ \E p \in Producers : Sem!SignalFull(p)
         \/ Sem!InGet(Consumer) \/ Sem!SignalEmpty(Consumer)
  PROVE  SemQueueSteps
<1>1. CASE \/ \E p \in Producers, item \in Items : Sem!InPut(p, item)
           \/ \E p \in Producers : Sem!SignalFull(p)
  <2>1. PICK p \in Producers, item \in Items : Sem!InPut(p, item) \/ Sem!SignalFull(p)
    BY <1>1, MessageFacts
  <2>2. p \in Thread
    BY ThreadFacts
  <2>3. CASE Sem!PassEmpty(p) \/ Sem!SignalFull(p) \/ Sem!PassMutex(p) \/ Sem!Leave(p)
    <3>1. SemQueue' = SemQueue
      BY <2>2, <2>3, SemaphoreStepsLeaveRing
    <3> QED
      BY <2>3, <3>1 DEF SemQueueSteps, Sem!PassEmpty, Sem!SignalFull, Sem!PassMutex, Sem!Leave
  <2>4. CASE Sem!WaitEmpty(p) \/ Sem!WaitMutex(p)
    <3>1. SemQueue' = SemQueue
      BY <2>2, <2>4, WaitsLeaveRing
    <3> QED
      BY <2>4, <3>1 DEF SemQueueSteps, Sem!WaitEmpty, Sem!WaitMutex
  <2>5. CASE Sem!Deposit(p, item)
    BY <2>5, DepositRing DEF SemQueueSteps, Sem!Deposit
  <2>6. CASE Sem!AdvanceIn(p)
    BY <2>6, AdvanceInRing DEF SemQueueSteps, Sem!AdvanceIn
  <2> QED
    BY <2>1, <2>3, <2>4, <2>5, <2>6 DEF Sem!InPut
<1>2. CASE Sem!InGet(Consumer) \/ Sem!SignalEmpty(Consumer)
  <2>1. Consumer \in Thread /\ Consumer \in Consumers
    BY ThreadFacts
  <2>2. CASE \/ Sem!PassFull(Consumer) \/ Sem!SignalEmpty(Consumer)
             \/ Sem!PassMutex(Consumer) \/ Sem!Leave(Consumer)
    <3>1. SemQueue' = SemQueue
      BY <2>1, <2>2, SemaphoreStepsLeaveRing
    <3> QED
      BY <2>2, <3>1 DEF SemQueueSteps, Sem!PassFull, Sem!SignalEmpty, Sem!PassMutex, Sem!Leave
  <2>3. CASE Sem!WaitFull(Consumer) \/ Sem!WaitMutex(Consumer)
    <3>1. SemQueue' = SemQueue
      BY <2>1, <2>3, WaitsLeaveRing
    <3> QED
      BY <2>3, <3>1 DEF SemQueueSteps, Sem!WaitFull, Sem!WaitMutex
  <2>4. CASE Sem!Fetch(Consumer)
    BY <2>1, <2>4, FetchRing DEF SemQueueSteps
  <2>5. CASE Sem!AdvanceOut(Consumer)
    BY <2>5, AdvanceOutRing DEF SemQueueSteps, Sem!AdvanceOut
  <2>6. CASE Sem!Clear(Consumer)
    BY <2>6, ClearRing DEF SemQueueSteps, Sem!Clear
  <2> QED
    BY <1>2, <2>2, <2>3, <2>4, <2>5, <2>6 DEF Sem!InGet
<1> QED
  BY <1>1, <1>2

(* Every step of the program is one at the buffer, or none of its business. *)
LEMMA BufferSteps ==
  ASSUME UserInv, [UserNext]_vars
  PROVE  /\ UNCHANGED choice
         /\ \/ UNCHANGED objectVars
            \/ MonOnly /\ Next
            \/ /\ SemOnly
               /\ \/ \E p \in Producers, item \in Items : Sem!InPut(p, item)
                  \/ \E p \in Producers : Sem!SignalFull(p)
                  \/ Sem!InGet(Consumer) \/ Sem!SignalEmpty(Consumer)
<1>1. UNCHANGED choice
  BY DEF UserNext, vars
<1>2. CASE UNCHANGED vars
  BY <1>1, <1>2 DEF vars
<1>3. ASSUME NEW p \in Producers, NEW item \in Items, InPut(p, item) \/ PutReturns(p, item)
      PROVE  \/ MonOnly /\ Next
             \/ SemOnly /\ (Sem!InPut(p, item) \/ Sem!SignalFull(p))
  BY <1>3 DEF InPut, PutReturns, Next, ProducerStep
<1>4. ASSUME NEW p \in Producers, RunProducer(p)
      PROVE  \/ UNCHANGED objectVars
             \/ \E item \in Items : InPut(p, item) \/ PutReturns(p, item)
  BY <1>4, ItemsToPut DEF RunProducer, CheckRunning, PutMessage, PutStop, Putting
<1>5. CASE RunConsumer
  <2>1. InGet(Consumer) \/ GetReturns(Consumer)
    BY <1>5 DEF RunConsumer, Take, Taking
  <2> QED
    BY <1>1, <2>1, ThreadFacts DEF InGet, GetReturns, Next, ConsumerStep
<1>6. CASE MainStep
  BY <1>1, <1>6 DEF MainStep, Start, Join, StopProducer
<1>7. CASE \E p \in Producers : RunProducer(p)
  BY <1>1, <1>3, <1>4, <1>7
<1> QED
  BY <1>2, <1>5, <1>6, <1>7 DEF UserNext

LEMMA SemFifoStep == UserInv /\ [UserNext]_vars => [SemFifo!Next]_(SemFifo!vars)
<1> SUFFICES ASSUME UserInv, [UserNext]_vars PROVE [SemFifo!Next]_(SemFifo!vars)
  OBVIOUS
<1>1. BufferOK /\ BufferOK' /\ UNCHANGED choice
  BY UserNextKeeps, BufferSteps DEF UserInv
<1>2. CASE UNCHANGED objectVars
  <2>1. Sem!Contents' = Sem!Contents /\ UNCHANGED taken
    BY <1>2 DEF objectVars, bufferVars, semVars, Sem!Contents, Sem!First, Sem!Ring, Sem!Filled,
                 Sem!At
  <2> QED
    BY <1>1, <2>1 DEF SemFifo!vars
<1>3. CASE MonOnly /\ Next
  BY <1>1, <1>3 DEF MonOnly, semVars, SemFifo!vars
<1>4. CASE choice = "sem" /\ SemQueueSteps
  <2>1. Sem!Contents = SemQueue /\ Sem!Contents' = SemQueue' /\ choice' = "sem"
    BY <1>1, <1>4, QueueNow, QueueAfter
  <2> QED
    BY <1>4, <2>1 DEF SemQueueSteps, SemFifo!vars, SemFifo!Next, SemFifo!Put, SemFifo!Get
<1> QED
  BY <1>1, <1>2, <1>3, <1>4, BufferSteps, SemCallSteps DEF BufferOK, SemOnly

LEMMA MonFifoStep == UserInv /\ [UserNext]_vars => [Fifo!Next]_(Fifo!vars)
<1> SUFFICES ASSUME UserInv, [UserNext]_vars PROVE [Fifo!Next]_(Fifo!vars)
  OBVIOUS
<1>1. BufferOK /\ BufferOK' /\ UNCHANGED choice
  BY UserNextKeeps, BufferSteps DEF UserInv
<1>2. CASE choice = "mon"
  <2>1. [Next]_bufferVars /\ Inv
    BY <1>1, <1>2, BufferSteps DEF BufferOK, objectVars, SemOnly
  <2> QED
    BY <2>1, MonitorStep
<1>3. CASE choice = "sem"
  <2>1. used = 0 /\ used' = 0 /\ UNCHANGED got
    BY <1>1, <1>3 DEF BufferOK, MonIdle
  <2>2. Contents = <<>> /\ Contents' = <<>>
    BY <2>1 DEF Contents
  <2> QED
    BY <2>1, <2>2 DEF Fifo!vars
<1> QED
  BY <1>1, <1>2, <1>3 DEF BufferOK

(* Whichever buffer main makes, the program finds the queue it relies on.  *)
THEOREM ProgramRefinement == UserSpec => ImplementsFifo /\ SemImplementsFifo
<1>1. UserInit => Fifo!Init
  BY MonitorInit DEF UserInit
<1>2. UserInit => SemFifo!Init
  <2> SUFFICES ASSUME UserInit PROVE SemFifo!Init
    OBVIOUS
  <2>1. BufferOK /\ taken = [c \in Consumers |-> <<>>]
    BY InitBuffer DEF UserInit, Sem!Init
  <2>2. choice = "sem" => SemQueue = <<>> /\ Sem!Contents = SemQueue
    BY <2>1, LineAtFirst, QueueNow
  <2> QED
    BY <2>1, <2>2 DEF SemFifo!Init
<1> QED
  BY <1>1, <1>2, InitUser, UserNextKeeps, MonFifoStep, SemFifoStep, PTL
     DEF UserSpec, ImplementsFifo, SemImplementsFifo, Fifo!Spec, SemFifo!Spec
=============================================================================
