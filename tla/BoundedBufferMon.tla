-------------------------- MODULE BoundedBufferMon --------------------------
(***************************************************************************)
(* bounded_buffer_mon.py: a ring guarded by one lock and one condition     *)
(* variable on which producers and consumers wait together.                *)
(*                                                                         *)
(* A thread holds the lock from the entry of put() or get(), or from its   *)
(* return from wait(), to the next wait() or to the end of the call, so    *)
(* such a critical section is one action: the call goes through, or the    *)
(* thread joins the wait set.  A notified thread has left the wait set and *)
(* tests the condition again when it gets the lock.                        *)
(***************************************************************************)
EXTENDS Integers, Sequences

CONSTANTS
  Size,       \* the capacity
  Items,      \* what producers deposit
  Producers,  \* the threads that call put()
  Consumers,  \* the threads that call get()
  None        \* the empty slot

ASSUME BufferAssumption ==
  /\ Size \in Nat \ {0}
  /\ Producers \cap Consumers = {}
  /\ None \notin Items

VARIABLES
  data,     \* the ring
  in,       \* next empty slot
  out,      \* next filled slot
  used,     \* number of filled slots
  waiting,  \* threads inside _cond.wait() that nobody has notified
  got       \* what get() returned last: <<>> or <<item>>, for each consumer

bufferVars == <<data, in, out, used, waiting, got>>

Slots == 0..(Size - 1)

Init ==
  /\ data = [i \in Slots |-> None]
  /\ in = 0
  /\ out = 0
  /\ used = 0
  /\ waiting = {}
  /\ got = [c \in Consumers |-> <<>>]

(* _cond.wait(): leave the critical section until notified. *)
Wait(thread) ==
  /\ waiting' = waiting \cup {thread}
  /\ UNCHANGED <<data, in, out, used, got>>

PutWaits(p) ==
  /\ p \notin waiting
  /\ used = Size
  /\ Wait(p)

(* Mutants of Put: the test for a full buffer is left out, or nobody is    *)
(* notified.                                                               *)
PutIf(p, item, ready, woken) ==
  /\ p \notin waiting
  /\ ready
  /\ data' = [data EXCEPT ![in] = item]
  /\ in' = (in + 1) % Size
  /\ used' = used + 1
  /\ waiting' = IF used' = 1 THEN waiting \ woken ELSE waiting
  /\ UNCHANGED <<out, got>>

PutOverwrites(p, item) == PutIf(p, item, TRUE, waiting)
PutSilently(p, item) == PutIf(p, item, used # Size, {})

(* notify_all() only on the step from empty to non-empty. *)
Put(p, item) ==
  /\ p \notin waiting
  /\ used # Size
  /\ data' = [data EXCEPT ![in] = item]
  /\ in' = (in + 1) % Size
  /\ used' = used + 1
  /\ waiting' = IF used' = 1 THEN {} ELSE waiting
  /\ UNCHANGED <<out, got>>

GetWaits(c) ==
  /\ c \notin waiting
  /\ used = 0
  /\ Wait(c)

(* Mutant of Get: notify() wakes one thread where notify_all() wakes all.  *)
GetWakesOne(c) ==
  /\ c \notin waiting
  /\ used # 0
  /\ got' = [got EXCEPT ![c] = <<data[out]>>]
  /\ data' = [data EXCEPT ![out] = None]
  /\ out' = (out + 1) % Size
  /\ used' = used - 1
  /\ IF used' # Size - 1 \/ waiting = {} THEN UNCHANGED waiting
     ELSE \E t \in waiting : waiting' = waiting \ {t}
  /\ UNCHANGED in

(* notify_all() only on the step from full to non-full. *)
Get(c) ==
  /\ c \notin waiting
  /\ used # 0
  /\ got' = [got EXCEPT ![c] = <<data[out]>>]
  /\ data' = [data EXCEPT ![out] = None]
  /\ out' = (out + 1) % Size
  /\ used' = used - 1
  /\ waiting' = IF used' = Size - 1 THEN {} ELSE waiting
  /\ UNCHANGED in

(***************************************************************************)
(* Any number of threads that call put() and get() for ever.               *)
(***************************************************************************)
ProducerStep(p) == PutWaits(p) \/ \E item \in Items : Put(p, item)

ConsumerStep(c) == GetWaits(c) \/ Get(c)

Next ==
  \/ \E p \in Producers : ProducerStep(p)
  \/ \E c \in Consumers : ConsumerStep(c)

Spec == Init /\ [][Next]_bufferVars
-----------------------------------------------------------------------------

(* The pointers stay inside the ring, the count between empty and full. *)
TypeOK ==
  /\ data \in [Slots -> Items \cup {None}]
  /\ in \in Slots
  /\ out \in Slots
  /\ used \in 0..Size
  /\ waiting \in SUBSET (Producers \cup Consumers)
  /\ got \in [Consumers -> Seq(Items)]

(***************************************************************************)
(* The distance between the two pointers and the count agree, and exactly  *)
(* the slots between them are filled, however often both have wrapped.     *)
(***************************************************************************)
FilledSlots == {(out + k) % Size : k \in 0..(used - 1)}

RingConsistent ==
  /\ in = (out + used) % Size
  /\ \A i \in Slots : data[i] \in Items <=> i \in FilledSlots

(***************************************************************************)
(* The remark below the class: notifying only on two transitions loses no  *)
(* wake-up, because a thread is left waiting only while the very condition *)
(* it waits for is false.                                                  *)
(***************************************************************************)
NoLostWakeup ==
  /\ \A p \in Producers : p \in waiting => used = Size
  /\ \A c \in Consumers : c \in waiting => used = 0

(***************************************************************************)
(* The ring with its two pointers is a first-in first-out queue.           *)
(***************************************************************************)
Contents == [k \in 1..used |-> data[(out + k - 1) % Size]]

Fifo == INSTANCE BoundedBuffer WITH queue <- Contents

ImplementsFifo == Fifo!Spec
=============================================================================
