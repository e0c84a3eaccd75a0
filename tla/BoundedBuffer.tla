--------------------------- MODULE BoundedBuffer ---------------------------
(***************************************************************************)
(* What put() and get() of chapter 2 promise, whichever class implements   *)
(* them: a queue of at most Size items, first in first out, in which no    *)
(* item is lost, invented or taken twice.                                  *)
(***************************************************************************)
EXTENDS Naturals, Sequences

CONSTANTS Size, Items, Consumers

VARIABLES
  queue,  \* items deposited and not yet taken, the oldest first
  got     \* the item each consumer took last

vars == <<queue, got>>

Init == queue = <<>> /\ got \in [Consumers -> {<<>>}]

Put(item) ==
  /\ Len(queue) < Size
  /\ queue' = Append(queue, item)
  /\ UNCHANGED got

Get(c) ==
  /\ queue # <<>>
  /\ got' = [got EXCEPT ![c] = <<Head(queue)>>]
  /\ queue' = Tail(queue)

Next ==
  \/ \E item \in Items : Put(item)
  \/ \E c \in Consumers : Get(c)

Spec == Init /\ [][Next]_vars
=============================================================================
