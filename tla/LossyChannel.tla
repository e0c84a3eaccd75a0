---------------------------- MODULE LossyChannel ----------------------------
(***************************************************************************)
(* The class LossyChannel of rdt_common.py from the inside: sendto puts    *)
(* delayed datagrams into a heap, and one pump thread releases each when   *)
(* it is due.  RdtCommon knows the channel only from the outside, as a     *)
(* sequence it may drop from or deliver from; ImplementsLink shows that    *)
(* this is what the class provides.                                        *)
(*                                                                         *)
(* A datagram is the number of the sendto that took it.  Time is counted   *)
(* in units of the delay.                                                  *)
(***************************************************************************)
EXTENDS Naturals, SequencesExt

CONSTANTS
  Delays,   \* the delays a channel may be created with
  Jitters,  \* the jitters it may be created with
  Horizon,  \* bound: the last moment of the clock
  Sends     \* bound: calls of sendto

ASSUME ChannelAssumption ==
  /\ Delays \subseteq Nat
  /\ Jitters \subseteq Nat
  /\ Horizon \in Nat
  /\ Sends \in Nat

VARIABLES
  delay, jitter,  \* the constructor's parameters, loss aside
  now,            \* time.monotonic()
  calls,          \* calls of sendto so far; numbers the datagrams
  queue,          \* the heap: records of when a datagram is due and which it is
  dropped,        \* how many were lost
  pump,           \* the pump: "check", "waiting", "sleeping" or "sending"
  wakeAt,         \* when the sleep of the pump ends
  hand,           \* the datagram the pump has taken off the heap
  wire,           \* what the socket was given and recvfrom has not returned
  received        \* history: how many recvfrom has returned

pumpVars == <<pump, wakeAt, hand>>
lossyVars == <<delay, jitter, now, calls, queue, dropped, pumpVars, wire, received>>

LossyInit ==
  /\ delay \in Delays /\ jitter \in Jitters
  /\ now = 0
  /\ calls = 0
  /\ queue = {}
  /\ dropped = 0
  /\ pump = "check" /\ wakeAt = 0 /\ hand = 0
  /\ wire = <<>>
  /\ received = 0

(* Mutant: the pump is notified only of the first datagram in the heap. *)
NotifiedIfEmpty ==
  IF pump \in {"waiting", "sleeping"} /\ queue = {} THEN "check" ELSE pump

(* Mutant: the pump is not notified. *)
NotNotified == pump

(* notify: the pump, if it waits, goes for the lock and looks again. *)
Notified == IF pump \in {"waiting", "sleeping"} THEN "check" ELSE pump

(***************************************************************************)
(* sendto, under the lock: lost, or sent at once if there is no delay, or  *)
(* put into the heap.  The bound on now lets whatever is sent arrive.      *)
(***************************************************************************)
SendTo ==
  /\ calls < Sends
  /\ now + delay + jitter < Horizon
  /\ calls' = calls + 1
  /\ \/ /\ dropped' = dropped + 1
        /\ UNCHANGED <<queue, pump, wire>>
     \/ \E wait \in delay..(delay + jitter) :
          /\ UNCHANGED dropped
          /\ IF wait = 0
             THEN /\ wire' = Append(wire, calls')
                  /\ UNCHANGED <<queue, pump>>
             ELSE /\ queue' = queue \cup {[due |-> now + wait, id |-> calls']}
                  /\ pump' = Notified
                  /\ UNCHANGED wire
  /\ UNCHANGED <<delay, jitter, now, wakeAt, hand, received>>

(* Mutant: without the tie-breaker. *)
FirstByDue(d) == d \in queue /\ \A e \in queue : d.due <= e.due

(* The head of the heap: the earliest, and of those due together the oldest. *)
First(d) ==
  /\ d \in queue
  /\ \A e \in queue : d.due < e.due \/ (d.due = e.due /\ d.id <= e.id)

(***************************************************************************)
(* _pump with the lock held: wait for a datagram, sleep until the head is  *)
(* due, or take it off the heap.                                           *)
(***************************************************************************)
PumpWaits ==
  /\ pump = "check"
  /\ queue = {}
  /\ pump' = "waiting"
  /\ UNCHANGED <<delay, jitter, now, calls, queue, dropped, wakeAt, hand, wire, received>>

PumpSleeps ==
  /\ pump = "check"
  /\ \E d \in queue : First(d) /\ d.due > now /\ wakeAt' = d.due
  /\ pump' = "sleeping"
  /\ UNCHANGED <<delay, jitter, now, calls, queue, dropped, hand, wire, received>>

PumpTakes ==
  /\ pump = "check"
  /\ \E d \in queue :
       /\ First(d)
       /\ d.due <= now
       /\ hand' = d.id
       /\ queue' = queue \ {d}
  /\ pump' = "sending"
  /\ UNCHANGED <<delay, jitter, now, calls, dropped, wakeAt, wire, received>>

(* The wait of PumpSleeps times out. *)
PumpWakes ==
  /\ pump = "sleeping"
  /\ now >= wakeAt
  /\ pump' = "check"
  /\ UNCHANGED <<delay, jitter, now, calls, queue, dropped, wakeAt, hand, wire, received>>

(***************************************************************************)
(* The send itself, after the lock is released.  The OSError it ignores is *)
(* of a socket already closed, and sockets are closed only after the       *)
(* transfer is over.                                                       *)
(***************************************************************************)
PumpSends ==
  /\ pump = "sending"
  /\ wire' = Append(wire, hand)
  /\ hand' = 0
  /\ pump' = "check"
  /\ UNCHANGED <<delay, jitter, now, calls, queue, dropped, wakeAt, received>>

(* recvfrom of the other end; the loopback below neither loses nor reorders. *)
RecvFrom ==
  /\ wire # <<>>
  /\ wire' = Tail(wire)
  /\ received' = received + 1
  /\ UNCHANGED <<delay, jitter, now, calls, queue, dropped, pumpVars>>

Tick ==
  /\ now < Horizon
  /\ now' = now + 1
  /\ UNCHANGED <<delay, jitter, calls, queue, dropped, pumpVars, wire, received>>

PumpNext == PumpWaits \/ PumpSleeps \/ PumpTakes \/ PumpWakes \/ PumpSends

LossyNext == SendTo \/ PumpNext \/ RecvFrom \/ Tick

(* The clock, the pump thread and the reader run on; a sender need not. *)
LossyFairness ==
  WF_lossyVars(PumpNext) /\ WF_lossyVars(RecvFrom) /\ WF_lossyVars(Tick)

LossySpec == LossyInit /\ [][LossyNext]_lossyVars /\ LossyFairness
-----------------------------------------------------------------------------
(***************************************************************************)
(* The pump never sleeps past a datagram: it waits only for an empty heap, *)
(* and sleeps no longer than until the earliest is due, also when that one *)
(* came after it fell asleep.                                              *)
(***************************************************************************)
NeverOverslept ==
  /\ pump = "waiting" => queue = {}
  /\ pump = "sleeping" => \A d \in queue : wakeAt <= d.due

(* What is in the heap, in the pump's hand or in the socket. *)
Between ==
  {d.id : d \in queue} \cup ToSet(wire)
    \cup (IF pump = "sending" THEN {hand} ELSE {})

(* The members of a set of numbers, from the least to the greatest. *)
Ascending(S) ==
  [k \in 1..Cardinality(S) |->
     CHOOSE n \in S : Cardinality({m \in S : m <= n}) = k]

(* What is between the two ends, in the order it was sent. *)
OnItsWay == Ascending(Between)

Steady == INSTANCE RdtCommon WITH
  Count <- Sends, MaxRetries <- 1, Prompt <- FALSE,
  Jitter <- FALSE, MaxLoss <- Sends, Capacity <- Sends + 1,
  toReceiver <- OnItsWay, toSender <- <<>>, lost <- dropped

Jittery == INSTANCE RdtCommon WITH
  Count <- Sends, MaxRetries <- 1, Prompt <- FALSE,
  Jitter <- TRUE, MaxLoss <- Sends, Capacity <- Sends + 1,
  toReceiver <- OnItsWay, toSender <- <<>>, lost <- dropped

LinkNext ==
  \/ /\ Steady!Transmit(OnItsWay, calls + 1)
     /\ UNCHANGED received
  \/ /\ \E i \in IF jitter = 0 THEN Steady!Deliverable(OnItsWay)
                             ELSE Jittery!Deliverable(OnItsWay) :
          OnItsWay' = RemoveAt(OnItsWay, i)
     /\ received' = received + 1
     /\ UNCHANGED dropped

(***************************************************************************)
(* Seen from outside the class is the channel of RdtCommon: each datagram  *)
(* is lost, or returned by recvfrom exactly once, and in the order sent    *)
(* unless there is jitter.  None vanishes in the pump and none comes twice *)
(* out of it: every return takes one off the way, and nothing else does.   *)
(***************************************************************************)
ImplementsLink == [][LinkNext]_<<OnItsWay, dropped, received>>

(***************************************************************************)
(* Whatever was not dropped arrives: once the sends are over, nothing is   *)
(* left in the heap, in the pump's hand or in the socket.                  *)
(***************************************************************************)
EverythingArrives == OnItsWay # <<>> ~> OnItsWay = <<>>
=============================================================================
