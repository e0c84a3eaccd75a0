----------------------------- MODULE RdtDilemma -----------------------------
(***************************************************************************)
(* rdt_dilemma.py: selective repeat with sequence numbers modulo Modulus,  *)
(* which is correct only while a window is no wider than half of them.     *)
(*                                                                         *)
(* A packet is its absolute number; only number % Modulus travels.  The    *)
(* code loses one scripted burst, the acknowledgements of round one.  To   *)
(* show that the rule covers any loss, loss = "any" drops whichever packet *)
(* and acknowledgement it likes, with the same sender and receiver.        *)
(***************************************************************************)
EXTENDS Naturals, SequencesExt

CONSTANTS
  Modulus,     \* MODULUS
  Count,       \* COUNT
  RoundLimit,  \* ROUND_LIMIT
  Widths       \* the window widths tried, one of them in each behaviour

ASSUME DilemmaAssumption ==
  /\ Modulus \in Nat \ {0}
  /\ Count \in Nat
  /\ RoundLimit \in Nat
  /\ Widths \subseteq Nat

VARIABLES
  loss,       \* "scripted", as in the code, or "any"
  width,      \* W, the command-line argument
  base,       \* Sender.base
  next,       \* Sender.next
  acked,      \* Sender.acked
  expected,   \* Receiver.expected, modulo Modulus
  buffer,     \* the packets Receiver.buffer holds, at most one per sequence number
  delivered,  \* Receiver.delivered
  rounds,     \* rounds begun
  outgoing,   \* packets of this round that have yet to arrive
  acks,       \* sequence numbers of this round's answers
  pc          \* where simulate() is: "round", "receive", "answer" or "over"

senderVars == <<base, next, acked>>
receiverVars == <<expected, buffer, delivered>>
vars == <<loss, width, senderVars, receiverVars, rounds, outgoing, acks, pc>>

Init ==
  /\ loss \in {"scripted", "any"}
  /\ width \in Widths
  /\ base = 0 /\ next = 0 /\ acked = {}
  /\ expected = 0 /\ buffer = {} /\ delivered = <<>>
  /\ rounds = 0
  /\ outgoing = <<>> /\ acks = <<>>
  /\ pc = "round"

SeqNo(number) == number % Modulus

(* Mutant: the window is asked for one number too many. *)
InWindowOneMore(seq) == (seq + Modulus - expected) % Modulus <= width

(* Mutant: the window is not asked for modulo Modulus. *)
InWindowFlat(seq) == expected <= seq /\ seq < expected + width

(* in_window for the receiver: the distance forward from expected. *)
InWindow(seq) == (seq + Modulus - expected) % Modulus < width

(* How many sequence numbers from expected on are held by a buffer. *)
RunLength(held) ==
  CHOOSE k \in 0..Modulus :
    /\ \A i \in 0..(k - 1) : \E n \in held : SeqNo(n) = SeqNo(expected + i)
    /\ \A n \in held : k < Modulus => SeqNo(n) # SeqNo(expected + k)

(***************************************************************************)
(* Receiver.receive: a packet within the window replaces what its sequence *)
(* number held, and the run from expected on is handed over.  Any other is *)
(* taken for a duplicate.  Both are acknowledged.                          *)
(***************************************************************************)
Receive(number) ==
  LET held == {n \in buffer : SeqNo(n) # SeqNo(number)} \cup {number}
      run == RunLength(held)
      handed == [i \in 1..run |->
                   CHOOSE n \in held : SeqNo(n) = SeqNo(expected + i - 1)]
  IN /\ acks' = Append(acks, SeqNo(number))
     /\ IF InWindow(SeqNo(number))
        THEN /\ delivered' = delivered \o handed
             /\ buffer' = held \ ToSet(handed)
             /\ expected' = SeqNo(expected + run)
        ELSE UNCHANGED receiverVars

Unacked == {number \in base..(next - 1) : number \notin acked}

(* Mutant: an acknowledgement covers everything below it too. *)
TakeAckCumulative(seq) ==
  LET named == {n \in base..(next - 1) : SeqNo(n) = seq} IN
  /\ acked' = acked \cup UNION {base..n : n \in named}
  /\ base' = Min({n \in base..next : n \notin acked'})
  /\ UNCHANGED next

(***************************************************************************)
(* Sender.ack: the first packet of the window with that sequence number.   *)
(***************************************************************************)
TakeAck(seq) ==
  LET named == {n \in base..(next - 1) : SeqNo(n) = seq}
      known == IF named = {} THEN acked ELSE acked \cup {Min(named)}
  IN /\ acked' = known
     /\ base' = Min({n \in base..next : n \notin known})
     /\ UNCHANGED next

Running == Len(delivered) < Count /\ rounds < RoundLimit

(***************************************************************************)
(* A round puts out what Sender.ready finds, or else retransmits           *)
(* Sender.oldest_unacked; with neither the simulation breaks off.          *)
(***************************************************************************)
StartRound ==
  LET limit == Min({base + width, Count}) IN
  /\ pc = "round"
  /\ Running
  /\ rounds' = rounds + 1
  /\ next' = IF next < limit THEN limit ELSE next
  /\ \/ /\ next < limit
        /\ outgoing' = [i \in 1..(limit - next) |-> next + i - 1]
        /\ pc' = "receive"
     \/ /\ next >= limit
        /\ Unacked # {}
        /\ outgoing' = <<Min(Unacked)>>
        /\ pc' = "receive"
     \/ /\ next >= limit
        /\ Unacked = {}
        /\ pc' = "over"
        /\ UNCHANGED outgoing
  /\ UNCHANGED <<loss, width, base, acked, acks, receiverVars>>

Arrive ==
  /\ pc = "receive"
  /\ outgoing # <<>>
  /\ \/ Receive(Head(outgoing))
     \/ loss = "any" /\ UNCHANGED <<receiverVars, acks>>
  /\ outgoing' = Tail(outgoing)
  /\ pc' = IF outgoing' = <<>> THEN "answer" ELSE "receive"
  /\ UNCHANGED <<loss, width, senderVars, rounds>>

(* lose_acks holds during round one of the script. *)
Answer ==
  /\ pc = "answer"
  /\ acks # <<>>
  /\ \/ /\ loss = "any" \/ rounds > 1
        /\ TakeAck(Head(acks))
     \/ /\ loss = "any" \/ rounds = 1
        /\ UNCHANGED senderVars
  /\ acks' = Tail(acks)
  /\ UNCHANGED <<loss, width, receiverVars, rounds, outgoing, pc>>

EndRound ==
  /\ pc = "answer"
  /\ acks = <<>>
  /\ pc' = "round"
  /\ UNCHANGED <<loss, width, senderVars, receiverVars, rounds, outgoing, acks>>

EndSimulation ==
  /\ pc = "round"
  /\ ~Running
  /\ pc' = "over"
  /\ UNCHANGED <<loss, width, senderVars, receiverVars, rounds, outgoing, acks>>

Next == StartRound \/ Arrive \/ Answer \/ EndRound \/ EndSimulation

Spec == Init /\ [][Next]_vars
-----------------------------------------------------------------------------
(* report() compares this with the packets in order. *)
InOrder == \A i \in DOMAIN delivered : delivered[i] = i - 1

Correct == InOrder /\ Len(delivered) = Count

(***************************************************************************)
(* The rule W <= N/2: with a window of at most half the sequence numbers   *)
(* nothing is ever delivered twice or out of order, whichever packets and  *)
(* acknowledgements are lost.                                              *)
(***************************************************************************)
HalfIsSafe == 2 * width <= Modulus => InOrder

(***************************************************************************)
(* The scripted loss tells the widths apart exactly: the transfer comes    *)
(* out whole if the rule is kept, and broken if not, as main() expects of  *)
(* the two widths it runs.  A window that takes the whole transfer at once *)
(* has nothing to retransmit.                                              *)
(***************************************************************************)
ScriptTellsWidths ==
  pc = "over" /\ loss = "scripted" /\ width < Count
    => (Correct <=> 2 * width <= Modulus)

(***************************************************************************)
(* What report() says of the first wrong packet is so: it is an older one  *)
(* that has the sequence number of the one missing.                        *)
(***************************************************************************)
FailureExplained ==
  \A i \in DOMAIN delivered :
    (\A j \in 1..(i - 1) : delivered[j] = j - 1) /\ delivered[i] # i - 1
      => delivered[i] < i - 1 /\ SeqNo(delivered[i]) = SeqNo(i - 1)
=============================================================================
