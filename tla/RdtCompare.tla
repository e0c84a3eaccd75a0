----------------------------- MODULE RdtCompare -----------------------------
(***************************************************************************)
(* run of rdt_compare.py: one transfer over two fresh channels, then the   *)
(* join of the receiver's thread and main's assertion.  Besides the PAIRS  *)
(* of rdt_compare.py it takes every pairing of a sender with a receiver    *)
(* that the command lines of rdt_sender.py and rdt_receiver.py allow, and  *)
(* channels with and without jitter.                                       *)
(***************************************************************************)
EXTENDS Naturals, FiniteSets, Sequences

CONSTANTS Count, MaxRetries, Prompt, MaxLoss, Capacity, LingerRtos, Window

VARIABLES
  protocol,  \* which sender: a key of PROTOCOLS
  mode,      \* which receiver: a key of RECEIVERS
  jitter,    \* whether datagrams overtake each other
  verdict,   \* of main: "running", "reliable", "unreliable" or "raised"
  toReceiver, toSender, lost,
  rpc, expected, delivered, buffer, maxBuffered, announced, ticks,
  pc, stalls, resent, tries,
  base, nextseq, cursor, acked, order

setup == <<protocol, mode, jitter>>
vars == <<setup, verdict, toReceiver, toSender, lost,
          rpc, expected, delivered, buffer, maxBuffered, announced, ticks,
          pc, stalls, resent, tries, base, nextseq, cursor, acked, order>>

SW(Mode, Jitter) == INSTANCE StopAndWait WITH seq <- base
GBN(Mode, Jitter) == INSTANCE GoBackN
SR(Mode, Jitter) == INSTANCE SelectiveRepeat

Protocols == {"sw", "gbn", "sr"}
Modes == {"gbn", "sr"}

(***************************************************************************)
(* "Each sender needs the receiver that speaks its dialect": PAIRS.        *)
(***************************************************************************)
Paired == (protocol = "sr") <=> (mode = "sr")

Init ==
  /\ protocol \in Protocols
  /\ mode \in Modes
  /\ jitter \in BOOLEAN
  /\ verdict = "running"
  /\ SR("sr", TRUE)!Init
  /\ cursor = 0

(* What the chosen sender does not have stays as it is. *)
SenderNext ==
  /\ \E m \in Modes, j \in BOOLEAN :
       /\ mode = m /\ jitter = j
       /\ \/ protocol = "sw" /\ SW(m, j)!SenderNext
             /\ UNCHANGED <<nextseq, cursor, acked, order>>
          \/ protocol = "gbn" /\ GBN(m, j)!SenderNext
             /\ UNCHANGED <<acked, order>>
          \/ protocol = "sr" /\ SR(m, j)!SenderNext
             /\ UNCHANGED cursor
  /\ UNCHANGED <<setup, verdict>>

ReceiverNext ==
  /\ \E m \in Modes, j \in BOOLEAN :
       mode = m /\ jitter = j /\ SR(m, j)!ReceiverStep
  /\ UNCHANGED <<setup, verdict, cursor>>

(***************************************************************************)
(* The sender's exception passes through the finally clause; otherwise     *)
(* the join waits for the receiver, 15 seconds at most, and main looks at  *)
(* what was delivered.  A receiver that lingers outlasts no such timeout.  *)
(***************************************************************************)
Join ==
  /\ verdict = "running"
  /\ pc \in {"done", "failed"}
  /\ rpc # "lingering"
  /\ verdict' = IF pc = "failed" THEN "raised"
                ELSE IF delivered = Count THEN "reliable" ELSE "unreliable"
  /\ UNCHANGED <<setup, toReceiver, toSender, lost,
                 rpc, expected, delivered, buffer, maxBuffered, announced, ticks,
                 pc, stalls, resent, tries, base, nextseq, cursor, acked, order>>

Next == SenderNext \/ ReceiverNext \/ Join

(* Each thread runs on when it can. *)
Fairness == WF_vars(SenderNext) /\ WF_vars(ReceiverNext) /\ WF_vars(Join)

Spec == Init /\ [][Next]_vars /\ Fairness
-----------------------------------------------------------------------------

(***************************************************************************)
(* The assertion of rdt_compare.py holds, and is reached: with no more     *)
(* losses than the retries and the linger outlast, every transfer of a     *)
(* sender with the receiver of its dialect ends at both ends, whichever    *)
(* data packet, acknowledgement, FIN or FINACK is lost or overtaken.       *)
(***************************************************************************)
EveryPairReliable == Paired => <>(verdict = "reliable")

(***************************************************************************)
(* "Pair them wrongly and the transfer stalls" (README.md of the chapter): *)
(* the sender gives up on the very first packet, although every packet     *)
(* may have arrived.                                                       *)
(***************************************************************************)
MispairedStalls == ~Paired => <>(verdict = "raised" /\ base = 0)

(***************************************************************************)
(* With a timeout longer than the round trip no timeout is a mistake:      *)
(* stop-and-wait and selective repeat resend one packet for each datagram  *)
(* that was dropped, whatever the order of arrival ("100 packets plus one  *)
(* retransmission per loss", README.md of the chapter), go-back-N one      *)
(* window, as long as the channel keeps the order.  Duplicates must count  *)
(* neither as news nor as timeouts (the docstring of _await_ack).          *)
(***************************************************************************)
ResendsPaidByLoss ==
  Paired =>
    CASE protocol = "gbn" -> ~jitter => resent <= Window * lost
      [] OTHER            -> resent <= lost
=============================================================================
