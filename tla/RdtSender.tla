----------------------------- MODULE RdtSender -----------------------------
(***************************************************************************)
(* What the three senders of rdt_sender.py share: the retry counters and   *)
(* the closing handshake _finish.  A protocol module adds its window and   *)
(* moves pc from "window" to "fin" when everything is acknowledged.        *)
(***************************************************************************)
EXTENDS RdtReceiver

VARIABLES
  pc,       \* "window", "await", "resend", "fin", "finwait", "done", "failed"
  stalls,   \* timeouts in a row without news
  resent,   \* Result.retransmitted
  tries     \* FINs sent so far

senderVars == <<pc, stalls, resent, tries>>

SenderInit ==
  /\ pc = IF Count = 0 THEN "fin" ELSE "window"
  /\ stalls = 0
  /\ resent = 0
  /\ tries = 0

SenderOver == pc \in {"done", "failed"}

(***************************************************************************)
(* Whether a retransmission timer may expire.  When the timeout is longer  *)
(* than the round trip, it expires only after everything that was on its   *)
(* way has arrived; otherwise it may expire at any moment.                 *)
(***************************************************************************)
TimerExpires ==
  Prompt => /\ toReceiver = <<>> \/ rpc = "returned"
            /\ toSender = <<>>

(* Mutant: the FINs are not counted. *)
FinSendForever ==
  /\ pc = "fin"
  /\ pc' = "finwait"
  /\ Transmit(toReceiver, Packet("FIN", Count))
  /\ UNCHANGED <<toSender, stalls, resent, tries>>
  /\ UNCHANGED receiverVars

(***************************************************************************)
(* _finish: announce the total, wait one RTO for the confirmation, again   *)
(* and again.  Any other datagram ends the wait just as a timeout does.    *)
(***************************************************************************)
FinSend ==
  /\ pc = "fin"
  /\ tries < MaxRetries
  /\ tries' = tries + 1
  /\ pc' = "finwait"
  /\ Transmit(toReceiver, Packet("FIN", Count))
  /\ UNCHANGED <<toSender, stalls, resent>>
  /\ UNCHANGED receiverVars

FinReceive ==
  /\ pc = "finwait"
  /\ \E i \in Deliverable(toSender) :
       /\ toSender' = RemoveAt(toSender, i)
       /\ pc' = IF toSender[i].kind = "FINACK" THEN "done" ELSE "fin"
  /\ UNCHANGED <<toReceiver, lost, stalls, resent, tries>>
  /\ UNCHANGED receiverVars

FinTimeout ==
  /\ pc = "finwait"
  /\ TimerExpires
  /\ pc' = "fin"
  /\ ticks' = IF rpc = "lingering" /\ ticks < LingerRtos THEN ticks + 1 ELSE ticks
  /\ UNCHANGED <<rpc, expected, delivered, buffer, maxBuffered, announced>>
  /\ UNCHANGED <<stalls, resent, tries>>
  /\ UNCHANGED channelVars

FinGiveUp ==
  /\ pc = "fin"
  /\ tries = MaxRetries
  /\ pc' = "failed"
  /\ UNCHANGED <<stalls, resent, tries>>
  /\ UNCHANGED <<channelVars, receiverVars>>

Finish == FinSend \/ FinReceive \/ FinTimeout \/ FinGiveUp

SenderTypeOK ==
  /\ pc \in {"window", "await", "resend", "fin", "finwait", "done", "failed"}
  /\ stalls \in 0..(MaxRetries + 1)
  /\ resent \in Nat
  /\ tries \in 0..MaxRetries

(***************************************************************************)
(* The receiver's half of every composed system.  With a prompt clock the  *)
(* linger ends only when the sender is over, or after it has timed out     *)
(* LingerRtos times and the FINs of those timeouts have been read.         *)
(***************************************************************************)
LingerQuiet ==
  \/ SenderOver
  \/ pc = "finwait" /\ ticks = LingerRtos /\ toReceiver = <<>>

ReceiverNext ==
  /\ \/ ServeData
     \/ ServeFin
     \/ LingerFin
     \/ LingerIgnore
     \/ LingerEnd(LingerQuiet)
  /\ UNCHANGED senderVars

(***************************************************************************)
(* What the sender and the receiver have told the world about the end.     *)
(***************************************************************************)
Outcome == IF SenderOver THEN pc ELSE "running"

Transfer == INSTANCE ReliableTransfer WITH
  ended <- rpc # "serving",
  outcome <- Outcome

(***************************************************************************)
(* The transfer is reliable: it implements ReliableTransfer.  In order, no *)
(* packet twice, none missing when the receiver hears of the end, and      *)
(* success reported only after that.                                       *)
(***************************************************************************)
ImplementsTransfer == Transfer!Spec

(***************************************************************************)
(* Neither end waits for ever, whatever is lost: the sender reports        *)
(* success or gives up, and a receiver that saw the end leaves its linger. *)
(***************************************************************************)
EndsSomehow ==
  /\ <>SenderOver
  /\ rpc = "lingering" ~> rpc = "returned"
=============================================================================
