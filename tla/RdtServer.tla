----------------------------- MODULE RdtServer -----------------------------
(***************************************************************************)
(* main of rdt_receiver.py: one transfer after another, each from a        *)
(* stop-and-wait sender of its own that may be killed at any moment.       *)
(*                                                                         *)
(* A new sender is a new process with a new port.  Answers to datagrams of *)
(* an earlier one go to a port nobody reads.  Of what the earlier one sent *)
(* a first part may still be in the receiver's socket; what its channel    *)
(* held back dies with it.                                                 *)
(***************************************************************************)
EXTENDS StopAndWait

CONSTANT Senders  \* bound: senders that run

ASSUME ServerAssumption == Senders \in Nat \ {0}

VARIABLES
  stale,        \* datagrams of earlier senders the receiver has yet to read
  sender,       \* the sender that runs, or ran last
  credited,     \* history: packets of this sender the application was handed
  finSeen,      \* history: a FIN of this sender was read
  interrupted   \* history: the sender before left without its FIN being read

historyVars == <<credited, finSeen, interrupted>>
serverVars == <<vars, stale, sender, historyVars>>

ServerInit ==
  /\ Init
  /\ stale = <<>>
  /\ sender = 1
  /\ credited = 0 /\ finSeen = FALSE /\ interrupted = FALSE

(* The sender's step, and the receiver's once nothing stale is before it. *)
TransferStep ==
  /\ \/ SenderNext
     \/ stale = <<>> /\ ReceiverStep
     \/ LingerEnd(LingerQuiet) /\ UNCHANGED <<senderVars, seq>>
  /\ credited' = credited + (delivered' - delivered)
  /\ finSeen' = (finSeen \/ ServeFin \/ LingerFin)
  /\ UNCHANGED <<stale, sender, interrupted>>

(***************************************************************************)
(* run_once reads a datagram of an earlier sender as it reads any other.   *)
(***************************************************************************)
ServeStale ==
  /\ stale # <<>>
  /\ rpc # "returned"
  /\ stale' = Tail(stale)
  /\ LET taken == rpc = "serving" /\ Head(stale) = Packet("DATA", expected)
         ends == rpc = "serving" /\ Head(stale).kind = "FIN"
     IN /\ expected' = IF taken THEN expected + 1 ELSE expected
        /\ delivered' = IF taken THEN delivered + 1 ELSE delivered
        /\ announced' = IF ends THEN Head(stale).number ELSE announced
        /\ rpc' = IF ends THEN "lingering" ELSE rpc
  /\ UNCHANGED <<buffer, maxBuffered, ticks>>
  /\ UNCHANGED <<channelVars, senderVars, seq, sender, historyVars>>

(* Mutant: the counters of the transfer before stay. *)
NextRunUnreset ==
  /\ rpc = "returned"
  /\ rpc' = "serving"
  /\ delivered' = 0 /\ announced' = 0 /\ ticks' = 0
  /\ UNCHANGED <<expected, buffer, maxBuffered>>
  /\ UNCHANGED <<channelVars, senderVars, seq, stale, sender, historyVars>>

(* main's loop: run_once again, which begins with _reset. *)
NextRun ==
  /\ rpc = "returned"
  /\ rpc' = "serving"
  /\ expected' = 0 /\ delivered' = 0
  /\ buffer' = {} /\ maxBuffered' = 0
  /\ announced' = 0 /\ ticks' = 0
  /\ UNCHANGED <<channelVars, senderVars, seq, stale, sender, historyVars>>

(* The sender is killed. *)
Abort ==
  /\ ~SenderOver
  /\ pc' = "failed"
  /\ UNCHANGED <<channelVars, receiverVars, stalls, resent, tries, seq>>
  /\ UNCHANGED <<stale, sender, historyVars>>

NewSender ==
  /\ SenderOver
  /\ sender < Senders
  /\ sender' = sender + 1
  /\ pc' = IF Count = 0 THEN "fin" ELSE "window"
  /\ stalls' = 0 /\ resent' = 0 /\ tries' = 0 /\ seq' = 0
  /\ \E k \in 0..Len(toReceiver) : stale' = stale \o SubSeq(toReceiver, 1, k)
  /\ toReceiver' = <<>> /\ toSender' = <<>>
  /\ credited' = 0 /\ finSeen' = FALSE /\ interrupted' = ~finSeen
  /\ UNCHANGED lost
  /\ UNCHANGED receiverVars

ServerNext == TransferStep \/ ServeStale \/ NextRun \/ Abort \/ NewSender

ServerSpec == ServerInit /\ [][ServerNext]_serverVars
-----------------------------------------------------------------------------
(***************************************************************************)
(* A sender that reports success has had all its packets handed to the     *)
(* application, each once, unless the sender before it left in the middle. *)
(***************************************************************************)
SuccessIsTrue == pc = "done" /\ ~interrupted => credited = Count

(***************************************************************************)
(* rdt_receiver.py "serves one transfer after another": success means that *)
(* the packets arrived, whatever became of the sender before.              *)
(***************************************************************************)
EveryTransferServed == pc = "done" => credited = Count

(***************************************************************************)
(* The ends are never more than one packet apart, so that no delayed       *)
(* acknowledgement can be taken for that of a later packet.                *)
(***************************************************************************)
NeverTwoAhead ==
  ~interrupted /\ pc \in {"window", "await"} =>
    /\ credited \in {seq, seq + 1}
    /\ \A i \in DOMAIN toSender : toSender[i].number <= seq + 1

(***************************************************************************)
(* What main prints after a run: as many packets delivered as announced,   *)
(* or none, when the run was begun by a FIN that was repeated after the    *)
(* linger.                                                                 *)
(***************************************************************************)
ReportsWholeRuns ==
  rpc # "serving" => announced = Count /\ delivered \in {0, Count}
=============================================================================
