-------------------------- MODULE SelectiveRepeat --------------------------
(***************************************************************************)
(* selective_repeat of rdt_sender.py against one run of the receiver: up   *)
(* to Window packets in flight, each with its own timer and its own        *)
(* acknowledgement; a timeout repeats the one packet it belongs to.        *)
(***************************************************************************)
EXTENDS RdtSender

CONSTANT Window  \* WINDOW

ASSUME WindowAssumption == Window \in Nat \ {0}

VARIABLES
  base,     \* oldest packet not yet acknowledged
  nextseq,  \* next packet never sent before
  acked,    \* packets acknowledged
  order     \* outstanding packets, the one that went out longest ago first

windowVars == <<base, nextseq, acked, order>>
vars == <<channelVars, receiverVars, senderVars, windowVars>>

Init ==
  /\ ChannelInit
  /\ ReceiverInit
  /\ SenderInit
  /\ base = 0
  /\ nextseq = 0
  /\ acked = {}
  /\ order = <<>>

(* Mutant: the window limits the packets outstanding, not their distance   *)
(* from base.                                                              *)
CanSendOutstanding == Len(order) < Window /\ nextseq < Count

CanSend == nextseq < base + Window /\ nextseq < Count

SendNext ==
  /\ pc = "window"
  /\ CanSend
  /\ nextseq' = nextseq + 1
  /\ order' = Append(order, nextseq)
  /\ Transmit(toReceiver, Packet("DATA", nextseq))
  /\ UNCHANGED <<toSender, base, acked>>
  /\ UNCHANGED <<receiverVars, senderVars>>

(* Mutant: the acknowledgement is taken for a cumulative one. *)
AwaitSackCumulative ==
  /\ pc = "window"
  /\ ~CanSend
  /\ \E i \in Deliverable(toSender) :
       LET number == toSender[i].number IN
       /\ toSender' = RemoveAt(toSender, i)
       /\ IF toSender[i].kind = "SACK" /\ number \notin acked
          THEN /\ acked' = acked \cup 0..number
               /\ order' = SelectSeq(order, LAMBDA s : s > number)
               /\ base' = Min((base..nextseq) \ acked')
               /\ stalls' = 0
               /\ pc' = IF base' < Count THEN "window" ELSE "fin"
          ELSE UNCHANGED <<acked, order, base, stalls, pc>>
  /\ UNCHANGED <<toReceiver, lost, resent, tries, nextseq>>
  /\ UNCHANGED receiverVars

(***************************************************************************)
(* _await_sack: a first acknowledgement of a packet counts, and base       *)
(* slides past everything now complete; any other datagram is forgotten.   *)
(* The code's early break, for a window with nothing outstanding, is left  *)
(* out: WindowBrackets says that it is never taken.                        *)
(***************************************************************************)
AwaitSack ==
  /\ pc = "window"
  /\ ~CanSend
  /\ \E i \in Deliverable(toSender) :
       LET number == toSender[i].number IN
       /\ toSender' = RemoveAt(toSender, i)
       /\ IF toSender[i].kind = "SACK" /\ number \notin acked
          THEN /\ acked' = acked \cup {number}
               /\ order' = RemoveFirst(order, number)
               /\ base' = Min((base..nextseq) \ acked')
               /\ stalls' = 0
               /\ pc' = IF base' < Count THEN "window" ELSE "fin"
          ELSE UNCHANGED <<acked, order, base, stalls, pc>>
  /\ UNCHANGED <<toReceiver, lost, resent, tries, nextseq>>
  /\ UNCHANGED receiverVars

(***************************************************************************)
(* The timer of packet seq may expire: with a prompt clock, neither the    *)
(* packet nor its acknowledgement is still on its way.                     *)
(***************************************************************************)
PacketTimerExpires(seq) ==
  Prompt =>
    /\ rpc = "returned" \/ Packet("DATA", seq) \notin ToSet(toReceiver)
    /\ Packet("SACK", seq) \notin ToSet(toSender)

(* The packet that went out longest ago, and only that one, goes out again. *)
Timeout ==
  /\ pc = "window"
  /\ ~CanSend
  /\ PacketTimerExpires(Head(order))
  /\ stalls' = stalls + 1
  /\ IF stalls' > MaxRetries
     THEN /\ pc' = "failed"
          /\ UNCHANGED <<resent, order, channelVars>>
     ELSE /\ resent' = resent + 1
          /\ order' = Append(Tail(order), Head(order))
          /\ Transmit(toReceiver, Packet("DATA", Head(order)))
          /\ UNCHANGED <<pc, toSender>>
  /\ UNCHANGED <<tries, base, nextseq, acked>>
  /\ UNCHANGED receiverVars

SenderNext ==
  \/ SendNext
  \/ AwaitSack
  \/ Timeout
  \/ Finish /\ UNCHANGED windowVars

ReceiverStep == ReceiverNext /\ UNCHANGED windowVars

Next == SenderNext \/ ReceiverStep

(* Both threads run on when they can. *)
Fairness == WF_vars(SenderNext) /\ WF_vars(ReceiverStep)

Spec == Init /\ [][Next]_vars /\ Fairness
-----------------------------------------------------------------------------

(* The sequence numbers, counters and channels keep their ranges. *)
TypeOK ==
  /\ ChannelTypeOK
  /\ ReceiverTypeOK
  /\ SenderTypeOK
  /\ base \in 0..Count
  /\ nextseq \in 0..Count
  /\ acked \in SUBSET (0..Count)
  /\ order \in Seq(0..Count)

(***************************************************************************)
(* What the sender believes of each packet is true of the receiver: what   *)
(* it holds acknowledged is delivered or held back for a gap, what the     *)
(* receiver holds back was sent and lies within a window of the gap.  base *)
(* is the oldest packet not acknowledged, in whatever order the            *)
(* acknowledgements came.  The sender never waits with nothing             *)
(* outstanding, so the code's early break is never taken.                  *)
(***************************************************************************)
WindowBrackets ==
  /\ base <= expected /\ expected <= nextseq /\ nextseq <= base + Window
  /\ acked \subseteq (0..(expected - 1)) \cup buffer
  /\ 0..(base - 1) \subseteq acked /\ base \notin acked
  /\ buffer \subseteq (expected + 1)..(nextseq - 1)
  /\ pc = "window" /\ ~CanSend => order # <<>>

(***************************************************************************)
(* The price of the receiver's buffer is bounded by the window, duplicates *)
(* and all: "its buffer fills to the full window" and never beyond         *)
(* (README.md of the chapter).                                             *)
(***************************************************************************)
BufferWithinWindow == maxBuffered <= Window
=============================================================================
