-------------------------- MODULE ReliableTransfer --------------------------
(***************************************************************************)
(* What a transfer of Count packets promises, whatever the channel does:   *)
(* the application gets the packets in order, the receiver hears of the    *)
(* end only when it has them all, and the sender reports success only      *)
(* after that.  It may also give up, at any moment.                        *)
(***************************************************************************)
EXTENDS Naturals

CONSTANT Count

VARIABLES
  delivered,  \* packets 0 .. delivered - 1 are with the application
  ended,      \* the receiver has seen the end of the transfer
  outcome     \* "running", "done" or "failed", as the sender sees it

vars == <<delivered, ended, outcome>>

Init ==
  /\ delivered = 0
  /\ ended = FALSE
  /\ outcome = "running"

(* One arrival may hand over a whole run that waited for it. *)
Deliver ==
  /\ ~ended
  /\ delivered' \in (delivered + 1)..Count
  /\ UNCHANGED <<ended, outcome>>

End ==
  /\ ~ended
  /\ delivered = Count
  /\ ended' = TRUE
  /\ UNCHANGED <<delivered, outcome>>

Complete ==
  /\ outcome = "running"
  /\ ended
  /\ outcome' = "done"
  /\ UNCHANGED <<delivered, ended>>

GiveUp ==
  /\ outcome = "running"
  /\ outcome' = "failed"
  /\ UNCHANGED <<delivered, ended>>

Next == Deliver \/ End \/ Complete \/ GiveUp

Spec == Init /\ [][Next]_vars
=============================================================================
