------------------------------ MODULE ForkMain ------------------------------
(***************************************************************************)
(* fork_user.py as a whole: main makes one of the three fork managers, and *)
(* the same philosophers run with whichever it is.                         *)
(***************************************************************************)
EXTENDS ForksMon

VARIABLES
  choice,      \* the argument of make_forks(): "mon", "sem" or "deadlock"
  forks, room  \* the semaphores of the latter two

Sem == INSTANCE ForksSem

allVars == <<vars, choice, forks, room>>

ForkInit ==
  /\ Init
  /\ choice \in {"mon", "sem", "deadlock"}
  /\ Sem!NewForks

Run(i) ==
  \/ /\ choice = "mon"
     /\ PhilosopherStep(i)
     /\ UNCHANGED <<choice, forks, room>>
  \/ /\ choice # "mon"
     /\ Sem!PhilosopherStep(i)
     /\ UNCHANGED <<free, waiting>>

RunMain == Main /\ UNCHANGED <<choice, forks, room>>

ForkNext == (\E i \in Philosopher : Run(i)) \/ RunMain

(* Every thread runs on when it can. *)
ForkFairness ==
  /\ \A i \in Philosopher : WF_allVars(Run(i))
  /\ WF_allVars(RunMain)

ForkSpec == ForkInit /\ [][ForkNext]_allVars /\ ForkFairness
-----------------------------------------------------------------------------

(***************************************************************************)
(* The monitor's encoding is exact although free[i] is left at 2 while i   *)
(* eats; so no two neighbours eat together, and whoever waits has a        *)
(* neighbour who eats and will wake him.                                   *)
(***************************************************************************)
MonitorExact ==
  choice = "mon" => FreeIsExact /\ NeighboursExclude /\ WaitsForNeighbour

(***************************************************************************)
(* Each fork's semaphore knows whether its fork is held, and at most one   *)
(* philosopher holds it; the room never admits more than N - 1 of them.    *)
(* While one sleeps at a fork or at the door, every unit of it that is     *)
(* free has somebody awake on his way to take it: no wake-up is lost       *)
(* although V wakes only one.                                              *)
(***************************************************************************)
SemaphoresAccount == choice # "mon" => Sem!ForksAccounted /\ Sem!RoomAccounted

(***************************************************************************)
(* The only deadlock is the one main reports and the README describes: it  *)
(* needs the variant without the room, and the circle closes only around   *)
(* the whole table, "5 of 5 philosophers hold one fork".                   *)
(***************************************************************************)
DeadlockIsTotal == Sem!DeadlockIsTotal

(***************************************************************************)
(* Unless the variant was chosen that deadlocks on purpose, once main has  *)
(* cleared the flags every philosopher gets a last meal and leaves: nobody *)
(* is blocked in pick_up() for ever.                                       *)
(***************************************************************************)
NobodyStuck ==
  choice # "deadlock" => <>(\A i \in Philosopher : pc[i] = "stopped")
=============================================================================
