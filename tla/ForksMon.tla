------------------------------ MODULE ForksMon ------------------------------
(***************************************************************************)
(* forks_mon.py: both forks are taken in one critical section of a         *)
(* monitor.  free[i] counts how many of philosopher i's forks nobody else  *)
(* holds.  pick_up() and put_down() are critical sections from entry, or   *)
(* from the return of wait(), to the next wait() or the end.               *)
(***************************************************************************)
EXTENDS ForkUser

VARIABLES
  free,    \* how many of i's two forks are free, left alone while i eats
  waiting  \* philosophers inside _cond.wait() that nobody has notified

vars == <<pc, running, mainPc, free, waiting>>

Init ==
  /\ UserInit
  /\ free = [i \in Philosopher |-> 2]
  /\ waiting = {}

(***************************************************************************)
(* free[left(i)] and free[right(i)] change one after the other: with two   *)
(* philosophers they are the same counter.                                 *)
(***************************************************************************)
AddToNeighbours(i, d) ==
  free' = [j \in Philosopher |->
    free[j] + (IF j = Left(i) THEN d ELSE 0) + (IF j = Right(i) THEN d ELSE 0)]

PickUp(i) ==
  /\ i \notin waiting
  /\ free[i] = 2
  /\ Goto(i, "hungry", "eating")
  /\ AddToNeighbours(i, -1)
  /\ UNCHANGED <<running, mainPc, waiting>>

PickUpWaits(i) ==
  /\ i \notin waiting
  /\ pc[i] = "hungry"
  /\ free[i] # 2
  /\ waiting' = waiting \cup {i}
  /\ UNCHANGED <<pc, running, mainPc, free>>

(* Mutant: only one thread is notified. *)
PutDownWakesOne(i) ==
  /\ Goto(i, "eating", "check")
  /\ AddToNeighbours(i, 1)
  /\ IF waiting = {} THEN UNCHANGED waiting
     ELSE \E j \in waiting : waiting' = waiting \ {j}
  /\ UNCHANGED <<running, mainPc>>

PutDown(i) ==
  /\ Goto(i, "eating", "check")
  /\ AddToNeighbours(i, 1)
  /\ waiting' = {}
  /\ UNCHANGED <<running, mainPc>>

PhilosopherStep(i) ==
  \/ CheckRunning(i) /\ UNCHANGED <<free, waiting>>
  \/ PickUp(i)
  \/ PickUpWaits(i)
  \/ PutDown(i)

Main == MainStep /\ UNCHANGED <<free, waiting>>

Next == (\E i \in Philosopher : PhilosopherStep(i)) \/ Main

Spec == Init /\ [][Next]_vars
-----------------------------------------------------------------------------

(* The counters stay between 0 and 2. *)
TypeOK ==
  /\ UserTypeOK({})
  /\ free \in [Philosopher -> 0..2]
  /\ waiting \in SUBSET Philosopher

(***************************************************************************)
(* The encoding is exact although free[i] itself is left at 2 while i      *)
(* eats: each counter is 2 less one for either neighbour that eats, after  *)
(* any sequence of meals.                                                  *)
(***************************************************************************)
Taken(i) == IF pc[i] = "eating" THEN 1 ELSE 0

FreeIsExact ==
  \A i \in Philosopher : free[i] = 2 - Taken(Left(i)) - Taken(Right(i))

(***************************************************************************)
(* A philosopher is left waiting only while a neighbour eats, whose        *)
(* put_down() will wake it.                                                *)
(***************************************************************************)
WaitsForNeighbour ==
  \A i \in waiting : pc[i] = "hungry" /\ (pc[Left(i)] = "eating" \/ pc[Right(i)] = "eating")
=============================================================================
