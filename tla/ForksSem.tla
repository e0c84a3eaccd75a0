------------------------------ MODULE ForksSem ------------------------------
(***************************************************************************)
(* forks_sem.py: one binary semaphore per fork, taken one after the other, *)
(* with the room semaphore of N - 1 seats (ForksSem, chosen by "sem") or   *)
(* without it (ForksSemDeadlock, "deadlock").  The semaphores are          *)
(* threading.Semaphore, which semaphore.py writes out.                     *)
(***************************************************************************)
EXTENDS ForkUser, Semaphore

VARIABLES
  choice,  \* which fork manager make_forks() made: "sem" or "deadlock"
  forks,   \* _forks
  room     \* _room, of no use to ForksSemDeadlock

vars == <<pc, running, mainPc, choice, forks, room>>

UseRoom == choice = "sem"

(* Mutant: a seat for everybody. *)
NewForksAllSeats ==
  /\ forks = [f \in Philosopher |-> NewSemaphore(1)]
  /\ room = NewSemaphore(N)

NewForks ==
  /\ forks = [f \in Philosopher |-> NewSemaphore(1)]
  /\ room = NewSemaphore(N - 1)

Init ==
  /\ UserInit
  /\ choice \in {"sem", "deadlock"}
  /\ NewForks

(***************************************************************************)
(* pick_up(): room.acquire() if there is one, then the fork of index       *)
(* Left(i), then that of index Right(i).                                   *)
(***************************************************************************)
EnterRoom(i) ==
  /\ Goto(i, "hungry", "takeLeft")
  /\ IF UseRoom THEN Passes(room, i) /\ room' = AfterPass(room) ELSE UNCHANGED room
  /\ UNCHANGED <<running, mainPc, forks>>

WaitRoom(i) ==
  /\ UseRoom
  /\ pc[i] = "hungry"
  /\ Waits(room, i)
  /\ room' = AfterWait(room, i)
  /\ UNCHANGED <<pc, running, mainPc, forks>>

TakeFork(i, f, from, to) ==
  /\ Goto(i, from, to)
  /\ Passes(forks[f], i)
  /\ forks' = [forks EXCEPT ![f] = AfterPass(@)]
  /\ UNCHANGED <<running, mainPc, room>>

WaitFork(i, f, from) ==
  /\ pc[i] = from
  /\ Waits(forks[f], i)
  /\ forks' = [forks EXCEPT ![f] = AfterWait(@, i)]
  /\ UNCHANGED <<pc, running, mainPc, room>>

PickUp(i) ==
  \/ EnterRoom(i)
  \/ WaitRoom(i)
  \/ TakeFork(i, Left(i), "takeLeft", "takeRight")
  \/ WaitFork(i, Left(i), "takeLeft")
  \/ TakeFork(i, Right(i), "takeRight", "eating")
  \/ WaitFork(i, Right(i), "takeRight")

(* put_down(): the left fork, the right fork, the room. *)
PutFork(i, f, from, to) ==
  /\ Goto(i, from, to)
  /\ \E sem \in AfterV(forks[f]) : forks' = [forks EXCEPT ![f] = sem]
  /\ UNCHANGED <<running, mainPc, room>>

LeaveRoom(i) ==
  /\ Goto(i, "leaveRoom", "check")
  /\ IF UseRoom THEN room' \in AfterV(room) ELSE UNCHANGED room
  /\ UNCHANGED <<running, mainPc, forks>>

PutDown(i) ==
  \/ PutFork(i, Left(i), "eating", "putRight")
  \/ PutFork(i, Right(i), "putRight", "leaveRoom")
  \/ LeaveRoom(i)

PhilosopherStep(i) ==
  /\ \/ CheckRunning(i) /\ UNCHANGED <<forks, room>>
     \/ PickUp(i)
     \/ PutDown(i)
  /\ UNCHANGED choice

Main == MainStep /\ UNCHANGED <<choice, forks, room>>

Next == (\E i \in Philosopher : PhilosopherStep(i)) \/ Main

Spec == Init /\ [][Next]_vars
-----------------------------------------------------------------------------

HoldsLeft(i) == pc[i] \in {"takeRight", "eating"}
HoldsRight(i) == pc[i] \in {"eating", "putRight"}

(* Who holds fork f, who is about to take it, and who sits in the room. *)
Holders(f) ==
  {i \in Philosopher : (Left(i) = f /\ HoldsLeft(i)) \/ (Right(i) = f /\ HoldsRight(i))}

Reaching(f) ==
  {i \in Philosopher :
     (Left(i) = f /\ pc[i] = "takeLeft") \/ (Right(i) = f /\ pc[i] = "takeRight")}

Hungry == {i \in Philosopher : pc[i] = "hungry"}

Seated ==
  {i \in Philosopher : pc[i] \in {"takeLeft", "takeRight", "eating", "putRight", "leaveRoom"}}

(* Only those who call P sleep, and no unit is left over while one does. *)
Attended(sem, callers) == sem.waiting \subseteq callers /\ NoLostWakeup(sem, callers)

(***************************************************************************)
(* Each fork's semaphore knows whether the fork is held, and at most one   *)
(* philosopher holds it: the index arithmetic of taking and putting back   *)
(* agrees.  Nobody sleeps at a fork that lies there, unless another is     *)
(* awake and about to take it.                                             *)
(***************************************************************************)
ForksAccounted ==
  \A f \in Philosopher :
    /\ forks[f].s = 1 - Cardinality(Holders(f))
    /\ forks[f].s >= 0
    /\ Attended(forks[f], Reaching(f))

(***************************************************************************)
(* The room counts the empty ones of its N - 1 seats, so that at most      *)
(* N - 1 philosophers are inside; and while one sleeps at its door, no     *)
(* seat is free but for others who are awake and about to take it.         *)
(***************************************************************************)
RoomAccounted ==
  UseRoom =>
    /\ room.s = (N - 1) - Cardinality(Seated)
    /\ room.s >= 0
    /\ Attended(room, Hungry)

(***************************************************************************)
(* Philosophers wait in a circle: each has its left fork in hand and waits *)
(* for one that another of them holds.                                     *)
(***************************************************************************)
CircularWait(S) ==
  /\ S # {}
  /\ \A i \in S : pc[i] = "takeRight" /\ \E j \in S : Left(j) = Right(i)

(***************************************************************************)
(* The only deadlock is the one main reports and the README describes: it  *)
(* needs the variant without the room, and the circle closes only around   *)
(* the whole table, "5 of 5 philosophers hold one fork".                   *)
(***************************************************************************)
DeadlockIsTotal ==
  \A S \in SUBSET Philosopher :
    CircularWait(S) => choice = "deadlock" /\ S = Philosopher
=============================================================================
