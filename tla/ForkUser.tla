------------------------------ MODULE ForkUser ------------------------------
(***************************************************************************)
(* fork_user.py: N philosopher threads that think and eat in a cycle, and  *)
(* the main thread that stops them all and joins each with a timeout.  How *)
(* forks are picked up and put down is left to the module of the fork      *)
(* manager, which takes a philosopher from "hungry" to "eating" and back   *)
(* to "check".                                                             *)
(***************************************************************************)
EXTENDS Integers, FiniteSets

CONSTANT N  \* philosophers, plates and forks

ASSUME TableAssumption == N \in Nat /\ N >= 2

Philosopher == 0..(N - 1)

Left(i) == (i - 1) % N
Right(i) == (i + 1) % N

VARIABLES
  pc,       \* where each philosopher is
  running,  \* the Event _running of each philosopher
  mainPc    \* whom main stops next; N: it joins them, N + 1: it has ended

UserInit ==
  /\ pc = [i \in Philosopher |-> "check"]
  /\ running = [i \in Philosopher |-> TRUE]
  /\ mainPc = 0

Goto(i, from, to) == pc[i] = from /\ pc' = [pc EXCEPT ![i] = to]

(* The test of the loop: call pick_up(), or leave. *)
CheckRunning(i) ==
  /\ Goto(i, "check", IF running[i] THEN "hungry" ELSE "stopped")
  /\ UNCHANGED <<running, mainPc>>

(***************************************************************************)
(* main: clear one flag after the other; then wait at most a second for    *)
(* each thread and report who is still alive.  The joins change nothing    *)
(* and cannot block, so that all of them are one step.                     *)
(***************************************************************************)
Stop(i) ==
  /\ mainPc = i
  /\ running' = [running EXCEPT ![i] = FALSE]
  /\ mainPc' = i + 1
  /\ UNCHANGED pc

Join ==
  /\ mainPc = N
  /\ mainPc' = N + 1
  /\ UNCHANGED <<pc, running>>

MainStep == Join \/ \E i \in Philosopher : Stop(i)

UserTypeOK(locations) ==
  /\ pc \in [Philosopher -> locations \cup {"check", "hungry", "eating", "stopped"}]
  /\ running \in [Philosopher -> BOOLEAN]
  /\ mainPc \in 0..(N + 1)

(***************************************************************************)
(* The forks lie between neighbours (README.md of the chapter), so two     *)
(* neighbours never eat at the same time.                                  *)
(***************************************************************************)
NeighboursExclude ==
  \A i \in Philosopher : pc[i] = "eating" => pc[Right(i)] # "eating"
=============================================================================
