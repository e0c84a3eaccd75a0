----------------------------- MODULE Semaphore -----------------------------
(***************************************************************************)
(* semaphore.py: Dijkstra's counting semaphore built as a monitor.  A      *)
(* semaphore is its counter s and the threads inside _cond.wait(); P and V *)
(* are critical sections, so each is one step that yields the semaphore's  *)
(* next value.  A thread that finds s = 0 joins the waiting; notify() lets *)
(* one of them leave, which then tests s again like any newcomer.          *)
(***************************************************************************)
EXTENDS Integers, FiniteSets

NewSemaphore(initialValue) == [s |-> initialValue, waiting |-> {}]

(* Mutant: P keeps one unit back. *)
PassesSpared(sem, thread) == thread \notin sem.waiting /\ sem.s > 1

(* P goes through, or its thread starts to wait. *)
Passes(sem, thread) == thread \notin sem.waiting /\ sem.s > 0
Waits(sem, thread) == thread \notin sem.waiting /\ sem.s <= 0

AfterPass(sem) == [sem EXCEPT !.s = @ - 1]
AfterWait(sem, thread) == [sem EXCEPT !.waiting = @ \cup {thread}]

(* Mutant: V forgets to notify. *)
AfterSilentV(sem) == {[sem EXCEPT !.s = @ + 1]}

(* V: count up, and notify() any one of the waiting threads. *)
AfterV(sem) ==
  LET notified == IF sem.waiting = {} THEN {{}} ELSE {{t} : t \in sem.waiting}
  IN {[s |-> sem.s + 1, waiting |-> sem.waiting \ n] : n \in notified}

(***************************************************************************)
(* No wake-up is lost although V wakes only one thread: threads are left   *)
(* waiting only when the units that are free are no more than the threads  *)
(* awake and on their way to take them.                                    *)
(***************************************************************************)
NoLostWakeup(sem, entering) ==
  sem.waiting # {} => sem.s <= Cardinality(entering \ sem.waiting)
=============================================================================
