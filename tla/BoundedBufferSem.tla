-------------------------- MODULE BoundedBufferSem --------------------------
(***************************************************************************)
(* bounded_buffer_sem.py: the ring of BoundedBufferMon, synchronised by    *)
(* three semaphores instead of a lock of its own.  Between two semaphore   *)
(* operations a thread is where `at' says, and other threads run.          *)
(***************************************************************************)
EXTENDS Integers, Sequences, FiniteSets, Semaphore

CONSTANTS Size, Items, Producers, Consumers, None  \* as in BoundedBufferMon

Threads == Producers \cup Consumers
Slots == 0..(Size - 1)

VARIABLES
  data, in, out,       \* the ring and its two pointers
  empty, full, mutex,  \* the three semaphores
  at,                  \* the next statement of each thread in put() or get()
  taken                \* what get() took last, for each consumer

ringVars == <<data, in, out>>
semVars == <<empty, full, mutex>>

Init ==
  /\ data = [i \in Slots |-> None]
  /\ in = 0
  /\ out = 0
  /\ empty = NewSemaphore(Size)
  /\ full = NewSemaphore(0)
  /\ mutex = NewSemaphore(1)
  /\ at = [t \in Threads |-> "count"]
  /\ taken = [c \in Consumers |-> <<>>]

Goto(t, from, to) == at[t] = from /\ at' = [at EXCEPT ![t] = to]

(* Take a free slot, or a filled one; wait if there is none. *)
PassEmpty(p) ==
  /\ Passes(empty, p)
  /\ Goto(p, "count", "enter")
  /\ empty' = AfterPass(empty)
  /\ UNCHANGED <<ringVars, full, mutex, taken>>

WaitEmpty(p) ==
  /\ Waits(empty, p)
  /\ at[p] = "count"
  /\ empty' = AfterWait(empty, p)
  /\ UNCHANGED <<ringVars, full, mutex, at, taken>>

PassFull(c) ==
  /\ Passes(full, c)
  /\ Goto(c, "count", "enter")
  /\ full' = AfterPass(full)
  /\ UNCHANGED <<ringVars, empty, mutex, taken>>

WaitFull(c) ==
  /\ Waits(full, c)
  /\ at[c] = "count"
  /\ full' = AfterWait(full, c)
  /\ UNCHANGED <<ringVars, empty, mutex, at, taken>>

(* Mutants: the critical section is not exclusive, or never left. *)
PassMutexAlways(t) ==
  /\ Goto(t, "enter", "access")
  /\ mutex' = AfterPass(mutex)
  /\ UNCHANGED <<ringVars, empty, full, taken>>

LeaveLocked(t) ==
  /\ Goto(t, "leave", "signal")
  /\ UNCHANGED <<ringVars, semVars, taken>>

(* Enter and leave the critical section. *)
PassMutex(t) ==
  /\ Passes(mutex, t)
  /\ Goto(t, "enter", "access")
  /\ mutex' = AfterPass(mutex)
  /\ UNCHANGED <<ringVars, empty, full, taken>>

WaitMutex(t) ==
  /\ Waits(mutex, t)
  /\ at[t] = "enter"
  /\ mutex' = AfterWait(mutex, t)
  /\ UNCHANGED <<ringVars, empty, full, at, taken>>

Leave(t) ==
  /\ Goto(t, "leave", "signal")
  /\ mutex' \in AfterV(mutex)
  /\ UNCHANGED <<ringVars, empty, full, taken>>

(***************************************************************************)
(* The critical sections: the slot first, then the pointer.                *)
(***************************************************************************)
Deposit(p, item) ==
  /\ Goto(p, "access", "advance")
  /\ data' = [data EXCEPT ![in] = item]
  /\ UNCHANGED <<in, out, semVars, taken>>

AdvanceIn(p) ==
  /\ Goto(p, "advance", "leave")
  /\ in' = (in + 1) % Size
  /\ UNCHANGED <<data, out, semVars, taken>>

Fetch(c) ==
  /\ Goto(c, "access", "clear")
  /\ taken' = [taken EXCEPT ![c] = <<data[out]>>]
  /\ UNCHANGED <<ringVars, semVars>>

Clear(c) ==
  /\ Goto(c, "clear", "advance")
  /\ data' = [data EXCEPT ![out] = None]
  /\ UNCHANGED <<in, out, semVars, taken>>

AdvanceOut(c) ==
  /\ Goto(c, "advance", "leave")
  /\ out' = (out + 1) % Size
  /\ UNCHANGED <<data, in, semVars, taken>>

(***************************************************************************)
(* The last statement, after which the call returns: one more filled slot, *)
(* one more free one.                                                      *)
(***************************************************************************)
SignalFull(p) ==
  /\ Goto(p, "signal", "count")
  /\ full' \in AfterV(full)
  /\ UNCHANGED <<ringVars, empty, mutex, taken>>

SignalEmpty(c) ==
  /\ Goto(c, "signal", "count")
  /\ empty' \in AfterV(empty)
  /\ UNCHANGED <<ringVars, full, mutex, taken>>

(* The steps inside a call of put(item), and inside one of get(). *)
InPut(p, item) ==
  \/ PassEmpty(p) \/ WaitEmpty(p)
  \/ PassMutex(p) \/ WaitMutex(p)
  \/ Deposit(p, item) \/ AdvanceIn(p) \/ Leave(p)

InGet(c) ==
  \/ PassFull(c) \/ WaitFull(c)
  \/ PassMutex(c) \/ WaitMutex(c)
  \/ Fetch(c) \/ Clear(c) \/ AdvanceOut(c) \/ Leave(c)
-----------------------------------------------------------------------------

At(threads, locations) == {t \in threads : at[t] \in locations}
InRing == {"access", "clear", "advance", "leave"}

(***************************************************************************)
(* The semaphores account for every slot and every unit: mutex for the one *)
(* thread inside, empty and full together for the Size slots less those    *)
(* that some call has taken and not yet passed on.                         *)
(***************************************************************************)
UnitsAccounted ==
  /\ empty.s >= 0 /\ full.s >= 0
  /\ mutex.s = 1 - Cardinality(At(Threads, InRing))
  /\ mutex.s >= 0
  /\ empty.s + full.s + Cardinality(At(Threads, InRing \cup {"enter", "signal"})) = Size

(* Waking one thread per V leaves no caller asleep who could go on. *)
NobodyOverslept(callers) ==
  /\ NoLostWakeup(empty, At(callers \cap Producers, {"count"}))
  /\ NoLostWakeup(full, At(callers \cap Consumers, {"count"}))
  /\ NoLostWakeup(mutex, At(callers, {"enter"}))

(***************************************************************************)
(* The items in the ring, the oldest first: an item counts from the write  *)
(* of its slot to the read of it, while the pointers lag behind, and so    *)
(* does the None that replaces what was read.                              *)
(***************************************************************************)
First == (out + Cardinality(At(Consumers, {"clear", "advance"}))) % Size
Ring == IF At(Consumers, {"clear"}) = {} THEN data ELSE [data EXCEPT ![out] = None]
Filled == Cardinality({i \in Slots : Ring[i] # None})
Contents == [k \in 1..Filled |-> Ring[(First + k - 1) % Size]]
=============================================================================
