--------------------------------- MODULE RW ---------------------------------
(***************************************************************************)
(* rw.py: the entry and exit protocols of readers and writers, a monitor   *)
(* with one condition variable.  A call of read() or write() is split as   *)
(* the code splits it: the entry protocol under the lock, the operation of *)
(* the subclass without it, the exit protocol under the lock.              *)
(***************************************************************************)
EXTENDS Integers, FiniteSets

CONSTANTS
  Readers,  \* the threads that call read()
  Writers,  \* the threads that call write()
  Failing   \* threads whose operation raises an exception; a subclass may

ASSUME RWAssumption ==
  /\ IsFiniteSet(Readers) /\ IsFiniteSet(Writers)
  /\ Readers \cap Writers = {}
  /\ Failing \subseteq Readers \cup Writers

Threads == Readers \cup Writers

VARIABLES
  activeReaders,   \* _active_readers
  activeWriters,   \* _active_writers
  waitingReaders,  \* _waiting_readers
  waitingWriters,  \* _waiting_writers
  waiting,         \* threads inside _cond.wait() that nobody has notified
  pc               \* where each thread is, see Locations

rwVars == <<activeReaders, activeWriters, waitingReaders, waitingWriters, waiting, pc>>

(* Outside a call, about to call, in the entry protocol, in do_read() or   *)
(* do_write(), and on the way out with or without an exception.            *)
Locations == {"check", "call", "queued", "inside", "work", "leaving", "failing", "ended"}

Goto(t, from, to) == pc[t] = from /\ pc' = [pc EXCEPT ![t] = to]

RWInit ==
  /\ activeReaders = 0
  /\ activeWriters = 0
  /\ waitingReaders = 0
  /\ waitingWriters = 0
  /\ waiting = {}
  /\ pc = [t \in Threads |-> "check"]

(* Mutants: a writer minds only the writers, or only the readers. *)
AllowWriterBesideReaders == activeWriters = 0
AllowWriterBesideWriters == activeReaders = 0

AllowReader == waitingWriters = 0 /\ activeWriters = 0
AllowWriter == activeReaders = 0 /\ activeWriters = 0

(***************************************************************************)
(* _before_read: go in at once; or be counted as waiting and wait; or,     *)
(* notified, go in after all; or wait again.                               *)
(***************************************************************************)
BeforeRead(r) ==
  /\ r \notin waiting
  /\ AllowReader
  /\ \/ Goto(r, "call", "inside") /\ UNCHANGED waitingReaders
     \/ Goto(r, "queued", "inside") /\ waitingReaders' = waitingReaders - 1
  /\ activeReaders' = activeReaders + 1
  /\ UNCHANGED <<activeWriters, waitingWriters, waiting>>

BeforeReadWaits(r) ==
  /\ r \notin waiting
  /\ ~AllowReader
  /\ \/ Goto(r, "call", "queued") /\ waitingReaders' = waitingReaders + 1
     \/ pc[r] = "queued" /\ UNCHANGED <<pc, waitingReaders>>
  /\ waiting' = waiting \cup {r}
  /\ UNCHANGED <<activeReaders, activeWriters, waitingWriters>>

(* Mutant: nobody is notified. *)
AfterReadSilently(r, to) ==
  /\ pc' = [pc EXCEPT ![r] = to]
  /\ activeReaders' = activeReaders - 1
  /\ UNCHANGED <<activeWriters, waitingReaders, waitingWriters, waiting>>

(* _after_read *)
AfterRead(r, to) ==
  /\ pc' = [pc EXCEPT ![r] = to]
  /\ activeReaders' = activeReaders - 1
  /\ waiting' = {}
  /\ UNCHANGED <<activeWriters, waitingReaders, waitingWriters>>

(***************************************************************************)
(* _before_write, in the same two steps.                                   *)
(***************************************************************************)
BeforeWrite(w) ==
  /\ w \notin waiting
  /\ AllowWriter
  /\ \/ Goto(w, "call", "inside") /\ UNCHANGED waitingWriters
     \/ Goto(w, "queued", "inside") /\ waitingWriters' = waitingWriters - 1
  /\ activeWriters' = activeWriters + 1
  /\ UNCHANGED <<activeReaders, waitingReaders, waiting>>

BeforeWriteWaits(w) ==
  /\ w \notin waiting
  /\ ~AllowWriter
  /\ \/ Goto(w, "call", "queued") /\ waitingWriters' = waitingWriters + 1
     \/ pc[w] = "queued" /\ UNCHANGED <<pc, waitingWriters>>
  /\ waiting' = waiting \cup {w}
  /\ UNCHANGED <<activeReaders, activeWriters, waitingReaders>>

(* _after_write *)
AfterWrite(w, to) ==
  /\ pc' = [pc EXCEPT ![w] = to]
  /\ activeWriters' = activeWriters - 1
  /\ waiting' = {}
  /\ UNCHANGED <<activeReaders, waitingReaders, waitingWriters>>

(***************************************************************************)
(* do_read() or do_write() raises: the finally clause runs, and the        *)
(* exception goes on to the caller.                                        *)
(***************************************************************************)
Raise(t) ==
  /\ t \in Failing
  /\ Goto(t, "inside", "failing")
  /\ UNCHANGED <<activeReaders, activeWriters, waitingReaders, waitingWriters, waiting>>
-----------------------------------------------------------------------------

At(threads, locations) == {t \in threads : pc[t] \in locations}

InCall == {"inside", "work", "leaving", "failing"}

(***************************************************************************)
(* The invariants at the top of rw.py, about the threads and not only the  *)
(* counters: the four counters are exact, exceptions and all, at most one  *)
(* writer is inside and then no reader is.                                 *)
(***************************************************************************)
AccessExclusive ==
  /\ activeReaders = Cardinality(At(Readers, InCall))
  /\ activeWriters = Cardinality(At(Writers, InCall))
  /\ waitingReaders = Cardinality(At(Readers, {"queued"}))
  /\ waitingWriters = Cardinality(At(Writers, {"queued"}))
  /\ activeWriters <= 1
  /\ activeWriters = 1 => activeReaders = 0

(***************************************************************************)
(* A thread is left in the wait set only while its condition is false: the *)
(* entry protocols, which change the conditions too, need not notify.      *)
(***************************************************************************)
NobodyOverslept ==
  /\ \A r \in Readers : r \in waiting => ~AllowReader
  /\ \A w \in Writers : w \in waiting => ~AllowWriter
=============================================================================
