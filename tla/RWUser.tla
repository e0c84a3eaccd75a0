------------------------------- MODULE RWUser -------------------------------
(***************************************************************************)
(* rw_user.py: reader and writer threads that read and write in a loop     *)
(* until main has asked each of them to stop, and the shared object whose  *)
(* operations count the accesses.                                          *)
(***************************************************************************)
EXTENDS RW

CONSTANTS
  NWRITERS, NREADERS,
  Calls  \* bound: how many calls a thread completes before it is stopped

ASSUME RWUserAssumption ==
  /\ NWRITERS \in Nat /\ NREADERS \in Nat /\ NWRITERS + NREADERS > 0
  /\ Writers = 1..NWRITERS
  /\ Readers = (NWRITERS + 1)..(NWRITERS + NREADERS)
  /\ Calls \in Nat \ {0}

VARIABLES
  running,                 \* the Event _running of each thread
  count,                   \* the calls each thread has completed
  totalReads,              \* total_reads
  totalWrites,             \* total_writes
  maxConcurrent,           \* max_concurrent_readers
  overlap,                 \* history: most readers past the statistics at once
  mostInside,              \* history: most readers between entry and exit at once
  loaded,                  \* what a writer's "+= 1" has read of total_writes
  mainPc                   \* what main does next, and to which thread

maxima == <<maxConcurrent, overlap, mostInside>>
userVars == <<running, count, totalReads, totalWrites, maxima, loaded>>
vars == <<rwVars, userVars, mainPc>>

Init ==
  /\ RWInit
  /\ running = [t \in Threads |-> TRUE]
  /\ count = [t \in Threads |-> 0]
  /\ totalReads = 0
  /\ totalWrites = 0
  /\ maxConcurrent = 0 /\ overlap = 0 /\ mostInside = 0
  /\ loaded = [w \in Writers |-> 0]
  /\ mainPc = <<"stop", 1>>

(* The test of the loop. *)
CheckRunning(t) ==
  /\ \/ running[t] /\ count[t] < Calls /\ Goto(t, "check", "call")
     \/ ~running[t] /\ Goto(t, "check", "ended")
  /\ UNCHANGED <<activeReaders, activeWriters, waitingReaders, waitingWriters, waiting>>
  /\ UNCHANGED <<userVars, mainPc>>

Overlapping == Cardinality(At(Readers, {"leaving"}))

(* Mutant: the largest number seen is the last one. *)
LastSeen == activeReaders

LargestSeen == IF activeReaders > maxConcurrent THEN activeReaders ELSE maxConcurrent

(***************************************************************************)
(* do_read: the statistics, in a critical section of their own.            *)
(***************************************************************************)
DoRead(r) ==
  /\ Goto(r, "inside", "leaving")
  /\ totalReads' = totalReads + 1
  /\ maxConcurrent' = LargestSeen
  /\ overlap' = IF Overlapping >= overlap THEN Overlapping + 1 ELSE overlap
  /\ UNCHANGED <<activeReaders, activeWriters, waitingReaders, waitingWriters, waiting>>
  /\ UNCHANGED <<running, count, totalWrites, mostInside, loaded, mainPc>>

(***************************************************************************)
(* do_write: total_writes += 1 without a lock, which is a read and, later, *)
(* a write.                                                                *)
(***************************************************************************)
LoadTotal(w) ==
  /\ Goto(w, "inside", "work")
  /\ loaded' = [loaded EXCEPT ![w] = totalWrites]
  /\ UNCHANGED <<activeReaders, activeWriters, waitingReaders, waitingWriters, waiting>>
  /\ UNCHANGED <<running, count, totalReads, totalWrites, maxima, mainPc>>

StoreTotal(w) ==
  /\ Goto(w, "work", "leaving")
  /\ totalWrites' = loaded[w] + 1
  /\ UNCHANGED <<activeReaders, activeWriters, waitingReaders, waitingWriters, waiting>>
  /\ UNCHANGED <<running, count, totalReads, maxima, loaded, mainPc>>

(* read() and write() differ in the exit protocol they run. *)
ExitProtocol(t, to) ==
  \/ t \in Readers /\ AfterRead(t, to)
  \/ t \in Writers /\ AfterWrite(t, to)

(* Mutant: no finally clause. *)
ExitUnlessFailing(t) ==
  /\ \/ /\ pc[t] = "leaving"
        /\ ExitProtocol(t, "check")
        /\ count' = [count EXCEPT ![t] = @ + 1]
     \/ /\ Goto(t, "failing", "ended")
        /\ UNCHANGED <<activeReaders, activeWriters, waitingReaders, waitingWriters>>
        /\ UNCHANGED <<waiting, count>>
  /\ UNCHANGED <<running, totalReads, totalWrites, maxima, loaded, mainPc>>

(***************************************************************************)
(* The exit protocol; a call that returns is counted by its thread, an     *)
(* exception ends the thread.                                              *)
(***************************************************************************)
Exit(t) ==
  /\ \/ /\ pc[t] = "leaving"
        /\ ExitProtocol(t, "check")
        /\ count' = [count EXCEPT ![t] = @ + 1]
     \/ /\ pc[t] = "failing"
        /\ ExitProtocol(t, "ended")
        /\ UNCHANGED count
  /\ UNCHANGED <<running, totalReads, totalWrites, maxima, loaded, mainPc>>

ReadersIn == Cardinality(At(Readers, InCall))

(* The entry protocol; the history keeps the most readers it has let in. *)
Enter(t) ==
  /\ \/ t \in Readers /\ (BeforeRead(t) \/ BeforeReadWaits(t))
     \/ t \in Writers /\ (BeforeWrite(t) \/ BeforeWriteWaits(t))
  /\ mostInside' = IF ReadersIn' > mostInside THEN ReadersIn' ELSE mostInside
  /\ UNCHANGED <<running, count, totalReads, totalWrites, maxConcurrent, overlap>>
  /\ UNCHANGED <<loaded, mainPc>>

ThreadStep(t) ==
  \/ CheckRunning(t)
  \/ Enter(t)
  \/ t \in Readers /\ DoRead(t)
  \/ t \in Writers /\ (LoadTotal(t) \/ StoreTotal(t))
  \/ Exit(t)
  \/ Raise(t) /\ UNCHANGED <<userVars, mainPc>>

(***************************************************************************)
(* main: clear every flag, then join every thread, writers first.          *)
(***************************************************************************)
After(t) == IF t < NWRITERS + NREADERS THEN t + 1 ELSE 1

Stop(t) ==
  /\ mainPc = <<"stop", t>>
  /\ running' = [running EXCEPT ![t] = FALSE]
  /\ mainPc' = <<IF After(t) = 1 THEN "join" ELSE "stop", After(t)>>
  /\ UNCHANGED <<rwVars, count, totalReads, totalWrites, maxima, loaded>>

Join(t) ==
  /\ mainPc = <<"join", t>>
  /\ pc[t] = "ended"
  /\ mainPc' = <<IF After(t) = 1 THEN "ended" ELSE "join", After(t)>>
  /\ UNCHANGED <<rwVars, userVars>>

MainStep == \E t \in Threads : Stop(t) \/ Join(t)

Next == (\E t \in Threads : ThreadStep(t)) \/ MainStep

(* Every thread runs on when it can. *)
Fairness ==
  /\ \A t \in Threads : WF_vars(ThreadStep(t))
  /\ WF_vars(MainStep)

Spec == Init /\ [][Next]_vars /\ Fairness
-----------------------------------------------------------------------------

(***************************************************************************)
(* "No lock needed" (the comment in do_write): although the increment of   *)
(* total_writes is not atomic, write() makes it one, and no access is ever *)
(* lost from the totals, nor counted twice.                                *)
(***************************************************************************)
Counted(threads) ==
  Cardinality({call \in threads \X (1..Calls) : count[call[1]] >= call[2]})
    + Cardinality(At(threads, {"leaving"}))

TotalsExact ==
  /\ totalReads = Counted(Readers)
  /\ totalWrites = Counted(Writers)

(***************************************************************************)
(* max_concurrent_readers is a maximum that was there: it never falls      *)
(* short of the readers that were in do_read() at once, past its           *)
(* statistics, and never exceeds the most that were inside read() at once, *)
(* although it is the counter of another monitor, read at a moment of each *)
(* reader's own.                                                           *)
(***************************************************************************)
OverlapSeen == overlap <= maxConcurrent /\ maxConcurrent <= mostInside

(***************************************************************************)
(* Every join returns: no reader or writer is left behind in an entry      *)
(* protocol, whoever came first, and whosever operation failed.            *)
(***************************************************************************)
EverybodyStops == <>(mainPc[1] = "ended")
=============================================================================
