------------------------------ MODULE BufUser ------------------------------
(***************************************************************************)
(* buf_user.py: main makes one of the two buffers and forks the producers  *)
(* and the consumer, then asks one producer after the other to stop and    *)
(* joins it, and joins the consumer last.  Producers say goodbye through   *)
(* the buffer itself, with the item Stop.                                  *)
(***************************************************************************)
EXTENDS BoundedBufferMon, FiniteSets

CONSTANTS
  NPROC,   \* number of producers
  Stamps,  \* bound: a message's time stamp counts modulo Stamps
  Stop     \* STOP

Consumer == NPROC
Messages == [from : Producers, stamp : 0..(Stamps - 1)]
UserItems == Messages \cup {Stop}

ASSUME BufUserAssumption ==
  /\ NPROC \in Nat \ {0}
  /\ Producers = 0..(NPROC - 1)
  /\ Consumers = {Consumer}
  /\ Items = UserItems
  /\ Stop \notin Messages
  /\ Stamps \in Nat /\ Stamps > Size + 1

VARIABLES
  choice,                    \* which buffer main made: "mon" or "sem"
  empty, full, mutex,        \* the semaphores of the latter
  at, taken,                 \* where its callers are, and what its get() took
  pc,         \* where each thread is, the producers, then the consumer
  running,    \* the Event _running of each producer
  stamp,      \* the stamp of each producer's next message
  nextRead,   \* the stamp the consumer should see next from each producer
  remaining,  \* _running_producers of the consumer
  mainPc      \* what the main thread does next, and to which thread

Thread == 0..NPROC

(* The semaphore buffer; the two have the ring and its pointers in common. *)
Sem == INSTANCE BoundedBufferSem

semVars == <<empty, full, mutex, at, taken>>
objectVars == <<bufferVars, semVars>>
threadVars == <<pc, running, stamp, nextRead, remaining>>
vars == <<choice, objectVars, threadVars, mainPc>>

UserInit ==
  /\ choice \in {"mon", "sem"}
  /\ Init
  /\ Sem!Init
  /\ pc = [t \in Thread |-> "new"]
  /\ running = [p \in Producers |-> TRUE]
  /\ stamp = [p \in Producers |-> 0]
  /\ nextRead = [p \in Producers |-> 0]
  /\ remaining = NPROC
  /\ mainPc = <<"start", 0>>

(***************************************************************************)
(* The buffer as its users see it: a step inside a call, and the step with *)
(* which it returns.  The monitor's calls return in the critical section   *)
(* that does the work; its steps before that only wait.                    *)
(***************************************************************************)
MonOnly == choice = "mon" /\ UNCHANGED semVars
SemOnly == choice = "sem" /\ UNCHANGED <<used, waiting, got>>

InPut(p, item) ==
  \/ MonOnly /\ PutWaits(p)
  \/ SemOnly /\ Sem!InPut(p, item)

PutReturns(p, item) ==
  \/ MonOnly /\ Put(p, item)
  \/ SemOnly /\ Sem!SignalFull(p)

InGet(c) ==
  \/ MonOnly /\ GetWaits(c)
  \/ SemOnly /\ Sem!InGet(c)

GetReturns(c) ==
  \/ MonOnly /\ Get(c)
  \/ SemOnly /\ Sem!SignalEmpty(c)

(* What get() returns. *)
Returned(c) == IF choice = "mon" THEN got'[c][1] ELSE taken'[c][1]

(***************************************************************************)
(* Producer.run: test the flag, put a message, sleep, and round again; the *)
(* last item is Stop.                                                      *)
(***************************************************************************)
CheckRunning(p) ==
  /\ pc[p] = "check"
  /\ pc' = [pc EXCEPT ![p] = IF running[p] THEN "put" ELSE "putStop"]
  /\ UNCHANGED <<objectVars, running, stamp, nextRead, remaining, mainPc>>

Message(p) == [from |-> p, stamp |-> stamp[p]]

PutMessage(p) ==
  /\ pc[p] = "put"
  /\ PutReturns(p, Message(p))
  /\ stamp' = [stamp EXCEPT ![p] = (@ + 1) % Stamps]
  /\ pc' = [pc EXCEPT ![p] = "check"]
  /\ UNCHANGED <<running, nextRead, remaining, mainPc>>

PutStop(p) ==
  /\ pc[p] = "putStop"
  /\ PutReturns(p, Stop)
  /\ pc' = [pc EXCEPT ![p] = "ended"]
  /\ UNCHANGED <<running, stamp, nextRead, remaining, mainPc>>

Putting(p) ==
  /\ \/ pc[p] = "put" /\ InPut(p, Message(p))
     \/ pc[p] = "putStop" /\ InPut(p, Stop)
  /\ UNCHANGED <<threadVars, mainPc>>

(* Mutant: the first Stop ends the consumer. *)
TakeUntilFirstStop ==
  /\ pc[Consumer] = "get"
  /\ GetReturns(Consumer)
  /\ LET item == Returned(Consumer) IN
       IF item = Stop
       THEN /\ remaining' = 0
            /\ UNCHANGED nextRead
       ELSE /\ nextRead' = [nextRead EXCEPT ![item.from] = (item.stamp + 1) % Stamps]
            /\ UNCHANGED remaining
  /\ pc' = [pc EXCEPT ![Consumer] = IF remaining' > 0 THEN "get" ELSE "ended"]
  /\ UNCHANGED <<running, stamp, mainPc>>

(***************************************************************************)
(* Consumer.run: take items until every producer has said goodbye.         *)
(***************************************************************************)
Take ==
  /\ pc[Consumer] = "get"
  /\ GetReturns(Consumer)
  /\ LET item == Returned(Consumer) IN
       IF item = Stop
       THEN /\ remaining' = remaining - 1
            /\ UNCHANGED nextRead
       ELSE /\ nextRead' = [nextRead EXCEPT ![item.from] = (item.stamp + 1) % Stamps]
            /\ UNCHANGED remaining
  /\ pc' = [pc EXCEPT ![Consumer] = IF remaining' > 0 THEN "get" ELSE "ended"]
  /\ UNCHANGED <<running, stamp, mainPc>>

Taking ==
  /\ pc[Consumer] = "get"
  /\ InGet(Consumer)
  /\ UNCHANGED <<threadVars, mainPc>>

(***************************************************************************)
(* main: start them all; sleep, stop and join the producers in turn; join  *)
(* the consumer.                                                           *)
(***************************************************************************)
Start(t) ==
  /\ mainPc = <<"start", t>>
  /\ pc' = [pc EXCEPT ![t] = IF t = Consumer THEN "get" ELSE "check"]
  /\ mainPc' = IF t = Consumer THEN <<"stop", 0>> ELSE <<"start", t + 1>>
  /\ UNCHANGED <<objectVars, running, stamp, nextRead, remaining>>

StopProducer(p) ==
  /\ mainPc = <<"stop", p>>
  /\ running' = [running EXCEPT ![p] = FALSE]
  /\ mainPc' = <<"join", p>>
  /\ UNCHANGED <<objectVars, pc, stamp, nextRead, remaining>>

Join(t) ==
  /\ mainPc = <<"join", t>>
  /\ pc[t] = "ended"
  /\ mainPc' = CASE t = Consumer     -> <<"ended", t>>
                 [] t + 1 = Consumer -> <<"join", Consumer>>
                 [] OTHER            -> <<"stop", t + 1>>
  /\ UNCHANGED <<objectVars, threadVars>>

RunProducer(p) == CheckRunning(p) \/ PutMessage(p) \/ PutStop(p) \/ Putting(p)

RunConsumer == Take \/ Taking

MainStep ==
  \/ \E t \in Thread : Start(t) \/ Join(t)
  \/ \E p \in Producers : StopProducer(p)

UserNext ==
  /\ \/ \E p \in Producers : RunProducer(p)
     \/ RunConsumer
     \/ MainStep
  /\ UNCHANGED choice

(***************************************************************************)
(* Every thread runs on when it can.  A lock, a semaphore and notify() are *)
(* not fair, but they do not pass over a producer for ever: each producer  *)
(* sleeps after a put, while the consumer drains the buffer and leaves the *)
(* one that waits time and units enough.                                   *)
(***************************************************************************)
PassesSemaphore(p) ==
  /\ pc[p] \in {"put", "putStop"}
  /\ SemOnly
  /\ Sem!PassEmpty(p) \/ Sem!PassMutex(p)
  /\ UNCHANGED <<choice, threadVars, mainPc>>

Asleep(p) == p \in empty.waiting \cup mutex.waiting

UserFairness ==
  /\ \A p \in Producers :
       /\ WF_vars(RunProducer(p) /\ UNCHANGED choice)
       /\ SF_vars((PutMessage(p) \/ PutStop(p)) /\ UNCHANGED choice)
       /\ SF_vars(PassesSemaphore(p))
       /\ SF_vars(UserNext /\ Asleep(p) /\ ~Asleep(p)')
  /\ WF_vars(RunConsumer /\ UNCHANGED choice)
  /\ WF_vars(MainStep /\ UNCHANGED choice)

UserSpec == UserInit /\ [][UserNext]_vars /\ UserFairness
-----------------------------------------------------------------------------

(***************************************************************************)
(* Both classes are the same first-in first-out queue; for the monitor     *)
(* this is ImplementsFifo.                                                 *)
(***************************************************************************)
SemFifo == INSTANCE BoundedBuffer
  WITH queue <- IF choice = "sem" THEN Sem!Contents ELSE <<>>, got <- taken

SemImplementsFifo == SemFifo!Spec

(***************************************************************************)
(* The three semaphores account for every slot and every unit, whatever    *)
(* calls are under way.                                                    *)
(***************************************************************************)
UnitsAccounted == Sem!UnitsAccounted

(* V wakes only one thread, but leaves no caller asleep who could go on. *)
NobodyOverslept ==
  Sem!NobodyOverslept({t \in Thread : pc[t] \in {"put", "putStop", "get"}})

(***************************************************************************)
(* No message is lost, repeated or overtaken between a producer's put and  *)
(* the consumer's get, while others deposit in between: of each producer,  *)
(* what the consumer has taken but not seen yet and what is in the buffer  *)
(* run from the stamp it should see next to the last one deposited.        *)
(***************************************************************************)
AfterRing == {"clear", "advance", "leave", "signal"}

Stored == IF choice = "mon" THEN Contents ELSE Sem!Contents

InHand == IF at[Consumer] \in AfterRing THEN taken[Consumer] ELSE <<>>

Deposited(p) == IF pc[p] = "put" /\ at[p] \in AfterRing THEN 1 ELSE 0

Line == InHand \o Stored

MessagesOf(p) == [from : {p}, stamp : 0..(Stamps - 1)]

NumberOf(p, k) == Cardinality({j \in 1..k : Line[j] \in MessagesOf(p)})

MessagesInOrder ==
  \A p \in Producers :
    /\ \A k \in 1..Len(Line) : Line[k] \in MessagesOf(p) =>
         Line[k].stamp = (nextRead[p] + NumberOf(p, k - 1)) % Stamps
    /\ (stamp[p] + Deposited(p)) % Stamps = (nextRead[p] + NumberOf(p, Len(Line))) % Stamps

(***************************************************************************)
(* Each Stop is the last word of its producer, so that the consumer does   *)
(* not leave while anything is in the buffer, or anybody may still put     *)
(* something there.                                                        *)
(***************************************************************************)
NothingLeftBehind ==
  pc[Consumer] = "ended" =>
    /\ Stored = <<>>
    /\ nextRead = stamp
    /\ \A p \in Producers : pc[p] = "ended"

(* The program ends: every join returns, whoever waits for whom meanwhile. *)
Terminates == <>(mainPc = <<"ended", Consumer>>)
=============================================================================
