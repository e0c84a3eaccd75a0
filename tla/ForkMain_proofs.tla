-------------------------- MODULE ForkMain_proofs --------------------------
(***************************************************************************)
(* The dining philosophers with any number of them.  The fork monitor: its *)
(* counters are exact, neighbours never eat together and nobody sleeps     *)
(* without a neighbour who will wake him.  The fork semaphores: each knows *)
(* whether its fork is held, the room counts its seats, nobody sleeps over *)
(* a free unit, and with an odd number of philosophers the only circle of  *)
(* waiting ones is the whole table, without the room.                      *)
(***************************************************************************)
EXTENDS ForkMain, FiniteSetTheorems, WellFoundedInduction, TLAPS

(***************************************************************************)
(* left(i) and right(i) without the modulus.                               *)
(***************************************************************************)
LEMMA Sides ==
  ASSUME NEW i \in Philosopher
  PROVE  /\ Left(i) \in Philosopher
         /\ Right(i) \in Philosopher
         /\ Left(i) = IF i = 0 THEN N - 1 ELSE i - 1
         /\ Right(i) = IF i = N - 1 THEN 0 ELSE i + 1
<1> USE TableAssumption DEF TableAssumption, Philosopher
<1>1. Left(i) = IF i = 0 THEN N - 1 ELSE i - 1
  <2>1. CASE i = 0
    <3>1. (0 - 1) % N = N - 1
      OBVIOUS
    <3> QED
      BY <2>1, <3>1 DEF Left
  <2>2. CASE i # 0
    <3>1. i - 1 \in 0..(N - 1)
      BY <2>2
    <3>2. (i - 1) % N = i - 1
      BY <3>1
    <3> QED
      BY <2>2, <3>2 DEF Left
  <2> QED
    BY <2>1, <2>2
<1>2. Right(i) = IF i = N - 1 THEN 0 ELSE i + 1
  <2>1. CASE i = N - 1
    <3>1. N % N = 0
      OBVIOUS
    <3> QED
      BY <2>1, <3>1 DEF Right
  <2>2. CASE i # N - 1
    <3>1. i + 1 \in 0..(N - 1)
      BY <2>2
    <3>2. (i + 1) % N = i + 1
      BY <3>1
    <3> QED
      BY <2>2, <3>2 DEF Right
  <2> QED
    BY <2>1, <2>2
<1> QED
  BY <1>1, <1>2

(* Being a neighbour is mutual, and nobody is a neighbour of himself. *)
LEMMA Mutual ==
  ASSUME NEW i \in Philosopher, NEW j \in Philosopher
  PROVE  /\ j = Left(i) <=> i = Right(j)
         /\ Left(i) # i
         /\ Right(i) # i
<1> USE TableAssumption DEF TableAssumption, Philosopher
<1>1. /\ Left(i) = IF i = 0 THEN N - 1 ELSE i - 1
      /\ Right(i) = IF i = N - 1 THEN 0 ELSE i + 1
      /\ Right(j) = IF j = N - 1 THEN 0 ELSE j + 1
  BY Sides
<1> QED
  BY <1>1

(***************************************************************************)
(* The inductive invariant.  That neighbours exclude each other follows    *)
(* from the counters only as long as these are exact, and that somebody    *)
(* will wake a philosopher who waits, from the counter he saw.             *)
(***************************************************************************)
Inv ==
  /\ TypeOK
  /\ FreeIsExact
  /\ WaitsForNeighbour
  /\ NeighboursExclude

LEMMA InitInv == Init => Inv
<1> SUFFICES ASSUME Init PROVE Inv
  OBVIOUS
<1> USE TableAssumption DEF TableAssumption, Init, UserInit
<1>1. TypeOK
  BY DEF TypeOK, UserTypeOK
<1>2. \A i \in Philosopher : Taken(Left(i)) = 0 /\ Taken(Right(i)) = 0
  BY Sides DEF Taken
<1>3. FreeIsExact
  BY <1>2 DEF FreeIsExact
<1>4. WaitsForNeighbour /\ NeighboursExclude
  BY Sides DEF WaitsForNeighbour, NeighboursExclude
<1> QED
  BY <1>1, <1>3, <1>4 DEF Inv

(* With full counters neither neighbour eats, and the other way round. *)
LEMMA FullMeansFree ==
  ASSUME Inv, NEW i \in Philosopher
  PROVE  free[i] = 2 <=> pc[Left(i)] # "eating" /\ pc[Right(i)] # "eating"
<1>1. free[i] = 2 - Taken(Left(i)) - Taken(Right(i))
  BY DEF Inv, FreeIsExact
<1> QED
  BY <1>1 DEF Taken

(***************************************************************************)
(* Who starts or ends a meal changes the counters of both neighbours by    *)
(* what it changes about Taken there, so that they stay exact.             *)
(***************************************************************************)
LEMMA StaysExact ==
  ASSUME Inv, NEW i \in Philosopher, NEW d \in {-1, 1},
         AddToNeighbours(i, d),
         Taken(i)' = Taken(i) - d,
         \A j \in Philosopher \ {i} : Taken(j)' = Taken(j)
  PROVE  /\ FreeIsExact'
         /\ free' \in [Philosopher -> 0..2]
<1>1. ASSUME NEW j \in Philosopher
      PROVE  free'[j] = 2 - Taken(Left(j))' - Taken(Right(j))'
  <2> DEFINE l == IF j = Left(i) THEN d ELSE 0
             r == IF j = Right(i) THEN d ELSE 0
  <2>1. free'[j] = free[j] + (l + r)
    <3>1. free'[j] = free[j] + l + r
      BY DEF AddToNeighbours
    <3>2. free[j] \in 0..2 /\ l \in {-1, 0, 1} /\ r \in {-1, 0, 1}
      BY DEF Inv, TypeOK
    <3> QED
      BY <3>1, <3>2
  <2>2. free[j] = 2 - Taken(Left(j)) - Taken(Right(j))
    BY DEF Inv, FreeIsExact
  <2>3. Taken(Left(j))' = Taken(Left(j)) - r
    <3>1. j = Right(i) <=> i = Left(j)
      BY Mutual
    <3>2. Left(j) \in Philosopher /\ Taken(Left(j)) \in Int
      BY Sides DEF Taken
    <3> QED
      BY <3>1, <3>2
  <2>4. Taken(Right(j))' = Taken(Right(j)) - l
    <3>1. j = Left(i) <=> i = Right(j)
      BY Mutual
    <3>2. Right(j) \in Philosopher /\ Taken(Right(j)) \in Int
      BY Sides DEF Taken
    <3> QED
      BY <3>1, <3>2
  <2>5. Taken(Left(j)) \in {0, 1} /\ Taken(Right(j)) \in {0, 1}
    BY DEF Taken
  <2>6. l \in {-1, 0, 1} /\ r \in {-1, 0, 1}
    OBVIOUS
  <2> QED
    BY <2>1, <2>2, <2>3, <2>4, <2>5, <2>6
<1>2. FreeIsExact'
  BY <1>1 DEF FreeIsExact
<1>3. \A j \in Philosopher : Taken(Left(j))' \in {0, 1} /\ Taken(Right(j))' \in {0, 1}
  BY DEF Taken
<1>4. \A j \in Philosopher : free'[j] \in 0..2
  BY <1>1, <1>3
<1> QED
  BY <1>2, <1>4 DEF AddToNeighbours

LEMMA CheckRunningInv ==
  ASSUME Inv, NEW i \in Philosopher, CheckRunning(i), UNCHANGED <<free, waiting>>
  PROVE  Inv'
<1> USE DEF CheckRunning, Goto
<1>1. /\ pc \in [Philosopher -> {"check", "hungry", "eating", "stopped"}]
      /\ pc[i] = "check"
  BY DEF Inv, TypeOK, UserTypeOK
<1>2. /\ pc' \in [Philosopher -> {"check", "hungry", "eating", "stopped"}]
      /\ \A j \in Philosopher : pc'[j] = "eating" <=> pc[j] = "eating"
      /\ \A j \in Philosopher : pc[j] = "hungry" => pc'[j] = "hungry"
  BY <1>1
<1>3. TypeOK'
  BY <1>2 DEF Inv, TypeOK, UserTypeOK
<1>4. \A j \in Philosopher : Taken(Left(j))' = Taken(Left(j)) /\ Taken(Right(j))' = Taken(Right(j))
  BY <1>2, Sides DEF Taken
<1>5. FreeIsExact'
  BY <1>4 DEF Inv, FreeIsExact
<1>6. WaitsForNeighbour' /\ NeighboursExclude'
  BY <1>2, Sides DEF Inv, TypeOK, WaitsForNeighbour, NeighboursExclude
<1> QED
  BY <1>3, <1>5, <1>6 DEF Inv

LEMMA PickUpInv == ASSUME Inv, NEW i \in Philosopher, PickUp(i) PROVE Inv'
<1> USE DEF PickUp, Goto
<1>1. /\ pc \in [Philosopher -> {"check", "hungry", "eating", "stopped"}]
      /\ pc[i] = "hungry"
      /\ pc' = [pc EXCEPT ![i] = "eating"]
  BY DEF Inv, TypeOK, UserTypeOK
<1>2. FreeIsExact' /\ free' \in [Philosopher -> 0..2]
  <2>1. /\ Taken(i)' = Taken(i) - (-1)
        /\ \A j \in Philosopher \ {i} : Taken(j)' = Taken(j)
    BY <1>1 DEF Taken
  <2> QED
    BY <2>1, StaysExact
<1>3. TypeOK'
  BY <1>1, <1>2 DEF Inv, TypeOK, UserTypeOK
<1>4. pc[Left(i)] # "eating" /\ pc[Right(i)] # "eating"
  BY FullMeansFree
<1>5. NeighboursExclude'
  <2> SUFFICES ASSUME NEW j \in Philosopher, pc'[j] = "eating"
               PROVE  pc'[Right(j)] # "eating"
    BY DEF NeighboursExclude
  <2>1. CASE j = i
    BY <2>1, <1>1, <1>4, Sides, Mutual
  <2>2. CASE Right(j) = i
    <3>1. j = Left(i)
      BY <2>2, Mutual
    <3> QED
      BY <3>1, <1>1, <1>4, Mutual
  <2>3. CASE j # i /\ Right(j) # i
    BY <2>3, <1>1, Sides DEF Inv, NeighboursExclude
  <2> QED
    BY <2>1, <2>2, <2>3
<1>6. WaitsForNeighbour'
  <2> SUFFICES ASSUME NEW j \in waiting
               PROVE  pc'[j] = "hungry" /\ (pc'[Left(j)] = "eating" \/ pc'[Right(j)] = "eating")
    BY DEF WaitsForNeighbour
  <2>1. j \in Philosopher /\ j # i
    BY DEF Inv, TypeOK
  <2>2. pc[j] = "hungry" /\ (pc[Left(j)] = "eating" \/ pc[Right(j)] = "eating")
    BY DEF Inv, WaitsForNeighbour
  <2> QED
    BY <2>1, <2>2, <1>1, Sides
<1> QED
  BY <1>2, <1>3, <1>5, <1>6 DEF Inv

LEMMA PickUpWaitsInv == ASSUME Inv, NEW i \in Philosopher, PickUpWaits(i) PROVE Inv'
<1> USE DEF PickUpWaits
<1>1. TypeOK'
  BY DEF Inv, TypeOK, UserTypeOK
<1>2. FreeIsExact' /\ NeighboursExclude'
  BY DEF Inv, FreeIsExact, NeighboursExclude, Taken
<1>3. pc[Left(i)] = "eating" \/ pc[Right(i)] = "eating"
  BY FullMeansFree
<1>4. WaitsForNeighbour'
  BY <1>3 DEF Inv, WaitsForNeighbour
<1> QED
  BY <1>1, <1>2, <1>4 DEF Inv

LEMMA PutDownInv == ASSUME Inv, NEW i \in Philosopher, PutDown(i) PROVE Inv'
<1> USE DEF PutDown, Goto
<1>1. /\ pc \in [Philosopher -> {"check", "hungry", "eating", "stopped"}]
      /\ pc[i] = "eating"
      /\ pc' = [pc EXCEPT ![i] = "check"]
  BY DEF Inv, TypeOK, UserTypeOK
<1>2. FreeIsExact' /\ free' \in [Philosopher -> 0..2]
  <2>1. /\ Taken(i)' = Taken(i) - 1
        /\ \A j \in Philosopher \ {i} : Taken(j)' = Taken(j)
    BY <1>1 DEF Taken
  <2> QED
    BY <2>1, StaysExact
<1>3. TypeOK'
  BY <1>1, <1>2 DEF Inv, TypeOK, UserTypeOK
<1>4. NeighboursExclude'
  BY <1>1, Sides DEF Inv, NeighboursExclude
<1>5. WaitsForNeighbour'
  BY DEF WaitsForNeighbour
<1> QED
  BY <1>2, <1>3, <1>4, <1>5 DEF Inv

LEMMA MainInv == ASSUME Inv, Main PROVE Inv'
<1>1. TypeOK'
  <2> USE TableAssumption DEF TableAssumption, Inv, TypeOK, UserTypeOK, Main
  <2>1. CASE Join
    BY <2>1 DEF Join
  <2>2. CASE \E i \in Philosopher : Stop(i)
    <3> PICK i \in Philosopher : Stop(i)
      BY <2>2
    <3>1. mainPc' \in 0..(N + 1)
      BY DEF Stop, Philosopher
    <3>2. running' \in [Philosopher -> BOOLEAN]
      BY DEF Stop
    <3> QED
      BY <3>1, <3>2 DEF Stop
  <2> QED
    BY <2>1, <2>2 DEF MainStep
<1>2. UNCHANGED <<pc, free, waiting>>
  BY DEF Main, MainStep, Join, Stop
<1> QED
  BY <1>1, <1>2 DEF Inv, FreeIsExact, Taken, WaitsForNeighbour, NeighboursExclude

LEMMA NextInv == ASSUME Inv, [Next]_vars PROVE Inv'
<1>1. CASE \E i \in Philosopher : PhilosopherStep(i)
  <2> PICK i \in Philosopher : PhilosopherStep(i)
    BY <1>1
  <2> QED
    BY CheckRunningInv, PickUpInv, PickUpWaitsInv, PutDownInv DEF PhilosopherStep
<1>2. CASE Main
  BY <1>2, MainInv
<1>3. CASE UNCHANGED vars
  BY <1>3 DEF vars, Inv, TypeOK, UserTypeOK, FreeIsExact, Taken, WaitsForNeighbour,
              NeighboursExclude
<1> QED
  BY <1>1, <1>2, <1>3 DEF Next

(***************************************************************************)
(* The monitor's encoding works for any number of philosophers: although   *)
(* free[i] is left alone while i eats, the counters are exact after every  *)
(* sequence of meals, so that two neighbours never eat together, and a     *)
(* philosopher who waits has a neighbour who eats and will wake him.       *)
(***************************************************************************)
THEOREM Safety ==
  Spec => [](TypeOK /\ FreeIsExact /\ NeighboursExclude /\ WaitsForNeighbour)
<1>1. Init => Inv
  BY InitInv
<1>2. Inv /\ [Next]_vars => Inv'
  BY NextInv
<1>3. Inv => TypeOK /\ FreeIsExact /\ NeighboursExclude /\ WaitsForNeighbour
  BY DEF Inv
<1> QED
  BY <1>1, <1>2, <1>3, PTL DEF Spec
-----------------------------------------------------------------------------
(***************************************************************************)
(* The semaphores.  ForksSem is an instance here, whose table is the same. *)
(***************************************************************************)
LEMMA SameTable ==
  /\ Sem!Philosopher = Philosopher
  /\ \A i : Sem!Left(i) = Left(i) /\ Sem!Right(i) = Right(i)
BY DEF Sem!Philosopher, Philosopher, Sem!Left, Left, Sem!Right, Right

(* So is what it means by the size of a set. *)
LEMMA SameCardinality == \A S : Sem!Cardinality(S) = Cardinality(S)
BY DEF Sem!Cardinality, Cardinality

SemLocations ==
  {"check", "hungry", "takeLeft", "takeRight", "eating", "putRight", "leaveRoom", "stopped"}

SemaphoreOf(units) == [s : units, waiting : SUBSET Philosopher]

SemTypeOK ==
  /\ pc \in [Philosopher -> SemLocations]
  /\ forks \in [Philosopher -> SemaphoreOf({0, 1})]
  /\ room \in SemaphoreOf(Nat)

(* A fork is on the table, or in the hand of exactly one philosopher. *)
OnTable(f) == forks[f].s = 1 /\ Sem!Holders(f) = {}
InHand(f) == forks[f].s = 0 /\ \E i \in Philosopher : Sem!Holders(f) = {i}

ForksExact == \A f \in Philosopher : OnTable(f) \/ InHand(f)

(* Whoever eats took two forks, which two philosophers do not have. *)
TwoForks ==
  \A i \in Philosopher : pc[i] \in {"eating", "putRight"} => Left(i) # Right(i)

(* The room counts the seats that nobody occupies. *)
Inside ==
  {i \in Philosopher : pc[i] \in {"takeLeft", "takeRight", "eating", "putRight", "leaveRoom"}}

RoomExact == choice = "sem" => room.s = (N - 1) - Cardinality(Inside)

SemInv ==
  /\ SemTypeOK
  /\ ForksExact
  /\ TwoForks
  /\ RoomExact

(* Seats are counted: the philosophers inside are finitely many. *)
LEMMA InsideFinite == IsFiniteSet(Inside)
<1>1. IsFiniteSet(Philosopher)
  BY TableAssumption, FS_Interval DEF TableAssumption, Philosopher
<1>2. Inside \in SUBSET Philosopher
  BY DEF Inside
<1> QED
  BY <1>1, <1>2, FS_Subset

LEMMA SemInitInv == ForkInit => SemInv
<1> SUFFICES ASSUME ForkInit PROVE SemInv
  OBVIOUS
<1> USE TableAssumption DEF TableAssumption, ForkInit, Init, UserInit
<1>1. /\ forks = [f \in Philosopher |-> [s |-> 1, waiting |-> {}]]
      /\ room = [s |-> N - 1, waiting |-> {}]
  BY SameTable DEF Sem!NewForks, Sem!NewSemaphore
<1>2. SemTypeOK
  BY <1>1 DEF SemTypeOK, SemaphoreOf, SemLocations
<1>3. \A f : Sem!Holders(f) = {}
  BY SameTable DEF Sem!Holders, Sem!HoldsLeft, Sem!HoldsRight
<1>4. ForksExact
  BY <1>1, <1>3 DEF ForksExact, OnTable
<1>5. TwoForks
  BY DEF TwoForks
<1>6. RoomExact
  <2>1. Inside = {}
    BY DEF Inside
  <2>2. Cardinality(Inside) = 0
    BY <2>1, FS_EmptySet
  <2> QED
    BY <1>1, <2>2 DEF RoomExact
<1> QED
  BY <1>2, <1>4, <1>5, <1>6 DEF SemInv

(***************************************************************************)
(* What P and V do to a semaphore whose units they count.                  *)
(***************************************************************************)
LEMMA PassKeeps ==
  ASSUME NEW sem \in SemaphoreOf(Nat), NEW i, Sem!Passes(sem, i)
  PROVE  /\ Sem!AfterPass(sem) = [s |-> sem.s - 1, waiting |-> sem.waiting]
         /\ sem.s > 0
         /\ Sem!AfterPass(sem) \in SemaphoreOf(Nat)
BY DEF SemaphoreOf, Sem!Passes, Sem!AfterPass

LEMMA WaitKeeps ==
  ASSUME NEW units, NEW sem \in SemaphoreOf(units), NEW i \in Philosopher
  PROVE  /\ Sem!AfterWait(sem, i).s = sem.s
         /\ Sem!AfterWait(sem, i) \in SemaphoreOf(units)
BY DEF SemaphoreOf, Sem!AfterWait

LEMMA VKeeps ==
  ASSUME NEW sem \in SemaphoreOf(Nat), NEW after \in Sem!AfterV(sem)
  PROVE  /\ after.s = sem.s + 1
         /\ after \in SemaphoreOf(Nat)
<1>1. PICK n : after = [s |-> sem.s + 1, waiting |-> sem.waiting \ n]
  BY DEF Sem!AfterV
<1> QED
  BY <1>1 DEF SemaphoreOf

(* Taking a fork: it was on the table, and is in the hand of who took it. *)
LEMMA ForkTaken ==
  ASSUME SemInv, NEW i \in Philosopher, NEW f \in Philosopher,
         Sem!Passes(forks[f], i),
         forks' = [forks EXCEPT ![f] = Sem!AfterPass(@)],
         Sem!Holders(f)' = Sem!Holders(f) \cup {i},
         \A g \in Philosopher \ {f} : Sem!Holders(g)' = Sem!Holders(g)
  PROVE  /\ ForksExact'
         /\ forks' \in [Philosopher -> SemaphoreOf({0, 1})]
         /\ OnTable(f)
<1>1. /\ forks \in [Philosopher -> SemaphoreOf({0, 1})]
      /\ forks[f] \in SemaphoreOf(Nat)
  BY DEF SemInv, SemTypeOK, SemaphoreOf
<1>2. /\ forks[f].s > 0
      /\ Sem!AfterPass(forks[f]) = [s |-> forks[f].s - 1, waiting |-> forks[f].waiting]
  BY <1>1, PassKeeps
<1>3. OnTable(f)
  BY <1>2 DEF SemInv, ForksExact, OnTable, InHand
<1>4. /\ Sem!AfterPass(forks[f]) \in SemaphoreOf({0, 1})
      /\ Sem!AfterPass(forks[f]).s = 0
  BY <1>1, <1>2, <1>3 DEF OnTable, SemaphoreOf
<1>5. InHand(f)'
  BY <1>1, <1>3, <1>4 DEF OnTable, InHand
<1>6. ASSUME NEW g \in Philosopher \ {f} PROVE (OnTable(g) \/ InHand(g))'
  BY <1>1 DEF SemInv, ForksExact, OnTable, InHand
<1> QED
  BY <1>1, <1>3, <1>4, <1>5, <1>6 DEF ForksExact

(* Putting a fork back: who held it was alone. *)
LEMMA ForkPut ==
  ASSUME SemInv, NEW i \in Philosopher, NEW f \in Philosopher,
         NEW sem \in Sem!AfterV(forks[f]),
         forks' = [forks EXCEPT ![f] = sem],
         i \in Sem!Holders(f),
         Sem!Holders(f)' = Sem!Holders(f) \ {i},
         \A g \in Philosopher \ {f} : Sem!Holders(g)' = Sem!Holders(g)
  PROVE  /\ ForksExact'
         /\ forks' \in [Philosopher -> SemaphoreOf({0, 1})]
<1>1. /\ forks \in [Philosopher -> SemaphoreOf({0, 1})]
      /\ forks[f] \in SemaphoreOf(Nat)
  BY DEF SemInv, SemTypeOK, SemaphoreOf
<1>2. sem.s = forks[f].s + 1 /\ sem \in SemaphoreOf(Nat)
  BY <1>1, VKeeps
<1>3. forks[f].s = 0 /\ Sem!Holders(f) = {i}
  BY DEF SemInv, ForksExact, OnTable, InHand
<1>4. sem \in SemaphoreOf({0, 1}) /\ sem.s = 1
  BY <1>2, <1>3 DEF SemaphoreOf
<1>5. OnTable(f)'
  BY <1>1, <1>3, <1>4 DEF OnTable
<1>6. ASSUME NEW g \in Philosopher \ {f} PROVE (OnTable(g) \/ InHand(g))'
  BY <1>1 DEF SemInv, ForksExact, OnTable, InHand
<1> QED
  BY <1>1, <1>4, <1>5, <1>6 DEF ForksExact

(* A step that takes and puts back nothing, only starts to wait perhaps. *)
LEMMA ForksLeft ==
  ASSUME SemInv,
         \A f \in Philosopher : forks'[f].s = forks[f].s,
         \A f \in Philosopher : Sem!Holders(f)' = Sem!Holders(f)
  PROVE  ForksExact'
BY DEF SemInv, ForksExact, OnTable, InHand

(* Nobody enters or leaves the room. *)
LEMMA SeatsLeft ==
  ASSUME SemInv, UNCHANGED choice, room'.s = room.s, Inside' = Inside
  PROVE  RoomExact'
BY DEF SemInv, RoomExact

(* What one philosopher's move changes about who holds what. *)
LEMMA HoldersAfter ==
  ASSUME SemTypeOK, NEW i \in Philosopher, NEW to, pc' = [pc EXCEPT ![i] = to],
         NEW f
  PROVE  /\ \A j : j # i => (j \in Sem!Holders(f)' <=> j \in Sem!Holders(f))
         /\ i \in Sem!Holders(f) <=> \/ Left(i) = f /\ pc[i] \in {"takeRight", "eating"}
                                     \/ Right(i) = f /\ pc[i] \in {"eating", "putRight"}
         /\ i \in Sem!Holders(f)' <=> \/ Left(i) = f /\ to \in {"takeRight", "eating"}
                                      \/ Right(i) = f /\ to \in {"eating", "putRight"}
BY SameTable DEF Sem!Holders, Sem!HoldsLeft, Sem!HoldsRight, SemTypeOK

(* A move that neither takes nor puts back a fork. *)
LEMMA NoForkMoved ==
  ASSUME SemInv, NEW i \in Philosopher, NEW from, NEW to \in SemLocations,
         from \notin {"takeRight", "eating", "putRight"},
         to \notin {"takeRight", "eating", "putRight"},
         pc[i] = from, pc' = [pc EXCEPT ![i] = to], UNCHANGED forks
  PROVE  /\ ForksExact'
         /\ TwoForks'
         /\ pc' \in [Philosopher -> SemLocations]
<1>1. SemTypeOK
  BY DEF SemInv
<1>2. ASSUME NEW f \in Philosopher PROVE Sem!Holders(f)' = Sem!Holders(f)
  <2>1. \A j : j \in Sem!Holders(f)' <=> j \in Sem!Holders(f)
    BY <1>1, HoldersAfter
  <2> QED
    BY <2>1 DEF Sem!Holders
<1>3. ForksExact'
  BY <1>2, ForksLeft
<1> QED
  BY <1>1, <1>3 DEF SemInv, TwoForks, SemTypeOK

LEMMA SemCheckRunningInv ==
  ASSUME SemInv, NEW i \in Philosopher, Sem!CheckRunning(i), UNCHANGED <<choice, forks, room>>
  PROVE  SemInv'
<1>1. PICK to \in {"hungry", "stopped"} : pc[i] = "check" /\ pc' = [pc EXCEPT ![i] = to]
  BY DEF Sem!CheckRunning, Sem!Goto
<1>2. ForksExact' /\ TwoForks' /\ pc' \in [Philosopher -> SemLocations]
  BY <1>1, NoForkMoved DEF SemLocations
<1>3. SemTypeOK'
  BY <1>2 DEF SemInv, SemTypeOK
<1>4. Inside' = Inside
  BY <1>1 DEF Inside, SemInv, SemTypeOK
<1>5. RoomExact'
  BY <1>4, SeatsLeft
<1> QED
  BY <1>2, <1>3, <1>5 DEF SemInv

LEMMA EnterRoomInv ==
  ASSUME SemInv, NEW i \in Philosopher, Sem!EnterRoom(i), UNCHANGED choice
  PROVE  SemInv'
<1>1. /\ pc[i] = "hungry"
      /\ pc' = [pc EXCEPT ![i] = "takeLeft"]
      /\ UNCHANGED forks
  BY DEF Sem!EnterRoom, Sem!Goto
<1>2. ForksExact' /\ TwoForks' /\ pc' \in [Philosopher -> SemLocations]
  BY <1>1, NoForkMoved DEF SemLocations
<1>3. /\ room \in SemaphoreOf(Nat)
      /\ choice = "sem" => Sem!Passes(room, i) /\ room' = Sem!AfterPass(room)
      /\ choice # "sem" => room' = room
  BY DEF SemInv, SemTypeOK, Sem!EnterRoom, Sem!UseRoom
<1>4. /\ room' \in SemaphoreOf(Nat)
      /\ choice = "sem" => room'.s = room.s - 1
  <2>1. CASE choice = "sem"
    BY <2>1, <1>3, PassKeeps
  <2>2. CASE choice # "sem"
    BY <2>2, <1>3
  <2> QED
    BY <2>1, <2>2
<1>5. SemTypeOK'
  BY <1>1, <1>2, <1>4 DEF SemInv, SemTypeOK
<1>6. Inside' = Inside \cup {i} /\ i \notin Inside
  BY <1>1 DEF Inside, SemInv, SemTypeOK
<1>7. Cardinality(Inside') = Cardinality(Inside) + 1 /\ Cardinality(Inside) \in Nat
  BY <1>6, InsideFinite, FS_AddElement, FS_CardinalityType
<1>8. RoomExact'
  BY <1>3, <1>4, <1>7, TableAssumption DEF TableAssumption, SemInv, RoomExact, SemaphoreOf
<1> QED
  BY <1>2, <1>5, <1>8 DEF SemInv

LEMMA WaitRoomInv ==
  ASSUME SemInv, NEW i \in Philosopher, Sem!WaitRoom(i), UNCHANGED choice
  PROVE  SemInv'
<1>1. UNCHANGED <<pc, forks>> /\ room' = Sem!AfterWait(room, i)
  BY DEF Sem!WaitRoom
<1>2. room'.s = room.s /\ room' \in SemaphoreOf(Nat)
  BY <1>1, WaitKeeps DEF SemInv, SemTypeOK
<1>3. SemTypeOK' /\ TwoForks'
  BY <1>1, <1>2 DEF SemInv, SemTypeOK, TwoForks
<1>4. ForksExact'
  BY <1>1, ForksLeft DEF Sem!Holders, Sem!HoldsLeft, Sem!HoldsRight
<1>5. RoomExact'
  BY <1>1, <1>2, SeatsLeft DEF Inside
<1> QED
  BY <1>3, <1>4, <1>5 DEF SemInv

LEMMA WaitForkInv ==
  ASSUME SemInv, NEW i \in Philosopher, NEW f \in Philosopher, NEW from,
         Sem!WaitFork(i, f, from), UNCHANGED choice
  PROVE  SemInv'
<1>1. /\ UNCHANGED <<pc, room>>
      /\ forks' = [forks EXCEPT ![f] = Sem!AfterWait(@, i)]
  BY DEF Sem!WaitFork
<1>2. /\ forks \in [Philosopher -> SemaphoreOf({0, 1})]
      /\ Sem!AfterWait(forks[f], i).s = forks[f].s
      /\ Sem!AfterWait(forks[f], i) \in SemaphoreOf({0, 1})
  BY WaitKeeps DEF SemInv, SemTypeOK
<1>3. SemTypeOK' /\ TwoForks'
  BY <1>1, <1>2 DEF SemInv, SemTypeOK, TwoForks
<1>4. \A g \in Philosopher : forks'[g].s = forks[g].s
  BY <1>1, <1>2
<1>5. ForksExact'
  BY <1>1, <1>4, ForksLeft DEF Sem!Holders, Sem!HoldsLeft, Sem!HoldsRight
<1>6. RoomExact'
  BY <1>1, SeatsLeft DEF Inside
<1> QED
  BY <1>3, <1>5, <1>6 DEF SemInv

(* A move of somebody who is inside and stays there. *)
LEMMA StaysInside ==
  ASSUME SemInv, NEW i \in Philosopher,
         NEW from \in {"takeLeft", "takeRight", "eating", "putRight"},
         NEW to \in {"takeRight", "eating", "putRight", "leaveRoom"},
         pc[i] = from, pc' = [pc EXCEPT ![i] = to], UNCHANGED <<choice, room>>,
         forks' \in [Philosopher -> SemaphoreOf({0, 1})]
  PROVE  SemTypeOK' /\ RoomExact'
<1>1. SemTypeOK'
  BY DEF SemInv, SemTypeOK, SemLocations
<1>2. Inside' = Inside
  BY DEF Inside, SemInv, SemTypeOK
<1> QED
  BY <1>1, <1>2, SeatsLeft

LEMMA TakeLeftInv ==
  ASSUME SemInv, NEW i \in Philosopher, UNCHANGED choice,
         Sem!TakeFork(i, Left(i), "takeLeft", "takeRight")
  PROVE  SemInv'
<1> DEFINE f == Left(i)
<1>1. /\ pc[i] = "takeLeft" /\ pc' = [pc EXCEPT ![i] = "takeRight"]
      /\ Sem!Passes(forks[f], i)
      /\ forks' = [forks EXCEPT ![f] = Sem!AfterPass(@)]
      /\ UNCHANGED room
  BY DEF Sem!TakeFork, Sem!Goto
<1>2. SemTypeOK /\ f \in Philosopher
  BY Sides DEF SemInv
<1>3. Sem!Holders(f)' = Sem!Holders(f) \cup {i}
  <2>1. \A j : j \in Sem!Holders(f)' <=> j \in Sem!Holders(f) \cup {i}
    BY <1>1, <1>2, HoldersAfter
  <2> QED
    BY <2>1 DEF Sem!Holders
<1>4. ASSUME NEW g \in Philosopher \ {f} PROVE Sem!Holders(g)' = Sem!Holders(g)
  <2>1. \A j : j # i => (j \in Sem!Holders(g)' <=> j \in Sem!Holders(g))
    BY <1>1, <1>2, HoldersAfter
  <2>2. i \in Sem!Holders(g)' <=> i \in Sem!Holders(g)
    BY <1>1, <1>2, SameTable DEF Sem!Holders, Sem!HoldsLeft, Sem!HoldsRight, SemTypeOK
  <2> QED
    BY <2>1, <2>2 DEF Sem!Holders
<1>5. ForksExact' /\ forks' \in [Philosopher -> SemaphoreOf({0, 1})]
  BY <1>1, <1>2, <1>3, <1>4, ForkTaken
<1>6. SemTypeOK' /\ RoomExact'
  BY <1>1, <1>5, StaysInside
<1>7. TwoForks'
  BY <1>1 DEF SemInv, SemTypeOK, TwoForks
<1> QED
  BY <1>5, <1>6, <1>7 DEF SemInv

(* The right fork is free, so that it is not the one in his left hand. *)
LEMMA TakeRightInv ==
  ASSUME SemInv, NEW i \in Philosopher, UNCHANGED choice,
         Sem!TakeFork(i, Right(i), "takeRight", "eating")
  PROVE  SemInv'
<1> DEFINE f == Right(i)
<1>1. /\ pc[i] = "takeRight" /\ pc' = [pc EXCEPT ![i] = "eating"]
      /\ Sem!Passes(forks[f], i)
      /\ forks' = [forks EXCEPT ![f] = Sem!AfterPass(@)]
      /\ UNCHANGED room
  BY DEF Sem!TakeFork, Sem!Goto
<1>2. SemTypeOK /\ f \in Philosopher
  BY Sides DEF SemInv
<1>3. Sem!Holders(f)' = Sem!Holders(f) \cup {i}
  <2>1. \A j : j \in Sem!Holders(f)' <=> j \in Sem!Holders(f) \cup {i}
    BY <1>1, <1>2, HoldersAfter
  <2> QED
    BY <2>1 DEF Sem!Holders
<1>4. ASSUME NEW g \in Philosopher \ {f} PROVE Sem!Holders(g)' = Sem!Holders(g)
  <2>1. \A j : j # i => (j \in Sem!Holders(g)' <=> j \in Sem!Holders(g))
    BY <1>1, <1>2, HoldersAfter
  <2>2. i \in Sem!Holders(g)' <=> i \in Sem!Holders(g)
    BY <1>1, <1>2, SameTable DEF Sem!Holders, Sem!HoldsLeft, Sem!HoldsRight, SemTypeOK
  <2> QED
    BY <2>1, <2>2 DEF Sem!Holders
<1>5. ForksExact' /\ forks' \in [Philosopher -> SemaphoreOf({0, 1})] /\ OnTable(f)
  BY <1>1, <1>2, <1>3, <1>4, ForkTaken
<1>6. SemTypeOK' /\ RoomExact'
  BY <1>1, <1>5, StaysInside
<1>7. Left(i) # Right(i)
  BY <1>1, <1>2, <1>5, HoldersAfter DEF OnTable
<1>8. TwoForks'
  BY <1>1, <1>7 DEF SemInv, SemTypeOK, TwoForks
<1> QED
  BY <1>5, <1>6, <1>8 DEF SemInv

LEMMA PutLeftInv ==
  ASSUME SemInv, NEW i \in Philosopher, UNCHANGED choice,
         Sem!PutFork(i, Left(i), "eating", "putRight")
  PROVE  SemInv'
<1> DEFINE f == Left(i)
<1>1. /\ pc[i] = "eating" /\ pc' = [pc EXCEPT ![i] = "putRight"]
      /\ UNCHANGED room
  BY DEF Sem!PutFork, Sem!Goto
<1>2. PICK sem \in Sem!AfterV(forks[f]) : forks' = [forks EXCEPT ![f] = sem]
  BY DEF Sem!PutFork
<1>3. SemTypeOK /\ f \in Philosopher /\ f # Right(i)
  BY <1>1, Sides DEF SemInv, TwoForks
<1>4. Sem!Holders(f)' = Sem!Holders(f) \ {i} /\ i \in Sem!Holders(f)
  <2>1. \A j : j # i => (j \in Sem!Holders(f)' <=> j \in Sem!Holders(f))
    BY <1>1, <1>3, HoldersAfter
  <2>2. i \in Sem!Holders(f) /\ i \notin Sem!Holders(f)'
    BY <1>1, <1>3, SameTable DEF Sem!Holders, Sem!HoldsLeft, Sem!HoldsRight, SemTypeOK
  <2> QED
    BY <2>1, <2>2 DEF Sem!Holders
<1>5. ASSUME NEW g \in Philosopher \ {f} PROVE Sem!Holders(g)' = Sem!Holders(g)
  <2>1. \A j : j # i => (j \in Sem!Holders(g)' <=> j \in Sem!Holders(g))
    BY <1>1, <1>3, HoldersAfter
  <2>2. i \in Sem!Holders(g)' <=> i \in Sem!Holders(g)
    BY <1>1, <1>3, SameTable DEF Sem!Holders, Sem!HoldsLeft, Sem!HoldsRight, SemTypeOK
  <2> QED
    BY <2>1, <2>2 DEF Sem!Holders
<1>6. ForksExact' /\ forks' \in [Philosopher -> SemaphoreOf({0, 1})]
  BY <1>2, <1>3, <1>4, <1>5, ForkPut
<1>7. SemTypeOK' /\ RoomExact'
  BY <1>1, <1>6, StaysInside
<1>8. TwoForks'
  BY <1>1 DEF SemInv, SemTypeOK, TwoForks
<1> QED
  BY <1>6, <1>7, <1>8 DEF SemInv

LEMMA PutRightInv ==
  ASSUME SemInv, NEW i \in Philosopher, UNCHANGED choice,
         Sem!PutFork(i, Right(i), "putRight", "leaveRoom")
  PROVE  SemInv'
<1> DEFINE f == Right(i)
<1>1. /\ pc[i] = "putRight" /\ pc' = [pc EXCEPT ![i] = "leaveRoom"]
      /\ UNCHANGED room
  BY DEF Sem!PutFork, Sem!Goto
<1>2. PICK sem \in Sem!AfterV(forks[f]) : forks' = [forks EXCEPT ![f] = sem]
  BY DEF Sem!PutFork
<1>3. SemTypeOK /\ f \in Philosopher
  BY Sides DEF SemInv
<1>4. Sem!Holders(f)' = Sem!Holders(f) \ {i} /\ i \in Sem!Holders(f)
  <2>1. \A j : j # i => (j \in Sem!Holders(f)' <=> j \in Sem!Holders(f))
    BY <1>1, <1>3, HoldersAfter
  <2>2. i \in Sem!Holders(f) /\ i \notin Sem!Holders(f)'
    BY <1>1, <1>3, SameTable DEF Sem!Holders, Sem!HoldsLeft, Sem!HoldsRight, SemTypeOK
  <2> QED
    BY <2>1, <2>2 DEF Sem!Holders
<1>5. ASSUME NEW g \in Philosopher \ {f} PROVE Sem!Holders(g)' = Sem!Holders(g)
  <2>1. \A j : j # i => (j \in Sem!Holders(g)' <=> j \in Sem!Holders(g))
    BY <1>1, <1>3, HoldersAfter
  <2>2. i \in Sem!Holders(g)' <=> i \in Sem!Holders(g)
    BY <1>1, <1>3, SameTable DEF Sem!Holders, Sem!HoldsLeft, Sem!HoldsRight, SemTypeOK
  <2> QED
    BY <2>1, <2>2 DEF Sem!Holders
<1>6. ForksExact' /\ forks' \in [Philosopher -> SemaphoreOf({0, 1})]
  BY <1>2, <1>3, <1>4, <1>5, ForkPut
<1>7. SemTypeOK' /\ RoomExact'
  BY <1>1, <1>6, StaysInside
<1>8. TwoForks'
  BY <1>1 DEF SemInv, SemTypeOK, TwoForks
<1> QED
  BY <1>6, <1>7, <1>8 DEF SemInv

LEMMA LeaveRoomInv ==
  ASSUME SemInv, NEW i \in Philosopher, Sem!LeaveRoom(i), UNCHANGED choice
  PROVE  SemInv'
<1>1. /\ pc[i] = "leaveRoom"
      /\ pc' = [pc EXCEPT ![i] = "check"]
      /\ UNCHANGED forks
  BY DEF Sem!LeaveRoom, Sem!Goto
<1>2. ForksExact' /\ TwoForks' /\ pc' \in [Philosopher -> SemLocations]
  BY <1>1, NoForkMoved DEF SemLocations
<1>3. /\ room \in SemaphoreOf(Nat)
      /\ choice = "sem" => room' \in Sem!AfterV(room)
      /\ choice # "sem" => room' = room
  BY DEF SemInv, SemTypeOK, Sem!LeaveRoom, Sem!UseRoom
<1>4. /\ room' \in SemaphoreOf(Nat)
      /\ choice = "sem" => room'.s = room.s + 1
  <2>1. CASE choice = "sem"
    BY <2>1, <1>3, VKeeps
  <2>2. CASE choice # "sem"
    BY <2>2, <1>3
  <2> QED
    BY <2>1, <2>2
<1>5. SemTypeOK'
  BY <1>1, <1>2, <1>4 DEF SemInv, SemTypeOK
<1>6. Inside' = Inside \ {i} /\ i \in Inside
  BY <1>1 DEF Inside, SemInv, SemTypeOK
<1>7. Cardinality(Inside') = Cardinality(Inside) - 1 /\ Cardinality(Inside) \in Nat
  BY <1>6, InsideFinite, FS_RemoveElement, FS_CardinalityType
<1>8. RoomExact'
  BY <1>3, <1>4, <1>7, TableAssumption DEF TableAssumption, SemInv, RoomExact, SemaphoreOf
<1> QED
  BY <1>2, <1>5, <1>8 DEF SemInv

LEMMA SemStepInv ==
  ASSUME SemInv, NEW i \in Philosopher, Sem!PhilosopherStep(i)
  PROVE  SemInv'
<1>1. UNCHANGED choice
  BY DEF Sem!PhilosopherStep
<1>2. Sem!Left(i) = Left(i) /\ Sem!Right(i) = Right(i)
  BY SameTable
<1>3. CASE Sem!CheckRunning(i) /\ UNCHANGED <<forks, room>>
  BY <1>1, <1>3, SemCheckRunningInv
<1>4. CASE Sem!PickUp(i)
  <2>1. Left(i) \in Philosopher /\ Right(i) \in Philosopher
    BY Sides
  <2> QED
    BY <2>1, <1>1, <1>2, <1>4, EnterRoomInv, WaitRoomInv, WaitForkInv, TakeLeftInv, TakeRightInv
       DEF Sem!PickUp
<1>5. CASE Sem!PutDown(i)
  BY <1>1, <1>2, <1>5, PutLeftInv, PutRightInv, LeaveRoomInv DEF Sem!PutDown
<1> QED
  BY <1>3, <1>4, <1>5 DEF Sem!PhilosopherStep
-----------------------------------------------------------------------------
(***************************************************************************)
(* Who sleeps at a semaphore.  It serves those who call P if all who sleep *)
(* are among them, and, while any sleeps, the units that are free are no   *)
(* more than the callers awake.                                            *)
(***************************************************************************)
Serves(sem, callers) ==
  /\ sem.waiting \subseteq callers
  /\ sem.waiting # {} => sem.s <= Cardinality(callers \ sem.waiting)

Served ==
  /\ \A f \in Philosopher : Serves(forks[f], Sem!Reaching(f))
  /\ choice = "sem" => Serves(room, Sem!Hungry)

LEMMA FinitePhilosophers ==
  ASSUME NEW S \in SUBSET Philosopher
  PROVE  IsFiniteSet(S) /\ Cardinality(S) \in Nat
<1>1. IsFiniteSet(Philosopher)
  BY TableAssumption, FS_Interval DEF TableAssumption, Philosopher
<1> QED
  BY <1>1, FS_Subset, FS_CardinalityType

(* Whoever passes takes a unit and is himself no longer on his way. *)
LEMMA PassServes ==
  ASSUME NEW sem \in SemaphoreOf(Nat), NEW callers \in SUBSET Philosopher,
         NEW i \in callers, NEW more \in SUBSET Philosopher, callers \ {i} \subseteq more,
         Serves(sem, callers), Sem!Passes(sem, i)
  PROVE  Serves(Sem!AfterPass(sem), more)
<1>1. /\ sem.s > 0 /\ sem.s \in Nat /\ i \notin sem.waiting
      /\ Sem!AfterPass(sem) = [s |-> sem.s - 1, waiting |-> sem.waiting]
  BY DEF SemaphoreOf, Sem!Passes, Sem!AfterPass
<1>2. (callers \ sem.waiting) \ {i} \in SUBSET (more \ sem.waiting)
  OBVIOUS
<1>3. IsFiniteSet(callers \ sem.waiting) /\ IsFiniteSet(more \ sem.waiting)
  BY FinitePhilosophers
<1>4. Cardinality((callers \ sem.waiting) \ {i}) = Cardinality(callers \ sem.waiting) - 1
  BY <1>1, <1>3, FS_RemoveElement
<1>5. Cardinality((callers \ sem.waiting) \ {i}) <= Cardinality(more \ sem.waiting)
  BY <1>2, <1>3, FS_Subset
<1>6. /\ Cardinality(callers \ sem.waiting) \in Nat
      /\ Cardinality(more \ sem.waiting) \in Nat
  BY <1>3, FS_CardinalityType
<1>7. sem.waiting # {} => sem.s - 1 <= Cardinality(more \ sem.waiting)
  BY <1>1, <1>4, <1>5, <1>6 DEF Serves
<1>8. sem.waiting \subseteq more
  BY <1>1 DEF Serves
<1> QED
  BY <1>1, <1>7, <1>8 DEF Serves

LEMMA WaitServes ==
  ASSUME NEW sem \in SemaphoreOf(Nat), NEW callers \in SUBSET Philosopher,
         NEW i \in callers, Serves(sem, callers), Sem!Waits(sem, i)
  PROVE  Serves(Sem!AfterWait(sem, i), callers)
<1>1. /\ sem.s = 0
      /\ Sem!AfterWait(sem, i) = [s |-> sem.s, waiting |-> sem.waiting \cup {i}]
  BY DEF SemaphoreOf, Sem!Waits, Sem!AfterWait
<1>2. Cardinality(callers \ (sem.waiting \cup {i})) \in Nat
  BY FinitePhilosophers
<1> QED
  BY <1>1, <1>2 DEF Serves

(* The unit that V gives back is left to the one whom it wakes. *)
LEMMA VServes ==
  ASSUME NEW sem \in SemaphoreOf(Nat), NEW callers \in SUBSET Philosopher,
         Serves(sem, callers), NEW after \in Sem!AfterV(sem)
  PROVE  Serves(after, callers)
<1>1. CASE sem.waiting = {}
  BY <1>1 DEF Serves, SemaphoreOf, Sem!AfterV
<1>2. CASE sem.waiting # {}
  <2>1. PICK j \in sem.waiting : after = [s |-> sem.s + 1, waiting |-> sem.waiting \ {j}]
    BY <1>2 DEF Sem!AfterV
  <2>2. callers \ (sem.waiting \ {j}) = (callers \ sem.waiting) \cup {j}
    BY DEF Serves
  <2>3. IsFiniteSet(callers \ sem.waiting) /\ j \notin callers \ sem.waiting
    BY FinitePhilosophers
  <2>4. Cardinality(callers \ (sem.waiting \ {j})) = Cardinality(callers \ sem.waiting) + 1
    BY <2>2, <2>3, FS_AddElement
  <2>5. Cardinality(callers \ sem.waiting) \in Nat /\ sem.s \in Nat
    BY <2>3, FS_CardinalityType DEF SemaphoreOf
  <2> QED
    BY <1>2, <2>1, <2>4, <2>5 DEF Serves, SemaphoreOf
<1> QED
  BY <1>1, <1>2

(* Another caller does no harm. *)
LEMMA MoreCall ==
  ASSUME NEW sem \in SemaphoreOf(Nat), NEW callers \in SUBSET Philosopher,
         NEW more \in SUBSET Philosopher, callers \subseteq more, Serves(sem, callers)
  PROVE  Serves(sem, more)
<1>1. /\ callers \ sem.waiting \in SUBSET (more \ sem.waiting)
      /\ IsFiniteSet(more \ sem.waiting)
      /\ Cardinality(callers \ sem.waiting) \in Nat
      /\ Cardinality(more \ sem.waiting) \in Nat
  BY FinitePhilosophers
<1>2. Cardinality(callers \ sem.waiting) <= Cardinality(more \ sem.waiting)
  BY <1>1, FS_Subset
<1> QED
  BY <1>1, <1>2 DEF Serves, SemaphoreOf

(* What one philosopher's move changes about who calls P where. *)
LEMMA CallersAfter ==
  ASSUME SemTypeOK, NEW i \in Philosopher, NEW to, pc' = [pc EXCEPT ![i] = to]
  PROVE  /\ \A f : Sem!Reaching(f) \ {i} \subseteq Sem!Reaching(f)'
         /\ Sem!Hungry \ {i} \subseteq Sem!Hungry'
         /\ \A f : i \in Sem!Reaching(f) <=> \/ Left(i) = f /\ pc[i] = "takeLeft"
                                             \/ Right(i) = f /\ pc[i] = "takeRight"
         /\ i \in Sem!Hungry <=> pc[i] = "hungry"
BY SameTable DEF Sem!Reaching, Sem!Hungry, SemTypeOK

LEMMA CallersTyped ==
  /\ \A f : Sem!Reaching(f) \in SUBSET Philosopher
  /\ Sem!Hungry \in SUBSET Philosopher
BY SameTable DEF Sem!Reaching, Sem!Hungry

LEMMA CallersTypedAfter ==
  /\ \A f : Sem!Reaching(f)' \in SUBSET Philosopher
  /\ Sem!Hungry' \in SUBSET Philosopher
BY SameTable DEF Sem!Reaching, Sem!Hungry

LEMMA SemaphoresTyped ==
  ASSUME SemTypeOK
  PROVE  /\ \A f \in Philosopher : forks[f] \in SemaphoreOf(Nat)
         /\ room \in SemaphoreOf(Nat)
BY DEF SemTypeOK, SemaphoreOf

(* Who was not on his way to a fork moves, and leaves that fork alone. *)
LEMMA ForkStaysServed ==
  ASSUME SemTypeOK, Served, NEW i \in Philosopher, NEW to, pc' = [pc EXCEPT ![i] = to],
         NEW f \in Philosopher, i \notin Sem!Reaching(f), forks'[f] = forks[f]
  PROVE  Serves(forks'[f], Sem!Reaching(f)')
<1>1. Sem!Reaching(f) \subseteq Sem!Reaching(f)'
  BY CallersAfter
<1> QED
  BY <1>1, MoreCall, CallersTyped, CallersTypedAfter, SemaphoresTyped DEF Served

LEMMA RoomStaysServed ==
  ASSUME SemTypeOK, Served, NEW i \in Philosopher, NEW to, pc' = [pc EXCEPT ![i] = to],
         pc[i] # "hungry", UNCHANGED <<choice, room>>
  PROVE  choice' = "sem" => Serves(room', Sem!Hungry')
<1>1. Sem!Hungry \subseteq Sem!Hungry'
  BY CallersAfter
<1> QED
  BY <1>1, MoreCall, CallersTyped, CallersTypedAfter, SemaphoresTyped DEF Served

LEMMA CheckRunningServed ==
  ASSUME SemTypeOK, Served, NEW i \in Philosopher, Sem!CheckRunning(i),
         UNCHANGED <<choice, forks, room>>
  PROVE  Served'
<1>1. PICK to : pc[i] = "check" /\ pc' = [pc EXCEPT ![i] = to]
  BY DEF Sem!CheckRunning, Sem!Goto
<1>2. \A f : i \notin Sem!Reaching(f)
  BY <1>1, CallersAfter
<1> QED
  BY <1>1, <1>2, ForkStaysServed, RoomStaysServed DEF Served

LEMMA EnterRoomServed ==
  ASSUME SemTypeOK, Served, NEW i \in Philosopher, Sem!EnterRoom(i), UNCHANGED choice
  PROVE  Served'
<1>1. /\ pc[i] = "hungry" /\ pc' = [pc EXCEPT ![i] = "takeLeft"] /\ UNCHANGED forks
      /\ choice = "sem" => Sem!Passes(room, i) /\ room' = Sem!AfterPass(room)
  BY DEF Sem!EnterRoom, Sem!Goto, Sem!UseRoom
<1>2. \A f : i \notin Sem!Reaching(f)
  BY <1>1, CallersAfter
<1>3. \A f \in Philosopher : Serves(forks'[f], Sem!Reaching(f)')
  BY <1>1, <1>2, ForkStaysServed
<1>4. choice = "sem" => Serves(room', Sem!Hungry')
  <2>1. i \in Sem!Hungry /\ Sem!Hungry \ {i} \subseteq Sem!Hungry'
    BY <1>1, CallersAfter
  <2> QED
    BY <1>1, <2>1, PassServes, CallersTyped, CallersTypedAfter, SemaphoresTyped DEF Served
<1> QED
  BY <1>3, <1>4 DEF Served

LEMMA WaitRoomServed ==
  ASSUME SemTypeOK, Served, NEW i \in Philosopher, Sem!WaitRoom(i), UNCHANGED choice
  PROVE  Served'
<1>1. /\ pc[i] = "hungry" /\ UNCHANGED <<pc, forks>>
      /\ Sem!Waits(room, i) /\ room' = Sem!AfterWait(room, i)
      /\ choice = "sem"
  BY DEF Sem!WaitRoom, Sem!UseRoom
<1>2. i \in Sem!Hungry
  BY <1>1, SameTable DEF Sem!Hungry
<1>3. Serves(room', Sem!Hungry)
  BY <1>1, <1>2, WaitServes, CallersTyped, SemaphoresTyped DEF Served
<1>4. Sem!Hungry' = Sem!Hungry /\ \A f : Sem!Reaching(f)' = Sem!Reaching(f)
  BY <1>1 DEF Sem!Hungry, Sem!Reaching
<1> QED
  BY <1>1, <1>3, <1>4 DEF Served

LEMMA TakeForkServed ==
  ASSUME SemTypeOK, Served, NEW i \in Philosopher, NEW f \in Philosopher, NEW from, NEW to,
         Sem!TakeFork(i, f, from, to), UNCHANGED choice,
         \/ from = "takeLeft" /\ f = Left(i)
         \/ from = "takeRight" /\ f = Right(i)
  PROVE  Served'
<1>1. /\ pc[i] = from /\ pc' = [pc EXCEPT ![i] = to] /\ UNCHANGED room
      /\ Sem!Passes(forks[f], i)
      /\ forks' = [forks EXCEPT ![f] = Sem!AfterPass(@)]
  BY DEF Sem!TakeFork, Sem!Goto
<1>2. /\ i \in Sem!Reaching(f)
      /\ \A g : g # f => i \notin Sem!Reaching(g)
      /\ Sem!Reaching(f) \ {i} \subseteq Sem!Reaching(f)'
  BY <1>1, CallersAfter
<1>3. /\ forks'[f] = Sem!AfterPass(forks[f])
      /\ \A g \in Philosopher \ {f} : forks'[g] = forks[g]
  BY <1>1 DEF SemTypeOK
<1>4. Serves(forks'[f], Sem!Reaching(f)')
  <2>1. Serves(Sem!AfterPass(forks[f]), Sem!Reaching(f)')
    BY <1>1, <1>2, PassServes, CallersTyped, CallersTypedAfter, SemaphoresTyped DEF Served
  <2> QED
    BY <2>1, <1>3
<1>5. \A g \in Philosopher \ {f} : Serves(forks'[g], Sem!Reaching(g)')
  BY <1>1, <1>2, <1>3, ForkStaysServed
<1>6. choice' = "sem" => Serves(room', Sem!Hungry')
  BY <1>1, RoomStaysServed
<1> QED
  BY <1>4, <1>5, <1>6 DEF Served

LEMMA WaitForkServed ==
  ASSUME SemTypeOK, Served, NEW i \in Philosopher, NEW f \in Philosopher, NEW from,
         Sem!WaitFork(i, f, from), UNCHANGED choice,
         \/ from = "takeLeft" /\ f = Left(i)
         \/ from = "takeRight" /\ f = Right(i)
  PROVE  Served'
<1>1. /\ pc[i] = from /\ UNCHANGED <<pc, room>>
      /\ Sem!Waits(forks[f], i)
      /\ forks' = [forks EXCEPT ![f] = Sem!AfterWait(@, i)]
  BY DEF Sem!WaitFork
<1>2. i \in Sem!Reaching(f)
  BY <1>1, SameTable DEF Sem!Reaching
<1>3. Sem!Hungry' = Sem!Hungry /\ \A g : Sem!Reaching(g)' = Sem!Reaching(g)
  BY <1>1 DEF Sem!Hungry, Sem!Reaching
<1>4. Serves(Sem!AfterWait(forks[f], i), Sem!Reaching(f))
  BY <1>1, <1>2, WaitServes, CallersTyped, SemaphoresTyped DEF Served
<1>5. \A g \in Philosopher : Serves(forks'[g], Sem!Reaching(g))
  BY <1>1, <1>4 DEF Served, SemTypeOK
<1> QED
  BY <1>1, <1>3, <1>5 DEF Served

LEMMA PutForkServed ==
  ASSUME SemTypeOK, Served, NEW i \in Philosopher, NEW f \in Philosopher,
         NEW from \in {"eating", "putRight"}, NEW to,
         Sem!PutFork(i, f, from, to), UNCHANGED choice
  PROVE  Served'
<1>1. pc[i] = from /\ pc' = [pc EXCEPT ![i] = to] /\ UNCHANGED room
  BY DEF Sem!PutFork, Sem!Goto
<1>2. PICK sem \in Sem!AfterV(forks[f]) : forks' = [forks EXCEPT ![f] = sem]
  BY DEF Sem!PutFork
<1>3. /\ \A g : i \notin Sem!Reaching(g)
      /\ Sem!Reaching(f) \subseteq Sem!Reaching(f)'
  BY <1>1, CallersAfter
<1>4. forks'[f] = sem /\ \A g \in Philosopher \ {f} : forks'[g] = forks[g]
  BY <1>2 DEF SemTypeOK
<1>5. Serves(forks'[f], Sem!Reaching(f)')
  <2>1. forks[f] \in SemaphoreOf(Nat) /\ sem \in SemaphoreOf(Nat)
    BY SemaphoresTyped, VKeeps
  <2>2. Serves(sem, Sem!Reaching(f))
    BY <2>1, VServes, CallersTyped DEF Served
  <2>3. Serves(sem, Sem!Reaching(f)')
    BY <2>1, <2>2, <1>3, MoreCall, CallersTyped, CallersTypedAfter
  <2> QED
    BY <2>3, <1>4
<1>6. \A g \in Philosopher \ {f} : Serves(forks'[g], Sem!Reaching(g)')
  BY <1>1, <1>3, <1>4, ForkStaysServed
<1>7. choice' = "sem" => Serves(room', Sem!Hungry')
  BY <1>1, RoomStaysServed
<1> QED
  BY <1>5, <1>6, <1>7 DEF Served

LEMMA LeaveRoomServed ==
  ASSUME SemTypeOK, Served, NEW i \in Philosopher, Sem!LeaveRoom(i), UNCHANGED choice
  PROVE  Served'
<1>1. /\ pc[i] = "leaveRoom" /\ pc' = [pc EXCEPT ![i] = "check"] /\ UNCHANGED forks
      /\ choice = "sem" => room' \in Sem!AfterV(room)
  BY DEF Sem!LeaveRoom, Sem!Goto, Sem!UseRoom
<1>2. (\A f : i \notin Sem!Reaching(f)) /\ Sem!Hungry \subseteq Sem!Hungry'
  BY <1>1, CallersAfter
<1>3. \A f \in Philosopher : Serves(forks'[f], Sem!Reaching(f)')
  BY <1>1, <1>2, ForkStaysServed
<1>4. ASSUME choice = "sem" PROVE Serves(room', Sem!Hungry')
  <2>1. room \in SemaphoreOf(Nat) /\ room' \in SemaphoreOf(Nat)
    BY <1>1, <1>4, SemaphoresTyped, VKeeps
  <2>2. Serves(room', Sem!Hungry)
    BY <1>1, <1>4, <2>1, VServes, CallersTyped DEF Served
  <2> QED
    BY <2>1, <2>2, <1>2, MoreCall, CallersTyped, CallersTypedAfter
<1> QED
  BY <1>3, <1>4 DEF Served

LEMMA SemStepServed ==
  ASSUME SemInv, Served, NEW i \in Philosopher, Sem!PhilosopherStep(i)
  PROVE  Served'
<1>1. UNCHANGED choice /\ SemTypeOK
  BY DEF Sem!PhilosopherStep, SemInv
<1>2. /\ Sem!Left(i) = Left(i) /\ Sem!Right(i) = Right(i)
      /\ Left(i) \in Philosopher /\ Right(i) \in Philosopher
  BY SameTable, Sides
<1>3. CASE Sem!CheckRunning(i) /\ UNCHANGED <<forks, room>>
  BY <1>1, <1>3, CheckRunningServed
<1>4. CASE Sem!PickUp(i)
  <2>1. CASE Sem!EnterRoom(i) \/ Sem!WaitRoom(i)
    BY <1>1, <2>1, EnterRoomServed, WaitRoomServed
  <2>2. CASE Sem!TakeFork(i, Left(i), "takeLeft", "takeRight")
    BY <1>1, <1>2, <2>2, TakeForkServed
  <2>3. CASE Sem!TakeFork(i, Right(i), "takeRight", "eating")
    BY <1>1, <1>2, <2>3, TakeForkServed
  <2>4. CASE \/ Sem!WaitFork(i, Left(i), "takeLeft")
             \/ Sem!WaitFork(i, Right(i), "takeRight")
    BY <1>1, <1>2, <2>4, WaitForkServed
  <2> QED
    BY <1>2, <1>4, <2>1, <2>2, <2>3, <2>4 DEF Sem!PickUp
<1>5. CASE Sem!PutDown(i)
  BY <1>1, <1>2, <1>5, PutForkServed, LeaveRoomServed DEF Sem!PutDown
<1> QED
  BY <1>3, <1>4, <1>5 DEF Sem!PhilosopherStep

LEMMA ServedAtFirst == ForkInit => Served
<1> SUFFICES ASSUME ForkInit PROVE Served
  OBVIOUS
<1>1. /\ \A f \in Philosopher : forks[f].waiting = {}
      /\ room.waiting = {}
  BY SameTable DEF ForkInit, Sem!NewForks, Sem!NewSemaphore
<1> QED
  BY <1>1 DEF Served, Serves
-----------------------------------------------------------------------------
(* Main stops and joins the philosophers, and touches no semaphore. *)
LEMMA SemUnchangedInv ==
  ASSUME SemInv, Served, UNCHANGED <<pc, choice, forks, room>>
  PROVE  SemInv' /\ Served'
<1>1. SemInv'
  BY DEF SemInv, SemTypeOK, ForksExact, OnTable, InHand, TwoForks, RoomExact, Inside,
         Sem!Holders, Sem!HoldsLeft, Sem!HoldsRight
<1>2. Served'
  BY DEF Served, Serves, Sem!Reaching, Sem!Hungry
<1> QED
  BY <1>1, <1>2

(***************************************************************************)
(* Both monitors and semaphores: whichever manager was chosen, its         *)
(* invariant holds.                                                        *)
(***************************************************************************)
SemChosen ==
  /\ choice \in {"mon", "sem", "deadlock"}
  /\ choice # "mon" => SemInv /\ Served

MonChosen == choice = "mon" => Inv

LEMMA SemChosenInv == SemChosen /\ [ForkNext]_allVars => SemChosen'
<1>0. ASSUME SemChosen, [ForkNext]_allVars PROVE UNCHANGED choice
  BY <1>0 DEF ForkNext, Run, RunMain, Sem!PhilosopherStep, allVars
<1> SUFFICES ASSUME SemChosen, [ForkNext]_allVars, choice' # "mon"
             PROVE  SemInv' /\ Served'
  BY <1>0 DEF SemChosen
<1>1. CASE \E i \in Philosopher : Run(i)
  <2> PICK i \in Philosopher : Run(i)
    BY <1>1
  <2>1. SemInv /\ Served /\ Sem!PhilosopherStep(i)
    BY DEF Run, SemChosen, Sem!PhilosopherStep
  <2> QED
    BY <2>1, SemStepInv, SemStepServed
<1>2. CASE RunMain
  <2>1. UNCHANGED <<pc, choice, forks, room>>
    BY <1>2 DEF RunMain, Main, MainStep, Join, Stop
  <2> QED
    BY <2>1, SemUnchangedInv DEF SemChosen
<1>3. CASE UNCHANGED allVars
  BY <1>3, SemUnchangedInv DEF allVars, vars, SemChosen
<1> QED
  BY <1>1, <1>2, <1>3 DEF ForkNext

LEMMA MonChosenInv == MonChosen /\ [ForkNext]_allVars => MonChosen'
<1> SUFFICES ASSUME MonChosen, [ForkNext]_allVars, choice' = "mon"
             PROVE  Inv'
  BY DEF MonChosen
<1>1. choice = "mon" /\ [Next]_vars
  <2>1. CASE \E i \in Philosopher : Run(i)
    <3> PICK i \in Philosopher : Run(i)
      BY <2>1
    <3>1. choice = "mon"
      BY DEF Run, Sem!PhilosopherStep
    <3> QED
      BY <3>1 DEF Run, Next
  <2>2. CASE RunMain
    BY <2>2 DEF RunMain, Next
  <2>3. CASE UNCHANGED allVars
    BY <2>3 DEF allVars
  <2> QED
    BY <2>1, <2>2, <2>3 DEF ForkNext
<1> QED
  BY <1>1, NextInv DEF MonChosen

(***************************************************************************)
(* With the monitor chosen, a step of the whole program's threads is one   *)
(* of ForksMon, whatever the semaphores are: MonitorExact holds for any    *)
(* number of philosophers.                                                 *)
(***************************************************************************)
THEOREM MonitorChosen == ForkSpec => []MonitorExact
<1>1. ForkInit => MonChosen
  BY InitInv DEF ForkInit, MonChosen
<1>2. MonChosen => MonitorExact
  BY DEF MonChosen, Inv, MonitorExact
<1> QED
  BY <1>1, <1>2, MonChosenInv, PTL DEF ForkSpec

(***************************************************************************)
(* With semaphores chosen, for any number of philosophers, two of them     *)
(* included: each semaphore knows whether its fork is held, and one        *)
(* philosopher only holds it; the room never admits more than N - 1; and   *)
(* at none of them somebody sleeps over a unit for which nobody comes.     *)
(***************************************************************************)
THEOREM SemaphoresChosen == ForkSpec => []SemaphoresAccount
<1>1. ForkInit => SemChosen
  BY SemInitInv, ServedAtFirst DEF ForkInit, SemChosen
<1>2. SemChosen => SemaphoresAccount
  <2> SUFFICES ASSUME SemInv, Served PROVE Sem!ForksAccounted /\ Sem!RoomAccounted
    BY DEF SemChosen, SemaphoresAccount
  <2>1. ASSUME NEW sem, NEW callers, Serves(sem, callers) PROVE Sem!Attended(sem, callers)
    BY <2>1, SameCardinality DEF Serves, Sem!Attended, Sem!NoLostWakeup
  <2>2. ASSUME NEW f \in Philosopher
        PROVE  forks[f].s = 1 - Cardinality(Sem!Holders(f)) /\ forks[f].s >= 0
    <3>1. CASE OnTable(f)
      BY <3>1, FS_EmptySet DEF OnTable
    <3>2. CASE InHand(f)
      BY <3>2, FS_Singleton DEF InHand
    <3> QED
      BY <3>1, <3>2 DEF SemInv, ForksExact
  <2>3. \A f \in Philosopher : Sem!Attended(forks[f], Sem!Reaching(f))
    BY <2>1 DEF Served
  <2>4. Sem!ForksAccounted
    BY <2>2, <2>3, SameTable, SameCardinality DEF Sem!ForksAccounted
  <2>5. ASSUME choice = "sem"
        PROVE  room.s = (N - 1) - Cardinality(Sem!Seated) /\ room.s >= 0
    <3>1. Sem!Seated = Inside
      BY SameTable DEF Sem!Seated, Inside
    <3> QED
      BY <2>5, <3>1 DEF SemInv, SemTypeOK, SemaphoreOf, RoomExact
  <2>6. Sem!RoomAccounted
    BY <2>1, <2>5, SameCardinality DEF Served, Sem!RoomAccounted, Sem!UseRoom
  <2> QED
    BY <2>4, <2>6
<1> QED
  BY <1>1, <1>2, SemChosenInv, PTL DEF ForkSpec
-----------------------------------------------------------------------------
(***************************************************************************)
(* A circle of waiting philosophers contains, with each, the one two seats *)
(* on: his left fork is the one that the former waits for.                 *)
(***************************************************************************)
TwoOn(i) == IF i + 2 < N THEN i + 2 ELSE i + 2 - N

LEMMA CircleGoesOn ==
  ASSUME NEW S \in SUBSET Philosopher, Sem!CircularWait(S), NEW i \in S
  PROVE  TwoOn(i) \in S
<1>1. PICK j \in S : Left(j) = Right(i)
  BY SameTable DEF Sem!CircularWait
<1>2. /\ Left(j) = IF j = 0 THEN N - 1 ELSE j - 1
      /\ Right(i) = IF i = N - 1 THEN 0 ELSE i + 1
  BY Sides
<1>3. i \in 0..(N - 1) /\ j \in 0..(N - 1) /\ N \in Nat /\ N >= 2
  BY TableAssumption DEF TableAssumption, Philosopher
<1>4. \A n \in Nat : \A a, b \in 0..(n - 1) :
        /\ n >= 2
        /\ (IF b = 0 THEN n - 1 ELSE b - 1) = (IF a = n - 1 THEN 0 ELSE a + 1)
        => b = (IF a + 2 < n THEN a + 2 ELSE a + 2 - n)
  OBVIOUS
<1>5. j = TwoOn(i)
  BY <1>1, <1>2, <1>3, <1>4 DEF TwoOn
<1> QED
  BY <1>5

(* Every second seat after one of the circle belongs to it. *)
LEMMA EverySecond ==
  ASSUME NEW S \in SUBSET Philosopher, \A i \in S : TwoOn(i) \in S,
         NEW x \in S, NEW y \in Philosopher, x <= y, (y - x) % 2 = 0
  PROVE  y \in S
<1> USE TableAssumption DEF TableAssumption, Philosopher
<1> DEFINE Missing == {z \in Philosopher : x <= z /\ (z - x) % 2 = 0 /\ z \notin S}
<1> SUFFICES ASSUME Missing # {} PROVE FALSE
  OBVIOUS
<1>1. Missing \in SUBSET Nat
  OBVIOUS
<1>2. PICK z \in Missing : \A u \in Missing : z <= u
  <2> HIDE DEF Missing
  <2>1. IsWellFoundedOn(OpToRel(<, Nat), Nat)
    BY NatLessThanWellFounded
  <2>2. PICK z \in Missing : \A u \in Missing : ~ (<<u, z>> \in OpToRel(<, Nat))
    BY <1>1, <2>1, WFMin
  <2>3. ASSUME NEW u \in Missing
        PROVE  z <= u
    <3>1. <<u, z>> \notin {p \in Nat \X Nat : p[1] < p[2]}
      BY <2>2 DEF OpToRel
    <3> QED
      BY <1>1, <3>1
  <2> QED
    BY <2>3
<1>3. z # x /\ z \in 0..(N - 1) /\ x \in 0..(N - 1) /\ x <= z /\ (z - x) % 2 = 0
  OBVIOUS
<1>4. z >= x + 2
  BY <1>3
<1>5. z - 2 \in Philosopher /\ x <= z - 2 /\ ((z - 2) - x) % 2 = 0
  BY <1>3, <1>4
<1>6. z - 2 \in S
  BY <1>2, <1>3, <1>5
<1>7. TwoOn(z - 2) = z
  BY <1>3, <1>4 DEF TwoOn
<1> QED
  BY <1>6, <1>7

(* With an odd number of seats, every second one is every one. *)
LEMMA CircleIsTable ==
  ASSUME N % 2 = 1, NEW S \in SUBSET Philosopher, S # {}, \A i \in S : TwoOn(i) \in S
  PROVE  S = Philosopher
<1> USE TableAssumption DEF TableAssumption, Philosopher
<1>1. N >= 3
  OBVIOUS
<1>2. PICK x \in S : TRUE
  OBVIOUS
<1>3. N - 2 \in S \/ N - 1 \in S
  <2>1. CASE ((N - 1) - x) % 2 = 0
    BY <1>1, <1>2, <2>1, EverySecond
  <2>2. CASE ((N - 1) - x) % 2 # 0
    <3>1. x <= N - 2 /\ ((N - 2) - x) % 2 = 0
      BY <1>1, <1>2, <2>2
    <3> QED
      BY <1>1, <1>2, <3>1, EverySecond
  <2> QED
    BY <2>1, <2>2
<1>4. N - 2 \in S => 0 \in S
  BY <1>1 DEF TwoOn
<1>5. N - 1 \in S => 1 \in S
  BY <1>1 DEF TwoOn
<1>6. 0 \in S => N - 1 \in S
  <2>1. ((N - 1) - 0) % 2 = 0
    OBVIOUS
  <2> QED
    BY <2>1, <1>1, EverySecond
<1>7. 1 \in S => N - 2 \in S
  <2>1. ((N - 2) - 1) % 2 = 0
    BY <1>1
  <2> QED
    BY <2>1, <1>1, EverySecond
<1>8. 0 \in S /\ 1 \in S
  BY <1>3, <1>4, <1>5, <1>6, <1>7
<1>9. ASSUME NEW y \in Philosopher PROVE y \in S
  <2>1. CASE y % 2 = 0
    <3>1. (y - 0) % 2 = 0
      BY <2>1
    <3> QED
      BY <3>1, <1>8, EverySecond
  <2>2. CASE y % 2 # 0
    <3>1. y >= 1 /\ (y - 1) % 2 = 0
      BY <2>2
    <3> QED
      BY <3>1, <1>8, EverySecond
  <2> QED
    BY <2>1, <2>2
<1> QED
  BY <1>9

(***************************************************************************)
(* With an odd number of philosophers (the program has five), the circle   *)
(* that main reports as a deadlock is the whole table, and only the        *)
(* variant without the room reaches it: the room would have let in one     *)
(* philosopher more than it has seats.  With an even number every second   *)
(* philosopher makes a circle of its own as far as the forks go, so that   *)
(* the assumption cannot be dropped.                                       *)
(***************************************************************************)
THEOREM CircleIsDeadlock == ASSUME N % 2 = 1 PROVE ForkSpec => []DeadlockIsTotal
<1>1. ForkInit => MonChosen /\ SemChosen
  BY InitInv, SemInitInv, ServedAtFirst DEF ForkInit, MonChosen, SemChosen
<1>2. MonChosen /\ SemChosen => DeadlockIsTotal
  <2> SUFFICES ASSUME MonChosen, SemChosen, NEW S \in SUBSET Philosopher, Sem!CircularWait(S)
               PROVE  choice = "deadlock" /\ S = Philosopher
    BY SameTable DEF DeadlockIsTotal, Sem!DeadlockIsTotal
  <2>1. S # {} /\ \A i \in S : TwoOn(i) \in S
    BY CircleGoesOn DEF Sem!CircularWait
  <2>2. S = Philosopher
    BY <2>1, CircleIsTable
  <2>3. \A i \in Philosopher : pc[i] = "takeRight"
    BY <2>2 DEF Sem!CircularWait
  <2>4. choice # "mon"
    BY <2>1, <2>3 DEF MonChosen, Inv, TypeOK, UserTypeOK
  <2>5. Cardinality(Inside) = N
    <3>1. Inside = 0..(N - 1)
      BY <2>3 DEF Inside, Philosopher
    <3> QED
      BY <3>1, FS_Interval, TableAssumption DEF TableAssumption
  <2>6. choice # "sem"
    <3>1. room.s \in Nat /\ (choice = "sem" => room.s = (N - 1) - N)
      BY <2>4, <2>5 DEF SemChosen, SemInv, SemTypeOK, SemaphoreOf, RoomExact
    <3> QED
      BY <3>1, TableAssumption DEF TableAssumption
  <2> QED
    BY <2>2, <2>4, <2>6 DEF SemChosen
<1> QED
  BY <1>1, <1>2, MonChosenInv, SemChosenInv, PTL DEF ForkSpec
=============================================================================
