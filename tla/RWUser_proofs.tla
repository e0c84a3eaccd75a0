--------------------------- MODULE RWUser_proofs ---------------------------
(***************************************************************************)
(* Any number of readers and of writers, any number of calls and any       *)
(* threads whose operations raise.                                         *)
(***************************************************************************)
EXTENDS RWUser, FiniteSetTheorems, TLAPS

(* Where a thread is in its entry protocol, asleep or awake. *)
InQueue == {"queued"}

(* How many threads of S are inside a call, and in an entry protocol. *)
CountIn(f, S, L) == Cardinality({x \in S : f[x] \in L})

Inside(S) == CountIn(pc, S, InCall)
Queued(S) == CountIn(pc, S, InQueue)

(* A move of a thread outside S changes no count of threads in S. *)
LEMMA CountStays ==
  ASSUME NEW f, NEW g, NEW S, NEW L, NEW t,
         t \notin S, S \subseteq Threads,
         \A x \in Threads \ {t} : g[x] = f[x]
  PROVE  CountIn(g, S, L) = CountIn(f, S, L)
<1>1. {x \in S : g[x] \in L} = {x \in S : f[x] \in L}
  OBVIOUS
<1> QED
  BY <1>1 DEF CountIn

(* The others stand still: what is counted is the old and the new place.   *)
LEMMA CountMoves ==
  ASSUME NEW f, NEW g, NEW S, NEW L, NEW t,
         t \in S, S \subseteq Threads, IsFiniteSet(S),
         \A x \in Threads \ {t} : g[x] = f[x]
  PROVE  /\ CountIn(f, S, L) \in Nat
         /\ g[t] \in L /\ f[t] \notin L => CountIn(g, S, L) = CountIn(f, S, L) + 1
         /\ g[t] \notin L /\ f[t] \in L => CountIn(g, S, L) = CountIn(f, S, L) - 1
         /\ (g[t] \in L <=> f[t] \in L) => CountIn(g, S, L) = CountIn(f, S, L)
<1> DEFINE A == {x \in S : f[x] \in L}
           B == {x \in S : g[x] \in L}
<1>1. \A x \in S : x # t => g[x] = f[x]
  OBVIOUS
<1>2. IsFiniteSet(A)
  BY FS_Subset
<1>3. CountIn(f, S, L) \in Nat
  BY <1>2, FS_CardinalityType DEF CountIn
<1>4. ASSUME g[t] \in L, f[t] \notin L
      PROVE  CountIn(g, S, L) = CountIn(f, S, L) + 1
  <2>1. B = A \cup {t} /\ t \notin A
    BY <1>1, <1>4
  <2>2. Cardinality(A \cup {t}) = Cardinality(A) + 1
    BY <2>1, <1>2, FS_AddElement
  <2> QED
    BY <2>1, <2>2 DEF CountIn
<1>5. ASSUME g[t] \notin L, f[t] \in L
      PROVE  CountIn(g, S, L) = CountIn(f, S, L) - 1
  <2>1. B = A \ {t} /\ t \in A
    BY <1>1, <1>5
  <2>2. Cardinality(A \ {t}) = Cardinality(A) - 1
    BY <2>1, <1>2, FS_RemoveElement
  <2> QED
    BY <2>1, <2>2 DEF CountIn
<1>6. ASSUME g[t] \in L <=> f[t] \in L
      PROVE  CountIn(g, S, L) = CountIn(f, S, L)
  <2>1. B = A
    BY <1>1, <1>6
  <2> QED
    BY <2>1 DEF CountIn
<1> QED
  BY <1>3, <1>4, <1>5, <1>6

(* The move of a reader changes the counts of readers and no others. *)
LEMMA ReaderCounts ==
  ASSUME NEW t \in Readers,
         \A x \in Threads \ {t} : pc'[x] = pc[x]
  PROVE  /\ pc'[t] \in InCall /\ pc[t] \notin InCall => Inside(Readers)' = Inside(Readers) + 1
         /\ pc'[t] \notin InCall /\ pc[t] \in InCall => Inside(Readers)' = Inside(Readers) - 1
         /\ (pc'[t] \in InCall <=> pc[t] \in InCall) => Inside(Readers)' = Inside(Readers)
         /\ pc'[t] \in InQueue /\ pc[t] \notin InQueue => Queued(Readers)' = Queued(Readers) + 1
         /\ pc'[t] \notin InQueue /\ pc[t] \in InQueue => Queued(Readers)' = Queued(Readers) - 1
         /\ (pc'[t] \in InQueue <=> pc[t] \in InQueue) => Queued(Readers)' = Queued(Readers)
         /\ Inside(Writers)' = Inside(Writers)
         /\ Queued(Writers)' = Queued(Writers)
<1>1. /\ t \in Threads /\ t \notin Writers
      /\ Readers \subseteq Threads /\ Writers \subseteq Threads
      /\ IsFiniteSet(Readers)
  BY RWAssumption DEF RWAssumption, Threads
<1>2. /\ pc'[t] \in InCall /\ pc[t] \notin InCall => Inside(Readers)' = Inside(Readers) + 1
      /\ pc'[t] \notin InCall /\ pc[t] \in InCall => Inside(Readers)' = Inside(Readers) - 1
      /\ (pc'[t] \in InCall <=> pc[t] \in InCall) => Inside(Readers)' = Inside(Readers)
  <2>1. ASSUME pc'[t] \in InCall, pc[t] \notin InCall
        PROVE  CountIn(pc', Readers, InCall) = CountIn(pc, Readers, InCall) + 1
    BY <1>1, <2>1, CountMoves
  <2>2. ASSUME pc'[t] \notin InCall, pc[t] \in InCall
        PROVE  CountIn(pc', Readers, InCall) = CountIn(pc, Readers, InCall) - 1
    BY <1>1, <2>2, CountMoves
  <2>3. ASSUME pc'[t] \in InCall <=> pc[t] \in InCall
        PROVE  CountIn(pc', Readers, InCall) = CountIn(pc, Readers, InCall)
    BY <1>1, <2>3, CountMoves
  <2> QED
    BY <2>1, <2>2, <2>3 DEF Inside
<1>3. /\ pc'[t] \in InQueue /\ pc[t] \notin InQueue => Queued(Readers)' = Queued(Readers) + 1
      /\ pc'[t] \notin InQueue /\ pc[t] \in InQueue => Queued(Readers)' = Queued(Readers) - 1
      /\ (pc'[t] \in InQueue <=> pc[t] \in InQueue) => Queued(Readers)' = Queued(Readers)
  <2>1. ASSUME pc'[t] \in InQueue, pc[t] \notin InQueue
        PROVE  CountIn(pc', Readers, InQueue) = CountIn(pc, Readers, InQueue) + 1
    BY <1>1, <2>1, CountMoves
  <2>2. ASSUME pc'[t] \notin InQueue, pc[t] \in InQueue
        PROVE  CountIn(pc', Readers, InQueue) = CountIn(pc, Readers, InQueue) - 1
    BY <1>1, <2>2, CountMoves
  <2>3. ASSUME pc'[t] \in InQueue <=> pc[t] \in InQueue
        PROVE  CountIn(pc', Readers, InQueue) = CountIn(pc, Readers, InQueue)
    BY <1>1, <2>3, CountMoves
  <2> QED
    BY <2>1, <2>2, <2>3 DEF Queued
<1>4. Inside(Writers)' = Inside(Writers) /\ Queued(Writers)' = Queued(Writers)
  <2>1. /\ CountIn(pc', Writers, InCall) = CountIn(pc, Writers, InCall)
        /\ CountIn(pc', Writers, InQueue) = CountIn(pc, Writers, InQueue)
    BY <1>1, CountStays
  <2> QED
    BY <2>1 DEF Inside, Queued
<1> QED
  BY <1>2, <1>3, <1>4

LEMMA ReaderMoves ==
  ASSUME NEW t \in Readers, NEW to,
         pc \in [Threads -> Locations],
         pc' = [pc EXCEPT ![t] = to]
  PROVE  /\ to \in InCall /\ pc[t] \notin InCall => Inside(Readers)' = Inside(Readers) + 1
         /\ to \notin InCall /\ pc[t] \in InCall => Inside(Readers)' = Inside(Readers) - 1
         /\ (to \in InCall <=> pc[t] \in InCall) => Inside(Readers)' = Inside(Readers)
         /\ to \in InQueue /\ pc[t] \notin InQueue => Queued(Readers)' = Queued(Readers) + 1
         /\ to \notin InQueue /\ pc[t] \in InQueue => Queued(Readers)' = Queued(Readers) - 1
         /\ (to \in InQueue <=> pc[t] \in InQueue) => Queued(Readers)' = Queued(Readers)
         /\ Inside(Writers)' = Inside(Writers)
         /\ Queued(Writers)' = Queued(Writers)
<1>1. t \in Threads
  BY DEF Threads
<1>2. pc'[t] = to /\ \A x \in Threads \ {t} : pc'[x] = pc[x]
  BY <1>1
<1> QED
  BY <1>2, ReaderCounts

(* The move of a writer changes the counts of writers and no others. *)
LEMMA WriterCounts ==
  ASSUME NEW t \in Writers,
         \A x \in Threads \ {t} : pc'[x] = pc[x]
  PROVE  /\ pc'[t] \in InCall /\ pc[t] \notin InCall => Inside(Writers)' = Inside(Writers) + 1
         /\ pc'[t] \notin InCall /\ pc[t] \in InCall => Inside(Writers)' = Inside(Writers) - 1
         /\ (pc'[t] \in InCall <=> pc[t] \in InCall) => Inside(Writers)' = Inside(Writers)
         /\ pc'[t] \in InQueue /\ pc[t] \notin InQueue => Queued(Writers)' = Queued(Writers) + 1
         /\ pc'[t] \notin InQueue /\ pc[t] \in InQueue => Queued(Writers)' = Queued(Writers) - 1
         /\ (pc'[t] \in InQueue <=> pc[t] \in InQueue) => Queued(Writers)' = Queued(Writers)
         /\ Inside(Readers)' = Inside(Readers)
         /\ Queued(Readers)' = Queued(Readers)
<1>1. /\ t \in Threads /\ t \notin Readers
      /\ Readers \subseteq Threads /\ Writers \subseteq Threads
      /\ IsFiniteSet(Writers)
  BY RWAssumption DEF RWAssumption, Threads
<1>2. /\ pc'[t] \in InCall /\ pc[t] \notin InCall => Inside(Writers)' = Inside(Writers) + 1
      /\ pc'[t] \notin InCall /\ pc[t] \in InCall => Inside(Writers)' = Inside(Writers) - 1
      /\ (pc'[t] \in InCall <=> pc[t] \in InCall) => Inside(Writers)' = Inside(Writers)
  <2>1. ASSUME pc'[t] \in InCall, pc[t] \notin InCall
        PROVE  CountIn(pc', Writers, InCall) = CountIn(pc, Writers, InCall) + 1
    BY <1>1, <2>1, CountMoves
  <2>2. ASSUME pc'[t] \notin InCall, pc[t] \in InCall
        PROVE  CountIn(pc', Writers, InCall) = CountIn(pc, Writers, InCall) - 1
    BY <1>1, <2>2, CountMoves
  <2>3. ASSUME pc'[t] \in InCall <=> pc[t] \in InCall
        PROVE  CountIn(pc', Writers, InCall) = CountIn(pc, Writers, InCall)
    BY <1>1, <2>3, CountMoves
  <2> QED
    BY <2>1, <2>2, <2>3 DEF Inside
<1>3. /\ pc'[t] \in InQueue /\ pc[t] \notin InQueue => Queued(Writers)' = Queued(Writers) + 1
      /\ pc'[t] \notin InQueue /\ pc[t] \in InQueue => Queued(Writers)' = Queued(Writers) - 1
      /\ (pc'[t] \in InQueue <=> pc[t] \in InQueue) => Queued(Writers)' = Queued(Writers)
  <2>1. ASSUME pc'[t] \in InQueue, pc[t] \notin InQueue
        PROVE  CountIn(pc', Writers, InQueue) = CountIn(pc, Writers, InQueue) + 1
    BY <1>1, <2>1, CountMoves
  <2>2. ASSUME pc'[t] \notin InQueue, pc[t] \in InQueue
        PROVE  CountIn(pc', Writers, InQueue) = CountIn(pc, Writers, InQueue) - 1
    BY <1>1, <2>2, CountMoves
  <2>3. ASSUME pc'[t] \in InQueue <=> pc[t] \in InQueue
        PROVE  CountIn(pc', Writers, InQueue) = CountIn(pc, Writers, InQueue)
    BY <1>1, <2>3, CountMoves
  <2> QED
    BY <2>1, <2>2, <2>3 DEF Queued
<1>4. Inside(Readers)' = Inside(Readers) /\ Queued(Readers)' = Queued(Readers)
  <2>1. /\ CountIn(pc', Readers, InCall) = CountIn(pc, Readers, InCall)
        /\ CountIn(pc', Readers, InQueue) = CountIn(pc, Readers, InQueue)
    BY <1>1, CountStays
  <2> QED
    BY <2>1 DEF Inside, Queued
<1> QED
  BY <1>2, <1>3, <1>4

LEMMA WriterMoves ==
  ASSUME NEW t \in Writers, NEW to,
         pc \in [Threads -> Locations],
         pc' = [pc EXCEPT ![t] = to]
  PROVE  /\ to \in InCall /\ pc[t] \notin InCall => Inside(Writers)' = Inside(Writers) + 1
         /\ to \notin InCall /\ pc[t] \in InCall => Inside(Writers)' = Inside(Writers) - 1
         /\ (to \in InCall <=> pc[t] \in InCall) => Inside(Writers)' = Inside(Writers)
         /\ to \in InQueue /\ pc[t] \notin InQueue => Queued(Writers)' = Queued(Writers) + 1
         /\ to \notin InQueue /\ pc[t] \in InQueue => Queued(Writers)' = Queued(Writers) - 1
         /\ (to \in InQueue <=> pc[t] \in InQueue) => Queued(Writers)' = Queued(Writers)
         /\ Inside(Readers)' = Inside(Readers)
         /\ Queued(Readers)' = Queued(Readers)
<1>1. t \in Threads
  BY DEF Threads
<1>2. pc'[t] = to /\ \A x \in Threads \ {t} : pc'[x] = pc[x]
  BY <1>1
<1> QED
  BY <1>2, WriterCounts

-----------------------------------------------------------------------------

(***************************************************************************)
(* The inductive invariant.  Exclusion alone does not survive an entry     *)
(* protocol, which looks at the counters: these must be exact, which is    *)
(* part of AccessExclusive.                                                *)
(***************************************************************************)
Inv ==
  /\ pc \in [Threads -> Locations]
  /\ waiting \in SUBSET Threads
  /\ AccessExclusive
  /\ NobodyOverslept

(* The counters of AccessExclusive in the words of the lemmas above. *)
LEMMA InvCounts ==
  ASSUME Inv
  PROVE  /\ activeReaders = Inside(Readers) /\ activeReaders \in Nat
         /\ activeWriters = Inside(Writers) /\ activeWriters \in Nat
         /\ waitingReaders = Queued(Readers) /\ waitingReaders \in Nat
         /\ waitingWriters = Queued(Writers) /\ waitingWriters \in Nat
<1>1. \A S \in {Readers, Writers} : \A L :
        Cardinality({x \in S : pc[x] \in L}) \in Nat
  <2> SUFFICES ASSUME NEW S \in {Readers, Writers}, NEW L
               PROVE  Cardinality({x \in S : pc[x] \in L}) \in Nat
    OBVIOUS
  <2>1. IsFiniteSet(S)
    BY RWAssumption DEF RWAssumption
  <2>2. IsFiniteSet({x \in S : pc[x] \in L})
    BY <2>1, FS_Subset
  <2> QED
    BY <2>2, FS_CardinalityType
<1> QED
  BY <1>1 DEF Inv, AccessExclusive, At, Inside, Queued, InQueue, CountIn

LEMMA InvFromCounts ==
  ASSUME pc' \in [Threads -> Locations],
         waiting' \in SUBSET Threads,
         activeReaders' = Inside(Readers)',
         activeWriters' = Inside(Writers)',
         waitingReaders' = Queued(Readers)',
         waitingWriters' = Queued(Writers)',
         activeWriters' <= 1,
         activeWriters' = 1 => activeReaders' = 0,
         NobodyOverslept'
  PROVE  Inv'
BY DEF Inv, AccessExclusive, At, Inside, Queued, InQueue, CountIn
(***************************************************************************)
(* A step of one thread outside the monitor: it neither enters nor leaves  *)
(* a call or an entry protocol.                                            *)
(***************************************************************************)
LEMMA OutsideInv ==
  ASSUME Inv, NEW t \in Threads, NEW to \in Locations \ InQueue,
         pc[t] \notin InQueue,
         to \in InCall <=> pc[t] \in InCall,
         pc' = [pc EXCEPT ![t] = to],
         UNCHANGED <<activeReaders, activeWriters, waitingReaders, waitingWriters, waiting>>
  PROVE  Inv'
<1>1. pc \in [Threads -> Locations] /\ pc' \in [Threads -> Locations]
  BY DEF Inv
<1>2. /\ Inside(Readers)' = Inside(Readers) /\ Queued(Readers)' = Queued(Readers)
      /\ Inside(Writers)' = Inside(Writers) /\ Queued(Writers)' = Queued(Writers)
  <2>1. CASE t \in Readers
    BY <1>1, <2>1, ReaderMoves, InvCounts
  <2>2. CASE t \in Writers
    BY <1>1, <2>2, WriterMoves, InvCounts
  <2> QED
    BY <2>1, <2>2 DEF Threads
<1>3. NobodyOverslept'
  BY DEF Inv, NobodyOverslept, AllowReader, AllowWriter
<1> QED
  BY <1>1, <1>2, <1>3, InvCounts, InvFromCounts DEF Inv, AccessExclusive

LEMMA BeforeReadInv == ASSUME Inv, NEW r \in Readers, BeforeRead(r) PROVE Inv'
<1> USE DEF BeforeRead, Goto
<1>1. /\ pc \in [Threads -> Locations]
      /\ pc' \in [Threads -> Locations]
      /\ pc[r] \in {"call", "queued"}
      /\ pc' = [pc EXCEPT ![r] = "inside"]
  BY DEF Inv, Threads, Locations
<1>2. /\ activeReaders' = Inside(Readers)'
      /\ activeWriters' = Inside(Writers)'
      /\ waitingReaders' = Queued(Readers)'
      /\ waitingWriters' = Queued(Writers)'
  BY <1>1, ReaderMoves, InvCounts DEF InCall, InQueue
<1>3. activeWriters = 0 /\ activeReaders \in Nat
  BY InvCounts DEF AllowReader
<1>4. NobodyOverslept'
  BY <1>3 DEF Inv, NobodyOverslept, AllowReader, AllowWriter
<1>5. activeWriters' = 0
  BY <1>3
<1>6. waiting' \in SUBSET Threads
  BY DEF Inv
<1> QED
  BY <1>1, <1>2, <1>4, <1>5, <1>6, InvFromCounts

LEMMA BeforeReadWaitsInv == ASSUME Inv, NEW r \in Readers, BeforeReadWaits(r) PROVE Inv'
<1> USE DEF BeforeReadWaits, Goto
<1>1. pc \in [Threads -> Locations] /\ waiting' \in SUBSET Threads /\ r \in Threads /\ r \notin Writers
  BY RWAssumption DEF RWAssumption, Inv, Threads
<1>2. NobodyOverslept'
  BY <1>1 DEF Inv, NobodyOverslept, AllowReader, AllowWriter
<1>3. CASE pc[r] = "call" /\ waitingReaders' = waitingReaders + 1
  <2>1. pc' = [pc EXCEPT ![r] = "queued"] /\ pc' \in [Threads -> Locations]
    BY <1>1, <1>3 DEF Locations
  <2>2. /\ activeReaders' = Inside(Readers)'
        /\ activeWriters' = Inside(Writers)'
        /\ waitingReaders' = Queued(Readers)'
        /\ waitingWriters' = Queued(Writers)'
    BY <1>1, <1>3, <2>1, ReaderMoves, InvCounts DEF InCall, InQueue
  <2> QED
    BY <1>1, <1>2, <2>1, <2>2, InvFromCounts DEF Inv, AccessExclusive
<1>4. CASE UNCHANGED <<pc, waitingReaders>>
  BY <1>1, <1>2, <1>4 DEF Inv, AccessExclusive, At
<1> QED
  BY <1>3, <1>4

LEMMA BeforeWriteInv == ASSUME Inv, NEW w \in Writers, BeforeWrite(w) PROVE Inv'
<1> USE DEF BeforeWrite, Goto
<1>1. /\ pc \in [Threads -> Locations]
      /\ pc' \in [Threads -> Locations]
      /\ pc[w] \in {"call", "queued"}
      /\ pc' = [pc EXCEPT ![w] = "inside"]
  BY DEF Inv, Threads, Locations
<1>2. /\ activeReaders' = Inside(Readers)'
      /\ activeWriters' = Inside(Writers)'
      /\ waitingReaders' = Queued(Readers)'
      /\ waitingWriters' = Queued(Writers)'
  BY <1>1, WriterMoves, InvCounts DEF InCall, InQueue
<1>3. activeWriters' = 1 /\ activeReaders' = 0
  BY DEF AllowWriter
<1>4. NobodyOverslept'
  BY <1>3 DEF NobodyOverslept, AllowReader, AllowWriter
<1> QED
  BY <1>1, <1>2, <1>3, <1>4, InvFromCounts DEF Inv

LEMMA BeforeWriteWaitsInv == ASSUME Inv, NEW w \in Writers, BeforeWriteWaits(w) PROVE Inv'
<1> USE DEF BeforeWriteWaits, Goto
<1>1. pc \in [Threads -> Locations] /\ waiting' \in SUBSET Threads /\ w \in Threads /\ w \notin Readers
  BY RWAssumption DEF RWAssumption, Inv, Threads
<1>2. NobodyOverslept'
  <2>1. waitingWriters' = waitingWriters \/ waitingWriters' = waitingWriters + 1
    OBVIOUS
  <2> QED
    BY <1>1, <2>1, InvCounts DEF Inv, NobodyOverslept, AllowReader, AllowWriter
<1>3. CASE pc[w] = "call" /\ waitingWriters' = waitingWriters + 1
  <2>1. pc' = [pc EXCEPT ![w] = "queued"] /\ pc' \in [Threads -> Locations]
    BY <1>1, <1>3 DEF Locations
  <2>2. /\ activeReaders' = Inside(Readers)'
        /\ activeWriters' = Inside(Writers)'
        /\ waitingReaders' = Queued(Readers)'
        /\ waitingWriters' = Queued(Writers)'
    BY <1>1, <1>3, <2>1, WriterMoves, InvCounts DEF InCall, InQueue
  <2> QED
    BY <1>1, <1>2, <2>1, <2>2, InvFromCounts DEF Inv, AccessExclusive
<1>4. CASE UNCHANGED <<pc, waitingWriters>>
  BY <1>1, <1>2, <1>4 DEF Inv, AccessExclusive, At
<1> QED
  BY <1>3, <1>4

(* The exit protocols notify everybody, so that nobody can be overslept. *)
LEMMA AfterReadInv ==
  ASSUME Inv, NEW r \in Readers, NEW to \in {"check", "ended"},
         pc[r] \in {"leaving", "failing"}, AfterRead(r, to)
  PROVE  Inv'
<1> USE DEF AfterRead
<1>1. /\ pc \in [Threads -> Locations]
      /\ pc' \in [Threads -> Locations]
      /\ pc' = [pc EXCEPT ![r] = to]
  BY DEF Inv, Locations
<1>2. /\ activeReaders' = Inside(Readers)'
      /\ activeWriters' = Inside(Writers)'
      /\ waitingReaders' = Queued(Readers)'
      /\ waitingWriters' = Queued(Writers)'
  BY <1>1, ReaderMoves, InvCounts DEF InCall, InQueue
<1>3. Inside(Readers)' \in Nat
  <2>1. IsFiniteSet({x \in Readers : pc'[x] \in InCall})
    BY RWAssumption, FS_Subset DEF RWAssumption
  <2>2. CountIn(pc', Readers, InCall) \in Nat
    BY <2>1, FS_CardinalityType DEF CountIn
  <2> QED
    BY <2>2 DEF Inside
<1>4. activeReaders > 0
  BY <1>2, <1>3, InvCounts
<1>5. activeWriters' = 0
  BY <1>4, InvCounts DEF Inv, AccessExclusive
<1>6. NobodyOverslept' /\ waiting' \in SUBSET Threads
  BY DEF NobodyOverslept
<1> QED
  BY <1>1, <1>2, <1>5, <1>6, InvFromCounts

LEMMA AfterWriteInv ==
  ASSUME Inv, NEW w \in Writers, NEW to \in {"check", "ended"},
         pc[w] \in {"leaving", "failing"}, AfterWrite(w, to)
  PROVE  Inv'
<1> USE DEF AfterWrite
<1>1. /\ pc \in [Threads -> Locations]
      /\ pc' \in [Threads -> Locations]
      /\ pc' = [pc EXCEPT ![w] = to]
  BY DEF Inv, Locations
<1>2. /\ activeReaders' = Inside(Readers)'
      /\ activeWriters' = Inside(Writers)'
      /\ waitingReaders' = Queued(Readers)'
      /\ waitingWriters' = Queued(Writers)'
  BY <1>1, WriterMoves, InvCounts DEF InCall, InQueue
<1>3. activeWriters' <= 0
  BY InvCounts DEF Inv, AccessExclusive
<1>4. NobodyOverslept' /\ waiting' \in SUBSET Threads
  BY DEF NobodyOverslept
<1> QED
  BY <1>1, <1>2, <1>3, <1>4, InvFromCounts
-----------------------------------------------------------------------------

LEMMA InitInv == ASSUME Init PROVE Inv
<1> USE DEF Init, RWInit
<1>1. pc \in [Threads -> Locations] /\ waiting \in SUBSET Threads
  BY DEF Locations
<1>2. \A S \in {Readers, Writers} :
        At(S, InCall) = {} /\ At(S, {"queued"}) = {}
  BY DEF At, InCall, Threads
<1>3. AccessExclusive
  BY <1>2, FS_EmptySet DEF AccessExclusive
<1>4. NobodyOverslept
  BY DEF NobodyOverslept
<1> QED
  BY <1>1, <1>3, <1>4 DEF Inv

LEMMA NextInv == ASSUME Inv, [Next]_vars PROVE Inv'
<1>1. ASSUME NEW t \in Threads, CheckRunning(t) PROVE Inv'
  <2>1. PICK to \in {"call", "ended"} : Goto(t, "check", to)
    BY <1>1 DEF CheckRunning
  <2> QED
    BY <1>1, <2>1, OutsideInv DEF CheckRunning, Goto, InCall, InQueue, Locations
<1>2. ASSUME NEW t \in Threads, Enter(t) PROVE Inv'
  BY <1>2, BeforeReadInv, BeforeReadWaitsInv, BeforeWriteInv, BeforeWriteWaitsInv
  DEF Enter
<1>3. ASSUME NEW t \in Readers, DoRead(t) PROVE Inv'
  BY <1>3, OutsideInv DEF DoRead, Goto, InCall, InQueue, Locations, Threads
<1>4. ASSUME NEW t \in Writers, LoadTotal(t) PROVE Inv'
  BY <1>4, OutsideInv DEF LoadTotal, Goto, InCall, InQueue, Locations, Threads
<1>5. ASSUME NEW t \in Writers, StoreTotal(t) PROVE Inv'
  BY <1>5, OutsideInv DEF StoreTotal, Goto, InCall, InQueue, Locations, Threads
<1>6. ASSUME NEW t \in Threads, Exit(t) PROVE Inv'
  <2>1. PICK to \in {"check", "ended"} :
          pc[t] \in {"leaving", "failing"} /\ ExitProtocol(t, to)
    BY <1>6 DEF Exit
  <2> QED
    BY <2>1, AfterReadInv, AfterWriteInv DEF ExitProtocol
<1>7. ASSUME NEW t \in Threads, Raise(t) PROVE Inv'
  BY <1>7, OutsideInv DEF Raise, Goto, InCall, InQueue, Locations
<1>8. ASSUME UNCHANGED rwVars PROVE Inv'
  BY <1>8 DEF rwVars, Inv, AccessExclusive, At, NobodyOverslept, AllowReader, AllowWriter
<1>9. CASE MainStep
  BY <1>8, <1>9 DEF MainStep, Stop, Join
<1>10. CASE UNCHANGED vars
  BY <1>8, <1>10 DEF vars
<1> QED
  BY <1>1, <1>2, <1>3, <1>4, <1>5, <1>6, <1>7, <1>9, <1>10 DEF Next, ThreadStep

(***************************************************************************)
(* The invariants at the top of rw.py hold of the threads themselves, and  *)
(* no reader or writer sleeps while it may go in, for any readers, writers *)
(* and failures of their operations.                                       *)
(***************************************************************************)
THEOREM Safety == Spec => [](AccessExclusive /\ NobodyOverslept)
<1>1. Init => Inv
  BY InitInv
<1>2. Inv /\ [Next]_vars => Inv'
  BY NextInv
<1>3. Inv => AccessExclusive /\ NobodyOverslept
  BY DEF Inv
<1> QED
  BY <1>1, <1>2, <1>3, PTL DEF Spec
-----------------------------------------------------------------------------

(***************************************************************************)
(* The totals.  That none of them loses an access needs three facts more:  *)
(* a thread in a call has one call left before the bound, a writer between *)
(* the two halves of its increment has read the total as it still is, and  *)
(* no other writer is there.  And no count of active readers that somebody *)
(* may still record is more than have been inside.                         *)
(***************************************************************************)
StatisticsTyped ==
  /\ count \in [Threads -> 0..Calls]
  /\ totalReads \in Nat /\ totalWrites \in Nat
  /\ maxConcurrent \in Nat /\ overlap \in Nat /\ mostInside \in Nat
  /\ loaded \in [Writers -> Nat]

CallsLeft == \A t \in Threads : pc[t] \notin {"check", "ended"} => count[t] < Calls

LoadedFresh == \A w \in Writers : pc[w] = "work" => loaded[w] = totalWrites

InsideSeen == activeReaders <= mostInside

TotalsInv ==
  /\ Inv
  /\ StatisticsTyped
  /\ CallsLeft
  /\ LoadedFresh
  /\ TotalsExact
  /\ InsideSeen
  /\ OverlapSeen

(* The calls completed by the threads of S, one pair for each. *)
Completed(f, S) == {call \in S \X (1..Calls) : f[call[1]] >= call[2]}

LEMMA CompletedFinite ==
  ASSUME NEW f, NEW S, IsFiniteSet(S)
  PROVE  IsFiniteSet(Completed(f, S)) /\ Cardinality(Completed(f, S)) \in Nat
<1>1. IsFiniteSet(1..Calls)
  BY RWUserAssumption, FS_Interval DEF RWUserAssumption
<1>2. IsFiniteSet(S \X (1..Calls))
  BY <1>1, FS_Product
<1>3. Completed(f, S) \in SUBSET (S \X (1..Calls))
  BY DEF Completed
<1>4. IsFiniteSet(Completed(f, S))
  BY <1>2, <1>3, FS_Subset
<1> QED
  BY <1>4, FS_CardinalityType

(* One call more is one pair more. *)
LEMMA CompletedGrows ==
  ASSUME NEW f \in [Threads -> 0..Calls], NEW S, S \subseteq Threads, IsFiniteSet(S),
         NEW t \in S, f[t] < Calls
  PROVE  Cardinality(Completed([f EXCEPT ![t] = @ + 1], S))
           = Cardinality(Completed(f, S)) + 1
<1> DEFINE g == [f EXCEPT ![t] = @ + 1]
           new == <<t, f[t] + 1>>
<1>1. f[t] \in 0..Calls /\ Calls \in Nat
  BY RWUserAssumption DEF RWUserAssumption
<1>2. new \in S \X (1..Calls) /\ new \notin Completed(f, S)
  BY <1>1 DEF Completed
<1>3. ASSUME NEW x \in S, NEW k \in 1..Calls
      PROVE  g[x] >= k <=> f[x] >= k \/ (x = t /\ k = f[t] + 1)
  <2>1. f[x] \in 0..Calls
    OBVIOUS
  <2> QED
    BY <1>1, <2>1
<1>4. ASSUME NEW call \in S \X (1..Calls)
      PROVE  call \in Completed(g, S) <=> call \in Completed(f, S) \cup {new}
  <2>1. PICK x \in S, k \in 1..Calls : call = <<x, k>>
    OBVIOUS
  <2>2. call = new <=> x = t /\ k = f[t] + 1
    BY <2>1
  <2> QED
    BY <1>3, <2>1, <2>2 DEF Completed
<1>5. Completed(g, S) = Completed(f, S) \cup {new}
  <2>1. Completed(g, S) \subseteq S \X (1..Calls) /\ Completed(f, S) \subseteq S \X (1..Calls)
    BY DEF Completed
  <2> QED
    BY <1>2, <1>4, <2>1
<1>6. Cardinality(Completed(f, S) \cup {new}) = Cardinality(Completed(f, S)) + 1
  BY <1>2, CompletedFinite, FS_AddElement
<1> QED
  BY <1>5, <1>6

LEMMA CompletedStays ==
  ASSUME NEW f, NEW g, NEW S, \A x \in S : g[x] = f[x]
  PROVE  Completed(g, S) = Completed(f, S)
<1>1. \A call \in S \X (1..Calls) : g[call[1]] = f[call[1]]
  OBVIOUS
<1> QED
  BY <1>1 DEF Completed

Past == {"leaving"}

(* TotalsExact in the words of the lemmas. *)
LEMMA TotalsCount ==
  TotalsExact <=>
    /\ totalReads = Cardinality(Completed(count, Readers)) + CountIn(pc, Readers, Past)
    /\ totalWrites = Cardinality(Completed(count, Writers)) + CountIn(pc, Writers, Past)
BY DEF TotalsExact, Counted, At, Completed, CountIn, Past

LEMMA PastMoves ==
  ASSUME NEW S \in {Readers, Writers}, NEW t \in S,
         \A x \in Threads \ {t} : pc'[x] = pc[x]
  PROVE  /\ CountIn(pc, S, Past) \in Nat
         /\ pc'[t] \in Past /\ pc[t] \notin Past => CountIn(pc', S, Past) = CountIn(pc, S, Past) + 1
         /\ pc'[t] \notin Past /\ pc[t] \in Past => CountIn(pc', S, Past) = CountIn(pc, S, Past) - 1
         /\ (pc'[t] \in Past <=> pc[t] \in Past) => CountIn(pc', S, Past) = CountIn(pc, S, Past)
<1>1. S \subseteq Threads /\ IsFiniteSet(S) /\ t \in Threads
  BY RWAssumption DEF RWAssumption, Threads
<1>2. CountIn(pc, S, Past) \in Nat
  BY <1>1, CountMoves
<1>3. ASSUME pc'[t] \in Past, pc[t] \notin Past
      PROVE  CountIn(pc', S, Past) = CountIn(pc, S, Past) + 1
  BY <1>1, <1>3, CountMoves
<1>4. ASSUME pc'[t] \notin Past, pc[t] \in Past
      PROVE  CountIn(pc', S, Past) = CountIn(pc, S, Past) - 1
  BY <1>1, <1>4, CountMoves
<1>5. ASSUME pc'[t] \in Past <=> pc[t] \in Past
      PROVE  CountIn(pc', S, Past) = CountIn(pc, S, Past)
  BY <1>1, <1>5, CountMoves
<1> QED
  BY <1>2, <1>3, <1>4, <1>5

LEMMA PastStays ==
  ASSUME NEW S \in {Readers, Writers}, NEW t, t \notin S,
         \A x \in Threads \ {t} : pc'[x] = pc[x]
  PROVE  CountIn(pc', S, Past) = CountIn(pc, S, Past)
<1>1. S \subseteq Threads
  BY DEF Threads
<1> QED
  BY <1>1, CountStays

LEMMA PastCount ==
  ASSUME NEW S \in {Readers, Writers}, NEW t \in S, NEW to,
         pc \in [Threads -> Locations],
         pc' = [pc EXCEPT ![t] = to]
  PROVE  /\ CountIn(pc, S, Past) \in Nat
         /\ to = "leaving" /\ pc[t] # "leaving" => CountIn(pc', S, Past) = CountIn(pc, S, Past) + 1
         /\ to # "leaving" /\ pc[t] = "leaving" => CountIn(pc', S, Past) = CountIn(pc, S, Past) - 1
         /\ (to = "leaving" <=> pc[t] = "leaving") => CountIn(pc', S, Past) = CountIn(pc, S, Past)
<1>1. t \in Threads
  BY DEF Threads
<1>2. pc'[t] = to /\ \A x \in Threads \ {t} : pc'[x] = pc[x]
  BY <1>1
<1>3. /\ to = "leaving" <=> pc'[t] \in Past
      /\ pc[t] = "leaving" <=> pc[t] \in Past
  BY <1>2 DEF Past
<1> QED
  BY <1>2, <1>3, PastMoves

LEMMA PastElsewhere ==
  ASSUME NEW S \in {Readers, Writers}, NEW t \in Threads \ S, NEW to,
         pc \in [Threads -> Locations],
         pc' = [pc EXCEPT ![t] = to]
  PROVE  CountIn(pc', S, Past) = CountIn(pc, S, Past)
<1>1. t \notin S /\ \A x \in Threads \ {t} : pc'[x] = pc[x]
  OBVIOUS
<1> QED
  BY <1>1, PastStays

(* A step that ends no access and touches none of the statistics. *)
LEMMA TotalsStand ==
  ASSUME TotalsInv, Inv', NEW t \in Threads, NEW to \in Locations \ {"leaving", "work"},
         pc[t] # "leaving",
         pc' = [pc EXCEPT ![t] = to],
         to \in {"check", "ended"} \/ count[t] < Calls,
         UNCHANGED <<count, totalReads, totalWrites, maxConcurrent, overlap, loaded>>,
         mostInside' \in Nat, mostInside <= mostInside', activeReaders' <= mostInside'
  PROVE  TotalsInv'
<1> USE DEF TotalsInv
<1>1. pc \in [Threads -> Locations]
  BY DEF Inv
<1>2. CountIn(pc', Readers, Past) = CountIn(pc, Readers, Past)
  BY <1>1, PastCount, PastElsewhere
<1>3. CountIn(pc', Writers, Past) = CountIn(pc, Writers, Past)
  BY <1>1, PastCount, PastElsewhere
<1>4. TotalsExact'
  BY <1>2, <1>3, TotalsCount DEF TotalsExact, Counted, At, Completed, CountIn, Past
<1>5. CallsLeft'
  BY <1>1 DEF CallsLeft
<1>6. LoadedFresh'
  BY <1>1 DEF LoadedFresh, Threads
<1>7. StatisticsTyped' /\ InsideSeen' /\ OverlapSeen'
  BY DEF StatisticsTyped, InsideSeen, OverlapSeen
<1> QED
  BY <1>4, <1>5, <1>6, <1>7

LEMMA DoReadTotals ==
  ASSUME TotalsInv, Inv', NEW r \in Readers, DoRead(r)
  PROVE  TotalsInv'
<1> USE DEF TotalsInv, DoRead, Goto
<1>1. /\ pc \in [Threads -> Locations] /\ r \in Threads \ Writers
      /\ pc[r] = "inside" /\ pc' = [pc EXCEPT ![r] = "leaving"]
  BY RWAssumption DEF RWAssumption, Inv, Threads
<1>2. /\ CountIn(pc', Readers, Past) = CountIn(pc, Readers, Past) + 1
      /\ CountIn(pc', Writers, Past) = CountIn(pc, Writers, Past)
      /\ CountIn(pc, Readers, Past) \in Nat
  BY <1>1, PastCount, PastElsewhere
<1>3. Cardinality(Completed(count, Readers)) \in Nat
  BY CompletedFinite, RWAssumption DEF RWAssumption
<1>4. TotalsExact'
  BY <1>2, <1>3, TotalsCount DEF TotalsExact, Counted, At, Completed, CountIn, Past
<1>5. CallsLeft'
  BY <1>1 DEF CallsLeft
<1>6. LoadedFresh'
  BY <1>1 DEF LoadedFresh, Threads
<1>7. Overlapping \in Nat /\ Overlapping + 1 <= activeReaders
  <2> DEFINE A == At(Readers, {"leaving"})
             B == At(Readers, InCall)
  <2>1. IsFiniteSet(A) /\ IsFiniteSet(B)
    BY RWAssumption, FS_Subset DEF RWAssumption, At
  <2>2. A \cup {r} \in SUBSET B /\ r \notin A
    BY <1>1 DEF At, InCall
  <2>3. Cardinality(A \cup {r}) = Cardinality(A) + 1 /\ Cardinality(A) \in Nat
    BY <2>1, <2>2, FS_AddElement, FS_CardinalityType
  <2>4. Cardinality(A \cup {r}) <= Cardinality(B)
    BY <2>1, <2>2, FS_Subset
  <2>5. activeReaders = Cardinality(B)
    BY DEF Inv, AccessExclusive
  <2> QED
    BY <2>3, <2>4, <2>5 DEF Overlapping
<1>8. activeReaders \in Nat
  BY InvCounts
<1>9. StatisticsTyped' /\ InsideSeen' /\ OverlapSeen'
  BY <1>7, <1>8 DEF StatisticsTyped, InsideSeen, OverlapSeen, LargestSeen
<1> QED
  BY <1>4, <1>5, <1>6, <1>9

LEMMA LoadTotalTotals ==
  ASSUME TotalsInv, Inv', NEW w \in Writers, LoadTotal(w)
  PROVE  TotalsInv'
<1> USE DEF TotalsInv, LoadTotal, Goto, maxima
<1>1. /\ pc \in [Threads -> Locations] /\ w \in Threads \ Readers
      /\ pc[w] = "inside" /\ pc' = [pc EXCEPT ![w] = "work"]
  BY RWAssumption DEF RWAssumption, Inv, Threads
<1>2. /\ CountIn(pc', Readers, Past) = CountIn(pc, Readers, Past)
      /\ CountIn(pc', Writers, Past) = CountIn(pc, Writers, Past)
  BY <1>1, PastCount, PastElsewhere
<1>3. TotalsExact'
  BY <1>2, TotalsCount DEF TotalsExact, Counted, At, Completed, CountIn, Past
<1>4. CallsLeft'
  BY <1>1 DEF CallsLeft
<1>5. LoadedFresh' /\ StatisticsTyped'
  BY <1>1 DEF LoadedFresh, StatisticsTyped, Threads
<1> QED
  BY <1>3, <1>4, <1>5 DEF InsideSeen, OverlapSeen

(* Two writers are never inside together. *)
LEMMA WriterAlone ==
  ASSUME Inv, NEW v \in Writers, NEW w \in Writers, pc[v] \in InCall, pc[w] \in InCall
  PROVE  v = w
<1> DEFINE A == At(Writers, InCall)
<1>1. IsFiniteSet(A)
  BY RWAssumption, FS_Subset DEF RWAssumption, At
<1>2. v \in A /\ w \in A
  BY DEF At
<1>3. Cardinality(A) <= 1
  BY DEF Inv, AccessExclusive
<1>4. Cardinality(A) \in Nat /\ Cardinality(A) # 0
  BY <1>1, <1>2, FS_CardinalityType, FS_EmptySet
<1>5. Cardinality(A) = 1
  BY <1>3, <1>4
<1> HIDE DEF A
<1>6. \E x : A = {x}
  BY <1>1, <1>5, FS_Singleton
<1> QED
  BY <1>2, <1>6

LEMMA StoreTotalTotals ==
  ASSUME TotalsInv, Inv', NEW w \in Writers, StoreTotal(w)
  PROVE  TotalsInv'
<1> USE DEF TotalsInv, StoreTotal, Goto, maxima
<1>1. /\ pc \in [Threads -> Locations] /\ w \in Threads \ Readers
      /\ pc[w] = "work" /\ pc' = [pc EXCEPT ![w] = "leaving"]
  BY RWAssumption DEF RWAssumption, Inv, Threads
<1>2. totalWrites' = totalWrites + 1
  BY <1>1 DEF LoadedFresh
<1>3. /\ CountIn(pc', Readers, Past) = CountIn(pc, Readers, Past)
      /\ CountIn(pc', Writers, Past) = CountIn(pc, Writers, Past) + 1
      /\ CountIn(pc, Writers, Past) \in Nat
  BY <1>1, PastCount, PastElsewhere
<1>4. Cardinality(Completed(count, Writers)) \in Nat
  BY CompletedFinite, RWAssumption DEF RWAssumption
<1>5. TotalsExact'
  BY <1>2, <1>3, <1>4, TotalsCount DEF TotalsExact, Counted, At, Completed, CountIn, Past
<1>6. CallsLeft'
  BY <1>1 DEF CallsLeft
<1>7. LoadedFresh'
  <2>1. \A v \in Writers : pc'[v] # "work"
    BY <1>1, WriterAlone DEF InCall, Threads
  <2> QED
    BY <2>1 DEF LoadedFresh
<1>8. StatisticsTyped' /\ InsideSeen' /\ OverlapSeen'
  BY <1>2 DEF StatisticsTyped, InsideSeen, OverlapSeen
<1> QED
  BY <1>5, <1>6, <1>7, <1>8

(* Nobody becomes an active reader by leaving. *)
LEMMA ExitLowers ==
  ASSUME Inv, NEW t, NEW to, ExitProtocol(t, to)
  PROVE  activeReaders' <= activeReaders /\ activeReaders' \in Int /\ activeReaders \in Nat
<1>1. activeReaders \in Nat
  BY InvCounts
<1> QED
  BY <1>1 DEF ExitProtocol, AfterRead, AfterWrite

(* A call that returns is counted by its thread from now on. *)
LEMMA ReturnTotals ==
  ASSUME TotalsInv, Inv', NEW t \in Threads, pc[t] = "leaving",
         ExitProtocol(t, "check"),
         count' = [count EXCEPT ![t] = @ + 1],
         UNCHANGED <<totalReads, totalWrites, maxima, loaded>>
  PROVE  TotalsInv'
<1> USE DEF TotalsInv, maxima
<1>1. /\ pc \in [Threads -> Locations] /\ count \in [Threads -> 0..Calls]
      /\ pc' = [pc EXCEPT ![t] = "check"]
  BY DEF Inv, StatisticsTyped, ExitProtocol, AfterRead, AfterWrite
<1>2. count[t] < Calls /\ Calls \in Nat
  BY RWUserAssumption DEF RWUserAssumption, CallsLeft
<1>3. ASSUME NEW S \in {Readers, Writers}
      PROVE  Cardinality(Completed(count', S)) + CountIn(pc', S, Past)
               = Cardinality(Completed(count, S)) + CountIn(pc, S, Past)
  <2>1. S \subseteq Threads /\ IsFiniteSet(S)
    BY RWAssumption DEF RWAssumption, Threads
  <2>2. CASE t \in S
    <3>1. Cardinality(Completed(count', S)) = Cardinality(Completed(count, S)) + 1
      BY <1>1, <1>2, <2>1, <2>2, CompletedGrows
    <3>2. CountIn(pc', S, Past) = CountIn(pc, S, Past) - 1 /\ CountIn(pc, S, Past) \in Nat
      <4>1. /\ pc[t] \in Past /\ pc'[t] \notin Past
            /\ \A x \in Threads \ {t} : pc'[x] = pc[x]
        BY <1>1 DEF Past
      <4> QED
        BY <4>1, <2>2, PastMoves
    <3>3. Cardinality(Completed(count, S)) \in Nat
      BY <2>1, CompletedFinite
    <3> QED
      BY <3>1, <3>2, <3>3
  <2>3. CASE t \notin S
    <3>1. \A x \in S : count'[x] = count[x]
      <4>1. \A x \in Threads : x # t => count'[x] = count[x]
        BY <1>1
      <4> QED
        BY <2>1, <2>3, <4>1
    <3>2. Completed(count', S) = Completed(count, S)
      <4> HIDE DEF TotalsInv, maxima
      <4> QED
        BY <3>1, CompletedStays
    <3>3. CountIn(pc', S, Past) = CountIn(pc, S, Past)
      BY <1>1, <2>3, PastElsewhere
    <3> QED
      BY <3>2, <3>3
  <2> QED
    BY <2>2, <2>3
<1>4. TotalsExact'
  BY <1>3, TotalsCount DEF TotalsExact, Counted, At, Completed, CountIn, Past
<1>5. CallsLeft'
  BY <1>1 DEF CallsLeft
<1>6. LoadedFresh'
  BY <1>1 DEF LoadedFresh, Threads
<1>7. count' \in [Threads -> 0..Calls]
  <2>1. count[t] + 1 \in 0..Calls
    BY <1>1, <1>2
  <2> QED
    BY <1>1, <2>1
<1>8. StatisticsTyped' /\ OverlapSeen'
  BY <1>7 DEF StatisticsTyped, OverlapSeen
<1>9. InsideSeen'
  <2>1. activeReaders' <= activeReaders /\ activeReaders' \in Int /\ activeReaders \in Nat
    BY ExitLowers
  <2> QED
    BY <2>1 DEF InsideSeen, StatisticsTyped
<1> QED
  BY <1>4, <1>5, <1>6, <1>8, <1>9

LEMMA TotalsInit == ASSUME Init PROVE TotalsInv
<1> USE DEF Init, RWInit
<1>1. Inv
  BY InitInv
<1>2. Calls \in Nat \ {0}
  BY RWUserAssumption DEF RWUserAssumption
<1>3. StatisticsTyped /\ CallsLeft /\ LoadedFresh /\ InsideSeen /\ OverlapSeen
  BY <1>2 DEF StatisticsTyped, CallsLeft, LoadedFresh, InsideSeen, OverlapSeen, Threads
<1>4. ASSUME NEW S \in {Readers, Writers}
      PROVE  Cardinality(Completed(count, S)) + CountIn(pc, S, Past) = 0
  <2>1. Completed(count, S) = {}
    <3>1. \A call \in S \X (1..Calls) : count[call[1]] = 0 /\ call[2] \in 1..Calls
      BY DEF Threads
    <3> QED
      BY <1>2, <3>1 DEF Completed
  <2>2. {x \in S : pc[x] \in Past} = {}
    BY DEF Past, Threads
  <2> QED
    BY <2>1, <2>2, FS_EmptySet DEF CountIn
<1>5. TotalsExact
  BY <1>4, TotalsCount
<1> QED
  BY <1>1, <1>3, <1>5 DEF TotalsInv

LEMMA TotalsNext == ASSUME TotalsInv, [Next]_vars PROVE TotalsInv'
<1>1. Inv'
  BY NextInv DEF TotalsInv
<1>2. pc \in [Threads -> Locations]
  BY DEF TotalsInv, Inv
<1>3. ASSUME NEW t \in Threads, CheckRunning(t) PROVE TotalsInv'
  <2>1. PICK to \in {"call", "ended"} :
          Goto(t, "check", to) /\ (to = "call" => count[t] < Calls)
    BY <1>3 DEF CheckRunning
  <2>2. UNCHANGED <<activeReaders, count, totalReads, totalWrites, maxima, loaded>>
    BY <1>3 DEF CheckRunning, userVars
  <2>3. mostInside' \in Nat /\ mostInside <= mostInside' /\ activeReaders' <= mostInside'
    BY <2>2 DEF maxima, TotalsInv, StatisticsTyped, InsideSeen
  <2> QED
    BY <1>1, <2>1, <2>2, <2>3, TotalsStand DEF Goto, Locations, maxima
<1>4. ASSUME UNCHANGED <<pc, count, totalReads, totalWrites, maxConcurrent, overlap, loaded>>,
             mostInside' \in Nat, mostInside <= mostInside', activeReaders' <= mostInside'
      PROVE  TotalsInv'
  <2>1. StatisticsTyped' /\ InsideSeen' /\ OverlapSeen'
    BY <1>4 DEF TotalsInv, StatisticsTyped, InsideSeen, OverlapSeen
  <2>2. CallsLeft' /\ LoadedFresh' /\ TotalsExact'
    BY <1>4 DEF TotalsInv, CallsLeft, LoadedFresh, TotalsExact, Counted, At
  <2> QED
    BY <1>1, <2>1, <2>2 DEF TotalsInv
<1>5. ASSUME NEW t \in Threads, Enter(t) PROVE TotalsInv'
  <2>1. UNCHANGED <<count, totalReads, totalWrites, maxConcurrent, overlap, loaded>>
    BY <1>5 DEF Enter
  <2>2. \/ UNCHANGED pc
        \/ \E to \in {"queued", "inside"} :
             pc[t] \in {"call", "queued"} /\ pc' = [pc EXCEPT ![t] = to]
    BY <1>5 DEF Enter, BeforeRead, BeforeReadWaits, BeforeWrite, BeforeWriteWaits, Goto
  <2>3. mostInside' \in Nat /\ mostInside <= mostInside' /\ activeReaders' <= mostInside'
    <3>1. activeReaders' = ReadersIn'
      BY <1>1 DEF Inv, AccessExclusive, ReadersIn
    <3>2. ReadersIn' \in Nat
      <4>1. At(Readers, InCall)' \in SUBSET Readers
        BY DEF At
      <4> QED
        BY <4>1, RWAssumption, FS_Subset, FS_CardinalityType DEF RWAssumption, ReadersIn
    <3>3. mostInside \in Nat
      BY DEF TotalsInv, StatisticsTyped
    <3>4. mostInside' = IF ReadersIn' > mostInside THEN ReadersIn' ELSE mostInside
      BY <1>5 DEF Enter
    <3> QED
      BY <3>1, <3>2, <3>3, <3>4
  <2>4. ASSUME NEW to \in {"queued", "inside"}, pc[t] \in {"call", "queued"},
               pc' = [pc EXCEPT ![t] = to]
        PROVE  TotalsInv'
    <3>1. count[t] < Calls
      BY <2>4 DEF TotalsInv, CallsLeft
    <3> QED
      BY <1>1, <2>1, <2>3, <2>4, <3>1, TotalsStand DEF Locations
  <2> QED
    BY <1>4, <2>1, <2>2, <2>3, <2>4
<1>6. ASSUME NEW t \in Threads, Raise(t), UNCHANGED userVars PROVE TotalsInv'
  <2>1. /\ UNCHANGED <<activeReaders, count, totalReads, totalWrites, maxima, loaded>>
        /\ pc[t] = "inside" /\ pc' = [pc EXCEPT ![t] = "failing"]
    BY <1>6 DEF Raise, Goto, userVars
  <2>2. count[t] < Calls
    BY <2>1 DEF TotalsInv, CallsLeft
  <2>3. mostInside' \in Nat /\ mostInside <= mostInside' /\ activeReaders' <= mostInside'
    BY <2>1 DEF maxima, TotalsInv, StatisticsTyped, InsideSeen
  <2> QED
    BY <1>1, <2>1, <2>2, <2>3, TotalsStand DEF Locations, maxima
<1>7. ASSUME NEW t \in Threads, Exit(t) PROVE TotalsInv'
  <2>1. UNCHANGED <<totalReads, totalWrites, maxima, loaded>>
    BY <1>7 DEF Exit
  <2>2. CASE /\ pc[t] = "leaving"
             /\ ExitProtocol(t, "check")
             /\ count' = [count EXCEPT ![t] = @ + 1]
    BY <1>1, <2>1, <2>2, ReturnTotals
  <2>3. CASE pc[t] = "failing" /\ ExitProtocol(t, "ended") /\ UNCHANGED count
    <3>1. pc' = [pc EXCEPT ![t] = "ended"]
      BY <2>3 DEF ExitProtocol, AfterRead, AfterWrite
    <3>2. mostInside' \in Nat /\ mostInside <= mostInside' /\ activeReaders' <= mostInside'
      <4>1. activeReaders' <= activeReaders /\ activeReaders' \in Int /\ activeReaders \in Nat
        BY <2>3, ExitLowers DEF TotalsInv
      <4> QED
        BY <2>1, <4>1 DEF maxima, TotalsInv, StatisticsTyped, InsideSeen
    <3> QED
      BY <1>1, <2>1, <2>3, <3>1, <3>2, TotalsStand DEF Locations, maxima
  <2> QED
    BY <1>7, <2>2, <2>3 DEF Exit
<1>8. ASSUME UNCHANGED <<pc, activeReaders, count, totalReads, totalWrites, maxima, loaded>>
      PROVE  TotalsInv'
  <2>1. mostInside' \in Nat /\ mostInside <= mostInside' /\ activeReaders' <= mostInside'
    BY <1>8 DEF maxima, TotalsInv, StatisticsTyped, InsideSeen
  <2> QED
    BY <1>4, <1>8, <2>1 DEF maxima
<1>9. CASE MainStep
  BY <1>8, <1>9 DEF MainStep, Stop, Join, rwVars, userVars
<1>10. CASE UNCHANGED vars
  BY <1>8, <1>10 DEF vars, rwVars, userVars
<1> QED
  BY <1>1, <1>3, <1>5, <1>6, <1>7, <1>9, <1>10, DoReadTotals, LoadTotalTotals, StoreTotalTotals
  DEF Next, ThreadStep

(***************************************************************************)
(* No access is lost from the totals and none counted twice, although      *)
(* total_writes += 1 is two steps and no lock protects it; and             *)
(* max_concurrent_readers never falls short of the readers that were in    *)
(* do_read() together, nor exceeds the most that were inside read().       *)
(***************************************************************************)
THEOREM Statistics == Spec => [](TotalsExact /\ OverlapSeen)
<1>1. Init => TotalsInv
  BY TotalsInit
<1>2. TotalsInv /\ [Next]_vars => TotalsInv'
  BY TotalsNext
<1>3. TotalsInv => TotalsExact /\ OverlapSeen
  BY DEF TotalsInv
<1> QED
  BY <1>1, <1>2, <1>3, PTL DEF Spec
=============================================================================
