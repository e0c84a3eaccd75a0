-------------------------- MODULE RdtParts_proofs --------------------------
(***************************************************************************)
(* The two parts of chapter 9 that stand by themselves: the sequence       *)
(* numbers of rdt_dilemma.py, and the class LossyChannel.                  *)
(*                                                                         *)
(* Sequence numbers.  Selective repeat modulo N, for every modulus,        *)
(* transfer length and set of widths, and whichever packets and            *)
(* acknowledgements are lost: a window of at most N/2 keeps the order, and *)
(* one of at most N fails only in the way that report() describes.  As     *)
(* long as the order is kept, no packet that the receiver lacks is         *)
(* acknowledged unless another one fills its place, so that base is at     *)
(* most the receiver's next packet and whatever arrives is less than a     *)
(* window beyond it.  A window of at most N then tells the packet awaited  *)
(* from all later ones with its number: a wrong one is older.  With at     *)
(* most N/2 an older one is never within the window.  The scripted loss    *)
(* breaks every wider one: no packet of it is lost, so that what comes is  *)
(* next in the stream or old, and packet 0, sent again, is held in the     *)
(* place of packet N until the stream gets there (Script).                 *)
(*                                                                         *)
(* The channel.  For all delays and jitters and any number of sends, the   *)
(* pump is never late and the class is the channel of RdtCommon.  No       *)
(* datagram is in two places, so that what is between the ends is a set    *)
(* and its sequence is determined; without jitter heap, hand and socket    *)
(* hold it in the order sent, so that the first is the one read.           *)
(***************************************************************************)
EXTENDS RdtDilemma, LossyChannel, SequenceTheorems, FiniteSetTheorems,
        WellFoundedInduction, TLAPS

(* The receiver has the packet, or one that fills its place. *)
Arrived(n) == n < Len(delivered) \/ \E m \in buffer : SeqNo(m) = SeqNo(n)

(* The sequence numbers whose packets in the window have all arrived. *)
TrueAcks == {s \in Nat : \A n \in base..(next - 1) : SeqNo(n) = s => Arrived(n)}

Typed ==
  /\ width \in Nat
  /\ base \in Nat /\ next \in Nat
  /\ acked \in SUBSET Nat
  /\ buffer \in SUBSET Nat
  /\ expected \in Nat
  /\ delivered \in Seq(Nat)

SenderWindow ==
  /\ base <= next /\ next <= base + width
  /\ \A n \in Nat : n < base => n \in acked
  /\ \A n \in acked : n < next

RoundPackets ==
  /\ outgoing \in Seq(base..(next - 1))
  /\ pc # "receive" => outgoing = <<>>

(* What holds of any window, and in or out of order. *)
Always == Typed /\ SenderWindow /\ RoundPackets

AckedArrived == \A n \in acked : Arrived(n)

ReceiverPlace ==
  /\ expected = SeqNo(Len(delivered))
  /\ Len(delivered) <= next
  /\ \A n \in buffer : n < next /\ SeqNo(n) # expected
  /\ \A m, n \in buffer : SeqNo(m) = SeqNo(n) => m = n

AnswersTrue ==
  /\ acks \in Seq(TrueAcks)
  /\ pc = "round" => acks = <<>>

(* What holds as long as the order is kept. *)
Facts ==
  /\ Always
  /\ AckedArrived
  /\ ReceiverPlace
  /\ AnswersTrue
  /\ InOrder

(* The receiver holds nothing old. *)
Ahead == \A n \in buffer : Len(delivered) < n

Inv ==
  /\ Always
  /\ width <= Modulus => FailureExplained /\ (InOrder => Facts)
  /\ 2 * width <= Modulus => InOrder /\ Ahead
-----------------------------------------------------------------------------
(* Numbers and their remainders. *)

LEMMA Division ==
  ASSUME NEW N \in Nat \ {0}, NEW a \in Nat
  PROVE  /\ a = N * (a \div N) + (a % N)
         /\ a \div N \in Nat
         /\ a % N \in 0..(N - 1)
  OBVIOUS

LEMMA Remainder ==
  ASSUME NEW N \in Nat \ {0}, NEW q \in Int, NEW r \in 0..(N - 1)
  PROVE  (N * q + r) % N = r
  OBVIOUS

LEMMA SeqNoIs ==
  ASSUME NEW a \in Nat
  PROVE  /\ SeqNo(a) \in 0..(Modulus - 1)
         /\ \E q \in Nat : a = Modulus * q + SeqNo(a)
  BY DilemmaAssumption, Division DEF SeqNo, DilemmaAssumption

(* A sequence number names one packet of any Modulus consecutive ones. *)
LEMMA SameNumber ==
  ASSUME NEW a \in Nat, NEW b \in Nat, a <= b, b < a + Modulus,
         SeqNo(a) = SeqNo(b)
  PROVE  a = b
<1>1. Modulus \in Nat \ {0}
  BY DilemmaAssumption DEF DilemmaAssumption
<1>2. PICK p \in Nat : a = Modulus * p + SeqNo(a)
  BY SeqNoIs
<1>3. PICK q \in Nat : b = Modulus * q + SeqNo(b)
  BY SeqNoIs
<1>4. SeqNo(a) \in Nat
  BY <1>1, SeqNoIs
<1>5. (b - a) % Modulus = 0
  <2>1. b - a = Modulus * (q - p) + 0
    BY <1>1, <1>2, <1>3, <1>4
  <2>2. q - p \in Int /\ 0 \in 0..(Modulus - 1)
    BY <1>1
  <2>3. (Modulus * (q - p) + 0) % Modulus = 0
    BY <1>1, <2>2, Remainder
  <2> QED
    BY <2>1, <2>3
<1>6. (b - a) % Modulus = b - a
  <2>1. b - a \in 0..(Modulus - 1) /\ b - a = Modulus * 0 + (b - a)
    BY <1>1
  <2> QED
    BY <1>1, <2>1, Remainder
<1> QED
  BY <1>5, <1>6

(* The distance that in_window computes is the one between the packets. *)
LEMMA Distance ==
  ASSUME NEW r \in Nat, NEW n \in Nat, r <= n + Modulus, n < r + Modulus
  PROVE  (SeqNo(n) + Modulus - SeqNo(r)) % Modulus
           = IF r <= n THEN n - r ELSE n + Modulus - r
<1>1. Modulus \in Nat \ {0}
  BY DilemmaAssumption DEF DilemmaAssumption
<1>2. PICK p \in Nat : n = Modulus * p + SeqNo(n)
  BY SeqNoIs
<1>3. PICK q \in Nat : r = Modulus * q + SeqNo(r)
  BY SeqNoIs
<1>4. SeqNo(n) \in Nat /\ SeqNo(r) \in Nat
  BY <1>1, SeqNoIs
<1>5. CASE r <= n
  <2>1. SeqNo(n) + Modulus - SeqNo(r) = Modulus * (1 + q - p) + (n - r)
    BY <1>1, <1>2, <1>3, <1>4
  <2>2. n - r \in 0..(Modulus - 1) /\ 1 + q - p \in Int
    BY <1>1, <1>5
  <2>3. (Modulus * (1 + q - p) + (n - r)) % Modulus = n - r
    BY <1>1, <2>2, Remainder
  <2> QED
    BY <1>5, <2>1, <2>3
<1>6. CASE n < r
  <2>1. SeqNo(n) + Modulus - SeqNo(r) = Modulus * (q - p) + (n + Modulus - r)
    BY <1>1, <1>2, <1>3, <1>4
  <2>2. n + Modulus - r \in 0..(Modulus - 1) /\ q - p \in Int
    BY <1>1, <1>6
  <2>3. (Modulus * (q - p) + (n + Modulus - r)) % Modulus = n + Modulus - r
    BY <1>1, <2>2, Remainder
  <2> QED
    BY <1>6, <2>1, <2>3
<1> QED
  BY <1>5, <1>6

(* The receiver may count on from a sequence number as from the packet's. *)
LEMMA SeqNoPlus ==
  ASSUME NEW a \in Nat, NEW b \in Nat
  PROVE  SeqNo(SeqNo(a) + b) = SeqNo(a + b)
<1>1. Modulus \in Nat \ {0}
  BY DilemmaAssumption DEF DilemmaAssumption
<1>2. PICK p \in Nat : a = Modulus * p + SeqNo(a)
  BY SeqNoIs
<1>3. PICK c \in Nat : c = SeqNo(a) + b
  BY <1>1, SeqNoIs
<1>4. PICK q \in Nat : c = Modulus * q + SeqNo(c)
  BY SeqNoIs
<1>5. SeqNo(a) \in Nat /\ SeqNo(c) \in 0..(Modulus - 1) /\ p + q \in Int
  BY <1>1, SeqNoIs
<1>6. a + b = Modulus * (p + q) + SeqNo(c)
  <2>1. a + b = Modulus * p + c
    BY <1>1, <1>2, <1>3, <1>5
  <2>2. Modulus * p + (Modulus * q + SeqNo(c)) = Modulus * (p + q) + SeqNo(c)
    BY <1>1, <1>5
  <2> QED
    BY <1>4, <2>1, <2>2
<1>7. (Modulus * (p + q) + SeqNo(c)) % Modulus = SeqNo(c)
  BY <1>1, <1>5, Remainder
<1>8. (a + b) % Modulus = SeqNo(c)
  BY <1>6, <1>7
<1> QED
  BY <1>3, <1>8 DEF SeqNo

LEMMA FullCircle ==
  ASSUME NEW a \in Nat
  PROVE  SeqNo(a + Modulus) = SeqNo(a)
<1>1. Modulus \in Nat \ {0}
  BY DilemmaAssumption DEF DilemmaAssumption
<1>2. PICK q \in Nat : a = Modulus * q + SeqNo(a)
  BY SeqNoIs
<1>3. SeqNo(a) \in 0..(Modulus - 1) /\ q + 1 \in Int
  BY SeqNoIs
<1>4. a + Modulus = Modulus * (q + 1) + SeqNo(a)
  BY <1>1, <1>2, <1>3
<1>5. (Modulus * (q + 1) + SeqNo(a)) % Modulus = SeqNo(a)
  BY <1>1, <1>3, Remainder
<1> QED
  BY <1>4, <1>5 DEF SeqNo
-----------------------------------------------------------------------------
(* What CHOOSE finds: a least number, and the run the receiver holds. *)

LEMMA LeastNumber ==
  ASSUME NEW S \in SUBSET Nat, S # {}
  PROVE  \E x \in S : \A y \in S : x <= y
<1>1. IsWellFoundedOn(OpToRel(<, Nat), Nat)
  BY NatLessThanWellFounded
<1>2. PICK x \in S : \A y \in S : ~ (<<y, x>> \in OpToRel(<, Nat))
  BY <1>1, WFMin
<1>3. ASSUME NEW y \in S
      PROVE  x <= y
  <2>1. <<y, x>> \notin {p \in Nat \X Nat : p[1] < p[2]}
    BY <1>2 DEF OpToRel
  <2> QED
    BY <2>1
<1> QED
  BY <1>3

LEMMA MinIsLeast ==
  ASSUME NEW S \in SUBSET Nat, S # {}
  PROVE  Min(S) \in S /\ \A y \in S : Min(S) <= y
  BY LeastNumber DEF Min

LEMMA RunLengthIs ==
  ASSUME NEW held
  PROVE  /\ RunLength(held) \in 0..Modulus
         /\ \A i \in 0..(RunLength(held) - 1) :
              \E n \in held : SeqNo(n) = SeqNo(expected + i)
         /\ \A n \in held :
              RunLength(held) < Modulus
                => SeqNo(n) # SeqNo(expected + RunLength(held))
<1> DEFINE Stops(k) == \A n \in held : k < Modulus => SeqNo(n) # SeqNo(expected + k)
           Holds(i) == \E n \in held : SeqNo(n) = SeqNo(expected + i)
           S == {k \in 0..Modulus : Stops(k)}
<1>1. Modulus \in Nat
  BY DilemmaAssumption DEF DilemmaAssumption
<1>2. S \in SUBSET Nat /\ Modulus \in S
  BY <1>1
<1>3. PICK k \in S : \A j \in S : k <= j
  BY <1>2, LeastNumber
<1>4. k \in 0..Modulus /\ Stops(k)
  BY <1>3
<1>5. ASSUME NEW i \in 0..(k - 1)
      PROVE  Holds(i)
  <2>1. i \in 0..Modulus /\ ~ (k <= i)
    BY <1>1, <1>4
  <2>2. ~ Stops(i)
    BY <1>3, <2>1
  <2> QED
    BY <2>2
<1>6. \E m \in 0..Modulus : (\A i \in 0..(m - 1) : Holds(i)) /\ Stops(m)
  BY <1>4, <1>5
<1> QED
  BY <1>6 DEF RunLength
-----------------------------------------------------------------------------
(* The receiver. *)

(* Where a packet of the sender's window lies from the receiver's side. *)
LEMMA NearReceiver ==
  ASSUME Facts, width <= Modulus, NEW number \in base..(next - 1)
  PROVE  /\ number \in Nat /\ Len(delivered) \in Nat /\ base <= Len(delivered)
         /\ next <= Len(delivered) + width /\ next <= Len(delivered) + Modulus
         /\ Len(delivered) <= number => InWindow(SeqNo(number))
         /\ 2 * width <= Modulus /\ InWindow(SeqNo(number)) => Len(delivered) <= number
         /\ \A n \in base..(next - 1) : SeqNo(n) = SeqNo(number) => n = number
<1> DEFINE R == Len(delivered)
<1>1. Modulus \in Nat \ {0}
  BY DilemmaAssumption DEF DilemmaAssumption
<1>2. /\ R \in Nat /\ width \in Nat /\ base \in Nat /\ next \in Nat /\ number \in Nat
      /\ next <= base + width /\ R <= next
  BY LenProperties DEF Facts, Always, Typed, SenderWindow, ReceiverPlace
<1>3. expected = SeqNo(R)
  BY DEF Facts, ReceiverPlace
<1>4. base <= R
  <2>1. ~ (R < R) /\ \A m \in buffer : SeqNo(m) # SeqNo(R)
    BY <1>2, <1>3 DEF Facts, ReceiverPlace
  <2>2. R \notin acked
    BY <2>1 DEF Facts, AckedArrived, Arrived
  <2> QED
    BY <1>2, <2>2 DEF Facts, Always, SenderWindow
<1> HIDE DEF R
<1>5. next <= R + width /\ next <= R + Modulus
  BY <1>1, <1>2, <1>4
<1>6. /\ R <= number + Modulus /\ number < R + Modulus /\ number < R + width
      /\ R <= number + width
  BY <1>1, <1>2, <1>4, <1>5
<1>7. (SeqNo(number) + Modulus - expected) % Modulus
        = IF R <= number THEN number - R ELSE number + Modulus - R
  BY <1>2, <1>3, <1>6, Distance
<1>8. R <= number => InWindow(SeqNo(number))
  BY <1>2, <1>6, <1>7 DEF InWindow
<1>9. 2 * width <= Modulus /\ InWindow(SeqNo(number)) => R <= number
  BY <1>1, <1>2, <1>6, <1>7 DEF InWindow
<1>10. ASSUME NEW n \in base..(next - 1), SeqNo(n) = SeqNo(number)
       PROVE  n = number
  <2>1. n \in Nat /\ n < number + Modulus /\ number < n + Modulus
    BY <1>1, <1>2
  <2>2. CASE n <= number
    BY <1>2, <1>10, <2>1, <2>2, SameNumber
  <2>3. CASE number <= n
    BY <1>2, <1>10, <2>1, <2>3, SameNumber
  <2> QED
    BY <1>2, <2>1, <2>2, <2>3
<1> QED
  BY <1>2, <1>4, <1>5, <1>8, <1>9, <1>10 DEF R

(* What the receiver holds with a packet that has come, how long the run   *)
(* from the next packet on is, and what it hands over.                     *)
Held(number) == {n \in buffer : SeqNo(n) # SeqNo(number)} \cup {number}

Run(number) == RunLength(Held(number))

Handed(number) ==
  [i \in 1..Run(number) |->
     CHOOSE n \in Held(number) : SeqNo(n) = SeqNo(expected + i - 1)]

LEMMA ReceiveIs ==
  ASSUME NEW number, Receive(number), InWindow(SeqNo(number))
  PROVE  /\ delivered' = delivered \o Handed(number)
         /\ buffer' = Held(number) \ ToSet(Handed(number))
         /\ expected' = SeqNo(expected + Run(number))
  BY DEF Receive, Handed, Run, Held

(* Each packet handed over is one held, with the number of its position.   *)
LEMMA HandedOver ==
  ASSUME Typed, NEW number \in Nat, InWindow(SeqNo(number)), Receive(number)
  PROVE  /\ Len(delivered) \in Nat /\ Run(number) \in 0..Modulus
         /\ \A i \in 1..Run(number) :
              /\ Handed(number)[i] \in Held(number)
              /\ SeqNo(Handed(number)[i]) = SeqNo(expected + i - 1)
         /\ \A n : n \in ToSet(Handed(number)) <=> \E i \in 1..Run(number) : n = Handed(number)[i]
         /\ delivered' \in Seq(Nat)
         /\ Len(delivered') = Len(delivered) + Run(number)
         /\ \A i \in 1..Len(delivered) : delivered'[i] = delivered[i]
         /\ \A i \in 1..Run(number) : delivered'[Len(delivered) + i] = Handed(number)[i]
         /\ \A n \in Held(number) :
              Run(number) < Modulus => SeqNo(n) # SeqNo(expected + Run(number))
<1> DEFINE R == Len(delivered)
           held == Held(number)
           run == Run(number)
           handed == Handed(number)
<1>1. Modulus \in Nat \ {0}
  BY DilemmaAssumption DEF DilemmaAssumption
<1>2. R \in Nat /\ delivered \in Seq(Nat) /\ held \in SUBSET Nat /\ expected \in Nat
  BY LenProperties DEF Typed, Held
<1>3. /\ run \in 0..Modulus
      /\ \A i \in 0..(run - 1) : \E n \in held : SeqNo(n) = SeqNo(expected + i)
      /\ \A n \in held : run < Modulus => SeqNo(n) # SeqNo(expected + run)
  BY RunLengthIs DEF Run
<1>4. delivered' = delivered \o handed
  BY ReceiveIs
<1>5. /\ handed = [i \in 1..run |-> CHOOSE n \in held : SeqNo(n) = SeqNo(expected + i - 1)]
  BY DEF Handed
<1> HIDE DEF R, held, run, handed
<1>6. ASSUME NEW i \in 1..run
      PROVE  handed[i] \in held /\ SeqNo(handed[i]) = SeqNo(expected + i - 1)
  <2>1. i - 1 \in 0..(run - 1) /\ expected + (i - 1) = expected + i - 1
    BY <1>1, <1>2, <1>3
  <2>2. \E n \in held : SeqNo(n) = SeqNo(expected + i - 1)
    <3>1. \E n \in held : SeqNo(n) = SeqNo(expected + (i - 1))
      BY <1>3, <2>1
    <3> QED
      BY <2>1, <3>1
  <2>3. handed[i] = CHOOSE n \in held : SeqNo(n) = SeqNo(expected + i - 1)
    BY <1>5
  <2> QED
    BY <2>2, <2>3
<1>7. DOMAIN handed = 1..run /\ handed \in [1..run -> Nat]
  <2>1. DOMAIN handed = 1..run /\ handed = [i \in 1..run |-> handed[i]]
    BY <1>5
  <2>2. \A i \in 1..run : handed[i] \in Nat
    BY <1>2, <1>6
  <2> QED
    BY <2>1, <2>2
<1>8. run \in Nat
  BY <1>1, <1>3
<1>9. handed \in Seq(Nat) /\ Len(handed) = run
  BY <1>7, <1>8, LenProperties
<1>10. \A n : n \in ToSet(handed) <=> \E i \in 1..run : n = handed[i]
  BY <1>7, Zenon DEF ToSet
<1>11. /\ delivered' \in Seq(Nat)
       /\ Len(delivered') = R + run
       /\ \A i \in 1..(R + run) :
            delivered'[i] = IF i <= R THEN delivered[i] ELSE handed[i - R]
  <2>1. /\ delivered \o handed \in Seq(Nat)
        /\ Len(delivered \o handed) = Len(delivered) + Len(handed)
        /\ \A i \in 1..(Len(delivered) + Len(handed)) :
             (delivered \o handed)[i] = IF i <= Len(delivered) THEN delivered[i]
                                        ELSE handed[i - Len(delivered)]
    BY <1>2, <1>9, ConcatProperties
  <2> QED
    BY <1>4, <1>9, <2>1 DEF R
<1>12. ASSUME NEW i \in 1..R
       PROVE  delivered'[i] = delivered[i]
  BY <1>2, <1>8, <1>11
<1>13. ASSUME NEW i \in 1..run
       PROVE  delivered'[R + i] = handed[i]
  <2>1. R + i \in 1..(R + run) /\ ~ (R + i <= R) /\ (R + i) - R = i
    BY <1>2, <1>8
  <2> QED
    BY <1>11, <2>1
<1> QED
  BY <1>2, <1>3, <1>6, <1>10, <1>11, <1>12, <1>13 DEF R, held, run, handed

(* The same, counted from the number of packets delivered. *)
LEMMA HandedInPlace ==
  ASSUME Facts, NEW number \in Nat, InWindow(SeqNo(number)), Receive(number)
  PROVE  /\ \A i \in 1..Run(number) :
              SeqNo(Handed(number)[i]) = SeqNo(Len(delivered) + i - 1)
         /\ expected' = SeqNo(Len(delivered) + Run(number))
         /\ \A n \in Held(number) :
              Run(number) < Modulus => SeqNo(n) # SeqNo(Len(delivered) + Run(number))
<1> DEFINE R == Len(delivered)
           run == Run(number)
<1>1. Typed /\ expected = SeqNo(R) /\ Modulus \in Nat
  BY DilemmaAssumption DEF Facts, Always, ReceiverPlace, DilemmaAssumption
<1>2. /\ R \in Nat /\ run \in 0..Modulus /\ run \in Nat /\ expected \in Nat
      /\ \A i \in 1..run : SeqNo(Handed(number)[i]) = SeqNo(expected + i - 1)
      /\ \A n \in Held(number) : run < Modulus => SeqNo(n) # SeqNo(expected + run)
      /\ expected' = SeqNo(expected + run)
  BY <1>1, HandedOver, ReceiveIs DEF Typed
<1> HIDE DEF R, run
<1>3. \A i \in Nat : SeqNo(expected + i) = SeqNo(R + i)
  BY <1>1, <1>2, SeqNoPlus
<1>4. ASSUME NEW i \in 1..run
      PROVE  SeqNo(expected + i - 1) = SeqNo(R + i - 1)
  <2>1. i - 1 \in Nat /\ expected + (i - 1) = expected + i - 1 /\ R + (i - 1) = R + i - 1
    BY <1>1, <1>2
  <2>2. SeqNo(expected + (i - 1)) = SeqNo(R + (i - 1))
    BY <1>3, <2>1
  <2> QED
    BY <2>1, <2>2
<1> QED
  BY <1>2, <1>3, <1>4 DEF R, run

(* Whatever is delivered later, the first packet that was wrong stays it. *)
LEMMA WrongForGood ==
  ASSUME Typed, FailureExplained, ~InOrder, delivered' \in Seq(Nat),
         Len(delivered) <= Len(delivered'),
         \A i \in 1..Len(delivered) : delivered'[i] = delivered[i]
  PROVE  ~InOrder' /\ FailureExplained'
<1>1. /\ Len(delivered) \in Nat /\ DOMAIN delivered = 1..Len(delivered)
      /\ Len(delivered') \in Nat /\ DOMAIN delivered' = 1..Len(delivered')
  BY LenProperties DEF Typed
<1>2. PICK k \in 1..Len(delivered) : delivered[k] # k - 1
  BY <1>1 DEF InOrder
<1>3. k \in 1..Len(delivered') /\ delivered'[k] # k - 1
  BY <1>1, <1>2
<1>4. ASSUME NEW i \in 1..Len(delivered'),
             \A j \in 1..(i - 1) : delivered'[j] = j - 1, delivered'[i] # i - 1
      PROVE  delivered'[i] < i - 1 /\ SeqNo(delivered'[i]) = SeqNo(i - 1)
  <2>1. i <= k
    BY <1>1, <1>3, <1>4
  <2>2. i \in 1..Len(delivered) /\ \A j \in 1..(i - 1) : j \in 1..Len(delivered)
    BY <1>1, <2>1
  <2>3. /\ delivered'[i] = delivered[i] /\ delivered[i] # i - 1
        /\ \A j \in 1..(i - 1) : delivered[j] = j - 1
    BY <1>4, <2>2
  <2> QED
    BY <1>1, <2>2, <2>3 DEF FailureExplained
<1> QED
  BY <1>1, <1>3, <1>4 DEF InOrder, FailureExplained

(***************************************************************************)
(* A packet within the window.  What is handed over is in order, or else   *)
(* its first wrong packet is an old one.                                   *)
(***************************************************************************)
LEMMA TakenIn ==
  ASSUME Facts, width <= Modulus, NEW number \in base..(next - 1),
         InWindow(SeqNo(number)), Receive(number), UNCHANGED <<width, senderVars>>
  PROVE  /\ FailureExplained'
         /\ InOrder' =>
              /\ ReceiverPlace'
              /\ \A n \in Nat : n < next /\ Arrived(n) => Arrived(n)'
              /\ Arrived(number)'
         /\ 2 * width <= Modulus /\ Ahead => InOrder' /\ Ahead'
<1> DEFINE R == Len(delivered)
           held == Held(number)
           run == Run(number)
           handed == Handed(number)
<1>1. Modulus \in Nat \ {0}
  BY DilemmaAssumption DEF DilemmaAssumption
<1>2. /\ number \in Nat /\ R \in Nat /\ number < next
      /\ next <= R + width /\ next <= R + Modulus
      /\ 2 * width <= Modulus => R <= number
  BY NearReceiver DEF Facts, Always, Typed
<1>3. /\ Typed /\ next \in Nat /\ width \in Nat /\ buffer \subseteq Nat
      /\ \A n \in buffer : n < next
      /\ \A m, n \in buffer : SeqNo(m) = SeqNo(n) => m = n
      /\ next' = next
  BY DEF Facts, Always, Typed, ReceiverPlace, senderVars
<1>4. /\ run \in 0..Modulus /\ run \in Nat
      /\ \A i \in 1..run : handed[i] \in held /\ SeqNo(handed[i]) = SeqNo(R + i - 1)
      /\ \A n : n \in ToSet(handed) <=> \E i \in 1..run : n = handed[i]
      /\ delivered' \in Seq(Nat)
      /\ Len(delivered') = R + run
      /\ \A i \in 1..R : delivered'[i] = delivered[i]
      /\ \A i \in 1..run : delivered'[R + i] = handed[i]
      /\ expected' = SeqNo(R + run)
      /\ \A n \in held : run < Modulus => SeqNo(n) # SeqNo(R + run)
  <2>1. /\ run \in 0..Modulus /\ run \in Nat
        /\ \A i \in 1..run : handed[i] \in held
        /\ \A n : n \in ToSet(handed) <=> \E i \in 1..run : n = handed[i]
        /\ delivered' \in Seq(Nat)
        /\ Len(delivered') = R + run
        /\ \A i \in 1..R : delivered'[i] = delivered[i]
        /\ \A i \in 1..run : delivered'[R + i] = handed[i]
    <3>1. number \in Nat /\ Typed
      BY <1>2, <1>3
    <3> HIDE DEF R, held, run, handed
    <3>2. run \in 0..Modulus
      BY <3>1, HandedOver DEF run
    <3>3. run \in Nat
      BY <1>1, <3>2
    <3>4. /\ \A i \in 1..run : handed[i] \in held
          /\ \A n : n \in ToSet(handed) <=> \E i \in 1..run : n = handed[i]
      BY <3>1, HandedOver, Zenon DEF run, handed, held
    <3>5. /\ delivered' \in Seq(Nat)
          /\ Len(delivered') = R + run
          /\ \A i \in 1..R : delivered'[i] = delivered[i]
          /\ \A i \in 1..run : delivered'[R + i] = handed[i]
      BY <3>1, HandedOver, Zenon DEF run, handed, R
    <3> QED
      BY <3>2, <3>3, <3>4, <3>5
  <2>2. /\ \A i \in 1..run : SeqNo(handed[i]) = SeqNo(R + i - 1)
        /\ expected' = SeqNo(R + run)
        /\ \A n \in held : run < Modulus => SeqNo(n) # SeqNo(R + run)
    BY <1>2, HandedInPlace
  <2> HIDE DEF R, held, run, handed
  <2> QED
    BY <2>1, <2>2
<1>5. buffer' = held \ ToSet(handed)
  BY ReceiveIs
<1>6. \A i \in 1..R : delivered[i] = i - 1
  BY <1>3, LenProperties DEF Facts, InOrder, Typed
<1>7. /\ \A n \in held : n \in Nat /\ n < next
      /\ \A m, n \in held : SeqNo(m) = SeqNo(n) => m = n
      /\ number \in held
      /\ \A n \in buffer : \E m \in held : SeqNo(m) = SeqNo(n)
  BY <1>2, <1>3 DEF Held
<1>8. 2 * width <= Modulus /\ Ahead => \A n \in held : R <= n
  BY <1>2, <1>3 DEF Held, Ahead
<1> HIDE DEF R, held, run, handed
<1>9. DOMAIN delivered' = 1..(R + run)
  BY <1>4, LenProperties
<1>10. \A n \in held : n < R + Modulus
  BY <1>1, <1>2, <1>3, <1>7
<1>11. ASSUME NEW i \in 1..run
       PROVE  handed[i] <= R + i - 1 /\ (handed[i] >= R => handed[i] = R + i - 1)
  <2>1. /\ handed[i] \in Nat /\ R + i - 1 \in Nat /\ handed[i] < (R + i - 1) + Modulus
        /\ SeqNo(handed[i]) = SeqNo(R + i - 1)
    <3>1. /\ handed[i] \in held /\ SeqNo(handed[i]) = SeqNo(R + i - 1)
      BY <1>4
    <3>2. handed[i] \in Nat /\ handed[i] < R + Modulus
      BY <1>7, <1>10, <3>1
    <3>3. R + i - 1 \in Nat /\ R <= R + i - 1
      BY <1>2, <1>4
    <3> QED
      BY <1>1, <1>2, <3>1, <3>2, <3>3
  <2>2. R + i - 1 <= handed[i] => handed[i] = R + i - 1
    BY <2>1, SameNumber
  <2>3. R + i - 1 < R + Modulus
    BY <1>1, <1>2, <1>4
  <2>4. handed[i] >= R /\ handed[i] <= R + i - 1 => handed[i] = R + i - 1
    <3>1. handed[i] >= R => R + i - 1 < handed[i] + Modulus
      BY <1>1, <1>2, <2>1, <2>3
    <3> QED
      BY <2>1, <3>1, SameNumber
  <2> QED
    BY <1>2, <2>1, <2>2, <2>4
<1>12. FailureExplained'
  <2> SUFFICES ASSUME NEW i \in 1..(R + run), delivered'[i] # i - 1
               PROVE  delivered'[i] < i - 1 /\ SeqNo(delivered'[i]) = SeqNo(i - 1)
    BY <1>9 DEF FailureExplained
  <2>1. i > R
    BY <1>2, <1>4, <1>6
  <2>2. i - R \in 1..run /\ R + (i - R) = i /\ R + (i - R) - 1 = i - 1
    BY <1>2, <1>4, <2>1
  <2>3. /\ delivered'[i] = handed[i - R] /\ handed[i - R] \in Nat
        /\ handed[i - R] <= i - 1
        /\ SeqNo(handed[i - R]) = SeqNo(i - 1)
    <3>1. handed[i - R] \in held /\ SeqNo(handed[i - R]) = SeqNo(R + (i - R) - 1)
      BY <1>4, <2>2
    <3>2. handed[i - R] <= R + (i - R) - 1
      BY <1>11, <2>2
    <3>3. delivered'[R + (i - R)] = handed[i - R]
      BY <1>4, <2>2
    <3> QED
      BY <1>7, <2>2, <3>1, <3>2, <3>3
  <2> QED
    BY <1>2, <2>3
<1>13. ASSUME InOrder'
       PROVE  /\ ReceiverPlace'
              /\ \A n \in Nat : n < next /\ Arrived(n) => Arrived(n)'
              /\ Arrived(number)'
  <2>1. ASSUME NEW i \in 1..run
        PROVE  handed[i] = R + i - 1
    <3>1. R + i \in 1..(R + run) /\ (R + i) - 1 = R + i - 1
      BY <1>2, <1>4
    <3>2. delivered'[R + i] = (R + i) - 1
      BY <1>9, <1>13, <3>1 DEF InOrder
    <3> QED
      BY <1>4, <3>1, <3>2
  <2>2. R + run <= next
    <3>1. CASE run = 0
      BY <1>2, <1>3, <3>1 DEF Facts, ReceiverPlace, R
    <3>2. CASE run > 0
      <4>1. run \in 1..run /\ handed[run] \in held /\ handed[run] = R + run - 1
        BY <1>4, <2>1, <3>2
      <4> QED
        BY <1>2, <1>3, <1>4, <1>7, <4>1
    <3> QED
      BY <1>4, <3>1, <3>2
  <2>3. ASSUME NEW n \in buffer'
        PROVE  n < next /\ SeqNo(n) # SeqNo(R + run)
    <3>1. n \in held /\ n \notin ToSet(handed)
      BY <1>5
    <3>2. CASE run < Modulus
      BY <1>4, <1>7, <3>1, <3>2
    <3>3. CASE run = Modulus
      <4>1. 1 \in 1..run /\ handed[1] \in held /\ SeqNo(handed[1]) = SeqNo(R) /\ handed[1] \in ToSet(handed)
        <5>1. 1 \in 1..run /\ R + 1 - 1 = R
          BY <1>1, <1>2, <3>3
        <5> QED
          BY <1>4, <5>1
      <4>2. SeqNo(R + Modulus) = SeqNo(R)
        BY <1>2, FullCircle
      <4>3. SeqNo(n) # SeqNo(R)
        BY <1>7, <3>1, <4>1
      <4> QED
        BY <1>7, <3>1, <3>3, <4>2, <4>3
    <3> QED
      BY <1>1, <1>4, <3>2, <3>3
  <2>4. ReceiverPlace'
    BY <1>3, <1>4, <1>5, <1>7, <2>2, <2>3 DEF ReceiverPlace
  <2>5. ASSUME NEW n \in Nat, n < next, NEW m \in held, SeqNo(m) = SeqNo(n)
        PROVE  n < R + run \/ \E k \in buffer' : SeqNo(k) = SeqNo(n)
    <3>1. CASE m \in buffer'
      BY <2>5, <3>1
    <3>2. CASE m \notin buffer'
      <4>1. PICK i \in 1..run : m = handed[i]
        BY <1>4, <1>5, <3>2
      <4>2. m = R + i - 1 /\ m \in Nat /\ R <= m /\ m < R + run /\ m < R + Modulus
        <5>1. m = R + i - 1
          BY <2>1, <4>1
        <5>2. run <= Modulus /\ i <= run /\ 1 <= i /\ i \in Nat /\ run \in Nat
          BY <1>1, <1>4
        <5> QED
          BY <1>1, <1>2, <5>1, <5>2
      <4>3. SUFFICES ASSUME R <= n PROVE n = m
        BY <1>2, <1>4, <4>2
      <4>4. n < R + Modulus
        BY <1>1, <1>2, <1>3, <2>5
      <4>5. n < m + Modulus /\ m < n + Modulus
        BY <1>1, <1>2, <4>2, <4>3, <4>4
      <4>6. CASE m <= n
        BY <2>5, <4>2, <4>5, <4>6, SameNumber
      <4>7. CASE n <= m
        BY <2>5, <4>2, <4>5, <4>7, SameNumber
      <4> QED
        BY <4>2, <4>6, <4>7
    <3> QED
      BY <3>1, <3>2
  <2>6. ASSUME NEW n \in Nat, n < next, Arrived(n)
        PROVE  Arrived(n)'
    <3>1. CASE n < R
      <4>1. n < R + run
        BY <1>2, <1>4, <3>1
      <4> QED
        BY <1>4, <4>1 DEF Arrived
    <3>2. CASE \E m \in buffer : SeqNo(m) = SeqNo(n)
      <4>1. PICK m \in held : SeqNo(m) = SeqNo(n)
        BY <1>7, <3>2
      <4>2. n < R + run \/ \E k \in buffer' : SeqNo(k) = SeqNo(n)
        BY <2>5, <2>6, <4>1
      <4> QED
        BY <1>4, <4>2 DEF Arrived
    <3> QED
      BY <2>6, <3>1, <3>2 DEF Arrived, R
  <2>7. Arrived(number)'
    <3>1. number < R + run \/ \E k \in buffer' : SeqNo(k) = SeqNo(number)
      BY <1>2, <1>7, <2>5
    <3> QED
      BY <1>4, <3>1 DEF Arrived
  <2> QED
    BY <2>4, <2>6, <2>7
<1>14. ASSUME 2 * width <= Modulus, Ahead
       PROVE  InOrder' /\ Ahead'
  <2>1. \A i \in 1..run : handed[i] = R + i - 1
    BY <1>4, <1>7, <1>8, <1>11, <1>14, <1>2
  <2>2. ASSUME NEW i \in 1..(R + run)
        PROVE  delivered'[i] = i - 1
    <3>1. CASE i <= R
      BY <1>2, <1>4, <1>6, <3>1
    <3>2. CASE i > R
      <4>1. i - R \in 1..run /\ R + (i - R) = i /\ R + (i - R) - 1 = i - 1
        BY <1>2, <1>4, <3>2
      <4>2. delivered'[R + (i - R)] = handed[i - R] /\ handed[i - R] = R + (i - R) - 1
        BY <1>4, <2>1, <4>1
      <4> QED
        BY <4>1, <4>2
    <3> QED
      BY <1>2, <1>4, <3>1, <3>2
  <2>3. InOrder'
    BY <1>9, <2>2 DEF InOrder
  <2>4. ASSUME NEW n \in buffer'
        PROVE  R + run < n
    <3>1. n \in held /\ n \notin ToSet(handed) /\ n \in Nat /\ R <= n
      BY <1>5, <1>7, <1>8, <1>14
    <3>2. SeqNo(n) # SeqNo(R + run)
      BY <1>13, <1>4, <2>3, <2>4 DEF ReceiverPlace
    <3>3. ~ (n < R + run)
      <4>1. SUFFICES ASSUME n < R + run PROVE FALSE
        OBVIOUS
      <4>2. n - R + 1 \in 1..run /\ R + (n - R + 1) - 1 = n
        BY <1>2, <1>4, <3>1, <4>1
      <4>3. handed[n - R + 1] = n
        BY <2>1, <4>2
      <4> QED
        BY <1>4, <3>1, <4>2, <4>3
    <3>4. n # R + run
      BY <3>2
    <3>5. R + run \in Nat
      BY <1>2, <1>4
    <3> HIDE DEF R, run
    <3> QED
      BY <3>1, <3>3, <3>4, <3>5
  <2> QED
    BY <1>4, <2>3, <2>4 DEF Ahead
<1> QED
  BY <1>12, <1>13, <1>14
-----------------------------------------------------------------------------
(* What every action keeps, in or out of order. *)

LEMMA StartRoundMoves ==
  ASSUME Always, StartRound
  PROVE  /\ Always'
         /\ next' \in Nat /\ next <= next'
         /\ UNCHANGED <<width, base, acked, acks, receiverVars>>
         /\ pc = "round" /\ pc' # "round"
<1> DEFINE limit == Min({base + width, Count})
<1>1. Count \in Nat
  BY DilemmaAssumption DEF DilemmaAssumption
<1>2. /\ width \in Nat /\ base \in Nat /\ next \in Nat
      /\ base <= next /\ next <= base + width
      /\ outgoing = <<>> /\ pc = "round"
  BY DEF Always, Typed, SenderWindow, RoundPackets, StartRound
<1>3. limit \in Nat /\ limit <= base + width
  <2>1. {base + width, Count} \in SUBSET Nat /\ {base + width, Count} # {}
    BY <1>1, <1>2
  <2> QED
    BY <2>1, MinIsLeast
<1>4. next' = IF next < limit THEN limit ELSE next
  BY DEF StartRound
<1>5. UNCHANGED <<width, base, acked, acks, receiverVars>>
  BY DEF StartRound
<1>6. /\ next < limit => outgoing' = [i \in 1..(limit - next) |-> next + i - 1]
      /\ next >= limit => outgoing' = outgoing \/ (Unacked # {} /\ outgoing' = <<Min(Unacked)>>)
      /\ pc' # "round"
      /\ pc' # "receive" => outgoing' = outgoing
  <2>1. \/ /\ next < limit
           /\ outgoing' = [i \in 1..(limit - next) |-> next + i - 1]
           /\ pc' = "receive"
        \/ /\ next >= limit
           /\ Unacked # {}
           /\ outgoing' = <<Min(Unacked)>>
           /\ pc' = "receive"
        \/ /\ next >= limit
           /\ pc' = "over"
           /\ UNCHANGED outgoing
    BY DEF StartRound
  <2> HIDE DEF limit
  <2> QED
    BY <1>2, <1>3, <2>1
<1> HIDE DEF limit
<1>7. next' \in Nat /\ next <= next' /\ next' <= base + width
  BY <1>2, <1>3, <1>4
<1>8. Typed'
  BY <1>5, <1>7 DEF Always, Typed, receiverVars
<1>9. SenderWindow'
  BY <1>2, <1>5, <1>7 DEF Always, Typed, SenderWindow
<1>10. outgoing' \in Seq(base'..(next' - 1))
  <2>1. CASE next < limit
    <3>1. limit - next \in Nat
      BY <1>2, <1>3, <2>1
    <3>2. outgoing' \in [1..(limit - next) -> base'..(next' - 1)]
      BY <1>2, <1>3, <1>4, <1>5, <1>6, <2>1
    <3> QED
      BY <3>1, <3>2, SeqDef
  <2>2. CASE next >= limit
    <3>1. CASE outgoing' = outgoing
      BY <1>2, <3>1, EmptySeq
    <3>2. CASE Unacked # {} /\ outgoing' = <<Min(Unacked)>>
      <4>1. Unacked \in SUBSET Nat /\ Unacked \subseteq base..(next - 1)
        BY <1>2 DEF Unacked
      <4>2. Min(Unacked) \in base..(next - 1)
        BY <3>2, <4>1, MinIsLeast
      <4>3. Min(Unacked) \in base'..(next' - 1)
        BY <1>2, <1>5, <1>7, <4>2
      <4> QED
        BY <3>2, <4>3
    <3> QED
      BY <1>6, <2>2, <3>1, <3>2
  <2> QED
    BY <1>2, <1>3, <2>1, <2>2
<1>11. RoundPackets'
  BY <1>2, <1>6, <1>10 DEF RoundPackets
<1> QED
  BY <1>2, <1>5, <1>6, <1>7, <1>8, <1>9, <1>11 DEF Always

(* Nothing delivered is taken back. *)
LEMMA ArriveMoves ==
  ASSUME Always, Arrive
  PROVE  /\ Always'
         /\ UNCHANGED <<width, senderVars>>
         /\ \E number \in base..(next - 1) : Receive(number) \/ UNCHANGED <<receiverVars, acks>>
         /\ pc' # "round"
         /\ delivered' \in Seq(Nat)
         /\ Len(delivered) <= Len(delivered')
         /\ \A i \in 1..Len(delivered) : delivered'[i] = delivered[i]
<1>1. /\ outgoing \in Seq(base..(next - 1)) /\ outgoing # <<>>
      /\ Receive(Head(outgoing)) \/ UNCHANGED <<receiverVars, acks>>
      /\ outgoing' = Tail(outgoing)
      /\ pc' = IF outgoing' = <<>> THEN "answer" ELSE "receive"
      /\ UNCHANGED <<width, senderVars>>
  BY DEF Always, RoundPackets, Arrive
<1>2. PICK number \in base..(next - 1) : Receive(number) \/ UNCHANGED <<receiverVars, acks>>
  BY <1>1, HeadTailProperties
<1>3. outgoing' \in Seq(base..(next - 1))
  BY <1>1, HeadTailProperties
<1>4. SenderWindow' /\ RoundPackets'
  BY <1>1, <1>3 DEF Always, SenderWindow, RoundPackets, senderVars
<1>5. /\ Typed /\ number \in Nat /\ Len(delivered) \in Nat /\ delivered \in Seq(Nat)
      /\ Modulus \in Nat \ {0}
  BY DilemmaAssumption, LenProperties DEF Always, Typed, DilemmaAssumption
<1>6. /\ delivered' \in Seq(Nat)
      /\ Len(delivered) <= Len(delivered')
      /\ \A i \in 1..Len(delivered) : delivered'[i] = delivered[i]
      /\ buffer' \in SUBSET Nat /\ expected' \in Nat
  <2>1. CASE Receive(number) /\ InWindow(SeqNo(number))
    <3>1. /\ Run(number) \in 0..Modulus
          /\ delivered' \in Seq(Nat)
          /\ Len(delivered') = Len(delivered) + Run(number)
          /\ \A i \in 1..Len(delivered) : delivered'[i] = delivered[i]
      BY <1>5, <2>1, HandedOver
    <3>2. buffer' = Held(number) \ ToSet(Handed(number)) /\ Held(number) \in SUBSET Nat
      BY <1>5, <2>1, ReceiveIs DEF Typed, Held
    <3>3. expected' = SeqNo(expected + Run(number)) /\ expected + Run(number) \in Nat
      BY <1>5, <2>1, <3>1, ReceiveIs DEF Typed
    <3>4. expected' \in Nat
      <4>1. SeqNo(expected + Run(number)) \in 0..(Modulus - 1)
        BY <3>3, SeqNoIs
      <4> QED
        BY <1>5, <3>3, <4>1
    <3> QED
      BY <1>5, <3>1, <3>2, <3>4
  <2>2. CASE UNCHANGED receiverVars
    BY <1>5, <2>2 DEF Typed, receiverVars
  <2> QED
    BY <1>2, <2>1, <2>2 DEF Receive
<1>7. Typed'
  BY <1>1, <1>5, <1>6 DEF Typed, senderVars
<1> QED
  BY <1>1, <1>2, <1>4, <1>6, <1>7 DEF Always

(* Only packets of the window with the number answered are acknowledged. *)
LEMMA AnswerMoves ==
  ASSUME Always, Answer
  PROVE  /\ Always'
         /\ UNCHANGED <<width, next, receiverVars, pc>> /\ pc # "round"
         /\ base' \in Nat /\ base <= base' /\ base \in Nat
         /\ acks # <<>> /\ acks' = Tail(acks)
         /\ \A n \in acked' :
              n \in acked \/ (n \in base..(next - 1) /\ SeqNo(n) = Head(acks))
<1> DEFINE seq == Head(acks)
           named == {n \in base..(next - 1) : SeqNo(n) = seq}
           open == {n \in base..next : n \notin acked'}
<1>1. /\ base \in Nat /\ next \in Nat /\ base <= next /\ acked \in SUBSET Nat
      /\ next <= base + width /\ width \in Nat
      /\ \A n \in Nat : n < base => n \in acked
      /\ \A n \in acked : n < next
      /\ acks # <<>> /\ acks' = Tail(acks)
      /\ pc = "answer" /\ outgoing = <<>>
      /\ TakeAck(seq) \/ UNCHANGED senderVars
      /\ UNCHANGED <<width, receiverVars, outgoing, pc>>
  BY DEF Always, Typed, SenderWindow, RoundPackets, Answer
<1> HIDE DEF seq
<1>2. \A n \in named : n \in Nat /\ base <= n /\ n < next /\ SeqNo(n) = seq
  BY <1>1
<1>3. /\ next' = next /\ base' \in Nat /\ base <= base' /\ base' <= next
      /\ acked \subseteq acked' /\ acked' \subseteq acked \cup named
      /\ \A n \in Nat : n < base' => n \in acked'
  <2>1. CASE UNCHANGED senderVars
    BY <1>1, <2>1 DEF senderVars
  <2>2. CASE TakeAck(seq)
    <3>1. /\ acked' = IF named = {} THEN acked ELSE acked \cup {Min(named)}
          /\ base' = Min(open)
          /\ next' = next
      BY <2>2 DEF TakeAck
    <3>2. named # {} => Min(named) \in named
      <4>1. named \in SUBSET Nat
        BY <1>2
      <4> HIDE DEF named
      <4> QED
        BY <4>1, MinIsLeast
    <3>3. acked \subseteq acked' /\ acked' \subseteq acked \cup named
      BY <3>1, <3>2
    <3>4. next \in open /\ open \in SUBSET Nat
      BY <1>1, <1>2, <3>3
    <3>5. base' \in open /\ \A n \in open : base' <= n
      <4> HIDE DEF open
      <4> QED
        BY <3>1, <3>4, MinIsLeast
    <3>6. base' \in Nat /\ base <= base' /\ base' <= next
      BY <1>1, <3>5
    <3>7. ASSUME NEW n \in Nat, n < base'
          PROVE  n \in acked'
      <4>1. CASE n < base
        BY <1>1, <3>3, <4>1
      <4>2. CASE base <= n
        <5>1. n \in base..next /\ n \notin open
          BY <1>1, <3>5, <3>6, <3>7, <4>2
        <5> QED
          BY <5>1
      <4> QED
        BY <1>1, <4>1, <4>2
    <3> QED
      BY <3>1, <3>3, <3>6, <3>7
  <2> QED
    BY <1>1, <2>1, <2>2
<1> HIDE DEF open
<1>4. \A n \in acked' : n \in acked \/ (n \in base..(next - 1) /\ SeqNo(n) = Head(acks))
  BY <1>3 DEF seq
<1> HIDE DEF named
<1>5. Typed'
  BY <1>1, <1>2, <1>3 DEF Always, Typed, receiverVars
<1>6. SenderWindow'
  <2>1. width' = width /\ width \in Nat /\ base \in Nat /\ next \in Nat
    BY <1>1
  <2>2. base' \in Nat /\ base <= base' /\ next <= base + width
    BY <1>1, <1>3
  <2>3. \A a, b, c, d \in Nat : a <= b /\ c <= a + d => c <= b + d
    OBVIOUS
  <2>4. next <= base' + width
    BY <2>1, <2>2, <2>3
  <2>5. \A n \in acked' : n < next
    BY <1>1, <1>2, <1>3
  <2> QED
    BY <1>3, <2>1, <2>4, <2>5 DEF SenderWindow
<1>7. RoundPackets'
  BY <1>1, EmptySeq DEF RoundPackets
<1> QED
  BY <1>1, <1>3, <1>4, <1>5, <1>6, <1>7 DEF Always

LEMMA EndMoves ==
  ASSUME Always, EndRound \/ EndSimulation \/ UNCHANGED vars
  PROVE  /\ Always'
         /\ UNCHANGED <<width, senderVars, receiverVars, outgoing, acks>>
         /\ pc' = pc \/ pc = "answer" \/ pc = "round"
         /\ pc' = "round" => acks = <<>> \/ pc = "round"
<1>1. UNCHANGED <<width, senderVars, receiverVars, outgoing, acks>>
  BY DEF EndRound, EndSimulation, vars
<1>2. /\ pc' = pc \/ pc = "answer" \/ pc = "round"
      /\ pc' = "round" => acks = <<>> \/ pc = "round"
      /\ pc' # "receive" \/ pc' = pc
  BY DEF EndRound, EndSimulation, vars
<1>3. RoundPackets'
  BY <1>1, <1>2 DEF Always, RoundPackets, senderVars
<1>4. Typed' /\ SenderWindow'
  BY <1>1 DEF Always, Typed, SenderWindow, senderVars, receiverVars
<1> QED
  BY <1>1, <1>2, <1>3, <1>4 DEF Always
-----------------------------------------------------------------------------
(* What they keep as long as the order is kept. *)

LEMMA InitFacts == Init => Inv
<1> SUFFICES ASSUME Init PROVE Inv
  OBVIOUS
<1>1. width \in Nat
  BY DilemmaAssumption DEF Init, DilemmaAssumption
<1>2. \A S : <<>> \in Seq(S)
  BY EmptySeq
<1>3. Len(<<>>) = 0 /\ DOMAIN <<>> = {}
  OBVIOUS
<1>4. SeqNo(0) = 0
  BY DilemmaAssumption DEF SeqNo, DilemmaAssumption
<1>5. Typed /\ SenderWindow /\ AckedArrived
  BY <1>1, <1>2 DEF Init, Typed, SenderWindow, AckedArrived
<1>6. ReceiverPlace
  BY <1>3, <1>4 DEF Init, ReceiverPlace
<1>7. InOrder /\ FailureExplained /\ Ahead
  BY <1>3 DEF Init, InOrder, FailureExplained, Ahead
<1>8. RoundPackets /\ AnswersTrue
  BY <1>2 DEF Init, RoundPackets, AnswersTrue
<1> QED
  BY <1>5, <1>6, <1>7, <1>8 DEF Inv, Facts, Always

(* The sender moves on only in a round of its own, with nothing in transit. *)
LEMMA StartRoundFacts ==
  ASSUME Facts, StartRound
  PROVE  Facts'
<1>1. /\ Always' /\ next' \in Nat /\ next <= next' /\ pc' # "round"
      /\ UNCHANGED <<width, base, acked, acks, receiverVars>>
      /\ pc = "round"
  BY StartRoundMoves DEF Facts
<1>2. acks = <<>> /\ next \in Nat /\ Len(delivered) \in Nat /\ buffer \subseteq Nat
  BY <1>1, LenProperties DEF Facts, Always, Typed, AnswersTrue
<1>3. AckedArrived' /\ InOrder'
  BY <1>1 DEF Facts, AckedArrived, Arrived, InOrder, receiverVars
<1>4. ReceiverPlace'
  BY <1>1, <1>2 DEF Facts, ReceiverPlace, receiverVars
<1>5. AnswersTrue'
  BY <1>1, <1>2, EmptySeq DEF AnswersTrue
<1> QED
  BY <1>1, <1>3, <1>4, <1>5 DEF Facts

(* A datagram that arrives is lost, or taken in, or known for an old one. *)
LEMMA ArriveFacts ==
  ASSUME Facts, width <= Modulus, Arrive
  PROVE  /\ FailureExplained'
         /\ InOrder' => Facts'
         /\ 2 * width <= Modulus /\ Ahead => InOrder' /\ Ahead'
<1>1. /\ Always' /\ pc' # "round" /\ UNCHANGED <<width, senderVars>>
      /\ \E number \in base..(next - 1) : Receive(number) \/ UNCHANGED <<receiverVars, acks>>
  BY ArriveMoves DEF Facts
<1>2. PICK number \in base..(next - 1) : Receive(number) \/ UNCHANGED <<receiverVars, acks>>
  BY <1>1
<1>3. /\ base \in Nat /\ next \in Nat /\ acked \subseteq Nat /\ acks \in Seq(TrueAcks)
      /\ \A n \in acked : n < next /\ Arrived(n)
      /\ UNCHANGED <<base, next, acked>>
  BY <1>1 DEF Facts, Always, Typed, SenderWindow, AckedArrived, AnswersTrue, senderVars
<1>4. FailureExplained
  BY DEF Facts, InOrder, FailureExplained
<1>5. /\ FailureExplained'
      /\ 2 * width <= Modulus /\ Ahead => InOrder' /\ Ahead'
      /\ InOrder' =>
           /\ ReceiverPlace'
           /\ \A n \in Nat : n < next /\ Arrived(n) => Arrived(n)'
           /\ Receive(number) => Arrived(number)'
  <2>1. CASE Receive(number) /\ InWindow(SeqNo(number))
    BY <1>1, <1>2, <2>1, TakenIn
  <2>2. CASE UNCHANGED receiverVars
    <3>1. InOrder' /\ FailureExplained' /\ (Ahead => Ahead')
      BY <1>4, <2>2 DEF Facts, InOrder, FailureExplained, Ahead, receiverVars
    <3>2. ReceiverPlace' /\ \A n \in Nat : Arrived(n) => Arrived(n)'
      BY <1>3, <2>2 DEF Facts, ReceiverPlace, Arrived, receiverVars
    <3>3. Receive(number) => Arrived(number)'
      <4>1. CASE InWindow(SeqNo(number))
        BY <1>1, <1>2, <3>1, <4>1, TakenIn
      <4>2. CASE ~ InWindow(SeqNo(number))
        <5>1. number \in Nat /\ Len(delivered) \in Nat /\ ~ (Len(delivered) <= number)
          BY <1>2, <4>2, NearReceiver
        <5>2. number < Len(delivered)
          BY <5>1
        <5> QED
          BY <2>2, <5>2 DEF Arrived, receiverVars
      <4> QED
        BY <4>1, <4>2
    <3> QED
      BY <3>1, <3>2, <3>3
  <2> QED
    BY <1>2, <2>1, <2>2 DEF Receive
<1>6. ASSUME InOrder'
      PROVE  AckedArrived' /\ acks' \in Seq(TrueAcks')
  <2>1. AckedArrived'
    BY <1>3, <1>5, <1>6 DEF AckedArrived
  <2>2. TrueAcks \subseteq TrueAcks'
    <3>1. \A n \in base..(next - 1) : n \in Nat /\ n < next
      BY <1>3
    <3> QED
      BY <1>3, <1>5, <1>6, <3>1 DEF TrueAcks
  <2>3. acks \in Seq(TrueAcks')
    BY <1>3, <2>2, SeqMonotonic
  <2>4. CASE Receive(number)
    <3>1. /\ \A n \in base..(next - 1) : SeqNo(n) = SeqNo(number) => n = number
          /\ number \in Nat
      BY <1>2, NearReceiver
    <3>2. SeqNo(number) \in Nat
      <4>1. SeqNo(number) \in 0..(Modulus - 1) /\ Modulus \in Nat
        BY <3>1, SeqNoIs, DilemmaAssumption DEF DilemmaAssumption
      <4> QED
        BY <4>1
    <3>3. SeqNo(number) \in TrueAcks'
      BY <1>3, <1>5, <1>6, <2>4, <3>1, <3>2 DEF TrueAcks
    <3>4. acks' = Append(acks, SeqNo(number))
      BY <2>4 DEF Receive
    <3> QED
      BY <2>1, <2>3, <3>3, <3>4, AppendProperties
  <2>5. CASE ~ Receive(number)
    BY <1>2, <2>1, <2>3, <2>5
  <2> QED
    BY <2>4, <2>5
<1>7. InOrder' => Facts'
  BY <1>1, <1>5, <1>6 DEF Facts, AnswersTrue
<1> QED
  BY <1>5, <1>7

(* An answer that arrives names a packet that has arrived. *)
LEMMA AnswerFacts ==
  ASSUME Facts, Answer
  PROVE  Facts'
<1>1. /\ Always' /\ UNCHANGED <<width, next, receiverVars, pc>> /\ pc # "round"
      /\ base' \in Nat /\ base <= base' /\ base \in Nat
      /\ acks # <<>> /\ acks' = Tail(acks)
      /\ \A n \in acked' :
           n \in acked \/ (n \in base..(next - 1) /\ SeqNo(n) = Head(acks))
  BY AnswerMoves DEF Facts
<1>2. Head(acks) \in TrueAcks /\ acks' \in Seq(TrueAcks)
  BY <1>1, HeadTailProperties DEF Facts, AnswersTrue
<1>3. \A n \in acked' : Arrived(n)
  BY <1>1, <1>2 DEF Facts, AckedArrived, TrueAcks
<1>4. AckedArrived'
  BY <1>1, <1>3 DEF AckedArrived, Arrived, receiverVars
<1>5. ReceiverPlace' /\ InOrder'
  BY <1>1 DEF Facts, ReceiverPlace, InOrder, receiverVars
<1>6. AnswersTrue'
  <2>1. next \in Nat
    BY DEF Facts, Always, Typed
  <2>2. TrueAcks \subseteq TrueAcks'
    BY <1>1, <2>1 DEF TrueAcks, Arrived, receiverVars
  <2> QED
    BY <1>1, <1>2, <2>2, SeqMonotonic DEF AnswersTrue
<1> QED
  BY <1>1, <1>4, <1>5, <1>6 DEF Facts

(* Between rounds nothing moves. *)
LEMMA EndFacts ==
  ASSUME Facts, EndRound \/ EndSimulation \/ UNCHANGED vars
  PROVE  Facts'
<1>1. /\ Always' /\ UNCHANGED <<width, senderVars, receiverVars, outgoing, acks>>
      /\ pc' = "round" => acks = <<>> \/ pc = "round"
  BY EndMoves DEF Facts
<1>2. AnswersTrue'
  BY <1>1 DEF Facts, AnswersTrue, TrueAcks, Arrived, senderVars, receiverVars
<1> QED
  BY <1>1, <1>2
     DEF Facts, AckedArrived, Arrived, ReceiverPlace, InOrder, senderVars, receiverVars

(* Out of order nothing is mended. *)
LEMMA NothingMended ==
  ASSUME Always, [Next]_vars, FailureExplained, ~InOrder
  PROVE  FailureExplained' /\ ~InOrder'
<1>1. CASE UNCHANGED delivered
  BY <1>1 DEF FailureExplained, InOrder
<1>2. CASE Arrive
  BY <1>2, ArriveMoves, WrongForGood DEF Always
<1> QED
  BY <1>1, <1>2
     DEF Next, StartRound, Answer, EndRound, EndSimulation, receiverVars, vars

LEMMA Step == Inv /\ [Next]_vars => Inv'
<1> SUFFICES ASSUME Inv, [Next]_vars PROVE Inv'
  OBVIOUS
<1>1. Always' /\ UNCHANGED width
  <2>1. CASE StartRound
    BY <2>1, StartRoundMoves DEF Inv
  <2>2. CASE Arrive
    BY <2>2, ArriveMoves DEF Inv
  <2>3. CASE Answer
    BY <2>3, AnswerMoves DEF Inv
  <2>4. CASE EndRound \/ EndSimulation \/ UNCHANGED vars
    BY <2>4, EndMoves DEF Inv
  <2> QED
    BY <2>1, <2>2, <2>3, <2>4 DEF Next
<1>2. ASSUME width <= Modulus, InOrder
      PROVE  /\ FailureExplained'
             /\ InOrder' => Facts'
             /\ 2 * width <= Modulus /\ Ahead => InOrder' /\ Ahead'
  <2>1. Facts
    BY <1>2 DEF Inv
  <2>2. CASE Arrive
    BY <1>2, <2>1, <2>2, ArriveFacts
  <2>3. CASE ~ Arrive
    <3>1. Facts'
      BY <2>1, <2>3, StartRoundFacts, AnswerFacts, EndFacts DEF Next
    <3>2. UNCHANGED <<delivered, buffer>>
      BY <2>3 DEF Next, StartRound, Answer, EndRound, EndSimulation, receiverVars, vars
    <3>3. FailureExplained' /\ InOrder' /\ (Ahead => Ahead')
      BY <1>2, <3>2 DEF FailureExplained, InOrder, Ahead
    <3> QED
      BY <3>1, <3>3
  <2> QED
    BY <2>2, <2>3
<1>3. width' <= Modulus => FailureExplained' /\ (InOrder' => Facts')
  <2>1. CASE InOrder
    BY <1>1, <1>2, <2>1
  <2>2. CASE ~InOrder
    BY <1>1, <2>2, NothingMended DEF Inv
  <2> QED
    BY <2>1, <2>2
<1>4. 2 * width' <= Modulus => InOrder' /\ Ahead'
  <2>1. width \in Nat /\ Modulus \in Nat
    BY DilemmaAssumption DEF Inv, Always, Typed, DilemmaAssumption
  <2>2. 2 * width <= Modulus => width <= Modulus
    BY <2>1
  <2> QED
    BY <1>1, <1>2, <2>2 DEF Inv
<1> QED
  BY <1>1, <1>3, <1>4 DEF Inv

(***************************************************************************)
(* The rule of rdt_dilemma.py: with a window of at most half the sequence  *)
(* numbers nothing is delivered twice or out of order, for every Modulus,  *)
(* Count, RoundLimit and set of Widths, whatever is lost.                  *)
(***************************************************************************)
THEOREM Safety == Spec => []HalfIsSafe
<1>1. Inv => HalfIsSafe
  BY DEF Inv, HalfIsSafe
<1> QED
  BY <1>1, InitFacts, Step, PTL DEF Spec

(***************************************************************************)
(* And what report() says of a transfer that went wrong is so: with no     *)
(* window wider than the sequence numbers, the first wrong packet is an    *)
(* older one with the number of the one missing, whatever is lost.  A      *)
(* wider one has two of its own packets under one number, and there the    *)
(* first wrong packet can be a later one.                                  *)
(***************************************************************************)
THEOREM Explained ==
  ASSUME \A w \in Widths : w <= Modulus
  PROVE  Spec => []FailureExplained
<1> DEFINE Narrow == width <= Modulus
<1>1. Init => Inv /\ Narrow
  BY InitFacts DEF Init
<1>2. Narrow /\ [Next]_vars => Narrow'
  BY DEF Next, StartRound, Arrive, Answer, EndRound, EndSimulation, vars
<1>3. Inv /\ Narrow => FailureExplained
  BY DEF Inv
<1> QED
  BY <1>1, <1>2, <1>3, Step, PTL DEF Spec
-----------------------------------------------------------------------------
(***************************************************************************)
(* The scripted loss.  Only the answers of the first round are lost, so    *)
(* that every packet sent arrives in its round: what comes is next in the  *)
(* stream, or old.  The sender hears of nothing before the second round,   *)
(* and then of one packet more in every round, or sends one more.          *)
(***************************************************************************)

(* The receiver holds old packets only. *)
Behind == \A n \in buffer : n < Len(delivered)

(* The packets of this round are the next ones, or one that came before. *)
Coming ==
  \/ /\ Len(delivered) + Len(outgoing) = next
     /\ \A i \in 1..Len(outgoing) : outgoing[i] = Len(delivered) + i - 1
  \/ Len(delivered) = next /\ Len(outgoing) <= 1

(* No round goes by without a new packet or a first acknowledgement.       *)
Spent ==
  \/ rounds <= base + next
  \/ /\ rounds <= base + next + 1
     /\ rounds > 1
     /\ base < next
     /\ \/ pc = "receive" /\ outgoing = <<base>> /\ acks = <<>>
        \/ pc = "answer" /\ outgoing = <<>> /\ acks = <<SeqNo(base)>>

(***************************************************************************)
(* How packet 0 comes to stand for packet Modulus: it is sent again in the *)
(* second round, when the window of the receiver already reaches round to  *)
(* its number, and held there until the stream arrives at that place.      *)
(***************************************************************************)
Untold ==
  /\ base = 0 /\ acked = {}
  /\ \/ rounds = 0 /\ next = 0
     \/ rounds = 1 /\ next = width

Told == rounds = 2 /\ pc = "receive" /\ outgoing = <<0>> /\ Len(delivered) = width

Trapped == 0 \in buffer /\ Len(delivered) < Modulus

(* What the script keeps true as long as the order is kept. *)
Script ==
  /\ rounds \in Nat
  /\ next <= Count
  /\ base \notin acked
  /\ Behind
  /\ Coming
  /\ Spent
  /\ pc = "over" => next = Count \/ rounds >= RoundLimit
  /\ 2 * width > Modulus => Untold \/ Told \/ Trapped

LEMMA Counts ==
  ASSUME Facts
  PROVE  /\ Len(delivered) \in Nat /\ DOMAIN delivered = 1..Len(delivered)
         /\ width \in Nat /\ base \in Nat /\ next \in Nat
         /\ Modulus \in Nat \ {0} /\ Count \in Nat /\ RoundLimit \in Nat
         /\ base <= next /\ Len(delivered) <= next
         /\ outgoing \in Seq(Nat) /\ Len(outgoing) \in Nat
         /\ pc # "receive" => outgoing = <<>>
<1>1. /\ delivered \in Seq(Nat) /\ width \in Nat /\ base \in Nat /\ next \in Nat
      /\ base <= next /\ Len(delivered) <= next
      /\ pc # "receive" => outgoing = <<>>
  BY DEF Facts, Always, Typed, SenderWindow, RoundPackets, ReceiverPlace
<1>2. outgoing \in Seq(Nat)
  <2>1. base..(next - 1) \subseteq Nat
    BY <1>1
  <2> QED
    BY <2>1, SeqMonotonic DEF Facts, Always, RoundPackets
<1> QED
  BY <1>1, <1>2, LenProperties, DilemmaAssumption DEF DilemmaAssumption

(* An old packet is held or dropped; as long as the order is kept it is    *)
(* not handed over.                                                        *)
LEMMA TakesOld ==
  ASSUME Facts, InOrder', Behind, NEW number \in Nat, number < Len(delivered), Receive(number)
  PROVE  /\ Len(delivered') = Len(delivered)
         /\ InWindow(SeqNo(number)) => buffer' = Held(number)
         /\ ~InWindow(SeqNo(number)) => buffer' = buffer
<1> DEFINE R == Len(delivered)
           run == Run(number)
<1>1. CASE InWindow(SeqNo(number))
  <2>1. /\ run \in 0..Modulus
        /\ \A i \in 1..run : Handed(number)[i] \in Held(number)
        /\ \A n : n \in ToSet(Handed(number)) <=> \E i \in 1..run : n = Handed(number)[i]
        /\ delivered' \in Seq(Nat)
        /\ Len(delivered') = R + run
        /\ \A i \in 1..run : delivered'[R + i] = Handed(number)[i]
    BY <1>1, HandedOver DEF Facts, Always
  <2>2. buffer' = Held(number) \ ToSet(Handed(number))
    BY <1>1, ReceiveIs
  <2>3. \A n \in Held(number) : n < R
    BY DEF Held, Behind
  <2>4. R \in Nat /\ Modulus \in Nat /\ DOMAIN delivered' = 1..Len(delivered')
    BY <2>1, Counts, LenProperties
  <2> HIDE DEF R, run
  <2>5. run = 0
    <3> SUFFICES ASSUME run # 0 PROVE FALSE
      OBVIOUS
    <3>1. 1 \in 1..run /\ R + 1 \in 1..(R + run)
      BY <2>1, <2>4
    <3>2. delivered'[R + 1] = (R + 1) - 1
      BY <2>1, <2>4, <3>1 DEF InOrder
    <3>3. delivered'[R + 1] < R
      BY <2>1, <2>3, <3>1
    <3> QED
      BY <2>4, <3>2, <3>3
  <2>6. ToSet(Handed(number)) = {}
    BY <2>1, <2>5
  <2> QED
    BY <1>1, <2>1, <2>2, <2>4, <2>5, <2>6 DEF R
<1>2. CASE ~InWindow(SeqNo(number))
  BY <1>2 DEF Receive, receiverVars
<1> QED
  BY <1>1, <1>2

(* The next packet is handed over, and as long as the order is kept no     *)
(* other with it.                                                          *)
LEMMA TakesNext ==
  ASSUME Facts, InOrder', Behind, width <= Modulus,
         NEW number \in base..(next - 1), number = Len(delivered), Receive(number)
  PROVE  /\ Len(delivered') = Len(delivered) + 1
         /\ buffer' = Held(number) \ {number}
         /\ \A n \in Held(number) : 1 < Modulus => SeqNo(n) # SeqNo(Len(delivered) + 1)
<1> DEFINE R == Len(delivered)
           run == Run(number)
<1>1. InWindow(SeqNo(number)) /\ number \in Nat
  <2>1. Len(delivered) <= number
    BY Counts
  <2> QED
    BY <2>1, NearReceiver
<1>2. /\ run \in 0..Modulus
      /\ \A i \in 1..run : Handed(number)[i] \in Held(number)
      /\ \A n : n \in ToSet(Handed(number)) <=> \E i \in 1..run : n = Handed(number)[i]
      /\ delivered' \in Seq(Nat)
      /\ Len(delivered') = R + run
      /\ \A i \in 1..run : delivered'[R + i] = Handed(number)[i]
  BY <1>1, HandedOver DEF Facts, Always
<1>3. buffer' = Held(number) \ ToSet(Handed(number))
  BY <1>1, ReceiveIs
<1>4. \A n \in Held(number) : run < Modulus => SeqNo(n) # SeqNo(R + run)
  BY <1>1, HandedInPlace
<1>5. R \in Nat /\ Modulus \in Nat \ {0} /\ DOMAIN delivered' = 1..Len(delivered')
  BY <1>2, Counts, LenProperties
<1>6. number \in Held(number) /\ \A n \in Held(number) : n < R \/ n = R
  BY DEF Held, Behind
<1>7. number = R
  OBVIOUS
<1> HIDE DEF R, run
<1>8. run # 0
  <2>1. run = 0 => run < Modulus /\ R + run = R
    BY <1>5
  <2> QED
    BY <1>4, <1>6, <1>7, <2>1
<1>9. ~(run > 1)
  <2> SUFFICES ASSUME run > 1 PROVE FALSE
    OBVIOUS
  <2>1. 2 \in 1..run /\ R + 2 \in 1..(R + run)
    BY <1>2, <1>5
  <2>2. delivered'[R + 2] = (R + 2) - 1
    BY <1>2, <1>5, <2>1 DEF InOrder
  <2>3. delivered'[R + 2] < R \/ delivered'[R + 2] = R
    BY <1>2, <1>6, <2>1
  <2> QED
    BY <1>5, <2>2, <2>3
<1>10. run = 1
  BY <1>2, <1>5, <1>8, <1>9
<1>11. Handed(number)[1] = number
  <2>1. 1 \in 1..run /\ R + 1 \in 1..(R + run)
    BY <1>5, <1>10
  <2>2. delivered'[R + 1] = (R + 1) - 1
    BY <1>2, <1>5, <2>1 DEF InOrder
  <2>3. (R + 1) - 1 = R
    BY <1>5
  <2> QED
    BY <1>2, <1>7, <2>1, <2>2, <2>3
<1>12. ToSet(Handed(number)) = {number}
  <2>1. \A i \in 1..run : i = 1
    BY <1>10
  <2>2. 1 \in 1..run
    BY <1>10
  <2> QED
    BY <1>2, <1>11, <2>1, <2>2
<1> QED
  BY <1>2, <1>3, <1>4, <1>5, <1>10, <1>12 DEF R

(* Packet 0 has number 0, and no other packet below Modulus has. *)
LEMMA SmallNumber ==
  ASSUME NEW n \in Nat, n < Modulus
  PROVE  SeqNo(n) = n
<1>1. Modulus \in Nat \ {0}
  BY DilemmaAssumption DEF DilemmaAssumption
<1>2. n \in 0..(Modulus - 1) /\ n = Modulus * 0 + n
  BY <1>1
<1>3. (Modulus * 0 + n) % Modulus = n
  BY <1>1, <1>2, Remainder
<1> QED
  BY <1>2, <1>3 DEF SeqNo

(* The trap stays set while the stream is short of packet Modulus. *)
LEMMA StaysTrapped ==
  ASSUME Facts, InOrder', Behind, width <= Modulus, Trapped,
         NEW number \in base..(next - 1), Receive(number),
         number < Len(delivered) \/ number = Len(delivered)
  PROVE  Trapped'
<1> DEFINE R == Len(delivered)
<1>1. R \in Nat /\ Modulus \in Nat \ {0} /\ number \in Nat
  <2>1. R \in Nat /\ Modulus \in Nat \ {0} /\ base \in Nat /\ next \in Nat
    BY Counts
  <2> HIDE DEF R
  <2> QED
    BY <2>1
<1>2. 0 \in buffer /\ R < Modulus /\ 0 < R
  BY DEF Trapped, Behind
<1>3. SeqNo(number) = number /\ SeqNo(0) = 0
  BY <1>1, <1>2, SmallNumber
<1>4. 0 \in Held(number)
  BY <1>2, <1>3 DEF Held
<1>5. CASE number < R
  BY <1>1, <1>2, <1>4, <1>5, TakesOld DEF Trapped
<1>6. CASE number = R
  <2>1. /\ Len(delivered') = R + 1
        /\ buffer' = Held(number) \ {number}
        /\ \A n \in Held(number) : 1 < Modulus => SeqNo(n) # SeqNo(R + 1)
    BY <1>6, TakesNext
  <2>2. 0 \in buffer'
    BY <1>1, <1>2, <1>4, <1>6, <2>1
  <2>3. R + 1 # Modulus
    <3>1. SeqNo(0 + Modulus) = SeqNo(0)
      BY FullCircle
    <3>2. 1 < Modulus /\ 0 + Modulus = Modulus
      BY <1>1, <1>2
    <3> QED
      BY <1>4, <2>1, <3>1, <3>2
  <2> HIDE DEF R
  <2>4. R + 1 < Modulus
    BY <1>1, <1>2, <2>3
  <2> QED
    BY <2>1, <2>2, <2>4 DEF Trapped
<1> QED
  BY <1>5, <1>6

(* Packet 0, sent again, falls into a window that is too wide. *)
LEMMA IsTrapped ==
  ASSUME Facts, InOrder', Behind, width <= Modulus, 0 < width, 2 * width > Modulus,
         Len(delivered) = width, Receive(0)
  PROVE  Trapped'
<1>1. width \in Nat /\ Modulus \in Nat \ {0} /\ expected = SeqNo(width)
  BY Counts DEF Facts, ReceiverPlace
<1>2. InWindow(SeqNo(0))
  <2>1. width <= 0 + Modulus /\ 0 < width + Modulus /\ ~(width <= 0)
    BY <1>1
  <2>2. (SeqNo(0) + Modulus - SeqNo(width)) % Modulus = 0 + Modulus - width
    BY <1>1, <2>1, Distance
  <2>3. 0 + Modulus - width < width
    BY <1>1
  <2> QED
    BY <1>1, <2>2, <2>3 DEF InWindow
<1>3. Len(delivered') = width /\ buffer' = Held(0)
  BY <1>2, TakesOld
<1>4. 0 \in buffer'
  BY <1>3 DEF Held
<1>5. width # Modulus
  <2> SUFFICES ASSUME width = Modulus PROVE FALSE
    OBVIOUS
  <2>1. Run(0) = 0
    <3>1. /\ Len(delivered') = Len(delivered) + Run(0)
          /\ Run(0) \in 0..Modulus
      BY <1>2, HandedOver DEF Facts, Always
    <3> QED
      BY <1>1, <1>3, <3>1
  <2>2. Run(0) < Modulus => SeqNo(0) # SeqNo(width + Run(0))
    BY <1>2, HandedInPlace DEF Held
  <2>3. SeqNo(0 + Modulus) = SeqNo(0)
    BY FullCircle
  <2> QED
    BY <1>1, <2>1, <2>2, <2>3
<1> QED
  BY <1>1, <1>3, <1>4, <1>5 DEF Trapped

LEMMA ArriveScript ==
  ASSUME Facts, InOrder', width \in 1..Modulus, loss = "scripted", Script, Arrive
  PROVE  Script'
<1>1. /\ pc = "receive" /\ outgoing # <<>> /\ Receive(Head(outgoing))
      /\ outgoing' = Tail(outgoing)
      /\ pc' = IF outgoing' = <<>> THEN "answer" ELSE "receive"
      /\ UNCHANGED <<loss, width, base, next, acked, rounds>>
  BY DEF Arrive, senderVars
<1> DEFINE R == Len(delivered)
           number == Head(outgoing)
<1>2. number \in base..(next - 1)
  BY <1>1, HeadTailProperties DEF Facts, Always, RoundPackets
<1>3. /\ R \in Nat /\ width \in Nat /\ base \in Nat /\ next \in Nat /\ number \in Nat
      /\ Modulus \in Nat \ {0}
  BY <1>2, Counts
<1>4. /\ Len(outgoing) \in Nat \ {0} /\ number = outgoing[1]
      /\ Len(outgoing') = Len(outgoing) - 1
      /\ \A i \in 1..(Len(outgoing) - 1) : outgoing'[i] = outgoing[i + 1]
  <2>1. outgoing \in Seq(Nat) /\ Len(outgoing) \in Nat
    BY Counts
  <2>2. Len(outgoing) # 0
    BY <1>1, <2>1, EmptySeq
  <2>3. /\ Len(Tail(outgoing)) = Len(outgoing) - 1
        /\ \A i \in 1..Len(Tail(outgoing)) : Tail(outgoing)[i] = outgoing[i + 1]
    BY <1>1, <2>1, HeadTailProperties
  <2> QED
    BY <1>1, <2>1, <2>2, <2>3
<1>5. \/ /\ number = R /\ R + Len(outgoing) = next
         /\ \A i \in 1..Len(outgoing) : outgoing[i] = R + i - 1
      \/ number < R /\ R = next /\ Len(outgoing) = 1
  <2>1. CASE /\ R + Len(outgoing) = next
             /\ \A i \in 1..Len(outgoing) : outgoing[i] = R + i - 1
    <3>1. 1 \in 1..Len(outgoing) /\ R + 1 - 1 = R
      BY <1>3, <1>4
    <3> QED
      BY <1>4, <2>1, <3>1
  <2>2. CASE R = next /\ Len(outgoing) <= 1
    BY <1>2, <1>3, <1>4, <2>2
  <2> QED
    BY <2>1, <2>2 DEF Script, Coming
<1> HIDE DEF number
<1>6. Behind /\ Receive(number)
  BY <1>1 DEF Script, number
<1>7. Behind' /\ Coming'
  <2>1. CASE number = R /\ R + Len(outgoing) = next
             /\ \A i \in 1..Len(outgoing) : outgoing[i] = R + i - 1
    <3>1. Len(delivered') = R + 1 /\ buffer' = Held(number) \ {number}
      BY <1>2, <1>6, <2>1, TakesNext
    <3>2. Behind'
      BY <1>3, <1>6, <3>1 DEF Behind, Held, Facts, Always, Typed
    <3>3. (R + 1) + (Len(outgoing) - 1) = next
      BY <1>3, <1>4, <2>1
    <3>4. ASSUME NEW i \in 1..(Len(outgoing) - 1)
          PROVE  outgoing'[i] = (R + 1) + i - 1
      <4>1. i + 1 \in 1..Len(outgoing) /\ R + (i + 1) - 1 = (R + 1) + i - 1
        BY <1>3, <1>4
      <4> QED
        BY <1>4, <2>1, <4>1
    <3> QED
      BY <1>1, <1>4, <3>1, <3>2, <3>3, <3>4 DEF Coming
  <2>2. CASE number < R /\ R = next /\ Len(outgoing) = 1
    <3>1. Len(delivered') = R /\ (buffer' = Held(number) \/ buffer' = buffer)
      BY <1>3, <1>6, <2>2, TakesOld
    <3>2. Behind'
      BY <1>6, <2>2, <3>1 DEF Behind, Held
    <3>3. Len(outgoing') = 0
      BY <1>4, <2>2
    <3>4. Len(delivered') = next'
      BY <1>1, <2>2, <3>1
    <3> QED
      BY <3>2, <3>3, <3>4 DEF Coming
  <2> QED
    BY <1>5, <2>1, <2>2
<1>8. Spent'
  <2>1. CASE rounds <= base + next
    BY <1>1, <2>1 DEF Spent
  <2>2. CASE ~(rounds <= base + next)
    <3>1. /\ rounds <= base + next + 1 /\ rounds > 1 /\ base < next
          /\ outgoing = <<base>> /\ acks = <<>>
      BY <1>1, <2>2 DEF Script, Spent
    <3>2. number = base /\ outgoing' = <<>>
      BY <1>1, <3>1 DEF number
    <3>3. acks' = <<SeqNo(base)>>
      BY <1>6, <3>1, <3>2 DEF Receive
    <3> QED
      BY <1>1, <3>1, <3>2, <3>3 DEF Spent
  <2> QED
    BY <2>1, <2>2
<1>9. ASSUME 2 * width > Modulus
      PROVE  Untold' \/ Told' \/ Trapped'
  <2>1. CASE Untold
    BY <1>1, <2>1 DEF Untold
  <2>2. CASE Told
    <3>1. number = 0 /\ Len(delivered) = width
      BY <2>2 DEF Told, number
    <3> QED
      BY <1>3, <1>6, <1>9, <3>1, IsTrapped
  <2>3. CASE Trapped
    BY <1>2, <1>5, <1>6, <2>3, StaysTrapped
  <2> QED
    BY <1>9, <2>1, <2>2, <2>3 DEF Script
<1> QED
  BY <1>1, <1>7, <1>8, <1>9 DEF Script

(* With all sent before the last packet has arrived, the first one is      *)
(* retransmitted; and it is packet 0 if nothing was heard yet.             *)
LEMMA StartRoundScript ==
  ASSUME Facts, width \in 1..Modulus, Modulus < Count, loss = "scripted", Script, StartRound
  PROVE  Script'
<1> DEFINE R == Len(delivered)
           limit == Min({base + width, Count})
<1>1. /\ R \in Nat /\ width \in Nat \ {0} /\ base \in Nat /\ next \in Nat
      /\ Count \in Nat /\ Modulus \in Nat /\ width < Count
      /\ base <= next /\ R <= next /\ outgoing = <<>>
  <2>1. pc = "round"
    BY DEF StartRound
  <2> QED
    BY <2>1, Counts
<1>2. /\ pc = "round" /\ R < Count /\ rounds' = rounds + 1
      /\ next' = IF next < limit THEN limit ELSE next
      /\ \/ /\ next < limit
            /\ outgoing' = [i \in 1..(limit - next) |-> next + i - 1]
            /\ pc' = "receive"
         \/ /\ next >= limit
            /\ Unacked # {}
            /\ outgoing' = <<Min(Unacked)>>
            /\ pc' = "receive"
         \/ /\ next >= limit
            /\ Unacked = {}
            /\ pc' = "over"
            /\ UNCHANGED outgoing
      /\ UNCHANGED <<loss, width, base, acked, acks, buffer, delivered>>
  BY DEF StartRound, Running, receiverVars
<1>3. limit \in Nat /\ limit <= base + width /\ limit <= Count /\ limit \in {base + width, Count}
  <2>1. {base + width, Count} \in SUBSET Nat /\ {base + width, Count} # {}
    BY <1>1
  <2> QED
    BY <2>1, MinIsLeast
<1> HIDE DEF limit
<1>4. next <= Count /\ base \notin acked /\ Behind /\ R = next
  <2>1. Len(outgoing) = 0
    BY <1>1
  <2> QED
    BY <1>1, <2>1 DEF Script, Coming
<1>5. acks = <<>> /\ rounds \in Nat /\ rounds <= base + next
  <2>1. acks = <<>>
    BY <1>2 DEF Facts, AnswersTrue
  <2>2. ~(pc = "receive") /\ pc # "answer"
    BY <1>2
  <2> QED
    BY <2>1, <2>2 DEF Script, Spent
<1> HIDE DEF R
<1>6. CASE next < limit
  <2>1. /\ next' = limit /\ pc' = "receive"
        /\ outgoing' = [i \in 1..(limit - next) |-> next + i - 1]
    BY <1>1, <1>2, <1>3, <1>6
  <2>2. Len(outgoing') = limit - next
    <3>1. limit - next \in Nat
      BY <1>1, <1>3, <1>6
    <3>2. \A k \in Nat : Len([i \in 1..k |-> next + i - 1]) = k
      OBVIOUS
    <3> QED
      BY <2>1, <3>1, <3>2
  <2>3. Coming'
    <3>1. R + (limit - next) = limit
      BY <1>1, <1>3, <1>4
    <3>2. \A i \in 1..(limit - next) : outgoing'[i] = R + i - 1
      BY <1>4, <2>1
    <3> QED
      BY <1>2, <2>1, <2>2, <3>1, <3>2 DEF Coming, R
  <2>4. rounds' <= base' + next'
    BY <1>1, <1>2, <1>3, <1>5, <1>6, <2>1
  <2>5. 2 * width > Modulus => Untold' \/ Trapped'
    <3>1. ~ Told
      BY <1>2 DEF Told
    <3>2. CASE Untold
      <4>1. rounds = 0 /\ next = 0 /\ base = 0 /\ acked = {}
        BY <1>1, <1>3, <1>6, <3>2 DEF Untold
      <4>2. limit = width
        BY <1>1, <1>3, <4>1
      <4> QED
        BY <1>2, <2>1, <4>1, <4>2 DEF Untold
    <3>3. CASE Trapped
      BY <1>2, <3>3 DEF Trapped
    <3> QED
      BY <1>2, <3>1, <3>2, <3>3 DEF Script
  <2> QED
    BY <1>2, <1>3, <1>4, <2>1, <2>3, <2>4, <2>5 DEF Script, Spent, Behind
<1>7. CASE next >= limit
  <2>1. next' = next
    BY <1>1, <1>2, <1>3, <1>7
  <2>2. base < next
    BY <1>1, <1>2, <1>3, <1>4, <1>7
  <2>3. Unacked # {} /\ Min(Unacked) = base
    <3>1. base \in Unacked
      BY <1>1, <1>4, <2>2 DEF Unacked
    <3>2. Unacked \in SUBSET Nat /\ \A n \in Unacked : base <= n
      BY <1>1 DEF Unacked
    <3>3. Min(Unacked) \in Unacked /\ Min(Unacked) <= base
      BY <3>1, <3>2, MinIsLeast
    <3>4. Min(Unacked) \in Nat /\ base <= Min(Unacked)
      BY <3>2, <3>3
    <3> QED
      BY <1>1, <3>1, <3>3, <3>4
  <2>4. outgoing' = <<base>> /\ pc' = "receive"
    BY <1>1, <1>2, <1>3, <1>7, <2>3
  <2>5. Coming'
    <3>1. Len(outgoing') = 1
      BY <2>4
    <3> QED
      BY <1>2, <1>4, <2>1, <3>1 DEF Coming, R
  <2>6. Spent'
    <3>1. rounds + 1 <= base + next + 1 /\ (rounds + 1 <= base + next \/ rounds + 1 > 1)
      BY <1>1, <1>5, <2>2
    <3> QED
      BY <1>2, <1>5, <2>1, <2>2, <2>4, <3>1 DEF Spent
  <2>7. 2 * width > Modulus => Told' \/ Trapped'
    <3>1. ~ Told
      BY <1>2 DEF Told
    <3>2. CASE Untold
      <4>1. base = 0 /\ rounds = 1 /\ next = width
        BY <1>1, <2>2, <3>2 DEF Untold
      <4> QED
        BY <1>2, <1>4, <2>4, <4>1 DEF Told, R
    <3>3. CASE Trapped
      BY <1>2, <3>3 DEF Trapped
    <3> QED
      BY <1>2, <3>1, <3>2, <3>3 DEF Script
  <2> QED
    BY <1>2, <1>4, <2>1, <2>4, <2>5, <2>6, <2>7 DEF Script, Behind
<1> QED
  BY <1>1, <1>3, <1>6, <1>7

(* After the first round every answer is taken in, and one that names the  *)
(* first packet moves base on.                                             *)
LEMMA AnswerScript ==
  ASSUME Facts, loss = "scripted", Script, Answer
  PROVE  Script'
<1> DEFINE seq == Head(acks)
           named == {n \in base..(next - 1) : SeqNo(n) = seq}
           open == {n \in base..next : n \notin acked'}
<1>1. /\ Len(delivered) \in Nat /\ base \in Nat /\ next \in Nat /\ Count \in Nat
      /\ base <= next /\ acked \in SUBSET Nat /\ (\A n \in acked : n < next)
      /\ rounds \in Nat
  BY Counts DEF Script, Facts, Always, Typed, SenderWindow
<1>2. /\ pc = "answer" /\ pc' = "answer" /\ acks # <<>> /\ outgoing = <<>>
      /\ \/ rounds > 1 /\ TakeAck(seq)
         \/ rounds = 1 /\ UNCHANGED senderVars
      /\ UNCHANGED <<loss, width, receiverVars, rounds, outgoing>>
  BY Counts DEF Answer
<1> HIDE DEF seq
<1>3. UNCHANGED <<next, delivered, buffer>> /\ Behind' /\ Coming'
  <2>1. UNCHANGED <<next, delivered, buffer>>
    BY <1>2 DEF TakeAck, senderVars, receiverVars
  <2> QED
    BY <1>2, <2>1 DEF Script, Behind, Coming
<1>4. ASSUME rounds > 1, TakeAck(seq)
      PROVE  /\ base' \in Nat /\ base <= base' /\ base' \notin acked'
             /\ base < next /\ seq = SeqNo(base) => base < base'
  <2>1. /\ acked' = IF named = {} THEN acked ELSE acked \cup {Min(named)}
        /\ base' = Min(open)
    BY <1>4, <1>3 DEF TakeAck
  <2>2. named \in SUBSET Nat /\ \A n \in named : base <= n /\ n < next
    BY <1>1
  <2>3. named # {} => Min(named) \in named /\ \A n \in named : Min(named) <= n
    <3> HIDE DEF named
    <3> QED
      BY <2>2, MinIsLeast
  <2>4. next \in open /\ open \in SUBSET Nat
    BY <1>1, <2>1, <2>2, <2>3
  <2>5. base' \in open
    <3> HIDE DEF open
    <3> QED
      BY <2>1, <2>4, MinIsLeast
  <2>6. base' \in Nat /\ base <= base' /\ base' \notin acked'
    BY <1>1, <2>5
  <2>7. ASSUME base < next, seq = SeqNo(base)
        PROVE  base < base'
    <3>1. base \in named
      BY <1>1, <2>7
    <3>2. Min(named) = base
      <4>1. Min(named) \in named /\ Min(named) <= base
        BY <2>3, <3>1
      <4>2. Min(named) \in Nat /\ base <= Min(named)
        BY <2>2, <4>1
      <4> QED
        BY <1>1, <4>1, <4>2
    <3>3. base \in acked'
      BY <2>1, <3>1, <3>2
    <3> QED
      BY <1>1, <2>6, <3>3
  <2> QED
    BY <2>6, <2>7
<1> HIDE DEF named, open
<1>5. base' \notin acked'
  BY <1>2, <1>4 DEF Script, senderVars
<1>6. Spent'
  <2>1. CASE rounds <= base + next
    <3>1. base' \in Nat /\ base <= base'
      BY <1>1, <1>2, <1>4 DEF senderVars
    <3>2. \A a, b, c, d \in Nat : a <= b + c /\ b <= d => a <= d + c
      OBVIOUS
    <3>3. rounds <= base' + next
      BY <1>1, <2>1, <3>1, <3>2
    <3>4. rounds' = rounds /\ next' = next
      BY <1>2, <1>3
    <3> QED
      BY <3>3, <3>4 DEF Spent
  <2>2. CASE ~(rounds <= base + next)
    <3>1. /\ rounds <= base + next + 1 /\ rounds > 1 /\ base < next
          /\ acks = <<SeqNo(base)>>
      BY <1>2, <2>2 DEF Script, Spent
    <3>2. TakeAck(seq) /\ seq = SeqNo(base)
      BY <1>2, <3>1 DEF seq
    <3>3. base' \in Nat /\ base < base'
      BY <1>4, <3>1, <3>2
    <3>4. \A a, b, c, d \in Nat : a <= b + c + 1 /\ b < d => a <= d + c
      OBVIOUS
    <3>5. rounds <= base' + next
      BY <1>1, <3>1, <3>3, <3>4
    <3>6. rounds' = rounds /\ next' = next
      BY <1>2, <1>3
    <3> QED
      BY <3>5, <3>6 DEF Spent
  <2> QED
    BY <2>1, <2>2
<1>7. ASSUME 2 * width > Modulus
      PROVE  Untold' \/ Trapped'
  <2>1. CASE Untold
    <3>1. rounds # 0
      BY <1>2
    <3>2. rounds = 1 /\ UNCHANGED senderVars
      BY <1>2, <2>1, <3>1 DEF Untold
    <3> QED
      BY <1>2, <2>1, <3>2 DEF Untold, senderVars
  <2>2. ~ Told
    BY <1>2 DEF Told
  <2>3. CASE Trapped
    BY <1>3, <2>3 DEF Trapped
  <2> QED
    BY <1>7, <2>1, <2>2, <2>3 DEF Script
<1> QED
  BY <1>2, <1>3, <1>5, <1>6, <1>7 DEF Script

LEMMA EndScript ==
  ASSUME Facts, loss = "scripted", Script, EndRound \/ EndSimulation \/ UNCHANGED vars
  PROVE  Script'
<1>1. /\ UNCHANGED <<loss, width, base, next, acked, buffer, delivered, rounds, outgoing, acks>>
      /\ \/ pc' = pc
         \/ pc = "answer" /\ acks = <<>> /\ pc' = "round"
         \/ pc = "round" /\ ~Running /\ pc' = "over"
  BY DEF EndRound, EndSimulation, vars, senderVars, receiverVars
<1>2. CASE pc' = pc
  BY <1>1, <1>2 DEF Script, Behind, Coming, Spent, Untold, Told, Trapped
<1>3. CASE pc # "receive" /\ pc' # "receive" /\ acks = <<>>
  <2>1. acks # <<SeqNo(base)>>
    BY <1>3
  <2>2. rounds <= base + next
    BY <1>3, <2>1 DEF Script, Spent
  <2>3. Behind' /\ Coming' /\ (2 * width > Modulus => Untold' \/ Trapped')
    BY <1>1, <1>3 DEF Script, Behind, Coming, Untold, Told, Trapped
  <2>4. pc' = "over" => next = Count \/ rounds >= RoundLimit
    <3>1. CASE pc = "round" /\ ~Running
      <4>1. Len(delivered) >= Count \/ rounds >= RoundLimit
        BY <3>1, Counts DEF Running, Script
      <4> QED
        BY <4>1, Counts DEF Script
    <3> QED
      BY <1>1, <3>1 DEF Script
  <2> QED
    BY <1>1, <2>2, <2>3, <2>4 DEF Script, Spent
<1>4. pc = "round" => acks = <<>>
  BY DEF Facts, AnswersTrue
<1> QED
  BY <1>1, <1>2, <1>3, <1>4

LEMMA InitScript == ASSUME Init PROVE Script
<1>1. /\ rounds = 0 /\ base = 0 /\ next = 0 /\ acked = {} /\ buffer = {}
      /\ delivered = <<>> /\ outgoing = <<>> /\ pc = "round"
  BY DEF Init
<1>2. Len(delivered) = 0 /\ Len(outgoing) = 0 /\ 0 <= Count
  BY <1>1, DilemmaAssumption DEF DilemmaAssumption
<1> QED
  BY <1>1, <1>2 DEF Script, Behind, Coming, Spent, Untold

(***************************************************************************)
(* What main() expects of the two widths it runs, for every modulus,       *)
(* transfer and width: the scripted loss breaks exactly the transfers      *)
(* whose window is wider than half the sequence numbers.  The transfer has *)
(* to run past the wrap, as COUNT does, and ROUND_LIMIT not to cut short   *)
(* one that gets there: a round sends new packets, or hears for the first  *)
(* time of one, but for the round it may be in.  A window wider than all   *)
(* the numbers has two packets under one of them and breaks in other ways. *)
(***************************************************************************)
THEOREM WidthsTold ==
  ASSUME Widths \subseteq 1..Modulus, Modulus < Count, 2 * Count <= RoundLimit + 1
  PROVE  Spec => []ScriptTellsWidths
<1> DEFINE Narrow == width \in 1..Modulus
           Scripted == loss = "scripted" /\ InOrder => Script
<1>1. Init => Inv /\ Narrow /\ Scripted
  BY InitFacts, InitScript DEF Init
<1>2. Narrow /\ [Next]_vars => Narrow' /\ UNCHANGED loss
  BY DEF Next, StartRound, Arrive, Answer, EndRound, EndSimulation, vars
<1>3. Narrow => width <= Modulus
  BY DilemmaAssumption DEF DilemmaAssumption
<1>4. ASSUME Inv, Narrow, Scripted, Inv', [Next]_vars PROVE Scripted'
  <2> SUFFICES ASSUME loss' = "scripted", InOrder' PROVE Script'
    OBVIOUS
  <2>1. loss = "scripted" /\ width <= Modulus
    BY <1>2, <1>3, <1>4
  <2>2. InOrder
    BY <1>4, <2>1, NothingMended DEF Inv
  <2>3. Facts /\ Script
    BY <1>4, <2>1, <2>2 DEF Inv
  <2>4. CASE StartRound
    BY <1>4, <2>1, <2>3, <2>4, StartRoundScript
  <2>5. CASE Arrive
    BY <1>4, <2>1, <2>3, <2>5, ArriveScript
  <2>6. CASE Answer
    BY <2>1, <2>3, <2>6, AnswerScript
  <2>7. CASE EndRound \/ EndSimulation \/ UNCHANGED vars
    BY <2>1, <2>3, <2>7, EndScript
  <2> QED
    BY <1>4, <2>4, <2>5, <2>6, <2>7 DEF Next
<1>5. ASSUME Inv, Narrow, Scripted PROVE ScriptTellsWidths
  <2> SUFFICES ASSUME pc = "over", loss = "scripted", width < Count
               PROVE  Correct <=> 2 * width <= Modulus
    BY DEF ScriptTellsWidths
  <2>1. ASSUME InOrder
        PROVE  /\ Script /\ Len(delivered) = next /\ rounds <= base + next
               /\ width \in Nat /\ base \in Nat /\ next \in Nat /\ rounds \in Nat
               /\ base <= next /\ next <= Count
               /\ Count \in Nat /\ Modulus \in Nat /\ RoundLimit \in Nat
               /\ next = Count \/ rounds >= RoundLimit
    <3>1. Facts /\ Script
      BY <1>3, <1>5, <2>1 DEF Inv
    <3>2. outgoing = <<>> /\ Len(outgoing) = 0
      BY <3>1, Counts
    <3> QED
      BY <3>1, <3>2, Counts DEF Script, Coming, Spent
  <2>2. ASSUME 2 * width <= Modulus
        PROVE  Correct
    <3>1. InOrder
      BY <1>5, <2>2 DEF Inv
    <3>2. next = Count
      <4> SUFFICES ASSUME next # Count PROVE FALSE
        OBVIOUS
      <4>1. next <= Count - 1 /\ base <= Count - 1
        BY <2>1, <3>1
      <4>2. rounds <= base + next /\ rounds >= RoundLimit
        BY <2>1, <3>1
      <4>3. \A a, b, c, d, e \in Nat :
               a <= c - 1 /\ b <= c - 1 /\ d <= b + a /\ d >= e => ~(2 * c <= e + 1)
        OBVIOUS
      <4> QED
        BY <2>1, <3>1, <4>1, <4>2, <4>3
    <3> QED
      BY <2>1, <3>1, <3>2 DEF Correct
  <2>3. ASSUME Correct
        PROVE  2 * width <= Modulus
    <3>1. InOrder /\ Len(delivered) = Count
      BY <2>3 DEF Correct
    <3> SUFFICES ASSUME ~(2 * width <= Modulus) PROVE FALSE
      OBVIOUS
    <3>2. Untold \/ Told \/ Trapped
      BY <2>1, <3>1 DEF Script
    <3>3. CASE Untold
      BY <2>1, <3>1, <3>3, <1>3, <1>5 DEF Untold
    <3>4. CASE Trapped
      BY <2>1, <3>1, <3>4 DEF Trapped
    <3> QED
      BY <3>2, <3>3, <3>4 DEF Told
  <2> QED
    BY <2>2, <2>3
<1> HIDE DEF Narrow, Scripted
<1> QED
  BY <1>1, <1>2, <1>4, <1>5, Step, PTL DEF Spec
-----------------------------------------------------------------------------
(***************************************************************************)
(* What is between the ends is a set of numbers, and OnItsWay lists it     *)
(* from the least to the greatest.  The place of a number in that list is  *)
(* its rank.                                                               *)
(***************************************************************************)
Rank(S, n) == Cardinality({m \in S : m <= n})

Rising(s) == \A i, j \in DOMAIN s : i < j => s[i] < s[j]

(* The rank grows with the number. *)
LEMMA RankGrows ==
  ASSUME NEW S \in SUBSET Nat, IsFiniteSet(S)
  PROVE  /\ \A n \in S : Rank(S, n) \in 1..Cardinality(S)
         /\ \A n, m \in S : n < m => Rank(S, n) < Rank(S, m)
<1> DEFINE UpTo(n) == {m \in S : m <= n}
<1>1. \A n \in S : IsFiniteSet(UpTo(n)) /\ Cardinality(UpTo(n)) <= Cardinality(S)
  BY FS_Subset
<1>2. \A n \in S : Cardinality(UpTo(n)) \in Nat /\ Cardinality(S) \in Nat
  BY <1>1, FS_CardinalityType
<1>3. \A n \in S : Cardinality(UpTo(n)) # 0
  <2> SUFFICES ASSUME NEW n \in S PROVE Cardinality(UpTo(n)) # 0
    OBVIOUS
  <2>1. n \in UpTo(n)
    OBVIOUS
  <2> QED
    BY <1>1, <2>1, FS_EmptySet
<1>4. \A n, m \in S : n < m => Cardinality(UpTo(n)) < Cardinality(UpTo(m))
  <2> SUFFICES ASSUME NEW n \in S, NEW m \in S, n < m
               PROVE  Cardinality(UpTo(n)) < Cardinality(UpTo(m))
    OBVIOUS
  <2>0. n \in Nat /\ m \in Nat /\ \A l \in S : l \in Nat
    OBVIOUS
  <2>1. UpTo(n) \subseteq UpTo(m) /\ m \in UpTo(m) /\ m \notin UpTo(n)
    <3>1. m <= m /\ ~(m <= n) /\ \A l \in S : l <= n => l <= m
      BY <2>0
    <3> QED
      BY <3>1
  <2>2. /\ Cardinality(UpTo(n)) <= Cardinality(UpTo(m))
        /\ Cardinality(UpTo(n)) # Cardinality(UpTo(m))
    <3> HIDE DEF UpTo
    <3> QED
      BY <1>1, <2>1, FS_Subset
  <2> QED
    BY <1>2, <2>2
<1> QED
  BY <1>1, <1>2, <1>3, <1>4 DEF Rank

(* Every place from first to last is the rank of one number. *)
LEMMA RanksAreAll ==
  ASSUME NEW S \in SUBSET Nat, IsFiniteSet(S), NEW k \in 1..Cardinality(S)
  PROVE  \E n \in S : Rank(S, n) = k
<1> DEFINE f == [n \in S |-> Rank(S, n)]
           P == 1..Cardinality(S)
<1>1. Cardinality(S) \in Nat
  BY FS_CardinalityType
<1>2. f \in [S -> P]
  BY RankGrows
<1>3. ASSUME NEW n \in S, NEW m \in S, f[n] = f[m] PROVE n = m
  BY <1>3, RankGrows
<1>4. f \in Injection(S, P)
  BY <1>2, <1>3 DEF Injection, IsInjective
<1>5. IsFiniteSet(P) /\ Cardinality(P) = Cardinality(S)
  BY <1>1, FS_Interval
<1>6. f \in Surjection(S, P)
  BY <1>4, <1>5, FS_Injection
<1> QED
  BY <1>6 DEF Surjection

(* Ascending lists the members, each at its rank. *)
LEMMA AscendingIs ==
  ASSUME NEW S \in SUBSET Nat, IsFiniteSet(S)
  PROVE  /\ Ascending(S) \in Seq(S)
         /\ Len(Ascending(S)) = Cardinality(S)
         /\ DOMAIN Ascending(S) = 1..Cardinality(S)
         /\ Rising(Ascending(S))
         /\ \A n \in S : Ascending(S)[Rank(S, n)] = n
<1>1. Cardinality(S) \in Nat
  BY FS_CardinalityType
<1>2. \A k \in 1..Cardinality(S) :
        Ascending(S)[k] \in S /\ Rank(S, Ascending(S)[k]) = k
  <2> SUFFICES ASSUME NEW k \in 1..Cardinality(S)
               PROVE  Ascending(S)[k] \in S /\ Rank(S, Ascending(S)[k]) = k
    OBVIOUS
  <2>1. \E n \in S : Rank(S, n) = k
    BY RanksAreAll
  <2>2. Ascending(S)[k] = CHOOSE n \in S : Rank(S, n) = k
    BY DEF Ascending, Rank
  <2> QED
    BY <2>1, <2>2
<1>3. Ascending(S) = [k \in 1..Cardinality(S) |-> Ascending(S)[k]]
  BY DEF Ascending
<1>4. Ascending(S) \in [1..Cardinality(S) -> S]
  BY <1>2, <1>3
<1>5. /\ Ascending(S) \in Seq(S)
      /\ Len(Ascending(S)) = Cardinality(S)
      /\ DOMAIN Ascending(S) = 1..Cardinality(S)
  BY <1>1, <1>4, LenProperties, IsASeq
<1>6. Rising(Ascending(S))
  <2> SUFFICES ASSUME NEW i \in 1..Cardinality(S), NEW j \in 1..Cardinality(S),
                      i < j, ~(Ascending(S)[i] < Ascending(S)[j])
               PROVE  FALSE
    BY <1>5 DEF Rising
  <2> DEFINE x == Ascending(S)[i]
             y == Ascending(S)[j]
  <2>1. x \in S /\ y \in S /\ x \in Nat /\ y \in Nat
    BY <1>2
  <2>2. Rank(S, x) = i /\ Rank(S, y) = j
    BY <1>2
  <2>3. ~(x < y)
    OBVIOUS
  <2> HIDE DEF x, y
  <2>4. y = x \/ y < x
    BY <2>1, <2>3
  <2>5. j <= i
    BY <1>1, <2>1, <2>2, <2>4, RankGrows
  <2> QED
    BY <1>1, <2>5
<1>7. \A n \in S : Ascending(S)[Rank(S, n)] = n
  <2> SUFFICES ASSUME NEW n \in S PROVE Ascending(S)[Rank(S, n)] = n
    OBVIOUS
  <2> DEFINE m == Ascending(S)[Rank(S, n)]
  <2>1. m \in S /\ Rank(S, m) = Rank(S, n)
    BY <1>2, RankGrows
  <2>2. Rank(S, n) \in Nat
    BY RankGrows, <1>1
  <2>3. n \in Nat /\ m \in Nat
    BY <2>1
  <2> HIDE DEF m
  <2>4. m = n
    BY <2>1, <2>2, <2>3, RankGrows
  <2> QED
    BY <2>4 DEF m
<1> QED
  BY <1>5, <1>6, <1>7
(* A sequence that rises and has as many places as the set lists the set. *)
LEMMA ListedOnce ==
  ASSUME NEW S \in SUBSET Nat, IsFiniteSet(S), NEW s \in Seq(S),
         Len(s) = Cardinality(S), Rising(s)
  PROVE  s = Ascending(S)
<1> DEFINE n == Cardinality(S)
<1>1. n \in Nat /\ s \in [1..n -> S] /\ DOMAIN s = 1..n
  BY FS_CardinalityType, LenProperties, ElementOfSeq
<1>2. \A k \in 1..n : s[k] \in S /\ s[k] \in Nat
  BY <1>1
<1>3. \A i, j \in 1..n : i < j => s[i] < s[j]
  BY <1>1 DEF Rising
<1> HIDE DEF n
<1>4. \A i, j \in 1..n : s[i] <= s[j] <=> i <= j
  BY <1>1, <1>2, <1>3
<1>5. s \in Injection(1..n, S)
  BY <1>1, <1>2, <1>4 DEF Injection, IsInjective
<1>6. IsFiniteSet(1..n) /\ Cardinality(1..n) = n
  BY <1>1, FS_Interval
<1>7. s \in Surjection(1..n, S)
  BY <1>5, <1>6, FS_Injection DEF n
<1>8. ASSUME NEW k \in 1..n PROVE Rank(S, s[k]) = k
  <2> DEFINE T == {m \in S : m <= s[k]}
             f == [i \in 1..k |-> s[i]]
  <2>1. k \in Nat /\ 1..k \subseteq 1..n /\ \A i \in 1..n : i <= k => i \in 1..k
    BY <1>1
  <2>2. \A i \in 1..k : i <= k
    BY <2>1
  <2>3. f \in [1..k -> T]
    BY <1>2, <1>4, <2>1, <2>2
  <2>4. f \in Surjection(1..k, T)
    <3> SUFFICES ASSUME NEW m \in S, m <= s[k] PROVE \E i \in 1..k : f[i] = m
      BY <2>3 DEF Surjection
    <3>1. PICK i \in 1..n : s[i] = m
      BY <1>7 DEF Surjection
    <3>2. i \in 1..k
      BY <1>4, <2>1, <3>1
    <3> QED
      BY <3>1, <3>2
  <2>5. f \in Injection(1..k, T)
    <3>1. \A i, j \in 1..k : s[i] = s[j] => i = j
      BY <1>2, <1>4, <2>1
    <3> QED
      BY <2>3, <3>1 DEF Injection, IsInjective
  <2>6. IsFiniteSet(1..k) /\ Cardinality(1..k) = k
    BY <2>1, FS_Interval
  <2>7. Cardinality(T) = k
    BY <2>4, <2>5, <2>6, FS_Surjection
  <2> QED
    BY <2>7 DEF Rank
<1>9. \A k \in 1..n : Ascending(S)[k] = s[k]
  BY <1>2, <1>8, AscendingIs
<1>10. Ascending(S) = [k \in 1..n |-> Ascending(S)[k]]
  <2>1. Ascending(S) \in [1..n -> S]
    BY AscendingIs, LenProperties DEF n
  <2> QED
    BY <2>1
<1>11. s = [k \in 1..n |-> s[k]]
  BY <1>1
<1> QED
  BY <1>9, <1>10, <1>11

(* What is sent comes last: it has the greatest number. *)
LEMMA SentLast ==
  ASSUME NEW S \in SUBSET Nat, IsFiniteSet(S), NEW x \in Nat, \A n \in S : n < x
  PROVE  Ascending(S \cup {x}) = Append(Ascending(S), x)
<1> DEFINE s == Append(Ascending(S), x)
           T == S \cup {x}
<1>1. Cardinality(S) \in Nat
  BY FS_CardinalityType
<1>2. /\ Ascending(S) \in Seq(T)
      /\ Len(Ascending(S)) = Cardinality(S)
      /\ \A k \in 1..Cardinality(S) : Ascending(S)[k] \in S
  <2>1. Ascending(S) \in Seq(S) /\ Len(Ascending(S)) = Cardinality(S)
    BY AscendingIs
  <2>2. Ascending(S) \in [1..Cardinality(S) -> S]
    BY <2>1, LenProperties
  <2> QED
    BY <1>1, <2>1, <2>2, IsASeq
<1>3. x \notin S /\ T \in SUBSET Nat
  OBVIOUS
<1>4. IsFiniteSet(T) /\ Cardinality(T) = Cardinality(S) + 1
  BY <1>3, FS_AddElement
<1>5. /\ s \in Seq(T)
      /\ Len(s) = Cardinality(S) + 1
      /\ \A k \in 1..Cardinality(S) : s[k] = Ascending(S)[k]
      /\ s[Cardinality(S) + 1] = x
  BY <1>1, <1>2, AppendProperties
<1>6. Rising(s)
  <2>1. DOMAIN s = 1..(Cardinality(S) + 1)
    BY <1>5, LenProperties
  <2>2. \A i, j \in 1..Cardinality(S) : i < j => Ascending(S)[i] < Ascending(S)[j]
    BY AscendingIs DEF Rising
  <2> HIDE DEF s
  <2>3. ASSUME NEW i \in 1..(Cardinality(S) + 1), NEW j \in 1..(Cardinality(S) + 1), i < j
        PROVE  s[i] < s[j]
    <3>1. i \in 1..Cardinality(S)
      BY <1>1, <2>3
    <3>2. CASE j = Cardinality(S) + 1
      BY <1>2, <1>5, <3>1, <3>2
    <3>3. CASE j \in 1..Cardinality(S)
      BY <1>5, <2>2, <2>3, <3>1, <3>3
    <3> QED
      BY <1>1, <3>2, <3>3
  <2> QED
    BY <2>1, <2>3 DEF Rising
<1> HIDE DEF s, T
<1>7. s = Ascending(T)
  BY <1>3, <1>4, <1>5, <1>6, ListedOnce
<1> QED
  BY <1>7 DEF s, T
(* Removing a place from a sequence moves the later ones forward. *)
LEMMA RemoveAtIs ==
  ASSUME NEW S, NEW s \in Seq(S), NEW k \in 1..Len(s)
  PROVE  /\ RemoveAt(s, k) \in Seq(S)
         /\ Len(s) \in Nat
         /\ Len(RemoveAt(s, k)) = Len(s) - 1
         /\ \A j \in 1..(Len(s) - 1) : RemoveAt(s, k)[j] = IF j < k THEN s[j] ELSE s[j + 1]
<1> DEFINE left == SubSeq(s, 1, k - 1)
           right == SubSeq(s, k + 1, Len(s))
<1>1. Len(s) \in Nat /\ \A j \in 1..Len(s) : s[j] \in S
  BY LenProperties, ElementOfSeq
<1>2. /\ left \in Seq(S) /\ Len(left) = k - 1
      /\ \A j \in 1..(k - 1) : left[j] = s[j]
  BY <1>1, SubSeqProperties
<1>3. /\ right \in Seq(S) /\ Len(right) = Len(s) - k
      /\ \A j \in 1..(Len(s) - k) : right[j] = s[k + j]
  BY <1>1, SubSeqProperties
<1>4. RemoveAt(s, k) = left \o right
  BY DEF RemoveAt
<1> HIDE DEF left, right
<1>5. /\ left \o right \in Seq(S)
      /\ Len(left \o right) = Len(s) - 1
  <2>1. left \o right \in Seq(S) /\ Len(left \o right) = Len(left) + Len(right)
    BY <1>2, <1>3, ConcatProperties
  <2> QED
    BY <1>1, <1>2, <1>3, <2>1
<1>6. ASSUME NEW j \in 1..(Len(s) - 1)
      PROVE  (left \o right)[j] = IF j < k THEN s[j] ELSE s[j + 1]
  <2>1. j \in 1..(Len(left) + Len(right))
    BY <1>1, <1>2, <1>3
  <2>2. (left \o right)[j] = IF j <= Len(left) THEN left[j] ELSE right[j - Len(left)]
    BY <1>2, <1>3, <2>1, ConcatProperties
  <2>3. CASE j < k
    BY <1>1, <1>2, <2>2, <2>3
  <2>4. CASE ~(j < k)
    <3>1. j - (k - 1) \in 1..(Len(s) - k) /\ k + (j - (k - 1)) = j + 1 /\ ~(j <= k - 1)
      BY <1>1, <2>4
    <3> QED
      BY <1>2, <1>3, <2>2, <2>4, <3>1
  <2> QED
    BY <2>3, <2>4
<1> QED
  BY <1>1, <1>4, <1>5, <1>6

(* What arrives is taken from its place in the list. *)
LEMMA TakenOut ==
  ASSUME NEW S \in SUBSET Nat, IsFiniteSet(S), NEW x \in S
  PROVE  Ascending(S \ {x}) = RemoveAt(Ascending(S), Rank(S, x))
<1> DEFINE T == S \ {x}
           a == Ascending(S)
           k == Rank(S, x)
           n == Cardinality(S)
           s == RemoveAt(a, k)
<1>1. n \in Nat
  BY FS_CardinalityType
<1>2. /\ a \in Seq(S) /\ Len(a) = n /\ DOMAIN a = 1..n
      /\ \A i, j \in 1..n : i < j => a[i] < a[j]
      /\ a[k] = x
  BY AscendingIs DEF Rising
<1>3. k \in 1..n
  BY RankGrows
<1>4. T \in SUBSET Nat /\ IsFiniteSet(T) /\ Cardinality(T) = n - 1
  BY FS_RemoveElement
<1>5. \A i \in 1..n : a[i] \in S /\ a[i] \in Nat
  BY <1>2, ElementOfSeq
<1> HIDE DEF a, k, n, T
<1>6. /\ s \in Seq(S) /\ Len(s) = n - 1
      /\ \A j \in 1..(n - 1) : s[j] = IF j < k THEN a[j] ELSE a[j + 1]
  BY <1>2, <1>3, RemoveAtIs
<1> HIDE DEF s
<1>7. ASSUME NEW j \in 1..(n - 1) PROVE s[j] \in T
  <2>1. PICK i \in 1..n : s[j] = a[i] /\ i # k
    BY <1>1, <1>3, <1>6
  <2>2. a[i] # x
    BY <1>2, <1>3, <1>5, <2>1
  <2> QED
    BY <1>5, <2>1, <2>2 DEF T
<1>8. s \in Seq(T)
  <2>1. s \in [1..(n - 1) -> T]
    BY <1>6, <1>7, LenProperties
  <2>2. n - 1 \in Nat
    BY <1>1, <1>3
  <2> QED
    BY <2>1, <2>2, IsASeq
<1>9. Rising(s)
  <2>1. DOMAIN s = 1..(n - 1)
    BY <1>6, LenProperties
  <2>2. ASSUME NEW i \in 1..(n - 1), NEW j \in 1..(n - 1), i < j
        PROVE  s[i] < s[j]
    <3> DEFINE g(l) == IF l < k THEN l ELSE l + 1
    <3>1. g(i) \in 1..n /\ g(j) \in 1..n /\ g(i) < g(j)
      BY <1>1, <1>3, <2>2
    <3>2. s[i] = a[g(i)] /\ s[j] = a[g(j)]
      BY <1>6
    <3> HIDE DEF g
    <3> QED
      BY <1>2, <3>1, <3>2
  <2> QED
    BY <2>1, <2>2 DEF Rising
<1>10. s = Ascending(T)
  BY <1>4, <1>6, <1>8, <1>9, ListedOnce
<1> QED
  BY <1>10 DEF s, T, a, k
-----------------------------------------------------------------------------
ChannelTyped ==
  /\ delay \in Nat /\ jitter \in Nat
  /\ now \in Nat
  /\ calls \in 0..Sends
  /\ queue \in SUBSET [due : Nat, id : 1..calls]
  /\ dropped \in 0..calls
  /\ pump \in {"check", "waiting", "sleeping", "sending"}
  /\ wakeAt \in Nat
  /\ hand \in 0..calls
  /\ wire \in Seq(1..calls)

(* No datagram is in two places. *)
EachOnce ==
  /\ \A d, e \in queue : d.id = e.id => d = e
  /\ \A i, j \in DOMAIN wire : wire[i] = wire[j] => i = j
  /\ \A d \in queue : \A i \in DOMAIN wire : d.id # wire[i]
  /\ pump = "sending" =>
       /\ hand # 0
       /\ \A d \in queue : d.id # hand
       /\ \A i \in DOMAIN wire : hand # wire[i]

(* Without jitter heap, hand and socket hold them in the order sent. *)
Orderly ==
  /\ delay = 0 => queue = {} /\ pump # "sending"
  /\ \A d \in queue : d.due <= now + delay
  /\ \A d, e \in queue : d.id < e.id => d.due <= e.due
  /\ \A i, j \in DOMAIN wire : i < j => wire[i] < wire[j]
  /\ \A d \in queue : \A i \in DOMAIN wire : wire[i] < d.id
  /\ pump = "sending" =>
       /\ \A d \in queue : hand < d.id
       /\ \A i \in DOMAIN wire : wire[i] < hand

ChannelInv == ChannelTyped /\ EachOnce /\ (jitter = 0 => Orderly) /\ NeverOverslept

LEMMA ChannelStarts == LossyInit => ChannelInv
<1> SUFFICES ASSUME LossyInit PROVE ChannelInv
  OBVIOUS
<1>1. wire \in Seq(1..calls) /\ DOMAIN wire = {} /\ queue = {} /\ pump = "check"
  BY DEF LossyInit
<1>2. ChannelTyped
  BY <1>1, ChannelAssumption DEF LossyInit, ChannelTyped, ChannelAssumption
<1> QED
  BY <1>1, <1>2 DEF ChannelInv, EachOnce, Orderly, NeverOverslept

(* The steps of the code that leave what is between the ends alone. *)
QuietStep == PumpWaits \/ PumpSleeps \/ PumpWakes \/ Tick \/ UNCHANGED lossyVars

LEMMA Quiet ==
  ASSUME ChannelInv, QuietStep
  PROVE  /\ ChannelInv'
         /\ Between' = Between /\ dropped' = dropped /\ jitter' = jitter
         /\ received' = received
<1> USE DEF ChannelInv
<1>1. /\ UNCHANGED <<delay, jitter, calls, queue, dropped, hand, wire>>
      /\ (pump # "sending" /\ pump' # "sending") \/ pump' = pump
      /\ now' \in Nat /\ now <= now'
      /\ pump' \in {"check", "waiting", "sleeping", "sending"}
      /\ wakeAt' \in Nat
  BY DEF QuietStep, PumpWaits, PumpSleeps, PumpWakes, Tick, lossyVars, pumpVars, ChannelTyped
<1>2. ChannelTyped'
  BY <1>1 DEF ChannelTyped
<1>3. EachOnce'
  BY <1>1 DEF EachOnce
<1>4. jitter' = 0 => Orderly'
  <2> SUFFICES ASSUME jitter' = 0 PROVE Orderly'
    OBVIOUS
  <2>1. Orderly
    BY <1>1
  <2>2. \A d \in queue : d.due <= now' + delay
    <3> SUFFICES ASSUME NEW d \in queue PROVE d.due <= now' + delay
      OBVIOUS
    <3>1. d.due \in Nat /\ d.due <= now + delay
      BY <2>1 DEF Orderly, ChannelTyped
    <3> QED
      BY <1>1, <3>1 DEF ChannelTyped
  <2> QED
    BY <1>1, <2>1, <2>2 DEF Orderly
<1>5. NeverOverslept'
  <2>1. CASE PumpWaits
    BY <2>1 DEF PumpWaits, NeverOverslept
  <2>2. CASE PumpSleeps
    <3>1. PICK d \in queue : First(d) /\ wakeAt' = d.due
      BY <2>2 DEF PumpSleeps
    <3>2. \A e \in queue : d.due <= e.due
      BY <3>1 DEF First, ChannelTyped
    <3> QED
      BY <2>2, <3>1, <3>2 DEF PumpSleeps, NeverOverslept
  <2>3. CASE PumpWakes
    BY <2>3 DEF PumpWakes, NeverOverslept
  <2>4. CASE Tick \/ UNCHANGED lossyVars
    BY <2>4 DEF Tick, lossyVars, pumpVars, NeverOverslept
  <2> QED
    BY <2>1, <2>2, <2>3, <2>4 DEF QuietStep
<1>6. Between' = Between
  BY <1>1 DEF Between
<1>7. received' = received
  BY DEF QuietStep, PumpWaits, PumpSleeps, PumpWakes, Tick, lossyVars
<1> QED
  BY <1>1, <1>2, <1>3, <1>4, <1>5, <1>6, <1>7

LEMMA TypesWiden ==
  ASSUME ChannelTyped, NEW n \in Nat, calls <= n
  PROVE  queue \in SUBSET [due : Nat, id : 1..n] /\ wire \in Seq(1..n) /\ hand \in 0..n
<1>1. 1..calls \subseteq 1..n /\ 0..calls \subseteq 0..n
  BY DEF ChannelTyped
<1>2. wire \in Seq(1..n)
  BY <1>1, SeqMonotonic DEF ChannelTyped
<1> QED
  BY <1>1, <1>2 DEF ChannelTyped
LEMMA Longer ==
  ASSUME NEW S, NEW s \in Seq(S), NEW x \in S
  PROVE  /\ Append(s, x) \in Seq(S)
         /\ Len(s) \in Nat
         /\ DOMAIN s = 1..Len(s) /\ DOMAIN Append(s, x) = 1..(Len(s) + 1)
         /\ \A i \in 1..Len(s) : Append(s, x)[i] = s[i]
         /\ Append(s, x)[Len(s) + 1] = x
  BY AppendProperties, LenProperties

(* What the socket holds after one more datagram was given to it. *)
LEMMA WireGrows ==
  ASSUME NEW n \in Nat, NEW x \in 1..n, wire \in Seq(1..n), wire' = Append(wire, x)
  PROVE  /\ wire' \in Seq(1..n)
         /\ ToSet(wire') = ToSet(wire) \cup {x}
         /\ \A i \in DOMAIN wire' : \/ i \in DOMAIN wire /\ wire'[i] = wire[i]
                                   \/ /\ i \notin DOMAIN wire /\ wire'[i] = x
                                      /\ \A j \in DOMAIN wire : j < i
         /\ \A i, j \in DOMAIN wire' \ DOMAIN wire : i = j
<1>1. /\ wire' \in Seq(1..n)
      /\ Len(wire) \in Nat
      /\ DOMAIN wire = 1..Len(wire) /\ DOMAIN wire' = 1..(Len(wire) + 1)
      /\ \A i \in 1..Len(wire) : wire'[i] = wire[i]
      /\ wire'[Len(wire) + 1] = x
  BY Longer
<1>2. \A i \in DOMAIN wire' \ DOMAIN wire : i = Len(wire) + 1
  BY <1>1
<1>3. \A j \in DOMAIN wire : j < Len(wire) + 1 /\ j \in DOMAIN wire'
  BY <1>1
<1>4. Len(wire) + 1 \in DOMAIN wire'
  BY <1>1
<1>5. ToSet(wire') = ToSet(wire) \cup {x}
  BY <1>1, <1>2, <1>3, <1>4 DEF ToSet
<1> QED
  BY <1>1, <1>2, <1>3, <1>5

(* What is between the ends are finitely many numbers of past calls. *)
LEMMA BetweenIs ==
  ASSUME ChannelTyped, EachOnce
  PROVE  /\ Between \in SUBSET Nat
         /\ \A n \in Between : n <= calls
         /\ IsFiniteSet(Between) /\ Cardinality(Between) \in Nat /\ Cardinality(Between) <= calls
<1>1. {d.id : d \in queue} \subseteq 1..calls
  BY DEF ChannelTyped
<1>2. ToSet(wire) \subseteq 1..calls
  BY ElementOfSeq, LenProperties DEF ChannelTyped, ToSet
<1>3. pump = "sending" => hand \in 1..calls
  BY DEF ChannelTyped, EachOnce
<1>4. Between \subseteq 1..calls
  BY <1>1, <1>2, <1>3 DEF Between
<1>5. calls \in Nat /\ IsFiniteSet(1..calls) /\ Cardinality(1..calls) = calls
  <2>1. calls \in Nat
    BY DEF ChannelTyped
  <2> QED
    BY <2>1, FS_Interval
<1>6. IsFiniteSet(Between) /\ Cardinality(Between) <= calls
  BY <1>4, <1>5, FS_Subset
<1> QED
  BY <1>4, <1>5, <1>6, FS_CardinalityType

(* sendto loses the datagram. *)
SendLoses == SendTo /\ dropped' = dropped + 1 /\ UNCHANGED <<queue, pump, wire>>

(* sendto gives the datagram to the socket. *)
SendDirect ==
  /\ SendTo
  /\ delay = 0 /\ UNCHANGED <<dropped, queue, pump>>
  /\ wire' = Append(wire, calls')

(* sendto puts the datagram into the heap. *)
SendLater(wait) ==
  /\ SendTo
  /\ wait \in delay..(delay + jitter) /\ wait # 0
  /\ queue' = queue \cup {[due |-> now + wait, id |-> calls']}
  /\ pump' = Notified
  /\ UNCHANGED <<dropped, wire>>

LEMMA SendToCases ==
  ASSUME ChannelTyped, SendTo
  PROVE  SendLoses \/ SendDirect \/ \E wait \in Nat : SendLater(wait)
<1>1. CASE dropped' = dropped + 1 /\ UNCHANGED <<queue, pump, wire>>
  BY <1>1 DEF SendLoses
<1>2. ASSUME NEW wait \in delay..(delay + jitter), UNCHANGED dropped,
             IF wait = 0
             THEN /\ wire' = Append(wire, calls')
                  /\ UNCHANGED <<queue, pump>>
             ELSE /\ queue' = queue \cup {[due |-> now + wait, id |-> calls']}
                  /\ pump' = Notified
                  /\ UNCHANGED wire
      PROVE  SendDirect \/ \E w \in Nat : SendLater(w)
  <2>1. wait \in Nat /\ (wait = 0 => delay = 0)
    BY DEF ChannelTyped
  <2> QED
    BY <1>2, <2>1 DEF SendDirect, SendLater
<1> QED
  BY <1>1, <1>2 DEF SendTo

(* A call has a number above all that are between the ends. *)
LEMMA Calls ==
  ASSUME ChannelTyped, EachOnce, SendTo
  PROVE  /\ calls' = calls + 1 /\ calls' \in 0..Sends /\ calls' \in 1..calls'
         /\ UNCHANGED <<delay, jitter, now, wakeAt, hand>>
         /\ queue \in SUBSET [due : Nat, id : 1..calls']
         /\ wire \in Seq(1..calls') /\ hand \in 0..calls'
         /\ \A d \in queue : d.id < calls'
         /\ \A i \in DOMAIN wire : wire[i] < calls' /\ wire[i] \in Nat
         /\ hand < calls'
<1>1. calls \in Nat /\ calls' = calls + 1 /\ calls' \in 0..Sends
  BY ChannelAssumption DEF SendTo, ChannelTyped, ChannelAssumption
<1>2. /\ queue \in SUBSET [due : Nat, id : 1..calls']
      /\ wire \in Seq(1..calls') /\ hand \in 0..calls'
  BY <1>1, TypesWiden
<1>3. \A i \in DOMAIN wire : wire[i] \in 1..calls
  BY ElementOfSeq, LenProperties DEF ChannelTyped
<1> QED
  BY <1>1, <1>2, <1>3 DEF SendTo, ChannelTyped
LEMMA Losing ==
  ASSUME ChannelInv, SendLoses
  PROVE  ChannelInv' /\ Between' = Between
<1> USE DEF ChannelInv
<1>0. SendTo /\ dropped' = dropped + 1 /\ UNCHANGED <<queue, pump, wire>>
  BY DEF SendLoses
<1>1. /\ calls' = calls + 1 /\ calls' \in 0..Sends
      /\ UNCHANGED <<delay, jitter, now, wakeAt, hand>>
      /\ queue \in SUBSET [due : Nat, id : 1..calls']
      /\ wire \in Seq(1..calls') /\ hand \in 0..calls'
  BY <1>0, Calls
<1>2. ChannelTyped'
  BY <1>0, <1>1 DEF ChannelTyped
<1>3. EachOnce' /\ NeverOverslept' /\ Between' = Between
  BY <1>0, <1>1 DEF EachOnce, NeverOverslept, Between
<1>4. jitter' = 0 => Orderly'
  BY <1>0, <1>1 DEF Orderly
<1> QED
  BY <1>2, <1>3, <1>4

LEMMA SendingDirect ==
  ASSUME ChannelInv, SendDirect
  PROVE  ChannelInv' /\ Between' = Between \cup {calls'}
<1> USE DEF ChannelInv
<1>0. /\ SendTo /\ delay = 0
      /\ UNCHANGED <<dropped, queue, pump>>
      /\ wire' = Append(wire, calls')
  BY DEF SendDirect
<1>1. /\ calls' = calls + 1 /\ calls' \in 0..Sends /\ calls' \in 1..calls'
      /\ UNCHANGED <<delay, jitter, now, wakeAt, hand>>
      /\ queue \in SUBSET [due : Nat, id : 1..calls']
      /\ wire \in Seq(1..calls') /\ hand \in 0..calls'
      /\ \A d \in queue : d.id < calls'
      /\ \A i \in DOMAIN wire : wire[i] < calls' /\ wire[i] \in Nat
      /\ hand < calls'
  BY <1>0, Calls
<1>2. /\ wire' \in Seq(1..calls')
      /\ ToSet(wire') = ToSet(wire) \cup {calls'}
      /\ \A i \in DOMAIN wire' : \/ i \in DOMAIN wire /\ wire'[i] = wire[i]
                                \/ /\ i \notin DOMAIN wire /\ wire'[i] = calls'
                                   /\ \A j \in DOMAIN wire : j < i
      /\ \A i, j \in DOMAIN wire' \ DOMAIN wire : i = j
  BY <1>0, <1>1, WireGrows
<1>3. ChannelTyped'
  BY <1>0, <1>1, <1>2 DEF ChannelTyped
<1>4. EachOnce'
  <2>1. ASSUME NEW i \in DOMAIN wire', NEW j \in DOMAIN wire', wire'[i] = wire'[j]
        PROVE  i = j
    <3>1. \A k \in DOMAIN wire : wire[k] # calls'
      BY <1>1
    <3>2. CASE i \in DOMAIN wire
      BY <1>2, <2>1, <3>1, <3>2 DEF EachOnce
    <3>3. CASE i \notin DOMAIN wire
      BY <1>2, <2>1, <3>1, <3>3
    <3> QED
      BY <3>2, <3>3
  <2>2. \A d \in queue : \A i \in DOMAIN wire' : d.id # wire'[i]
    <3>1. \A d \in queue : d.id # calls'
      <4>1. \A d \in queue : d.id \in Nat /\ d.id < calls'
        BY <1>1
      <4> QED
        BY <1>1, <4>1
    <3>2. \A d \in queue : \A i \in DOMAIN wire : d.id # wire[i]
      BY DEF EachOnce
    <3> QED
      BY <1>2, <3>1, <3>2
  <2>3. ASSUME pump = "sending", NEW i \in DOMAIN wire' PROVE hand # wire'[i]
    <3>1. hand \in Nat /\ hand < calls'
      BY <1>1 DEF ChannelTyped
    <3>2. \A k \in DOMAIN wire : hand # wire[k]
      BY <2>3 DEF EachOnce
    <3>3. wire'[i] = calls' \/ (i \in DOMAIN wire /\ wire'[i] = wire[i])
      BY <1>2
    <3> QED
      BY <1>1, <3>1, <3>2, <3>3
  <2> QED
    BY <1>0, <1>1, <2>1, <2>2, <2>3 DEF EachOnce
<1>5. jitter' = 0 => Orderly'
  <2> SUFFICES ASSUME jitter = 0 PROVE Orderly'
    BY <1>1
  <2>1. Orderly /\ queue = {} /\ pump # "sending"
    BY <1>0 DEF Orderly
  <2>2. DOMAIN wire \subseteq Nat /\ DOMAIN wire' \subseteq Nat
    BY <1>2, LenProperties DEF ChannelTyped
  <2>3. ASSUME NEW i \in DOMAIN wire', NEW j \in DOMAIN wire', i < j
        PROVE  wire'[i] < wire'[j]
    <3>1. i \in Nat /\ j \in Nat /\ \A k \in DOMAIN wire : k \in Nat
      BY <2>2
    <3>2. CASE j \in DOMAIN wire
      <4>1. i \in DOMAIN wire
        BY <1>2, <2>3, <3>1, <3>2
      <4>2. wire[i] < wire[j]
        BY <2>1, <2>3, <3>2, <4>1 DEF Orderly
      <4> QED
        BY <1>2, <3>2, <4>1, <4>2
    <3>3. CASE j \notin DOMAIN wire
      <4>1. i \in DOMAIN wire /\ wire'[j] = calls'
        BY <1>2, <2>3, <3>1, <3>3
      <4>2. wire'[i] = wire[i] /\ wire[i] < calls'
        BY <1>1, <1>2, <4>1
      <4> QED
        BY <4>1, <4>2
    <3> QED
      BY <3>2, <3>3
  <2> QED
    BY <1>0, <1>1, <2>1, <2>3 DEF Orderly
<1>6. NeverOverslept' /\ Between' = Between \cup {calls'}
  BY <1>0, <1>1, <1>2 DEF NeverOverslept, Between
<1> QED
  BY <1>3, <1>4, <1>5, <1>6

LEMMA SendingLater ==
  ASSUME ChannelInv, NEW wait \in Nat, SendLater(wait)
  PROVE  ChannelInv' /\ Between' = Between \cup {calls'}
<1> USE DEF ChannelInv
<1> DEFINE d0 == [due |-> now + wait, id |-> calls']
<1>0. /\ SendTo
      /\ wait \in delay..(delay + jitter) /\ wait # 0
      /\ queue' = queue \cup {d0}
      /\ pump' = Notified
      /\ UNCHANGED <<dropped, wire>>
  BY DEF SendLater
<1>1. /\ calls' = calls + 1 /\ calls' \in 0..Sends /\ calls' \in 1..calls'
      /\ UNCHANGED <<delay, jitter, now, wakeAt, hand>>
      /\ queue \in SUBSET [due : Nat, id : 1..calls']
      /\ wire \in Seq(1..calls') /\ hand \in 0..calls'
      /\ \A d \in queue : d.id < calls'
      /\ \A i \in DOMAIN wire : wire[i] < calls' /\ wire[i] \in Nat
      /\ hand < calls'
  BY <1>0, Calls
<1>2. pump' \in {"check", "sending"} /\ (pump' = "sending" <=> pump = "sending")
  BY <1>0 DEF Notified, ChannelTyped
<1>3. now + wait \in Nat /\ d0 \in [due : Nat, id : 1..calls']
  BY <1>1 DEF ChannelTyped
<1>4. d0.id = calls' /\ d0.due = now + wait
  OBVIOUS
<1> HIDE DEF d0
<1>5. ChannelTyped'
  BY <1>0, <1>1, <1>2, <1>3 DEF ChannelTyped
<1>6. EachOnce'
  <2>1. \A d, e \in queue' : d.id = e.id => d = e
    BY <1>0, <1>1, <1>4 DEF EachOnce
  <2>2. \A d \in queue' : \A i \in DOMAIN wire : d.id # wire[i]
    BY <1>0, <1>1, <1>4 DEF EachOnce
  <2>3. pump = "sending" => \A d \in queue' : d.id # hand
    BY <1>0, <1>1, <1>4 DEF EachOnce
  <2> QED
    BY <1>0, <1>1, <1>2, <2>1, <2>2, <2>3 DEF EachOnce
<1>7. jitter' = 0 => Orderly'
  <2> SUFFICES ASSUME jitter = 0 PROVE Orderly'
    BY <1>1
  <2>1. Orderly /\ delay # 0 /\ wait = delay
    BY <1>0 DEF ChannelTyped
  <2>2. \A d \in queue' : d.due <= now + delay
    BY <1>0, <1>1, <1>4, <2>1 DEF Orderly, ChannelTyped
  <2>3. \A d, e \in queue' : d.id < e.id => d.due <= e.due
    <3> SUFFICES ASSUME NEW d \in queue', NEW e \in queue', d.id < e.id PROVE d.due <= e.due
      OBVIOUS
    <3>1. d.id \in Nat /\ d.id <= calls' /\ d.due \in Nat
      <4>1. queue' \in SUBSET [due : Nat, id : 1..calls'] /\ calls' \in Nat
        BY <1>5 DEF ChannelTyped
      <4>2. d \in [due : Nat, id : 1..calls']
        BY <4>1
      <4> QED
        BY <4>1, <4>2
    <3>2. CASE e = d0
      BY <1>4, <2>1, <2>2, <3>2
    <3>3. CASE e \in queue
      <4>1. e.id < calls' /\ e.id \in Nat
        BY <1>1, <3>3 DEF ChannelTyped
      <4>2. d # d0
        BY <1>1, <1>4, <3>1, <4>1
      <4> QED
        BY <1>0, <2>1, <3>3, <4>2 DEF Orderly
    <3> QED
      BY <1>0, <3>2, <3>3
  <2>4. \A d \in queue' : \A i \in DOMAIN wire : wire[i] < d.id
    BY <1>0, <1>1, <1>4, <2>1 DEF Orderly
  <2>5. pump = "sending" => \A d \in queue' : hand < d.id
    BY <1>0, <1>1, <1>4, <2>1 DEF Orderly
  <2> QED
    BY <1>0, <1>1, <1>2, <2>1, <2>2, <2>3, <2>4, <2>5 DEF Orderly
<1>8. NeverOverslept'
  BY <1>2 DEF NeverOverslept
<1>9. Between' = Between \cup {calls'}
  <2>1. {d.id : d \in queue'} = {d.id : d \in queue} \cup {calls'}
    BY <1>0, <1>4
  <2> QED
    BY <1>0, <1>1, <1>2, <2>1 DEF Between
<1> QED
  BY <1>5, <1>6, <1>7, <1>8, <1>9
(* The pump's own steps move one datagram along. *)
LEMMA Taking ==
  ASSUME ChannelInv, PumpTakes
  PROVE  ChannelInv' /\ Between' = Between
<1> USE DEF ChannelInv
<1>1. PICK d \in queue : First(d) /\ hand' = d.id /\ queue' = queue \ {d}
  BY DEF PumpTakes
<1>2. /\ UNCHANGED <<delay, jitter, now, calls, dropped, wakeAt, wire>>
      /\ pump = "check" /\ pump' = "sending"
  BY DEF PumpTakes
<1>3. d.id \in 1..calls /\ d.id # 0
  BY DEF ChannelTyped
<1>4. ChannelTyped'
  BY <1>1, <1>2, <1>3 DEF ChannelTyped
<1>5. EachOnce'
  BY <1>1, <1>2, <1>3 DEF EachOnce
<1>6. jitter' = 0 => Orderly'
  <2> SUFFICES ASSUME jitter = 0 PROVE Orderly'
    BY <1>2
  <2>1. Orderly /\ delay # 0
    BY <1>1 DEF Orderly
  <2>2. ASSUME NEW e \in queue, e # d PROVE d.id < e.id
    <3>1. d.id \in Nat /\ e.id \in Nat /\ d.due \in Nat /\ e.due \in Nat
      BY DEF ChannelTyped
    <3>2. d.due < e.due \/ (d.due = e.due /\ d.id <= e.id)
      BY <1>1 DEF First
    <3>3. e.id < d.id => e.due <= d.due
      BY <2>1 DEF Orderly
    <3>4. e.id # d.id
      BY <2>2 DEF EachOnce
    <3> QED
      BY <3>1, <3>2, <3>3, <3>4
  <2> QED
    BY <1>1, <1>2, <2>1, <2>2 DEF Orderly
<1>7. NeverOverslept'
  BY <1>2 DEF NeverOverslept
<1>8. Between' = Between
  <2>1. {e.id : e \in queue} = {e.id : e \in queue'} \cup {d.id}
    BY <1>1
  <2> QED
    BY <1>1, <1>2, <2>1 DEF Between
<1> QED
  BY <1>4, <1>5, <1>6, <1>7, <1>8

LEMMA PumpGives ==
  ASSUME ChannelInv, PumpSends
  PROVE  ChannelInv' /\ Between' = Between
<1> USE DEF ChannelInv
<1>0. /\ pump = "sending" /\ pump' = "check"
      /\ wire' = Append(wire, hand) /\ hand' = 0
      /\ UNCHANGED <<delay, jitter, now, calls, queue, dropped, wakeAt>>
  BY DEF PumpSends
<1>1. calls \in Nat /\ hand \in 1..calls /\ \A i \in DOMAIN wire : wire[i] # hand
  BY <1>0 DEF ChannelTyped, EachOnce
<1>2. /\ wire' \in Seq(1..calls)
      /\ ToSet(wire') = ToSet(wire) \cup {hand}
      /\ \A i \in DOMAIN wire' : \/ i \in DOMAIN wire /\ wire'[i] = wire[i]
                                \/ /\ i \notin DOMAIN wire /\ wire'[i] = hand
                                   /\ \A j \in DOMAIN wire : j < i
      /\ \A i, j \in DOMAIN wire' \ DOMAIN wire : i = j
  <2>1. wire \in Seq(1..calls)
    BY DEF ChannelTyped
  <2> QED
    BY <1>0, <1>1, <2>1, WireGrows
<1>3. ChannelTyped'
  BY <1>0, <1>1, <1>2 DEF ChannelTyped
<1>4. EachOnce'
  <2>1. ASSUME NEW i \in DOMAIN wire', NEW j \in DOMAIN wire', wire'[i] = wire'[j]
        PROVE  i = j
    <3>1. CASE i \in DOMAIN wire
      BY <1>1, <1>2, <2>1, <3>1 DEF EachOnce
    <3>2. CASE i \notin DOMAIN wire
      BY <1>1, <1>2, <2>1, <3>2
    <3> QED
      BY <3>1, <3>2
  <2>2. \A d \in queue : \A i \in DOMAIN wire' : d.id # wire'[i]
    BY <1>0, <1>2 DEF EachOnce
  <2> QED
    BY <1>0, <2>1, <2>2 DEF EachOnce
<1>5. jitter' = 0 => Orderly'
  <2> SUFFICES ASSUME jitter = 0 PROVE Orderly'
    BY <1>0
  <2>1. Orderly
    OBVIOUS
  <2>2. DOMAIN wire \subseteq Nat /\ DOMAIN wire' \subseteq Nat
    BY <1>2, LenProperties DEF ChannelTyped
  <2>3. ASSUME NEW i \in DOMAIN wire', NEW j \in DOMAIN wire', i < j
        PROVE  wire'[i] < wire'[j]
    <3>1. CASE i \in DOMAIN wire
      BY <1>0, <1>2, <2>1, <2>3, <3>1 DEF Orderly
    <3>2. CASE i \notin DOMAIN wire
      BY <1>2, <2>2, <2>3, <3>2
    <3> QED
      BY <3>1, <3>2
  <2>4. \A d \in queue : \A i \in DOMAIN wire' : wire'[i] < d.id
    BY <1>0, <1>2, <2>1 DEF Orderly
  <2> QED
    BY <1>0, <2>1, <2>3, <2>4 DEF Orderly
<1>6. NeverOverslept' /\ Between' = Between
  BY <1>0, <1>2 DEF NeverOverslept, Between
<1> QED
  BY <1>3, <1>4, <1>5, <1>6

(* recvfrom takes the datagram at the head of the socket. *)
LEMMA Rest ==
  ASSUME NEW S, NEW s \in Seq(S), s # <<>>
  PROVE  /\ Tail(s) \in Seq(S)
         /\ Len(s) \in Nat \ {0}
         /\ DOMAIN s = 1..Len(s) /\ DOMAIN Tail(s) = 1..(Len(s) - 1)
         /\ s[1] \in S
         /\ \A i \in 1..(Len(s) - 1) : Tail(s)[i] = s[i + 1]
  BY HeadTailProperties, ElementOfSeq, EmptySeq, LenProperties

LEMMA Reading ==
  ASSUME ChannelInv, RecvFrom
  PROVE  /\ ChannelInv'
         /\ wire[1] \in Between /\ Between' = Between \ {wire[1]}
         /\ jitter = 0 => \A n \in Between : wire[1] <= n
<1> USE DEF ChannelInv
<1>0. /\ wire # <<>> /\ wire' = Tail(wire)
      /\ UNCHANGED <<delay, jitter, now, calls, queue, dropped, pump, wakeAt, hand>>
  BY DEF RecvFrom, pumpVars
<1>1. /\ wire' \in Seq(1..calls)
      /\ Len(wire) \in Nat \ {0}
      /\ DOMAIN wire = 1..Len(wire) /\ DOMAIN wire' = 1..(Len(wire) - 1)
      /\ wire[1] \in 1..calls
      /\ \A i \in 1..(Len(wire) - 1) : wire'[i] = wire[i + 1]
  <2>1. wire \in Seq(1..calls)
    BY DEF ChannelTyped
  <2> QED
    BY <1>0, <2>1, Rest
<1>2. /\ 1 \in DOMAIN wire
      /\ \A i \in DOMAIN wire' : i + 1 \in DOMAIN wire /\ i + 1 # 1 /\ wire'[i] = wire[i + 1]
      /\ \A i, j \in DOMAIN wire' : i + 1 = j + 1 => i = j
      /\ \A i, j \in DOMAIN wire' : i < j => i + 1 < j + 1
      /\ \A i \in DOMAIN wire : i = 1 \/ (i - 1 \in DOMAIN wire' /\ wire'[i - 1] = wire[i] /\ 1 < i)
  BY <1>1
<1>3. ChannelTyped'
  BY <1>0, <1>1 DEF ChannelTyped
<1>4. EachOnce'
  <2>1. \A i, j \in DOMAIN wire' : wire'[i] = wire'[j] => i = j
    BY <1>2 DEF EachOnce
  <2> QED
    BY <1>0, <1>2, <2>1 DEF EachOnce
<1>5. jitter' = 0 => Orderly'
  <2> SUFFICES ASSUME jitter = 0 PROVE Orderly'
    BY <1>0
  <2>1. Orderly
    OBVIOUS
  <2>2. \A i, j \in DOMAIN wire' : i < j => wire'[i] < wire'[j]
    BY <1>2, <2>1 DEF Orderly
  <2> QED
    BY <1>0, <1>2, <2>1, <2>2 DEF Orderly
<1>6. ToSet(wire) = ToSet(wire') \cup {wire[1]} /\ wire[1] \notin ToSet(wire')
  <2>1. wire[1] \in ToSet(wire) /\ \A i \in DOMAIN wire' : wire'[i] # wire[1]
    BY <1>2 DEF ToSet, EachOnce
  <2>2. \A i \in DOMAIN wire' : wire'[i] \in ToSet(wire)
    BY <1>2 DEF ToSet
  <2>3. \A i \in DOMAIN wire : wire[i] \in ToSet(wire') \cup {wire[1]}
    BY <1>2 DEF ToSet
  <2> QED
    BY <2>1, <2>2, <2>3 DEF ToSet
<1>7. /\ \A d \in queue : d.id # wire[1]
      /\ pump = "sending" => hand # wire[1]
  BY <1>2 DEF EachOnce
<1>8. wire[1] \in Between /\ Between' = Between \ {wire[1]}
  BY <1>0, <1>6, <1>7 DEF Between
<1>9. jitter = 0 => \A n \in Between : wire[1] <= n
  <2> SUFFICES ASSUME jitter = 0 PROVE \A n \in Between : wire[1] <= n
    OBVIOUS
  <2>1. wire[1] \in Nat /\ Orderly
    BY <1>1
  <2>2. \A d \in queue : wire[1] <= d.id
    BY <1>2, <2>1 DEF Orderly, ChannelTyped
  <2>3. \A i \in DOMAIN wire : wire[1] <= wire[i]
    <3>1. \A i \in DOMAIN wire : i # 1 => wire[1] < wire[i]
      BY <1>2, <2>1 DEF Orderly
    <3>2. \A i \in DOMAIN wire : wire[i] \in 1..calls
      BY <1>1, ElementOfSeq DEF ChannelTyped
    <3>3. \A i \in DOMAIN wire : wire[i] \in Nat
      BY <3>2
    <3> QED
      BY <2>1, <3>1, <3>3
  <2>4. pump = "sending" => wire[1] <= hand
    BY <1>2, <2>1 DEF Orderly, ChannelTyped
  <2> QED
    BY <2>2, <2>3, <2>4 DEF Between, ToSet
<1>10. NeverOverslept'
  BY <1>0 DEF NeverOverslept
<1> QED
  BY <1>3, <1>4, <1>5, <1>8, <1>9, <1>10
-----------------------------------------------------------------------------
(***************************************************************************)
(* Seen from outside: what each kind of step is for RdtCommon.             *)
(***************************************************************************)
LEMMA SentOnItsWay ==
  ASSUME ChannelInv, SendTo, Between' = Between \cup {calls'}, UNCHANGED dropped
  PROVE  LinkNext
<1>1. /\ Between \in SUBSET Nat /\ IsFiniteSet(Between)
      /\ \A n \in Between : n <= calls
      /\ Cardinality(Between) \in Nat /\ Cardinality(Between) <= calls
  BY BetweenIs DEF ChannelInv
<1>2. /\ calls \in Nat /\ Sends \in Nat /\ calls < Sends
      /\ calls' = calls + 1 /\ calls' \in Nat
  BY ChannelAssumption DEF ChannelInv, ChannelTyped, SendTo, ChannelAssumption
<1>3. \A n \in Between : n < calls'
  BY <1>1, <1>2
<1>4. Ascending(Between \cup {calls'}) = Append(Ascending(Between), calls')
  BY <1>1, <1>2, <1>3, SentLast
<1>5. OnItsWay' = Append(OnItsWay, calls + 1)
  BY <1>2, <1>4 DEF OnItsWay
<1>6. Len(OnItsWay) < Sends + 1
  <2>1. Len(OnItsWay) = Cardinality(Between)
    BY <1>1, AscendingIs DEF OnItsWay
  <2> QED
    BY <1>1, <1>2, <2>1
<1> QED
  BY <1>5, <1>6 DEF SendTo, LinkNext, Steady!Transmit

LEMMA LostOnItsWay ==
  ASSUME ChannelInv, SendTo, Between' = Between, dropped' = dropped + 1
  PROVE  LinkNext
<1>1. dropped < Sends
  BY ChannelAssumption DEF ChannelInv, ChannelTyped, SendTo, ChannelAssumption
<1>2. OnItsWay' = OnItsWay
  BY DEF OnItsWay
<1> QED
  BY <1>1, <1>2 DEF SendTo, LinkNext, Steady!Transmit

LEMMA ReadOnItsWay ==
  ASSUME ChannelInv, RecvFrom
  PROVE  LinkNext
<1> DEFINE x == wire[1]
           k == Rank(Between, x)
<1>1. /\ Between \in SUBSET Nat /\ IsFiniteSet(Between)
      /\ Cardinality(Between) \in Nat
  BY BetweenIs DEF ChannelInv
<1>2. /\ x \in Between /\ Between' = Between \ {x}
      /\ jitter = 0 => \A n \in Between : x <= n
  BY Reading
<1> HIDE DEF x
<1>3. OnItsWay' = RemoveAt(OnItsWay, k)
  BY <1>1, <1>2, TakenOut DEF OnItsWay
<1>4. k \in DOMAIN OnItsWay
  BY <1>1, <1>2, RankGrows, AscendingIs DEF OnItsWay
<1>5. jitter = 0 => k = 1
  <2> SUFFICES ASSUME jitter = 0 PROVE k = 1
    OBVIOUS
  <2>1. {n \in Between : n <= x} = {x}
    <3>1. \A n \in Between : n \in Nat /\ x \in Nat /\ x <= n
      BY <1>1, <1>2
    <3>2. \A n \in Between : n <= x <=> n = x
      BY <3>1
    <3> QED
      BY <1>2, <3>2
  <2> QED
    BY <2>1, FS_Singleton DEF Rank
<1>6. k \in IF jitter = 0 THEN Steady!Deliverable(OnItsWay)
                          ELSE Jittery!Deliverable(OnItsWay)
  BY <1>4, <1>5 DEF Steady!Deliverable, Jittery!Deliverable
<1>7. received' = received + 1 /\ UNCHANGED dropped
  BY DEF RecvFrom
<1> QED
  BY <1>3, <1>6, <1>7 DEF LinkNext

LEMMA ChannelStep ==
  ASSUME ChannelInv, [LossyNext]_lossyVars
  PROVE  ChannelInv' /\ [LinkNext]_<<OnItsWay, dropped, received>>
<1>1. CASE SendTo
  <2>1. CASE SendLoses
    BY <2>1, Losing, LostOnItsWay DEF SendLoses
  <2>2. CASE SendDirect
    BY <2>2, SendingDirect, SentOnItsWay DEF SendDirect
  <2>3. ASSUME NEW wait \in Nat, SendLater(wait)
        PROVE  ChannelInv' /\ LinkNext
    BY <2>3, SendingLater, SentOnItsWay DEF SendLater
  <2> QED
    BY <1>1, <2>1, <2>2, <2>3, SendToCases DEF ChannelInv
<1>2. CASE QuietStep
  BY <1>2, Quiet DEF OnItsWay
<1>3. CASE PumpTakes
  BY <1>3, Taking DEF OnItsWay, PumpTakes
<1>4. CASE PumpSends
  BY <1>4, PumpGives DEF OnItsWay, PumpSends
<1>5. CASE RecvFrom
  BY <1>5, Reading, ReadOnItsWay
<1> QED
  BY <1>1, <1>2, <1>3, <1>4, <1>5 DEF LossyNext, PumpNext, QuietStep

(***************************************************************************)
(* The pump's alarm is never late, for all delays and jitters and any      *)
(* order of sends and wake-ups.                                            *)
(***************************************************************************)
THEOREM Awake == LossySpec => []NeverOverslept
<1>1. ChannelInv => NeverOverslept
  BY DEF ChannelInv
<1>2. ChannelInv /\ [LossyNext]_lossyVars => ChannelInv'
  BY ChannelStep
<1> QED
  BY <1>1, <1>2, ChannelStarts, PTL DEF LossySpec

(***************************************************************************)
(* The class LossyChannel with its heap, lock and thread is the channel of *)
(* RdtCommon, for all delays and jitters and any number of sends.          *)
(***************************************************************************)
THEOREM ChannelIsLink == LossySpec => ImplementsLink
<1>1. ChannelInv /\ [LossyNext]_lossyVars => ChannelInv' /\ [LinkNext]_<<OnItsWay, dropped, received>>
  BY ChannelStep
<1> QED
  BY <1>1, ChannelStarts, PTL DEF LossySpec, ImplementsLink
=============================================================================
