# Verification of rn-code

`rn-code` is the code of a course on operating systems and computer networks:
nine chapters, each a small program whose point is how concurrent parts
coordinate. This directory holds TLA+ models of those parts, the TLC
configurations that check them on small instances, and theorems about them that
TLAPS checks for every value of the constants. `PROJECT.json` lists the
components, the runs, the mutant for each property, the source lines behind
every definition, the hazards and the findings.

## 1. Inventory

| Chapter, files | State | Operations | What is hard about it |
|---|---|---|---|
| 1 `01_thread_creation` | none shared | fork, run, join | nothing: demonstrations |
| 2 `bounded_buffer_mon.py` | ring `data`, `in`, `out`, `used`; one condition | `put`, `get` | who is woken by which notify; two pointers that wrap |
| 2 `semaphore.py` | `s`, the threads asleep in `P` | `P`, `V` | a newcomer overtakes the thread just woken |
| 2 `bounded_buffer_sem.py` | ring, semaphores `empty`, `full`, `mutex` | `put`, `get` | the order of the two `P`; several calls between counting and critical section |
| 2 `buf_user.py` | a flag per producer, the consumer's count of producers | the threads' loops, `main` | shutdown through an item in the buffer, joins in turn |
| 3 `forks_mon.py` | `free[i]`, one condition | `pick_up`, `put_down` | `free[i]` stays at 2 while `i` eats; waiters depend on two neighbours |
| 3 `forks_sem.py` | a semaphore per fork, `room` | `pick_up`, `put_down`, with and without the room | circular wait; which forks are whose |
| 3 `fork_user.py` | a flag per philosopher | the threads' loops, `main` | stopping threads that may be blocked |
| 4 `rw.py` | active and waiting readers and writers, one condition | entry and exit protocols of `read` and `write` | four counters, two kinds of waiters, exceptions inside the operation |
| 4 `rw_user.py` | `total_reads`, `total_writes`, `max_concurrent_readers` | `do_read`, `do_write`, the loops, `main` | `+=` on a total no lock protects; a maximum taken from a counter that lags |
| 5 `05_tcp_sockets` | a line buffer, the library's | accept, read lines, answer | one client at a time, a line split over segments |
| 6 `06_udp_sockets` | none | echo, one timeout | a lost datagram |
| 7 `07_udp_packet_loss` | counters of one run | count, notice gaps, end of run | reordering, duplicates, repeated and lost end markers |
| 8 `08_quic_sockets` | none of its own | callbacks of aioquic | the state machine is the library's |
| 9 `rdt_common.py` | heap of delayed datagrams, condition, pump thread | `sendto`, `recvfrom` | a datagram due earlier than the one the pump sleeps for; loss, delay, order |
| 9 `rdt_receiver.py` | `expected`, the buffer of early arrivals | `run_once` with `_on_data` of two classes, `_linger`, `main`'s loop | the last message may be lost; what a transfer leaves to the next |
| 9 `rdt_sender.py` | the window and its timers | `stop_and_wait`, `go_back_n`, `selective_repeat`, `_finish` | stale acknowledgements, early timers, giving up |
| 9 `rdt_compare.py` | results of each protocol | a receiver thread and a sender per protocol | the join, the assertion that all arrived |
| 9 `rdt_dilemma.py` | window positions modulo N | `simulate`, with a scripted loss | W > N/2 |

**How they interact.** In chapters 2 to 4 a driver (`*_user.py`) starts threads
that call one shared object, and `main` stops them through a flag of each thread
and joins them. The object is a monitor (a `Condition` with its lock) or is made
of the `Semaphore` of chapter 2; chapter 3 uses that semaphore again. In chapter
7 clients come one after another to one server. In chapter 9 sender and receiver
each own a `LossyChannel`, and two such channels make the two directions of one
connection; `rdt_compare.py` runs both ends in one process, and `rdt_receiver.py`
serves one sender process after another.

**What makes them correct.**

- Bounded buffer: a FIFO queue of at most `Size` items, for both
  implementations; nobody sleeps while there is something for him to do; the
  shutdown leaves no message behind and ends.
- Philosophers: no two neighbours eat together; nobody is blocked for ever.
- Readers and writers: a writer is alone; every thread comes to an end, even when
  an operation raises; the totals count every access.
- UDP flood: a report is about one client, and its counters mean something
  definite whatever the network did.
- Lossy channel: each datagram lost or delivered once, in order without jitter,
  and the pump in time.
- Reliable transfer: packets in order, none twice, none missing when the
  receiver sees the end, and success reported only after that; no
  retransmission without a loss when the timeout exceeds the round trip; both
  ends finish; a transfer does not spoil the next.
- Window dilemma: the rule W <= N/2 suffices, and is needed.

## 2. The modules

Reading order within each chapter: top to bottom.

### Chapter 9, reliable transfer

| Module | Models | Correspondence |
|---|---|---|
| `ReliableTransfer` | the abstract specification | what a transfer promises: `Deliver`, `End`, `Complete`, `GiveUp` |
| `RdtCommon` | both `LossyChannel`s from the outside | `Transmit` = `sendto`, `Deliverable` = what the pump and `recvfrom` may hand over |
| `LossyChannel` | one `LossyChannel` from the inside | `SendTo`, a `Pump...` action per critical section of `_pump` and one for the send after it, `RecvFrom`, a clock |
| `RdtReceiver` | one `run_once` of both receivers | `ServeData`, `ServeFin`, `LingerFin`, `LingerIgnore`, `LingerEnd`; `Mode` chooses `_on_data` |
| `RdtSender` | `_finish` and the counters all senders share | `FinSend`, `FinReceive`, `FinTimeout`, `FinGiveUp` |
| `StopAndWait`, `GoBackN`, `SelectiveRepeat` | the three sending functions, each composed with the receiver | a step per datagram sent, per datagram received and per timeout |
| `RdtCompare` | `run` of `rdt_compare.py`, all six pairings of sender and receiver | parameterised instances of the three protocols; `Join` is the join and the assertion |
| `RdtServer` | `main` of `rdt_receiver.py` with one stop-and-wait sender process after another | `NextRun` is the loop, `ServeStale` a datagram of an earlier process, `Abort` a sender that is killed |
| `RdtDilemma` | `rdt_dilemma.py` | `StartRound`, `Arrive`, `Answer`, `EndRound` are the parts of `simulate`'s loop; `InWindow`, `Receive`, `TakeAck` its functions and methods |

A packet is its kind and its number, and the payload is left out. A channel of `RdtCommon` is a
sequence; `Jitter` says whether datagrams overtake. Each direction drops a
datagram when the channel decides to (bounded by `MaxLoss` for both) or when
`Capacity` datagrams are on their way already, as a full receive buffer does.

*Time.* The transfers have no clock. With `Prompt = FALSE` a retransmission timer may
expire at any moment, so that every race of a timeout with a late answer is
covered. With `Prompt = TRUE` it expires only when everything on its way has
arrived, which is the relation the constants of `rdt_common.py` have: the
timeout of 0.15 s exceeds twice the delay of 0.010 s by far. `LingerRtos` is
the linger counted in such timeouts. Safety is checked with `Prompt = FALSE`;
what depends on the relation (no needless retransmission, the linger outlasts
the last retries) with `Prompt = TRUE`. `LossyChannel` has a clock, since its pump
reads one: an integer, in a unit of which the delay and the jitter are multiples.

*The channel from both sides.* `LossyChannel!ImplementsLink` says that whatever is in the heap, in
the pump's hand and in the socket, read in the order sent, changes only as the channel of
`RdtCommon` does: `Transmit` at the end, removal of a `Deliverable` one. So the
transfers above rest on the class as it is written. The datagram the pump has taken and
not yet sent matters here: the lock is released before the send, while
`sendto` with no delay sends under it. `received` counts what `recvfrom` returns, so that a
datagram that vanished in the pump, or came out of it twice, would not pass for a delivery.
The `OSError` that the pump ignores (`rdt_common.py:113-114`) is left out: it comes from a socket
already closed, and the sockets are closed only after the transfer.

*Successive senders.* A new sender has a new port, so answers to the one before are
read by nobody; what the old one sent may still be in the receiver's socket, all of it or a first part
(`stale`). `RdtServer` has history variables for what the properties compare: the packets of
the present sender that were delivered (`credited`), and whether the sender before left
without its FIN having been read (`interrupted`).

*Left out:* `elapsed`, `packets`, `timeouts` and `discarded`, which only measure.
The early `break` of `selective_repeat` (`rdt_sender.py:194`), for "nothing outstanding", is not
modelled, and no hazard: it is dead code. `WindowBrackets` of that module shows that base moves past
whatever is acknowledged, so that its condition never holds in the loop. The first sender
gives up at the 30th timeout in a row, the other two at the 31st (attempts
against stalls); the models keep that difference.

*An observation.* `rdt_common.py` calls `MAX_RETRIES` "give up after this many timeouts in
a row". `_finish` counts FINs, and any datagram but a FINACK ends a wait as a
timeout does, so that acknowledgements still on their way use up some of the tries. The models keep
this (`FinReceive`); the tries that remain suffice for the losses of `RdtCompare`.

### Chapter 7, UDP flood

| Module | Models | Correspondence |
|---|---|---|
| `UdpFlood` | `udp_flood_client.py` and `udp_flood_server.py` | `SendData`, `Refused`, `SendEnd` are the client's loops, `ServeData`, `ServeEnd`, `IdleReport` the server's; `Counted` is `Run.data` |

`orderly` chooses a network that keeps the order, as the loopback does, or one that
reorders and duplicates. A datagram that finds the queue full or is lost is
gone; `Refused` is the error that the client must not count as sent. The idle
report needs 3 s in which nothing arrives; in the model it may come whenever the queue is
empty, also while the client runs, since everything it sends for so long may be lost. The history
`idled` holds the packets of the runs that ended so: `ReportTrue` needs them, because the end marker
announces the client's total all the same.

### Chapter 2, bounded buffer

| Module | Models | Correspondence |
|---|---|---|
| `BoundedBuffer` | the abstract specification | a queue, `Put` and `Get` |
| `BoundedBufferMon` | `bounded_buffer_mon.py` | `Put`, `PutWaits`, `Get`, `GetWaits`: what a call does from one entry into the monitor to the next exit from it |
| `Semaphore` | `semaphore.py` | the critical sections of `P` and `V` as operators on `[s, waiting]` |
| `BoundedBufferSem` | `bounded_buffer_sem.py` | one action per statement of `put` and `get`; `Fetch` and `Clear` are the two that empty a slot |
| `BufUser` | `buf_user.py` with either buffer | one action per step of `Producer.run`, `Consumer.run` and `main`; `choice` is its argument |

A monitor's methods hold its lock, so a call is one step up to its `wait`. A
thread in `waiting` sleeps in `wait`; once notified, it competes for the
lock like any newcomer, tests its condition again and may go back to sleep. A
message's time stamp is a counter per producer modulo `Stamps`; `BufUserAssumption`
makes that more than the buffer and the producer's hand can hold together, so
that no two stamps in play are confused. The two buffers share the variables of the ring.

### Chapter 3, dining philosophers

| Module | Models | Correspondence |
|---|---|---|
| `ForkUser` | `fork_user.py` | the philosophers' loop and `main`; its joins have a timeout, so they never block |
| `ForksMon` | `forks_mon.py` | `PickUp`, `PickUpWaits`, `PutDown` |
| `ForksSem` | `forks_sem.py` | one action per `P` and `V`; `UseRoom` distinguishes the variants with and without the room |
| `ForkMain` | `make_forks` and the whole program | `choice` is the argument: the monitor, the semaphores with the room, or those without it |

### Chapter 4, readers and writers

| Module | Models | Correspondence |
|---|---|---|
| `RW` | `rw.py` | `BeforeRead`, `BeforeWrite`, `AfterRead`, `AfterWrite` and their waits, `Raise` for an exception of the operation |
| `RWUser` | `rw_user.py` | the loops, `DoRead`, `LoadTotal`/`StoreTotal` for the two halves of `total_writes += 1`, `main` |

### Proof modules

`GoBackN_proofs`, `SelectiveRepeat_proofs`, `RdtServer_proofs`, `RdtParts_proofs` (chapter
9), `UdpFlood_proofs` (7), `RWUser_proofs` (4), `ForkMain_proofs` (3) and
`BufUser_proofs` (2); see section 5. Each holds the theorems of the module it is named
after and of the components that module composes: `RdtServer_proofs` those of
`StopAndWait` too, `RdtParts_proofs` those of `RdtDilemma` and `LossyChannel`.

## 3. The runs

| Run | Bounds | What it shows |
|---|---|---|
| `GoBackN` | 3 packets, window 2, 1 loss, 3 datagrams per direction, 2 retries | no stale datagram is believed (`DatagramsTrue`), each end's counters bracket the other's (`WindowBrackets`), the transfer implements `ReliableTransfer`, both ends finish |
| `SelectiveRepeat` | the same | acknowledgements packet by packet are true, the buffer of early arrivals stays within a window (`BufferWithinWindow`), the same refinement and ends |
| `RdtCompare` | 4 packets, window 3, 3 losses, 4 retries, linger of 3 timeouts | each sender with its receiver succeeds, whatever three datagrams are lost (`EveryPairReliable`), and resends no more than the losses cost (`ResendsPaidByLoss`); the other pairings give up on packet 0 (`MispairedStalls`) |
| `RdtServer` | 3 senders of 3 packets each, 1 loss, 3 retries, no linger | unless a sender left before its FIN was read, success means that this sender's packets were delivered (`SuccessIsTrue`), the ends stay within one packet (`NeverTwoAhead`); reports are about whole transfers, or about none when a repeated FIN began the run (`ReportsWholeRuns`) |
| `RdtServer_abandoned` | 2 senders of 2 packets | violated: finding 2 |
| `RdtDilemma` | N = 8, 9 packets, every W from 1 to 8, 17 rounds | W <= N/2 is safe under any loss (`HalfIsSafe`); the script breaks exactly the widths beyond it (`ScriptTellsWidths`); the first wrong packet is an old one with the number of the missing one, as `report` says (`FailureExplained`) |
| `LossyChannel` | delays 0 to 2, jitters 0 and 2, 4 sends, 6 moments | the pump never sleeps past a datagram (`NeverOverslept`), the class is the channel of `RdtCommon` (`ImplementsLink`), what is not dropped arrives (`EverythingArrives`) |
| `UdpFlood` | 2 clients, 3 packets, 2 end markers, 3 datagrams in the queue, 1 duplicate | what `gaps` counts exactly (`GapsExact`), when a report tells the truth about one client (`ReportTrue`), that every run is reported (`EveryRunReported`) |
| `BufUser` | either buffer, 2 producers, 1 consumer, 2 slots | FIFO for both buffers, no lost wake-up, the units of the three semaphores account for every slot (`UnitsAccounted`), nobody oversleeps in `P`, order per producer, nothing left behind, `main` ends |
| `ForkMain` | 5 philosophers, all three managers | `free[i]` is always 2 less the neighbours that eat, although it is never touched for the philosopher's own meal, neighbours exclude each other and whoever sleeps has an eating neighbour (`MonitorExact`); each fork's semaphore knows whether its one holder has it, the room never admits more than n-1, and nobody sleeps at either beside a unit that nobody is about to take (`SemaphoresAccount`); without the room the only circular wait is the total one (`DeadlockIsTotal`), with it, or with the monitor, everybody stops (`NobodyStuck`) |
| `ForksSem_neighbours` | 5 philosophers | violated: finding 1 |
| `RWUser` | 2 readers, 2 writers, 2 calls each, a reader and a writer that may raise | writers are alone, nobody oversleeps, totals are exact, the recorded maximum is no less than the readers that overlapped in `do_read` and no more than were inside `read` at once (`OverlapSeen`), every thread stops |

**Why the bounds are enough.** *Transfers.* Three packets with a window of two let the
window move, fill and end short of `Count`; one loss that the model may
place anywhere, together with timers that may expire at any time (each
produces duplicates) and arbitrary order, reaches what more losses reach, since a
lost datagram and a late one differ to the other end only in time. A full direction
drops without touching `MaxLoss`, so further losses happen as well. Proofs
lift the safety of the three protocols and of the server to all values. With three senders (`Senders`) one lies between another that was
killed and one that must be served rightly. *Dilemma.* N and every W are those of the code; nine packets are one more than N, so that a sequence
number comes round. Seventeen rounds are the fewest for which the theorem `WidthsTold` promises that
a transfer of nine packets under the script ends by itself, the code's own limit being 40 (`RoundLimit`). *Channel.* Four sends can overtake one
another and tie. `Horizon` ends the sends early enough for all to fall due.
*Flood.* Two clients suffice for one's packets to meet the other's run.
*Buffers.* With two slots each pointer wraps, and full
and empty are two different states with one in between; with two
producers one can pass while the other sleeps. *Philosophers.* With five, two can eat and their common
neighbour waits for both. *Readers and writers.* Two of each is
the least at which a reader and a writer wait behind another writer.

**Deadlock checking** is off in every run: the programs end, or stop on purpose
(philosophers without the room), or the bound on what comes from outside is used up (sends,
senders, sessions). That nobody is stuck before is what the liveness properties say.

**Bounds in the guards:** `MaxLoss` and `Capacity` (channels, queue), `Stamps` (time stamps),
`Calls` (calls of a reader or writer before it must have been stopped), `Senders`, `Sessions`,
`MaxRepeats` (duplicates), `Sends` and `Horizon` (channel), `RoundLimit`.

**Fairness.** Each thread or process is weakly fair: the interpreter runs every
thread that can run. In `LossyChannel` that is the pump, the reader and the clock, not the
caller of `sendto`; in `UdpFlood` the client and the server, the latter's timeouts included; `RdtServer`
and `RdtDilemma` are checked for safety only. Where a thread competes for a lock that is not fair, weak
fairness would let it wait for ever, since others take the lock again and again.
Only `BufUser` needs more, for its producers: strong fairness of a put that completes, of
passing `empty` and `mutex`, and of being the one whom `notify` wakes. What justifies it is
that a producer sleeps for 10 ms and more after each put, while the consumer drains
the buffer, so that the same other producer does not take every slot and every notify for ever. The transfers' channels
need no fairness: a lost datagram is a choice of the model, and every
datagram that is not lost is delivered as the reading thread runs on.

**Mutants.** For each property of each passing run `PROJECT.json` names a mutant, an
operator beside the definition it replaces ("Mutant:" in its comment): a
plausible mistake at that place of the code, such as a `while` that is an `if`,
a pointer that does not wrap, a `notify` too few, a FINACK not lingered for.
With the mutant in place TLC violates the property.

## 4. Hazards

The list in `PROJECT.json` names what a unit test would hardly reach, each at its
line with the properties that watch it. One has none: a repeated end marker overtaken by the next
client's packets, which would end that client's run with the wrong total. It takes a network that
reorders from one program run to the next, and nothing in the code claims to withstand it.
Others are watched by properties that hold only under a condition, and the condition is the
point:

- `SuccessIsTrue` needs the sender before to have come as far as its FIN; without
  that it is false (finding 2).
- `GapsExact` shows what "gaps in sequence" is: what is missing below `expected`,
  plus the packets that came late. So the sentence of chapter 7's README that `gaps`
  "should agree" with the loss "and does" is right on a network that keeps the order, if
  the stack refuses nothing and the last packets are not among the lost: refused
  packets leave gaps and are not sent, and what is lost at the end leaves no gap.
- `ReportTrue` allows a report to mix two clients if every end marker of the first
  was lost and the second came within the idle time; it speaks of a network that keeps the
  order.
- `SemaphoresAccount` is about who holds what, and holds in the deadlocked state as well; that the
  circle closes only around the whole table, and never with the room, is `DeadlockIsTotal`, and
  that everybody goes on `NobodyStuck`.
- The successive senders of `RdtServer` are checked on channels that keep the order
  (`JITTER = 0.0` in the code): acknowledgements that overtake one another, or data behind its own
  FIN, are met only within one transfer (`GoBackN`, `SelectiveRepeat`), not across two.
- `AccessExclusive` and `NobodyOverslept` of chapter 4 say nothing of fairness between readers and
  writers: `AllowReader` as the code has it is part of the model, that a waiting writer gets in
  before later readers no property of its own.
- `NoLostWakeup` is checked with two producers and one consumer, the program's; that
  another consumer is not left asleep either is in the theorem, for any sets of both.

## 5. Proofs

| Theorem | Says | Argument |
|---|---|---|
| `GoBackN_proofs!Safety` | `TypeOK`, `DatagramsTrue`, `WindowBrackets`, `NothingMissing` always hold | `Inv`, one lemma per action |
| `GoBackN_proofs!Reliable` | go-back-N implements `ReliableTransfer` | each step maps to a step or a stutter, using `Inv` |
| `SelectiveRepeat_proofs!Safety` | `TypeOK`, `WindowBrackets` (base the oldest not acknowledged), `BufferWithinWindow`, `NothingMissing` always hold | `Inv`: what is acknowledged the receiver has, what is outstanding has a timer |
| `SelectiveRepeat_proofs!Reliable` | selective repeat implements `ReliableTransfer` | as above; one arrival may deliver a whole run of the buffer |
| `GoBackN_proofs!RepeatsPaidByLoss` | `resent <= Window * lost` always holds: what `ResendsPaidByLoss` says of this protocol | `Flow`: the packets on their way are consecutive and each ACK answers one (`Pipeline`), until a loss breaks that and pays for a window |
| `SelectiveRepeat_proofs!RepeatsPaidByLoss` | `resent <= lost` always holds, the same for this protocol | `Accounted`: each packet outstanding is on its way once, as DATA or as its SACK, or `Missing` and paid for by a loss |
| `RdtServer_proofs!Reliable` | stop-and-wait implements `ReliableTransfer` | `AloneInv`: the sender is at the receiver's place or one packet behind it |
| `RdtServer_proofs!RepeatsPaidByLoss` | `resent <= lost` always holds of stop-and-wait | `OneBetween`: at most one datagram is between the ends, and none only after a loss |
| `RdtServer_proofs!Safety` | `SuccessIsTrue`, `NeverTwoAhead`, `ReportsWholeRuns` always hold | `Inv`, about the one `Line` of datagrams the receiver has yet to read |
| `RdtParts_proofs!Safety` | `HalfIsSafe` always holds | `Inv`: the receiver's place lies in the sender's window, so that a number names one packet |
| `RdtParts_proofs!Explained` | `FailureExplained` always holds, if no width exceeds N | the same `Inv`, up to the first wrong packet |
| `RdtParts_proofs!WidthsTold` | `ScriptTellsWidths` always holds, if also the transfer runs past the wrap and the round limit leaves it the time | `Script`: what comes is next in the stream or old, each round sends something new or hears of something new, and packet 0 is held in the place of packet N |
| `RdtParts_proofs!Awake` | `NeverOverslept` always holds of the class `LossyChannel` | `ChannelInv`: the wake-up time is at most every release time in the heap |
| `RdtParts_proofs!ChannelIsLink` | `ImplementsLink`: the class is the channel of `RdtCommon` | `ChannelInv`: each datagram is in one place, so that every step but `sendto` and `recvfrom` leaves the set between the ends alone; without jitter heap, hand and socket hold them in the order sent |
| `UdpFlood_proofs!Safety` | `GapsExact`, `ReportTrue` always hold | `RunCounts` in any order of arrival; `InOneLine` when the network keeps it |
| `BufUser_proofs!Safety` | the monitor's ring is consistent and nobody sleeps who could run | `TypeOK`, `RingConsistent` and `NoLostWakeup` are inductive together |
| `BufUser_proofs!Refinement` | the monitor implements `BoundedBuffer` | `Contents` reads the queue off the ring; `PutAppends`, `GetTakesHead` |
| `BufUser_proofs!ProgramSafety` | `NoLostWakeup`, `UnitsAccounted`, `NobodyOverslept`, `MessagesInOrder`, `NothingLeftBehind` always hold of the whole program | `UserInv`: either buffer's invariant, and an account of the line of messages |
| `BufUser_proofs!ProgramRefinement` | `ImplementsFifo` and `SemImplementsFifo` for the whole program | a put takes effect when it stores, a get when it fetches; the thread in between is in the `mutex` |
| `ForkMain_proofs!Safety` | `TypeOK`, `FreeIsExact`, `NeighboursExclude`, `WaitsForNeighbour` always hold of the monitor | the four are inductive together; `Sides` for the arithmetic of the circle |
| `ForkMain_proofs!MonitorChosen` | `MonitorExact` always holds of the whole program | while `choice` is the monitor, a step of the program is one of the monitor |
| `ForkMain_proofs!SemaphoresChosen` | `SemaphoresAccount` always holds of it | `SemInv`: each fork is on the table or with one philosopher, the room counts the empty seats; `Served`: sleepers only where each free unit has a taker awake |
| `ForkMain_proofs!CircleIsDeadlock` | `DeadlockIsTotal` always holds of it, for an odd table | a circle of waiters contains every second seat, and at an odd table that is every seat |
| `RWUser_proofs!Safety` | `AccessExclusive`, `NobodyOverslept` always hold | `Inv`; `CountMoves` for a thread that joins or leaves a counted set |
| `RWUser_proofs!Statistics` | `TotalsExact`, `OverlapSeen` always hold | `TotalsInv`: a writer between the two halves of `+=` has loaded the present total; the readers inside are what `active_readers` says, so a maximum taken from it was there |

*Assumptions.* Each is an `ASSUME` of the module that declares the constant, or a hypothesis
of the theorem.

- Transfers: `RdtAssumption`, `ReceiverAssumption`, `WindowAssumption`, and `Mode = "gbn"` or
  `"sr"`, since the sender and the receiver must speak the same dialect (`MispairedStalls`
  shows what happens otherwise). They allow every number of packets, window, number of losses,
  capacity and limit on retries, with and without jitter.
- Server: also `Jitter = FALSE`, as `JITTER = 0.0` in `rdt_common.py:27`. With
  jitter TLC finds `SuccessIsTrue` violated: a duplicate that is overtaken by the FIN is read
  as the beginning of the next transfer.
- Repetitions: `Prompt`, the timeout longer than the round trip, as the constants of `rdt_common.py`
  are, without which a late answer is repeated for nothing. `lost` counts the datagrams a channel drops by choice,
  so that nothing may be dropped for want of room: `Capacity` is at least a window for selective
  repeat and two windows for go-back-N. Go-back-N also needs `Jitter = FALSE`: a packet that overtakes
  another makes the receiver refuse it, and a window is repeated with nothing lost.
- Channel: the assumptions of `LossyChannel`; any sets of delays and jitters, any number of sends.
- Dilemma: `DilemmaAssumption` (N positive). `WidthsTold` takes the widths from 1 to N, more packets than
  numbers (`COUNT` is "enough to run past the wrap") and `2 * Count <= RoundLimit + 1`, that is 18 <= 41 in the
  code: a bound under which no width up to N/2 is cut short, not the least one; and with no more packets than
  numbers a wide window meets no number twice. `Explained` also takes every width to be at most N. TLC
  finds the counterexample beyond: with N = 8 and W = 9 the window itself holds two packets with one
  number, and the first wrong packet can be the later of them. `main` chooses W = 4 and
  W = 7 by itself, but takes any width as its argument.
- Flood: `FloodAssumption`, positive numbers of packets, end markers and places in the queue.
- Buffer: for the monitor alone a positive size and disjoint sets of producers and consumers,
  neither of which needs to be finite. For the program `BufUserAssumption`: any positive number of
  producers and one consumer, as `main` makes them, `Stop` not a message, and more stamps than can be in
  play at a time.
- Philosophers: `TableAssumption`, at least two. `CircleIsDeadlock` needs an odd number (the program
  has five): at an even table the seats left and right of one another form two circles,
  and either of them can close alone (finding 1).
- Readers and writers: `RWAssumption` and `RWUserAssumption`, finite disjoint sets, any of the threads
  may be one whose operation raises.

*Why the invariants are stronger than what they prove.*

- *Go-back-N.* That the sender's `base` never passes the receiver's `expected` does not survive the
  arrival of an acknowledgement whose number says otherwise. So `Inv` also says that every datagram
  on its way is true: an ACK names at most `expected`, a DATA packet was sent, a FIN means that
  all was acknowledged (`DatagramsTrue`). The last holds only because the sender reaches
  `_finish` with `base = Count`, which is a conjunct as well. Truth is lasting, because the counters
  only grow (`StaysTrue`): so jitter, loss and duplication make no difference.
- *Selective repeat.* There "true" is packet by packet: a SACK names one the receiver has, delivered or
  in its buffer (`Has`). From `acked` in what the receiver has, and `base` the first number not in
  `acked`, follow the brackets and the width of the buffer. `TimersRun` says that each outstanding
  packet is in `order`, so that a timeout always finds one to repeat.
- *Server.* What is left of earlier senders and what the present one has sent are read in one
  `Line`. Wherever a death cuts it, FINs stand together, and the next FIN finds
  the receiver with all packets or with none (`ReceiverPlace`, `EndIsNear`). `Credit` compares the
  sender's `seq` with what was delivered of it; it holds unless the sender before broke off.
- *Dilemma.* `HalfIsSafe` speaks of the packets delivered, while the code compares numbers
  modulo N. `Facts` connects the two: `base` is at most the receiver's next packet and what arrives lies less
  than a window beyond it. With W <= N two packets in that range differ in number, so that a
  wrong one is older; with W <= N/2 an older one is outside the window (`Ahead`).
- *Scripted loss.* That a wide window fails is a statement about a state long before the failure. In the first
  round every packet arrives and nothing is heard of it (`Untold`); in the second packet 0 is sent again (`Told`)
  and falls into the window, where it stays (`Trapped`) until the stream comes to packet N or is already out
  of order. That a narrow one gets there in time is the count of rounds in `Spent`: `rounds <= base + next`, but
  for a packet or an answer in transit that will move `base`.
- *Repetitions.* An inequality between two counters is not inductive, because the loss comes before the
  repetition it pays for. So the invariants say what is between the ends: `OneBetween` for
  stop-and-wait; `Accounted` for selective repeat, packet by packet, so that the `Missing` ones are no more than
  the losses not yet paid out; `Flow` for go-back-N, where one loss makes everything behind
  it useless, so that it is charged to the whole window, and `Pipeline` bounds the numbers in both
  channels.
- *Channel.* `NeverOverslept` alone survives every step but `sendto`, which must wake the pump
  whenever its datagram becomes the first. For `ImplementsLink` the abstract channel is the ascending list of
  a set, so `EachOnce` makes sending an insertion at the end and receiving the removal of one; that
  the one removed is the first without jitter is `Orderly`, which needs every release
  time in the heap to be at most `now + delay`, and the hand to be older than the heap.
- *Flood.* `received + gaps = expected + late` needs nothing of the network, and
  `GapsExact` follows by counting. `ReportTrue` needs the order: what was reported, counted,
  is queued and comes next are one ascending line (`InOneLine`), so that a
  marker still to come is behind its packets and the run it ends has no stranger's. Each packet of
the client on that line is lost, counted in the run, still queued, or in `idled`, which gives
the equation for the report.
- *Monitor buffer.* `RingConsistent` says that exactly the `used` slots from `out` on are filled and
  that `in` lies `used` slots beyond; the `Ring` lemmas hold the modular arithmetic.
- *Semaphore buffer.* No variable holds the number of items. A unit of `empty` or
  `full` that nobody holds is with a thread between two of its statements, so `Accounts` counts these
  threads, and `SemRing` fixes the ring relative to them: an item not yet counted by `full`
  is stored already, one whose unit is taken may still be there. `Served` says that
  sleepers are no more than what they wait for lacks.
- *Program around the buffer.* `Account` follows each producer's numbers from the one the consumer
  reads next, along the line, to the last one put; `remaining` is the producers yet to say
  `Stop` and the `Stop`s in the line.
- *Philosophers.* `NeighboursExclude` speaks of who eats while `pick_up` looks at `free[i]`, so
  `FreeIsExact` has to link the two. With the semaphores the value says only how many, so `ForksExact` also
  says who; and since `V` wakes one thread while a newcomer may take the unit, `Served` has to hold
  of every fork and of the room between any two statements.
- *Readers and writers.* The exact counters of `AccessExclusive` link the guards, which read counters,
  to who is inside. That the two halves of `total_writes += 1` are safe without a lock
  of their own follows from there being one writer inside (`WriterAlone`), so `LoadedFresh` rests on
  `Inv`. So does `OverlapSeen`: readers in `do_read` are among those counted, and those counted are inside.

*Type invariants* are part of the inductive invariants; no run spends a property on them.

*Only model-checked.*

- Liveness and ENABLED (out of the prover's reach): `EndsSomehow`, `Terminates`,
  `NobodyStuck`, `EverybodyStops`, `EverythingArrives`, `EveryRunReported`, `EveryPairReliable`,
  `MispairedStalls`.
- `ResendsPaidByLoss` as the run states it, over all three protocols at once: `RdtCompare` names them by
  parameterised instances, which the prover does not read. It is proved protocol by protocol, three times
  `RepeatsPaidByLoss`.

## 6. Findings

1. `forks_sem.py` locks the wrong forks. The semaphores of philosopher i are those of index
   i-1 and i+1, shared with the philosophers two seats away, not with the neighbours:
   with five philosophers two neighbours eat together (`ForksSem_neighbours`). With the
   monitor they do not: `pick_up` counts eating neighbours (`MonitorExact`). A consequence
   for even tables, which the program does not have: there are two separate circles of
   n/2, and n-1 seats do not keep one of them from closing, contrary to
   `forks_sem.py:53-55`.
2. `rdt_receiver.py` "serves one transfer after another", but resets its counters only
   after a FIN. If a sender is killed in the middle, the next one's first packets
   are taken for duplicates, acknowledged as "I have everything below n", and never
   delivered; it reports success (`RdtServer_abandoned`).

## 7. Not modelled

`01_thread_creation`: nothing is shared; starting and joining threads is part of
the drivers of chapters 2 to 4. `05_tcp_sockets`: the stream, the reassembly of lines
(`makefile`) and the queue of connections belong to the library and the kernel, and the code keeps no
variable beyond the line it answers; a model would describe those, not the program. `06_udp_sockets`: no state.
`08_quic_sockets`: the state is aioquic's; each handler reads a stream to its end and answers it, sharing nothing
with the others. Everywhere: output, formatting, random
delays (any time may pass between two steps), argument parsing, payloads.
Also the drift of the clock and threads that die by a signal. `RdtServer` runs stop-and-wait
senders only; go-back-N and selective repeat differ in what they leave behind only by
more of it.

## 8. Plan

The models are complete but for section 7, and every safety property and every refinement that
the runs check is proved (`ResendsPaidByLoss` protocol by protocol). What remains is outside the prover's reach (liveness, section 5). When the
code changes, the order of work is: the definition and its lines in `map`, its run, then the lemma
of that action in the proof module; the other lemmas do not mention it.
