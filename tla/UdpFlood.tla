------------------------------ MODULE UdpFlood ------------------------------
(***************************************************************************)
(* Chapter 7: udp_flood_client.py pushes numbered packets at               *)
(* udp_flood_server.py, which counts what arrives and reports the loss.    *)
(*                                                                         *)
(* One client after the other runs, each a session.  Between the two ends  *)
(* there is one queue, the network and the kernel's receive buffer: a      *)
(* datagram that finds it full, or that the network loses, is gone.        *)
(***************************************************************************)
EXTENDS Naturals, SequencesExt

CONSTANTS
  Count,       \* COUNT: packets a client wants to send
  EndRepeats,  \* END_REPEATS
  Sessions,    \* bound: clients that run
  Capacity,    \* bound: datagrams the queue holds
  MaxRepeats   \* bound: datagrams a network that duplicates delivers again

ASSUME FloodAssumption ==
  /\ Count \in Nat \ {0}
  /\ EndRepeats \in Nat \ {0}
  /\ Sessions \in Nat
  /\ Capacity \in Nat \ {0}
  /\ MaxRepeats \in Nat

VARIABLES
  orderly,  \* the network keeps the order and duplicates nothing
  queue,    \* datagrams between client and server, in the order sent
  repeats,  \* duplicates delivered so far
  session,  \* the client that runs, or ran last; 0 before the first
  pc,       \* that client: "data", "end" or "exited"
  seq,      \* the next sequence number, then the number of end markers sent
  sent,     \* sent in send_all: packets the stack accepted
  dropped,  \* history: packets of this session that were lost
  heard,    \* history: sessions with an end marker that was not lost
  active,   \* the server has a Run: run is not None
  run,      \* that Run
  report,   \* what report() was just called with by an end marker, if by one
  reported, \* history: sessions whose end marker ended a run
  idled     \* history: packets of the runs that the idle timeout ended

clientVars == <<session, pc, seq, sent, dropped, heard>>
serverVars == <<active, run, report, reported, idled>>
vars == <<orderly, queue, repeats, clientVars, serverVars>>

(* Run.__init__; seen is a history of the packets counted. *)
NewRun == [received |-> 0, expected |-> 0, gaps |-> 0, late |-> 0, seen |-> {}]

Init ==
  /\ orderly \in BOOLEAN
  /\ queue = <<>>
  /\ repeats = 0
  /\ session = 0 /\ pc = "exited"
  /\ seq = 0 /\ sent = 0 /\ dropped = 0 /\ heard = {}
  /\ active = FALSE /\ run = NewRun
  /\ report = <<>> /\ reported = {} /\ idled = {}
-----------------------------------------------------------------------------
(* A new client: main up to the loop of send_all. *)
StartClient ==
  /\ pc = "exited"
  /\ session < Sessions
  /\ session' = session + 1
  /\ pc' = "data"
  /\ seq' = 0 /\ sent' = 0 /\ dropped' = 0
  /\ UNCHANGED <<orderly, queue, repeats, heard, serverVars>>

Data(number) == [kind |-> "DATA", session |-> session, number |-> number]

(* The end marker names the total; lost is for the properties only. *)
End == [kind |-> "END", session |-> session, number |-> sent, lost |-> dropped]

NextPacket ==
  /\ pc = "data"
  /\ seq' = IF seq + 1 < Count THEN seq + 1 ELSE 0
  /\ pc' = IF seq + 1 < Count THEN "data" ELSE "end"
  /\ UNCHANGED <<orderly, repeats, session, heard, serverVars>>

(* send_all: the stack takes the packet, and it reaches the queue or not. *)
SendData ==
  /\ NextPacket
  /\ sent' = sent + 1
  /\ \/ /\ Len(queue) < Capacity
        /\ queue' = Append(queue, Data(seq))
        /\ UNCHANGED dropped
     \/ /\ dropped' = dropped + 1
        /\ UNCHANGED queue

(* Mutant: a packet the stack refuses is counted as sent. *)
RefusedCounted ==
  /\ NextPacket
  /\ sent' = sent + 1
  /\ UNCHANGED <<queue, dropped>>

(* send_all: the stack refuses the packet, which then was never sent. *)
Refused == NextPacket /\ UNCHANGED <<queue, sent, dropped>>

(* One of the END_REPEATS end markers; after the last the client exits. *)
SendEnd ==
  /\ pc = "end"
  /\ seq' = seq + 1
  /\ pc' = IF seq' < EndRepeats THEN "end" ELSE "exited"
  /\ \/ /\ Len(queue) < Capacity
        /\ queue' = Append(queue, End)
        /\ heard' = heard \cup {session}
     \/ UNCHANGED <<queue, heard>>
  /\ UNCHANGED <<orderly, repeats, session, sent, dropped, serverVars>>
-----------------------------------------------------------------------------
(* recvfrom: the next datagram, or any of them if the network is not orderly. *)
Received(i) ==
  /\ i \in DOMAIN queue
  /\ orderly => i = 1
  /\ \/ /\ queue' = RemoveAt(queue, i)
        /\ UNCHANGED repeats
     \/ /\ ~orderly
        /\ repeats < MaxRepeats
        /\ repeats' = repeats + 1
        /\ UNCHANGED queue
  /\ UNCHANGED <<orderly, clientVars>>

(* Mutant: a late packet moves expected on like any other. *)
CountedLateToo(d) ==
  [run EXCEPT
     !.received = @ + 1,
     !.expected = IF d.number > @ THEN d.number + 1 ELSE @ + 1,
     !.gaps = @ + IF d.number > run.expected THEN d.number - run.expected ELSE 0,
     !.late = @ + IF d.number < run.expected THEN 1 ELSE 0,
     !.seen = @ \cup {<<d.session, d.number>>}]

(***************************************************************************)
(* Run.data: a jump ahead counts what it skips as gaps, and a number below *)
(* expected is late.                                                       *)
(***************************************************************************)
Counted(d) ==
  [run EXCEPT
     !.received = @ + 1,
     !.expected = IF d.number >= @ THEN d.number + 1 ELSE @,
     !.gaps = @ + IF d.number > run.expected THEN d.number - run.expected ELSE 0,
     !.late = @ + IF d.number < run.expected THEN 1 ELSE 0,
     !.seen = @ \cup {<<d.session, d.number>>}]

(* A data packet, which begins a run if there is none. *)
ServeData ==
  /\ \E i \in DOMAIN queue :
       /\ queue[i].kind = "DATA"
       /\ Received(i)
       /\ run' = Counted(queue[i])
  /\ active' = TRUE
  /\ report' = <<>>
  /\ UNCHANGED <<reported, idled>>

(***************************************************************************)
(* An end marker reports the run and ends it; without a run it is one of   *)
(* the repeats and is ignored.                                             *)
(***************************************************************************)
ServeEnd ==
  /\ \E i \in DOMAIN queue :
       /\ queue[i].kind = "END"
       /\ Received(i)
       /\ IF active
          THEN /\ report' = <<[end |-> queue[i], run |-> run,
                               again |-> queue[i].session \in reported]>>
               /\ reported' = reported \cup {queue[i].session}
          ELSE report' = <<>> /\ UNCHANGED reported
  /\ active' = FALSE
  /\ run' = NewRun
  /\ UNCHANGED idled

(* Mutant: an idle run is reported, but not ended. *)
IdleReportRunsOn ==
  /\ active
  /\ queue = <<>>
  /\ report' = <<>>
  /\ idled' = idled \cup run.seen
  /\ UNCHANGED <<orderly, queue, repeats, clientVars, active, run, reported>>

(***************************************************************************)
(* Nothing came for IDLE_TIMEOUT: the end markers were all lost, or the    *)
(* client still runs and the network has been down for so long.            *)
(***************************************************************************)
IdleReport ==
  /\ active
  /\ queue = <<>>
  /\ idled' = idled \cup run.seen
  /\ active' = FALSE
  /\ run' = NewRun
  /\ report' = <<>>
  /\ UNCHANGED <<orderly, queue, repeats, clientVars, reported>>

ClientNext == StartClient \/ SendData \/ Refused \/ SendEnd

ServerNext == ServeData \/ ServeEnd \/ IdleReport

Next == ClientNext \/ ServerNext

(* Both programs run on when they can; datagrams and timeouts come to the server. *)
Fairness == WF_vars(ClientNext) /\ WF_vars(ServerNext)

Spec == Init /\ [][Next]_vars /\ Fairness
-----------------------------------------------------------------------------
SessionsOf(r) == {p[1] : p \in r.seen}

NumbersOf(r) == {p[2] : p \in r.seen}

IdledOf(s) == {p \in idled : p[1] = s}

(***************************************************************************)
(* What "gaps in sequence" counts, whatever the network does: the numbers  *)
(* below expected that are missing, plus one for every packet that came    *)
(* late rather than twice.  So it is never less than what is missing, and  *)
(* equal to it only if nothing was overtaken.                              *)
(***************************************************************************)
GapsExact ==
  LET missing == (0..(run.expected - 1)) \ NumbersOf(run)
      twice == run.received - Cardinality(NumbersOf(run))
  IN run.gaps = Cardinality(missing) + run.late - twice

(***************************************************************************)
(* On a network that keeps the order, the report that an end marker causes *)
(* is about that client: the loss is what was lost and what the idle       *)
(* timeout had reported of it before, the gaps are no more than what the   *)
(* server misses, and the repeated markers cause no other report.  Packets *)
(* of another client are counted in only if that client's markers were all *)
(* lost.                                                                   *)
(***************************************************************************)
ReportTrue ==
  orderly => \A r \in ToSet(report) :
    /\ ~r.again
    /\ (SessionsOf(r.run) \ {r.end.session}) \cap heard = {}
    /\ SessionsOf(r.run) = {r.end.session} =>
         /\ r.end.number - r.run.received =
              r.end.lost + Cardinality(IdledOf(r.end.session))
         /\ r.run.gaps <= Count - r.run.received

(***************************************************************************)
(* Every run is reported, even if all its end markers are lost.            *)
(***************************************************************************)
EveryRunReported == active ~> ~active
=============================================================================
