------------------------------ MODULE DramSim3 ------------------------------
(***************************************************************************)
(* The memory channels (src/src/dram/dramsim3.cpp) behind the arbiter, and *)
(* the wrapper of the DRAM library they share (dramsim3_wrapper.h, .cpp).  *)
(* The library takes a transaction, and later calls back once for it, in   *)
(* any order; it refuses a read only when a queue of it may be full.  The  *)
(* wrapper hands a callback to the channel the library maps the address    *)
(* to.  failed says that an assertion of the code failed.                  *)
(***************************************************************************)
EXTENDS Naturals, Sequences, FiniteSets, Functions

CONSTANTS
  Chans,      \* the channels
  Packets,    \* the packets the arbiter can send
  Addrs,      \* their addresses
  PktAddr,    \* pkt->getAddr()
  PktChan,    \* the channel whose port the arbiter sends the packet on
  PktWrite,   \* pkt->isWrite()
  ChanOf,     \* GetChannel(addr) of the library
  QueueSize,  \* reads a channel of the library takes without refusing
  Polite      \* the arbiter does not send on a port that owes it a retry

ASSUME ChannelAssumption ==
  /\ PktAddr \in [Packets -> Addrs]
  /\ PktChan \in [Packets -> Chans]
  /\ PktWrite \in [Packets -> BOOLEAN]
  /\ ChanOf \in [Addrs -> Chans]
  /\ QueueSize \in Nat \ {0}
  /\ Polite \in BOOLEAN

VARIABLES
  outstandingReads,      \* [chan][addr] -> queue of reads in the library
  outstandingWrites,     \* [chan][addr] -> queue of writes in the library
  nbrOutstandingReads,   \* [chan]
  nbrOutstandingWrites,  \* [chan]
  responseQueue,         \* [chan] -> queue of read packets to return
  retryReq,              \* [chan]
  retryResp,             \* [chan]
  tickScheduled,         \* [chan] -> tickEvent.scheduled()
  respScheduled,         \* [chan] -> sendResponseEvent.scheduled()
  failed,                \* an assertion failed
  \* The peers:
  dramReads,             \* [addr] -> reads in the library
  dramWrites,            \* [addr] -> writes in the library
  owed                   \* [chan] -> the arbiter was refused and waits

readVars  == <<outstandingReads, nbrOutstandingReads>>
writeVars == <<outstandingWrites, nbrOutstandingWrites>>
respVars  == <<responseQueue, retryResp, respScheduled>>
reqVars   == <<retryReq, tickScheduled, owed>>
dramVars  == <<dramReads, dramWrites>>
vars == <<readVars, writeVars, respVars, reqVars, dramVars, failed>>

PerChan(v) == [c \in Chans |-> v]
PerAddr(v) == [c \in Chans |-> [a \in Addrs |-> v]]

Init ==
  /\ outstandingReads = PerAddr(<<>>) /\ outstandingWrites = PerAddr(<<>>)
  /\ nbrOutstandingReads = PerChan(0) /\ nbrOutstandingWrites = PerChan(0)
  /\ responseQueue = PerChan(<<>>)
  /\ retryReq = PerChan(FALSE) /\ retryResp = PerChan(FALSE)
  /\ tickScheduled = PerChan(FALSE) /\ respScheduled = PerChan(FALSE)
  /\ failed = FALSE
  /\ dramReads = [a \in Addrs |-> 0] /\ dramWrites = [a \in Addrs |-> 0]
  /\ owed = PerChan(FALSE)

------------------------------------------------------------------------------
(* The library, as the wrapper uses it.                                    *)

\* Faulty: every callback goes to the same channel.
GetChannel_First(a) == CHOOSE c \in Chans : TRUE

GetChannel(a) == ChanOf[a]

\* The transactions of one kind, counted in n, that channel c holds.
Held(n, c) == UNION {{a} \X (1 .. n[a]) : a \in {b \in Addrs : ChanOf[b] = c}}
Pending(n, c) == Cardinality(Held(n, c))

\* The library refuses a read only when the read queue is full, which holds some
\* of the channel's unfinished reads.  It completes a write before the write
\* leaves the write buffer, so a write may be refused at any time.
MayRefuse(p) == PktWrite[p] \/ Pending(dramReads, ChanOf[PktAddr[p]]) >= QueueSize

AddTransaction(p) ==
  IF PktWrite[p]
  THEN dramWrites' = [dramWrites EXCEPT ![PktAddr[p]] = @ + 1] /\ UNCHANGED dramReads
  ELSE dramReads' = [dramReads EXCEPT ![PktAddr[p]] = @ + 1] /\ UNCHANGED dramWrites

\* The program still refers to p: the arbiter does not send it a second time.
Live(p) ==
  \E c \in Chans : \/ p \in Range(outstandingReads[c][PktAddr[p]])
                   \/ p \in Range(outstandingWrites[c][PktAddr[p]])
                   \/ p \in Range(responseQueue[c])

------------------------------------------------------------------------------
(* Requests.                                                               *)

Record(c, a, p) ==
  IF PktWrite[p]
  THEN /\ outstandingWrites' = [outstandingWrites EXCEPT ![c][a] = Append(@, p)]
       /\ nbrOutstandingWrites' = [nbrOutstandingWrites EXCEPT ![c] = @ + 1]
       /\ UNCHANGED readVars
  ELSE /\ outstandingReads' = [outstandingReads EXCEPT ![c][a] = Append(@, p)]
       /\ nbrOutstandingReads' = [nbrOutstandingReads EXCEPT ![c] = @ + 1]
       /\ UNCHANGED writeVars

RequestAccepted(p) ==
  /\ ~failed /\ ~Live(p) /\ (Polite => ~owed[PktChan[p]])
  /\ Record(PktChan[p], PktAddr[p], p)
  /\ AddTransaction(p)
  /\ UNCHANGED <<respVars, reqVars, failed>>

\* schedule asserts that tickEvent is not scheduled yet.
RequestRefused(p) ==
  LET c == PktChan[p] IN
    /\ ~failed /\ ~Live(p) /\ (Polite => ~owed[c]) /\ MayRefuse(p)
    /\ IF tickScheduled[c]
       THEN failed' = TRUE /\ UNCHANGED reqVars
       ELSE /\ tickScheduled' = [tickScheduled EXCEPT ![c] = TRUE]
            /\ retryReq' = [retryReq EXCEPT ![c] = TRUE]
            /\ owed' = [owed EXCEPT ![c] = TRUE]
            /\ UNCHANGED failed
    /\ UNCHANGED <<readVars, writeVars, respVars, dramVars>>

\* Faulty: the retry is not sent.
Tick_NoRetry(c) ==
  /\ ~failed /\ tickScheduled[c]
  /\ tickScheduled' = [tickScheduled EXCEPT ![c] = FALSE]
  /\ UNCHANGED <<readVars, writeVars, respVars, failed, dramVars, retryReq, owed>>

\* tickEvent: the arbiter's handleReqRetry only schedules its own event.
Tick(c) ==
  /\ ~failed /\ tickScheduled[c]
  /\ tickScheduled' = [tickScheduled EXCEPT ![c] = FALSE]
  /\ retryReq' = [retryReq EXCEPT ![c] = FALSE]
  /\ owed' = [owed EXCEPT ![c] = @ /\ ~retryReq[c]]
  /\ UNCHANGED <<readVars, writeVars, respVars, failed, dramVars>>

------------------------------------------------------------------------------
(* Completions and responses.                                              *)

AccessAndRespond(c, p) ==
  /\ responseQueue' = [responseQueue EXCEPT ![c] = Append(@, p)]
  /\ respScheduled' = [respScheduled EXCEPT ![c] = @ \/ ~retryResp[c]]
  /\ UNCHANGED retryResp

\* Faulty: the youngest read of the address is answered and the oldest removed.
ReadComplete_Youngest(c, a) ==
  LET q == outstandingReads[c][a] IN
    IF q = <<>> \/ nbrOutstandingReads[c] = 0
    THEN failed' = TRUE /\ UNCHANGED <<readVars, respVars>>
    ELSE /\ outstandingReads' = [outstandingReads EXCEPT ![c][a] = Tail(@)]
         /\ nbrOutstandingReads' = [nbrOutstandingReads EXCEPT ![c] = @ - 1]
         /\ AccessAndRespond(c, q[Len(q)])
         /\ UNCHANGED failed

ReadComplete(c, a) ==
  LET q == outstandingReads[c][a] IN
    IF q = <<>> \/ nbrOutstandingReads[c] = 0
    THEN failed' = TRUE /\ UNCHANGED <<readVars, respVars>>
    ELSE /\ outstandingReads' = [outstandingReads EXCEPT ![c][a] = Tail(@)]
         /\ nbrOutstandingReads' = [nbrOutstandingReads EXCEPT ![c] = @ - 1]
         /\ AccessAndRespond(c, Head(q))
         /\ UNCHANGED failed

\* Faulty: the counter goes down twice; it does not go down.
WriteComplete_Twice(c, a) ==
  /\ outstandingWrites' = [outstandingWrites EXCEPT ![c][a] = Tail(@)]
  /\ nbrOutstandingWrites' = [nbrOutstandingWrites EXCEPT ![c] = @ - 2]
  /\ UNCHANGED failed
WriteComplete_KeepCount(c, a) ==
  /\ outstandingWrites' = [outstandingWrites EXCEPT ![c][a] = Tail(@)]
  /\ UNCHANGED <<nbrOutstandingWrites, failed>>

WriteComplete(c, a) ==
  IF outstandingWrites[c][a] = <<>> \/ nbrOutstandingWrites[c] = 0
  THEN failed' = TRUE /\ UNCHANGED writeVars
  ELSE /\ outstandingWrites' = [outstandingWrites EXCEPT ![c][a] = Tail(@)]
       /\ nbrOutstandingWrites' = [nbrOutstandingWrites EXCEPT ![c] = @ - 1]
       /\ UNCHANGED failed

\* The wrapper's tick: the library completes a transaction of address a, and the
\* wrapper calls back the channel the address maps to.
ReadCallback(a) ==
  /\ ~failed /\ dramReads[a] > 0
  /\ dramReads' = [dramReads EXCEPT ![a] = @ - 1]
  /\ ReadComplete(GetChannel(a), a)
  /\ UNCHANGED <<writeVars, reqVars, dramWrites>>
WriteCallback(a) ==
  /\ ~failed /\ dramWrites[a] > 0
  /\ dramWrites' = [dramWrites EXCEPT ![a] = @ - 1]
  /\ WriteComplete(GetChannel(a), a)
  /\ UNCHANGED <<readVars, respVars, reqVars, dramReads>>

\* sendResponse, with the peer's answer ok.
SendResponse(c, ok) ==
  IF responseQueue[c] = <<>>
  THEN failed' = TRUE /\ UNCHANGED <<responseQueue, retryResp>>
  ELSE /\ responseQueue' = IF ok THEN [responseQueue EXCEPT ![c] = Tail(@)]
                                 ELSE responseQueue
       /\ retryResp' = [retryResp EXCEPT ![c] = ~ok]
       /\ UNCHANGED failed

SendResponseEvent(c, ok) ==
  /\ ~failed /\ respScheduled[c]
  /\ respScheduled' = [respScheduled EXCEPT ![c] = FALSE]
  /\ IF retryResp[c]
     THEN failed' = TRUE /\ UNCHANGED <<responseQueue, retryResp>>
     ELSE SendResponse(c, ok)
  /\ UNCHANGED <<readVars, writeVars, reqVars, dramVars>>

RecvRespRetry(c, ok) ==
  /\ ~failed /\ retryResp[c]
  /\ SendResponse(c, ok)
  /\ UNCHANGED <<respScheduled, readVars, writeVars, reqVars, dramVars>>

------------------------------------------------------------------------------
Next ==
  \/ \E p \in Packets : RequestAccepted(p) \/ RequestRefused(p)
  \/ \E a \in Addrs : ReadCallback(a) \/ WriteCallback(a)
  \/ \E c \in Chans : \/ Tick(c)
                      \/ \E ok \in BOOLEAN : SendResponseEvent(c, ok) \/ RecvRespRetry(c, ok)

Spec == Init /\ [][Next]_vars

\* Scheduled events are serviced, the library completes what it accepted, and
\* the arbiter, which never refuses twice for ever, retries.
Fairness ==
  /\ \A c \in Chans : WF_vars(Tick(c)) /\ WF_vars(SendResponseEvent(c, TRUE))
                      /\ WF_vars(RecvRespRetry(c, TRUE))
  /\ \A a \in Addrs : WF_vars(ReadCallback(a)) /\ WF_vars(WriteCallback(a))
FairSpec == Spec /\ Fairness

------------------------------------------------------------------------------
(* Properties.                                                             *)

\* The queues, flags and counters have the types of dramsim3.h; the unsigned
\* counters of transactions never go below zero.
TypeOK ==
  /\ outstandingReads \in [Chans -> [Addrs -> Seq(Packets)]]
  /\ outstandingWrites \in [Chans -> [Addrs -> Seq(Packets)]]
  /\ nbrOutstandingReads \in [Chans -> Nat] /\ nbrOutstandingWrites \in [Chans -> Nat]
  /\ responseQueue \in [Chans -> Seq(Packets)]
  /\ retryReq \in [Chans -> BOOLEAN] /\ retryResp \in [Chans -> BOOLEAN]
  /\ tickScheduled \in [Chans -> BOOLEAN] /\ respScheduled \in [Chans -> BOOLEAN]
  /\ failed \in BOOLEAN
  /\ dramReads \in [Addrs -> Nat] /\ dramWrites \in [Addrs -> Nat]
  /\ owed \in [Chans -> BOOLEAN]

\* No assertion fails: a completion finds the record of its transaction in the
\* channel it is routed to, sendResponse runs only with a response to send and
\* none refused, and no event is scheduled twice.
NoAssertionFails == ~failed

Matches(queue, count, n) ==
  \A c \in Chans :
    /\ count[c] = Pending(n, c)
    /\ \A a \in Addrs : Len(queue[c][a]) = IF ChanOf[a] = c THEN n[a] ELSE 0

\* The records of a channel are exactly the transactions the library holds for
\* it, per address and in the counters.
RecordsMatch ==
  /\ Matches(outstandingReads, nbrOutstandingReads, dramReads)
  /\ Matches(outstandingWrites, nbrOutstandingWrites, dramWrites)

\* Reads of one address are answered in the order in which they were accepted.
OldestFirst ==
  [][\A c \in Chans, a \in Addrs :
       LET new == responseQueue'[c]  q == outstandingReads[c][a] IN
         Len(new) > Len(responseQueue[c]) /\ PktAddr[new[Len(new)]] = a
           => new[Len(new)] = Head(q)]_vars

\* A refused arbiter gets its retry.
RetryComes == \A c \in Chans : owed[c] ~> ~owed[c]

\* "When the transaction has completed, make a response packet and return it"
\* (dramsim3.h:67): a response in the queue is eventually sent.
ResponseReturned ==
  \A p \in Packets :
    (\E c \in Chans : p \in Range(responseQueue[c])) ~>
      ~\E c \in Chans : p \in Range(responseQueue[c])
==============================================================================
