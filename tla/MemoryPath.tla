----------------------------- MODULE MemoryPath -----------------------------
(***************************************************************************)
(* The memory path that main.cpp builds: the upstream buffers, the arbiter *)
(* and the memory channels with the DRAM library behind them.  A call over *)
(* a bound pair of ports is one joint step of caller and callee, so no     *)
(* peer's answer is free here: what each of the three modules assumes of   *)
(* its peers is what the other two do.                                     *)
(*                                                                         *)
(* Three answers never occur and have no step: the arbiter takes every     *)
(* response, a buffer never asks for a refused response again (nothing     *)
(* drains it), and the library never refuses the arbiter (LibraryHasRoom). *)
(***************************************************************************)
EXTENDS PathPackets, Sequences, FiniteSets, Functions

VARIABLES
  readInBufs, writeInBufs, outstandingReads, outstandingUpstream,
  nbrOutstandingReads, responseQueue, retryReq, retryResp, rrReadIdx,
  rrWriteIdx, arbScheduled, respScheduled, pc, bank, k, target, needResched,
  hasPending, inflight, chanOwes, waiting, blocked

arbVars ==
  <<readInBufs, writeInBufs, outstandingReads, outstandingUpstream,
    nbrOutstandingReads, responseQueue, retryReq, retryResp, rrReadIdx,
    rrWriteIdx, arbScheduled, respScheduled, pc, bank, k, target, needResched,
    hasPending, inflight, chanOwes, waiting, blocked>>

Arb == INSTANCE DramArb WITH
  NumBanks <- NumPorts, NumUp <- Cardinality(Buffers), BufSize <- MaxAsked,
  PktWrite <- IsWrite

VARIABLES
  chReads, chWrites, chNbrReads, chNbrWrites, chQueue, chRetryReq, chRetryResp,
  chTick, chRespScheduled, failed, dramReads, dramWrites, owed

chanVars ==
  <<chReads, chWrites, chNbrReads, chNbrWrites, chQueue, chRetryReq, chRetryResp,
    chTick, chRespScheduled, failed, dramReads, dramWrites, owed>>

Chan == INSTANCE DramSim3 WITH
  Chans <- Ports, PktChan <- PktBank, PktWrite <- IsWrite, Polite <- FALSE,
  outstandingReads <- chReads, outstandingWrites <- chWrites,
  nbrOutstandingReads <- chNbrReads, nbrOutstandingWrites <- chNbrWrites,
  responseQueue <- chQueue, retryReq <- chRetryReq, retryResp <- chRetryResp,
  tickScheduled <- chTick, respScheduled <- chRespScheduled

pathVars == <<vars, arbVars, chanVars>>

PathInit == Init /\ Arb!Init /\ Chan!Init

------------------------------------------------------------------------------
\* main calls every init() before it services the first event.
Start(u) ==
  /\ \A v \in Buffers : v < u => started[v]
  /\ InitObject(u)
  /\ UNCHANGED <<arbVars, chanVars>>

\* A handler can begin; the loop of a handler that began goes on.
Ready   == (\A u \in Buffers : started[u]) /\ ~failed /\ loop = "none" /\ pc = "idle"
Running == (\A u \in Buffers : started[u]) /\ ~failed /\ loop = "none" /\ pc # "idle"

\* A new packet of buffer u for its port b.
Fresh(u, b) == <<u, b, CHOOSE n \in 1 .. Pool : ~Arb!Live(<<u, b, n>>)>>

\* A buffer's loop calls recvTimingReqUp of the arbiter.
Ask ==
  LET p == IF loop = "init" THEN <<buf, port, 0>> ELSE Fresh(buf, port) IN
    /\ SendTimingReq(Arb!CanAccept(p))
    /\ Arb!RecvTimingReqUp(p)
    /\ UNCHANGED chanVars

\* The steps of a buffer, and of the arbiter, that call no peer.
TickBuffer(u) ==
  /\ Ready
  /\ SendpktEvent(u)
  /\ UNCHANGED <<arbVars, chanVars>>
SkipPort ==
  /\ SkipFullPort
  /\ UNCHANGED <<arbVars, chanVars>>
ArbAlone ==
  /\ \/ Ready /\ (Arb!ArbitrateEvent \/ Arb!SendResponseEvent)
     \/ Running /\ (Arb!NoReadSent \/ Arb!NoWriteSent \/ Arb!SendResponseDone)
  /\ UNCHANGED <<vars, chanVars>>

\* The read that the arbiter's round robin comes to next.
Candidates ==
  LET turn == {j \in Arb!Ups : Arb!NextCandidate(readInBufs, rrReadIdx, j)} IN
    {Head(readInBufs[bank][Arb!RoundRobin(rrReadIdx, j)]) : j \in turn}

\* The arbiter calls recvTimingReq of the channel.
Forward ==
  /\ Running
  /\ Arb!ReadSent
  /\ \E p \in Candidates : Chan!RequestAccepted(p)
  /\ UNCHANGED vars

\* The library completes a read of address a.
Complete(a) ==
  /\ Ready
  /\ Chan!ReadCallback(a)
  /\ UNCHANGED <<vars, arbVars>>

\* The channel calls recvTimingResp of the arbiter.
Return(c) ==
  /\ Ready
  /\ Chan!SendResponseEvent(c, TRUE)
  /\ IF chQueue[c] = <<>> THEN UNCHANGED arbVars ELSE Arb!RecvTimingResp(Head(chQueue[c]))
  /\ UNCHANGED vars

\* The arbiter calls recvTimingResp of the buffer the head response is for.
Deliver(b, u) ==
  /\ Running /\ Arb!Turn(b, u)
  /\ LET up == Head(responseQueue[b]).up IN
       /\ IF Full(up, b) THEN Arb!ResponseRefused(b, u) ELSE Arb!ResponseAccepted(b, u)
       /\ RecvTimingResp(up, b)
  /\ UNCHANGED chanVars

\* The arbiter calls recvReqRetry, and the buffer sends a new request from
\* inside the call.
Retry ==
  LET p == Fresh(target, bank) IN
    /\ Running
    /\ Arb!SendRetryReq
    /\ SendRetryReq(target, bank, Arb!CanAccept(p))
    /\ IF Arb!CanAccept(p)
       THEN readInBufs' = [readInBufs EXCEPT ![bank][target] = Append(@, p)]
       ELSE UNCHANGED readInBufs /\ waiting'[bank][target]
    /\ UNCHANGED chanVars

PathNext ==
  \/ \E u \in Buffers : Start(u) \/ TickBuffer(u)
  \/ Ask \/ SkipPort \/ ArbAlone \/ Forward \/ Retry
  \/ \E a \in Addrs : Complete(a)
  \/ \E b \in Ports : Return(b) \/ \E u \in Buffers : Deliver(b, u)

PathSpec == PathInit /\ [][PathNext]_pathVars

------------------------------------------------------------------------------
(* Properties of the composition.                                          *)

\* Caller and callee agree on every read in the air.  A buffer waits for exactly
\* the reads of it that the arbiter holds, unanswered or in its response queue;
\* the arbiter believes in the channel exactly the reads the channel has a
\* record of or a response for; and who waits for a retry was refused.
PeersAgree ==
  \A b \in Ports :
    /\ \A u \in Buffers :
         /\ asked[u][b] = Cardinality({p \in Arb!Unanswered(b) : p[1] = u})
              + Cardinality({i \in DOMAIN responseQueue[b] : responseQueue[b][i].up = u})
         /\ wants[u][b] = waiting[b][u]
         /\ stuck[u][b] = blocked[b][u]
    /\ inflight[b] =
         {p \in Packets : p \in Range(chReads[b][PktAddr[p]]) \cup Range(chQueue[b])}

\* The arbiter's admission limit keeps the DRAM library from ever refusing: when
\* arbitrateReadRequests calls sendTimingReq, WillAcceptTransaction holds.
LibraryHasRoom == pc = "read" => \A p \in Candidates : ~Chan!MayRefuse(p)

\* No assertion of dramsim3.cpp or of recvTimingResp in dram_arb.cpp fails: the
\* library calls back the channel that the read was sent on, and a response the
\* channel returns is one the arbiter has a record of.
NoAssertionTrips ==
  /\ ~failed
  /\ \A c \in Ports : pc = "idle" /\ chRespScheduled[c] =>
       chQueue[c] # <<>> /\ Arb!Expected(c, PktAddr[Head(chQueue[c])])

\* No event is scheduled and the library is empty: nothing will happen any more.
AtRest ==
  /\ \A u \in Buffers : started[u] /\ ~tickScheduled[u]
  /\ loop = "none" /\ pc = "idle" /\ ~arbScheduled /\ ~respScheduled
  /\ \A c \in Ports : ~chRespScheduled[c]
  /\ \A a \in Addrs : dramReads[a] = 0

\* What can hold up port b of buffer u for good: the head of the bank's response
\* queue, which all upstreams share, belongs to a full port, and sendResponse
\* does not look past it;
HeadBlocked(b) == responseQueue[b] # <<>> /\ Full(Head(responseQueue[b]).up, b)
\* a response stays in the channel's queue, one event having been scheduled for
\* two completions;
LeftInChannel(u, b) == \E p \in Range(chQueue[b]) : p[1] = u
\* its request was refused, and sendResponse, which looks for an upstream to
\* retry only at the loop index at which it delivers and calls the one it
\* delivers to, never called it;
RetryForgotten(u, b) == wants[u][b]
\* its request is queued, and arbitrate looks at the last bank only to decide
\* whether to run again.
RequestForgotten(u, b) == readInBufs[b][u] # <<>> /\ b < NumPorts - 1

\* The path comes to rest with room on a port only for one of these reasons: no
\* other request, response, retry or wake-up is lost between the components.
RestsOnlyBlocked ==
  AtRest => \A u \in Buffers, b \in Ports :
    \/ Full(u, b) \/ HeadBlocked(b)
    \/ LeftInChannel(u, b) \/ RetryForgotten(u, b) \/ RequestForgotten(u, b)
==============================================================================
