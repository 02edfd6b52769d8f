------------------------------- MODULE DramArb -------------------------------
(***************************************************************************)
(* The DRAM arbiter (src/src/dram/dram_arb.cpp): NumUp upstream buffers    *)
(* share NumBanks memory channels.  For every bank the arbiter queues the  *)
(* requests of each upstream, forwards them round robin to the bank's      *)
(* channel, and returns the read responses to the upstream that asked.     *)
(*                                                                         *)
(* The program is single threaded.  A handler that loops over ports while  *)
(* it calls out to its peers (sendResponse, arbitrate) is a sequence of    *)
(* steps here: pc says which loop runs, (bank, k) is the loop position,    *)
(* and every other handler waits for pc = "idle".  The peers' answers are  *)
(* chosen freely, so the results hold for any upstreams and channels.      *)
(***************************************************************************)
EXTENDS Naturals, Sequences, FiniteSets, Functions

CONSTANTS
  NumBanks,   \* num_banks
  NumUp,      \* num_upstreams
  BufSize,    \* buf_size
  Packets,    \* the packets (PacketPtr) the upstreams can have in the air
  Addrs,      \* the addresses they carry
  PktAddr,    \* pkt->getAddr()
  PktBank,    \* the bank whose port the upstream sends the packet on
  PktUp,      \* the upstream that made the packet
  PktWrite    \* pkt->isWrite()

Banks == 0 .. NumBanks - 1
Ups   == 0 .. NumUp - 1

\* The flag arrays of dram_arb.h have room for num_up = 5 upstreams.
MaxUp == 5

ASSUME ArbAssumption ==
  /\ NumBanks \in Nat \ {0}
  /\ NumUp \in 1 .. MaxUp
  /\ BufSize \in Nat \ {0}
  /\ IsFiniteSet(Packets)
  /\ PktAddr \in [Packets -> Addrs]
  /\ PktBank \in [Packets -> Banks]
  /\ PktUp \in [Packets -> Ups]
  /\ PktWrite \in [Packets -> BOOLEAN]

VARIABLES
  readInBufs,           \* [bank][up] -> queue of accepted reads not yet sent
  writeInBufs,          \* [bank][up] -> queue of accepted writes not yet sent
  outstandingReads,     \* [bank][addr] -> queue of unanswered reads
  outstandingUpstream,  \* [bank][addr] -> queue of the upstreams of those reads
  nbrOutstandingReads,  \* [bank] -> number of unanswered reads
  responseQueue,        \* [bank] -> queue of [pkt, up] to return
  retryReq,             \* [bank][up] -> a refused request is owed a retry
  retryResp,            \* [bank][up] -> sendResponse skips this index
  rrReadIdx,            \* [bank] -> round-robin start for reads
  rrWriteIdx,           \* [bank] -> round-robin start for writes
  arbScheduled,         \* arbEvent.scheduled()
  respScheduled,        \* sendResponseEvent.scheduled()
  pc, bank, k,          \* the loop that runs, and its position
  target,               \* sendResponse's target_upstream, during a retry call
  needResched,          \* arbitrate's need_resched
  hasPending,           \* arbitrate's has_pending
  \* The peers, as far as the port protocol shows them:
  inflight,             \* [bank] -> reads the channel holds
  chanOwes,             \* [bank] -> the channel refused, a retry will come
  waiting,              \* [bank][up] -> the upstream waits for a request retry
  blocked               \* [bank][up] -> the upstream refused a response

bufVars  == <<readInBufs, writeInBufs, rrReadIdx, rrWriteIdx>>
camVars  == <<outstandingReads, outstandingUpstream, nbrOutstandingReads>>
respVars == <<responseQueue, retryResp, respScheduled, blocked>>
reqVars  == <<retryReq, waiting>>
chanVars == <<inflight, chanOwes>>
loopVars == <<pc, bank, k, target, needResched, hasPending>>
vars == <<bufVars, camVars, respVars, reqVars, chanVars, loopVars, arbScheduled>>

PerPort(v) == [b \in Banks |-> [u \in Ups |-> v]]

Init ==
  /\ readInBufs = PerPort(<<>>)
  /\ writeInBufs = PerPort(<<>>)
  /\ outstandingReads = [b \in Banks |-> [a \in Addrs |-> <<>>]]
  /\ outstandingUpstream = [b \in Banks |-> [a \in Addrs |-> <<>>]]
  /\ nbrOutstandingReads = [b \in Banks |-> 0]
  /\ responseQueue = [b \in Banks |-> <<>>]
  /\ retryReq = PerPort(FALSE)
  /\ retryResp = PerPort(FALSE)
  /\ rrReadIdx = [b \in Banks |-> 0]
  /\ rrWriteIdx = [b \in Banks |-> 0]
  /\ arbScheduled = FALSE
  /\ respScheduled = FALSE
  /\ pc = "idle" /\ bank = 0 /\ k = 0 /\ target = 0
  /\ needResched = FALSE /\ hasPending = FALSE
  /\ inflight = [b \in Banks |-> {}]
  /\ chanOwes = [b \in Banks |-> FALSE]
  /\ waiting = PerPort(FALSE)
  /\ blocked = PerPort(FALSE)

------------------------------------------------------------------------------
(* Receiving requests from upstream.                                       *)

\* The program still refers to p: its upstream does not send it a second time.
Live(p) ==
  LET b == PktBank[p]  u == PktUp[p] IN
    \/ p \in Range(readInBufs[b][u]) \cup Range(writeInBufs[b][u])
    \/ p \in Range(outstandingReads[b][PktAddr[p]]) \cup inflight[b]
    \/ \E i \in DOMAIN responseQueue[b] : responseQueue[b][i].pkt = p

\* Faulty: one read too many is admitted; the queued responses are not counted.
CanAccept_Late(p) ==
  LET b == PktBank[p]  u == PktUp[p] IN
    IF PktWrite[p]
    THEN Len(writeInBufs[b][u]) < BufSize
    ELSE nbrOutstandingReads[b] + Len(responseQueue[b]) <= BufSize
CanAccept_NoResponses(p) ==
  LET b == PktBank[p]  u == PktUp[p] IN
    IF PktWrite[p]
    THEN Len(writeInBufs[b][u]) < BufSize
    ELSE nbrOutstandingReads[b] < BufSize

CanAccept(p) ==
  LET b == PktBank[p]  u == PktUp[p] IN
    IF PktWrite[p]
    THEN Len(writeInBufs[b][u]) < BufSize
    ELSE nbrOutstandingReads[b] + Len(responseQueue[b]) < BufSize

\* The accepting half of recvTimingReqUp.
Enqueue(p) ==
  LET b == PktBank[p]  u == PktUp[p]  a == PktAddr[p] IN
    /\ IF PktWrite[p]
       THEN /\ writeInBufs' = [writeInBufs EXCEPT ![b][u] = Append(@, p)]
            /\ UNCHANGED <<readInBufs, camVars>>
       ELSE /\ readInBufs' = [readInBufs EXCEPT ![b][u] = Append(@, p)]
            /\ outstandingReads' = [outstandingReads EXCEPT ![b][a] = Append(@, p)]
            /\ outstandingUpstream' =
                 [outstandingUpstream EXCEPT ![b][a] = Append(@, u)]
            /\ nbrOutstandingReads' = [nbrOutstandingReads EXCEPT ![b] = @ + 1]
            /\ UNCHANGED writeInBufs
    /\ arbScheduled' = TRUE
    /\ UNCHANGED <<rrReadIdx, rrWriteIdx>>

RecvTimingReqUp(p) ==
  /\ pc = "idle" /\ ~Live(p)
  /\ \/ CanAccept(p) /\ Enqueue(p) /\ UNCHANGED reqVars
     \/ /\ ~CanAccept(p)
        /\ retryReq' = [retryReq EXCEPT ![PktBank[p]][PktUp[p]] = TRUE]
        /\ waiting' = [waiting EXCEPT ![PktBank[p]][PktUp[p]] = TRUE]
        /\ UNCHANGED <<bufVars, camVars, arbScheduled>>
  /\ UNCHANGED <<respVars, chanVars, loopVars>>

------------------------------------------------------------------------------
(* Responses: from the channel into the response queue, and upstream.      *)

\* Faulty: the upstream queue is not popped; the record of the packet stays; the
\* counter stays; the whole entry of the address is erased.
TakeOldest_KeepUpstream(b, a) ==
  /\ outstandingReads' = [outstandingReads EXCEPT ![b][a] = Tail(@)]
  /\ nbrOutstandingReads' = [nbrOutstandingReads EXCEPT ![b] = @ - 1]
  /\ UNCHANGED outstandingUpstream
TakeOldest_KeepRead(b, a) ==
  /\ outstandingUpstream' = [outstandingUpstream EXCEPT ![b][a] = Tail(@)]
  /\ nbrOutstandingReads' = [nbrOutstandingReads EXCEPT ![b] = @ - 1]
  /\ UNCHANGED outstandingReads
TakeOldest_KeepCount(b, a) ==
  /\ outstandingReads' = [outstandingReads EXCEPT ![b][a] = Tail(@)]
  /\ outstandingUpstream' = [outstandingUpstream EXCEPT ![b][a] = Tail(@)]
  /\ UNCHANGED nbrOutstandingReads
TakeOldest_EraseEntry(b, a) ==
  /\ outstandingReads' = [outstandingReads EXCEPT ![b][a] = <<>>]
  /\ outstandingUpstream' = [outstandingUpstream EXCEPT ![b][a] = <<>>]
  /\ nbrOutstandingReads' = [nbrOutstandingReads EXCEPT ![b] = @ - 1]

\* recvTimingResp takes the oldest unanswered read of the address out of both
\* maps; an entry left empty is erased.
TakeOldest(b, a) ==
  /\ outstandingReads' = [outstandingReads EXCEPT ![b][a] = Tail(@)]
  /\ outstandingUpstream' = [outstandingUpstream EXCEPT ![b][a] = Tail(@)]
  /\ nbrOutstandingReads' = [nbrOutstandingReads EXCEPT ![b] = @ - 1]

AccessAndRespond(b, p, u) ==
  /\ responseQueue' = [responseQueue EXCEPT ![b] = Append(@, [pkt |-> p, up |-> u])]
  /\ respScheduled' = TRUE

\* The assertions of recvTimingResp; the program stops when one fails.
Expected(b, a) ==
  /\ outstandingReads[b][a] # <<>>
  /\ outstandingUpstream[b][a] # <<>>
  /\ nbrOutstandingReads[b] > 0

\* The channel answers the read p; the arbiter looks only at the address.
RecvTimingResp(p) ==
  LET b == PktBank[p]  a == PktAddr[p] IN
    /\ pc = "idle" /\ p \in inflight[b] /\ Expected(b, a)
    /\ inflight' = [inflight EXCEPT ![b] = @ \ {p}]
    /\ TakeOldest(b, a)
    /\ AccessAndRespond(b, Head(outstandingReads[b][a]),
                        Head(outstandingUpstream[b][a]))
    /\ UNCHANGED <<bufVars, retryResp, blocked, reqVars, chanOwes, loopVars,
                   arbScheduled>>

StartSendResponse ==
  /\ pc' = "respond" /\ bank' = 0 /\ k' = 0
  /\ UNCHANGED <<target, needResched, hasPending>>

\* The queue services sendResponseEvent.
SendResponseEvent ==
  /\ pc = "idle" /\ respScheduled
  /\ respScheduled' = FALSE
  /\ StartSendResponse
  /\ UNCHANGED <<bufVars, camVars, responseQueue, retryResp, blocked, reqVars,
                 chanVars, arbScheduled>>

\* An upstream that refused a response has room again.
HandleRespRetry(b, u) ==
  /\ pc = "idle" /\ blocked[b][u]
  /\ blocked' = [blocked EXCEPT ![b][u] = FALSE]
  /\ retryResp' = [retryResp EXCEPT ![b][u] = FALSE]
  /\ StartSendResponse
  /\ UNCHANGED <<bufVars, camVars, responseQueue, respScheduled, reqVars,
                 chanVars, arbScheduled>>

\* The first position of sendResponse's two loops, from the current one on,
\* at which the body sends something.
Ahead(b, u) == b > bank \/ (b = bank /\ u >= k)
Sends(b, u) == ~retryResp[b][u] /\ responseQueue[b] # <<>>
Turn(b, u) ==
  /\ pc = "respond" /\ Ahead(b, u) /\ Sends(b, u)
  /\ \A c \in Banks, v \in Ups :
       Ahead(c, v) /\ Sends(c, v) => c > b \/ (c = b /\ v >= u)

\* Faulty: the response stays in the queue; the event is not scheduled for the
\* responses that remain.
PopResponse_Keep(b) ==
  /\ respScheduled' = (respScheduled \/ Len(responseQueue[b]) > 1)
  /\ UNCHANGED responseQueue
PopResponse_NoResched(b) ==
  /\ responseQueue' = [responseQueue EXCEPT ![b] = Tail(@)]
  /\ UNCHANGED respScheduled

PopResponse(b) ==
  /\ responseQueue' = [responseQueue EXCEPT ![b] = Tail(@)]
  /\ respScheduled' = (respScheduled \/ Len(responseQueue[b]) > 1)

\* The head response is accepted by its upstream.  A pending request retry of
\* the loop index makes the next step the call of sendRetryReq.
ResponseAccepted(b, u) ==
  /\ Turn(b, u)
  /\ PopResponse(b)
  /\ bank' = b
  /\ IF retryReq[b][u]
     THEN pc' = "retry" /\ k' = u /\ target' = Head(responseQueue[b]).up
     ELSE k' = u + 1 /\ UNCHANGED <<pc, target>>
  /\ UNCHANGED <<bufVars, camVars, retryResp, blocked, reqVars, chanVars,
                 needResched, hasPending, arbScheduled>>

ResponseRefused(b, u) ==
  /\ Turn(b, u)
  /\ retryResp' = [retryResp EXCEPT ![b][u] = TRUE]
  /\ blocked' = [blocked EXCEPT ![b][Head(responseQueue[b]).up] = TRUE]
  /\ bank' = b /\ k' = u + 1
  /\ UNCHANGED <<bufVars, camVars, responseQueue, respScheduled, reqVars,
                 chanVars, pc, target, needResched, hasPending, arbScheduled>>

\* sendRetryReq on the target's port, then retryReq of the loop index is
\* cleared.  The target may send one request from inside the call.
SendRetryReq ==
  LET cleared(flags) == [flags EXCEPT ![bank][k] = FALSE] IN
  /\ pc = "retry"
  /\ \/ /\ retryReq' = cleared(retryReq)
        /\ waiting' = [waiting EXCEPT ![bank][target] = FALSE]
        /\ UNCHANGED <<bufVars, camVars, arbScheduled>>
     \/ \E p \in Packets :
          /\ PktBank[p] = bank /\ PktUp[p] = target /\ ~Live(p)
          /\ \/ /\ CanAccept(p) /\ Enqueue(p)
                /\ retryReq' = cleared(retryReq)
                /\ waiting' = [waiting EXCEPT ![bank][target] = FALSE]
             \/ /\ ~CanAccept(p)
                /\ retryReq' = cleared([retryReq EXCEPT ![bank][target] = TRUE])
                /\ waiting' = [waiting EXCEPT ![bank][target] = TRUE]
                /\ UNCHANGED <<bufVars, camVars, arbScheduled>>
  /\ pc' = "respond" /\ k' = k + 1 /\ target' = 0
  /\ UNCHANGED <<respVars, chanVars, bank, needResched, hasPending>>

SendResponseDone ==
  /\ pc = "respond"
  /\ ~ \E b \in Banks, u \in Ups : Ahead(b, u) /\ Sends(b, u)
  /\ pc' = "idle" /\ bank' = 0 /\ k' = 0
  /\ UNCHANGED <<bufVars, camVars, respVars, reqVars, chanVars, target,
                 needResched, hasPending, arbScheduled>>

------------------------------------------------------------------------------
(* Arbitration: at most one request per bank and round, reads first.       *)

\* The queue services arbEvent.
ArbitrateEvent ==
  /\ pc = "idle" /\ arbScheduled
  /\ arbScheduled' = FALSE
  /\ pc' = "read" /\ bank' = 0 /\ k' = 0
  /\ needResched' = FALSE /\ hasPending' = FALSE
  /\ UNCHANGED <<bufVars, camVars, respVars, reqVars, chanVars, target>>

\* The upstream that the round-robin loop over bufs reaches at step j.
RoundRobin(rr, j) == (rr[bank] + j) % NumUp

\* Faulty: the index runs past the last upstream; the turn does not pass on.
NextIndex_NoWrap(u) == u + 1
NextIndex_Same(u) == u

\* Where the next round starts after upstream u was served.
NextIndex(u) == (u + 1) % NumUp

\* From position k on, j is the first whose upstream has a request queued.
NextCandidate(bufs, rr, j) ==
  /\ j >= k /\ bufs[bank][RoundRobin(rr, j)] # <<>>
  /\ \A i \in k .. j - 1 : bufs[bank][RoundRobin(rr, i)] = <<>>
NoCandidate(bufs, rr) ==
  \A i \in k .. NumUp - 1 : bufs[bank][RoundRobin(rr, i)] = <<>>

CheckPendingRequests(reads, writes, b) ==
  \E u \in Ups : reads[b][u] # <<>> \/ writes[b][u] # <<>>

\* Faulty: pending requests do not count.
Again_OnlyRetry(pending, resched) == resched

\* The condition under which arbitrate schedules the next round.
Again(pending, resched) == pending \/ resched

\* The end of one bank's turn in arbitrate; after the last bank the event is
\* scheduled again if has_pending (of the last bank) or need_resched says so.
BankDone(sent) ==
  LET pending == CheckPendingRequests(readInBufs', writeInBufs', bank)
      resched == needResched \/ ~sent
  IN /\ k' = 0
     /\ IF bank + 1 < NumBanks
        THEN /\ pc' = "read" /\ bank' = bank + 1
             /\ hasPending' = pending /\ needResched' = resched
             /\ UNCHANGED arbScheduled
        ELSE /\ pc' = "idle" /\ bank' = 0
             /\ hasPending' = FALSE /\ needResched' = FALSE
             /\ arbScheduled' = (arbScheduled \/ Again(pending, resched))
     /\ UNCHANGED target

ReadSent ==
  \E j \in 0 .. NumUp - 1 :
    LET u == RoundRobin(rrReadIdx, j) IN
      /\ pc = "read" /\ NextCandidate(readInBufs, rrReadIdx, j)
      /\ readInBufs' = [readInBufs EXCEPT ![bank][u] = Tail(@)]
      /\ rrReadIdx' = [rrReadIdx EXCEPT ![bank] = NextIndex(u)]
      /\ inflight' = [inflight EXCEPT ![bank] = @ \cup {Head(readInBufs[bank][u])}]
      /\ UNCHANGED <<writeInBufs, rrWriteIdx, chanOwes>>
      /\ BankDone(TRUE)
      /\ UNCHANGED <<camVars, respVars, reqVars>>

\* A request the channel refuses stays queued; the loop tries the next upstream.
ReadRefused ==
  \E j \in 0 .. NumUp - 1 :
    /\ pc = "read" /\ NextCandidate(readInBufs, rrReadIdx, j)
    /\ chanOwes' = [chanOwes EXCEPT ![bank] = TRUE]
    /\ k' = j + 1
    /\ UNCHANGED <<bufVars, camVars, respVars, reqVars, inflight, pc, bank,
                   target, needResched, hasPending, arbScheduled>>

NoReadSent ==
  /\ pc = "read" /\ NoCandidate(readInBufs, rrReadIdx)
  /\ pc' = "write" /\ k' = 0
  /\ UNCHANGED <<bufVars, camVars, respVars, reqVars, chanVars, bank, target,
                 needResched, hasPending, arbScheduled>>

WriteSent ==
  \E j \in 0 .. NumUp - 1 :
    LET u == RoundRobin(rrWriteIdx, j) IN
      /\ pc = "write" /\ NextCandidate(writeInBufs, rrWriteIdx, j)
      /\ writeInBufs' = [writeInBufs EXCEPT ![bank][u] = Tail(@)]
      /\ rrWriteIdx' = [rrWriteIdx EXCEPT ![bank] = NextIndex(u)]
      /\ UNCHANGED <<readInBufs, rrReadIdx, chanVars>>
      /\ BankDone(TRUE)
      /\ UNCHANGED <<camVars, respVars, reqVars>>

WriteRefused ==
  \E j \in 0 .. NumUp - 1 :
    /\ pc = "write" /\ NextCandidate(writeInBufs, rrWriteIdx, j)
    /\ chanOwes' = [chanOwes EXCEPT ![bank] = TRUE]
    /\ k' = j + 1
    /\ UNCHANGED <<bufVars, camVars, respVars, reqVars, inflight, pc, bank,
                   target, needResched, hasPending, arbScheduled>>

NoWriteSent ==
  /\ pc = "write" /\ NoCandidate(writeInBufs, rrWriteIdx)
  /\ UNCHANGED <<bufVars, chanVars>>
  /\ BankDone(FALSE)
  /\ UNCHANGED <<camVars, respVars, reqVars>>

\* A channel that refused a request has room again.
HandleReqRetry(b) ==
  /\ pc = "idle" /\ chanOwes[b]
  /\ chanOwes' = [chanOwes EXCEPT ![b] = FALSE]
  /\ arbScheduled' = TRUE
  /\ UNCHANGED <<bufVars, camVars, respVars, reqVars, inflight, loopVars>>

------------------------------------------------------------------------------
SendResponseStep ==
  \/ \E b \in Banks, u \in Ups : ResponseAccepted(b, u) \/ ResponseRefused(b, u)
  \/ SendRetryReq
  \/ SendResponseDone

ArbitrateStep ==
  \/ ReadSent \/ ReadRefused \/ NoReadSent
  \/ WriteSent \/ WriteRefused \/ NoWriteSent

Next ==
  \/ \E p \in Packets : RecvTimingReqUp(p) \/ RecvTimingResp(p)
  \/ SendResponseEvent
  \/ \E b \in Banks, u \in Ups : HandleRespRetry(b, u)
  \/ SendResponseStep
  \/ ArbitrateEvent
  \/ ArbitrateStep
  \/ \E b \in Banks : HandleReqRetry(b)

Spec == Init /\ [][Next]_vars

\* The event queue services every scheduled event, one tick later; a handler
\* runs to its end; a peer that owes an answer or a retry gives it, and does not
\* refuse the same request or response for ever.  Handlers of other objects run
\* in between, so what waits for "idle" needs strong fairness.
Fairness ==
  /\ SF_vars(SendResponseEvent)
  /\ SF_vars(ArbitrateEvent)
  /\ WF_vars(SendResponseStep \/ ArbitrateStep)
  /\ SF_vars(\E b \in Banks, u \in Ups : HandleRespRetry(b, u))
  /\ SF_vars(\E b \in Banks, u \in Ups : ResponseAccepted(b, u))
  /\ SF_vars(WriteSent)
  /\ \A u \in Ups : SF_vars(ReadSent /\ \E b \in Banks : readInBufs'[b][u] # readInBufs[b][u])
  /\ \A p \in Packets : SF_vars(RecvTimingResp(p))

FairSpec == Spec /\ Fairness
------------------------------------------------------------------------------
(* Properties.                                                             *)

Responses == [pkt : Packets, up : Ups]

BufType ==
  /\ readInBufs \in [Banks -> [Ups -> Seq(Packets)]]
  /\ writeInBufs \in [Banks -> [Ups -> Seq(Packets)]]
  /\ rrReadIdx \in [Banks -> Ups]
  /\ rrWriteIdx \in [Banks -> Ups]
CamType ==
  /\ outstandingReads \in [Banks -> [Addrs -> Seq(Packets)]]
  /\ outstandingUpstream \in [Banks -> [Addrs -> Seq(Ups)]]
  /\ nbrOutstandingReads \in [Banks -> Nat]
RespType ==
  /\ responseQueue \in [Banks -> Seq(Responses)]
  /\ retryResp \in [Banks -> [Ups -> BOOLEAN]]
  /\ respScheduled \in BOOLEAN
  /\ blocked \in [Banks -> [Ups -> BOOLEAN]]
ReqType ==
  /\ retryReq \in [Banks -> [Ups -> BOOLEAN]]
  /\ waiting \in [Banks -> [Ups -> BOOLEAN]]
ChanType ==
  /\ inflight \in [Banks -> SUBSET Packets]
  /\ chanOwes \in [Banks -> BOOLEAN]
LoopType ==
  /\ pc \in {"idle", "respond", "retry", "read", "write"}
  /\ bank \in Banks
  /\ k \in 0 .. NumUp
  /\ pc = "retry" => k \in Ups
  /\ target \in Ups
  /\ needResched \in BOOLEAN
  /\ hasPending \in BOOLEAN

\* The queues, flags, counters and loop positions have the types of dram_arb.h;
\* the round-robin indices and the retry target stay inside the port arrays.
TypeOK ==
  /\ BufType /\ CamType /\ RespType /\ ReqType /\ ChanType /\ LoopType
  /\ arbScheduled \in BOOLEAN

\* The reads of bank b that the arbiter accepted and no channel answered yet.
Unanswered(b) ==
  {p \in Packets : p \in inflight[b] \/ \E u \in Ups : p \in Range(readInBufs[b][u])}

\* recvTimingReqUp admits a read only when the unanswered reads and the queued
\* responses of the bank together leave room: no interleaving of requests,
\* channel responses and refused deliveries ever exceeds buf_size.
Capacity ==
  \A b \in Banks : nbrOutstandingReads[b] + Len(responseQueue[b]) <= BufSize

\* dram_arb.h says outstandingUpstream is kept in step with outstandingReads:
\* position by position it names the upstream that sent the read, so that
\* recvTimingResp pops a packet and its own upstream.
InStep ==
  \A b \in Banks, a \in Addrs :
    /\ Len(outstandingUpstream[b][a]) = Len(outstandingReads[b][a])
    /\ \A i \in DOMAIN outstandingReads[b][a] :
         /\ outstandingUpstream[b][a][i] = PktUp[outstandingReads[b][a][i]]
         /\ PktAddr[outstandingReads[b][a][i]] = a
         /\ PktBank[outstandingReads[b][a][i]] = b

\* A queued response is addressed to the upstream and bank that sent the read,
\* although the arbiter matches responses by address only and channels answer
\* the reads of several upstreams in any order.
ToIssuer ==
  \A b \in Banks : \A i \in DOMAIN responseQueue[b] :
    LET r == responseQueue[b][i] IN PktUp[r.pkt] = r.up /\ PktBank[r.pkt] = b

\* The counters agree with the queues: nbrOutstandingReads is the number of
\* reads on their way to or in the channel, and per address there are as many
\* unanswered reads as records of them.
Accounting ==
  \A b \in Banks :
    /\ nbrOutstandingReads[b] = Cardinality(Unanswered(b))
    /\ \A a \in Addrs : Len(outstandingReads[b][a]) =
         Cardinality({p \in Unanswered(b) : PktAddr[p] = a})

\* No assertion of recvTimingResp (lines 205, 217 and 222) fails: whenever a
\* channel can answer a read, the records of a read of that address exist.
ResponseExpected ==
  \A b \in Banks : \A p \in inflight[b] : Expected(b, PktAddr[p])

\* No read is answered twice: a packet has one record at most, over the
\* unanswered reads and the response queue of its bank together.
AnsweredOnce ==
  \A b \in Banks :
    /\ \A a \in Addrs : \A i, j \in DOMAIN outstandingReads[b][a] :
         outstandingReads[b][a][i] = outstandingReads[b][a][j] => i = j
    /\ \A i, j \in DOMAIN responseQueue[b] :
         responseQueue[b][i].pkt = responseQueue[b][j].pkt => i = j
    /\ \A a \in Addrs : \A i \in DOMAIN outstandingReads[b][a] :
         \A j \in DOMAIN responseQueue[b] :
           outstandingReads[b][a][i] # responseQueue[b][j].pkt

\* No response is forgotten: between handlers, a bank with queued responses has
\* sendResponseEvent scheduled, or the head response was refused by its own
\* upstream, which then owes a retry.  retryResp is kept per loop index and not
\* per target, and the indices of other upstreams try the same response.
ResponseWakeup ==
  pc = "idle" =>
    \A b \in Banks : responseQueue[b] # <<>> =>
      respScheduled \/ blocked[b][Head(responseQueue[b]).up]

\* While sendResponse calls sendRetryReq the bank has room for a read: the read
\* re-sent from inside the call is accepted, and clearing retryReq after the
\* call cannot lose a refusal of it.
RetryHasRoom ==
  pc = "retry" =>
    nbrOutstandingReads[bank] + Len(responseQueue[bank]) < BufSize

\* Requests queued for the last bank keep arbEvent scheduled between handlers.
LastBankServed ==
  pc = "idle" /\ CheckPendingRequests(readInBufs, writeInBufs, NumBanks - 1)
    => arbScheduled

\* "If there are pending requests or a retry is needed, schedule the next round"
\* (dram_arb.cpp:329), for every bank: what arbitrate should ensure.
PendingRescheduled ==
  \A b \in Banks :
    pc = "idle" /\ CheckPendingRequests(readInBufs, writeInBufs, b) => arbScheduled

\* recvReqRetry is "called by the peer if sendTimingReq was called on this peer
\* and was unsuccessful" (timing.h:56): a retry goes to an upstream that waits
\* for one.
RetryGoesToWaiter == pc = "retry" => waiting[bank][target]

\* Every accepted read is answered and its response delivered: the round robin
\* reaches each upstream, and no wake-up of arbEvent or sendResponseEvent is
\* missed, while the other upstreams go on sending.
ReadsAnswered ==
  \A p \in Packets : Live(p) /\ ~PktWrite[p] ~> ~Live(p)
==============================================================================
