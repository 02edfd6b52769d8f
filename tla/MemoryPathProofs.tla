-------------------------- MODULE MemoryPathProofs --------------------------
(***************************************************************************)
(* Theorems about the memory path that main.cpp builds.  Each component    *)
(* was proved correct for any peers that keep the protocol of its ports;   *)
(* here the three are shown to be each other's peers, and what only holds  *)
(* of the whole is proved from the invariants of the parts, the agreement  *)
(* of the ports (MemoryPathSteps) and the count of the reads that a buffer *)
(* waits for (UpBufferProofs).                                             *)
(***************************************************************************)
EXTENDS MemoryPathSteps, UpBufferProofs

(* A buffer waits for the reads of it that the arbiter holds.              *)

AskedExact == Counted(asked, readInBufs, inflight, responseQueue)

PathInv == PortsAgree /\ AskedExact

LEMMA SameCardinality == \A S : Arb!Cardinality(S) = Cardinality(S)
BY Zenon DEF Arb!Cardinality, Cardinality

LEMMA UnansweredWaits ==
  ASSUME NEW b
  PROVE  Arb!Unanswered(b) = Waits(readInBufs[b], inflight[b])
BY BuffersAreUps, SameRange, Zenon DEF Arb!Unanswered, Waits

\* The arbiter's counter is the number of reads that wait.
LEMMA CountersHere ==
  ASSUME ArbFacts, NEW b \in Ports, NEW a \in Addrs
  PROVE  LET U == Waits(readInBufs[b], inflight[b])
         IN  /\ nbrOutstandingReads[b] = Cardinality(U)
             /\ Len(outstandingReads[b][a]) = Cardinality({p \in U : PktAddr[p] = a})
             /\ Cardinality(U) + Len(responseQueue[b]) <= MaxAsked
BY UnansweredWaits, SameCardinality, BuffersAreUps, SMT, ZenonT(30) DEF ArbFacts, Arb!Accounting, Arb!Capacity

\* Pool is large enough for a buffer to find a packet that is nowhere in the path.
LEMMA FreshFree ==
  ASSUME ArbFacts, NoWrites, NEW u \in Buffers, NEW b \in Ports
  PROVE  LET p == Fresh(u, b)
         IN  p \in Packets /\ p[1] = u /\ p[2] = b /\ ~Arb!Live(p)
<1> DEFINE a == 16384 * u + 64 * b + 512
           q == outstandingReads[b][a]
           r == responseQueue[b]
           U == Waits(readInBufs[b], inflight[b])
<1>1. ASSUME NEW n \in 1 .. Pool
      PROVE  <<u, b, n>> \in Packets /\ PktAddr[<<u, b, n>>] = a
  BY DEF Packets, PktAddr
<1>2. a \in Addrs
  <2>1. 1 \in 1 .. Pool
    BY BufferAssumption DEF Pool
  <2> HIDE DEF a
  <2> QED
    BY <1>1, <2>1, PacketParts, ZenonT(30)
<1> HIDE DEF a
<1>3. q \in Seq(Packets) /\ r \in Seq(Records) /\ U \in SUBSET Packets
  BY <1>2, ArbTypes, WaitsType, SMT, ZenonT(30) DEF ArbFacts
<1>4. Len(q) = Cardinality({p \in U : PktAddr[p] = a}) /\ Cardinality(U) + Len(r) <= MaxAsked
  BY <1>2, CountersHere, SMT, ZenonT(30)
<1>5. ASSUME NEW n \in 1 .. Pool, <<u, b, n>> \notin (Range(q) \cup U) \cup PktsOf(r)
      PROVE  ~Arb!Live(<<u, b, n>>)
  <2> DEFINE p == <<u, b, n>>
  <2>1. p \in Packets /\ p[1] = u /\ p[2] = b /\ PktAddr[p] = a
    BY <1>1
  <2>2. p \notin Range(<<>>) /\ writeInBufs[b][u] = <<>>
    BY DEF Range, NoWrites
  <2>3. p \notin Range(q) /\ p \notin U /\ p \notin PktsOf(r)
    BY <1>5
  <2> HIDE DEF p
  <2>4. p \notin Range(readInBufs[b][u]) /\ p \notin inflight[b]
    BY <2>1, <2>3, Zenon DEF Waits
  <2>5. ~Arb!Live(p)
    BY <2>1, <2>2, <2>3, <2>4, LiveParts, Zenon
  <2> QED
    BY <2>5, Zenon DEF p
<1> HIDE DEF q, r, U
<1>6. Len(q) <= Cardinality(U)
  BY <1>3, <1>4, PartSize, ZenonT(30)
<1>7. \E n \in 1 .. Pool : <<u, b, n>> \notin (Range(q) \cup U) \cup PktsOf(r)
  BY <1>3, <1>4, <1>6, FreshPacket, ZenonT(30)
<1>8. PICK m \in 1 .. Pool : Fresh(u, b) = <<u, b, m>> /\ ~Arb!Live(<<u, b, m>>)
  BY <1>5, <1>7, Zenon DEF Fresh
<1> QED
  BY <1>1, <1>8, SMT, ZenonT(30)

LEMMA FreshLasts == ArbFacts /\ NoWrites => PacketsLast
BY FreshFree, Zenon DEF PacketsLast

\* Each way a read moves keeps the count.
LEMMA AskedKept ==
  ASSUME TypeOK, ArbFacts, AskedExact, Moves
  PROVE  AskedExact'
<1>1. Typed(asked, readInBufs, inflight, responseQueue)
  BY ArbTypes, BufferAssumption, SMT, ZenonT(30) DEF ArbFacts, TypeOK, CountType, Typed
<1>2. Counted(asked, readInBufs, inflight, responseQueue)
  BY DEF AskedExact
<1> SUFFICES Counted(asked', readInBufs', inflight', responseQueue')
  BY Zenon DEF AskedExact
<1>3. CASE Stays
  BY <1>2, <1>3 DEF Stays
<1>4. ASSUME NEW b \in Ports, NEW u \in Buffers, NEW p \in Packets, Joins(b, u, p)
      PROVE  Counted(asked', readInBufs', inflight', responseQueue')
  <2>1. Counted([asked EXCEPT ![u][b] = asked[u][b] + 1], readInBufs', inflight, responseQueue)
    BY <1>1, <1>2, <1>4, CountedJoin, Zenon DEF Joins
  <2> QED
    BY <1>4, <2>1, SMT, ZenonT(30) DEF Joins
<1>5. ASSUME NEW b \in Ports, NEW u \in Buffers, Goes(b, u)
      PROVE  Counted(asked', readInBufs', inflight', responseQueue')
  <2>1. Counted(asked, readInBufs',
                [inflight EXCEPT ![b] = inflight[b] \cup {Head(readInBufs[b][u])}],
                responseQueue)
    BY <1>1, <1>2, <1>5, CountedGo, Zenon DEF Goes
  <2> QED
    BY <1>5, <2>1 DEF Goes
<1>6. ASSUME NEW b \in Ports, NEW p \in Packets, NEW e \in Records, Comes(b, p, e)
      PROVE  Counted(asked', readInBufs', inflight', responseQueue')
  <2>1. Counted(asked, readInBufs, [inflight EXCEPT ![b] = inflight[b] \ {p}],
                [responseQueue EXCEPT ![b] = Append(responseQueue[b], e)])
    BY <1>1, <1>2, <1>6, CountedCome, Zenon DEF Comes
  <2> QED
    BY <1>6, <2>1, SMT, ZenonT(30) DEF Comes
<1>7. ASSUME NEW b \in Ports, NEW u \in Buffers, Leaves(b, u)
      PROVE  Counted(asked', readInBufs', inflight', responseQueue')
  <2>1. Counted([asked EXCEPT ![u][b] = asked[u][b] - 1], readInBufs, inflight,
                [responseQueue EXCEPT ![b] = Tail(responseQueue[b])])
    BY <1>1, <1>2, <1>7, CountedLeave, Zenon DEF Leaves
  <2> QED
    BY <1>7, <2>1, SMT, ZenonT(30) DEF Leaves
<1> QED
  BY <1>3, <1>4, <1>5, <1>6, <1>7, Zenon DEF Moves

LEMMA AskedStart == PathInit => AskedExact
<1> SUFFICES ASSUME PathInit PROVE AskedExact
  OBVIOUS
<1>1. \A b \in Ports, u \in Buffers :
        asked[u][b] = 0 /\ readInBufs[b][u] = <<>> /\ inflight[b] = {} /\ responseQueue[b] = <<>>
  BY BuffersAreUps, ZenonT(30) DEF PathInit, Init, PerPort, Arb!Init, Arb!PerPort
<1> QED
  BY <1>1, CountedStart, Zenon DEF AskedExact

------------------------------------------------------------------------------
(* What the invariant says of the whole path.                              *)

LEMMA AgreeFact == ArbFacts /\ PathInv => PeersAgree
<1> SUFFICES ASSUME ArbFacts, PathInv, NEW b \in Ports
             PROVE  /\ \A u \in Buffers :
                         /\ asked[u][b] = Cardinality({p \in Arb!Unanswered(b) : p[1] = u})
                              + Cardinality({i \in DOMAIN responseQueue[b] :
                                               responseQueue[b][i].up = u})
                         /\ wants[u][b] = waiting[b][u]
                         /\ stuck[u][b] = blocked[b][u]
                    /\ inflight[b] = {p \in Packets :
                         p \in Range(chReads[b][PktAddr[p]]) \cup Range(chQueue[b])}
  BY ZenonT(30) DEF PeersAgree
<1>1. ASSUME NEW u \in Buffers
      PROVE  asked[u][b] = Cardinality({p \in Arb!Unanswered(b) : p[1] = u})
               + Cardinality({i \in DOMAIN responseQueue[b] : responseQueue[b][i].up = u})
  BY UnansweredWaits DEF PathInv, AskedExact, Counted, Count, Mine, ToUp
<1>2. ASSUME NEW u \in Buffers
      PROVE  wants[u][b] = waiting[b][u] /\ stuck[u][b] = blocked[b][u]
  BY Zenon DEF PathInv, PortsAgree, FlagsAgree
<1>3. Carries(inflight[b], chReads[b], chQueue[b])
  BY DEF PathInv, PortsAgree, FlowAgrees
<1> QED
  BY <1>1, <1>2, <1>3, SMT, ZenonT(30) DEF Carries

LEMMA RoomFact == ArbFacts /\ ChanFacts /\ PathInv => LibraryHasRoom
<1> SUFFICES ASSUME ArbFacts, ChanFacts, PathInv, NEW p \in Candidates
             PROVE  ~Chan!MayRefuse(p)
  BY DEF LibraryHasRoom
<1> DEFINE c == bank
<1>1. /\ c \in Ports /\ p \in Packets /\ p[2] = c /\ p \notin inflight[c]
      /\ p \in Waits(readInBufs[c], inflight[c])
  BY CandidateFacts, SMT, ZenonT(30)
<1>2. /\ inflight[c] \in SUBSET Packets /\ responseQueue[c] \in Seq(Records)
      /\ nbrOutstandingReads[c] \in Nat /\ PktAddr[p] \in Addrs
      /\ ChanOf[PktAddr[p]] = c /\ IsWrite[p] = FALSE
  BY <1>1, ArbTypes, PacketParts, PathAssumption, ZenonT(30) DEF ArbFacts
<1>3. Cardinality(Waits(readInBufs[c], inflight[c])) <= MaxAsked
  <2>1. /\ nbrOutstandingReads[c] = Cardinality(Waits(readInBufs[c], inflight[c]))
        /\ Cardinality(Waits(readInBufs[c], inflight[c])) + Len(responseQueue[c]) <= MaxAsked
    BY <1>1, <1>2, CountersHere, ZenonT(30)
  <2>2. Len(responseQueue[c]) \in Nat /\ MaxAsked \in Nat
    BY <1>2, BufferAssumption
  <2> QED
    BY <1>2, <2>1, <2>2
<1>4. Carries(inflight[c], chReads[c], chQueue[c])
  BY <1>1 DEF PathInv, PortsAgree, FlowAgrees
<1>5. Chan!Pending(dramReads, c) = Cardinality(HeldBy(dramReads, c))
  BY Zenon DEF Chan!Pending, Chan!Held, HeldBy, Chan!Cardinality, Cardinality
<1>6. /\ \A a \in Addrs : Len(chReads[c][a]) = IF ChanOf[a] = c THEN dramReads[a] ELSE 0
      /\ Chan!Pending(dramReads, c) \in Nat
  BY <1>1, SMT, ZenonT(30) DEF ChanFacts, Chan!RecordsMatch, Chan!Matches, Chan!TypeOK
<1>7. Cardinality(HeldBy(dramReads, c)) < QueueSize
  BY <1>1, <1>2, <1>3, <1>4, <1>5, <1>6, RoomLeft, SMT, ZenonT(30)
<1> QED
  BY <1>2, <1>5, <1>6, <1>7, PathAssumption, SMT, ZenonT(30) DEF Chan!MayRefuse

\* What a buffer waits for is somewhere on its way.
LEMMA AllSomewhere == ArbFacts /\ PathInv => Somewhere
<1> SUFFICES ASSUME ArbFacts, PathInv, NEW u \in Buffers, NEW b \in Ports, asked[u][b] > 0
             PROVE  \/ readInBufs[b][u] # <<>>
                    \/ \E p \in inflight[b] : p \in Packets /\ p[1] = u
                    \/ responseQueue[b] # <<>>
  BY DEF Somewhere
<1>1. Count(readInBufs[b], inflight[b], responseQueue[b], u) > 0
  BY DEF PathInv, AskedExact, Counted
<1>2. \A v \in Buffers : \A p \in Range(readInBufs[b][v]) : p[1] = v
  BY QueuedHere, SMT, ZenonT(30)
<1> QED
  BY <1>1, <1>2, CountedSomewhere, SMT, ZenonT(30)

LEMMA ArbConstantsHere == Arb!ArbAssumption
<1>1. Cardinality(Buffers) \in 1 .. Arb!MaxUp
  BY BuffersAreUps, PathAssumption, SMT, ZenonT(30) DEF Arb!MaxUp
<1>2. Arb!IsFiniteSet(Packets)
  BY FinitePackets, SMT, ZenonT(30) DEF Arb!IsFiniteSet, IsFiniteSet
<1>3. /\ PktAddr \in [Packets -> Addrs] /\ PktBank \in [Packets -> Arb!Banks]
      /\ PktUp \in [Packets -> Arb!Ups] /\ IsWrite \in [Packets -> BOOLEAN]
  BY PacketParts, BuffersAreUps, SMT, ZenonT(30) DEF PktAddr, PktBank, PktUp, IsWrite
<1> QED
  BY <1>1, <1>2, <1>3, BufferAssumption, SMT, ZenonT(30) DEF Arb!ArbAssumption

\* A step of the path, given what the components' invariants say of the state.
PathFacts == TypeOK /\ ArbInvariants /\ ChanFacts /\ PathInv

LEMMA PathSteps ==
  ASSUME PathFacts, [PathNext]_pathVars
  PROVE  [Next]_vars /\ [Arb!Next]_arbVars /\ [ChanStep]_chanVars /\ PathInv'
<1>1. TypeOK /\ ArbFacts /\ ChanFacts /\ PortsAgree /\ NoWrites /\ NoneOwed /\ AskedExact
  BY ArbFactsHold DEF PathFacts, PathInv, PortsAgree
<1>2. PacketsLast
  BY <1>1, FreshLasts, SMT, ZenonT(30)
<1>3. [Next]_vars /\ [Arb!Next]_arbVars
  BY <1>1, <1>2, BufferSteps, ArbSteps, SMT, ZenonT(30)
<1>4. [ChanStep]_chanVars
  BY <1>1, ChanSteps, SMT, ZenonT(30)
<1>5. PortsAgree' /\ Moves
  BY <1>1, <1>2, PortsStep, SMT, ZenonT(30)
<1>6. AskedExact'
  BY <1>1, <1>5, AskedKept, SMT, ZenonT(30)
<1> QED
  BY <1>3, <1>4, <1>5, <1>6, SMT, ZenonT(30) DEF PathInv

LEMMA PathMeaning ==
  PathFacts => /\ PeersAgree /\ LibraryHasRoom
               /\ Arb!ResponseExpected => NoAssertionTrips
               /\ NoPortIdle /\ Arb!ResponseWakeup /\ Arb!LastBankServed => RestsOnlyBlocked
<1> SUFFICES ASSUME PathFacts
             PROVE  /\ PeersAgree /\ LibraryHasRoom
                    /\ Arb!ResponseExpected => NoAssertionTrips
                    /\ NoPortIdle /\ Arb!ResponseWakeup /\ Arb!LastBankServed
                         => RestsOnlyBlocked
  OBVIOUS
<1>1. TypeOK /\ ArbFacts /\ ChanFacts /\ PathInv /\ PortsAgree
  BY ArbFactsHold DEF PathFacts, PathInv
<1>2. Somewhere
  BY <1>1, AllSomewhere, SMT, ZenonT(30)
<1> QED
  BY <1>1, <1>2, AgreeFact, RoomFact, TripFact, RestFact, SMT, ZenonT(30)
------------------------------------------------------------------------------
(* The channels' theorems.                                                 *)

ChanP == INSTANCE DramSim3Proofs WITH
  Chans <- Ports, PktChan <- PktBank, PktWrite <- IsWrite, Polite <- TRUE,
  outstandingReads <- chReads, outstandingWrites <- chWrites,
  nbrOutstandingReads <- chNbrReads, nbrOutstandingWrites <- chNbrWrites,
  responseQueue <- chQueue, retryReq <- chRetryReq, retryResp <- chRetryResp,
  tickScheduled <- chTick, respScheduled <- chRespScheduled

LEMMA ChanConstants == ChanP!ChannelAssumption /\ ChanP!Routed
BY ChanConstantsHere, SMTT(60) DEF ChanP!ChannelAssumption, ChanP!Routed

LEMMA ChanInitSame == Chan!Init => ChanP!Init
BY ZenonT(60) DEF Chan!Init, ChanP!Init, Chan!PerChan, ChanP!PerChan, Chan!PerAddr,
   ChanP!PerAddr

LEMMA ChanVarsSame == UNCHANGED chanVars => UNCHANGED ChanP!vars
BY ZenonT(60) DEF chanVars, ChanP!vars, ChanP!readVars, ChanP!writeVars, ChanP!respVars,
   ChanP!reqVars, ChanP!dramVars

LEMMA ChanNextSame == ChanStep => ChanP!Next
<1>1. ASSUME NEW p, Chan!RequestAccepted(p), ~owed[PktBank[p]] PROVE ChanP!RequestAccepted(p)
  BY <1>1, ZenonT(60) DEF Chan!RequestAccepted, Chan!Live, Chan!Range, Chan!Record,
     Chan!AddTransaction, Chan!readVars, Chan!writeVars, Chan!respVars, Chan!reqVars,
     ChanP!RequestAccepted, ChanP!Live, ChanP!Range, ChanP!Record,
     ChanP!AddTransaction, ChanP!readVars, ChanP!writeVars, ChanP!respVars, ChanP!reqVars
<1>2. ASSUME NEW a, Chan!ReadCallback(a) PROVE ChanP!ReadCallback(a)
  BY <1>2, ZenonT(60) DEF Chan!ReadCallback, Chan!ReadComplete, Chan!GetChannel,
     Chan!AccessAndRespond, Chan!readVars, Chan!writeVars, Chan!respVars, Chan!reqVars,
     ChanP!ReadCallback, ChanP!ReadComplete, ChanP!GetChannel,
     ChanP!AccessAndRespond, ChanP!readVars, ChanP!writeVars, ChanP!respVars, ChanP!reqVars
<1>3. ASSUME NEW c, Chan!SendResponseEvent(c, TRUE) PROVE ChanP!SendResponseEvent(c, TRUE)
  BY <1>3, ZenonT(60) DEF Chan!SendResponseEvent, Chan!SendResponse, Chan!readVars,
     Chan!writeVars, Chan!reqVars, Chan!dramVars,
     ChanP!SendResponseEvent, ChanP!SendResponse, ChanP!readVars,
     ChanP!writeVars, ChanP!reqVars, ChanP!dramVars
<1> QED
  BY <1>1, <1>2, <1>3, ZenonT(60) DEF ChanStep, ChanP!Next

LEMMA ChanGives == ChanP!IInv => ChanFacts
BY ZenonT(60) DEF ChanP!IInv, ChanP!ReadsOK, ChanP!WritesOK, ChanP!Records, ChanP!EventsOK,
   ChanP!FlagType, ChanP!Queues, ChanP!Event, ChanP!Matches, ChanP!Pending, ChanP!Held,
   ChanP!Cardinality,
   ChanFacts, Chan!TypeOK, Chan!RecordsMatch, Chan!Matches, Chan!Pending, Chan!Held,
   Chan!Cardinality

LEMMA ChanStarts == Chan!Init => ChanP!IInv
BY ChanInitSame, ChanConstants, ChanP!InitHolds, SMTT(60) DEF ChanP!ChannelAssumption

LEMMA ChanKept == ChanP!IInv /\ [ChanP!Next]_(ChanP!vars) => ChanP!IInv'
BY ChanConstants, ChanP!StepHolds, SMTT(60) DEF ChanP!ChannelAssumption

------------------------------------------------------------------------------
(* The arbiter's theorems, for the arbiter of the path.                    *)

ArbP == INSTANCE DramArbProofs WITH
  NumBanks <- NumPorts, NumUp <- Cardinality(Buffers), BufSize <- MaxAsked,
  PktWrite <- IsWrite

LEMMA ArbConstants == ArbP!ArbAssumption
BY ArbConstantsHere, ZenonT(60) DEF Arb!ArbAssumption, Arb!MaxUp, Arb!IsFiniteSet, Arb!Banks,
   Arb!Ups, ArbP!ArbAssumption, ArbP!MaxUp, ArbP!IsFiniteSet, ArbP!Banks, ArbP!Ups

\* The arbiter's specification is that of DramArbProofs.
LEMMA ArbNextSame == Arb!Next => ArbP!Next
BY ZenonT(60) DEF Arb!Banks, ArbP!Banks, Arb!Ups, ArbP!Ups, Arb!Range, ArbP!Range,
  Arb!bufVars, ArbP!bufVars, Arb!camVars, ArbP!camVars, Arb!respVars, ArbP!respVars,
  Arb!reqVars, ArbP!reqVars, Arb!chanVars, ArbP!chanVars, Arb!loopVars,
  ArbP!loopVars, Arb!Live, ArbP!Live, Arb!CanAccept, ArbP!CanAccept, Arb!Enqueue,
  ArbP!Enqueue, Arb!RecvTimingReqUp, ArbP!RecvTimingReqUp, Arb!TakeOldest,
  ArbP!TakeOldest, Arb!AccessAndRespond, ArbP!AccessAndRespond, Arb!Expected,
  ArbP!Expected, Arb!RecvTimingResp, ArbP!RecvTimingResp, Arb!StartSendResponse,
  ArbP!StartSendResponse, Arb!SendResponseEvent, ArbP!SendResponseEvent,
  Arb!HandleRespRetry, ArbP!HandleRespRetry, Arb!Ahead, ArbP!Ahead, Arb!Sends,
  ArbP!Sends, Arb!Turn, ArbP!Turn, Arb!PopResponse, ArbP!PopResponse,
  Arb!ResponseAccepted, ArbP!ResponseAccepted, Arb!ResponseRefused,
  ArbP!ResponseRefused, Arb!SendRetryReq, ArbP!SendRetryReq, Arb!SendResponseDone,
  ArbP!SendResponseDone, Arb!ArbitrateEvent, ArbP!ArbitrateEvent, Arb!RoundRobin,
  ArbP!RoundRobin, Arb!NextIndex, ArbP!NextIndex, Arb!NextCandidate,
  ArbP!NextCandidate, Arb!NoCandidate, ArbP!NoCandidate, Arb!CheckPendingRequests,
  ArbP!CheckPendingRequests, Arb!Again, ArbP!Again, Arb!BankDone, ArbP!BankDone,
  Arb!ReadSent, ArbP!ReadSent, Arb!ReadRefused, ArbP!ReadRefused, Arb!NoReadSent,
  ArbP!NoReadSent, Arb!WriteSent, ArbP!WriteSent, Arb!WriteRefused,
  ArbP!WriteRefused, Arb!NoWriteSent, ArbP!NoWriteSent, Arb!HandleReqRetry,
  ArbP!HandleReqRetry, Arb!SendResponseStep, ArbP!SendResponseStep,
  Arb!ArbitrateStep, ArbP!ArbitrateStep, Arb!Next, ArbP!Next

LEMMA ArbInitSame == Arb!Init => ArbP!Init
BY ZenonT(60) DEF Arb!Init, ArbP!Init, Arb!PerPort, ArbP!PerPort, Arb!Banks, ArbP!Banks,
   Arb!Ups, ArbP!Ups

LEMMA ArbVarsSame == UNCHANGED arbVars => UNCHANGED ArbP!vars /\ UNCHANGED Arb!vars
BY ZenonT(60) DEF arbVars, ArbP!vars, ArbP!bufVars, ArbP!camVars, ArbP!respVars,
   ArbP!reqVars, ArbP!chanVars, ArbP!loopVars, Arb!vars, Arb!bufVars, Arb!camVars,
   Arb!respVars, Arb!reqVars, Arb!chanVars, Arb!loopVars

ArbIInv == ArbP!TypeOK /\ ArbP!Room /\ ArbP!Routed /\ ArbP!Balanced

LEMMA ArbGives == ArbIInv => ArbInvariants
<1>1. ArbP!TypeOK => Arb!TypeOK
  BY ZenonT(60) DEF ArbP!TypeOK, ArbP!BufType, ArbP!CamType, ArbP!RespType, ArbP!ReqType,
     ArbP!ChanType, ArbP!LoopType, ArbP!Responses, ArbP!Banks, ArbP!Ups,
     Arb!TypeOK, Arb!BufType, Arb!CamType, Arb!RespType, Arb!ReqType,
     Arb!ChanType, Arb!LoopType, Arb!Responses, Arb!Banks, Arb!Ups
<1>2. ArbP!Room /\ ArbP!Routed =>
        Arb!Capacity /\ Arb!RetryHasRoom /\ Arb!InStep /\ Arb!ToIssuer
  BY ZenonT(60) DEF ArbP!Room, ArbP!Capacity, ArbP!RetryHasRoom, ArbP!Routed, ArbP!InStep,
     ArbP!ToIssuer, ArbP!Banks, Arb!Capacity, Arb!RetryHasRoom, Arb!InStep,
     Arb!ToIssuer, Arb!Banks
<1>3. ArbP!Balanced => ArbP!Accounting
  BY ZenonT(60) DEF ArbP!Balanced, ArbP!Balance, ArbP!Counts, ArbP!Of, ArbP!Waiting,
     ArbP!Accounting, ArbP!Unanswered
<1>4. ArbP!Accounting => Arb!Accounting
  BY ZenonT(60) DEF ArbP!Accounting, ArbP!Unanswered, ArbP!Cardinality, ArbP!Range,
     ArbP!Banks, ArbP!Ups,
     Arb!Accounting, Arb!Unanswered, Arb!Cardinality, Arb!Range, Arb!Banks, Arb!Ups
<1>5. ArbP!Balanced =>
        \A b \in Arb!Banks :
          /\ \A u \in Arb!Ups : \A p \in Arb!Range(readInBufs[b][u]) :
               PktUp[p] = u /\ PktBank[p] = b /\ p \notin inflight[b]
          /\ \A p \in inflight[b] : PktBank[p] = b
  BY ZenonT(60) DEF ArbP!Balanced, ArbP!Balance, ArbP!Tidy, ArbP!Range, ArbP!Banks,
     ArbP!Ups, Arb!Range, Arb!Banks, Arb!Ups
<1> QED
  BY <1>1, <1>2, <1>3, <1>4, <1>5, ZenonT(60) DEF ArbIInv, ArbInvariants

LEMMA ArbStarts == Arb!Init => ArbIInv
BY ArbInitSame, ArbConstants, ArbP!TypeInit, ArbP!RoomInit, ArbP!RoutedInit,
   ArbP!BalancedInit, SMTT(60) DEF ArbIInv, ArbP!ArbAssumption

LEMMA ArbKept == ArbIInv /\ [ArbP!Next]_(ArbP!vars) => ArbIInv'
BY ArbConstants, ArbP!TypeStep, ArbP!RoomStep, ArbP!RoutedStep, ArbP!BalancedStep,
   SMTT(60) DEF ArbIInv, ArbP!ArbAssumption

------------------------------------------------------------------------------
(* The invariant of the whole path.                                        *)

PathIInv == TypeOK /\ ArbIInv /\ ChanP!IInv /\ PathInv

LEMMA PathIInit == PathInit => PathIInv
BY TypeInit, ArbStarts, ChanStarts, PortsStart, AskedStart, SMTT(60)
   DEF PathIInv, PathInv, PathInit

LEMMA FactsHold == PathIInv => PathFacts
BY ArbGives, ChanGives, SMTT(60) DEF PathIInv, PathFacts

\* What a step of the path is to each component.
LEMMA ComponentSteps ==
  PathIInv /\ [PathNext]_pathVars =>
    /\ [Next]_vars /\ [Arb!Next]_(Arb!vars) /\ [ArbP!Next]_(ArbP!vars)
    /\ [ChanP!Next]_(ChanP!vars) /\ PathInv'
BY FactsHold, PathSteps, ArbNextSame, ArbVarsSame, ChanNextSame, ChanVarsSame, SMTT(60)

LEMMA PathIStep == PathIInv /\ [PathNext]_pathVars => PathIInv'
BY ComponentSteps, TypeStep, ArbKept, ChanKept, SMTT(60) DEF PathIInv

LEMMA PathInvariant == PathSpec => []PathIInv
BY PathIInit, PathIStep, PTL DEF PathSpec

\* In the path the buffers behave as UpBuffer specifies: the arbiter is a peer
\* that UpBuffer allows for.
THEOREM PathRunsBuffers == PathSpec => Spec
<1>1. PathInit => Init
  BY SMTT(60) DEF PathInit
<1> QED
  BY <1>1, ComponentSteps, PathInvariant, PTL DEF PathSpec, Spec

\* In the path the arbiter behaves as DramArb specifies: UpBuffer and DRAMSim3
\* keep the protocol that the arbiter's theorems assume of its peers.
THEOREM PathRunsArbiter == PathSpec => Arb!Spec
<1>1. PathInit => Arb!Init
  BY SMTT(60) DEF PathInit
<1> QED
  BY <1>1, ComponentSteps, PathInvariant, PTL DEF PathSpec, Arb!Spec

\* In the path the channels behave as DramSim3 specifies for an arbiter that sends
\* nothing on a port that owes it a retry: DRAMArb is one.
THEOREM PathRunsChannels == PathSpec => ChanP!Spec
<1>1. PathInit => ChanP!Init
  BY ChanInitSame, SMTT(60) DEF PathInit
<1> QED
  BY <1>1, ComponentSteps, PathInvariant, PTL DEF PathSpec, ChanP!Spec

\* What a buffer believes of the arbiter and what the arbiter believes of the
\* buffer and of the channel agree at every moment: the reads waited for, the
\* retries owed on either side, and the reads in the channel.
THEOREM PathPeersAgree == PathSpec => []PeersAgree
<1>1. PathIInv => PeersAgree
  BY FactsHold, PathMeaning, SMTT(60)
<1> QED
  BY <1>1, PathInvariant, PTL

\* The DRAM library never refuses a read of arbitrateReadRequests, as long as its
\* queue is at least as long as the arbiter's limit.
THEOREM PathLibraryHasRoom == PathSpec => []LibraryHasRoom
<1>1. PathIInv => LibraryHasRoom
  BY FactsHold, PathMeaning, SMTT(60)
<1> QED
  BY <1>1, PathInvariant, PTL

LEMMA ArbSpecSame == PathSpec => ArbP!Spec
<1>1. PathInit => ArbP!Init
  BY ArbInitSame, SMTT(60) DEF PathInit
<1> QED
  BY <1>1, ComponentSteps, PathInvariant, PTL DEF PathSpec, ArbP!Spec

\* No assertion of dramsim3.cpp, and none of recvTimingResp in dram_arb.cpp, fails
\* in the path.
THEOREM PathNoAssertionTrips == PathSpec => []NoAssertionTrips
<1>1. ArbP!ResponseExpected => Arb!ResponseExpected
  BY ZenonT(60) DEF ArbP!ResponseExpected, ArbP!Expected, ArbP!Banks,
     Arb!ResponseExpected, Arb!Expected, Arb!Banks
<1>2. PathIInv /\ ArbP!ResponseExpected => NoAssertionTrips
  BY <1>1, FactsHold, PathMeaning, SMTT(60)
<1>3. ArbP!Spec => []ArbP!ResponseExpected
  BY ArbP!AssertionsHold, ArbConstants, SMT, ZenonT(30) DEF ArbP!ArbAssumption
<1> QED
  BY <1>2, <1>3, ArbSpecSame, PathInvariant, PTL

\* The path comes to rest with room on a port only when the head of the bank's
\* response queue is for a full port, a response was left in the channel, or one of
\* the two forgotten wake-ups of dram_arb.cpp happened: nothing else is lost.
THEOREM PathRestsOnlyBlocked == PathSpec => []RestsOnlyBlocked
<1>1. /\ ArbP!ResponseWakeup => Arb!ResponseWakeup
      /\ ArbP!LastBankServed => Arb!LastBankServed
  BY ZenonT(60) DEF ArbP!ResponseWakeup, ArbP!Banks, ArbP!LastBankServed, ArbP!Ups,
     ArbP!CheckPendingRequests, Arb!ResponseWakeup, Arb!Banks, Arb!LastBankServed,
     Arb!Ups, Arb!CheckPendingRequests
<1>2. PathIInv /\ NoPortIdle /\ ArbP!ResponseWakeup /\ ArbP!LastBankServed => RestsOnlyBlocked
  BY <1>1, FactsHold, PathMeaning, SMTT(60)
<1>3. ArbP!Spec => []ArbP!ResponseWakeup /\ []ArbP!LastBankServed
  BY ArbP!ResponseNeverForgotten, ArbP!LastBankKept, ArbConstants, SMT, ZenonT(30) DEF ArbP!ArbAssumption
<1> QED
  BY <1>2, <1>3, ArbSpecSame, PathRunsBuffers, PortsKeepAsking, PathInvariant, PTL
=============================================================================
