-------------------------- MODULE MemoryPathSteps --------------------------
(***************************************************************************)
(* The steps of the memory path that main.cpp builds, given the invariants *)
(* of its parts: the two ends of every port agree after each step, the     *)
(* reads of a buffer move on in one of five ways, and a step of the path   *)
(* is a step of each component or leaves it alone.                         *)
(***************************************************************************)
EXTENDS MemoryPath, PathQueues

(* The packets of the path, and the queues they go through.                *)

LEMMA PacketParts ==
  ASSUME NEW p \in Packets
  PROVE  /\ p[1] \in Buffers /\ p[2] \in Ports /\ p[3] \in 0 .. Pool
         /\ p = <<p[1], p[2], p[3]>>
         /\ PktUp[p] = p[1] /\ PktBank[p] = p[2] /\ PktAddr[p] \in Addrs
         /\ IsWrite[p] = FALSE
BY DEF Packets, PktUp, PktBank, PktAddr, Addrs, IsWrite

LEMMA Stride ==
  ASSUME NEW i \in Nat, NEW j \in Nat, NEW m \in Nat, NEW d \in {0, 512},
         NEW e \in {0, 512}, 16384 * i + 64 * m + d = 16384 * j + 64 * m + e
  PROVE  i = j
OBVIOUS

\* Two packets of one bank with the same address come from the same buffer: the
\* buffers' address ranges are 16384 bytes apart and a port uses two of them, 512
\* bytes apart.
LEMMA AddressTellsBuffer ==
  ASSUME NEW x \in Packets, NEW y \in Packets, PktAddr[x] = PktAddr[y], x[2] = y[2]
  PROVE  x[1] = y[1]
<1>1. x[1] \in Nat /\ y[1] \in Nat /\ x[2] \in Nat /\ y[2] \in Nat
  <2>1. x[1] \in Buffers /\ y[1] \in Buffers /\ x[2] \in Ports /\ y[2] \in Ports
    BY PacketParts, ZenonT(30)
  <2> QED
    BY <2>1, PathAssumption, BufferAssumption, SMT, ZenonT(30) DEF Ports
<1> DEFINE d == IF x[3] = 0 THEN 0 ELSE 512
           e == IF y[3] = 0 THEN 0 ELSE 512
           at(v, z) == 16384 * v + 64 * x[2] + z
<1>2. PktAddr[x] = at(x[1], d) /\ PktAddr[y] = at(y[1], e)
  BY DEF PktAddr
<1>3. d \in {0, 512} /\ e \in {0, 512}
  OBVIOUS
<1> HIDE DEF d, e, at
<1>4. at(x[1], d) = at(y[1], e)
  BY <1>2, Zenon
<1> QED
  BY <1>1, <1>3, <1>4, Stride DEF at

\* What the updates of the code do at one point, and that they leave the rest.
LEMMA PointAt ==
  ASSUME NEW A, NEW B, NEW S, NEW f \in [A -> [B -> S]], NEW a \in A, NEW b \in B, NEW d,
         NEW g, g = [f EXCEPT ![a][b] = d]
  PROVE  g[a][b] = d /\ \A c \in A, e \in B : ~(c = a /\ e = b) => g[c][e] = f[c][e]
OBVIOUS

LEMMA AddsAt ==
  ASSUME NEW f \in [Ports -> [Buffers -> Seq(Packets)]], NEW b \in Ports, NEW u \in Buffers,
         NEW p, NEW f2, f2 = [f EXCEPT ![b][u] = Append(@, p)]
  PROVE  Adds(f[b], u, p, f2[b]) /\ Only(f, f2, b)
BY DEF Adds, Only

LEMMA TakesAt ==
  ASSUME NEW f \in [Ports -> [Buffers -> Seq(Packets)]], NEW b \in Ports, NEW u \in Buffers,
         f[b][u] # <<>>, NEW f2, f2 = [f EXCEPT ![b][u] = Tail(@)]
  PROVE  Takes(f[b], u, f2[b]) /\ Only(f, f2, b)
BY DEF Takes, Only

LEMMA OnlyAt ==
  ASSUME NEW S, NEW f \in [Ports -> S], NEW b \in Ports, NEW d, NEW f2,
         f2 = [f EXCEPT ![b] = d]
  PROVE  f2[b] = d /\ Only(f, f2, b)
BY DEF Only

LEMMA OnlySame == \A f, b : Only(f, f, b)
BY DEF Only

------------------------------------------------------------------------------
(* The reads of one channel, on which the two sides of the port agree.     *)

LEMMA RangeType ==
  ASSUME NEW S, NEW s \in Seq(S)
  PROVE  Range(s) \subseteq S
BY DEF Range

LEMMA CarriesAdd ==
  ASSUME NEW g, NEW q, NEW r, Carries(g, q, r), NEW p \in Packets, p \notin g,
         NEW q2 \in [Addrs -> Seq(Packets)], q2[PktAddr[p]] = Append(q[PktAddr[p]], p),
         \A a \in Addrs : a # PktAddr[p] => q2[a] = q[a]
  PROVE  Carries(g \cup {p}, q2, r)
<1>0. SUFFICES ASSUME NEW d \in Addrs, d = PktAddr[p] PROVE Carries(g \cup {p}, q2, r)
  BY PacketParts, ZenonT(30)
<1>1. q[d] \in Seq(Packets) /\ p \notin Range(q[d]) /\ p \notin Range(r)
  BY <1>0 DEF Carries
<1>2. Range(q2[d]) = Range(q[d]) \cup {p} /\ Distinct(q2[d])
  <2>1. q2[d] = Append(q[d], p) /\ Distinct(q[d])
    BY <1>0 DEF Carries
  <2> QED
    BY <1>1, <2>1, AppendRange
<1>3. ASSUME NEW a \in Addrs
      PROVE  /\ Distinct(q2[a])
             /\ \A x \in Range(q2[a]) : PktAddr[x] = a /\ x \notin Range(r)
  <2>1. CASE a = d
    BY <1>0, <1>1, <1>2, <2>1, Zenon DEF Carries
  <2>2. CASE a # d
    BY <1>0, <2>2, Zenon DEF Carries
  <2> QED
    BY <2>1, <2>2
<1>4. ASSUME NEW x \in Packets
      PROVE  x \in Range(q2[PktAddr[x]]) <=> x \in Range(q[PktAddr[x]]) \/ x = p
  BY <1>0, <1>2, PacketParts, Zenon
<1>5. g \cup {p} = {x \in Packets : x \in Range(q2[PktAddr[x]]) \cup Range(r)}
  BY <1>4 DEF Carries
<1> QED
  BY <1>3, <1>5, Zenon DEF Carries

LEMMA CarriesMove ==
  ASSUME NEW g, NEW q, NEW r, Carries(g, q, r), NEW d \in Addrs, q[d] # <<>>,
         NEW q2 \in [Addrs -> Seq(Packets)], q2[d] = Tail(q[d]),
         \A a \in Addrs : a # d => q2[a] = q[a]
  PROVE  Carries(g, q2, Append(r, Head(q[d])))
<1> DEFINE h == Head(q[d])  r2 == Append(r, h)
<1>1. q[d] \in Seq(Packets) /\ Distinct(q[d]) /\ r \in Seq(Packets) /\ Distinct(r)
  BY DEF Carries
<1>2. /\ h \in Packets /\ Range(q[d]) = Range(q2[d]) \cup {h}
      /\ Distinct(q2[d]) /\ h \notin Range(q2[d])
  BY <1>1, TailRange, Zenon
<1>3. PktAddr[h] = d /\ h \notin Range(r)
  BY <1>2, Zenon DEF Carries
<1>4. r2 \in Seq(Packets) /\ Range(r2) = Range(r) \cup {h} /\ Distinct(r2)
  <2>1. r2 \in Seq(Packets)
    BY <1>1, <1>2
  <2> HIDE DEF h
  <2> QED
    BY <1>1, <1>2, <1>3, <2>1, AppendRange
<1> HIDE DEF h, r2
<1>5. ASSUME NEW a \in Addrs
      PROVE  /\ Distinct(q2[a])
             /\ \A x \in Range(q2[a]) : PktAddr[x] = a /\ x \notin Range(r2)
  <2>1. CASE a = d
    BY <1>2, <1>4, <2>1, Zenon DEF Carries
  <2>2. CASE a # d
    BY <1>3, <1>4, <2>2, Zenon DEF Carries
  <2> QED
    BY <2>1, <2>2
<1>6. ASSUME NEW x \in Packets
      PROVE  x \in Range(q2[PktAddr[x]]) \cup Range(r2) <=>
               x \in Range(q[PktAddr[x]]) \cup Range(r)
  <2>1. PktAddr[x] \in Addrs
    BY PacketParts, ZenonT(30)
  <2> QED
    BY <1>2, <1>3, <1>4, <2>1, Zenon
<1>7. g = {x \in Packets : x \in Range(q2[PktAddr[x]]) \cup Range(r2)}
  BY <1>6, Zenon DEF Carries
<1> QED
  BY <1>4, <1>5, <1>7, Zenon DEF Carries, r2, h

LEMMA CarriesReturn ==
  ASSUME NEW g, NEW q, NEW r, Carries(g, q, r), r # <<>>
  PROVE  Head(r) \in g /\ Carries(g \ {Head(r)}, q, Tail(r))
<1> DEFINE h == Head(r)  t == Tail(r)
<1>1. r \in Seq(Packets) /\ Distinct(r)
  BY DEF Carries
<1>2. /\ h \in Packets /\ t \in Seq(Packets) /\ Range(r) = Range(t) \cup {h}
      /\ Distinct(t) /\ h \notin Range(t)
  BY <1>1, TailRange, Zenon
<1> HIDE DEF h, t
<1>3. h \in g
  BY <1>2, Zenon DEF Carries
<1>4. \A a \in Addrs : h \notin Range(q[a])
  BY <1>2, Zenon DEF Carries
<1>5. ASSUME NEW x \in Packets
      PROVE  x \in Range(q[PktAddr[x]]) \cup Range(t) <=>
               x \in Range(q[PktAddr[x]]) \cup Range(r) /\ x # h
  <2>1. PktAddr[x] \in Addrs
    BY PacketParts, ZenonT(30)
  <2> QED
    BY <1>2, <1>4, <2>1, Zenon
<1>6. g \ {h} = {x \in Packets : x \in Range(q[PktAddr[x]]) \cup Range(t)}
  BY <1>5, Zenon DEF Carries
<1>7. Carries(g \ {h}, q, t)
  BY <1>2, <1>6, Zenon DEF Carries
<1> QED
  BY <1>3, <1>7 DEF h, t

------------------------------------------------------------------------------
(* The arbiter's and the channels' definitions, in the path's terms.       *)

LEMMA BuffersAreUps ==
  /\ Cardinality(Buffers) \in Nat \ {0}
  /\ Arb!Ups = Buffers /\ Arb!Banks = Ports /\ Arb!Responses = Records
<1>1. Cardinality(Buffers) \in 1 .. 5 /\ Buffers = 0 .. Cardinality(Buffers) - 1
  BY PathAssumption
<1>2. Cardinality(Buffers) \in Nat \ {0}
  BY <1>1
<1>3. Arb!Ups = Buffers /\ Arb!Banks = Ports
  BY <1>1 DEF Arb!Ups, Arb!Banks, Ports
<1> QED
  BY <1>2, <1>3 DEF Arb!Responses, Records

LEMMA SameRange == \A f : Arb!Range(f) = Range(f)
BY DEF Arb!Range, Range

LEMMA ArbTypes ==
  ASSUME Arb!TypeOK
  PROVE  /\ readInBufs \in [Ports -> [Buffers -> Seq(Packets)]]
         /\ writeInBufs \in [Ports -> [Buffers -> Seq(Packets)]]
         /\ outstandingReads \in [Ports -> [Addrs -> Seq(Packets)]]
         /\ outstandingUpstream \in [Ports -> [Addrs -> Seq(Buffers)]]
         /\ nbrOutstandingReads \in [Ports -> Nat]
         /\ inflight \in [Ports -> SUBSET Packets]
         /\ responseQueue \in [Ports -> Seq(Records)]
         /\ waiting \in [Ports -> [Buffers -> BOOLEAN]]
         /\ blocked \in [Ports -> [Buffers -> BOOLEAN]]
         /\ bank \in Ports /\ target \in Buffers
BY BuffersAreUps DEF Arb!TypeOK, Arb!BufType, Arb!CamType, Arb!RespType, Arb!ReqType,
                     Arb!ChanType, Arb!LoopType

LEMMA ChanTypes ==
  ASSUME Chan!TypeOK
  PROVE  /\ chReads \in [Ports -> [Addrs -> Seq(Packets)]] /\ chQueue \in [Ports -> Seq(Packets)]
         /\ chNbrReads \in [Ports -> Nat] /\ dramReads \in [Addrs -> Nat]
         /\ chRetryResp \in [Ports -> BOOLEAN] /\ chRespScheduled \in [Ports -> BOOLEAN]
BY DEF Chan!TypeOK

LEMMA LiveParts ==
  ASSUME NEW p \in Packets
  PROVE  Arb!Live(p) <=>
           \/ p \in Range(readInBufs[p[2]][p[1]]) \/ p \in Range(writeInBufs[p[2]][p[1]])
           \/ p \in Range(outstandingReads[p[2]][PktAddr[p]]) \/ p \in inflight[p[2]]
           \/ p \in PktsOf(responseQueue[p[2]])
<1>1. PktBank[p] = p[2] /\ PktUp[p] = p[1]
  BY PacketParts, ZenonT(30)
<1> QED
  BY <1>1, Zenon DEF Arb!Live, Arb!Range, Range, PktsOf

------------------------------------------------------------------------------
(* What the proof knows of a state of the path.                            *)

\* What the arbiter's invariants give, whatever its peers do: queued reads are in
\* the queue of their own upstream and bank and not yet in the channel.
OwnQueues ==
  \A b \in Ports :
    /\ \A u \in Buffers : \A p \in Range(readInBufs[b][u]) :
         p[1] = u /\ p[2] = b /\ p \notin inflight[b]
    /\ \A p \in inflight[b] : p[2] = b

ArbFacts ==
  /\ Arb!TypeOK /\ Arb!InStep /\ Arb!ToIssuer /\ Arb!Capacity /\ Arb!RetryHasRoom
  /\ Arb!Accounting /\ OwnQueues

\* What the channel's invariants give.
ChanFacts ==
  /\ Chan!TypeOK /\ Chan!RecordsMatch /\ ~failed
  /\ \A c \in Ports : chRespScheduled[c] => chQueue[c] # <<>> /\ ~chRetryResp[c]

\* A buffer can always make a packet that is nowhere in the path.
PacketsLast ==
  \A u \in Buffers, b \in Ports :
    /\ Fresh(u, b) \in Packets /\ Fresh(u, b)[1] = u /\ Fresh(u, b)[2] = b
    /\ ~Arb!Live(Fresh(u, b))

\* The two ends of a port agree on who waits for whom.  A buffer that refused a
\* response is full: nothing drains it.
FlagsAgree ==
  \A b \in Ports, u \in Buffers :
    /\ wants[u][b] = waiting[b][u] /\ stuck[u][b] = blocked[b][u]
    /\ stuck[u][b] => Full(u, b)

\* Arbiter and channel agree on the reads in the channel.
FlowAgrees == \A b \in Ports : Carries(inflight[b], chReads[b], chQueue[b])

\* The buffers only read, and the arbiter is never refused.
NoWrites == \A b \in Ports, u \in Buffers : writeInBufs[b][u] = <<>>
NoneOwed == \A b \in Ports : owed[b] = FALSE

PortsAgree == FlagsAgree /\ FlowAgrees /\ NoWrites /\ NoneOwed

LEMMA QueuedHere ==
  ASSUME ArbFacts, NEW b \in Ports, NEW u \in Buffers, NEW p \in Range(readInBufs[b][u])
  PROVE  p[1] = u /\ p[2] = b /\ p \notin inflight[b]
BY DEF ArbFacts, OwnQueues

------------------------------------------------------------------------------
(* How the reads of a buffer move: a step leaves them, a new one joins an   *)
(* input queue, one goes to the channel, one comes back as a response, and  *)
(* one leaves for its buffer.                                               *)

Stays == UNCHANGED <<asked, readInBufs, inflight, responseQueue>>

Joins(b, u, p) ==
  /\ p[1] = u /\ p \notin Waits(readInBufs[b], inflight[b])
  /\ Adds(readInBufs[b], u, p, readInBufs'[b]) /\ Only(readInBufs, readInBufs', b)
  /\ asked' = [asked EXCEPT ![u][b] = asked[u][b] + 1]
  /\ UNCHANGED <<inflight, responseQueue>>

Goes(b, u) ==
  /\ Takes(readInBufs[b], u, readInBufs'[b]) /\ Only(readInBufs, readInBufs', b)
  /\ inflight' = [inflight EXCEPT ![b] = inflight[b] \cup {Head(readInBufs[b][u])}]
  /\ UNCHANGED <<asked, responseQueue>>

Comes(b, p, e) ==
  /\ p \in inflight[b] /\ NotQueued(readInBufs[b], p) /\ e.up = p[1]
  /\ inflight' = [inflight EXCEPT ![b] = inflight[b] \ {p}]
  /\ responseQueue' = [responseQueue EXCEPT ![b] = Append(responseQueue[b], e)]
  /\ UNCHANGED <<asked, readInBufs>>

Leaves(b, u) ==
  /\ responseQueue[b] # <<>> /\ Head(responseQueue[b]).up = u
  /\ asked' = [asked EXCEPT ![u][b] = asked[u][b] - 1]
  /\ responseQueue' = [responseQueue EXCEPT ![b] = Tail(responseQueue[b])]
  /\ UNCHANGED <<readInBufs, inflight>>

Moves ==
  \/ Stays
  \/ \E b \in Ports, u \in Buffers : Goes(b, u) \/ Leaves(b, u)
  \/ \E b \in Ports, u \in Buffers, p \in Packets : Joins(b, u, p)
  \/ \E b \in Ports, p \in Packets, e \in Records : Comes(b, p, e)

------------------------------------------------------------------------------
(* Each step of the path.                                                  *)

LEMMA FlagsFrame ==
  FlagsAgree /\ UNCHANGED <<wants, stuck, bufferData, waiting, blocked>> => FlagsAgree'
BY DEF FlagsAgree, Full

LEMMA FlowFrame ==
  FlowAgrees /\ UNCHANGED <<inflight, chReads, chQueue>> => FlowAgrees'
BY DEF FlowAgrees

LEMMA QuietFrame == NoWrites /\ NoneOwed /\ UNCHANGED <<writeInBufs, owed>>
                      => NoWrites' /\ NoneOwed'
BY DEF NoWrites, NoneOwed

\* A step that calls no peer.
LEMMA AloneStep ==
  ASSUME PortsAgree,
         \/ \E u \in Buffers : Start(u) \/ TickBuffer(u)
         \/ SkipPort \/ ArbAlone \/ UNCHANGED pathVars
  PROVE  PortsAgree' /\ Stays
<1>1. UNCHANGED <<bufferData, asked, wants, stuck, readInBufs, writeInBufs, inflight,
                  responseQueue, waiting, blocked, chReads, chQueue, owed>>
  <2>1. ASSUME NEW u \in Buffers, Start(u) \/ TickBuffer(u)
        PROVE  UNCHANGED <<bufferData, peerVars, arbVars, chanVars>>
    BY <2>1 DEF Start, TickBuffer, InitObject, SendpktEvent, StartLoop
  <2>2. CASE SkipPort
    BY <2>2, SMT, ZenonT(30) DEF SkipPort, SkipFullPort, NextPort, arbVars, chanVars
  <2>3. CASE ArbAlone
    BY <2>3, ZenonT(30) DEF ArbAlone, vars, peerVars, chanVars, Arb!ArbitrateEvent,
                Arb!SendResponseEvent, Arb!NoReadSent, Arb!NoWriteSent,
                Arb!SendResponseDone, Arb!bufVars, Arb!respVars, Arb!reqVars,
                Arb!chanVars
  <2>4. CASE UNCHANGED pathVars
    BY <2>4 DEF pathVars, vars, peerVars, arbVars, chanVars
  <2> QED
    BY <2>1, <2>2, <2>3, <2>4 DEF peerVars, arbVars, chanVars
<1> QED
  BY <1>1, FlagsFrame, FlowFrame, QuietFrame DEF PortsAgree, Stays

\* A request is accepted, or refused and remembered, on both sides of the port.
LEMMA FlagsPut ==
  ASSUME TypeOK, Arb!TypeOK, FlagsAgree, NEW u \in Buffers, NEW b \in Ports,
         NEW w, NEW w2, w = w2, wants' = [wants EXCEPT ![u][b] = w],
         waiting' = [waiting EXCEPT ![b][u] = w2],
         UNCHANGED <<stuck, bufferData, blocked>>
  PROVE  FlagsAgree'
<1>1. /\ wants \in [Buffers -> [Ports -> BOOLEAN]]
      /\ waiting \in [Ports -> [Buffers -> BOOLEAN]]
  BY ArbTypes DEF TypeOK, FlagType
<1>2. /\ wants'[u][b] = w
      /\ \A v \in Buffers, c \in Ports : ~(v = u /\ c = b) => wants'[v][c] = wants[v][c]
  BY <1>1, PointAt, Zenon
<1>3. /\ waiting'[b][u] = w2
      /\ \A c \in Ports, v \in Buffers : ~(c = b /\ v = u) => waiting'[c][v] = waiting[c][v]
  BY <1>1, PointAt, Zenon
<1>4. ASSUME NEW c \in Ports, NEW v \in Buffers PROVE wants'[v][c] = waiting'[c][v]
  <2>1. CASE v = u /\ c = b
    BY <1>2, <1>3, <2>1, Zenon
  <2>2. CASE ~(v = u /\ c = b)
    <3>1. wants'[v][c] = wants[v][c] /\ waiting'[c][v] = waiting[c][v]
      BY <1>2, <1>3, <2>2
    <3>2. wants[v][c] = waiting[c][v]
      BY DEF FlagsAgree
    <3> QED
      BY <3>1, <3>2
  <2> QED
    BY <2>1, <2>2
<1> QED
  BY <1>4, Zenon DEF FlagsAgree, Full

\* A packet that is nowhere in the path joins the queue of its buffer.
LEMMA JoinsQueue ==
  ASSUME ArbFacts, NEW p \in Packets, ~Arb!Live(p), NEW b \in Ports, NEW u \in Buffers,
         p[1] = u, p[2] = b,
         readInBufs' = [readInBufs EXCEPT ![b][u] = Append(@, p)],
         asked' = [asked EXCEPT ![u][b] = asked[u][b] + 1],
         UNCHANGED <<inflight, responseQueue>>
  PROVE  Joins(b, u, p)
<1>1. p \notin Waits(readInBufs[b], inflight[b])
  <2>1. p \notin Range(readInBufs[b][u]) /\ p \notin inflight[b]
    BY LiveParts
  <2>2. \A v \in Buffers : p \in Range(readInBufs[b][v]) => v = u
    BY QueuedHere
  <2> QED
    BY <2>1, <2>2, Zenon DEF Waits
<1>2. Adds(readInBufs[b], u, p, readInBufs'[b]) /\ Only(readInBufs, readInBufs', b)
  BY ArbTypes, AddsAt, ZenonT(30) DEF ArbFacts
<1> QED
  BY <1>1, <1>2, Zenon DEF Joins

\* The packet of Ask is one of the buffer's.
LEMMA AskedPacket ==
  ASSUME TypeOK, PacketsLast
  PROVE  LET p == IF loop = "init" THEN <<buf, port, 0>> ELSE Fresh(buf, port)
         IN  buf \in Buffers /\ port \in Ports /\ p \in Packets /\ p[1] = buf /\ p[2] = port
<1>1. buf \in Buffers /\ port \in Ports
  BY DEF TypeOK, LoopType
<1>2. CASE loop = "init"
  <2>1. 0 \in 0 .. Pool
    BY BufferAssumption DEF Pool
  <2> QED
    BY <1>1, <1>2, <2>1 DEF Packets
<1>3. CASE loop # "init"
  BY <1>1, <1>3 DEF PacketsLast
<1> QED
  BY <1>2, <1>3

LEMMA AskStep ==
  ASSUME TypeOK, ArbFacts, PacketsLast, PortsAgree, Ask
  PROVE  PortsAgree' /\ Moves
<1> DEFINE p == IF loop = "init" THEN <<buf, port, 0>> ELSE Fresh(buf, port)
<1>1. /\ buf \in Buffers /\ port \in Ports /\ Arb!TypeOK
      /\ p \in Packets /\ p[1] = buf /\ p[2] = port
  BY AskedPacket DEF ArbFacts
<1>2. SendTimingReq(Arb!CanAccept(p)) /\ Arb!RecvTimingReqUp(p) /\ UNCHANGED chanVars
  BY DEF Ask
<1> HIDE DEF p
<1>3. PktBank[p] = port /\ PktUp[p] = buf /\ IsWrite[p] = FALSE
  BY <1>1, PacketParts, ZenonT(30)
<1>4. UNCHANGED <<inflight, responseQueue, blocked, stuck, bufferData, owed, chReads, chQueue>>
  BY <1>2 DEF SendTimingReq, NextPort, Arb!RecvTimingReqUp, Arb!respVars, Arb!chanVars,
              chanVars
<1>5. FlowAgrees'
  BY <1>4, FlowFrame DEF PortsAgree
<1>6. CASE Arb!CanAccept(p)
  <2>1. /\ asked' = [asked EXCEPT ![buf][port] = asked[buf][port] + 1]
        /\ wants' = [wants EXCEPT ![buf][port] = wants[buf][port] \/ FALSE]
    BY <1>2, <1>6, SMT, ZenonT(30) DEF SendTimingReq
  <2>2. /\ readInBufs' = [readInBufs EXCEPT ![port][buf] = Append(@, p)]
        /\ UNCHANGED <<writeInBufs, waiting>> /\ ~Arb!Live(p)
    BY <1>2, <1>3, <1>6, SMT, ZenonT(30) DEF Arb!RecvTimingReqUp, Arb!Enqueue, Arb!reqVars
  <2>3. Joins(port, buf, p)
    BY <1>1, <1>4, <2>1, <2>2, JoinsQueue, ZenonT(30)
  <2>4. wants' = wants
    <3>1. wants \in [Buffers -> [Ports -> BOOLEAN]]
      BY DEF TypeOK, FlagType
    <3>2. (wants[buf][port] \/ FALSE) = wants[buf][port]
      BY <1>1, <3>1
    <3> QED
      BY <1>1, <2>1, <3>1, <3>2
  <2>5. PortsAgree'
    BY <1>4, <1>5, <2>2, <2>4, FlagsFrame, QuietFrame, SMT, ZenonT(30) DEF PortsAgree
  <2> QED
    BY <1>1, <2>3, <2>5 DEF Moves
<1>7. CASE ~Arb!CanAccept(p)
  <2>1. /\ asked' = [asked EXCEPT ![buf][port] = asked[buf][port]]
        /\ wants' = [wants EXCEPT ![buf][port] = wants[buf][port] \/ TRUE]
    BY <1>2, <1>7, ZenonT(30) DEF SendTimingReq
  <2>2. /\ waiting' = [waiting EXCEPT ![port][buf] = TRUE]
        /\ UNCHANGED <<readInBufs, writeInBufs>>
    BY <1>2, <1>3, <1>7 DEF Arb!RecvTimingReqUp, Arb!bufVars
  <2>3. asked' = asked
    BY <1>1, <2>1 DEF TypeOK, CountType
  <2>4. FlagsAgree'
    <3>1. (wants[buf][port] \/ TRUE) = TRUE
      OBVIOUS
    <3> QED
      BY <1>1, <1>4, <2>1, <2>2, <3>1, FlagsPut, ZenonT(30) DEF PortsAgree
  <2> QED
    BY <1>4, <1>5, <2>2, <2>3, <2>4, QuietFrame, SMT, ZenonT(30) DEF PortsAgree, Moves, Stays
<1> QED
  BY <1>6, <1>7

\* There is room for the read that a buffer sends from inside recvReqRetry.
LEMMA RetryStep ==
  ASSUME TypeOK, ArbFacts, PacketsLast, PortsAgree, Retry
  PROVE  PortsAgree' /\ Moves
<1> DEFINE p == Fresh(target, bank)
<1>1. target \in Buffers /\ bank \in Ports /\ Arb!TypeOK
  BY ArbTypes DEF ArbFacts
<1>2. p \in Packets /\ p[1] = target /\ p[2] = bank /\ ~Arb!Live(p)
  BY <1>1 DEF PacketsLast
<1>3. /\ Arb!SendRetryReq /\ SendRetryReq(target, bank, Arb!CanAccept(p))
      /\ Arb!CanAccept(p) =>
           readInBufs' = [readInBufs EXCEPT ![bank][target] = Append(@, p)]
      /\ UNCHANGED chanVars
  BY DEF Retry
<1> HIDE DEF p
<1>4. Arb!CanAccept(p) = TRUE
  <2>1. pc = "retry"
    BY <1>3 DEF Arb!SendRetryReq
  <2>2. nbrOutstandingReads[bank] + Len(responseQueue[bank]) < MaxAsked
    BY <2>1 DEF ArbFacts, Arb!RetryHasRoom
  <2>3. PktBank[p] = bank /\ IsWrite[p] = FALSE
    BY <1>2, PacketParts, ZenonT(30)
  <2> QED
    BY <2>2, <2>3, SMT, ZenonT(30) DEF Arb!CanAccept
<1>5. /\ asked' = [asked EXCEPT ![target][bank] = asked[target][bank] + 1]
      /\ wants' = [wants EXCEPT ![target][bank] = FALSE]
      /\ UNCHANGED <<bufferData, stuck>>
  BY <1>3, <1>4, ZenonT(30) DEF SendRetryReq
<1>6. UNCHANGED <<inflight, responseQueue, blocked, owed, chReads, chQueue>>
  BY <1>3 DEF Arb!SendRetryReq, Arb!respVars, Arb!chanVars, chanVars
<1>7. Joins(bank, target, p)
  BY <1>1, <1>2, <1>3, <1>4, <1>5, <1>6, JoinsQueue, ZenonT(30)
<1>8. readInBufs' # readInBufs
  <2>1. readInBufs[bank][target] \in Seq(Packets)
    BY <1>1, ArbTypes
  <2>2. Append(readInBufs[bank][target], p) # readInBufs[bank][target]
    BY <1>2, <2>1, SMT, ZenonT(30)
  <2> QED
    BY <1>7, <2>2 DEF Joins, Adds
<1>9. UNCHANGED writeInBufs /\ waiting' = [waiting EXCEPT ![bank][target] = FALSE]
  <2>1. PICK q \in Packets :
          Arb!Enqueue(q) /\ waiting' = [waiting EXCEPT ![bank][target] = FALSE]
    BY <1>3, <1>8 DEF Arb!SendRetryReq, Arb!bufVars
  <2> QED
    BY <2>1, PacketParts, ZenonT(30) DEF Arb!Enqueue
<1>10. FlagsAgree'
  BY <1>1, <1>5, <1>6, <1>9, FlagsPut, ZenonT(30) DEF PortsAgree
<1>11. PortsAgree'
  BY <1>6, <1>9, <1>10, FlowFrame, QuietFrame DEF PortsAgree
<1> QED
  BY <1>1, <1>2, <1>7, <1>11 DEF Moves

\* The channel's side changes at bank b only.
LEMMA FlowStep ==
  ASSUME FlowAgrees, NEW b \in Ports, Only(inflight, inflight', b),
         Only(chReads, chReads', b), Only(chQueue, chQueue', b),
         Carries(inflight'[b], chReads'[b], chQueue'[b])
  PROVE  FlowAgrees'
<1>1. ASSUME NEW c \in Ports PROVE Carries(inflight'[c], chReads'[c], chQueue'[c])
  <2>1. CASE c = b
    BY <2>1
  <2>2. CASE c # b
    <3>1. /\ inflight'[c] = inflight[c] /\ chReads'[c] = chReads[c]
          /\ chQueue'[c] = chQueue[c]
      BY <2>2, Zenon DEF Only
    <3>2. Carries(inflight[c], chReads[c], chQueue[c])
      BY Zenon DEF FlowAgrees
    <3> QED
      BY <3>1, <3>2, Zenon
  <2> QED
    BY <2>1, <2>2
<1> QED
  BY <1>1, Zenon DEF FlowAgrees

\* The round robin has one candidate, the head of the queue of one buffer: the
\* read ReadSent takes is the one the channel gets.
LEMMA OneCandidate ==
  ASSUME Arb!TypeOK, NEW i \in Arb!Ups, NEW j \in Arb!Ups,
         Arb!NextCandidate(readInBufs, rrReadIdx, i), Arb!NextCandidate(readInBufs, rrReadIdx, j)
  PROVE  i = j
<1>1. i \in Nat /\ j \in Nat /\ k \in Nat /\ k <= i /\ k <= j
  BY BuffersAreUps DEF Arb!TypeOK, Arb!LoopType, Arb!Ups, Arb!NextCandidate
<1>2. ~(i \in k .. j - 1) /\ ~(j \in k .. i - 1)
  BY DEF Arb!NextCandidate
<1> QED
  BY <1>1, <1>2

LEMMA CandidateAt ==
  ASSUME ArbFacts, NEW j \in Arb!Ups, Arb!NextCandidate(readInBufs, rrReadIdx, j)
  PROVE  LET u == Arb!RoundRobin(rrReadIdx, j)
             p == Head(readInBufs[bank][u])
         IN  /\ u \in Buffers /\ bank \in Ports /\ readInBufs[bank][u] # <<>>
             /\ p \in Packets /\ p \in Range(readInBufs[bank][u])
             /\ p[2] = bank /\ p \notin inflight[bank]
<1> DEFINE u == Arb!RoundRobin(rrReadIdx, j)
<1>1. Arb!TypeOK /\ bank \in Ports
  BY ArbTypes DEF ArbFacts
<1>2. u \in Buffers
  <2>1. rrReadIdx[bank] \in Nat /\ j \in Nat
    BY <1>1, BuffersAreUps DEF Arb!TypeOK, Arb!BufType, Arb!Ups
  <2>2. Cardinality(Buffers) \in Nat /\ Cardinality(Buffers) > 0
    BY BuffersAreUps
  <2>3. u \in Arb!Ups
    BY <2>1, <2>2 DEF Arb!RoundRobin, Arb!Ups
  <2> QED
    BY <2>3, BuffersAreUps
<1>3. readInBufs[bank][u] # <<>>
  BY DEF Arb!NextCandidate
<1> HIDE DEF u
<1>4. Head(readInBufs[bank][u]) \in Packets /\ Head(readInBufs[bank][u]) \in Range(readInBufs[bank][u])
  <2>1. readInBufs[bank][u] \in Seq(Packets)
    BY <1>1, <1>2, ArbTypes, SMT, ZenonT(30)
  <2> QED
    BY <1>3, <2>1, TailRange
<1>5. Head(readInBufs[bank][u])[2] = bank /\ Head(readInBufs[bank][u]) \notin inflight[bank]
  BY <1>1, <1>2, <1>4, QueuedHere, SMT, ZenonT(30)
<1> QED
  BY <1>1, <1>2, <1>3, <1>4, <1>5 DEF u

LEMMA CandidateFacts ==
  ASSUME ArbFacts, NEW p \in Candidates
  PROVE  /\ bank \in Ports /\ p \in Packets /\ p[2] = bank /\ p \notin inflight[bank]
         /\ p \in Waits(readInBufs[bank], inflight[bank])
<1>1. PICK j \in Arb!Ups : /\ Arb!NextCandidate(readInBufs, rrReadIdx, j)
                          /\ p = Head(readInBufs[bank][Arb!RoundRobin(rrReadIdx, j)])
  BY SMT, ZenonT(30) DEF Candidates
<1> QED
  BY <1>1, CandidateAt DEF Waits

LEMMA ForwardMoves ==
  ASSUME ArbFacts, Forward
  PROVE  \E u \in Buffers :
           LET p == Head(readInBufs[bank][u]) IN
             /\ bank \in Ports /\ readInBufs[bank][u] # <<>>
             /\ p \in Packets /\ p[2] = bank /\ p \notin inflight[bank]
             /\ readInBufs' = [readInBufs EXCEPT ![bank][u] = Tail(@)]
             /\ inflight' = [inflight EXCEPT ![bank] = inflight[bank] \cup {p}]
             /\ UNCHANGED <<responseQueue, blocked, waiting, writeInBufs>>
             /\ chReads' = [chReads EXCEPT ![bank][PktAddr[p]] = Append(@, p)]
             /\ UNCHANGED <<chQueue, owed>>
<1>1. PICK j \in Arb!Ups :
        LET u == Arb!RoundRobin(rrReadIdx, j) IN
          /\ Arb!NextCandidate(readInBufs, rrReadIdx, j)
          /\ readInBufs' = [readInBufs EXCEPT ![bank][u] = Tail(@)]
          /\ inflight' = [inflight EXCEPT ![bank] = @ \cup {Head(readInBufs[bank][u])}]
          /\ UNCHANGED <<responseQueue, blocked, waiting, writeInBufs>>
  BY ZenonT(30) DEF Forward, Arb!ReadSent, Arb!Ups, Arb!respVars, Arb!reqVars
<1> DEFINE u == Arb!RoundRobin(rrReadIdx, j)  p == Head(readInBufs[bank][u])
<1>2. /\ u \in Buffers /\ bank \in Ports /\ readInBufs[bank][u] # <<>>
      /\ p \in Packets /\ p[2] = bank /\ p \notin inflight[bank] /\ Arb!TypeOK
  BY <1>1, CandidateAt DEF ArbFacts
<1>3. PICK q \in Candidates : Chan!RequestAccepted(q)
  BY DEF Forward
<1>4. q = p
  <2>1. PICK i \in Arb!Ups : /\ Arb!NextCandidate(readInBufs, rrReadIdx, i)
                            /\ q = Head(readInBufs[bank][Arb!RoundRobin(rrReadIdx, i)])
    BY <1>3 DEF Candidates
  <2>2. i = j
    BY <1>1, <1>2, <2>1, OneCandidate, SMT, ZenonT(30)
  <2> QED
    BY <2>1, <2>2
<1> HIDE DEF u, p
<1>5. /\ chReads' = [chReads EXCEPT ![bank][PktAddr[p]] = Append(@, p)]
      /\ UNCHANGED <<chQueue, owed>>
  <2>1. PktBank[p] = bank /\ IsWrite[p] = FALSE
    BY <1>2, PacketParts, ZenonT(30)
  <2> QED
    BY <1>3, <1>4, <2>1 DEF Chan!RequestAccepted, Chan!Record, Chan!respVars, Chan!reqVars
<1> QED
  BY <1>1, <1>2, <1>5, ZenonT(30) DEF u, p

LEMMA ForwardStep ==
  ASSUME ArbFacts, ChanFacts, PortsAgree, Forward
  PROVE  PortsAgree' /\ Moves
<1>1. PICK u \in Buffers :
        LET p == Head(readInBufs[bank][u]) IN
          /\ bank \in Ports /\ readInBufs[bank][u] # <<>>
          /\ p \in Packets /\ p[2] = bank /\ p \notin inflight[bank]
          /\ readInBufs' = [readInBufs EXCEPT ![bank][u] = Tail(@)]
          /\ inflight' = [inflight EXCEPT ![bank] = inflight[bank] \cup {p}]
          /\ UNCHANGED <<responseQueue, blocked, waiting, writeInBufs>>
          /\ chReads' = [chReads EXCEPT ![bank][PktAddr[p]] = Append(@, p)]
          /\ UNCHANGED <<chQueue, owed>>
  BY ForwardMoves, ZenonT(30)
<1> DEFINE p == Head(readInBufs[bank][u])
<1>2. /\ bank \in Ports /\ readInBufs[bank][u] # <<>> /\ p \in Packets
      /\ p \notin inflight[bank] /\ PktAddr[p] \in Addrs
  BY <1>1, PacketParts, ZenonT(30)
<1>3. UNCHANGED <<asked, wants, stuck, bufferData>>
  BY DEF Forward, vars, peerVars
<1>4. Goes(bank, u)
  <2>1. Takes(readInBufs[bank], u, readInBufs'[bank]) /\ Only(readInBufs, readInBufs', bank)
    BY <1>1, ArbTypes, TakesAt, ZenonT(30) DEF ArbFacts
  <2> QED
    BY <1>1, <1>3, <2>1, Zenon DEF Goes
<1>5. FlowAgrees'
  <2>1. /\ chReads \in [Ports -> [Addrs -> Seq(Packets)]]
        /\ inflight \in [Ports -> SUBSET Packets]
    BY ArbTypes, ChanTypes, ZenonT(30) DEF ArbFacts, ChanFacts
  <2>2. /\ chReads' = [chReads EXCEPT ![bank][PktAddr[p]] = Append(@, p)]
        /\ inflight' = [inflight EXCEPT ![bank] = inflight[bank] \cup {p}]
        /\ UNCHANGED chQueue
    BY <1>1, ZenonT(30)
  <2> HIDE DEF p
  <2>3. inflight'[bank] = inflight[bank] \cup {p} /\ Only(inflight, inflight', bank)
    BY <1>2, <2>1, <2>2, OnlyAt, Zenon
  <2>4. /\ chReads'[bank] \in [Addrs -> Seq(Packets)]
        /\ chReads'[bank][PktAddr[p]] = Append(chReads[bank][PktAddr[p]], p)
        /\ \A a \in Addrs : a # PktAddr[p] => chReads'[bank][a] = chReads[bank][a]
        /\ Only(chReads, chReads', bank)
    BY <1>2, <2>1, <2>2 DEF Only
  <2>5. Carries(inflight[bank], chReads[bank], chQueue[bank])
    BY <1>2, SMT, ZenonT(30) DEF PortsAgree, FlowAgrees
  <2>6. Carries(inflight[bank] \cup {p}, chReads'[bank], chQueue[bank])
    BY <1>2, <2>4, <2>5, CarriesAdd, ZenonT(30)
  <2>7. Only(chQueue, chQueue', bank)
    BY <2>2, OnlySame
  <2> QED
    BY <1>2, <2>2, <2>3, <2>4, <2>6, <2>7, FlowStep, ZenonT(30) DEF PortsAgree
<1>6. PortsAgree'
  BY <1>1, <1>3, <1>5, FlagsFrame, QuietFrame, ZenonT(30) DEF PortsAgree
<1> QED
  BY <1>2, <1>4, <1>6 DEF Moves

LEMMA CompleteStep ==
  ASSUME ChanFacts, PortsAgree, NEW a \in Addrs, Complete(a)
  PROVE  PortsAgree' /\ Stays
<1> DEFINE c == ChanOf[a]
<1>1. c \in Ports
  BY PathAssumption
<1>2. Chan!ReadComplete(c, a) /\ UNCHANGED owed
  BY DEF Complete, Chan!ReadCallback, Chan!GetChannel, Chan!reqVars
<1>3. UNCHANGED <<bufferData, asked, wants, stuck, readInBufs, writeInBufs, inflight,
                  responseQueue, waiting, blocked>>
  BY DEF Complete, vars, peerVars, arbVars
<1> HIDE DEF c
<1>4. FlowAgrees'
  <2>1. CASE chReads[c][a] = <<>> \/ chNbrReads[c] = 0
    <3>1. UNCHANGED <<chReads, chQueue>>
      BY <1>2, <2>1, SMT, ZenonT(30) DEF Chan!ReadComplete, Chan!readVars, Chan!respVars
    <3> QED
      BY <1>3, <3>1, FlowFrame DEF PortsAgree
  <2>2. CASE ~(chReads[c][a] = <<>> \/ chNbrReads[c] = 0)
    <3>1. /\ chReads' = [chReads EXCEPT ![c][a] = Tail(@)]
          /\ chQueue' = [chQueue EXCEPT ![c] = Append(@, Head(chReads[c][a]))]
      BY <1>2, <2>2 DEF Chan!ReadComplete, Chan!AccessAndRespond
    <3>2. /\ chReads \in [Ports -> [Addrs -> Seq(Packets)]]
          /\ chQueue \in [Ports -> Seq(Packets)]
      BY ChanTypes DEF ChanFacts
    <3>3. /\ chReads'[c] \in [Addrs -> Seq(Packets)] /\ chReads'[c][a] = Tail(chReads[c][a])
          /\ \A d \in Addrs : d # a => chReads'[c][d] = chReads[c][d]
          /\ Only(chReads, chReads', c)
      BY <1>1, <2>2, <3>1, <3>2, SMT, ZenonT(30) DEF Only
    <3>4. /\ chQueue'[c] = Append(chQueue[c], Head(chReads[c][a]))
          /\ Only(chQueue, chQueue', c)
      BY <1>1, <3>1, <3>2 DEF Only
    <3>5. Carries(inflight[c], chReads[c], chQueue[c])
      BY <1>1, SMT, ZenonT(30) DEF PortsAgree, FlowAgrees
    <3>6. Carries(inflight[c], chReads'[c], Append(chQueue[c], Head(chReads[c][a])))
      BY <2>2, <3>3, <3>5, CarriesMove
    <3>7. Only(inflight, inflight', c)
      BY <1>3, OnlySame
    <3> QED
      BY <1>1, <1>3, <3>3, <3>4, <3>6, <3>7, FlowStep, ZenonT(30) DEF PortsAgree
  <2> QED
    BY <2>1, <2>2
<1> QED
  BY <1>2, <1>3, <1>4, FlagsFrame, QuietFrame, SMT, ZenonT(30) DEF PortsAgree, Stays

\* The arbiter matches the response by its address; the upstream it takes from
\* its map is the one of the packet.
LEMMA AnswersOwnUpstream ==
  ASSUME ArbFacts, NEW p \in Packets, Arb!Expected(p[2], PktAddr[p])
  PROVE  LET e == [pkt |-> Head(outstandingReads[p[2]][PktAddr[p]]),
                   up  |-> Head(outstandingUpstream[p[2]][PktAddr[p]])]
         IN  e \in Records /\ e.up = p[1]
<1> DEFINE b == p[2]  a == PktAddr[p]
           reads == outstandingReads[b][a]  ups == outstandingUpstream[b][a]
<1>1. b \in Ports /\ a \in Addrs
  BY PacketParts, ZenonT(30)
<1>2. reads \in Seq(Packets) /\ ups \in Seq(Buffers) /\ reads # <<>> /\ ups # <<>>
  <2>1. reads \in Seq(Packets) /\ ups \in Seq(Buffers)
    BY <1>1, ArbTypes DEF ArbFacts
  <2> QED
    BY <2>1 DEF Arb!Expected
<1>3. \A i \in DOMAIN reads :
        ups[i] = PktUp[reads[i]] /\ PktAddr[reads[i]] = a /\ PktBank[reads[i]] = b
  <2>1. Arb!InStep
    BY DEF ArbFacts
  <2>2. b \in Arb!Banks /\ a \in Addrs
    BY <1>1, BuffersAreUps
  <2>3. \A x \in Arb!Banks, y \in Addrs : \A i \in DOMAIN outstandingReads[x][y] :
          /\ outstandingUpstream[x][y][i] = PktUp[outstandingReads[x][y][i]]
          /\ PktAddr[outstandingReads[x][y][i]] = y
          /\ PktBank[outstandingReads[x][y][i]] = x
    BY <2>1, Zenon DEF Arb!InStep
  <2> HIDE DEF a, b
  <2> QED
    BY <2>2, <2>3, SMT, ZenonT(30)
<1> HIDE DEF reads, ups
<1>4. Head(reads) = reads[1] /\ Head(ups) = ups[1] /\ 1 \in DOMAIN reads
  BY <1>2
<1>5. Head(reads) \in Packets /\ Head(ups) \in Buffers
  BY <1>2
<1>6. Head(ups) = PktUp[Head(reads)] /\ PktAddr[Head(reads)] = a /\ PktBank[Head(reads)] = b
  BY <1>3, <1>4
<1> HIDE DEF a, b
<1>7. Head(ups) = p[1]
  <2> DEFINE x == Head(reads)
  <2>1. x \in Packets /\ PktAddr[x] = PktAddr[p] /\ x[2] = p[2] /\ Head(ups) = x[1]
    BY <1>5, <1>6, PacketParts, ZenonT(30) DEF a, b
  <2> HIDE DEF x
  <2> QED
    BY <2>1, AddressTellsBuffer
<1>8. [pkt |-> Head(reads), up |-> Head(ups)] \in Records
  BY <1>5 DEF Records
<1> QED
  BY <1>7, <1>8 DEF reads, ups, a, b

LEMMA ReturnStep ==
  ASSUME ArbFacts, ChanFacts, PortsAgree, NEW c \in Ports, Return(c)
  PROVE  PortsAgree' /\ Moves
<1>1. /\ chRespScheduled[c] /\ UNCHANGED <<chReads, owed>>
      /\ Chan!SendResponseEvent(c, TRUE)
  BY ZenonT(30) DEF Return, Chan!SendResponseEvent, Chan!readVars, Chan!reqVars
<1>2. chQueue[c] # <<>> /\ chRetryResp[c] = FALSE
  BY <1>1, ChanTypes DEF ChanFacts
<1> DEFINE p == Head(chQueue[c])
<1>3. chQueue' = [chQueue EXCEPT ![c] = Tail(@)]
  BY <1>1, <1>2 DEF Chan!SendResponseEvent, Chan!SendResponse
<1>4. Arb!RecvTimingResp(p) /\ UNCHANGED <<bufferData, asked, wants, stuck>>
  BY <1>2 DEF Return, vars, peerVars
<1>5. Carries(inflight[c], chReads[c], chQueue[c])
  BY DEF PortsAgree, FlowAgrees
<1>6. p \in inflight[c] /\ Carries(inflight[c] \ {p}, chReads[c], Tail(chQueue[c]))
  BY <1>2, <1>5, CarriesReturn, ZenonT(30)
<1> HIDE DEF p
<1>7. p \in Packets /\ p[2] = c /\ PktBank[p] = c
  <2>1. p \in Packets
    BY <1>6, ArbTypes DEF ArbFacts
  <2> QED
    BY <1>6, <2>1, PacketParts, ZenonT(30) DEF ArbFacts, OwnQueues
<1> DEFINE e == [pkt |-> Head(outstandingReads[c][PktAddr[p]]),
                 up  |-> Head(outstandingUpstream[c][PktAddr[p]])]
<1>8. /\ inflight' = [inflight EXCEPT ![c] = inflight[c] \ {p}]
      /\ responseQueue' = [responseQueue EXCEPT ![c] = Append(responseQueue[c], e)]
      /\ UNCHANGED <<readInBufs, writeInBufs, waiting, blocked>>
      /\ Arb!Expected(c, PktAddr[p])
  BY <1>4, <1>7, SMT, ZenonT(30) DEF Arb!RecvTimingResp, Arb!AccessAndRespond, Arb!bufVars, Arb!reqVars
<1>9. e \in Records /\ e.up = p[1]
  BY <1>7, <1>8, AnswersOwnUpstream, ZenonT(30)
<1> HIDE DEF e
<1>10. Comes(c, p, e)
  <2>1. NotQueued(readInBufs[c], p)
    BY <1>6, QueuedHere, SMT, ZenonT(30) DEF NotQueued
  <2> QED
    BY <1>4, <1>6, <1>8, <1>9, <2>1, Zenon DEF Comes
<1>11. FlowAgrees'
  <2>1. chQueue \in [Ports -> Seq(Packets)] /\ inflight \in [Ports -> SUBSET Packets]
    BY ArbTypes, ChanTypes, SMT, ZenonT(30) DEF ArbFacts, ChanFacts
  <2>2. chQueue'[c] = Tail(chQueue[c]) /\ Only(chQueue, chQueue', c)
    BY <1>3, <2>1, OnlyAt, ZenonT(30)
  <2>3. inflight'[c] = inflight[c] \ {p} /\ Only(inflight, inflight', c)
    BY <1>8, <2>1, OnlyAt, ZenonT(30)
  <2>4. Only(chReads, chReads', c)
    BY <1>1, OnlySame
  <2> QED
    BY <1>1, <1>6, <2>2, <2>3, <2>4, FlowStep, SMT, ZenonT(30) DEF PortsAgree
<1>12. PortsAgree'
  BY <1>1, <1>4, <1>8, <1>11, FlagsFrame, QuietFrame DEF PortsAgree
<1> QED
  BY <1>7, <1>9, <1>10, <1>12 DEF Moves

\* A full buffer refuses the response, and both sides remember it.
LEMMA DeliverStep ==
  ASSUME TypeOK, ArbFacts, PortsAgree, NEW b \in Ports, NEW i \in Buffers, Deliver(b, i)
  PROVE  PortsAgree' /\ Moves
<1> DEFINE u == Head(responseQueue[b]).up
<1>1. /\ responseQueue[b] # <<>> /\ RecvTimingResp(u, b)
      /\ IF Full(u, b) THEN Arb!ResponseRefused(b, i) ELSE Arb!ResponseAccepted(b, i)
      /\ UNCHANGED <<chReads, chQueue, owed>>
  BY DEF Deliver, Arb!Turn, Arb!Sends, chanVars
<1>2. /\ u \in Buffers /\ blocked \in [Ports -> [Buffers -> BOOLEAN]]
  <2>1. responseQueue[b] \in Seq(Records) /\ blocked \in [Ports -> [Buffers -> BOOLEAN]]
    BY ArbTypes DEF ArbFacts
  <2>2. Head(responseQueue[b]) \in Records
    BY <1>1, <2>1, SMT, ZenonT(30)
  <2> QED
    BY <2>1, <2>2 DEF Records
<1>3. UNCHANGED <<readInBufs, writeInBufs, inflight, waiting, wants>>
  BY <1>1, ZenonT(30) DEF RecvTimingResp, Arb!ResponseRefused, Arb!ResponseAccepted, Arb!bufVars,
              Arb!chanVars, Arb!reqVars
<1>4. FlowAgrees' /\ NoWrites' /\ NoneOwed'
  BY <1>1, <1>3, FlowFrame, QuietFrame DEF PortsAgree
<1>5. /\ stuck \in [Buffers -> [Ports -> BOOLEAN]]
      /\ bufferData \in [Buffers -> [Ports -> 0 .. BufSize + 1]]
  BY DEF TypeOK, FlagType, CountType
<1>6. CASE Full(u, b)
  <2>1. /\ stuck' = [stuck EXCEPT ![u][b] = TRUE]
        /\ blocked' = [blocked EXCEPT ![b][u] = TRUE]
        /\ UNCHANGED <<bufferData, asked, responseQueue>>
    BY <1>1, <1>6 DEF RecvTimingResp, Arb!ResponseRefused
  <2> HIDE DEF u
  <2>2. /\ stuck'[u][b] = TRUE
        /\ \A v \in Buffers, c \in Ports : ~(v = u /\ c = b) => stuck'[v][c] = stuck[v][c]
    BY <1>2, <1>5, <2>1, PointAt, ZenonT(30)
  <2>3. /\ blocked'[b][u] = TRUE
        /\ \A c \in Ports, v \in Buffers :
             ~(c = b /\ v = u) => blocked'[c][v] = blocked[c][v]
    BY <1>2, <2>1, PointAt, ZenonT(30)
  <2>4. ASSUME NEW c \in Ports, NEW v \in Buffers
        PROVE  /\ wants'[v][c] = waiting'[c][v] /\ stuck'[v][c] = blocked'[c][v]
               /\ stuck'[v][c] => Full(v, c)'
    <3>1. Full(v, c)' = Full(v, c)
      BY <2>1 DEF Full
    <3>2. /\ wants[v][c] = waiting[c][v] /\ stuck[v][c] = blocked[c][v]
          /\ stuck[v][c] => Full(v, c)
      BY ZenonT(30) DEF PortsAgree, FlagsAgree
    <3>3. CASE v = u /\ c = b
      BY <1>3, <1>6, <2>2, <2>3, <3>1, <3>2, <3>3, ZenonT(30)
    <3>4. CASE ~(v = u /\ c = b)
      BY <1>3, <2>2, <2>3, <3>1, <3>2, <3>4
    <3> QED
      BY <3>3, <3>4
  <2> QED
    BY <1>3, <1>4, <2>1, <2>4, ZenonT(30) DEF PortsAgree, FlagsAgree, Moves, Stays
<1>7. CASE ~Full(u, b)
  <2>1. /\ stuck' = [stuck EXCEPT ![u][b] = FALSE]
        /\ bufferData' = [bufferData EXCEPT ![u][b] = bufferData[u][b] + 1]
        /\ asked' = [asked EXCEPT ![u][b] = asked[u][b] - 1]
        /\ responseQueue' = [responseQueue EXCEPT ![b] = Tail(responseQueue[b])]
        /\ UNCHANGED blocked
    BY <1>1, <1>7, ZenonT(30) DEF RecvTimingResp, Arb!ResponseAccepted, Arb!PopResponse
  <2>2. Leaves(b, u)
    BY <1>1, <1>3, <2>1, Zenon DEF Leaves
  <2> HIDE DEF u
  <2>3. /\ stuck'[u][b] = FALSE
        /\ \A v \in Buffers, c \in Ports : ~(v = u /\ c = b) => stuck'[v][c] = stuck[v][c]
    BY <1>2, <1>5, <2>1, PointAt, ZenonT(30)
  <2>4. \A v \in Buffers, c \in Ports :
          ~(v = u /\ c = b) => bufferData'[v][c] = bufferData[v][c]
    BY <1>2, <1>5, <2>1, PointAt
  <2>5. ASSUME NEW c \in Ports, NEW v \in Buffers
        PROVE  /\ wants'[v][c] = waiting'[c][v] /\ stuck'[v][c] = blocked'[c][v]
               /\ stuck'[v][c] => Full(v, c)'
    <3>1. /\ wants[v][c] = waiting[c][v] /\ stuck[v][c] = blocked[c][v]
          /\ stuck[v][c] => Full(v, c) /\ stuck[v][c] \in BOOLEAN
      BY <1>5 DEF PortsAgree, FlagsAgree
    <3>2. CASE v = u /\ c = b
      <4>1. stuck[v][c] = FALSE /\ stuck'[v][c] = FALSE
        BY <1>7, <2>3, <3>1, <3>2, SMT, ZenonT(30)
      <4>2. blocked'[c][v] = blocked[c][v] /\ wants' = wants /\ waiting' = waiting
        BY <1>3, <2>1
      <4> QED
        BY <3>1, <4>1, <4>2, ZenonT(30)
    <3>3. CASE ~(v = u /\ c = b)
      <4>1. Full(v, c)' = Full(v, c)
        BY <2>4, <3>3 DEF Full
      <4> QED
        BY <1>3, <2>1, <2>3, <3>1, <3>3, <4>1, ZenonT(30)
    <3> QED
      BY <3>2, <3>3
  <2> QED
    BY <1>2, <1>4, <2>2, <2>5, ZenonT(30) DEF PortsAgree, FlagsAgree, Moves
<1> QED
  BY <1>6, <1>7, SMT, ZenonT(30)

LEMMA PortsStep ==
  TypeOK /\ ArbFacts /\ ChanFacts /\ PacketsLast /\ PortsAgree /\ [PathNext]_pathVars
    => PortsAgree' /\ Moves
BY AloneStep, AskStep, RetryStep, ForwardStep, CompleteStep, ReturnStep, DeliverStep
   DEF PathNext, Moves

------------------------------------------------------------------------------
(* A step of the path is a step of each component, or leaves it alone.     *)

\* The arbiter's answer is a truth value.
LEMMA AcceptBoolean ==
  ASSUME ArbFacts, NEW p \in Packets
  PROVE  Arb!CanAccept(p) \in BOOLEAN
<1>1. /\ nbrOutstandingReads \in [Ports -> Nat]
      /\ responseQueue \in [Ports -> Seq(Records)]
  BY ArbTypes DEF ArbFacts
<1>2. /\ nbrOutstandingReads[PktBank[p]] \in Nat
      /\ responseQueue[PktBank[p]] \in Seq(Records)
  BY <1>1, PacketParts, ZenonT(30)
<1>3. MaxAsked \in Nat
  BY BufferAssumption
<1>4. Len(responseQueue[PktBank[p]]) \in Nat
  BY <1>2
<1>5. (nbrOutstandingReads[PktBank[p]] + Len(responseQueue[PktBank[p]]) < MaxAsked) \in BOOLEAN
  BY <1>2, <1>3, <1>4
<1>6. IsWrite[p] = FALSE
  BY PacketParts, ZenonT(30)
<1> QED
  BY <1>5, <1>6, Zenon DEF Arb!CanAccept

LEMMA BufferSteps ==
  ASSUME TypeOK, ArbFacts, PacketsLast, [PathNext]_pathVars
  PROVE  [Next]_vars
<1>1. ASSUME NEW u \in Buffers, Start(u) \/ TickBuffer(u) PROVE Next
  BY <1>1 DEF Start, TickBuffer, Next
<1>2. CASE Ask
  <2>1. \A p \in Packets : Arb!CanAccept(p) \in BOOLEAN
    BY AcceptBoolean
  <2>2. \E p \in Packets : SendTimingReq(Arb!CanAccept(p))
    BY <1>2, AskedPacket DEF Ask
  <2> QED
    BY <2>1, <2>2 DEF Next
<1>3. CASE SkipPort
  BY <1>3 DEF SkipPort, Next
<1>4. CASE Retry
  <2>1. \A p \in Packets : Arb!CanAccept(p) \in BOOLEAN
    BY AcceptBoolean
  <2>2. SendRetryReq(target, bank, Arb!CanAccept(Fresh(target, bank)))
    BY <1>4 DEF Retry
  <2>3. target \in Buffers /\ bank \in Ports /\ Fresh(target, bank) \in Packets
    BY ArbTypes DEF ArbFacts, PacketsLast
  <2> QED
    BY <2>1, <2>2, <2>3 DEF Next
<1>5. ASSUME NEW b \in Ports, NEW u \in Buffers, Deliver(b, u) PROVE Next
  <2>1. responseQueue[b] # <<>> /\ RecvTimingResp(Head(responseQueue[b]).up, b)
    BY <1>5 DEF Deliver, Arb!Turn, Arb!Sends
  <2>2. Head(responseQueue[b]) \in Records
    <3>1. responseQueue[b] \in Seq(Records)
      BY ArbTypes DEF ArbFacts
    <3> QED
      BY <2>1, <3>1
  <2>3. Head(responseQueue[b]).up \in Buffers
    BY <2>2 DEF Records
  <2> QED
    BY <2>1, <2>3, SMT, ZenonT(30) DEF Next
<1>6. CASE ArbAlone \/ Forward
  BY <1>6 DEF ArbAlone, Forward
<1>7. ASSUME NEW a \in Addrs, Complete(a) PROVE UNCHANGED vars
  BY <1>7 DEF Complete
<1>8. ASSUME NEW b \in Ports, Return(b) PROVE UNCHANGED vars
  BY <1>8 DEF Return
<1>9. CASE UNCHANGED pathVars
  BY <1>9 DEF pathVars
<1> QED
  BY <1>1, <1>2, <1>3, <1>4, <1>5, <1>6, <1>7, <1>8, <1>9 DEF PathNext

LEMMA ArbSteps ==
  ASSUME TypeOK, ChanFacts, PacketsLast, [PathNext]_pathVars
  PROVE  [Arb!Next]_arbVars
<1>1. ASSUME NEW u \in Buffers, Start(u) \/ TickBuffer(u) PROVE UNCHANGED arbVars
  BY <1>1 DEF Start, TickBuffer
<1>2. CASE Ask
  <2> DEFINE p == IF loop = "init" THEN <<buf, port, 0>> ELSE Fresh(buf, port)
  <2>2. p \in Packets
    BY AskedPacket
  <2>3. Arb!RecvTimingReqUp(p)
    BY <1>2 DEF Ask
  <2> QED
    BY <2>2, <2>3, Zenon DEF Arb!Next
<1>3. CASE SkipPort
  BY <1>3 DEF SkipPort
<1>4. CASE Retry
  BY <1>4 DEF Retry, Arb!Next, Arb!SendResponseStep
<1>5. ASSUME NEW b \in Ports, NEW u \in Buffers, Deliver(b, u) PROVE Arb!Next
  <2>1. Arb!ResponseRefused(b, u) \/ Arb!ResponseAccepted(b, u)
    BY <1>5 DEF Deliver
  <2> QED
    BY <2>1, BuffersAreUps DEF Arb!Next, Arb!SendResponseStep
<1>6. CASE ArbAlone
  BY <1>6 DEF ArbAlone, Arb!Next, Arb!SendResponseStep, Arb!ArbitrateStep
<1>7. CASE Forward
  BY <1>7 DEF Forward, Arb!Next, Arb!ArbitrateStep
<1>8. ASSUME NEW a \in Addrs, Complete(a) PROVE UNCHANGED arbVars
  BY <1>8 DEF Complete
<1>9. ASSUME NEW b \in Ports, Return(b) PROVE Arb!Next \/ UNCHANGED arbVars
  <2>1. CASE chQueue[b] = <<>>
    BY <1>9, <2>1 DEF Return
  <2>2. CASE chQueue[b] # <<>>
    <3>1. chQueue[b] \in Seq(Packets)
      BY ChanTypes DEF ChanFacts
    <3>2. Head(chQueue[b]) \in Packets
      BY <2>2, <3>1
    <3>3. Arb!RecvTimingResp(Head(chQueue[b]))
      BY <1>9, <2>2 DEF Return
    <3> QED
      BY <3>2, <3>3 DEF Arb!Next
  <2> QED
    BY <2>1, <2>2, SMT, ZenonT(30)
<1>10. CASE UNCHANGED pathVars
  BY <1>10 DEF pathVars
<1> QED
  BY <1>1, <1>2, <1>3, <1>4, <1>5, <1>6, <1>7, <1>8, <1>9, <1>10, SMT, ZenonT(30) DEF PathNext

\* The channel sees a request only when it owes no retry.
ChanStep ==
  \/ \E p \in Packets : Chan!RequestAccepted(p) /\ ~owed[PktBank[p]]
  \/ \E a \in Addrs : Chan!ReadCallback(a)
  \/ \E c \in Ports : Chan!SendResponseEvent(c, TRUE)

LEMMA ChanSteps ==
  ASSUME ArbFacts, NoneOwed, [PathNext]_pathVars
  PROVE  [ChanStep]_chanVars
<1>1. ASSUME NEW u \in Buffers, Start(u) \/ TickBuffer(u) PROVE UNCHANGED chanVars
  BY <1>1 DEF Start, TickBuffer
<1>2. CASE Ask \/ SkipPort \/ ArbAlone \/ Retry
  BY <1>2 DEF Ask, SkipPort, ArbAlone, Retry
<1>3. CASE Forward
  <2>1. PICK p \in Candidates : Chan!RequestAccepted(p)
    BY <1>3 DEF Forward
  <2>2. p \in Packets /\ PktBank[p] \in Ports
    BY CandidateFacts, PacketParts, ZenonT(30)
  <2> QED
    BY <2>1, <2>2, ZenonT(30) DEF ChanStep, NoneOwed
<1>4. ASSUME NEW a \in Addrs, Complete(a) PROVE ChanStep
  BY <1>4, ZenonT(30) DEF Complete, ChanStep
<1>5. ASSUME NEW b \in Ports, Return(b) PROVE ChanStep
  BY <1>5, ZenonT(30) DEF Return, ChanStep
<1>6. ASSUME NEW b \in Ports, NEW u \in Buffers, Deliver(b, u) PROVE UNCHANGED chanVars
  BY <1>6 DEF Deliver
<1>7. CASE UNCHANGED pathVars
  BY <1>7 DEF pathVars
<1> QED
  BY <1>1, <1>2, <1>3, <1>4, <1>5, <1>6, <1>7, SMT, ZenonT(30) DEF PathNext

------------------------------------------------------------------------------
(* What the agreement of the ports says of the whole path.                 *)

LEMMA TripFact == ArbFacts /\ ChanFacts /\ PortsAgree /\ Arb!ResponseExpected => NoAssertionTrips
<1> SUFFICES ASSUME ArbFacts, ChanFacts, PortsAgree, Arb!ResponseExpected,
                    NEW c \in Ports, chRespScheduled[c]
             PROVE  chQueue[c] # <<>> /\ Arb!Expected(c, PktAddr[Head(chQueue[c])])
  BY DEF NoAssertionTrips, ChanFacts
<1>1. chQueue[c] # <<>>
  BY SMT, ZenonT(30) DEF ChanFacts
<1>2. Carries(inflight[c], chReads[c], chQueue[c])
  BY DEF PortsAgree, FlowAgrees
<1>3. chQueue[c] \in Seq(Packets)
  BY <1>2 DEF Carries
<1>4. Head(chQueue[c]) \in Packets /\ Head(chQueue[c]) \in Range(chQueue[c])
  BY <1>1, <1>3, TailRange, SMT, ZenonT(30)
<1>5. Head(chQueue[c]) \in inflight[c]
  BY <1>2, <1>4, SMT, ZenonT(30) DEF Carries
<1> QED
  BY <1>1, <1>5, BuffersAreUps DEF Arb!ResponseExpected

\* What a buffer waits for is in its input queue, in the channel or a response.
Somewhere ==
  \A u \in Buffers, b \in Ports : asked[u][b] > 0 =>
    \/ readInBufs[b][u] # <<>>
    \/ \E p \in inflight[b] : p \in Packets /\ p[1] = u
    \/ responseQueue[b] # <<>>

LEMMA RestFact ==
  ArbFacts /\ ChanFacts /\ PortsAgree /\ Somewhere /\ NoPortIdle
    /\ Arb!ResponseWakeup /\ Arb!LastBankServed => RestsOnlyBlocked
<1> SUFFICES ASSUME ArbFacts, ChanFacts, PortsAgree, Somewhere, NoPortIdle,
                    Arb!ResponseWakeup, Arb!LastBankServed, AtRest,
                    NEW u \in Buffers, NEW b \in Ports, ~Full(u, b), ~RetryForgotten(u, b)
             PROVE  HeadBlocked(b) \/ LeftInChannel(u, b) \/ RequestForgotten(u, b)
  BY DEF RestsOnlyBlocked
<1>1. asked[u][b] > 0
  BY Zenon DEF NoPortIdle, AtRest, RetryForgotten
<1>2. CASE responseQueue[b] # <<>>
  <2>1. responseQueue[b] \in Seq(Records)
    BY ArbTypes DEF ArbFacts
  <2>2. Head(responseQueue[b]) \in Records
    BY <1>2, <2>1
  <2>3. Head(responseQueue[b]).up \in Buffers
    BY <2>2, SMT, ZenonT(30) DEF Records
  <2>4. blocked[b][Head(responseQueue[b]).up]
    BY <1>2, BuffersAreUps, SMT, ZenonT(30) DEF Arb!ResponseWakeup, AtRest
  <2>5. Full(Head(responseQueue[b]).up, b)
    BY <2>3, <2>4 DEF PortsAgree, FlagsAgree
  <2> QED
    BY <1>2, <2>5 DEF HeadBlocked
<1>3. CASE readInBufs[b][u] # <<>>
  <2>1. CASE b = NumPorts - 1
    <3>1. Arb!CheckPendingRequests(readInBufs, writeInBufs, b)
      BY <1>3, BuffersAreUps, SMT, ZenonT(30) DEF Arb!CheckPendingRequests
    <3> QED
      BY <2>1, <3>1, SMT, ZenonT(30) DEF Arb!LastBankServed, AtRest
  <2>2. CASE b # NumPorts - 1
    BY <1>3, <2>2, BufferAssumption, SMT, ZenonT(30) DEF RequestForgotten, Ports
  <2> QED
    BY <2>1, <2>2, SMT, ZenonT(30)
<1>4. ASSUME NEW p \in inflight[b], p \in Packets, p[1] = u
      PROVE  LeftInChannel(u, b)
  <2>1. Carries(inflight[b], chReads[b], chQueue[b])
    BY DEF PortsAgree, FlowAgrees
  <2>2. PktAddr[p] \in Addrs
    BY <1>4, PacketParts, ZenonT(30)
  <2>3. chReads[b][PktAddr[p]] = <<>>
    <3>1. Len(chReads[b][PktAddr[p]]) = 0
      BY <2>2 DEF ChanFacts, Chan!RecordsMatch, Chan!Matches, AtRest
    <3>2. chReads[b][PktAddr[p]] \in Seq(Packets)
      BY <2>1, <2>2, SMT, ZenonT(30) DEF Carries
    <3> QED
      BY <3>1, <3>2
  <2>4. p \in Range(chReads[b][PktAddr[p]]) \cup Range(chQueue[b])
    BY <2>1 DEF Carries
  <2>5. p \in Range(chQueue[b])
    BY <2>3, <2>4 DEF Range
  <2> QED
    BY <1>4, <2>5, SMT, ZenonT(30) DEF LeftInChannel
<1> QED
  BY <1>1, <1>2, <1>3, <1>4 DEF Somewhere

LEMMA PortsStart == PathInit => PortsAgree
<1> SUFFICES ASSUME PathInit PROVE PortsAgree
  OBVIOUS
<1>1. /\ wants = [u \in Buffers |-> [p \in Ports |-> FALSE]]
      /\ stuck = [u \in Buffers |-> [p \in Ports |-> FALSE]]
  BY DEF PathInit, Init, PerPort
<1>2. /\ readInBufs = [b \in Ports |-> [u \in Buffers |-> <<>>]]
      /\ writeInBufs = [b \in Ports |-> [u \in Buffers |-> <<>>]]
      /\ waiting = [b \in Ports |-> [u \in Buffers |-> FALSE]]
      /\ blocked = [b \in Ports |-> [u \in Buffers |-> FALSE]]
      /\ inflight = [b \in Ports |-> {}]
  BY BuffersAreUps DEF PathInit, Arb!Init, Arb!PerPort
<1>3. /\ chReads = [c \in Ports |-> [a \in Addrs |-> <<>>]]
      /\ chQueue = [c \in Ports |-> <<>>] /\ owed = [c \in Ports |-> FALSE]
  BY DEF PathInit, Chan!Init, Chan!PerChan, Chan!PerAddr
<1>4. Range(<<>>) = {}
  BY DEF Range
<1>5. FlagsAgree
  BY <1>1, <1>2, ZenonT(30) DEF FlagsAgree
<1>6. FlowAgrees
  <2> SUFFICES ASSUME NEW b \in Ports PROVE Carries(inflight[b], chReads[b], chQueue[b])
    BY DEF FlowAgrees
  <2>1. \A p \in Packets : PktAddr[p] \in Addrs
    BY PacketParts, ZenonT(30)
  <2> QED
    BY <1>2, <1>3, <1>4, <2>1, SMT, ZenonT(30) DEF Carries, Distinct
<1>7. NoWrites /\ NoneOwed
  BY <1>2, <1>3 DEF NoWrites, NoneOwed
<1> QED
  BY <1>5, <1>6, <1>7 DEF PortsAgree

------------------------------------------------------------------------------
(* The channels' constants and the arbiter's invariants, in the path.      *)

LEMMA ChanConstantsHere ==
  /\ PktAddr \in [Packets -> Addrs] /\ PktBank \in [Packets -> Ports]
  /\ IsWrite \in [Packets -> BOOLEAN] /\ ChanOf \in [Addrs -> Ports]
  /\ QueueSize \in Nat \ {0} /\ \A p \in Packets : ChanOf[PktAddr[p]] = PktBank[p]
<1>1. /\ PktAddr \in [Packets -> Addrs] /\ PktBank \in [Packets -> Ports]
      /\ IsWrite \in [Packets -> BOOLEAN]
  BY PacketParts DEF PktAddr, PktBank, IsWrite
<1>2. QueueSize \in Nat \ {0}
  BY PathAssumption, BufferAssumption, SMT, ZenonT(30)
<1> QED
  BY <1>1, <1>2, PathAssumption

\* What DramArbProofs proves of the arbiter.
ArbInvariants ==
  /\ Arb!TypeOK /\ Arb!InStep /\ Arb!ToIssuer /\ Arb!Capacity /\ Arb!RetryHasRoom
  /\ Arb!Accounting
  /\ \A b \in Arb!Banks :
       /\ \A u \in Arb!Ups : \A p \in Arb!Range(readInBufs[b][u]) :
            PktUp[p] = u /\ PktBank[p] = b /\ p \notin inflight[b]
       /\ \A p \in inflight[b] : PktBank[p] = b

LEMMA ArbFactsHold == ArbInvariants => ArbFacts
<1> SUFFICES ASSUME ArbInvariants PROVE OwnQueues
  BY DEF ArbInvariants, ArbFacts
<1>1. Arb!TypeOK
  BY DEF ArbInvariants
<1>2. ASSUME NEW b \in Ports, NEW u \in Buffers, NEW p \in Range(readInBufs[b][u])
      PROVE  p[1] = u /\ p[2] = b /\ p \notin inflight[b]
  <2>1. PktUp[p] = u /\ PktBank[p] = b /\ p \notin inflight[b]
    BY BuffersAreUps, SameRange DEF ArbInvariants
  <2>2. readInBufs[b][u] \in Seq(Packets)
    BY <1>1, ArbTypes
  <2>3. p \in Packets
    BY <2>2, RangeType
  <2> QED
    BY <2>1, <2>3, PacketParts, ZenonT(30)
<1>3. ASSUME NEW b \in Ports, NEW p \in inflight[b] PROVE p[2] = b
  <2>1. PktBank[p] = b
    BY BuffersAreUps DEF ArbInvariants
  <2>2. p \in Packets
    BY <1>1, ArbTypes
  <2> QED
    BY <2>1, <2>2, PacketParts, ZenonT(30)
<1> QED
  BY <1>2, <1>3, SMT, ZenonT(30) DEF OwnQueues
==============================================================================
