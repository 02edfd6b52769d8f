---------------------------- MODULE DramArbProofs ----------------------------
(***************************************************************************)
(* Theorems about the arbiter, for every number of banks, upstreams and    *)
(* packets and every buffer size.                                          *)
(***************************************************************************)
EXTENDS DramArb, QueueFacts

LEMMA Frame ==
  /\ BufType /\ UNCHANGED bufVars => BufType'
  /\ CamType /\ UNCHANGED camVars => CamType'
  /\ RespType /\ UNCHANGED respVars => RespType'
  /\ ReqType /\ UNCHANGED reqVars => ReqType'
  /\ ChanType /\ UNCHANGED chanVars => ChanType'
  /\ LoopType /\ UNCHANGED loopVars => LoopType'
<1>1. BufType /\ UNCHANGED bufVars => BufType'
  BY DEF BufType, bufVars
<1>2. CamType /\ UNCHANGED camVars => CamType'
  BY DEF CamType, camVars
<1>3. RespType /\ UNCHANGED respVars => RespType'
  BY DEF RespType, respVars
<1>4. ReqType /\ UNCHANGED reqVars => ReqType'
  BY DEF ReqType, reqVars
<1>5. ChanType /\ UNCHANGED chanVars => ChanType'
  BY DEF ChanType, chanVars
<1>6. LoopType /\ UNCHANGED loopVars => LoopType'
  BY DEF LoopType, loopVars
<1> QED
  BY <1>1, <1>2, <1>3, <1>4, <1>5, <1>6

LEMMA PacketType ==
  ASSUME NEW p \in Packets
  PROVE  PktBank[p] \in Banks /\ PktUp[p] \in Ups /\ PktAddr[p] \in Addrs
BY ArbAssumption

LEMMA HeadResponse ==
  ASSUME NEW q \in Seq(Responses), q # <<>>
  PROVE  Head(q) \in Responses /\ Head(q).up \in Ups /\ Head(q).pkt \in Packets
<1>1. Head(q) \in Responses
  OBVIOUS
<1> QED
  BY <1>1 DEF Responses

LEMMA RoundRobinUp ==
  ASSUME bank \in Banks, NEW rr \in [Banks -> Ups], NEW j \in 0 .. NumUp - 1
  PROVE  RoundRobin(rr, j) \in Ups
<1>1. rr[bank] \in Nat /\ j \in Nat
  BY ArbAssumption DEF Ups, MaxUp
<1> QED
  BY <1>1, ArbAssumption DEF RoundRobin, Ups, MaxUp

LEMMA NextIndexUp ==
  ASSUME NEW u \in Ups
  PROVE  NextIndex(u) \in Ups
BY ArbAssumption DEF NextIndex, Ups, MaxUp

------------------------------------------------------------------------------
(* Type correctness.                                                       *)

LEMMA TypeInit == Init => TypeOK
<1> SUFFICES ASSUME Init PROVE TypeOK
  OBVIOUS
<1>1. 0 \in Banks /\ 0 \in Ups
  BY ArbAssumption DEF Banks, Ups, MaxUp
<1>2. <<>> \in Seq(Packets) /\ <<>> \in Seq(Ups) /\ <<>> \in Seq(Responses)
  OBVIOUS
<1>3. BufType
  BY <1>1, <1>2, Zenon DEF Init, PerPort, BufType
<1>4. CamType
  <2>1. nbrOutstandingReads \in [Banks -> Nat]
    BY DEF Init
  <2> QED
    BY <1>2, <2>1, Zenon DEF Init, CamType
<1>5. RespType /\ ReqType /\ ChanType
  BY <1>2, Zenon DEF Init, PerPort, RespType, ReqType, ChanType
<1>6. LoopType
  <2>1. 0 \in 0 .. NumUp
    BY ArbAssumption DEF MaxUp
  <2> QED
    BY <1>1, <2>1, Zenon DEF Init, LoopType
<1> QED
  BY <1>3, <1>4, <1>5, <1>6, ZenonT(30) DEF Init, TypeOK

LEMMA EnqueueType ==
  ASSUME BufType, CamType, NEW p \in Packets, Enqueue(p)
  PROVE  BufType' /\ CamType' /\ arbScheduled' \in BOOLEAN
<1>0. SUFFICES ASSUME NEW b \in Banks, NEW u \in Ups, NEW a \in Addrs,
                      b = PktBank[p], u = PktUp[p], a = PktAddr[p]
               PROVE  BufType' /\ CamType' /\ arbScheduled' \in BOOLEAN
  BY PacketType
<1>1. arbScheduled' \in BOOLEAN
  BY DEF Enqueue
<1>2. CASE PktWrite[p]
  <2>1. /\ writeInBufs' = [writeInBufs EXCEPT ![b][u] = Append(@, p)]
        /\ UNCHANGED <<readInBufs, camVars, rrReadIdx, rrWriteIdx>>
    BY <1>0, <1>2 DEF Enqueue
  <2>2. writeInBufs' \in [Banks -> [Ups -> Seq(Packets)]]
    BY <2>1, AppendType DEF BufType
  <2> QED
    BY <1>1, <2>1, <2>2, Frame DEF BufType
<1>3. CASE ~PktWrite[p]
  <2>1. /\ readInBufs' = [readInBufs EXCEPT ![b][u] = Append(@, p)]
        /\ outstandingReads' = [outstandingReads EXCEPT ![b][a] = Append(@, p)]
        /\ outstandingUpstream' = [outstandingUpstream EXCEPT ![b][a] = Append(@, u)]
        /\ nbrOutstandingReads' = [nbrOutstandingReads EXCEPT ![b] = @ + 1]
        /\ UNCHANGED <<writeInBufs, rrReadIdx, rrWriteIdx>>
    BY <1>0, <1>3 DEF Enqueue
  <2>2. readInBufs' \in [Banks -> [Ups -> Seq(Packets)]]
    BY <2>1, AppendType DEF BufType
  <2>3. outstandingReads' \in [Banks -> [Addrs -> Seq(Packets)]]
    BY <2>1, AppendType DEF CamType
  <2>4. outstandingUpstream' \in [Banks -> [Addrs -> Seq(Ups)]]
    BY <2>1, AppendType DEF CamType
  <2>5. nbrOutstandingReads' \in [Banks -> Nat]
    BY <2>1 DEF CamType
  <2>6. BufType'
    BY <2>1, <2>2 DEF BufType
  <2>7. CamType'
    BY <2>3, <2>4, <2>5, Zenon DEF CamType
  <2> QED
    BY <1>1, <2>6, <2>7, Zenon
<1> QED
  BY <1>2, <1>3

LEMMA BankDoneType ==
  ASSUME LoopType, arbScheduled \in BOOLEAN, NEW sent \in BOOLEAN, BankDone(sent)
  PROVE  LoopType' /\ arbScheduled' \in BOOLEAN
<1>1. 0 \in Banks /\ 0 \in 0 .. NumUp /\ NumBanks \in Nat
  BY ArbAssumption DEF Banks, MaxUp
<1>2. CheckPendingRequests(readInBufs', writeInBufs', bank) \in BOOLEAN
  BY DEF CheckPendingRequests
<1>3. bank + 1 < NumBanks => bank + 1 \in Banks
  BY <1>1 DEF LoopType, Banks
<1>4. CASE bank + 1 < NumBanks
  BY <1>1, <1>2, <1>3, <1>4 DEF BankDone, LoopType
<1>5. CASE ~(bank + 1 < NumBanks)
  BY <1>1, <1>2, <1>5, ZenonT(30) DEF BankDone, LoopType, Again
<1> QED
  BY <1>4, <1>5

LEMMA TypeStep == TypeOK /\ [Next]_vars => TypeOK'
<1> SUFFICES ASSUME TypeOK, [Next]_vars PROVE TypeOK'
  OBVIOUS
<1> USE Frame
<1>0. /\ BufType /\ CamType /\ RespType /\ ReqType /\ ChanType /\ LoopType
      /\ arbScheduled \in BOOLEAN
  BY DEF TypeOK
<1>1. ASSUME NEW p \in Packets, RecvTimingReqUp(p)
      PROVE  TypeOK'
  <2>1. RespType' /\ ChanType' /\ LoopType'
    BY <1>0, <1>1 DEF RecvTimingReqUp
  <2>2. CASE CanAccept(p) /\ Enqueue(p) /\ UNCHANGED reqVars
    BY <1>0, <2>1, <2>2, EnqueueType DEF TypeOK
  <2>3. CASE ~(CanAccept(p) /\ Enqueue(p) /\ UNCHANGED reqVars)
    <3>1. /\ retryReq' = [retryReq EXCEPT ![PktBank[p]][PktUp[p]] = TRUE]
          /\ waiting' = [waiting EXCEPT ![PktBank[p]][PktUp[p]] = TRUE]
          /\ UNCHANGED <<bufVars, camVars, arbScheduled>>
      BY <1>1, <2>3 DEF RecvTimingReqUp
    <3>2. ReqType'
      BY <1>0, <3>1, PacketType, PutType, Zenon DEF ReqType
    <3> QED
      BY <1>0, <2>1, <3>1, <3>2 DEF TypeOK
  <2> QED
    BY <2>2, <2>3
<1>2. ASSUME NEW p \in Packets, RecvTimingResp(p)
      PROVE  TypeOK'
  <2>0. SUFFICES ASSUME NEW b \in Banks, NEW a \in Addrs,
                        b = PktBank[p], a = PktAddr[p]
                 PROVE  TypeOK'
    BY PacketType
  <2>1. /\ inflight' = [inflight EXCEPT ![b] = @ \ {p}]
        /\ Expected(b, a) /\ TakeOldest(b, a)
        /\ AccessAndRespond(b, Head(outstandingReads[b][a]),
                            Head(outstandingUpstream[b][a]))
        /\ UNCHANGED <<bufVars, retryResp, blocked, reqVars, chanOwes, loopVars,
                       arbScheduled>>
    BY <1>2, <2>0 DEF RecvTimingResp
  <2>2. outstandingReads[b][a] \in Seq(Packets) /\ outstandingUpstream[b][a] \in Seq(Ups)
    BY <1>0 DEF CamType
  <2>3. CamType'
    <3>1. outstandingReads' \in [Banks -> [Addrs -> Seq(Packets)]]
      BY <1>0, <2>1, TailType DEF CamType, Expected, TakeOldest
    <3>2. outstandingUpstream' \in [Banks -> [Addrs -> Seq(Ups)]]
      BY <1>0, <2>1, TailType DEF CamType, Expected, TakeOldest
    <3>3. nbrOutstandingReads' \in [Banks -> Nat]
      BY <1>0, <2>1 DEF CamType, Expected, TakeOldest
    <3> QED
      BY <3>1, <3>2, <3>3 DEF CamType
  <2>4. RespType'
    <3>1. [pkt |-> Head(outstandingReads[b][a]),
           up |-> Head(outstandingUpstream[b][a])] \in Responses
      BY <2>1, <2>2 DEF Expected, Responses
    <3>2. responseQueue' \in [Banks -> Seq(Responses)]
      BY <1>0, <2>1, <3>1 DEF RespType, AccessAndRespond
    <3> QED
      BY <1>0, <2>1, <3>2 DEF RespType, AccessAndRespond
  <2>5. ChanType'
    BY <1>0, <2>1 DEF ChanType
  <2> QED
    BY <1>0, <2>1, <2>3, <2>4, <2>5 DEF TypeOK
<1>3. CASE SendResponseEvent
  <2>1. LoopType'
    BY <1>0, <1>3, ArbAssumption DEF SendResponseEvent, StartSendResponse, LoopType, Banks, MaxUp
  <2>2. RespType'
    BY <1>0, <1>3, ZenonT(30) DEF SendResponseEvent, RespType
  <2> QED
    BY <1>0, <1>3, <2>1, <2>2 DEF SendResponseEvent, TypeOK
<1>4. ASSUME NEW b \in Banks, NEW u \in Ups, HandleRespRetry(b, u)
      PROVE  TypeOK'
  <2>1. LoopType'
    BY <1>0, <1>4, ArbAssumption DEF HandleRespRetry, StartSendResponse, LoopType, Banks, MaxUp
  <2>2. RespType'
    BY <1>0, <1>4, PutType, Zenon DEF HandleRespRetry, RespType
  <2> QED
    BY <1>0, <1>4, <2>1, <2>2 DEF HandleRespRetry, TypeOK
<1>5. ASSUME NEW b \in Banks, NEW u \in Ups, ResponseAccepted(b, u)
      PROVE  TypeOK'
  <2>1. responseQueue[b] \in Seq(Responses) /\ responseQueue[b] # <<>>
    BY <1>0, <1>5 DEF ResponseAccepted, Turn, Sends, RespType
  <2>2. Head(responseQueue[b]).up \in Ups
    BY <2>1, HeadResponse, Zenon
  <2>3. RespType'
    BY <1>0, <1>5, <2>1 DEF ResponseAccepted, PopResponse, RespType
  <2>4. u \in 0 .. NumUp /\ u + 1 \in 0 .. NumUp
    BY ArbAssumption DEF Ups, MaxUp
  <2>5. LoopType'
    BY <1>0, <1>5, <2>2, <2>4 DEF ResponseAccepted, Turn, LoopType
  <2> QED
    BY <1>0, <1>5, <2>3, <2>5 DEF ResponseAccepted, TypeOK
<1>6. ASSUME NEW b \in Banks, NEW u \in Ups, ResponseRefused(b, u)
      PROVE  TypeOK'
  <2>1. responseQueue[b] \in Seq(Responses) /\ responseQueue[b] # <<>>
    BY <1>0, <1>6 DEF ResponseRefused, Turn, Sends, RespType
  <2>2. Head(responseQueue[b]).up \in Ups
    BY <2>1, HeadResponse
  <2>3. RespType'
    BY <1>0, <1>6, <2>2, PutType, Zenon DEF ResponseRefused, RespType
  <2>4. u + 1 \in 0 .. NumUp
    BY ArbAssumption DEF Ups, MaxUp
  <2>5. LoopType'
    BY <1>0, <1>6, <2>4 DEF ResponseRefused, Turn, LoopType
  <2> QED
    BY <1>0, <1>6, <2>3, <2>5 DEF ResponseRefused, TypeOK
<1>7. CASE SendRetryReq
  <2>1. bank \in Banks /\ k \in Ups /\ target \in Ups
    BY <1>0, <1>7 DEF SendRetryReq, LoopType
  <2>2. LoopType'
    <3>1. 0 \in Ups /\ k + 1 \in 0 .. NumUp
      BY <2>1, ArbAssumption DEF Ups, MaxUp
    <3> QED
      BY <1>0, <1>7, <3>1 DEF SendRetryReq, LoopType
  <2>3. RespType' /\ ChanType'
    BY <1>0, <1>7 DEF SendRetryReq
  <2>4. BufType' /\ CamType' /\ arbScheduled' \in BOOLEAN
    BY <1>0, <1>7, EnqueueType DEF SendRetryReq
  <2>5. ReqType'
    <3>0. \/ retryReq' = [retryReq EXCEPT ![bank][k] = FALSE]
          \/ retryReq' = [[retryReq EXCEPT ![bank][target] = TRUE]
                             EXCEPT ![bank][k] = FALSE]
      BY <1>7, Zenon DEF SendRetryReq
    <3>1. \/ waiting' = [waiting EXCEPT ![bank][target] = FALSE]
          \/ waiting' = [waiting EXCEPT ![bank][target] = TRUE]
      BY <1>7, Zenon DEF SendRetryReq
    <3>2. waiting' \in [Banks -> [Ups -> BOOLEAN]]
      <4>1. waiting \in [Banks -> [Ups -> BOOLEAN]]
        BY <1>0 DEF ReqType
      <4>2. CASE waiting' = [waiting EXCEPT ![bank][target] = FALSE]
        BY <2>1, <4>1, <4>2, PutType, Zenon
      <4>3. CASE waiting' = [waiting EXCEPT ![bank][target] = TRUE]
        BY <2>1, <4>1, <4>3, PutType, Zenon
      <4> QED
        BY <3>1, <4>2, <4>3
    <3>3. retryReq' \in [Banks -> [Ups -> BOOLEAN]]
      <4>1. [retryReq EXCEPT ![bank][target] = TRUE] \in [Banks -> [Ups -> BOOLEAN]]
        BY <1>0, <2>1, PutType, Zenon DEF ReqType
      <4>2. retryReq \in [Banks -> [Ups -> BOOLEAN]]
        BY <1>0 DEF ReqType
      <4>3. CASE retryReq' = [retryReq EXCEPT ![bank][k] = FALSE]
        BY <2>1, <4>2, <4>3, PutType, Zenon
      <4>4. ASSUME NEW f \in [Banks -> [Ups -> BOOLEAN]],
                   retryReq' = [f EXCEPT ![bank][k] = FALSE]
            PROVE  retryReq' \in [Banks -> [Ups -> BOOLEAN]]
        BY <2>1, <4>4, PutType, Zenon
      <4> QED
        BY <3>0, <4>1, <4>3, <4>4, Zenon
    <3> QED
      BY <3>2, <3>3 DEF ReqType
  <2> QED
    BY <2>2, <2>3, <2>4, <2>5 DEF TypeOK
<1>8. CASE SendResponseDone
  <2>1. LoopType'
    BY <1>0, <1>8, ArbAssumption DEF SendResponseDone, LoopType, Banks, MaxUp
  <2> QED
    BY <1>0, <1>8, <2>1 DEF SendResponseDone, TypeOK
<1>9. CASE ArbitrateEvent
  <2>1. LoopType'
    <3>1. 0 \in Banks /\ 0 \in 0 .. NumUp
      BY ArbAssumption DEF Banks, MaxUp
    <3> QED
      BY <1>0, <1>9, <3>1, Zenon DEF ArbitrateEvent, LoopType
  <2> QED
    BY <1>0, <1>9, <2>1, ZenonT(30) DEF ArbitrateEvent, TypeOK
<1>10. CASE ReadSent
  <2>1. PICK j \in 0 .. NumUp - 1 :
          LET u == RoundRobin(rrReadIdx, j) IN
            /\ NextCandidate(readInBufs, rrReadIdx, j)
            /\ readInBufs' = [readInBufs EXCEPT ![bank][u] = Tail(@)]
            /\ rrReadIdx' = [rrReadIdx EXCEPT ![bank] = NextIndex(u)]
            /\ inflight' = [inflight EXCEPT ![bank] = @ \cup {Head(readInBufs[bank][u])}]
            /\ UNCHANGED <<writeInBufs, rrWriteIdx, chanOwes>>
            /\ BankDone(TRUE)
            /\ UNCHANGED <<camVars, respVars, reqVars>>
    BY <1>10, Zenon DEF ReadSent
  <2> DEFINE u == RoundRobin(rrReadIdx, j)
  <2>2. bank \in Banks /\ u \in Ups /\ NextIndex(u) \in Ups
    BY <1>0, RoundRobinUp, NextIndexUp, ZenonT(30) DEF LoopType, BufType
  <2>3. readInBufs[bank][u] \in Seq(Packets) /\ readInBufs[bank][u] # <<>>
    BY <1>0, <2>1, <2>2 DEF BufType, NextCandidate
  <2> HIDE DEF u
  <2>4. readInBufs' \in [Banks -> [Ups -> Seq(Packets)]]
    BY <1>0, <2>1, <2>2, <2>3, TailType DEF BufType, u
  <2>5. rrReadIdx' \in [Banks -> Ups]
    BY <1>0, <2>1, <2>2 DEF BufType, u
  <2>6. ChanType'
    BY <1>0, <2>1, <2>2, <2>3 DEF ChanType, u
  <2>7. LoopType' /\ arbScheduled' \in BOOLEAN
    BY <1>0, <2>1, BankDoneType, ZenonT(30)
  <2> QED
    BY <1>0, <2>1, <2>4, <2>5, <2>6, <2>7 DEF TypeOK, BufType
<1>11. CASE WriteSent
  <2>1. PICK j \in 0 .. NumUp - 1 :
          LET u == RoundRobin(rrWriteIdx, j) IN
            /\ NextCandidate(writeInBufs, rrWriteIdx, j)
            /\ writeInBufs' = [writeInBufs EXCEPT ![bank][u] = Tail(@)]
            /\ rrWriteIdx' = [rrWriteIdx EXCEPT ![bank] = NextIndex(u)]
            /\ UNCHANGED <<readInBufs, rrReadIdx, chanVars>>
            /\ BankDone(TRUE)
            /\ UNCHANGED <<camVars, respVars, reqVars>>
    BY <1>11, Zenon DEF WriteSent
  <2> DEFINE u == RoundRobin(rrWriteIdx, j)
  <2>2. bank \in Banks /\ u \in Ups /\ NextIndex(u) \in Ups
    BY <1>0, RoundRobinUp, NextIndexUp, ZenonT(30) DEF LoopType, BufType
  <2>3. writeInBufs[bank][u] \in Seq(Packets) /\ writeInBufs[bank][u] # <<>>
    BY <1>0, <2>1, <2>2 DEF BufType, NextCandidate
  <2> HIDE DEF u
  <2>4. writeInBufs' \in [Banks -> [Ups -> Seq(Packets)]]
    BY <1>0, <2>1, <2>2, <2>3, TailType DEF BufType, u
  <2>5. rrWriteIdx' \in [Banks -> Ups]
    BY <1>0, <2>1, <2>2 DEF BufType, u
  <2>7. LoopType' /\ arbScheduled' \in BOOLEAN
    BY <1>0, <2>1, BankDoneType, ZenonT(30)
  <2> QED
    BY <1>0, <2>1, <2>4, <2>5, <2>7 DEF TypeOK, BufType
<1>12. CASE ReadRefused \/ WriteRefused
  <2>1. \E j \in 0 .. NumUp - 1 : k' = j + 1
    BY <1>12, Zenon DEF ReadRefused, WriteRefused
  <2>2. k' \in 0 .. NumUp
    BY <2>1, ArbAssumption DEF MaxUp
  <2>3. /\ chanOwes' = [chanOwes EXCEPT ![bank] = TRUE]
        /\ pc \in {"read", "write"}
        /\ UNCHANGED <<bufVars, camVars, respVars, reqVars, inflight, pc, bank,
                       target, needResched, hasPending, arbScheduled>>
    BY <1>12 DEF ReadRefused, WriteRefused
  <2>4. LoopType'
    BY <1>0, <2>2, <2>3 DEF LoopType
  <2>5. ChanType'
    BY <1>0, <2>3, ZenonT(30) DEF ChanType
  <2> QED
    BY <1>0, <2>3, <2>4, <2>5 DEF TypeOK
<1>13. CASE NoReadSent
  <2>1. LoopType'
    BY <1>0, <1>13, ArbAssumption DEF NoReadSent, LoopType, MaxUp
  <2> QED
    BY <1>0, <1>13, <2>1 DEF NoReadSent, TypeOK
<1>14. CASE NoWriteSent
  <2>1. LoopType' /\ arbScheduled' \in BOOLEAN
    BY <1>0, <1>14, BankDoneType, ZenonT(30) DEF NoWriteSent
  <2> QED
    BY <1>0, <1>14, <2>1 DEF NoWriteSent, TypeOK
<1>15. ASSUME NEW b \in Banks, HandleReqRetry(b)
       PROVE  TypeOK'
  <2>1. ChanType'
    BY <1>0, <1>15 DEF HandleReqRetry, ChanType
  <2> QED
    BY <1>0, <1>15, <2>1 DEF HandleReqRetry, TypeOK
<1>16. CASE UNCHANGED vars
  BY <1>0, <1>16 DEF vars, TypeOK
<1> QED
  BY <1>1, <1>2, <1>3, <1>4, <1>5, <1>6, <1>7, <1>8, <1>9, <1>10, <1>11, <1>12,
     <1>13, <1>14, <1>15, <1>16, Zenon
     DEF Next, SendResponseStep, ArbitrateStep

\* The arbiter's state keeps its type in every behaviour.
THEOREM TypeCorrect == Spec => []TypeOK
BY TypeInit, TypeStep, PTL DEF Spec

------------------------------------------------------------------------------
(* Admission.  A bank's load is what recvTimingReqUp compares with buf_size. *)

Load(b) == nbrOutstandingReads[b] + Len(responseQueue[b])

\* Capacity alone says nothing of the moment of the retry call: the pop just
\* before it is what makes room.
Room == Capacity /\ RetryHasRoom

LEMMA RoomLoad ==
  Room <=> /\ \A b \in Banks : Load(b) <= BufSize
           /\ pc = "retry" => Load(bank) < BufSize
BY DEF Room, Capacity, RetryHasRoom, Load

LEMMA LoadFrame ==
  ASSUME UNCHANGED <<nbrOutstandingReads, responseQueue>>
  PROVE  \A b \in Banks : Load(b)' = Load(b)
BY DEF Load

\* An accepted read adds one to the load of its bank, which had room for it.
LEMMA EnqueueLoad ==
  ASSUME TypeOK, NEW p \in Packets, CanAccept(p), Enqueue(p), UNCHANGED responseQueue,
         \A b \in Banks : Load(b) <= BufSize
  PROVE  \A b \in Banks : Load(b)' <= BufSize
<1>0. PktBank[p] \in Banks /\ nbrOutstandingReads \in [Banks -> Nat]
  BY PacketType DEF TypeOK, CamType
<1>1. CASE PktWrite[p]
  BY <1>1, LoadFrame DEF Enqueue, camVars
<1>2. CASE ~PktWrite[p]
  <2>1. /\ nbrOutstandingReads' = [nbrOutstandingReads EXCEPT ![PktBank[p]] = @ + 1]
        /\ Load(PktBank[p]) < BufSize
    BY <1>2 DEF Enqueue, CanAccept, Load
  <2> TAKE b \in Banks
  <2>2. responseQueue[b] \in Seq(Responses)
    BY DEF TypeOK, RespType
  <2>3. Len(responseQueue[b]) \in Nat
    BY <2>2
  <2>4. Load(b)' = nbrOutstandingReads'[b] + Len(responseQueue[b])
    BY DEF Load
  <2>5. nbrOutstandingReads[b] \in Nat /\ BufSize \in Nat
    BY <1>0, ArbAssumption
  <2>6. CASE b = PktBank[p]
    <3>1. nbrOutstandingReads'[b] = nbrOutstandingReads[b] + 1
      BY <1>0, <2>1, <2>6
    <3>2. nbrOutstandingReads[b] + Len(responseQueue[b]) < BufSize
      BY <2>1, <2>6 DEF Load
    <3> QED
      BY <2>3, <2>4, <2>5, <3>1, <3>2
  <2>7. CASE b # PktBank[p]
    <3>1. nbrOutstandingReads'[b] = nbrOutstandingReads[b]
      BY <1>0, <2>1, <2>7
    <3>2. Load(b)' = Load(b)
      BY <2>4, <3>1, Zenon DEF Load
    <3> QED
      BY <3>2, Zenon
  <2> QED
    BY <2>6, <2>7, Zenon
<1> QED
  BY <1>1, <1>2

\* A response that moves from one count to the other leaves the sum as it is.
LEMMA MovedOne ==
  ASSUME NEW m \in Nat, NEW n \in Nat
  PROVE  (m - 1) + (n + 1) = m + n
OBVIOUS

LEMMA RoomInit == Init => Room
BY ArbAssumption DEF Init, Room, Capacity, RetryHasRoom

LEMMA RoomStep == TypeOK /\ Room /\ [Next]_vars => Room'
<1> SUFFICES ASSUME TypeOK, Room, [Next]_vars PROVE Room'
  OBVIOUS
<1> DEFINE Below == \A b \in Banks : Load(b) <= BufSize
<1>0. Below /\ bank \in Banks /\ BufSize \in Nat
  BY RoomLoad, ArbAssumption DEF TypeOK, LoopType
<1>1. ASSUME NEW b \in Banks
      PROVE  /\ nbrOutstandingReads[b] \in Nat /\ responseQueue[b] \in Seq(Responses)
             /\ Len(responseQueue[b]) \in Nat /\ Load(b) \in Nat
  <2>1. nbrOutstandingReads[b] \in Nat /\ responseQueue[b] \in Seq(Responses)
    BY DEF TypeOK, CamType, RespType
  <2>2. Len(responseQueue[b]) \in Nat
    BY <2>1
  <2> QED
    BY <2>1, <2>2 DEF Load
<1>2. ASSUME Below', pc' # "retry" PROVE Room'
  BY <1>2 DEF Room, Capacity, RetryHasRoom, Load
<1>3. ASSUME UNCHANGED <<nbrOutstandingReads, responseQueue>> PROVE Below'
  BY <1>0, <1>3, LoadFrame
<1>4. ASSUME NEW p \in Packets, RecvTimingReqUp(p) PROVE Room'
  <2>1. pc' # "retry" /\ UNCHANGED responseQueue
    BY <1>4 DEF RecvTimingReqUp, loopVars, respVars
  <2>2. CASE CanAccept(p) /\ Enqueue(p)
    BY <1>0, <1>2, <2>1, <2>2, EnqueueLoad
  <2>3. CASE ~(CanAccept(p) /\ Enqueue(p))
    BY <1>2, <1>3, <1>4, <2>1, <2>3 DEF RecvTimingReqUp, camVars
  <2> QED
    BY <2>2, <2>3
<1>5. ASSUME NEW p \in Packets, RecvTimingResp(p) PROVE Room'
  <2> DEFINE c == PktBank[p]
  <2>1. /\ c \in Banks
        /\ nbrOutstandingReads[c] > 0
        /\ nbrOutstandingReads' = [nbrOutstandingReads EXCEPT ![c] = @ - 1]
        /\ \E r : responseQueue' = [responseQueue EXCEPT ![c] = Append(@, r)]
        /\ pc' # "retry"
    BY <1>5, PacketType, ZenonT(30)
       DEF RecvTimingResp, Expected, TakeOldest, AccessAndRespond, loopVars
  <2> HIDE DEF c
  <2>2. ASSUME NEW b \in Banks PROVE Load(b)' = Load(b)
    <3>1. responseQueue[b] \in Seq(Responses) /\ nbrOutstandingReads[b] \in Nat
      BY <1>1
    <3>2. PICK r : responseQueue' = [responseQueue EXCEPT ![c] = Append(@, r)]
      BY <2>1, ZenonT(30)
    <3>3. Len(Append(responseQueue[b], r)) = Len(responseQueue[b]) + 1
      BY <3>1
    <3>4. /\ nbrOutstandingReads'[b] = IF b = c THEN nbrOutstandingReads[b] - 1
                                                ELSE nbrOutstandingReads[b]
          /\ responseQueue'[b] = IF b = c THEN Append(responseQueue[b], r)
                                          ELSE responseQueue[b]
      BY <2>1, <3>2 DEF TypeOK, CamType, RespType
    <3>5. /\ Load(b)' = nbrOutstandingReads'[b] + Len(responseQueue'[b])
          /\ Load(b) = nbrOutstandingReads[b] + Len(responseQueue[b])
      BY DEF Load
    <3>6. Len(responseQueue[b]) \in Nat
      BY <1>1
    <3>7. CASE b = c
      <4>1. Load(b)' = (nbrOutstandingReads[b] - 1) + (Len(responseQueue[b]) + 1)
        BY <3>3, <3>4, <3>5, <3>7, Zenon
      <4> QED
        BY <3>1, <3>5, <3>6, <4>1, MovedOne, Zenon
    <3>8. CASE b # c
      BY <3>4, <3>5, <3>8
    <3> QED
      BY <3>7, <3>8
  <2>3. Below'
    BY <1>0, <2>2, Zenon
  <2> QED
    BY <1>2, <2>1, <2>3, Zenon
<1>6. ASSUME NEW b \in Banks, NEW u \in Ups, ResponseAccepted(b, u) PROVE Room'
  <2>1. /\ responseQueue[b] # <<>>
        /\ responseQueue' = [responseQueue EXCEPT ![b] = Tail(@)]
        /\ UNCHANGED nbrOutstandingReads
        /\ bank' = b
    BY <1>6 DEF ResponseAccepted, Turn, Sends, PopResponse, camVars
  <2>2. ASSUME NEW c \in Banks PROVE Load(c)' <= BufSize /\ (c = b => Load(c)' < BufSize)
    <3>1. Len(Tail(responseQueue[b])) = Len(responseQueue[b]) - 1
      BY <1>1, <2>1
    <3>2. responseQueue'[c] = IF c = b THEN Tail(responseQueue[b]) ELSE responseQueue[c]
      BY <2>1 DEF TypeOK, RespType
    <3>3. Load(c) <= BufSize
      BY <1>0
    <3>4. /\ Load(c)' = nbrOutstandingReads[c] + Len(responseQueue'[c])
          /\ Load(c) = nbrOutstandingReads[c] + Len(responseQueue[c])
      BY <2>1 DEF Load
    <3>5. Len(responseQueue[c]) \in Nat /\ nbrOutstandingReads[c] \in Nat
      BY <1>1
    <3>6. CASE c = b
      BY <1>0, <3>1, <3>2, <3>3, <3>4, <3>5, <3>6
    <3>7. CASE c # b
      BY <3>2, <3>3, <3>4, <3>7
    <3> QED
      BY <3>6, <3>7
  <2>3. Below' /\ Load(b)' < BufSize
    BY <2>2
  <2> QED
    BY <2>1, <2>3 DEF Room, Capacity, RetryHasRoom, Load
<1>7. CASE SendRetryReq
  <2>1. pc' # "retry" /\ UNCHANGED responseQueue
    BY <1>7 DEF SendRetryReq, respVars
  <2>2. \/ UNCHANGED nbrOutstandingReads
        \/ \E p \in Packets : CanAccept(p) /\ Enqueue(p)
    BY <1>7 DEF SendRetryReq, camVars
  <2> QED
    BY <1>0, <1>2, <1>3, <2>1, <2>2, EnqueueLoad
<1>8. CASE SendResponseEvent \/ (\E b \in Banks, u \in Ups : HandleRespRetry(b, u))
  BY <1>2, <1>3, <1>8
     DEF SendResponseEvent, HandleRespRetry, StartSendResponse, camVars
<1>9. CASE (\E b \in Banks, u \in Ups : ResponseRefused(b, u)) \/ SendResponseDone
  BY <1>2, <1>3, <1>9 DEF ResponseRefused, SendResponseDone, Turn, camVars, respVars
<1>10. CASE ArbitrateEvent \/ ArbitrateStep
  <2>1. UNCHANGED <<camVars, respVars>> /\ pc' # "retry"
    <3>1. CASE ArbitrateEvent
      BY <3>1 DEF ArbitrateEvent
    <3>2. CASE ReadSent
      BY <3>2 DEF ReadSent, BankDone
    <3>3. CASE WriteSent \/ NoWriteSent
      BY <3>3 DEF WriteSent, NoWriteSent, BankDone
    <3>4. CASE ReadRefused \/ NoReadSent \/ WriteRefused
      BY <3>4 DEF ReadRefused, NoReadSent, WriteRefused
    <3> QED
      BY <1>10, <3>1, <3>2, <3>3, <3>4, Zenon DEF ArbitrateStep
  <2> QED
    BY <1>2, <1>3, <2>1 DEF camVars, respVars
<1>11. CASE \E b \in Banks : HandleReqRetry(b)
  BY <1>2, <1>3, <1>11 DEF HandleReqRetry, camVars, respVars, loopVars
<1>12. CASE UNCHANGED vars
  BY <1>12 DEF vars, camVars, respVars, loopVars, Room, Capacity, RetryHasRoom
<1> QED
  BY <1>4, <1>5, <1>6, <1>7, <1>8, <1>9, <1>10, <1>11, <1>12, Zenon
     DEF Next, SendResponseStep

\* The admission test of recvTimingReqUp bounds the unanswered reads and queued
\* responses of a bank by buf_size, and leaves room for the read an upstream
\* re-sends from inside sendRetryReq, whatever the order of requests, responses,
\* refusals and retries.
THEOREM AdmissionBounded == Spec => [](Capacity /\ RetryHasRoom)
BY RoomInit, TypeCorrect, RoomStep, PTL DEF Spec, Room

\* sendResponse calls sendRetryReq only when the bank has room: the read that an
\* upstream re-sends from inside the call is accepted, and clearing retryReq
\* after the call forgets no refusal.
THEOREM RetryAccepted == Spec => []RetryHasRoom
BY AdmissionBounded, PTL

------------------------------------------------------------------------------
(* The arbiter returns every response to the upstream that sent the read.  *)

\* reads and ups are the records of address a in bank b, position by position.
Matched(b, a, reads, ups) ==
  /\ Len(ups) = Len(reads)
  /\ \A i \in DOMAIN reads : /\ ups[i] = PktUp[reads[i]]
                             /\ PktAddr[reads[i]] = a /\ PktBank[reads[i]] = b

LEMMA InStepMatched ==
  InStep <=> \A b \in Banks, a \in Addrs :
               Matched(b, a, outstandingReads[b][a], outstandingUpstream[b][a])
BY DEF InStep, Matched

LEMMA MatchedAppend ==
  ASSUME NEW reads \in Seq(Packets), NEW ups \in Seq(Ups), NEW p \in Packets,
         Matched(PktBank[p], PktAddr[p], reads, ups)
  PROVE  Matched(PktBank[p], PktAddr[p], Append(reads, p), Append(ups, PktUp[p]))
<1>1. Len(ups) = Len(reads)
  BY DEF Matched
<1>2. PktUp[p] \in Ups
  BY PacketType
<1>3. Len(Append(ups, PktUp[p])) = Len(Append(reads, p))
  BY <1>1, <1>2
<1>4. ASSUME NEW i \in DOMAIN Append(reads, p)
      PROVE  /\ Append(ups, PktUp[p])[i] = PktUp[Append(reads, p)[i]]
             /\ PktAddr[Append(reads, p)[i]] = PktAddr[p]
             /\ PktBank[Append(reads, p)[i]] = PktBank[p]
  <2>1. CASE i = Len(reads) + 1
    BY <1>1, <1>2, <2>1
  <2>2. CASE i # Len(reads) + 1
    <3>1. i \in DOMAIN reads /\ i \in DOMAIN ups
      BY <1>1, <2>2
    <3>2. Append(reads, p)[i] = reads[i] /\ Append(ups, PktUp[p])[i] = ups[i]
      BY <1>2, <3>1
    <3> QED
      BY <3>1, <3>2 DEF Matched
  <2> QED
    BY <2>1, <2>2, ZenonT(30)
<1> QED
  BY <1>3, <1>4 DEF Matched

LEMMA MatchedTail ==
  ASSUME NEW b, NEW a, NEW reads \in Seq(Packets), NEW ups \in Seq(Ups),
         Matched(b, a, reads, ups), reads # <<>>
  PROVE  /\ Matched(b, a, Tail(reads), Tail(ups))
         /\ Head(ups) = PktUp[Head(reads)] /\ PktBank[Head(reads)] = b
<1>1. Len(ups) = Len(reads) /\ ups # <<>> /\ Len(reads) > 0
  BY DEF Matched
<1>2. Len(Tail(ups)) = Len(Tail(reads))
  BY <1>1
<1>3. ASSUME NEW i \in DOMAIN Tail(reads)
      PROVE  /\ Tail(ups)[i] = PktUp[Tail(reads)[i]]
             /\ PktAddr[Tail(reads)[i]] = a /\ PktBank[Tail(reads)[i]] = b
  <2>1. i + 1 \in DOMAIN reads
    BY <1>1
  <2>2. Tail(reads)[i] = reads[i + 1] /\ Tail(ups)[i] = ups[i + 1]
    BY <1>1
  <2> QED
    BY <2>1, <2>2 DEF Matched
<1>4. 1 \in DOMAIN reads /\ Head(reads) = reads[1] /\ Head(ups) = ups[1]
  BY <1>1
<1> QED
  BY <1>2, <1>3, <1>4 DEF Matched

\* ToIssuer rests on InStep: a response is made of the heads of the two queues.
Routed == InStep /\ ToIssuer

LEMMA EnqueueInStep ==
  ASSUME TypeOK, InStep, NEW p \in Packets, Enqueue(p)
  PROVE  InStep'
<1>1. CASE PktWrite[p]
  BY <1>1 DEF Enqueue, camVars, InStep
<1>2. CASE ~PktWrite[p]
  <2>0. SUFFICES ASSUME NEW b \in Banks, NEW a \in Addrs
                 PROVE  Matched(b, a, outstandingReads'[b][a], outstandingUpstream'[b][a])
    BY DEF InStep, Matched
  <2>1. /\ outstandingReads' =
             [outstandingReads EXCEPT ![PktBank[p]][PktAddr[p]] = Append(@, p)]
        /\ outstandingUpstream' =
             [outstandingUpstream EXCEPT ![PktBank[p]][PktAddr[p]] = Append(@, PktUp[p])]
    BY <1>2 DEF Enqueue
  <2>2. /\ outstandingReads \in [Banks -> [Addrs -> Seq(Packets)]]
        /\ outstandingUpstream \in [Banks -> [Addrs -> Seq(Ups)]]
    BY DEF TypeOK, CamType
  <2>3. PktBank[p] \in Banks /\ PktAddr[p] \in Addrs
    BY PacketType
  <2>4. Matched(b, a, outstandingReads[b][a], outstandingUpstream[b][a])
    BY InStepMatched, Zenon
  <2>5. CASE b = PktBank[p] /\ a = PktAddr[p]
    <3>0. outstandingReads'[b][a] = Append(outstandingReads[b][a], p)
      BY <2>1, <2>2, <2>3, <2>5, PointAppend, ZenonT(30)
    <3>1. outstandingUpstream'[b][a] = Append(outstandingUpstream[b][a], PktUp[p])
      BY <2>1, <2>2, <2>3, <2>5, PointAppend, ZenonT(30)
    <3>2. outstandingReads[b][a] \in Seq(Packets) /\ outstandingUpstream[b][a] \in Seq(Ups)
      BY <2>2
    <3>3. Matched(PktBank[p], PktAddr[p], outstandingReads[b][a], outstandingUpstream[b][a])
      BY <2>4, <2>5, Zenon
    <3>4. Matched(PktBank[p], PktAddr[p], Append(outstandingReads[b][a], p),
                  Append(outstandingUpstream[b][a], PktUp[p]))
      BY <3>2, <3>3, MatchedAppend, Zenon
    <3> QED
      BY <2>5, <3>0, <3>1, <3>4, Zenon
  <2>6. CASE ~(b = PktBank[p] /\ a = PktAddr[p])
    <3>1. /\ outstandingReads'[b][a] = outstandingReads[b][a]
          /\ outstandingUpstream'[b][a] = outstandingUpstream[b][a]
      BY <2>1, <2>2, <2>3, <2>6, PointElsewhere, SMT, ZenonT(30)
    <3> QED
      BY <2>4, <3>1, SMT, ZenonT(30)
  <2> QED
    BY <2>5, <2>6
<1> QED
  BY <1>1, <1>2

LEMMA ResponseRouted ==
  ASSUME TypeOK, Routed, NEW p \in Packets, RecvTimingResp(p)
  PROVE  Routed'
<1>0. SUFFICES ASSUME NEW c \in Banks, NEW d \in Addrs, c = PktBank[p], d = PktAddr[p]
               PROVE  Routed'
  BY PacketType
<1> DEFINE reads == outstandingReads[c][d]
           ups == outstandingUpstream[c][d]
<1>1. /\ outstandingReads \in [Banks -> [Addrs -> Seq(Packets)]]
      /\ outstandingUpstream \in [Banks -> [Addrs -> Seq(Ups)]]
      /\ responseQueue \in [Banks -> Seq(Responses)]
  BY DEF TypeOK, CamType, RespType
<1>2. /\ reads # <<>> /\ ups # <<>>
      /\ outstandingReads' = [outstandingReads EXCEPT ![c][d] = Tail(@)]
      /\ outstandingUpstream' = [outstandingUpstream EXCEPT ![c][d] = Tail(@)]
      /\ responseQueue' = [responseQueue EXCEPT ![c] =
                             Append(@, [pkt |-> Head(reads), up |-> Head(ups)])]
  BY <1>0 DEF RecvTimingResp, Expected, TakeOldest, AccessAndRespond
<1>3. reads \in Seq(Packets) /\ ups \in Seq(Ups) /\ Matched(c, d, reads, ups)
  BY <1>1, InStepMatched DEF Routed
<1>4. /\ Matched(c, d, Tail(reads), Tail(ups))
      /\ Head(ups) = PktUp[Head(reads)] /\ PktBank[Head(reads)] = c
  BY <1>2, <1>3, MatchedTail, ZenonT(30)
<1>5. InStep'
  <2>1. SUFFICES ASSUME NEW b \in Banks, NEW a \in Addrs
                 PROVE  Matched(b, a, outstandingReads'[b][a], outstandingUpstream'[b][a])
    BY DEF InStep, Matched
  <2>2. Matched(b, a, outstandingReads[b][a], outstandingUpstream[b][a])
    BY InStepMatched DEF Routed
  <2>3. CASE b = c /\ a = d
    <3>1. outstandingReads'[b][a] = Tail(reads) /\ outstandingUpstream'[b][a] = Tail(ups)
      BY <1>1, <1>2, <2>3, SMT, ZenonT(30)
    <3> QED
      BY <1>4, <2>3, <3>1
  <2>4. CASE ~(b = c /\ a = d)
    <3>1. /\ outstandingReads'[b][a] = outstandingReads[b][a]
          /\ outstandingUpstream'[b][a] = outstandingUpstream[b][a]
      BY <1>1, <1>2, <2>4, SMT, ZenonT(30)
    <3> QED
      BY <2>2, <3>1
  <2> QED
    BY <2>3, <2>4
<1>6. ToIssuer'
  <2> DEFINE new == [pkt |-> Head(reads), up |-> Head(ups)]
  <2>1. SUFFICES ASSUME NEW b \in Banks, NEW i \in DOMAIN responseQueue'[b]
                 PROVE  /\ PktUp[responseQueue'[b][i].pkt] = responseQueue'[b][i].up
                        /\ PktBank[responseQueue'[b][i].pkt] = b
    BY DEF ToIssuer
  <2>2. responseQueue[b] \in Seq(Responses)
    BY <1>1
  <2>3. \A j \in DOMAIN responseQueue[b] :
          /\ PktUp[responseQueue[b][j].pkt] = responseQueue[b][j].up
          /\ PktBank[responseQueue[b][j].pkt] = b
    BY SMT, ZenonT(30) DEF Routed, ToIssuer
  <2>4. CASE b # c
    BY <1>1, <1>2, <2>3, <2>4, SMT, ZenonT(30)
  <2>5. CASE b = c
    <3>1. responseQueue'[b] = Append(responseQueue[b], new)
      BY <1>1, <1>2, <2>5
    <3>2. new.pkt = Head(reads) /\ new.up = Head(ups)
      OBVIOUS
    <3> HIDE DEF new
    <3>3. \/ i \in DOMAIN responseQueue[b] /\ responseQueue'[b][i] = responseQueue[b][i]
          \/ responseQueue'[b][i] = new
      BY <2>2, <3>1
    <3> QED
      BY <1>4, <2>3, <2>5, <3>2, <3>3
  <2> QED
    BY <2>4, <2>5
<1> QED
  BY <1>5, <1>6 DEF Routed

LEMMA PopRouted ==
  ASSUME TypeOK, Routed, NEW c \in Banks, responseQueue[c] # <<>>, PopResponse(c),
         UNCHANGED camVars
  PROVE  Routed'
<1>1. InStep'
  BY DEF Routed, InStep, camVars
<1>2. ASSUME NEW b \in Banks, NEW i \in DOMAIN responseQueue'[b]
      PROVE  /\ PktUp[responseQueue'[b][i].pkt] = responseQueue'[b][i].up
             /\ PktBank[responseQueue'[b][i].pkt] = b
  <2>1. responseQueue[b] \in Seq(Responses)
    BY DEF TypeOK, RespType
  <2>2. responseQueue'[b] = IF b = c THEN Tail(responseQueue[b]) ELSE responseQueue[b]
    BY DEF PopResponse, TypeOK, RespType
  <2>3. \E j \in DOMAIN responseQueue[b] : responseQueue'[b][i] = responseQueue[b][j]
    <3>1. CASE b = c
      <4>1. i + 1 \in DOMAIN responseQueue[b] /\ Tail(responseQueue[b])[i] = responseQueue[b][i + 1]
        BY <2>1, <2>2, <3>1
      <4> QED
        BY <2>2, <3>1, <4>1
    <3>2. CASE b # c
      BY <2>2, <3>2
    <3> QED
      BY <3>1, <3>2
  <2> QED
    BY <2>3 DEF Routed, ToIssuer
<1> QED
  BY <1>1, <1>2, SMT, ZenonT(30) DEF Routed, ToIssuer

LEMMA RoutedInit == Init => Routed
BY SMT, ZenonT(30) DEF Init, Routed, InStep, ToIssuer

LEMMA RoutedStep == TypeOK /\ Routed /\ [Next]_vars => Routed'
<1> SUFFICES ASSUME TypeOK, Routed, [Next]_vars PROVE Routed'
  OBVIOUS
<1>1. ASSUME UNCHANGED <<camVars, responseQueue>> PROVE Routed'
  BY <1>1, SMT, ZenonT(30) DEF Routed, InStep, ToIssuer, camVars
<1>2. ASSUME NEW p \in Packets, Enqueue(p), UNCHANGED responseQueue PROVE Routed'
  BY <1>2, EnqueueInStep DEF Routed, ToIssuer
<1>3. ASSUME NEW p \in Packets, RecvTimingReqUp(p) PROVE Routed'
  BY <1>1, <1>2, <1>3 DEF RecvTimingReqUp, respVars
<1>4. ASSUME NEW p \in Packets, RecvTimingResp(p) PROVE Routed'
  BY <1>4, ResponseRouted
<1>5. ASSUME NEW b \in Banks, NEW u \in Ups, ResponseAccepted(b, u) PROVE Routed'
  BY <1>5, PopRouted DEF ResponseAccepted, Turn, Sends
<1>6. CASE SendRetryReq
  BY <1>1, <1>2, <1>6 DEF SendRetryReq, respVars
<1>7. CASE SendResponseEvent \/ (\E b \in Banks, u \in Ups : HandleRespRetry(b, u))
  BY <1>1, <1>7 DEF SendResponseEvent, HandleRespRetry
<1>8. CASE (\E b \in Banks, u \in Ups : ResponseRefused(b, u)) \/ SendResponseDone
  BY <1>1, <1>8, SMT, ZenonT(30) DEF ResponseRefused, SendResponseDone, respVars
<1>9. CASE ArbitrateEvent \/ ArbitrateStep
  BY <1>1, <1>9, ZenonT(30) DEF ArbitrateEvent, ArbitrateStep, ReadSent, ReadRefused, NoReadSent,
                    WriteSent, WriteRefused, NoWriteSent, respVars
<1>10. CASE \E b \in Banks : HandleReqRetry(b)
  BY <1>1, <1>10 DEF HandleReqRetry, respVars
<1>11. CASE UNCHANGED vars
  BY <1>1, <1>11 DEF vars, respVars
<1> QED
  BY <1>3, <1>4, <1>5, <1>6, <1>7, <1>8, <1>9, <1>10, <1>11, Zenon
     DEF Next, SendResponseStep

\* Every queued response goes to the upstream and bank of its read: the two maps
\* recvTimingResp pops stay aligned through accepts, answers in any order and
\* reads re-sent from inside sendRetryReq.
THEOREM ResponsesToIssuer == Spec => [](InStep /\ ToIssuer)
BY RoutedInit, TypeCorrect, RoutedStep, PTL DEF Spec, Routed

------------------------------------------------------------------------------
(* No response is forgotten.                                               *)

\* The head response of bank b was refused by its upstream.
HeadBlocked(b) == responseQueue[b] # <<>> /\ blocked[b][Head(responseQueue[b]).up]

\* retryResp cannot close all the loop indices of a bank unless the upstream of
\* the head response owes the retry that opens one again.
OpenOrOwed ==
  \A b \in Banks : (\A u \in Ups : retryResp[b][u]) => HeadBlocked(b)

\* The loops of sendResponse still come to an open index of bank b.
Coming(b) ==
  \E u \in Ups : /\ ~retryResp[b][u]
                 /\ \/ pc = "respond" /\ Ahead(b, u)
                    \/ pc = "retry" /\ (b > bank \/ (b = bank /\ u > k))

\* Within sendResponse the wake-up may also be that the loop is on its way.
Watched ==
  \A b \in Banks :
    responseQueue[b] # <<>> => respScheduled \/ HeadBlocked(b) \/ Coming(b)

WakeupInv == OpenOrOwed /\ Watched

------------------------------------------------------------------------------
LEMMA LoopStart ==
  ASSUME OpenOrOwed', pc' = "respond", bank' = 0, k' = 0
  PROVE  Watched'
<1> SUFFICES ASSUME NEW b \in Banks, ~HeadBlocked(b)' PROVE Coming(b)'
  BY DEF Watched
<1>1. PICK u \in Ups : ~retryResp'[b][u]
  BY DEF OpenOrOwed
<1>2. Ahead(b, u)'
  BY ArbAssumption DEF Ahead, Banks, Ups, MaxUp
<1> QED
  BY <1>1, <1>2 DEF Coming

\* A loop that reaches (b, u) leaves no bank before b unwatched.
LEMMA LaterBank ==
  ASSUME TypeOK, Watched, NEW b \in Banks, NEW u \in Ups, Turn(b, u),
         NEW c \in Banks, c # b, responseQueue[c] # <<>>
  PROVE  \/ respScheduled \/ HeadBlocked(c)
         \/ c > b /\ \E v \in Ups : ~retryResp[c][v]
<1> SUFFICES ASSUME Coming(c)
             PROVE  c > b /\ \E v \in Ups : ~retryResp[c][v]
  BY DEF Watched
<1>1. PICK v \in Ups : ~retryResp[c][v] /\ Ahead(c, v)
  BY DEF Coming, Turn
<1>2. Sends(c, v)
  BY <1>1 DEF Sends
<1> QED
  BY <1>1, <1>2 DEF Turn

LEMMA AcceptedWakeup ==
  ASSUME TypeOK, WakeupInv, NEW b \in Banks, NEW u \in Ups, ResponseAccepted(b, u)
  PROVE  WakeupInv'
<1>1. /\ Turn(b, u) /\ ~retryResp[b][u] /\ bank' = b /\ pc' \in {"respond", "retry"}
      /\ responseQueue' = [responseQueue EXCEPT ![b] = Tail(@)]
      /\ respScheduled' = (respScheduled \/ Len(responseQueue[b]) > 1)
      /\ UNCHANGED <<retryResp, blocked>>
  BY DEF ResponseAccepted, Turn, Sends, PopResponse
<1>2. responseQueue \in [Banks -> Seq(Responses)] /\ responseQueue[b] # <<>>
  BY SMT, ZenonT(30) DEF TypeOK, RespType, ResponseAccepted, Turn, Sends
<1>3. ASSUME NEW c \in Banks, c # b
      PROVE  responseQueue'[c] = responseQueue[c] /\ HeadBlocked(c)' = HeadBlocked(c)
  <2>1. responseQueue'[c] = responseQueue[c]
    BY <1>1, <1>2, <1>3
  <2> QED
    BY <1>1, <2>1, ZenonT(30) DEF HeadBlocked
<1>4. OpenOrOwed'
  BY <1>1, <1>3 DEF WakeupInv, OpenOrOwed
<1>5. ASSUME NEW c \in Banks, responseQueue'[c] # <<>>
      PROVE  respScheduled' \/ HeadBlocked(c)' \/ Coming(c)'
  <2>1. CASE c = b
    <3>1. Tail(responseQueue[b]) # <<>> /\ responseQueue[b] \in Seq(Responses)
      BY <1>1, <1>2, <1>5, <2>1
    <3>2. Len(responseQueue[b]) > 1
      BY <1>2, <3>1
    <3> QED
      BY <1>1, <3>2, ZenonT(30)
  <2>2. CASE c # b
    <3>1. \/ respScheduled \/ HeadBlocked(c)
          \/ c > b /\ \E v \in Ups : ~retryResp[c][v]
      BY <1>1, <1>3, <1>5, <2>2, LaterBank DEF WakeupInv
    <3>2. CASE c > b /\ \E v \in Ups : ~retryResp[c][v]
      <4>1. PICK v \in Ups : ~retryResp[c][v]
        BY <3>2
      <4> QED
        BY <1>1, <3>2, <4>1 DEF Coming, Ahead
    <3> QED
      BY <1>1, <1>3, <2>2, <3>1, <3>2, ZenonT(30)
  <2> QED
    BY <2>1, <2>2
<1> QED
  BY <1>4, <1>5, SMT, ZenonT(30) DEF WakeupInv, Watched

LEMMA RefusedWakeup ==
  ASSUME TypeOK, WakeupInv, NEW b \in Banks, NEW u \in Ups, ResponseRefused(b, u)
  PROVE  WakeupInv'
<1> DEFINE t == Head(responseQueue[b]).up
<1>1. /\ Turn(b, u) /\ bank' = b /\ pc' = "respond"
      /\ retryResp' = [retryResp EXCEPT ![b][u] = TRUE]
      /\ blocked' = [blocked EXCEPT ![b][t] = TRUE]
      /\ UNCHANGED <<responseQueue, respScheduled>>
  BY DEF ResponseRefused, Turn
<1>2. /\ responseQueue[b] \in Seq(Responses) /\ responseQueue[b] # <<>>
      /\ blocked \in [Banks -> [Ups -> BOOLEAN]]
      /\ retryResp \in [Banks -> [Ups -> BOOLEAN]]
  BY DEF TypeOK, RespType, ResponseRefused, Turn, Sends
<1>3. t \in Ups
  BY <1>2, HeadResponse, SMT, ZenonT(30)
<1>4. HeadBlocked(b)'
  BY <1>1, <1>2, <1>3 DEF HeadBlocked
<1> HIDE DEF t
<1>5. ASSUME NEW c \in Banks, c # b
      PROVE  retryResp'[c] = retryResp[c] /\ HeadBlocked(c)' = HeadBlocked(c)
  <2>1. retryResp'[c] = retryResp[c] /\ blocked'[c] = blocked[c]
    BY <1>1, <1>2, <1>5
  <2> QED
    BY <1>1, <2>1 DEF HeadBlocked
<1>6. OpenOrOwed'
  BY <1>4, <1>5 DEF WakeupInv, OpenOrOwed
<1>7. ASSUME NEW c \in Banks, c # b, responseQueue'[c] # <<>>
      PROVE  respScheduled' \/ HeadBlocked(c)' \/ Coming(c)'
  <2>1. \/ respScheduled \/ HeadBlocked(c)
        \/ c > b /\ \E v \in Ups : ~retryResp[c][v]
    BY <1>1, <1>7, LaterBank DEF WakeupInv
  <2>2. CASE c > b /\ \E v \in Ups : ~retryResp[c][v]
    <3>1. PICK v \in Ups : ~retryResp[c][v]
      BY <2>2
    <3> QED
      BY <1>1, <1>5, <1>7, <2>2, <3>1 DEF Coming, Ahead
  <2> QED
    BY <1>1, <1>5, <1>7, <2>1, <2>2
<1> QED
  BY <1>4, <1>6, <1>7 DEF WakeupInv, Watched

LEMMA WakeupStep == TypeOK /\ WakeupInv /\ [Next]_vars => WakeupInv'
<1> SUFFICES ASSUME TypeOK, WakeupInv, [Next]_vars PROVE WakeupInv'
  OBVIOUS
<1>1. ASSUME UNCHANGED <<responseQueue, retryResp, blocked>> PROVE OpenOrOwed'
  BY <1>1 DEF WakeupInv, OpenOrOwed, HeadBlocked
<1>2. ASSUME UNCHANGED respVars, pc \notin {"respond", "retry"} PROVE WakeupInv'
  <2>1. \A b \in Banks : ~Coming(b)
    BY <1>2, SMT, ZenonT(30) DEF Coming
  <2>2. Watched'
    BY <1>2, <2>1 DEF WakeupInv, Watched, HeadBlocked, respVars
  <2> QED
    BY <1>1, <1>2, <2>2 DEF WakeupInv, respVars
<1>3. ASSUME NEW p \in Packets, RecvTimingReqUp(p) PROVE WakeupInv'
  BY <1>2, <1>3, SMT, ZenonT(30) DEF RecvTimingReqUp
<1>4. ASSUME NEW p \in Packets, RecvTimingResp(p) PROVE WakeupInv'
  <2>1. PktBank[p] \in Banks
    BY PacketType, SMT, ZenonT(30)
  <2>2. /\ \E r : responseQueue' = [responseQueue EXCEPT ![PktBank[p]] = Append(@, r)]
        /\ respScheduled' = TRUE /\ UNCHANGED <<retryResp, blocked>>
    BY <1>4, ZenonT(30) DEF RecvTimingResp, AccessAndRespond
  <2>3. ASSUME NEW b \in Banks, HeadBlocked(b) PROVE HeadBlocked(b)'
    <3>1. responseQueue[b] \in Seq(Responses) /\ responseQueue[b] # <<>>
      BY <2>3 DEF HeadBlocked, TypeOK, RespType
    <3>2. PICK r : responseQueue' = [responseQueue EXCEPT ![PktBank[p]] = Append(@, r)]
      BY <2>2, ZenonT(30)
    <3>3. responseQueue'[b] \in {responseQueue[b], Append(responseQueue[b], r)}
      BY <2>1, <3>2 DEF TypeOK, RespType
    <3>4. Append(responseQueue[b], r) # <<>>
          /\ Head(Append(responseQueue[b], r)) = Head(responseQueue[b])
      BY <3>1
    <3> QED
      BY <2>2, <2>3, <3>1, <3>3, <3>4, ZenonT(30) DEF HeadBlocked
  <2> QED
    BY <2>2, <2>3 DEF WakeupInv, OpenOrOwed, Watched
<1>5. CASE SendResponseEvent
  BY <1>1, <1>5, LoopStart DEF SendResponseEvent, StartSendResponse, WakeupInv
<1>6. ASSUME NEW b \in Banks, NEW u \in Ups, HandleRespRetry(b, u) PROVE WakeupInv'
  <2>1. /\ retryResp' = [retryResp EXCEPT ![b][u] = FALSE]
        /\ blocked' = [blocked EXCEPT ![b][u] = FALSE]
        /\ UNCHANGED responseQueue
        /\ pc' = "respond" /\ bank' = 0 /\ k' = 0
    BY <1>6 DEF HandleRespRetry, StartSendResponse
  <2>2. ~retryResp'[b][u]
    BY <2>1 DEF TypeOK, RespType
  <2>3. ASSUME NEW c \in Banks, c # b
        PROVE  retryResp'[c] = retryResp[c] /\ blocked'[c] = blocked[c]
    BY <2>1, <2>3 DEF TypeOK, RespType
  <2>4. OpenOrOwed'
    BY <2>1, <2>2, <2>3 DEF WakeupInv, OpenOrOwed, HeadBlocked
  <2> QED
    BY <2>1, <2>4, LoopStart DEF WakeupInv
<1>7. CASE SendRetryReq
  <2>1. /\ pc = "retry" /\ pc' = "respond" /\ k' = k + 1 /\ bank' = bank
        /\ UNCHANGED respVars
    BY <1>7 DEF SendRetryReq
  <2>2. ASSUME NEW c \in Banks, Coming(c) PROVE Coming(c)'
    <3>1. PICK v \in Ups : ~retryResp[c][v] /\ (c > bank \/ (c = bank /\ v > k))
      BY <2>1, <2>2 DEF Coming
    <3>2. v \in Nat /\ k \in Nat
      BY ArbAssumption DEF Ups, MaxUp, TypeOK, LoopType
    <3>3. Ahead(c, v)'
      BY <2>1, <3>1, <3>2 DEF Ahead
    <3> QED
      BY <2>1, <3>1, <3>3 DEF Coming, respVars
  <2>3. Watched'
    BY <2>1, <2>2 DEF WakeupInv, Watched, HeadBlocked, respVars
  <2> QED
    BY <1>1, <2>1, <2>3 DEF WakeupInv, respVars
<1>8. CASE SendResponseDone
  <2>1. ASSUME NEW b \in Banks, responseQueue[b] # <<>> PROVE ~Coming(b)
    BY <1>8, <2>1, SMT, ZenonT(30) DEF SendResponseDone, Coming, Sends
  <2>2. Watched'
    BY <1>8, <2>1 DEF WakeupInv, Watched, HeadBlocked, SendResponseDone, respVars
  <2> QED
    BY <1>1, <1>8, <2>2 DEF WakeupInv, SendResponseDone, respVars
<1>9. CASE ArbitrateEvent \/ ArbitrateStep \/ (\E b \in Banks : HandleReqRetry(b))
  <2>1. UNCHANGED respVars /\ pc \notin {"respond", "retry"}
    BY <1>9, ZenonT(30) DEF ArbitrateEvent, ArbitrateStep, ReadSent, ReadRefused, NoReadSent,
                WriteSent, WriteRefused, NoWriteSent, HandleReqRetry
  <2> QED
    BY <1>2, <2>1, SMT, ZenonT(30)
<1>10. CASE UNCHANGED vars
  BY <1>10, ZenonT(30) DEF vars, respVars, loopVars, WakeupInv, OpenOrOwed, Watched, HeadBlocked,
               Coming, Ahead
<1> QED
  BY <1>3, <1>4, <1>5, <1>6, <1>7, <1>8, <1>9, <1>10, AcceptedWakeup, RefusedWakeup,
     Zenon DEF Next, SendResponseStep

\* Between handlers a bank with queued responses has sendResponseEvent scheduled
\* or its head response's upstream owes the retry, although retryResp is kept
\* per loop index of sendResponse and not per target.
THEOREM ResponseNeverForgotten == Spec => []ResponseWakeup
<1>1. Init => WakeupInv
  <2>1. 0 \in Ups
    BY ArbAssumption DEF Ups, MaxUp
  <2> QED
    BY <2>1 DEF Init, PerPort, WakeupInv, OpenOrOwed, Watched
<1>2. WakeupInv => ResponseWakeup
  BY DEF WakeupInv, Watched, HeadBlocked, Coming, ResponseWakeup
<1> QED
  BY <1>1, <1>2, TypeCorrect, WakeupStep, PTL DEF Spec

\* The same outside arbitrate's own loop, while sendResponse runs.
Served ==
  /\ pc \in {"idle", "respond", "retry"}
  /\ CheckPendingRequests(readInBufs, writeInBufs, NumBanks - 1)
  => arbScheduled

LEMMA LastBankDone ==
  ASSUME TypeOK, NEW sent, BankDone(sent)
  PROVE  Served'
<1>1. CASE bank + 1 < NumBanks
  BY <1>1 DEF BankDone, Served
<1>2. CASE ~(bank + 1 < NumBanks)
  <2>1. bank = NumBanks - 1
    BY <1>2, ArbAssumption DEF TypeOK, LoopType, Banks
  <2>2. arbScheduled' \/ ~CheckPendingRequests(readInBufs', writeInBufs', bank)
    BY <1>2, ZenonT(30) DEF BankDone, Again
  <2> QED
    BY <2>1, <2>2, Zenon DEF Served, CheckPendingRequests
<1> QED
  BY <1>1, <1>2

LEMMA ServedStep == TypeOK /\ Served /\ [Next]_vars => Served'
<1> SUFFICES ASSUME TypeOK, Served, [Next]_vars PROVE Served'
  OBVIOUS
<1>1. ASSUME UNCHANGED <<readInBufs, writeInBufs, arbScheduled>>,
             pc \in {"idle", "respond", "retry"}
      PROVE  Served'
  BY <1>1 DEF Served, CheckPendingRequests
<1>2. ASSUME NEW p \in Packets, RecvTimingReqUp(p) PROVE Served'
  BY <1>1, <1>2 DEF RecvTimingReqUp, Enqueue, bufVars, Served
<1>3. ASSUME NEW p \in Packets, RecvTimingResp(p) PROVE Served'
  BY <1>1, <1>3, ZenonT(30) DEF RecvTimingResp, bufVars
<1>4. CASE SendRetryReq
  BY <1>1, <1>4, ZenonT(30) DEF SendRetryReq, Enqueue, bufVars, Served
<1>5. CASE SendResponseEvent \/ (\E b \in Banks, u \in Ups : HandleRespRetry(b, u))
  BY <1>1, <1>5 DEF SendResponseEvent, HandleRespRetry, bufVars
<1>6. CASE \/ \E b \in Banks, u \in Ups : ResponseAccepted(b, u) \/ ResponseRefused(b, u)
           \/ SendResponseDone
  BY <1>1, <1>6 DEF ResponseAccepted, ResponseRefused, Turn, SendResponseDone, bufVars
<1>7. CASE ReadSent \/ WriteSent \/ NoWriteSent
  BY <1>7, LastBankDone, Zenon DEF ReadSent, WriteSent, NoWriteSent
<1>8. CASE ArbitrateEvent \/ ReadRefused \/ NoReadSent \/ WriteRefused
  BY <1>8 DEF ArbitrateEvent, ReadRefused, NoReadSent, WriteRefused, Served
<1>9. CASE \E b \in Banks : HandleReqRetry(b)
  BY <1>9, SMT, ZenonT(30) DEF HandleReqRetry, Served
<1>10. CASE UNCHANGED vars
  BY <1>10 DEF vars, bufVars, loopVars, Served, CheckPendingRequests
<1> QED
  BY <1>2, <1>3, <1>4, <1>5, <1>6, <1>7, <1>8, <1>9, <1>10, Zenon
     DEF Next, SendResponseStep, ArbitrateStep

\* The last bank is never left with queued requests and no arbEvent: its flag is
\* the one arbitrate's has_pending holds when the loop over the banks ends.
THEOREM LastBankKept == Spec => []LastBankServed
<1>1. Init => Served
  <2>1. NumBanks - 1 \in Banks
    BY ArbAssumption DEF Banks
  <2> QED
    BY <2>1 DEF Init, Served, CheckPendingRequests, PerPort
<1>2. Served => LastBankServed
  BY DEF Served, LastBankServed
<1> QED
  BY <1>1, <1>2, ServedStep, TypeCorrect, PTL DEF Spec

------------------------------------------------------------------------------
(* The arbiter's counters agree with its queues and with what the channels *)
(* hold, so that the assertions of recvTimingResp never fail, and no read  *)
(* is answered twice.  Each argument is about one bank, with               *)
(* f = readInBufs[b], g = inflight[b], q = outstandingReads[b] and         *)
(* r = responseQueue[b].                                                   *)

Finite == INSTANCE FiniteSetTheorems

LEMMA SameSize ==
  \A S : Finite!IsFiniteSet(S) = IsFiniteSet(S) /\ Finite!Cardinality(S) = Cardinality(S)
BY DEF Finite!IsFiniteSet, IsFiniteSet, Finite!Cardinality, Cardinality

LEMMA SizeNat ==
  ASSUME NEW S, IsFiniteSet(S)
  PROVE  Cardinality(S) \in Nat /\ (Cardinality(S) = 0 <=> S = {})
BY SameSize, Finite!FS_CardinalityType, Finite!FS_EmptySet, Zenon

LEMMA PartFinite ==
  ASSUME NEW S, IsFiniteSet(S), NEW T \in SUBSET S
  PROVE  IsFiniteSet(T)
BY SameSize, Finite!FS_Subset, Zenon

LEMMA SizeAdd ==
  ASSUME NEW S, IsFiniteSet(S), NEW x, x \notin S
  PROVE  Cardinality(S \cup {x}) = Cardinality(S) + 1
BY SameSize, Finite!FS_AddElement, Zenon

LEMMA SizeRemove ==
  ASSUME NEW S, IsFiniteSet(S), NEW x \in S
  PROVE  Cardinality(S \ {x}) = Cardinality(S) - 1
BY SameSize, Finite!FS_RemoveElement, Zenon

LEMMA SizeEmpty == Cardinality({}) = 0
BY SameSize, Finite!FS_EmptySet, Zenon

Waiting(f, g) == {p \in Packets : p \in g \/ \E u \in Ups : p \in Range(f[u])}

\* Queued reads are in the queue of their own upstream, once, and not yet sent.
Tidy(b, f, g) ==
  /\ f \in [Ups -> Seq(Packets)] /\ g \subseteq Packets
  /\ \A u \in Ups : /\ Distinct(f[u])
                    /\ \A p \in Range(f[u]) : PktUp[p] = u /\ PktBank[p] = b /\ p \notin g
  /\ \A p \in g : PktBank[p] = b

\* The new read p is put at the end of its queue; the head of queue u is sent;
\* the channel answers p.
Joins(b, f, g, p, u, f2) ==
  /\ p \in Packets /\ u \in Ups /\ PktUp[p] = u /\ PktBank[p] = b
  /\ p \notin Range(f[u]) /\ p \notin g
  /\ f2 \in [Ups -> Seq(Packets)] /\ f2[u] = Append(f[u], p)
  /\ \A v \in Ups : v # u => f2[v] = f[v]
Moves(f, g, u, f2, g2) ==
  /\ u \in Ups /\ f[u] # <<>> /\ g2 = g \cup {Head(f[u])}
  /\ f2 \in [Ups -> Seq(Packets)] /\ f2[u] = Tail(f[u])
  /\ \A v \in Ups : v # u => f2[v] = f[v]
Leaves(g, p, g2) == p \in g /\ g2 = g \ {p}

LEMMA WaitingAdd ==
  ASSUME NEW b, NEW f, NEW g, NEW p, NEW u, NEW f2, Tidy(b, f, g), Joins(b, f, g, p, u, f2)
  PROVE  /\ Tidy(b, f2, g) /\ p \notin Waiting(f, g)
         /\ Waiting(f2, g) = Waiting(f, g) \cup {p}
<1> USE DEF Joins
<1>0. f[u] \in Seq(Packets)
  BY SMT, ZenonT(30) DEF Tidy
<1>1. Range(f2[u]) = Range(f[u]) \cup {p} /\ Distinct(f2[u])
  BY <1>0, AppendRange, SMT, ZenonT(30) DEF Tidy
<1>2. p \notin Waiting(f, g)
  BY Zenon DEF Waiting, Tidy
<1>3. Waiting(f2, g) = Waiting(f, g) \cup {p}
  <2>1. ASSUME NEW x PROVE (\E v \in Ups : x \in Range(f2[v]))
                           <=> x = p \/ \E v \in Ups : x \in Range(f[v])
    BY <1>1, ZenonT(30)
  <2> HIDE DEF Waiting
  <2> QED
    BY <2>1, ZenonT(30) DEF Waiting
<1>4. ASSUME NEW v \in Ups
      PROVE  /\ Distinct(f2[v])
             /\ \A x \in Range(f2[v]) : PktUp[x] = v /\ PktBank[x] = b /\ x \notin g
  <2>1. CASE v = u
    <3>1. \A x \in Range(f[u]) : PktUp[x] = u /\ PktBank[x] = b /\ x \notin g
      BY DEF Tidy
    <3> QED
      BY <1>1, <2>1, <3>1, ZenonT(30)
  <2>2. CASE v # u
    BY <2>2 DEF Tidy
  <2> QED
    BY <2>1, <2>2
<1>5. Tidy(b, f2, g)
  BY <1>4, SMT, ZenonT(30) DEF Tidy
<1> QED
  BY <1>2, <1>3, <1>5, SMT, ZenonT(30)

LEMMA WaitingSend ==
  ASSUME NEW b, NEW f, NEW g, NEW u, NEW f2, NEW g2, Tidy(b, f, g), Moves(f, g, u, f2, g2)
  PROVE  Tidy(b, f2, g2) /\ Waiting(f2, g2) = Waiting(f, g)
<1> USE DEF Moves
<1> DEFINE h == Head(f[u])
<1>0. f[u] \in Seq(Packets)
  BY DEF Tidy
<1>1. /\ h \in Packets /\ Range(f[u]) = Range(f2[u]) \cup {h}
      /\ Distinct(f2[u]) /\ h \notin Range(f2[u])
  BY <1>0, TailRange DEF Tidy
<1> HIDE DEF h
<1>2. g2 = g \cup {h}
  BY SMT, ZenonT(30) DEF h
<1>3. ASSUME NEW x PROVE x \in Waiting(f2, g2) <=> x \in Waiting(f, g)
  <2>1. (\E v \in Ups : x \in Range(f[v])) <=> x = h \/ \E v \in Ups : x \in Range(f2[v])
    BY <1>1, ZenonT(30)
  <2> QED
    BY <1>1, <1>2, <2>1, SMT, ZenonT(30) DEF Waiting
<1>4. PktUp[h] = u /\ PktBank[h] = b
  BY <1>1 DEF Tidy
<1>5. ASSUME NEW v \in Ups
      PROVE  /\ Distinct(f2[v])
             /\ \A p \in Range(f2[v]) : PktUp[p] = v /\ PktBank[p] = b /\ p \notin g2
  <2>1. CASE v = u
    <3>1. \A x \in Range(f[u]) : PktUp[x] = u /\ PktBank[x] = b /\ x \notin g
      BY DEF Tidy
    <3> QED
      BY <1>1, <1>2, <2>1, <3>1, ZenonT(30)
  <2>2. CASE v # u
    <3>1. /\ f2[v] = f[v] /\ Distinct(f[v])
          /\ \A x \in Range(f[v]) : PktUp[x] = v /\ PktBank[x] = b /\ x \notin g
      BY <2>2, SMT, ZenonT(30) DEF Tidy
    <3> QED
      BY <1>2, <1>4, <2>2, <3>1
  <2> QED
    BY <2>1, <2>2
<1>6. g2 \subseteq Packets /\ \A p \in g2 : PktBank[p] = b
  BY <1>1, <1>2, <1>4, SMT, ZenonT(30) DEF Tidy
<1>7. Tidy(b, f2, g2)
  BY <1>5, <1>6, SMT, ZenonT(30) DEF Tidy
<1> QED
  BY <1>3, <1>7, ZenonT(30)

LEMMA WaitingAnswer ==
  ASSUME NEW b, NEW f, NEW g, NEW p, NEW g2, Tidy(b, f, g), Leaves(g, p, g2)
  PROVE  /\ Tidy(b, f, g2) /\ p \in Waiting(f, g)
         /\ Waiting(f, g2) = Waiting(f, g) \ {p}
<1>1. Waiting(f, g2) = Waiting(f, g) \ {p} /\ p \in Waiting(f, g)
  BY DEF Waiting, Tidy, Leaves
<1> QED
  BY <1>1, ZenonT(30) DEF Tidy, Leaves

------------------------------------------------------------------------------
(* Counting the unanswered reads U of a bank.                              *)

Of(U, a) == {p \in U : PktAddr[p] = a}
Counts(U, n, q) ==
  n = Cardinality(U) /\ \A a \in Addrs : Len(q[a]) = Cardinality(Of(U, a))

LEMMA FinitePart ==
  ASSUME NEW U \in SUBSET Packets, NEW a
  PROVE  /\ IsFiniteSet(U) /\ Cardinality(U) \in Nat
         /\ IsFiniteSet(Of(U, a)) /\ Cardinality(Of(U, a)) \in Nat
<1>1. IsFiniteSet(U)
  BY ArbAssumption, PartFinite
<1>2. Of(U, a) \in SUBSET U
  BY DEF Of
<1>3. IsFiniteSet(Of(U, a))
  BY <1>1, <1>2, PartFinite, SMT, ZenonT(30)
<1> QED
  BY <1>1, <1>3, SizeNat

\* The records q2 have one more, or one less, for the address of p than q.
Longer(q, p, q2) ==
  /\ Len(q2[PktAddr[p]]) = Len(q[PktAddr[p]]) + 1
  /\ \A a \in Addrs : a # PktAddr[p] => q2[a] = q[a]
Shorter(q, p, q2) ==
  /\ Len(q2[PktAddr[p]]) = Len(q[PktAddr[p]]) - 1
  /\ \A a \in Addrs : a # PktAddr[p] => q2[a] = q[a]

LEMMA CountAdd ==
  ASSUME NEW U \in SUBSET Packets, NEW p \in Packets, p \notin U, NEW n, NEW q, NEW q2,
         Counts(U, n, q), Longer(q, p, q2)
  PROVE  Counts(U \cup {p}, n + 1, q2)
<1> USE DEF Longer
<1>1. Cardinality(U \cup {p}) = Cardinality(U) + 1
  BY FinitePart, SizeAdd, ZenonT(30)
<1>2. ASSUME NEW a \in Addrs
      PROVE  Len(q2[a]) = Cardinality(Of(U \cup {p}, a))
  <2>1. CASE a = PktAddr[p]
    <3>1. Of(U \cup {p}, a) = Of(U, a) \cup {p} /\ p \notin Of(U, a)
      BY <2>1 DEF Of
    <3>2. Cardinality(Of(U, a) \cup {p}) = Cardinality(Of(U, a)) + 1
      BY <3>1, FinitePart, SizeAdd, ZenonT(30)
    <3> QED
      BY <2>1, <3>1, <3>2, ZenonT(30) DEF Counts
  <2>2. CASE a # PktAddr[p]
    <3>1. Of(U \cup {p}, a) = Of(U, a)
      BY <2>2 DEF Of
    <3> QED
      BY <2>2, <3>1, SMT, ZenonT(30) DEF Counts
  <2> QED
    BY <2>1, <2>2, SMT, ZenonT(30)
<1> QED
  BY <1>1, <1>2, ZenonT(30) DEF Counts

LEMMA CountRemove ==
  ASSUME NEW U \in SUBSET Packets, NEW p \in U, NEW n, NEW q, NEW q2,
         Counts(U, n, q), Shorter(q, p, q2)
  PROVE  Counts(U \ {p}, n - 1, q2)
<1> USE DEF Shorter
<1>1. Cardinality(U \ {p}) = Cardinality(U) - 1
  BY FinitePart, SizeRemove
<1>2. ASSUME NEW a \in Addrs
      PROVE  Len(q2[a]) = Cardinality(Of(U \ {p}, a))
  <2>1. CASE a = PktAddr[p]
    <3>1. Of(U \ {p}, a) = Of(U, a) \ {p} /\ p \in Of(U, a)
      BY <2>1 DEF Of
    <3>2. Cardinality(Of(U, a) \ {p}) = Cardinality(Of(U, a)) - 1
      BY <3>1, FinitePart, SizeRemove, ZenonT(30)
    <3> QED
      BY <2>1, <3>1, <3>2, ZenonT(30) DEF Counts
  <2>2. CASE a # PktAddr[p]
    <3>1. Of(U \ {p}, a) = Of(U, a)
      BY <2>2, SMT, ZenonT(30) DEF Of
    <3> QED
      BY <2>2, <3>1 DEF Counts
  <2> QED
    BY <2>1, <2>2, SMT, ZenonT(30)
<1> QED
  BY <1>1, <1>2, ZenonT(30) DEF Counts

LEMMA CountFound ==
  ASSUME NEW U \in SUBSET Packets, NEW p \in U, NEW n, NEW q, Counts(U, n, q)
  PROVE  n > 0 /\ Len(q[PktAddr[p]]) > 0
<1>1. U # {} /\ Of(U, PktAddr[p]) # {}
  BY DEF Of
<1>2. /\ Cardinality(U) # 0 /\ Cardinality(U) \in Nat
      /\ Cardinality(Of(U, PktAddr[p])) # 0 /\ Cardinality(Of(U, PktAddr[p])) \in Nat
  BY <1>1, FinitePart, SizeNat, SMT, ZenonT(30)
<1>3. PktAddr[p] \in Addrs
  BY PacketType
<1> QED
  BY <1>2, <1>3 DEF Counts

\* Bank b in balance.
Balance(b, f, g, n, q) == Tidy(b, f, g) /\ Counts(Waiting(f, g), n, q)
Balanced ==
  \A b \in Banks : Balance(b, readInBufs[b], inflight[b],
                           nbrOutstandingReads[b], outstandingReads[b])

LEMMA BalanceFrame ==
  ASSUME Balanced, NEW b \in Banks,
         readInBufs'[b] = readInBufs[b], inflight'[b] = inflight[b],
         nbrOutstandingReads'[b] = nbrOutstandingReads[b],
         outstandingReads'[b] = outstandingReads[b]
  PROVE  Balance(b, readInBufs'[b], inflight'[b], nbrOutstandingReads'[b],
                 outstandingReads'[b])
BY Zenon DEF Balanced

LEMMA WaitingSubset ==
  ASSUME NEW f, NEW g
  PROVE  Waiting(f, g) \in SUBSET Packets
BY DEF Waiting

LEMMA BalanceAdd ==
  ASSUME NEW b, NEW f, NEW g, NEW n, NEW q, Balance(b, f, g, n, q),
         NEW p, NEW u, NEW f2, Joins(b, f, g, p, u, f2), NEW q2, Longer(q, p, q2)
  PROVE  Balance(b, f2, g, n + 1, q2)
<1>1. Tidy(b, f, g) /\ Counts(Waiting(f, g), n, q)
  BY DEF Balance
<1>2. /\ Tidy(b, f2, g) /\ p \notin Waiting(f, g)
      /\ Waiting(f2, g) = Waiting(f, g) \cup {p}
  BY <1>1, WaitingAdd
<1>3. Counts(Waiting(f, g) \cup {p}, n + 1, q2)
  <2> DEFINE U == Waiting(f, g)
  <2>1. U \in SUBSET Packets /\ Counts(U, n, q) /\ p \notin U /\ p \in Packets
    BY <1>1, <1>2, WaitingSubset, SMT, ZenonT(30) DEF Joins
  <2> HIDE DEF U
  <2>2. Counts(U \cup {p}, n + 1, q2)
    BY <2>1, CountAdd
  <2> QED
    BY <2>2, SMT, ZenonT(30) DEF U
<1> QED
  BY <1>2, <1>3 DEF Balance

LEMMA BalanceRemove ==
  ASSUME NEW b, NEW f, NEW g, NEW n, NEW q, Balance(b, f, g, n, q),
         NEW p, NEW g2, Leaves(g, p, g2), NEW q2, Shorter(q, p, q2)
  PROVE  Balance(b, f, g2, n - 1, q2)
<1>1. Tidy(b, f, g) /\ Counts(Waiting(f, g), n, q)
  BY DEF Balance
<1>2. /\ Tidy(b, f, g2) /\ p \in Waiting(f, g)
      /\ Waiting(f, g2) = Waiting(f, g) \ {p}
  BY <1>1, WaitingAnswer
<1>3. Counts(Waiting(f, g) \ {p}, n - 1, q2)
  <2> DEFINE U == Waiting(f, g)
  <2>1. U \in SUBSET Packets /\ Counts(U, n, q) /\ p \in U
    BY <1>1, <1>2, WaitingSubset
  <2> HIDE DEF U
  <2>2. Counts(U \ {p}, n - 1, q2)
    BY <2>1, CountRemove, SMT, ZenonT(30)
  <2> QED
    BY <2>2 DEF U
<1> QED
  BY <1>2, <1>3 DEF Balance

\* An accepted read joins the queue of its own bank and upstream.
LEMMA EnqueueJoins ==
  ASSUME TypeOK, NEW p \in Packets, ~Live(p), ~PktWrite[p], Enqueue(p)
  PROVE  /\ Joins(PktBank[p], readInBufs[PktBank[p]], inflight[PktBank[p]], p, PktUp[p],
                  readInBufs'[PktBank[p]])
         /\ \A b \in Banks : b # PktBank[p] => readInBufs'[b] = readInBufs[b]
<1>0. SUFFICES ASSUME NEW c \in Banks, NEW u \in Ups, c = PktBank[p], u = PktUp[p]
               PROVE  /\ Joins(c, readInBufs[c], inflight[c], p, u, readInBufs'[c])
                      /\ \A b \in Banks : b # c => readInBufs'[b] = readInBufs[b]
  BY PacketType, ZenonT(30)
<1>1. readInBufs' = [readInBufs EXCEPT ![c][u] = Append(@, p)]
  BY <1>0 DEF Enqueue
<1>2. readInBufs \in [Banks -> [Ups -> Seq(Packets)]]
  BY DEF TypeOK, BufType
<1>3. readInBufs[c][u] \in Seq(Packets) /\ Append(readInBufs[c][u], p) \in Seq(Packets)
  BY <1>2, SMT, ZenonT(30)
<1>4. /\ readInBufs' \in [Banks -> [Ups -> Seq(Packets)]]
      /\ readInBufs'[c][u] = Append(readInBufs[c][u], p)
      /\ \A v \in Ups : v # u => readInBufs'[c][v] = readInBufs[c][v]
      /\ \A b \in Banks : b # c => readInBufs'[b] = readInBufs[b]
  BY <1>1, <1>2, <1>3, PutPoint, SMT, ZenonT(30)
<1>5. p \notin Range(readInBufs[c][u]) /\ p \notin inflight[c]
  BY <1>0, Zenon DEF Live
<1>6. readInBufs'[c] \in [Ups -> Seq(Packets)]
  BY <1>4
<1> QED
  BY <1>0, <1>4, <1>5, <1>6, Zenon DEF Joins

LEMMA EnqueueBalanced ==
  ASSUME TypeOK, Balanced, NEW p \in Packets, ~Live(p), Enqueue(p), UNCHANGED inflight
  PROVE  Balanced'
<1>0. SUFFICES ASSUME NEW c \in Banks, NEW u \in Ups, NEW d \in Addrs,
                      c = PktBank[p], u = PktUp[p], d = PktAddr[p]
               PROVE  Balanced'
  BY PacketType, SMT, ZenonT(30)
<1>1. CASE PktWrite[p]
  BY <1>1 DEF Enqueue, camVars, Balanced
<1>2. CASE ~PktWrite[p]
  <2>1. /\ outstandingReads' = [outstandingReads EXCEPT ![c][d] = Append(@, p)]
        /\ nbrOutstandingReads' = [nbrOutstandingReads EXCEPT ![c] = @ + 1]
    BY <1>0, <1>2, ZenonT(30) DEF Enqueue
  <2>2. /\ outstandingReads \in [Banks -> [Addrs -> Seq(Packets)]]
        /\ nbrOutstandingReads \in [Banks -> Nat]
    BY DEF TypeOK, CamType
  <2>3. /\ outstandingReads[c][d] \in Seq(Packets)
        /\ Append(outstandingReads[c][d], p) \in Seq(Packets)
        /\ Len(Append(outstandingReads[c][d], p)) = Len(outstandingReads[c][d]) + 1
    BY <2>2, SMT, ZenonT(30)
  <2>4. /\ Joins(c, readInBufs[c], inflight[c], p, u, readInBufs'[c])
        /\ \A b \in Banks : b # c => readInBufs'[b] = readInBufs[b]
    BY <1>0, <1>2, EnqueueJoins, ZenonT(30)
  <2>5. /\ outstandingReads'[c][d] = Append(outstandingReads[c][d], p)
        /\ \A a \in Addrs : a # d => outstandingReads'[c][a] = outstandingReads[c][a]
        /\ \A b \in Banks : b # c => outstandingReads'[b] = outstandingReads[b]
    BY <2>1, <2>2, <2>3, PutPoint, SMT, ZenonT(30)
  <2>6. /\ nbrOutstandingReads'[c] = nbrOutstandingReads[c] + 1
        /\ \A b \in Banks : b # c => nbrOutstandingReads'[b] = nbrOutstandingReads[b]
    BY <2>1, <2>2, SMT, ZenonT(30)
  <2> DEFINE f == readInBufs[c]       f2 == readInBufs'[c]
             q == outstandingReads[c] q2 == outstandingReads'[c]
             g == inflight[c]         n == nbrOutstandingReads[c]
  <2>8. Balance(c, f, g, n, q)
    BY DEF Balanced
  <2>10. Len(q2[d]) = Len(q[d]) + 1
    BY <2>3, <2>5, Zenon
  <2>11. Balance(c, f2, g, n + 1, q2)
    <3>1. Joins(c, f, g, p, u, f2)
      BY <2>4, ZenonT(30)
    <3>2. Longer(q, p, q2)
      BY <1>0, <2>5, <2>10, Zenon DEF Longer
    <3> HIDE DEF f, f2, q, q2, g, n
    <3> QED
      BY <2>8, <3>1, <3>2, BalanceAdd, SMT, ZenonT(30)
  <2>12. Balance(c, readInBufs'[c], inflight'[c], nbrOutstandingReads'[c],
                 outstandingReads'[c])
    BY <2>6, <2>11, Zenon
  <2>13. ASSUME NEW b \in Banks, b # c
         PROVE  Balance(b, readInBufs'[b], inflight'[b], nbrOutstandingReads'[b],
                        outstandingReads'[b])
    BY <2>4, <2>5, <2>6, <2>13, BalanceFrame, Zenon
  <2> QED
    BY <2>12, <2>13, Zenon DEF Balanced
<1> QED
  BY <1>1, <1>2, SMT, ZenonT(30)

LEMMA ResponseBalanced ==
  ASSUME TypeOK, Balanced, NEW p \in Packets, RecvTimingResp(p)
  PROVE  Balanced'
<1>0. SUFFICES ASSUME NEW c \in Banks, NEW d \in Addrs, c = PktBank[p], d = PktAddr[p]
               PROVE  Balanced'
  BY PacketType
<1>1. /\ outstandingReads' = [outstandingReads EXCEPT ![c][d] = Tail(@)]
      /\ nbrOutstandingReads' = [nbrOutstandingReads EXCEPT ![c] = @ - 1]
      /\ inflight' = [inflight EXCEPT ![c] = @ \ {p}]
      /\ p \in inflight[c] /\ outstandingReads[c][d] # <<>>
      /\ readInBufs' = readInBufs
  BY <1>0 DEF RecvTimingResp, TakeOldest, Expected, bufVars
<1>2. /\ outstandingReads \in [Banks -> [Addrs -> Seq(Packets)]]
      /\ nbrOutstandingReads \in [Banks -> Nat]
      /\ inflight \in [Banks -> SUBSET Packets]
  BY DEF TypeOK, CamType, ChanType
<1>3. /\ Tail(outstandingReads[c][d]) \in Seq(Packets)
      /\ Len(Tail(outstandingReads[c][d])) = Len(outstandingReads[c][d]) - 1
  <2>1. outstandingReads[c][d] \in Seq(Packets)
    BY <1>2, SMT, ZenonT(30)
  <2> QED
    BY <1>1, <2>1
<1>4. /\ outstandingReads'[c][d] = Tail(outstandingReads[c][d])
      /\ \A a \in Addrs : a # d => outstandingReads'[c][a] = outstandingReads[c][a]
      /\ \A b \in Banks : b # c => outstandingReads'[b] = outstandingReads[b]
  BY <1>1, <1>2, <1>3, PutPoint, SMT, ZenonT(30)
<1>5. /\ nbrOutstandingReads'[c] = nbrOutstandingReads[c] - 1
      /\ \A b \in Banks : b # c => nbrOutstandingReads'[b] = nbrOutstandingReads[b]
  BY <1>1, <1>2, SetPoint, Zenon
<1>6. /\ inflight'[c] = inflight[c] \ {p}
      /\ \A b \in Banks : b # c => inflight'[b] = inflight[b]
  BY <1>1, <1>2, SetPoint, Zenon
<1> DEFINE f == readInBufs[c]       g == inflight[c]  g2 == inflight'[c]
           q == outstandingReads[c] q2 == outstandingReads'[c]
           n == nbrOutstandingReads[c]
<1>7. Balance(c, f, g, n, q)
  BY ZenonT(30) DEF Balanced
<1>8. Len(q2[d]) = Len(q[d]) - 1
  BY <1>3, <1>4, Zenon
<1>9. Balance(c, f, g2, n - 1, q2)
  <2>1. Leaves(g, p, g2)
    BY <1>1, <1>6, Zenon DEF Leaves
  <2>2. Shorter(q, p, q2)
    BY <1>0, <1>4, <1>8, Zenon DEF Shorter
  <2> HIDE DEF f, q, q2, g, g2, n
  <2> QED
    BY <1>7, <2>1, <2>2, BalanceRemove
<1>10. Balance(c, readInBufs'[c], inflight'[c], nbrOutstandingReads'[c],
               outstandingReads'[c])
  BY <1>1, <1>5, <1>9, Zenon
<1>11. ASSUME NEW b \in Banks, b # c
       PROVE  Balance(b, readInBufs'[b], inflight'[b], nbrOutstandingReads'[b],
                      outstandingReads'[b])
  BY <1>1, <1>4, <1>5, <1>6, <1>11, BalanceFrame, Zenon
<1> QED
  BY <1>10, <1>11, Zenon DEF Balanced

LEMMA BalanceMove ==
  ASSUME NEW b, NEW f, NEW g, NEW n, NEW q, Balance(b, f, g, n, q),
         NEW u, NEW f2, NEW g2, Moves(f, g, u, f2, g2)
  PROVE  Balance(b, f2, g2, n, q)
<1>1. Tidy(b, f, g) /\ Counts(Waiting(f, g), n, q)
  BY DEF Balance
<1>2. Tidy(b, f2, g2) /\ Waiting(f2, g2) = Waiting(f, g)
  BY <1>1, WaitingSend
<1> QED
  BY <1>1, <1>2 DEF Balance

\* A read sent moves from the queue of its upstream into the channel.
LEMMA SentMoves ==
  ASSUME TypeOK, ReadSent
  PROVE  \E u \in Ups :
           /\ Moves(readInBufs[bank], inflight[bank], u, readInBufs'[bank], inflight'[bank])
           /\ \E j \in 0 .. NumUp - 1 : /\ NextCandidate(readInBufs, rrReadIdx, j)
                                        /\ u = RoundRobin(rrReadIdx, j)
           /\ \A b \in Banks : b # bank => /\ readInBufs'[b] = readInBufs[b]
                                           /\ inflight'[b] = inflight[b]
<1>1. PICK j \in 0 .. NumUp - 1 :
        LET u == RoundRobin(rrReadIdx, j) IN
          /\ NextCandidate(readInBufs, rrReadIdx, j)
          /\ readInBufs' = [readInBufs EXCEPT ![bank][u] = Tail(@)]
          /\ inflight' = [inflight EXCEPT ![bank] = @ \cup {Head(readInBufs[bank][u])}]
  BY Zenon DEF ReadSent
<1> DEFINE u == RoundRobin(rrReadIdx, j)
<1>2. bank \in Banks /\ u \in Ups
  BY RoundRobinUp, ZenonT(30) DEF TypeOK, LoopType, BufType
<1>3. readInBufs[bank][u] # <<>>
  BY <1>1 DEF NextCandidate
<1>4. SUFFICES ASSUME NEW c \in Banks, NEW v \in Ups, c = bank, v = u
               PROVE  /\ Moves(readInBufs[c], inflight[c], v, readInBufs'[c], inflight'[c])
                      /\ \A b \in Banks : b # c => /\ readInBufs'[b] = readInBufs[b]
                                                   /\ inflight'[b] = inflight[b]
  BY <1>1, <1>2, Zenon
<1>5. /\ readInBufs' = [readInBufs EXCEPT ![c][v] = Tail(@)]
      /\ inflight' = [inflight EXCEPT ![c] = @ \cup {Head(readInBufs[c][v])}]
      /\ readInBufs[c][v] # <<>>
  BY <1>1, <1>3, <1>4
<1> HIDE DEF u
<1>6. /\ readInBufs \in [Banks -> [Ups -> Seq(Packets)]]
      /\ inflight \in [Banks -> SUBSET Packets]
  BY ZenonT(30) DEF TypeOK, BufType, ChanType
<1>7. Tail(readInBufs[c][v]) \in Seq(Packets)
  <2>1. readInBufs[c][v] \in Seq(Packets)
    BY <1>6
  <2> QED
    BY <1>5, <2>1
<1>8. /\ readInBufs' \in [Banks -> [Ups -> Seq(Packets)]]
      /\ readInBufs'[c][v] = Tail(readInBufs[c][v])
      /\ \A w \in Ups : w # v => readInBufs'[c][w] = readInBufs[c][w]
      /\ \A b \in Banks : b # c => readInBufs'[b] = readInBufs[b]
  BY <1>5, <1>6, <1>7, PutPoint, SMT, ZenonT(30)
<1>9. /\ inflight'[c] = inflight[c] \cup {Head(readInBufs[c][v])}
      /\ \A b \in Banks : b # c => inflight'[b] = inflight[b]
  BY <1>5, <1>6, SetPoint, Zenon
<1>10. readInBufs'[c] \in [Ups -> Seq(Packets)]
  BY <1>8
<1> QED
  BY <1>5, <1>8, <1>9, <1>10, Zenon DEF Moves

LEMMA SentBalanced ==
  ASSUME TypeOK, Balanced, ReadSent
  PROVE  Balanced'
<1>1. PICK u \in Ups :
        /\ Moves(readInBufs[bank], inflight[bank], u, readInBufs'[bank], inflight'[bank])
        /\ \A b \in Banks : b # bank => /\ readInBufs'[b] = readInBufs[b]
                                        /\ inflight'[b] = inflight[b]
  BY SentMoves, Zenon
<1>2. UNCHANGED <<outstandingReads, nbrOutstandingReads>> /\ bank \in Banks
  BY SMT, ZenonT(30) DEF ReadSent, camVars, TypeOK, LoopType
<1>3. Balance(bank, readInBufs[bank], inflight[bank], nbrOutstandingReads[bank],
              outstandingReads[bank])
  BY <1>2, SMT, ZenonT(30) DEF Balanced
<1>4. Balance(bank, readInBufs'[bank], inflight'[bank], nbrOutstandingReads[bank],
              outstandingReads[bank])
  BY <1>1, <1>3, BalanceMove, ZenonT(30)
<1>5. ASSUME NEW b \in Banks
      PROVE  Balance(b, readInBufs'[b], inflight'[b], nbrOutstandingReads'[b],
                     outstandingReads'[b])
  BY <1>1, <1>2, <1>4, BalanceFrame, Zenon
<1> QED
  BY <1>5, Zenon DEF Balanced

LEMMA LenEmpty == Len(<<>>) = 0
OBVIOUS

LEMMA NothingIn ==
  DOMAIN <<>> = {} /\ Range(<<>>) = {} /\ Distinct(<<>>)
<1>1. DOMAIN <<>> = {}
  BY SMT, ZenonT(30)
<1> QED
  BY <1>1 DEF Range, Distinct

LEMMA BalancedInit == Init => Balanced
<1> SUFFICES ASSUME Init, NEW b \in Banks
             PROVE  Balance(b, readInBufs[b], inflight[b], nbrOutstandingReads[b],
                            outstandingReads[b])
  BY ZenonT(30) DEF Balanced
<1> DEFINE f == readInBufs[b]  g == inflight[b]
<1>1. /\ f = [u \in Ups |-> <<>>] /\ g = {} /\ nbrOutstandingReads[b] = 0
      /\ outstandingReads[b] = [a \in Addrs |-> <<>>]
  BY DEF Init, PerPort
<1>2. \A u \in Ups : Range(f[u]) = {} /\ Distinct(f[u])
  BY <1>1, NothingIn, SMT, ZenonT(30)
<1>3. Waiting(f, g) = {}
  BY <1>1, <1>2, SMT, ZenonT(30) DEF Waiting
<1>4. Tidy(b, f, g)
  BY <1>1, <1>2 DEF Tidy
<1>5. Cardinality({}) = 0 /\ \A a \in Addrs : Of({}, a) = {}
  BY SizeEmpty DEF Of
<1>6. Counts({}, nbrOutstandingReads[b], outstandingReads[b])
  <2>1. \A a \in Addrs : outstandingReads[b][a] = <<>>
    BY <1>1
  <2> QED
    BY <1>1, <1>5, <2>1, LenEmpty, Zenon DEF Counts
<1> QED
  BY <1>3, <1>4, <1>6, ZenonT(30) DEF Balance

LEMMA BalancedStep == TypeOK /\ Balanced /\ [Next]_vars => Balanced'
<1> SUFFICES ASSUME TypeOK, Balanced, [Next]_vars PROVE Balanced'
  OBVIOUS
<1>1. ASSUME UNCHANGED <<readInBufs, inflight, camVars>> PROVE Balanced'
  BY <1>1, Zenon DEF Balanced, camVars
<1>2. ASSUME NEW p \in Packets, RecvTimingReqUp(p) PROVE Balanced'
  BY <1>1, <1>2, EnqueueBalanced, SMT, ZenonT(30) DEF RecvTimingReqUp, bufVars, chanVars
<1>3. ASSUME NEW p \in Packets, RecvTimingResp(p) PROVE Balanced'
  BY <1>3, ResponseBalanced
<1>4. CASE SendRetryReq
  BY <1>1, <1>4, EnqueueBalanced, SMT, ZenonT(30) DEF SendRetryReq, bufVars, chanVars
<1>5. CASE SendResponseEvent \/ (\E b \in Banks, u \in Ups : HandleRespRetry(b, u))
  BY <1>1, <1>5, SMT, ZenonT(30) DEF SendResponseEvent, HandleRespRetry, bufVars, chanVars
<1>6. CASE \/ \E b \in Banks, u \in Ups : ResponseAccepted(b, u) \/ ResponseRefused(b, u)
           \/ SendResponseDone
  BY <1>1, <1>6 DEF ResponseAccepted, ResponseRefused, SendResponseDone, bufVars, chanVars
<1>7. CASE ReadSent
  BY <1>7, SentBalanced, SMT, ZenonT(30)
<1>8. CASE ArbitrateEvent \/ ReadRefused \/ NoReadSent \/ WriteSent \/ WriteRefused \/ NoWriteSent
  BY <1>1, <1>8, ZenonT(30) DEF ArbitrateEvent, ReadRefused, NoReadSent, WriteSent, WriteRefused,
                    NoWriteSent, bufVars, chanVars
<1>9. CASE \E b \in Banks : HandleReqRetry(b)
  BY <1>1, <1>9 DEF HandleReqRetry, bufVars
<1>10. CASE UNCHANGED vars
  BY <1>1, <1>10 DEF vars, bufVars, chanVars
<1> QED
  BY <1>2, <1>3, <1>4, <1>5, <1>6, <1>7, <1>8, <1>9, <1>10, Zenon
     DEF Next, SendResponseStep, ArbitrateStep

\* nbrOutstandingReads and the per-address records count exactly the reads on
\* their way to a channel or inside one, whatever the order of answers.
THEOREM CountersExact == Spec => []Accounting
<1>1. Balanced => Accounting
  BY Zenon DEF Balanced, Balance, Counts, Of, Waiting, Accounting, Unanswered
<1> QED
  BY <1>1, BalancedInit, BalancedStep, TypeCorrect, PTL DEF Spec

\* The assertions of recvTimingResp hold for every read a channel may answer.
THEOREM AssertionsHold == Spec => []ResponseExpected
<1>1. TypeOK /\ Balanced /\ InStep => ResponseExpected
  <2> SUFFICES ASSUME TypeOK, Balanced, InStep, NEW b \in Banks, NEW p \in inflight[b]
               PROVE  Expected(b, PktAddr[p])
    BY DEF ResponseExpected
  <2> DEFINE a == PktAddr[p]
  <2>1. p \in Packets /\ a \in Addrs
    BY PacketType, SMT, ZenonT(30) DEF TypeOK, ChanType
  <2> DEFINE U == Waiting(readInBufs[b], inflight[b])
  <2>2. /\ U \in SUBSET Packets /\ p \in U
        /\ Counts(U, nbrOutstandingReads[b], outstandingReads[b])
    BY <2>1, WaitingSubset, ZenonT(30) DEF Waiting, Balanced, Balance
  <2> HIDE DEF U
  <2>3. nbrOutstandingReads[b] > 0 /\ Len(outstandingReads[b][a]) > 0
    BY <2>2, CountFound, ZenonT(30)
  <2>4. Len(outstandingUpstream[b][a]) > 0
    BY <2>1, <2>3 DEF InStep
  <2> QED
    BY <2>3, <2>4, SMT, ZenonT(30) DEF Expected
<1>2. Spec => []InStep
  BY ResponsesToIssuer, PTL
<1> QED
  BY <1>1, <1>2, BalancedInit, BalancedStep, TypeCorrect, PTL DEF Spec

------------------------------------------------------------------------------
(* A read has one record at most.                                          *)

Pkts(r) == {r[i].pkt : i \in DOMAIN r}
DistinctPkts(r) == \A i, j \in DOMAIN r : r[i].pkt = r[j].pkt => i = j

LEMMA AppendPkts ==
  ASSUME NEW r \in Seq(Responses), NEW e \in Responses
  PROVE  /\ Append(r, e) \in Seq(Responses) /\ Pkts(Append(r, e)) = Pkts(r) \cup {e.pkt}
         /\ DistinctPkts(r) /\ e.pkt \notin Pkts(r) => DistinctPkts(Append(r, e))
<1> DEFINE n == Len(r)  t == Append(r, e)
<1>1. /\ n \in Nat /\ DOMAIN r = 1 .. n /\ DOMAIN t = 1 .. n + 1 /\ t \in Seq(Responses)
      /\ t[n + 1] = e /\ \A i \in 1 .. n : t[i] = r[i]
  OBVIOUS
<1> HIDE DEF n, t
<1>2. \A i \in 1 .. n + 1 : i \in 1 .. n \/ i = n + 1
  BY <1>1
<1>3. \A i \in 1 .. n : i \in 1 .. n + 1
  BY <1>1
<1>4. n + 1 \in 1 .. n + 1
  BY <1>1
<1>5. Pkts(t) = Pkts(r) \cup {e.pkt}
  BY <1>1, <1>2, <1>3, <1>4, Zenon DEF Pkts
<1>6. ASSUME DistinctPkts(r), e.pkt \notin Pkts(r), NEW i \in 1 .. n + 1, NEW j \in 1 .. n + 1,
             t[i].pkt = t[j].pkt
      PROVE  i = j
  <2>1. \A m \in 1 .. n : r[m].pkt # e.pkt
    BY <1>1, <1>6, Zenon DEF Pkts
  <2> QED
    BY <1>1, <1>2, <1>6, <2>1, Zenon DEF DistinctPkts
<1> QED
  BY <1>1, <1>5, <1>6, Zenon DEF DistinctPkts, t

LEMMA TailPkts ==
  ASSUME NEW r \in Seq(Responses), r # <<>>
  PROVE  /\ Tail(r) \in Seq(Responses) /\ Pkts(Tail(r)) \subseteq Pkts(r)
         /\ DistinctPkts(r) => DistinctPkts(Tail(r))
<1> DEFINE n == Len(r)  t == Tail(r)
<1>1. /\ n \in Nat \ {0} /\ DOMAIN r = 1 .. n /\ DOMAIN t = 1 .. n - 1
      /\ t \in Seq(Responses) /\ \A i \in 1 .. n - 1 : t[i] = r[i + 1]
  OBVIOUS
<1> HIDE DEF n, t
<1>2. \A i \in 1 .. n - 1 : i + 1 \in 1 .. n
  BY <1>1
<1>3. \A i, j \in 1 .. n - 1 : i + 1 = j + 1 => i = j
  BY <1>1
<1>4. Pkts(t) \subseteq Pkts(r)
  BY <1>1, <1>2, Zenon DEF Pkts
<1>5. ASSUME DistinctPkts(r), NEW i \in 1 .. n - 1, NEW j \in 1 .. n - 1, t[i].pkt = t[j].pkt
      PROVE  i = j
  <2>1. r[i + 1].pkt = r[j + 1].pkt
    BY <1>1, <1>5, Zenon
  <2>2. i + 1 = j + 1
    BY <1>1, <1>2, <1>5, <2>1, Zenon DEF DistinctPkts
  <2> QED
    BY <1>3, <2>2, Zenon
<1> QED
  BY <1>1, <1>4, <1>5, Zenon DEF DistinctPkts, t

\* The records q of a bank's unanswered reads and its responses r, together.
Once(q, r) ==
  /\ \A a \in Addrs :
       /\ q[a] \in Seq(Packets) /\ Distinct(q[a])
       /\ \A p \in Range(q[a]) : PktAddr[p] = a /\ p \notin Pkts(r)
  /\ r \in Seq(Responses) /\ DistinctPkts(r)
AllOnce == \A b \in Banks : Once(outstandingReads[b], responseQueue[b])

\* A record for p is added; the oldest record of address a becomes a response.
Records(q, r, p, q2) ==
  /\ p \in Packets /\ p \notin Range(q[PktAddr[p]]) /\ p \notin Pkts(r)
  /\ q2[PktAddr[p]] = Append(q[PktAddr[p]], p)
  /\ \A a \in Addrs : a # PktAddr[p] => q2[a] = q[a]
Answers(q, r, d, e, q2, r2) ==
  /\ d \in Addrs /\ q[d] # <<>> /\ q2[d] = Tail(q[d])
  /\ \A a \in Addrs : a # d => q2[a] = q[a]
  /\ e \in Responses /\ e.pkt = Head(q[d]) /\ r2 = Append(r, e)

LEMMA OnceAdd ==
  ASSUME NEW q, NEW r, NEW p, NEW q2, Once(q, r), Records(q, r, p, q2)
  PROVE  Once(q2, r)
<1> DEFINE d == PktAddr[p]
<1>1. d \in Addrs /\ p \in Packets
  BY PacketType, SMT, ZenonT(30) DEF Records
<1>2. q[d] \in Seq(Packets) /\ Distinct(q[d]) /\ p \notin Range(q[d])
  BY <1>1, ZenonT(30) DEF Once, Records
<1>3. /\ Append(q[d], p) \in Seq(Packets) /\ Range(Append(q[d], p)) = Range(q[d]) \cup {p}
      /\ Distinct(Append(q[d], p))
  BY <1>1, <1>2, AppendRange, SMT, ZenonT(30)
<1>4. /\ q2[d] \in Seq(Packets) /\ Distinct(q2[d])
      /\ \A e \in Range(q2[d]) : PktAddr[e] = d /\ e \notin Pkts(r)
  BY <1>1, <1>3, ZenonT(30) DEF Once, Records
<1>5. ASSUME NEW a \in Addrs, a # d PROVE q2[a] = q[a]
  BY <1>5, SMT, ZenonT(30) DEF Records
<1> HIDE DEF d
<1> QED
  BY <1>4, <1>5, Zenon DEF Once

LEMMA OnceAnswer ==
  ASSUME NEW q, NEW r, NEW d, NEW e, NEW q2, NEW r2, Once(q, r), Answers(q, r, d, e, q2, r2)
  PROVE  Once(q2, r2)
<1> DEFINE h == Head(q[d])
<1>1. d \in Addrs /\ q[d] \in Seq(Packets) /\ q[d] # <<>> /\ Distinct(q[d])
  BY SMT, ZenonT(30) DEF Once, Answers
<1>2. /\ Tail(q[d]) \in Seq(Packets) /\ Range(q[d]) = Range(Tail(q[d])) \cup {h}
      /\ Distinct(Tail(q[d])) /\ h \notin Range(Tail(q[d]))
  BY <1>1, TailRange, SMT, ZenonT(30)
<1>3. PktAddr[h] = d /\ h \notin Pkts(r)
  BY <1>1, <1>2, ZenonT(30) DEF Once
<1>4. r \in Seq(Responses) /\ DistinctPkts(r) /\ e \in Responses /\ e.pkt = h /\ r2 = Append(r, e)
  BY ZenonT(30) DEF Once, Answers
<1>5. r2 \in Seq(Responses) /\ Pkts(r2) = Pkts(r) \cup {h} /\ DistinctPkts(r2)
  BY <1>3, <1>4, AppendPkts, SMT, ZenonT(30)
<1>6. q2[d] = Tail(q[d]) /\ \A a \in Addrs : a # d => q2[a] = q[a]
  BY SMT, ZenonT(30) DEF Answers
<1> HIDE DEF h
<1>7. ASSUME NEW a \in Addrs
      PROVE  /\ q2[a] \in Seq(Packets) /\ Distinct(q2[a])
             /\ \A p \in Range(q2[a]) : PktAddr[p] = a /\ p \notin Pkts(r2)
  <2>1. CASE a = d
    BY <1>2, <1>5, <1>6, <2>1, ZenonT(30) DEF Once
  <2>2. CASE a # d
    BY <1>3, <1>5, <1>6, <2>2, ZenonT(30) DEF Once
  <2> QED
    BY <2>1, <2>2, ZenonT(30)
<1> QED
  BY <1>5, <1>7, ZenonT(30) DEF Once

LEMMA OncePop ==
  ASSUME NEW q, NEW r, NEW r2, Once(q, r), r # <<>>, r2 = Tail(r)
  PROVE  Once(q, r2)
<1>1. r2 \in Seq(Responses) /\ Pkts(r2) \subseteq Pkts(r) /\ DistinctPkts(r2)
  BY TailPkts DEF Once
<1> QED
  BY <1>1, SMT, ZenonT(30) DEF Once

LEMMA OnceFrame ==
  ASSUME AllOnce, NEW b \in Banks, outstandingReads'[b] = outstandingReads[b],
         responseQueue'[b] = responseQueue[b]
  PROVE  Once(outstandingReads'[b], responseQueue'[b])
BY Zenon DEF AllOnce

LEMMA EnqueueOnce ==
  ASSUME TypeOK, AllOnce, NEW p \in Packets, ~Live(p), Enqueue(p), UNCHANGED responseQueue
  PROVE  AllOnce'
<1>0. SUFFICES ASSUME NEW c \in Banks, NEW d \in Addrs, c = PktBank[p], d = PktAddr[p]
               PROVE  AllOnce'
  BY PacketType
<1>1. CASE PktWrite[p]
  BY <1>1, Zenon DEF Enqueue, camVars, AllOnce
<1>2. CASE ~PktWrite[p]
  <2>1. outstandingReads' = [outstandingReads EXCEPT ![c][d] = Append(@, p)]
    BY <1>0, <1>2 DEF Enqueue
  <2>2. outstandingReads \in [Banks -> [Addrs -> Seq(Packets)]]
    BY DEF TypeOK, CamType
  <2>3. Append(outstandingReads[c][d], p) \in Seq(Packets)
    BY <2>2, SMT, ZenonT(30)
  <2>4. /\ outstandingReads'[c][d] = Append(outstandingReads[c][d], p)
        /\ \A a \in Addrs : a # d => outstandingReads'[c][a] = outstandingReads[c][a]
        /\ \A b \in Banks : b # c => outstandingReads'[b] = outstandingReads[b]
    BY <2>1, <2>2, <2>3, PutPoint, SMT, ZenonT(30)
  <2>5. p \notin Range(outstandingReads[c][d]) /\ p \notin Pkts(responseQueue[c])
    BY <1>0, Zenon DEF Live, Pkts
  <2> DEFINE q == outstandingReads[c]  q2 == outstandingReads'[c]  r == responseQueue[c]
  <2>6. Once(q, r)
    BY DEF AllOnce
  <2>7. Once(q2, r)
    <3>1. Records(q, r, p, q2)
      BY <1>0, <2>4, <2>5, Zenon DEF Records
    <3> HIDE DEF q, q2, r
    <3> QED
      BY <2>6, <3>1, OnceAdd
  <2>8. Once(outstandingReads'[c], responseQueue'[c])
    BY <2>7, Zenon
  <2>9. ASSUME NEW b \in Banks, b # c
        PROVE  Once(outstandingReads'[b], responseQueue'[b])
    BY <2>4, <2>9, OnceFrame, Zenon
  <2> QED
    BY <2>8, <2>9, ZenonT(30) DEF AllOnce
<1> QED
  BY <1>1, <1>2, SMT, ZenonT(30)

LEMMA ResponseOnce ==
  ASSUME TypeOK, AllOnce, NEW p \in Packets, RecvTimingResp(p)
  PROVE  AllOnce'
<1>0. SUFFICES ASSUME NEW c \in Banks, NEW d \in Addrs, c = PktBank[p], d = PktAddr[p]
               PROVE  AllOnce'
  BY PacketType
<1> DEFINE q == outstandingReads[c]  q2 == outstandingReads'[c]
           r == responseQueue[c]     r2 == responseQueue'[c]
           e == [pkt |-> Head(q[d]), up |-> Head(outstandingUpstream[c][d])]
<1>1. /\ outstandingReads' = [outstandingReads EXCEPT ![c][d] = Tail(@)]
      /\ responseQueue' = [responseQueue EXCEPT ![c] = Append(@, e)]
      /\ q[d] # <<>> /\ outstandingUpstream[c][d] # <<>>
  BY <1>0, SMT, ZenonT(30) DEF RecvTimingResp, TakeOldest, Expected, AccessAndRespond
<1>2. /\ outstandingReads \in [Banks -> [Addrs -> Seq(Packets)]]
      /\ outstandingUpstream \in [Banks -> [Addrs -> Seq(Ups)]]
      /\ responseQueue \in [Banks -> Seq(Responses)]
  BY DEF TypeOK, CamType, RespType
<1>3. Tail(q[d]) \in Seq(Packets) /\ Head(q[d]) \in Packets /\ Head(outstandingUpstream[c][d]) \in Ups
  <2>1. q[d] \in Seq(Packets) /\ outstandingUpstream[c][d] \in Seq(Ups)
    BY <1>2, SMT, ZenonT(30)
  <2> QED
    BY <1>1, <2>1
<1>4. e \in Responses /\ e.pkt = Head(q[d])
  BY <1>3, ZenonT(30) DEF Responses
<1>5. /\ q2[d] = Tail(q[d]) /\ \A a \in Addrs : a # d => q2[a] = q[a]
      /\ \A b \in Banks : b # c => outstandingReads'[b] = outstandingReads[b]
  BY <1>1, <1>2, <1>3, PutPoint, SMT, ZenonT(30)
<1> HIDE DEF e
<1>6. r2 = Append(r, e) /\ \A b \in Banks : b # c => responseQueue'[b] = responseQueue[b]
  BY <1>1, <1>2, SetPoint, Zenon
<1>7. Once(q, r)
  BY DEF AllOnce
<1>8. Once(q2, r2)
  <2>1. Answers(q, r, d, e, q2, r2)
    BY <1>0, <1>1, <1>4, <1>5, <1>6, Zenon DEF Answers
  <2> HIDE DEF q, q2, r, r2
  <2> QED
    BY <1>7, <2>1, OnceAnswer
<1>9. ASSUME NEW b \in Banks, b # c
      PROVE  Once(outstandingReads'[b], responseQueue'[b])
  BY <1>5, <1>6, <1>9, OnceFrame, Zenon
<1> QED
  BY <1>8, <1>9, Zenon DEF AllOnce

LEMMA PopOnce ==
  ASSUME TypeOK, AllOnce, NEW c \in Banks, responseQueue[c] # <<>>, PopResponse(c),
         UNCHANGED camVars
  PROVE  AllOnce'
<1>1. /\ responseQueue'[c] = Tail(responseQueue[c])
      /\ \A b \in Banks : b # c => responseQueue'[b] = responseQueue[b]
  BY SMT, ZenonT(30) DEF PopResponse, TypeOK, RespType
<1>2. Once(outstandingReads'[c], responseQueue'[c])
  <2>1. Once(outstandingReads[c], responseQueue[c]) /\ UNCHANGED outstandingReads
    BY DEF AllOnce, camVars
  <2> QED
    BY <1>1, <2>1, OncePop, ZenonT(30)
<1>3. ASSUME NEW b \in Banks, b # c
      PROVE  Once(outstandingReads'[b], responseQueue'[b])
  BY <1>1, <1>3, OnceFrame, Zenon DEF camVars
<1> QED
  BY <1>2, <1>3, Zenon DEF AllOnce

LEMMA OnceStep == TypeOK /\ AllOnce /\ [Next]_vars => AllOnce'
<1> SUFFICES ASSUME TypeOK, AllOnce, [Next]_vars PROVE AllOnce'
  OBVIOUS
<1>1. ASSUME UNCHANGED <<camVars, responseQueue>> PROVE AllOnce'
  BY <1>1, Zenon DEF AllOnce, camVars
<1>2. ASSUME NEW p \in Packets, RecvTimingReqUp(p) PROVE AllOnce'
  BY <1>1, <1>2, EnqueueOnce, SMT, ZenonT(30) DEF RecvTimingReqUp, respVars
<1>3. ASSUME NEW p \in Packets, RecvTimingResp(p) PROVE AllOnce'
  BY <1>3, ResponseOnce
<1>4. ASSUME NEW b \in Banks, NEW u \in Ups, ResponseAccepted(b, u) PROVE AllOnce'
  BY <1>4, PopOnce DEF ResponseAccepted, Turn, Sends
<1>5. CASE SendRetryReq
  BY <1>1, <1>5, EnqueueOnce, SMT, ZenonT(30) DEF SendRetryReq, respVars
<1>6. CASE SendResponseEvent \/ (\E b \in Banks, u \in Ups : HandleRespRetry(b, u))
  BY <1>1, <1>6 DEF SendResponseEvent, HandleRespRetry
<1>7. CASE (\E b \in Banks, u \in Ups : ResponseRefused(b, u)) \/ SendResponseDone
  BY <1>1, <1>7, SMT, ZenonT(30) DEF ResponseRefused, SendResponseDone, respVars
<1>8. CASE ArbitrateEvent \/ ArbitrateStep
  BY <1>1, <1>8, ZenonT(30) DEF ArbitrateEvent, ArbitrateStep, ReadSent, ReadRefused, NoReadSent,
                    WriteSent, WriteRefused, NoWriteSent, respVars
<1>9. CASE \E b \in Banks : HandleReqRetry(b)
  BY <1>1, <1>9 DEF HandleReqRetry, respVars
<1>10. CASE UNCHANGED vars
  BY <1>1, <1>10 DEF vars, respVars
<1> QED
  BY <1>2, <1>3, <1>4, <1>5, <1>6, <1>7, <1>8, <1>9, <1>10, Zenon
     DEF Next, SendResponseStep

\* No read is answered twice: recvTimingResp moves the one record of a read from
\* the maps to the response queue, and an upstream re-sends a packet only when
\* the arbiter holds no record of it.
THEOREM NeverAnsweredTwice == Spec => []AnsweredOnce
<1>1. Init => AllOnce
  <2>1. DistinctPkts(<<>>) /\ Pkts(<<>>) = {}
    BY NothingIn DEF DistinctPkts, Pkts
  <2>2. SUFFICES ASSUME Init, NEW b \in Banks
                 PROVE  Once(outstandingReads[b], responseQueue[b])
    BY DEF AllOnce
  <2>3. outstandingReads[b] = [a \in Addrs |-> <<>>] /\ responseQueue[b] = <<>>
    BY <2>2 DEF Init, PerPort
  <2> QED
    BY <2>1, <2>3, NothingIn, SMT, ZenonT(30) DEF Once
<1>2. ASSUME AllOnce, NEW b \in Banks
      PROVE  /\ \A a \in Addrs : Distinct(outstandingReads[b][a])
             /\ DistinctPkts(responseQueue[b])
             /\ \A a \in Addrs : \A p \in Range(outstandingReads[b][a]) :
                  p \notin Pkts(responseQueue[b])
  BY <1>2, Zenon DEF AllOnce, Once
<1>3. ASSUME AllOnce, NEW b \in Banks, NEW a \in Addrs,
             NEW i \in DOMAIN outstandingReads[b][a], NEW j \in DOMAIN responseQueue[b]
      PROVE  outstandingReads[b][a][i] # responseQueue[b][j].pkt
  BY <1>2, <1>3, Zenon DEF Range, Pkts
<1>4. AllOnce => AnsweredOnce
  BY <1>2, <1>3, Zenon DEF AnsweredOnce, Distinct, DistinctPkts
<1> QED
  BY <1>1, <1>4, OnceStep, TypeCorrect, PTL DEF Spec
==============================================================================
