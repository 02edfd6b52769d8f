--------------------------- MODULE UpBufferProofs ---------------------------
(***************************************************************************)
(* For any number of buffers and ports, and any buffer sizes: a buffer     *)
(* never holds more than its limit, and no port with room falls silent.    *)
(***************************************************************************)
EXTENDS PathQueues, FiniteSetTheorems

(* Updates of the two-level functions, and what a step leaves alone.       *)

LEMMA SetType ==
  ASSUME NEW A, NEW S, NEW f \in [A -> S], NEW a \in A, NEW v \in S
  PROVE  [f EXCEPT ![a] = v] \in [A -> S]
OBVIOUS

\* A request the arbiter takes is outstanding; one it refuses is remembered.
LEMMA AskedOrWants ==
  ASSUME CountType, FlagType, NEW u \in Buffers, NEW p \in Ports, NEW ok \in BOOLEAN,
         NEW w \in BOOLEAN, ~ok => w,
         asked' = [asked EXCEPT ![u][p] = IF ok THEN @ + 1 ELSE @],
         wants' = [wants EXCEPT ![u][p] = w]
  PROVE  asked'[u][p] > 0 \/ wants'[u][p]
<1>1. CASE ok
  <2>1. asked'[u][p] = asked[u][p] + 1
    BY <1>1 DEF CountType
  <2> QED
    BY <2>1, BufferAssumption DEF CountType
<1>2. CASE ~ok
  <2>1. wants'[u][p] = w
    BY Zenon DEF FlagType
  <2> QED
    BY <1>2, <2>1, ZenonT(30)
<1> QED
  BY <1>1, <1>2

LEMMA AskedElsewhere ==
  ASSUME CountType, FlagType, NEW u \in Buffers, NEW p \in Ports, NEW x, NEW w,
         asked' = [asked EXCEPT ![u][p] = x], wants' = [wants EXCEPT ![u][p] = w],
         NEW v \in Buffers, NEW q \in Ports, ~(v = u /\ q = p)
  PROVE  asked'[v][q] = asked[v][q] /\ wants'[v][q] = wants[v][q]
<1>1. asked'[v][q] = asked[v][q]
  BY SMT DEF CountType
<1>2. wants'[v][q] = wants[v][q]
  BY SMT DEF FlagType
<1> QED
  BY <1>1, <1>2

LEMMA Frame ==
  /\ CountType /\ UNCHANGED <<bufferData, asked>> => CountType'
  /\ FlagType /\ UNCHANGED <<tickScheduled, started, wants, stuck>> => FlagType'
  /\ LoopType /\ UNCHANGED loopVars => LoopType'
<1>1. CountType /\ UNCHANGED <<bufferData, asked>> => CountType'
  BY DEF CountType
<1>2. FlagType /\ UNCHANGED <<tickScheduled, started, wants, stuck>> => FlagType'
  BY DEF FlagType
<1>3. LoopType /\ UNCHANGED loopVars => LoopType'
  BY DEF LoopType, loopVars
<1> QED
  BY <1>1, <1>2, <1>3

LEMMA FirstPort == 0 \in Ports /\ Nobody \in Buffers
<1>1. 0 \in Ports
  BY BufferAssumption DEF Ports
<1>2. Nobody \in Buffers
  BY BufferAssumption DEF Nobody
<1> QED
  BY <1>1, <1>2

------------------------------------------------------------------------------
(* Type correctness.                                                       *)

LEMMA TypeInit == Init => TypeOK
<1> SUFFICES ASSUME Init PROVE TypeOK
  OBVIOUS
<1>1. CountType
  BY BufferAssumption DEF Init, PerPort, CountType
<1>2. FlagType
  BY Zenon DEF Init, PerPort, FlagType
<1>3. LoopType
  BY FirstPort DEF Init, LoopType
<1> QED
  BY <1>1, <1>2, <1>3 DEF TypeOK

LEMMA AskType ==
  ASSUME CountType, FlagType, NEW u \in Buffers, NEW p \in Ports, NEW ok \in BOOLEAN,
         NEW w \in BOOLEAN, ok => asked[u][p] < MaxAsked,
         asked' = [asked EXCEPT ![u][p] = IF ok THEN @ + 1 ELSE @],
         wants' = [wants EXCEPT ![u][p] = w],
         UNCHANGED <<bufferData, tickScheduled, started, stuck>>
  PROVE  CountType' /\ FlagType'
<1>1. (IF ok THEN asked[u][p] + 1 ELSE asked[u][p]) \in 0 .. MaxAsked
  BY BufferAssumption DEF CountType
<1>2. CountType'
  BY <1>1, PutType DEF CountType
<1>3. wants' \in [Buffers -> [Ports -> BOOLEAN]]
  BY PutType, Zenon DEF FlagType
<1> QED
  BY <1>2, <1>3 DEF FlagType

LEMMA NextPortType == LoopType /\ NextPort => LoopType'
<1> SUFFICES ASSUME LoopType, NextPort PROVE LoopType'
  OBVIOUS
<1>1. CASE port + 1 < NumPorts
  <2>1. port + 1 \in Ports
    BY <1>1, BufferAssumption DEF LoopType, Ports
  <2> QED
    BY <1>1, <2>1 DEF LoopType, NextPort
<1>2. CASE ~(port + 1 < NumPorts)
  BY <1>2, FirstPort DEF LoopType, NextPort
<1> QED
  BY <1>1, <1>2

LEMMA TypeStep == TypeOK /\ [Next]_vars => TypeOK'
<1> SUFFICES ASSUME TypeOK, [Next]_vars PROVE TypeOK'
  OBVIOUS
<1>0. CountType /\ FlagType /\ LoopType
  BY DEF TypeOK
<1>s. ASSUME NEW u \in Buffers, NEW name \in {"init", "tick"}, StartLoop(name, u)
      PROVE  CountType' /\ LoopType'
  <2>1. LoopType'
    BY <1>s, FirstPort DEF StartLoop, LoopType
  <2> QED
    BY <1>0, <1>s, <2>1, Frame DEF StartLoop, peerVars
<1>1. ASSUME NEW u \in Buffers, InitObject(u) PROVE TypeOK'
  <2>1. started' \in [Buffers -> BOOLEAN]
    BY <1>0, <1>1, SetType, Zenon DEF InitObject, FlagType
  <2>2. FlagType'
    BY <1>0, <1>1, <2>1 DEF InitObject, StartLoop, peerVars, FlagType
  <2> QED
    BY <1>1, <1>s, <2>2 DEF InitObject, TypeOK
<1>2. ASSUME NEW u \in Buffers, SendpktEvent(u) PROVE TypeOK'
  <2>1. tickScheduled' \in [Buffers -> BOOLEAN]
    BY <1>0, <1>2, SetType, Zenon DEF SendpktEvent, FlagType
  <2>2. FlagType'
    BY <1>0, <1>2, <2>1 DEF SendpktEvent, StartLoop, peerVars, FlagType
  <2> QED
    BY <1>2, <1>s, <2>2 DEF SendpktEvent, TypeOK
<1>3. ASSUME NEW u \in Buffers, NEW p \in Ports, RecvTimingResp(u, p) PROVE TypeOK'
  <2>1. LoopType'
    BY <1>0, <1>3, Frame DEF RecvTimingResp
  <2>2. CASE Full(u, p)
    <3>a. stuck' = [stuck EXCEPT ![u][p] = TRUE]
      BY <1>3, <2>2 DEF RecvTimingResp
    <3>1. stuck' \in [Buffers -> [Ports -> BOOLEAN]]
      BY <1>0, <3>a, PutType, Zenon DEF FlagType
    <3> QED
      BY <1>0, <1>3, <2>1, <2>2, <3>1, Frame DEF RecvTimingResp, FlagType, TypeOK
  <2>3. CASE ~Full(u, p)
    <3>a. /\ bufferData' = [bufferData EXCEPT ![u][p] = @ + 1]
          /\ asked' = [asked EXCEPT ![u][p] = @ - 1]
          /\ tickScheduled' = [tickScheduled EXCEPT ![u] = TRUE]
          /\ stuck' = [stuck EXCEPT ![u][p] = FALSE]
          /\ asked[u][p] > 0
      BY <1>3, <2>3 DEF RecvTimingResp
    <3>1. stuck' \in [Buffers -> [Ports -> BOOLEAN]]
      BY <1>0, <3>a, PutType, Zenon DEF FlagType
    <3>2. tickScheduled' \in [Buffers -> BOOLEAN]
      BY <1>0, <3>a, SetType, Zenon DEF FlagType
    <3>3. bufferData[u][p] + 1 \in 0 .. BufSize + 1 /\ asked[u][p] - 1 \in 0 .. MaxAsked
      BY <1>0, <2>3, <3>a, BufferAssumption DEF Full, CountType
    <3>4. CountType'
      BY <1>0, <3>a, <3>3, PutType DEF CountType
    <3> QED
      BY <1>0, <1>3, <2>1, <3>1, <3>2, <3>4 DEF RecvTimingResp, FlagType, TypeOK
  <2> QED
    BY <2>2, <2>3
<1>4. ASSUME NEW u \in Buffers, NEW p \in Ports, NEW ok \in BOOLEAN, SendRetryReq(u, p, ok)
      PROVE TypeOK'
  <2>1. LoopType'
    BY <1>0, <1>4, Frame DEF SendRetryReq
  <2>2. CountType' /\ FlagType'
    BY <1>0, <1>4, AskType, ZenonT(30) DEF SendRetryReq
  <2> QED
    BY <2>1, <2>2 DEF TypeOK
<1>5. ASSUME NEW ok \in BOOLEAN, SendTimingReq(ok) PROVE TypeOK'
  <2>1. LoopType'
    BY <1>0, <1>5, NextPortType DEF SendTimingReq
  <2>2. buf \in Buffers /\ port \in Ports /\ (wants[buf][port] \/ ~ok) \in BOOLEAN
    BY <1>0 DEF LoopType
  <2>3. CountType' /\ FlagType'
    BY <1>0, <1>5, <2>2, AskType, ZenonT(30) DEF SendTimingReq, NextPort
  <2> QED
    BY <2>1, <2>3 DEF TypeOK
<1>6. CASE SkipFullPort
  BY <1>0, <1>6, NextPortType, Frame DEF SkipFullPort, NextPort, TypeOK
<1>7. CASE UNCHANGED vars
  BY <1>0, <1>7, Frame DEF vars, peerVars, TypeOK
<1> QED
  BY <1>1, <1>2, <1>3, <1>4, <1>5, <1>6, <1>7 DEF Next

\* Every buffer, flag and counter keeps its type, and recvTimingResp's test bounds
\* what a port holds, for any number of buffers and ports.
THEOREM BufferTypes == Spec => []TypeOK
  BY TypeInit, TypeStep, PTL DEF Spec

------------------------------------------------------------------------------
\* NoPortIdle is inductive with the types: init() starts a loop that will reach
\* each port; the loop leaves a port with an accepted or a refused request; a
\* response that takes away the last read schedules the event; and the event
\* starts a loop again.
LEMMA IdleStep == TypeOK /\ NoPortIdle /\ [Next]_vars => NoPortIdle'
<1> SUFFICES ASSUME TypeOK, NoPortIdle, [Next]_vars,
                    NEW v \in Buffers, NEW q \in Ports, started'[v], ~Full(v, q)'
             PROVE  (\/ asked[v][q] > 0 \/ wants[v][q] \/ tickScheduled[v]
                     \/ loop # "none" /\ buf = v /\ port <= q)'
  BY DEF NoPortIdle
<1> DEFINE Served == \/ asked[v][q] > 0 \/ wants[v][q] \/ tickScheduled[v]
                     \/ loop # "none" /\ buf = v /\ port <= q
<1>a. started[v] /\ ~Full(v, q) => Served
  BY DEF NoPortIdle
<1> USE BufferAssumption DEF TypeOK, CountType, FlagType, LoopType, Ports, Full
<1>1. ASSUME NEW u \in Buffers, InitObject(u)
      PROVE  Served'
  BY <1>1, <1>a DEF InitObject, StartLoop, peerVars
<1>2. ASSUME NEW u \in Buffers, SendpktEvent(u)
      PROVE  Served'
  BY <1>2, <1>a DEF SendpktEvent, StartLoop, peerVars
<1>3. ASSUME NEW u \in Buffers, NEW p \in Ports, RecvTimingResp(u, p)
      PROVE  Served'
  BY <1>3, <1>a, ZenonT(30) DEF RecvTimingResp, loopVars
<1>4. ASSUME NEW u \in Buffers, NEW p \in Ports, NEW ok \in BOOLEAN, SendRetryReq(u, p, ok)
      PROVE  Served'
  <2>1. /\ started[v] /\ ~Full(v, q) /\ loop' = loop /\ buf' = buf /\ port' = port
        /\ tickScheduled' = tickScheduled
    BY <1>4 DEF SendRetryReq, loopVars
  <2>2. CASE u = v /\ p = q
    BY <1>4, <2>2, AskedOrWants, ZenonT(30) DEF SendRetryReq
  <2>3. CASE ~(u = v /\ p = q)
    <3>1. asked'[v][q] = asked[v][q] /\ wants'[v][q] = wants[v][q]
      <4>1. /\ asked' = [asked EXCEPT ![u][p] = IF ok THEN @ + 1 ELSE @]
            /\ wants' = [wants EXCEPT ![u][p] = ~ok]
        BY <1>4 DEF SendRetryReq
      <4> HIDE DEF CountType, FlagType, Ports
      <4> QED
        BY <2>3, <4>1, AskedElsewhere
    <3> QED
      BY <2>1, <3>1, <1>a
  <2> QED
    BY <2>2, <2>3
<1>b. ASSUME NextPort, loop # "none", buf = v, port < q
      PROVE  (loop # "none" /\ buf = v /\ port <= q)'
  <2>1. port \in Nat /\ q \in Nat /\ q <= NumPorts - 1 /\ NumPorts \in Nat
    OBVIOUS
  <2>2. port + 1 < NumPorts /\ port + 1 <= q
    BY <2>1, <1>b
  <2> QED
    BY <2>2, <1>b DEF NextPort
<1>5. ASSUME NEW ok \in BOOLEAN, SendTimingReq(ok)
      PROVE  Served'
  <2>1. bufferData' = bufferData /\ tickScheduled' = tickScheduled /\ started' = started
    BY <1>5 DEF SendTimingReq, NextPort
  <2>2. CASE buf = v /\ port = q
    <3>1. (wants[v][q] \/ ~ok) \in BOOLEAN
      OBVIOUS
    <3> QED
      BY <1>5, <2>2, <3>1, AskedOrWants, ZenonT(30) DEF SendTimingReq
  <2>3. CASE ~(buf = v /\ port = q)
    <3>1. asked'[v][q] = asked[v][q] /\ wants'[v][q] = wants[v][q]
      BY <1>5, <2>3, SMT, ZenonT(30) DEF SendTimingReq
    <3>2. NextPort
      BY <1>5 DEF SendTimingReq
    <3>3. CASE loop # "none" /\ buf = v /\ port <= q
      <4>1. port < q
        BY <2>3, <3>3
      <4> QED
        BY <1>b, <3>2, <3>3, <4>1
    <3>4. CASE asked[v][q] > 0 \/ wants[v][q] \/ tickScheduled[v]
      BY <3>1, <3>4, <2>1
    <3> QED
      BY <2>1, <3>3, <3>4, <1>a
  <2> QED
    BY <2>2, <2>3
<1>6. ASSUME SkipFullPort PROVE Served'
  <2>1. /\ bufferData' = bufferData /\ tickScheduled' = tickScheduled /\ started' = started
        /\ asked' = asked /\ wants' = wants /\ NextPort /\ Full(buf, port)
    BY <1>6 DEF SkipFullPort, NextPort
  <2>2. CASE loop # "none" /\ buf = v /\ port <= q
    <3>1. port # q
      BY <2>1, <2>2
    <3>2. port < q
      BY <2>2, <3>1
    <3> QED
      BY <1>b, <2>1, <2>2, <3>2
  <2>3. CASE asked[v][q] > 0 \/ wants[v][q] \/ tickScheduled[v]
    BY <2>1, <2>3
  <2> QED
    BY <2>1, <2>2, <2>3, <1>a
<1>7. ASSUME UNCHANGED vars PROVE Served'
  BY <1>7, <1>a DEF vars, loopVars, peerVars
<1>8. Served'
  <2> HIDE DEF Served, TypeOK, CountType, FlagType, LoopType, Ports, Full
  <2> QED
    BY <1>1, <1>2, <1>3, <1>4, <1>5, <1>6, <1>7 DEF Next
<1> QED
  BY <1>8

\* After init() no port with room falls silent, whatever the arbiter accepts,
\* refuses and retries, for any number of buffers and ports.
THEOREM PortsKeepAsking == Spec => []NoPortIdle
<1>1. Init => NoPortIdle
  BY DEF Init, NoPortIdle
<1> QED
  BY <1>1, TypeInit, TypeStep, IdleStep, PTL DEF Spec

------------------------------------------------------------------------------
(* Counting the packets and responses of the memory path.                  *)

LEMMA PacketShape ==
  ASSUME NEW p \in Packets
  PROVE  /\ p[1] \in Buffers /\ p[2] \in Ports /\ p[3] \in 0 .. Pool
         /\ p = <<p[1], p[2], p[3]>>
BY DEF Packets

LEMMA FinitePackets == IsFiniteSet(Packets)
<1> DEFINE S == (Buffers \X Ports) \X (0 .. Pool)
           f == [x \in S |-> <<x[1][1], x[1][2], x[2]>>]
<1>1. IsFiniteSet(Ports) /\ IsFiniteSet(0 .. Pool)
  BY FS_Interval, BufferAssumption DEF Ports, Pool
<1>2. IsFiniteSet(S)
  BY <1>1, PathAssumption, FS_Product, Zenon
<1>3. f \in Surjection(S, Packets)
  <2>1. ASSUME NEW x \in S PROVE f[x] \in Packets
    BY DEF Packets
  <2>2. ASSUME NEW p \in Packets PROVE \E x \in S : f[x] = p
    <3>1. <<<<p[1], p[2]>>, p[3]>> \in S
      BY PacketShape
    <3>2. f[<<<<p[1], p[2]>>, p[3]>>] = p
      BY <3>1, PacketShape
    <3> QED
      BY <3>1, <3>2
  <2> QED
    BY <2>1, <2>2, ZenonT(30) DEF Surjection
<1> QED
  BY <1>2, <1>3, FS_Surjection, Zenon

LEMMA MineFinite ==
  ASSUME NEW U \in SUBSET Packets, NEW u
  PROVE  /\ IsFiniteSet(U) /\ Cardinality(U) \in Nat
         /\ IsFiniteSet(Mine(U, u)) /\ Cardinality(Mine(U, u)) \in Nat
<1>1. IsFiniteSet(U)
  BY FinitePackets, FS_Subset, Zenon
<1>2. Mine(U, u) \in SUBSET U
  BY DEF Mine
<1> QED
  BY <1>1, <1>2, FS_Subset, FS_CardinalityType, Zenon

LEMMA MineAdd ==
  ASSUME NEW U \in SUBSET Packets, NEW p \in Packets, p \notin U, NEW u
  PROVE  Cardinality(Mine(U \cup {p}, u)) =
           Cardinality(Mine(U, u)) + (IF p[1] = u THEN 1 ELSE 0)
<1>1. CASE p[1] = u
  <2>1. Mine(U \cup {p}, u) = Mine(U, u) \cup {p} /\ p \notin Mine(U, u)
    BY <1>1 DEF Mine
  <2> QED
    BY <1>1, <2>1, MineFinite, FS_AddElement, ZenonT(30)
<1>2. CASE p[1] # u
  <2>1. Mine(U \cup {p}, u) = Mine(U, u)
    BY <1>2 DEF Mine
  <2> QED
    BY <1>2, <2>1, MineFinite
<1> QED
  BY <1>1, <1>2

LEMMA MineRemove ==
  ASSUME NEW U \in SUBSET Packets, NEW p \in U, NEW u
  PROVE  Cardinality(Mine(U \ {p}, u)) =
           Cardinality(Mine(U, u)) - (IF p[1] = u THEN 1 ELSE 0)
<1>1. CASE p[1] = u
  <2>1. Mine(U \ {p}, u) = Mine(U, u) \ {p} /\ p \in Mine(U, u)
    BY <1>1 DEF Mine
  <2>2. IsFiniteSet(Mine(U, u))
    BY MineFinite, Zenon
  <2>3. Cardinality(Mine(U, u) \ {p}) = Cardinality(Mine(U, u)) - 1
    BY <2>1, <2>2, FS_RemoveElement, Zenon
  <2> QED
    BY <1>1, <2>1, <2>3
<1>2. CASE p[1] # u
  <2>1. Mine(U \ {p}, u) = Mine(U, u)
    BY <1>2 DEF Mine
  <2>2. Cardinality(Mine(U, u)) \in Nat
    BY MineFinite, Zenon
  <2> QED
    BY <1>2, <2>1, <2>2
<1> QED
  BY <1>1, <1>2

LEMMA ToUpFinite ==
  ASSUME NEW S, NEW r \in Seq(S), NEW u
  PROVE  IsFiniteSet(ToUp(r, u)) /\ Cardinality(ToUp(r, u)) \in Nat
<1>1. Len(r) \in Nat /\ ToUp(r, u) \in SUBSET (1 .. Len(r))
  BY DEF ToUp
<1>2. IsFiniteSet(1 .. Len(r))
  BY <1>1, FS_Interval
<1> QED
  BY <1>1, <1>2, FS_Subset, FS_CardinalityType, Zenon

LEMMA ToUpAppend ==
  ASSUME NEW S, NEW r \in Seq(S), NEW e \in S, NEW u
  PROVE  Cardinality(ToUp(Append(r, e), u)) =
           Cardinality(ToUp(r, u)) + (IF e.up = u THEN 1 ELSE 0)
<1> DEFINE n == Len(r)  t == Append(r, e)
<1>1. /\ n \in Nat /\ DOMAIN r = 1 .. n /\ DOMAIN t = 1 .. n + 1
      /\ t[n + 1] = e /\ \A i \in 1 .. n : t[i] = r[i]
  OBVIOUS
<1> HIDE DEF n, t
<1>2. CASE e.up = u
  <2>1. ToUp(t, u) = ToUp(r, u) \cup {n + 1} /\ n + 1 \notin ToUp(r, u)
    BY <1>1, <1>2 DEF ToUp
  <2> QED
    BY <1>2, <2>1, ToUpFinite, FS_AddElement, ZenonT(30) DEF t
<1>3. CASE e.up # u
  <2>1. ToUp(t, u) = ToUp(r, u)
    BY <1>1, <1>3 DEF ToUp
  <2> QED
    BY <1>3, <2>1, ToUpFinite DEF t
<1> QED
  BY <1>2, <1>3

LEMMA ToUpTail ==
  ASSUME NEW S, NEW r \in Seq(S), r # <<>>, NEW u
  PROVE  Cardinality(ToUp(Tail(r), u)) =
           Cardinality(ToUp(r, u)) - (IF Head(r).up = u THEN 1 ELSE 0)
<1> DEFINE n == Len(r)  t == Tail(r)
           T == ToUp(r, u) \ {1}
           f == [i \in ToUp(t, u) |-> i + 1]
<1>1. /\ n \in Nat \ {0} /\ DOMAIN r = 1 .. n /\ DOMAIN t = 1 .. n - 1
      /\ Head(r) = r[1] /\ \A i \in 1 .. n - 1 : t[i] = r[i + 1]
      /\ t \in Seq(S)
  OBVIOUS
<1>2. f \in Bijection(ToUp(t, u), T)
  <2> HIDE DEF n, t
  <2>1. ASSUME NEW i \in ToUp(t, u) PROVE i + 1 \in T
    BY <1>1 DEF ToUp
  <2>2. ASSUME NEW j \in T PROVE j - 1 \in ToUp(t, u) /\ (j - 1) + 1 = j
    BY <1>1 DEF ToUp
  <2>3. ASSUME NEW i \in ToUp(t, u), NEW j \in ToUp(t, u), i + 1 = j + 1 PROVE i = j
    BY <1>1, <2>3 DEF ToUp
  <2>4. f \in [ToUp(t, u) -> T]
    BY <2>1
  <2> QED
    BY <2>2, <2>3, <2>4 DEF Bijection, Injection, Surjection, IsInjective
<1>3. Cardinality(T) = Cardinality(ToUp(t, u))
  <2> HIDE DEF T, f, t
  <2>1. IsFiniteSet(ToUp(t, u))
    BY <1>1, ToUpFinite
  <2>2. ExistsBijection(ToUp(t, u), T)
    BY <1>2 DEF ExistsBijection
  <2> QED
    BY <2>1, <2>2, FS_Bijection, Zenon
<1>4. /\ Cardinality(ToUp(r, u)) \in Nat
      /\ Cardinality(T) = IF 1 \in ToUp(r, u) THEN Cardinality(ToUp(r, u)) - 1
                                            ELSE Cardinality(ToUp(r, u))
  BY ToUpFinite, FS_RemoveElement, Zenon
<1>5. 1 \in ToUp(r, u) <=> Head(r).up = u
  BY <1>1 DEF ToUp
<1> QED
  BY <1>3, <1>4, <1>5

LEMMA WaitsType ==
  ASSUME NEW f, NEW g
  PROVE  Waits(f, g) \in SUBSET Packets
BY DEF Waits

LEMMA WaitsAdd ==
  ASSUME NEW f \in [Buffers -> Seq(Packets)], NEW f2, NEW g, NEW u \in Buffers,
         NEW p \in Packets, Adds(f, u, p, f2)
  PROVE  Waits(f2, g) = Waits(f, g) \cup {p}
<1>0. f[u] \in Seq(Packets)
  OBVIOUS
<1>1. Range(f2[u]) = Range(f[u]) \cup {p} /\ \A v \in Buffers : v # u => f2[v] = f[v]
  BY <1>0, AppendRange DEF Adds
<1>2. ASSUME NEW q \in Packets
      PROVE  (\E v \in Buffers : q \in Range(f2[v])) <=>
               (q = p \/ \E v \in Buffers : q \in Range(f[v]))
  BY <1>1, Zenon
<1> QED
  BY <1>2 DEF Waits

LEMMA WaitsSend ==
  ASSUME NEW f \in [Buffers -> Seq(Packets)], NEW f2, NEW g, NEW u \in Buffers,
         Takes(f, u, f2)
  PROVE  Waits(f2, g \cup {Head(f[u])}) = Waits(f, g) /\ Head(f[u]) \in Packets
<1>0. f[u] \in Seq(Packets)
  OBVIOUS
<1>1. /\ Range(f[u]) = Range(f2[u]) \cup {Head(f[u])} /\ Head(f[u]) \in Packets
      /\ \A v \in Buffers : v # u => f2[v] = f[v]
  BY <1>0, TailRange, Zenon DEF Takes
<1>2. ASSUME NEW q \in Packets
      PROVE  (q = Head(f[u]) \/ \E v \in Buffers : q \in Range(f2[v])) <=>
               (\E v \in Buffers : q \in Range(f[v]))
  BY <1>1, Zenon
<1> QED
  BY <1>1, <1>2 DEF Waits

\* A read in the channel is in no input queue.
LEMMA WaitsAnswer ==
  ASSUME NEW f, NEW g, NEW p \in Packets, p \in g, NotQueued(f, p)
  PROVE  p \in Waits(f, g) /\ Waits(f, g \ {p}) = Waits(f, g) \ {p}
BY DEF Waits, NotQueued

LEMMA RangeSize ==
  ASSUME NEW S, NEW s \in Seq(S)
  PROVE  IsFiniteSet(Range(s)) /\ Cardinality(Range(s)) <= Len(s)
<1>1. Len(s) \in Nat /\ s \in [1 .. Len(s) -> S]
  OBVIOUS
<1>2. s \in Surjection(1 .. Len(s), Range(s))
  BY <1>1 DEF Surjection, Range
<1>3. IsFiniteSet(1 .. Len(s)) /\ Cardinality(1 .. Len(s)) = Len(s)
  BY <1>1, FS_Interval
<1> QED
  BY <1>2, <1>3, FS_Surjection

LEMMA PktsSize ==
  ASSUME NEW S, NEW r \in Seq(S)
  PROVE  IsFiniteSet(PktsOf(r)) /\ Cardinality(PktsOf(r)) <= Len(r)
<1> DEFINE f == [i \in 1 .. Len(r) |-> r[i].pkt]
<1>1. Len(r) \in Nat /\ DOMAIN r = 1 .. Len(r)
  OBVIOUS
<1>2. f \in Surjection(1 .. Len(r), PktsOf(r))
  BY <1>1 DEF Surjection, PktsOf
<1>3. IsFiniteSet(1 .. Len(r)) /\ Cardinality(1 .. Len(r)) = Len(r)
  BY <1>1, FS_Interval
<1> HIDE DEF f
<1> QED
  BY <1>2, <1>3, FS_Surjection

LEMMA UnionSize ==
  ASSUME NEW A, NEW B, IsFiniteSet(A), IsFiniteSet(B)
  PROVE  /\ IsFiniteSet(A \cup B)
         /\ Cardinality(A \cup B) <= Cardinality(A) + Cardinality(B)
         /\ Cardinality(A) \in Nat /\ Cardinality(B) \in Nat
<1>1. /\ Cardinality(A) \in Nat /\ Cardinality(B) \in Nat
  BY FS_CardinalityType, Zenon
<1>2. IsFiniteSet(A \cap B)
  BY FS_Intersection, Zenon
<1>3. Cardinality(A \cap B) \in Nat
  BY <1>2, FS_CardinalityType, Zenon
<1>4. /\ IsFiniteSet(A \cup B)
      /\ Cardinality(A \cup B) = Cardinality(A) + Cardinality(B) - Cardinality(A \cap B)
  BY FS_Union, Zenon
<1> QED
  BY <1>1, <1>3, <1>4

LEMMA CountNat ==
  ASSUME NEW f, NEW g, NEW r \in Seq(Records), NEW u
  PROVE  /\ Cardinality(Mine(Waits(f, g), u)) \in Nat /\ Cardinality(ToUp(r, u)) \in Nat
BY WaitsType, MineFinite, ToUpFinite

\* A read p of u is accepted; the head of u's queue is sent; the channel answers
\* p, and e becomes the response.
Accepts(f, g, r, u, p, f2) ==
  /\ f \in [Buffers -> Seq(Packets)] /\ r \in Seq(Records) /\ u \in Buffers
  /\ p \in Packets /\ p[1] = u /\ p \notin Waits(f, g) /\ Adds(f, u, p, f2)
Sends(f, g, u, f2, g2) ==
  /\ f \in [Buffers -> Seq(Packets)] /\ u \in Buffers
  /\ Takes(f, u, f2) /\ g2 = g \cup {Head(f[u])}
Answers(f, g, r, p, e, g2, r2) ==
  /\ r \in Seq(Records) /\ p \in Packets /\ p \in g /\ NotQueued(f, p)
  /\ g2 = g \ {p} /\ e \in Records /\ e.up = p[1] /\ r2 = Append(r, e)

LEMMA CountAdd ==
  ASSUME NEW f, NEW g, NEW r, NEW u, NEW p, NEW f2, Accepts(f, g, r, u, p, f2), NEW v
  PROVE  Count(f2, g, r, v) = Count(f, g, r, v) + (IF u = v THEN 1 ELSE 0)
<1>1. Waits(f2, g) = Waits(f, g) \cup {p}
  BY WaitsAdd DEF Accepts
<1>2. Cardinality(Mine(Waits(f, g) \cup {p}, v)) =
        Cardinality(Mine(Waits(f, g), v)) + (IF p[1] = v THEN 1 ELSE 0)
  BY WaitsType, MineAdd, Zenon DEF Accepts
<1> QED
  BY <1>1, <1>2, CountNat DEF Count, Accepts

LEMMA CountSend ==
  ASSUME NEW f, NEW g, NEW r, NEW u, NEW f2, NEW g2, Sends(f, g, u, f2, g2), NEW v
  PROVE  Count(f2, g2, r, v) = Count(f, g, r, v)
<1>1. Waits(f2, g2) = Waits(f, g)
  BY WaitsSend DEF Sends
<1> QED
  BY <1>1, Zenon DEF Count

LEMMA CountAnswer ==
  ASSUME NEW f, NEW g, NEW r, NEW p, NEW e, NEW g2, NEW r2,
         Answers(f, g, r, p, e, g2, r2), NEW v
  PROVE  Count(f, g2, r2, v) = Count(f, g, r, v)
<1>0. /\ r \in Seq(Records) /\ e \in Records /\ e.up = p[1]
      /\ r2 = Append(r, e)
  BY DEF Answers
<1>1. p \in Waits(f, g) /\ Waits(f, g2) = Waits(f, g) \ {p}
  BY WaitsAnswer, Zenon DEF Answers
<1>2. Cardinality(Mine(Waits(f, g) \ {p}, v)) =
        Cardinality(Mine(Waits(f, g), v)) - (IF p[1] = v THEN 1 ELSE 0)
  BY <1>1, WaitsType, MineRemove, Zenon
<1>3. Cardinality(ToUp(Append(r, e), v)) =
        Cardinality(ToUp(r, v)) + (IF e.up = v THEN 1 ELSE 0)
  BY <1>0, ToUpAppend, Zenon
<1>4. Count(f, g2, r2, v) = Cardinality(Mine(Waits(f, g) \ {p}, v))
                              + Cardinality(ToUp(Append(r, e), v))
  BY <1>0, <1>1, Zenon DEF Count
<1>5. /\ Cardinality(Mine(Waits(f, g), v)) \in Nat /\ Cardinality(ToUp(r, v)) \in Nat
      /\ Count(f, g, r, v) = Cardinality(Mine(Waits(f, g), v)) + Cardinality(ToUp(r, v))
  BY <1>0, CountNat, Zenon DEF Count
<1> QED
  BY <1>0, <1>2, <1>3, <1>4, <1>5

LEMMA CountDeliver ==
  ASSUME NEW f, NEW g, NEW r \in Seq(Records), r # <<>>, NEW v
  PROVE  Count(f, g, Tail(r), v) = Count(f, g, r, v) - (IF Head(r).up = v THEN 1 ELSE 0)
<1>1. Cardinality(ToUp(Tail(r), v)) =
        Cardinality(ToUp(r, v)) - (IF Head(r).up = v THEN 1 ELSE 0)
  BY ToUpTail, Zenon
<1>2. /\ Cardinality(Mine(Waits(f, g), v)) \in Nat /\ Cardinality(ToUp(r, v)) \in Nat
      /\ Count(f, g, r, v) = Cardinality(Mine(Waits(f, g), v)) + Cardinality(ToUp(r, v))
      /\ Count(f, g, Tail(r), v) = Cardinality(Mine(Waits(f, g), v))
                                     + Cardinality(ToUp(Tail(r), v))
  BY CountNat, Zenon DEF Count
<1> QED
  BY <1>1, <1>2

------------------------------------------------------------------------------
(* How the count of the reads that a buffer waits for follows the reads    *)
(* through the arbiter: A[u][b] is the count of buffer u for bank b, F the *)
(* input queues, G the reads in the channels and R the responses.          *)

Typed(A, F, G, R) ==
  /\ A \in [Buffers -> [Ports -> Nat]] /\ F \in [Ports -> [Buffers -> Seq(Packets)]]
  /\ G \in [Ports -> SUBSET Packets] /\ R \in [Ports -> Seq(Records)]

\* A move at bank b.
LEMMA CountedMove ==
  ASSUME NEW A, NEW F, NEW G, NEW R, Counted(A, F, G, R),
         NEW A2, NEW F2, NEW G2, NEW R2, NEW b \in Ports,
         Only(F, F2, b), Only(G, G2, b), Only(R, R2, b),
         \A v \in Buffers, c \in Ports : c # b => A2[v][c] = A[v][c],
         \A v \in Buffers : A2[v][b] = Count(F2[b], G2[b], R2[b], v)
  PROVE  Counted(A2, F2, G2, R2)
<1> SUFFICES ASSUME NEW c \in Ports, NEW v \in Buffers
             PROVE  A2[v][c] = Count(F2[c], G2[c], R2[c], v)
  BY DEF Counted
<1>1. CASE c = b
  BY <1>1, Zenon
<1>2. CASE c # b
  <2>1. F2[c] = F[c] /\ G2[c] = G[c] /\ R2[c] = R[c] /\ A2[v][c] = A[v][c]
    BY <1>2, Zenon DEF Only
  <2> QED
    BY <2>1, Zenon DEF Counted
<1> QED
  BY <1>1, <1>2

LEMMA OnlyHere ==
  ASSUME NEW S, NEW f \in [Ports -> S], NEW b \in Ports, NEW d
  PROVE  /\ [f EXCEPT ![b] = d][b] = d /\ Only(f, [f EXCEPT ![b] = d], b)
         /\ Only(f, f, b)
BY DEF Only

\* A new read joins an input queue.
LEMMA CountedJoin ==
  ASSUME NEW A, NEW F, NEW G, NEW R, Typed(A, F, G, R), Counted(A, F, G, R),
         NEW b \in Ports, NEW u \in Buffers, NEW p \in Packets, p[1] = u,
         p \notin Waits(F[b], G[b]), NEW F2, Adds(F[b], u, p, F2[b]), Only(F, F2, b)
  PROVE  Counted([A EXCEPT ![u][b] = A[u][b] + 1], F2, G, R)
<1>1. Accepts(F[b], G[b], R[b], u, p, F2[b])
  BY DEF Accepts, Typed
<1>2. \A v \in Buffers : Count(F2[b], G[b], R[b], v) =
        Count(F[b], G[b], R[b], v) + (IF u = v THEN 1 ELSE 0)
  BY <1>1, CountAdd
<1>3. Only(G, G, b) /\ Only(R, R, b)
  BY DEF Only
<1> DEFINE A2 == [A EXCEPT ![u][b] = A[u][b] + 1]
<1>8. A \in [Buffers -> [Ports -> Nat]]
  BY DEF Typed
<1>4. \A v \in Buffers, c \in Ports : c # b => A2[v][c] = A[v][c]
  BY <1>8
<1>5. \A v \in Buffers : A2[v][b] = IF u = v THEN A[u][b] + 1 ELSE A[v][b]
  BY <1>8
<1> HIDE DEF A2
<1>6. ASSUME NEW v \in Buffers PROVE A2[v][b] = Count(F2[b], G[b], R[b], v)
  <2>1. A[v][b] = Count(F[b], G[b], R[b], v) /\ A[v][b] \in Nat
    BY DEF Counted, Typed
  <2> QED
    BY <1>2, <1>5, <2>1
<1>7. Counted(A2, F2, G, R)
  BY <1>3, <1>4, <1>6, CountedMove, SMT, ZenonT(30)
<1> QED
  BY <1>7 DEF A2

\* The head of an input queue goes to the channel.
LEMMA CountedGo ==
  ASSUME NEW A, NEW F, NEW G, NEW R, Typed(A, F, G, R), Counted(A, F, G, R),
         NEW b \in Ports, NEW u \in Buffers, NEW F2, Takes(F[b], u, F2[b]), Only(F, F2, b)
  PROVE  Counted(A, F2, [G EXCEPT ![b] = G[b] \cup {Head(F[b][u])}], R)
<1> DEFINE G2 == [G EXCEPT ![b] = G[b] \cup {Head(F[b][u])}]
<1>1. G2[b] = G[b] \cup {Head(F[b][u])} /\ Only(G, G2, b) /\ Only(R, R, b)
  BY OnlyHere, ZenonT(30) DEF Typed
<1> HIDE DEF G2
<1>2. Sends(F[b], G[b], u, F2[b], G2[b])
  BY <1>1 DEF Sends, Typed
<1>3. \A v \in Buffers : Count(F2[b], G2[b], R[b], v) = Count(F[b], G[b], R[b], v)
  BY <1>2, CountSend
<1>4. \A v \in Buffers : A[v][b] = Count(F2[b], G2[b], R[b], v)
  BY <1>3, ZenonT(30) DEF Counted
<1>5. Counted(A, F2, G2, R)
  BY <1>1, <1>4, CountedMove, Zenon
<1> QED
  BY <1>5 DEF G2

\* A read comes back from the channel and becomes a response.
LEMMA CountedCome ==
  ASSUME NEW A, NEW F, NEW G, NEW R, Typed(A, F, G, R), Counted(A, F, G, R),
         NEW b \in Ports, NEW p \in Packets, NEW e \in Records, p \in G[b],
         NotQueued(F[b], p), e.up = p[1]
  PROVE  Counted(A, F, [G EXCEPT ![b] = G[b] \ {p}], [R EXCEPT ![b] = Append(R[b], e)])
<1> DEFINE G2 == [G EXCEPT ![b] = G[b] \ {p}]
           R2 == [R EXCEPT ![b] = Append(R[b], e)]
<1>1. G2[b] = G[b] \ {p} /\ Only(G, G2, b) /\ Only(F, F, b)
  BY OnlyHere, ZenonT(30) DEF Typed
<1>2. R2[b] = Append(R[b], e) /\ Only(R, R2, b)
  BY OnlyHere, ZenonT(30) DEF Typed
<1> HIDE DEF G2, R2
<1>3. Answers(F[b], G[b], R[b], p, e, G2[b], R2[b])
  BY <1>1, <1>2 DEF Answers, Typed
<1>4. \A v \in Buffers : Count(F[b], G2[b], R2[b], v) = Count(F[b], G[b], R[b], v)
  BY <1>3, CountAnswer
<1>5. \A v \in Buffers : A[v][b] = Count(F[b], G2[b], R2[b], v)
  BY <1>4, ZenonT(30) DEF Counted
<1>6. Counted(A, F, G2, R2)
  BY <1>1, <1>2, <1>5, CountedMove, Zenon
<1> QED
  BY <1>6 DEF G2, R2

\* The first response leaves for its buffer.
LEMMA CountedLeave ==
  ASSUME NEW A, NEW F, NEW G, NEW R, Typed(A, F, G, R), Counted(A, F, G, R),
         NEW b \in Ports, NEW u \in Buffers, R[b] # <<>>, Head(R[b]).up = u
  PROVE  Counted([A EXCEPT ![u][b] = A[u][b] - 1], F, G, [R EXCEPT ![b] = Tail(R[b])])
<1> DEFINE R2 == [R EXCEPT ![b] = Tail(R[b])]
<1>1. R2[b] = Tail(R[b]) /\ Only(R, R2, b) /\ R[b] \in Seq(Records)
  BY OnlyHere, ZenonT(30) DEF Typed
<1> HIDE DEF R2
<1>2. \A v \in Buffers : Count(F[b], G[b], R2[b], v) =
        Count(F[b], G[b], R[b], v) - (IF u = v THEN 1 ELSE 0)
  BY <1>1, CountDeliver
<1> DEFINE A2 == [A EXCEPT ![u][b] = A[u][b] - 1]
<1>7. A \in [Buffers -> [Ports -> Nat]]
  BY DEF Typed
<1>3. \A v \in Buffers, c \in Ports : c # b => A2[v][c] = A[v][c]
  BY <1>7
<1>4. \A v \in Buffers : A2[v][b] = IF u = v THEN A[u][b] - 1 ELSE A[v][b]
  BY <1>7
<1> HIDE DEF A2
<1>5. ASSUME NEW v \in Buffers PROVE A2[v][b] = Count(F[b], G[b], R2[b], v)
  <2>1. A[v][b] = Count(F[b], G[b], R[b], v) /\ A[v][b] \in Nat
    BY DEF Counted, Typed
  <2> QED
    BY <1>2, <1>4, <2>1
<1>6. ASSUME NEW c \in Ports, NEW v \in Buffers
      PROVE  A2[v][c] = Count(F[c], G[c], R2[c], v)
  <2>1. CASE c = b
    BY <1>5, <2>1, Zenon
  <2>2. CASE c # b
    <3>1. R2[c] = R[c] /\ A2[v][c] = A[v][c]
      BY <1>1, <1>3, <2>2, Zenon DEF Only
    <3> QED
      BY <3>1, Zenon DEF Counted
  <2> QED
    BY <2>1, <2>2
<1> QED
  BY <1>6, Zenon DEF Counted, A2, R2

\* Nothing is asked for and nothing is anywhere at the start.
LEMMA CountedStart ==
  ASSUME NEW A, NEW F, NEW G, NEW R,
         \A b \in Ports, u \in Buffers :
           A[u][b] = 0 /\ F[b][u] = <<>> /\ G[b] = {} /\ R[b] = <<>>
  PROVE  Counted(A, F, G, R)
<1> SUFFICES ASSUME NEW b \in Ports, NEW u \in Buffers
             PROVE  A[u][b] = Count(F[b], G[b], R[b], u)
  BY DEF Counted
<1>1. Range(<<>>) = {}
  BY DEF Range
<1>2. Waits(F[b], G[b]) = {}
  BY <1>1 DEF Waits
<1>3. Mine(Waits(F[b], G[b]), u) = {} /\ ToUp(R[b], u) = {}
  BY <1>2 DEF Mine, ToUp
<1>4. Cardinality({}) = 0
  BY FS_EmptySet, Zenon
<1> QED
  BY <1>3, <1>4 DEF Count

\* A read that a buffer waits for is queued, in the channel or answered.
LEMMA CountedSomewhere ==
  ASSUME NEW f, NEW g, NEW r, NEW u \in Buffers, Count(f, g, r, u) > 0,
         \A v \in Buffers : \A p \in Range(f[v]) : p[1] = v
  PROVE  f[u] # <<>> \/ (\E p \in g : p \in Packets /\ p[1] = u) \/ r # <<>>
<1> SUFFICES ASSUME f[u] = <<>>, r = <<>>
             PROVE  \E p \in g : p \in Packets /\ p[1] = u
  OBVIOUS
<1>1. ToUp(r, u) = {} /\ Range(f[u]) = {}
  BY DEF ToUp, Range
<1>2. Cardinality({}) = 0
  BY FS_EmptySet, Zenon
<1>3. Mine(Waits(f, g), u) # {}
  <2>1. ASSUME Mine(Waits(f, g), u) = {} PROVE FALSE
    <3>1. Count(f, g, r, u) = 0
      BY <1>1, <1>2, <2>1, SMT, ZenonT(30) DEF Count
    <3> QED
      BY <3>1
  <2> QED
    BY <2>1
<1>4. PICK p \in Waits(f, g) : p[1] = u
  BY <1>3 DEF Mine
<1> QED
  BY <1>1, <1>4 DEF Waits

------------------------------------------------------------------------------
(* Room for packets.                                                       *)

LEMMA PartSize ==
  ASSUME NEW U \in SUBSET Packets, NEW a
  PROVE  Cardinality({p \in U : PktAddr[p] = a}) <= Cardinality(U)
<1> DEFINE T == {p \in U : PktAddr[p] = a}
<1>1. IsFiniteSet(U) /\ T \in SUBSET U
  BY MineFinite
<1> HIDE DEF T
<1> QED
  BY <1>1, FS_Subset, Zenon DEF T

\* Pool is large enough for a buffer to find a packet that is nowhere in the path:
\* not in the records q of its address, not among the reads U on their way to the
\* channel or in it, and not in a response.
LEMMA FreshPacket ==
  ASSUME NEW u \in Buffers, NEW b \in Ports, NEW q \in Seq(Packets),
         NEW U \in SUBSET Packets, NEW r \in Seq(Records),
         Len(q) <= Cardinality(U), Cardinality(U) + Len(r) <= MaxAsked
  PROVE  \E n \in 1 .. Pool : <<u, b, n>> \notin (Range(q) \cup U) \cup PktsOf(r)
<1> DEFINE f == [n \in 1 .. Pool |-> <<u, b, n>>]
           R == Range(q)
           P == PktsOf(r)
<1>1. Pool \in Nat /\ MaxAsked \in Nat /\ Pool = 2 * MaxAsked + 1
  BY BufferAssumption DEF Pool
<1>2. IsFiniteSet(U) /\ Cardinality(U) \in Nat
  BY MineFinite
<1>3. IsFiniteSet(R) /\ Cardinality(R) <= Len(q)
  BY RangeSize
<1>4. IsFiniteSet(P) /\ Cardinality(P) <= Len(r)
  BY PktsSize
<1>5. Len(q) \in Nat /\ Len(r) \in Nat
  OBVIOUS
<1> SUFFICES ASSUME \A n \in 1 .. Pool : <<u, b, n>> \in (R \cup U) \cup P PROVE FALSE
  BY ZenonT(30)
<1> HIDE DEF R, P
<1>6. f \in Injection(1 .. Pool, (R \cup U) \cup P)
  <2>1. f \in [1 .. Pool -> (R \cup U) \cup P]
    OBVIOUS
  <2>2. \A m, n \in 1 .. Pool : f[m] = f[n] => m = n
    OBVIOUS
  <2> QED
    BY <2>1, <2>2 DEF Injection, IsInjective
<1>7. /\ IsFiniteSet(R \cup U) /\ Cardinality(R \cup U) <= Cardinality(R) + Cardinality(U)
      /\ Cardinality(R) \in Nat
  BY <1>2, <1>3, UnionSize
<1>8. /\ IsFiniteSet((R \cup U) \cup P)
      /\ Cardinality((R \cup U) \cup P) <= Cardinality(R \cup U) + Cardinality(P)
      /\ Cardinality(R \cup U) \in Nat /\ Cardinality(P) \in Nat
  BY <1>4, <1>7, UnionSize, Zenon
<1>9. Cardinality((R \cup U) \cup P) \in Nat
  BY <1>8, FS_CardinalityType, Zenon
<1>10. Cardinality(1 .. Pool) = Pool
  BY <1>1, FS_Interval
<1>11. Cardinality(1 .. Pool) <= Cardinality((R \cup U) \cup P)
  BY <1>6, <1>8, FS_Injection, Zenon
<1> HIDE DEF f
<1> QED
  BY <1>1, <1>2, <1>3, <1>4, <1>5, <1>7, <1>8, <1>9, <1>10, <1>11

\* The reads that the library holds for a channel are among those the arbiter
\* sent to it.
LEMMA HeldSent ==
  ASSUME NEW g, NEW q, NEW r, Carries(g, q, r), IsFiniteSet(g), NEW n, NEW c,
         \A a \in Addrs : Len(q[a]) = IF ChanOf[a] = c THEN n[a] ELSE 0
  PROVE  Cardinality(HeldBy(n, c)) <= Cardinality(g)
<1> DEFINE H == HeldBy(n, c)
           f == [h \in H |-> q[h[1]][h[2]]]
<1>1. ASSUME NEW h \in H
      PROVE  h[1] \in Addrs /\ h[2] \in DOMAIN q[h[1]] /\ h = <<h[1], h[2]>>
  <2>1. PICK a \in Addrs : ChanOf[a] = c /\ h \in {a} \X (1 .. n[a])
    BY DEF HeldBy
  <2>2. h[1] = a /\ h[2] \in 1 .. n[a] /\ h = <<h[1], h[2]>>
    BY <2>1
  <2>3. q[a] \in Seq(Packets)
    BY DEF Carries
  <2> QED
    BY <2>1, <2>2, <2>3
<1>2. ASSUME NEW h \in H
      PROVE  f[h] \in g /\ PktAddr[f[h]] = h[1]
  <2>1. f[h] = q[h[1]][h[2]]
    OBVIOUS
  <2>2. q[h[1]] \in Seq(Packets)
    BY <1>1 DEF Carries
  <2>3. f[h] \in Packets /\ f[h] \in Range(q[h[1]])
    BY <1>1, <2>1, <2>2 DEF Range
  <2>4. PktAddr[f[h]] = h[1]
    BY <1>1, <2>3 DEF Carries
  <2> HIDE DEF f
  <2> QED
    BY <2>3, <2>4 DEF Carries
<1>3. ASSUME NEW h \in H, NEW m \in H, f[h] = f[m]
      PROVE  h = m
  <2>1. h[1] = m[1]
    BY <1>2, <1>3
  <2>2. Distinct(q[h[1]])
    BY <1>1 DEF Carries
  <2>3. q[h[1]][h[2]] = q[h[1]][m[2]]
    BY <1>3, <2>1
  <2>4. h[2] = m[2]
    BY <1>1, <2>1, <2>2, <2>3 DEF Distinct
  <2> QED
    BY <1>1, <2>1, <2>4
<1>4. f \in Injection(H, g)
  <2>1. f \in [H -> g]
    BY <1>2
  <2> HIDE DEF f, H
  <2> QED
    BY <1>3, <2>1 DEF Injection, IsInjective
<1> HIDE DEF f, H
<1> QED
  BY <1>4, FS_Injection DEF H

\* So there is room in the library for a read p that waits outside the channel.
LEMMA RoomLeft ==
  ASSUME NEW f, NEW g \in SUBSET Packets, NEW q, NEW r, Carries(g, q, r), NEW n, NEW c,
         \A a \in Addrs : Len(q[a]) = IF ChanOf[a] = c THEN n[a] ELSE 0,
         NEW p \in Waits(f, g), p \notin g, Cardinality(Waits(f, g)) <= MaxAsked,
         Cardinality(HeldBy(n, c)) \in Nat
  PROVE  Cardinality(HeldBy(n, c)) < QueueSize
<1> DEFINE W == Waits(f, g)
<1>1. g \in SUBSET (W \ {p}) /\ W \in SUBSET Packets
  BY DEF Waits
<1> HIDE DEF W
<1>2. IsFiniteSet(W) /\ Cardinality(W) \in Nat
  BY <1>1, MineFinite
<1>3. IsFiniteSet(W \ {p}) /\ Cardinality(W \ {p}) = Cardinality(W) - 1
  BY <1>2, FS_RemoveElement, Zenon DEF W
<1>4. IsFiniteSet(g) /\ Cardinality(g) <= Cardinality(W \ {p})
  BY <1>1, <1>3, FS_Subset, Zenon
<1>5. Cardinality(g) \in Nat
  BY <1>4, FS_CardinalityType, Zenon
<1>6. Cardinality(HeldBy(n, c)) <= Cardinality(g)
  BY <1>4, HeldSent
<1>7. MaxAsked \in Nat /\ QueueSize \in Nat /\ MaxAsked <= QueueSize
  BY BufferAssumption, PathAssumption
<1>8. Cardinality(W) <= MaxAsked
  BY DEF W
<1> QED
  BY <1>2, <1>3, <1>4, <1>5, <1>6, <1>7, <1>8
==============================================================================
