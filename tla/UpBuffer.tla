------------------------------ MODULE UpBuffer ------------------------------
(***************************************************************************)
(* The upstream buffers (src/src/buffer/UpBuffer.cpp), each with a port to *)
(* every bank of the arbiter.  A buffer asks for data on every port, keeps *)
(* what comes back, and refuses responses on a port whose buffer is full.  *)
(* The event that hands data on to the compute unit                        *)
(* (send_data_retryrespEvent) is scheduled only by its own handler, so it  *)
(* never runs: the handler is not an action here.  The flags retryReq and  *)
(* retryResp are written and never read; they are left out.                *)
(***************************************************************************)
EXTENDS Naturals

CONSTANTS
  Buffers,   \* the upstream buffers
  NumPorts,  \* num_ports: one port per bank
  BufSize,   \* buf_size of a buffer
  MaxAsked   \* reads the arbiter takes per bank: its own buf_size

ASSUME BufferAssumption ==
  /\ Buffers # {}
  /\ NumPorts \in Nat \ {0}
  /\ BufSize \in Nat
  /\ MaxAsked \in Nat \ {0}

Ports == 0 .. NumPorts - 1

VARIABLES
  bufferData,     \* [buffer][port] -> packets held (buffer_Data, bufferdata_num)
  tickScheduled,  \* [buffer] -> tickEvent.scheduled()
  started,        \* [buffer] -> init() was called
  loop, buf, port,  \* the loop over ports that runs, its buffer and position
  \* The arbiter:
  asked,          \* [buffer][port] -> reads accepted and not yet answered
  wants,          \* [buffer][port] -> a request was refused, a retry will come
  stuck           \* [buffer][port] -> a response was refused, a retry is awaited

loopVars == <<loop, buf, port>>
peerVars == <<asked, wants, stuck>>
vars == <<bufferData, tickScheduled, started, loopVars, peerVars>>

\* The value of buf while no loop runs; nothing looks at it.
Nobody == CHOOSE u \in Buffers : TRUE

PerPort(v) == [u \in Buffers |-> [p \in Ports |-> v]]

Init ==
  /\ bufferData = PerPort(0)
  /\ tickScheduled = [u \in Buffers |-> FALSE]
  /\ started = [u \in Buffers |-> FALSE]
  /\ loop = "none" /\ buf = Nobody /\ port = 0
  /\ asked = PerPort(0)
  /\ wants = PerPort(FALSE)
  /\ stuck = PerPort(FALSE)

\* Faulty: one packet too many.
Full_Late(u, p) == bufferData[u][p] > BufSize + 1

Full(u, p) == bufferData[u][p] > BufSize

StartLoop(name, u) ==
  /\ loop = "none" /\ loop' = name /\ buf' = u /\ port' = 0
  /\ UNCHANGED <<bufferData, peerVars>>

\* init(): one read on every port.
InitObject(u) ==
  /\ ~started[u] /\ started' = [started EXCEPT ![u] = TRUE]
  /\ StartLoop("init", u)
  /\ UNCHANGED tickScheduled

\* tickEvent: one read on every port that is not full.
SendpktEvent(u) ==
  /\ tickScheduled[u] /\ tickScheduled' = [tickScheduled EXCEPT ![u] = FALSE]
  /\ StartLoop("tick", u)
  /\ UNCHANGED started

\* Faulty: the loop ends one port early.
NextPort_Early ==
  /\ IF port + 2 < NumPorts
     THEN port' = port + 1 /\ UNCHANGED <<loop, buf>>
     ELSE port' = 0 /\ loop' = "none" /\ buf' = Nobody
  /\ UNCHANGED <<bufferData, tickScheduled, started, stuck>>

NextPort ==
  /\ IF port + 1 < NumPorts
     THEN port' = port + 1 /\ UNCHANGED <<loop, buf>>
     ELSE port' = 0 /\ loop' = "none" /\ buf' = Nobody
  /\ UNCHANGED <<bufferData, tickScheduled, started, stuck>>

\* The loop sends a read on its port, and the arbiter answers ok.  init()
\* ignores the answer.
SendTimingReq(ok) ==
  /\ loop # "none" /\ ~(loop = "tick" /\ Full(buf, port))
  /\ ok => asked[buf][port] < MaxAsked
  /\ asked' = [asked EXCEPT ![buf][port] = IF ok THEN @ + 1 ELSE @]
  /\ wants' = [wants EXCEPT ![buf][port] = @ \/ ~ok]
  /\ NextPort

SkipFullPort ==
  /\ loop = "tick" /\ Full(buf, port)
  /\ NextPort
  /\ UNCHANGED <<asked, wants>>

\* The arbiter calls recvReqRetry: also on a port it owes no retry.  The buffer
\* sends a request whether the port is full or not.
SendRetryReq(u, p, ok) ==
  /\ loop = "none" /\ started[u]
  /\ ok => asked[u][p] < MaxAsked
  /\ asked' = [asked EXCEPT ![u][p] = IF ok THEN @ + 1 ELSE @]
  /\ wants' = [wants EXCEPT ![u][p] = ~ok]
  /\ UNCHANGED <<bufferData, tickScheduled, started, loopVars, stuck>>

\* The arbiter returns a read; a response that was refused may come again.
RecvTimingResp(u, p) ==
  /\ loop = "none" /\ asked[u][p] > 0
  /\ IF Full(u, p)
     THEN /\ stuck' = [stuck EXCEPT ![u][p] = TRUE]
          /\ UNCHANGED <<bufferData, asked, tickScheduled>>
     ELSE /\ bufferData' = [bufferData EXCEPT ![u][p] = @ + 1]
          /\ asked' = [asked EXCEPT ![u][p] = @ - 1]
          /\ tickScheduled' = [tickScheduled EXCEPT ![u] = TRUE]
          /\ stuck' = [stuck EXCEPT ![u][p] = FALSE]
  /\ UNCHANGED <<started, loopVars, wants>>

Next ==
  \/ \E u \in Buffers :
       \/ InitObject(u) \/ SendpktEvent(u)
       \/ \E p \in Ports : RecvTimingResp(u, p) \/ \E ok \in BOOLEAN : SendRetryReq(u, p, ok)
  \/ \E ok \in BOOLEAN : SendTimingReq(ok)
  \/ SkipFullPort

Spec == Init /\ [][Next]_vars

\* A loop runs to its end, events are serviced, and the arbiter answers what it
\* accepted and sends a refused response again.  Other handlers run in between.
Fairness ==
  /\ WF_vars((\E ok \in BOOLEAN : SendTimingReq(ok)) \/ SkipFullPort)
  /\ \A u \in Buffers :
       /\ SF_vars(InitObject(u)) /\ SF_vars(SendpktEvent(u))
       /\ \A p \in Ports : SF_vars(RecvTimingResp(u, p))
FairSpec == Spec /\ Fairness

------------------------------------------------------------------------------
CountType ==
  /\ bufferData \in [Buffers -> [Ports -> 0 .. BufSize + 1]]
  /\ asked \in [Buffers -> [Ports -> 0 .. MaxAsked]]
FlagType ==
  /\ tickScheduled \in [Buffers -> BOOLEAN] /\ started \in [Buffers -> BOOLEAN]
  /\ wants \in [Buffers -> [Ports -> BOOLEAN]]
  /\ stuck \in [Buffers -> [Ports -> BOOLEAN]]
LoopType ==
  loop \in {"none", "init", "tick"} /\ buf \in Buffers /\ port \in Ports

\* The types of UpBuffer.h.  The test of recvTimingResp is the only one that
\* limits what a port holds: sendRetryReq asks for more without looking.
TypeOK == CountType /\ FlagType /\ LoopType

\* After init() a port with room never falls silent: a read is on its way, the
\* arbiter owes a retry, the loop of init() or sendpkt_event is still to reach
\* the port, or tickEvent is scheduled and will ask again.  The event is
\* scheduled by a response on any port and asks on all of them.
NoPortIdle ==
  \A u \in Buffers, p \in Ports :
    started[u] /\ ~Full(u, p) =>
      \/ asked[u][p] > 0 \/ wants[u][p] \/ tickScheduled[u]
      \/ loop # "none" /\ buf = u /\ port <= p

\* "When the local buffer reaches the limit nothing can be received for now; wait
\* for a later retry" (UpBuffer.cpp:57): a refused response is taken in the end.
RefusedRetried == \A u \in Buffers, p \in Ports : stuck[u][p] ~> ~stuck[u][p]
==============================================================================
