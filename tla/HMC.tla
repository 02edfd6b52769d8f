--------------------------------- MODULE HMC ---------------------------------
(***************************************************************************)
(* The memory cube of the DRAM library (DRAMsim3-master/src/hmc.cc): links *)
(* to the caller, a crossbar to four quadrants, and vaults behind them.  A *)
(* vault is a Controller, seen here as what it promises: it takes a        *)
(* transaction when it has room and completes it after some cycles.  Times *)
(* are the cycles that are left; lag is logic_ps_ - dram_ps_.              *)
(***************************************************************************)
EXTENDS Integers, Sequences, SequencesExt, FiniteSets, FiniteSetsExt

CONSTANTS
  Links,       \* config.num_links
  QueueDepth,  \* config.xbar_queue_depth
  BlockSize,   \* config.block_size, in bytes
  PsPerLogic,  \* ps_per_logic_
  PsPerDram,   \* ps_per_dram_
  Vaults,      \* config.channels
  VaultOf,     \* [address] -> GetChannel(address)
  VaultRoom,   \* transactions a vault takes
  Latencies,   \* cycles a vault may need
  MaxTrans     \* bound: transactions the caller adds

VARIABLES
  next_link,         \* the link the next request goes to
  link_req_queues,   \* [link] -> requests
  quad_req_queues,   \* [quad] -> requests, with the cycles until they leave
  vaults,            \* [vault] -> transactions, with the cycles until they complete
  resp_lookup,       \* responses of the requests that are not complete
  quad_resp_queues,  \* [quad] -> responses
  link_resp_queues,  \* [link] -> responses, with the cycles until they leave
  link_busy, quad_busy,
  link_age, quad_age,  \* counted up to the number of quadrants: no index is higher
  logic_clk,         \* modulo the number of quadrants, which the links divide
  lag,
  pc,                \* the next step of ClockTick
  sent

reqVars  == <<link_req_queues, quad_req_queues, link_age, quad_busy>>
respVars == <<quad_resp_queues, link_resp_queues, quad_age, link_busy>>
vars == <<next_link, reqVars, vaults, resp_lookup, respVars, logic_clk, lag, pc, sent>>

Quads == 4

ASSUME LinksAssumption == Links \in 1 .. Quads /\ Quads % Links = 0

LinkIds == 0 .. Links - 1
QuadIds == 0 .. Quads - 1
VaultIds == 0 .. Vaults - 1
Addrs == DOMAIN VaultOf
Trans == [addr : Addrs, is_write : BOOLEAN]
QuadOf(a) == VaultOf[a] % 4

\* A flit holds 16 bytes; the one with the header comes on top.
DataFlits == 1 + BlockSize \div 16
RequestFlits(w)  == IF BlockSize = 0 THEN 0 ELSE IF w THEN DataFlits ELSE 1
ResponseFlits(w) == IF BlockSize = 0 THEN 0 ELSE IF w THEN 1 ELSE DataFlits

Init ==
  /\ next_link = 0
  /\ link_req_queues = [l \in LinkIds |-> <<>>] /\ link_resp_queues = [l \in LinkIds |-> <<>>]
  /\ quad_req_queues = [q \in QuadIds |-> <<>>] /\ quad_resp_queues = [q \in QuadIds |-> <<>>]
  /\ vaults = [v \in VaultIds |-> <<>>]
  /\ resp_lookup = <<>>
  /\ link_busy = [l \in LinkIds |-> 0] /\ quad_busy = [q \in QuadIds |-> 0]
  /\ link_age = [l \in LinkIds |-> 0] /\ quad_age = [q \in QuadIds |-> 0]
  /\ logic_clk = 0 /\ lag = 0 /\ pc = "idle" /\ sent = 0

------------------------------------------------------------------------------
(* Requests of the caller.                                                 *)

\* Faulty: one request too many for a link.
Roomy_Late == {l \in LinkIds : Len(link_req_queues[l]) <= QueueDepth}

Roomy == {l \in LinkIds : Len(link_req_queues[l]) < QueueDepth}
WillAcceptTransaction == Roomy # {}

\* The request takes the first link with room, and leaves a response to find later.
AddTransaction(t) ==
  LET l == (next_link + Min({i \in LinkIds : (next_link + i) % Links \in Roomy})) % Links IN
    /\ pc = "idle" /\ sent < MaxTrans
    /\ WillAcceptTransaction
    /\ link_req_queues' = [link_req_queues EXCEPT ![l] = Append(@, t)]
    /\ resp_lookup' = Append(resp_lookup, [addr |-> t.addr, is_write |-> t.is_write, link |-> l])
    /\ link_age' = [link_age EXCEPT ![l] = 1]
    /\ next_link' = (l + 1) % Links
    /\ sent' = sent + 1
    /\ UNCHANGED <<quad_req_queues, quad_busy, vaults, respVars, logic_clk, lag, pc>>

------------------------------------------------------------------------------
(* The crossbar.                                                           *)

\* The sources with something to send, from a start that moves on with the clock.  A
\* source goes before the first one whose number is below its age.
BuildAgeQueue(age, n) ==
  LET insert(queue, pos) ==
        LET before == {i \in DOMAIN queue : age[pos] > queue[i]} IN
          IF age[pos] = 0 THEN queue
          ELSE IF before = {} THEN Append(queue, pos) ELSE InsertAt(queue, Min(before), pos) IN
    FoldLeft(insert, <<>>, [i \in 1 .. n |-> (i - 1 + logic_clk) % n])

\* Faulty: the last flit is never counted.
DrainXbar_Odd(busy) == [i \in DOMAIN busy |-> IF busy[i] > 1 THEN busy[i] - 2 ELSE busy[i]]

\* The crossbar moves two flits in a cycle.
DrainXbar(busy) == [i \in DOMAIN busy |-> IF busy[i] > 0 THEN busy[i] - 2 ELSE busy[i]]

\* Faulty: a source that is empty keeps its age.
NextAge_Kept(queue) == 1

NextAge(queue) == IF queue = <<>> THEN 0 ELSE 1

\* One source of the round: its first packet crosses, if there is room and the way is
\* free; else it grows older.  x holds both sides' queues, the ages and busy counters.
Cross(x, s, d, flits) ==
  IF Len(x.to[d]) < QueueDepth /\ x.busy[d] <= 0
  THEN [from |-> [x.from EXCEPT ![s] = Tail(@)],
        to   |-> [x.to EXCEPT ![d] = Append(@, [p |-> Head(x.from[s]), left |-> flits])],
        age  |-> [x.age EXCEPT ![s] = NextAge(Tail(x.from[s]))],
        busy |-> [x.busy EXCEPT ![d] = flits]]
  ELSE [x EXCEPT !.age[s] = Min({@ + 1, Quads})]

------------------------------------------------------------------------------
(* ClockTick: logic cycles run until the next DRAM cycle.                  *)

Loop(l) ==
  IF l < PsPerDram THEN pc' = "resp" /\ lag' = l ELSE pc' = "idle" /\ lag' = l - PsPerDram

\* Answers leave the links, and responses cross from the quadrants to the links.
DrainResponses ==
  LET out == [l \in LinkIds |->
                IF link_resp_queues[l] # <<>> /\ Head(link_resp_queues[l]).left = 0
                THEN Tail(link_resp_queues[l]) ELSE link_resp_queues[l]]
      step(x, q) == LET r == Head(x.from[q]) IN Cross(x, q, r.link, ResponseFlits(r.is_write))
      end == FoldLeft(step, [from |-> quad_resp_queues, to |-> out, age |-> quad_age,
                             busy |-> DrainXbar(link_busy)],
                      BuildAgeQueue(quad_age, Quads)) IN
    /\ pc = "resp" \/ (pc = "idle" /\ lag = 0)
    /\ quad_resp_queues' = end.from /\ link_resp_queues' = end.to
    /\ quad_age' = end.age /\ link_busy' = end.busy
    /\ pc' = IF pc = "idle" THEN "dram" ELSE "req"
    /\ UNCHANGED <<next_link, reqVars, vaults, resp_lookup, logic_clk, lag, sent>>

\* Faulty: all the responses for the address are erased.
VaultCallback_All(x, a) ==
  LET i == Min({j \in DOMAIN x.lookup : x.lookup[j].addr = a}) IN
    [lookup |-> SelectSeq(x.lookup, LAMBDA r : r.addr # a),
     resp   |-> [x.resp EXCEPT ![QuadOf(a)] = Append(@, x.lookup[i])],
     age    |-> [x.age EXCEPT ![QuadOf(a)] = 1]]

\* Faulty: the response is sent twice.
VaultCallback_Twice(x, a) ==
  LET i == Min({j \in DOMAIN x.lookup : x.lookup[j].addr = a}) IN
    [lookup |-> RemoveAt(x.lookup, i),
     resp   |-> [x.resp EXCEPT ![QuadOf(a)] = @ \o <<x.lookup[i], x.lookup[i]>>],
     age    |-> [x.age EXCEPT ![QuadOf(a)] = 1]]

\* A transaction is complete: the first response for its address is the one sent.
VaultCallback(x, a) ==
  LET i == Min({j \in DOMAIN x.lookup : x.lookup[j].addr = a}) IN
    [lookup |-> RemoveAt(x.lookup, i),
     resp   |-> [x.resp EXCEPT ![QuadOf(a)] = Append(@, x.lookup[i])],
     age    |-> [x.age EXCEPT ![QuadOf(a)] = 1]]

\* The transactions that are complete, vault by vault.
Complete ==
  FoldLeft(LAMBDA done, v : done \o SelectSeq(vaults[v], LAMBDA t : t.left = 0),
           <<>>, [i \in 1 .. Vaults |-> i - 1])

DRAMClockTick ==
  LET end == FoldLeft(LAMBDA x, t : VaultCallback(x, t.addr),
                      [lookup |-> resp_lookup, resp |-> quad_resp_queues, age |-> quad_age],
                      Complete)
      rest(v) == SelectSeq(vaults[v], LAMBDA t : t.left > 0) IN
    /\ pc = "dram" \/ (pc = "idle" /\ lag > 0)
    /\ resp_lookup' = end.lookup /\ quad_resp_queues' = end.resp /\ quad_age' = end.age
    /\ vaults' = [v \in VaultIds |-> [i \in DOMAIN rest(v) |-> [rest(v)[i] EXCEPT !.left = @ - 1]]]
    /\ IF pc = "dram" THEN pc' = "req" /\ UNCHANGED lag ELSE Loop(lag)
    /\ UNCHANGED <<next_link, reqVars, link_resp_queues, link_busy, logic_clk, sent>>

\* The quadrants whose first request enters its vault.
Entering ==
  {q \in QuadIds :
     /\ quad_req_queues[q] # <<>> /\ Len(quad_resp_queues[q]) < QueueDepth
     /\ Head(quad_req_queues[q]).left = 0
     /\ Len(vaults[VaultOf[Head(quad_req_queues[q]).p.addr]]) < VaultRoom}

Later(n) == IF n > 0 THEN n - 1 ELSE 0
OneCycle(queues) ==
  [i \in DOMAIN queues |-> [j \in DOMAIN queues[i] |-> [queues[i][j] EXCEPT !.left = Later(@)]]]

\* Requests enter the vaults, and others cross from the links to the quadrants.  The
\* logic cycle ends here.
DrainRequests(latency) ==
  LET into(v) == {q \in Entering : VaultOf[Head(quad_req_queues[q]).p.addr] = v}
      rest == [q \in QuadIds |-> IF q \in Entering THEN Tail(quad_req_queues[q])
                                                    ELSE quad_req_queues[q]]
      step(x, l) == LET t == Head(x.from[l]) IN
                      Cross(x, l, QuadOf(t.addr), RequestFlits(t.is_write))
      end == FoldLeft(step, [from |-> link_req_queues, to |-> rest, age |-> link_age,
                             busy |-> DrainXbar(quad_busy)],
                      BuildAgeQueue(link_age, Links)) IN
    /\ pc = "req"
    /\ vaults' = [v \in VaultIds |->
         IF into(v) = {} THEN vaults[v]
         ELSE LET t == Head(quad_req_queues[Min(into(v))]).p IN
                Append(vaults[v], [addr |-> t.addr, is_write |-> t.is_write, left |-> latency])]
    /\ link_req_queues' = end.from /\ quad_req_queues' = OneCycle(end.to)
    /\ link_age' = end.age /\ quad_busy' = end.busy
    /\ link_resp_queues' = OneCycle(link_resp_queues)
    /\ logic_clk' = (logic_clk + 1) % Quads
    /\ Loop(lag + PsPerLogic)
    /\ UNCHANGED <<next_link, resp_lookup, quad_resp_queues, quad_age, link_busy, sent>>

Next ==
  \/ \E t \in Trans : AddTransaction(t)
  \/ DrainResponses
  \/ DRAMClockTick
  \/ \E latency \in Latencies : DrainRequests(latency)

\* The caller ticks the cube every cycle.  The steps of ClockTick are those that
\* change pc, and one of them is always possible.
Tick == pc' \in {"idle", "resp", "dram", "req"} \ {pc}

Spec == Init /\ [][Next]_vars /\ WF_pc(Tick)

------------------------------------------------------------------------------
(* Properties.                                                             *)

\* Types: the queues of the crossbar stay within their depth.
TypeOK ==
  /\ next_link \in LinkIds
  /\ \A l \in LinkIds : Len(link_req_queues[l]) <= QueueDepth /\ Len(link_resp_queues[l]) <= QueueDepth
  /\ \A q \in QuadIds : Len(quad_req_queues[q]) <= QueueDepth
  /\ lag \in 0 .. PsPerDram + PsPerLogic

\* A source has an age exactly while it has a packet: the rounds of DrainRequests and
\* DrainResponses look at the front of the queue of every source with an age.
AgesMatch ==
  /\ \A l \in LinkIds : link_age[l] > 0 <=> link_req_queues[l] # <<>>
  /\ \A q \in QuadIds : quad_age[q] > 0 <=> quad_resp_queues[q] # <<>>

\* Requests for an address on their way to a vault or in it.
OnTheWay(a) ==
  MapThenSumSet(LAMBDA l : Len(SelectSeq(link_req_queues[l], LAMBDA t : t.addr = a)), LinkIds)
  + MapThenSumSet(LAMBDA q : Len(SelectSeq(quad_req_queues[q], LAMBDA t : t.p.addr = a)), QuadIds)
  + MapThenSumSet(LAMBDA v : Len(SelectSeq(vaults[v], LAMBDA t : t.addr = a)), VaultIds)

\* As many responses wait for an address as requests: VaultCallback always finds one,
\* though it only knows the address.
Recorded ==
  \A a \in Addrs : Len(SelectSeq(resp_lookup, LAMBDA r : r.addr = a)) = OnTheWay(a)

Answers(r, t) == r.addr = t.addr /\ r.is_write = t.is_write

\* The transactions without a complete vault access, and the responses on their way.
Waiting ==
  [t \in Trans |-> Cardinality({i \in DOMAIN resp_lookup : Answers(resp_lookup[i], t)})]
Due ==
  [t \in Trans |->
     Cardinality({<<q, i>> \in QuadIds \X (1 .. 2 * MaxTrans) :
                    i <= Len(quad_resp_queues[q]) /\ Answers(quad_resp_queues[q][i], t)})
     + Cardinality({<<l, i>> \in LinkIds \X (1 .. QueueDepth) :
                      i <= Len(link_resp_queues[l]) /\ Answers(link_resp_queues[l][i].p, t)})]

\* The cube keeps the promise of a channel: every transaction it accepted is answered
\* once (AddTransaction, VaultCallback, DrainResponses).
Promise == INSTANCE MemoryPromise WITH waiting <- Waiting, due <- Due
Implements == Promise!Spec

\* Under steady ticks every transaction is answered: no link and no quadrant is kept
\* waiting by the order of BuildAgeQueue, a busy crossbar or a full queue.
AllAnswered == \A t \in Trans : Waiting[t] + Due[t] > 0 ~> Waiting[t] + Due[t] = 0
==============================================================================
