# Verification of the network simulator

The program is a single-threaded, event-driven simulator in the style of gem5.
`src/src/main.cpp` builds four upstream buffers, an arbiter, and eight memory
channels in front of the DRAMsim3 library, initialises them, and then services
events until the tick limit. All concurrency is the interleaving of events and
of calls between objects over ports: a request or response is offered with
`sendTimingReq` / `sendTimingResp`, the peer takes or refuses it, and a peer that
refused is expected to call back with `sendRetryReq` / `sendRetryResp`.

## Parts of the system and their modules

| Part | Source | Modules | State |
|---|---|---|---|
| DRAM arbiter | `src/src/dram/dram_arb.*` | `DramArb`, `MCDramArb`, `DramArbProofs` | modelled |
| Event queue | `src/src/event/eventq.*` | `Event`, `EventOrder` (abstract), `EventQueue` (detailed), `MCEventQueue`, `EventLines`, `EventQueueProofs` | partly: `reschedule`, `serviceEvents`, `replaceHead` have no callers |
| Main loop and wiring | `src/src/main.cpp` | `EventQueue` (loop), `MemoryPath` (wiring) | partly: not the debug settings |
| Channel adapter | `src/src/dram/dramsim3.*` | `DramSim3`, `MCDramSim3`, `DramSim3Proofs` | modelled |
| Library wrapper | `src/src/dram/dramsim3_wrapper.*` | `DramSim3`, `MemoryPath` | partly |
| Upstream buffer | `src/src/buffer/UpBuffer.*` | `UpBuffer`, `UpBufferProofs` | partly |
| Composed memory path | `main.cpp` with the three above | `PathPackets`, `MemoryPath`, `MCMemoryPath`; `PathQueues` (terms of the proofs), `MemoryPathSteps`, `MemoryPathProofs` | modelled |
| Library: controller and the loop around it | `src/DRAMsim3-master/src/controller.*`, `dram_system.*` | `Controller`, `MCController`; its promise is `MemoryPromise` | modelled; not the ideal system |
| Library: command queue | `command_queue.*` | `CommandQueue` | modelled |
| Library: bank, channel and refresh state, timing tables | `bankstate.*`, `channel_state.*`, `refresh.*`, `timing.*` | `BankState`, `ChannelState`, `Timing` | partly: without the extra windows of GDDR and LPDDR4 |
| Library: address mapping | `configuration.*` | `Config` | partly: without the parsing of files |
| Library: memory cube | `hmc.*` | `HMC`, `MCHMC` | partly: block reads and writes |

What is left out, and why, is under "Not modelled".

## How the models correspond to the code

### `DramArb`

Variables have the names of the members of `DramArb`. A handler that calls its
peers from inside a loop is a sequence of steps: `pc` names the loop, `bank` and
`k` are its position, and every other handler waits for `pc = "idle"`, which is
what a single thread does. The peers' answers are free choices, so the results
hold for any upstreams and channels that keep to the port protocol. Four
variables are the peers' own: `inflight`, `chanOwes`, `waiting`, `blocked`.

| Code | Action |
|---|---|
| `recvTimingReqUp` | `RecvTimingReqUp` (`CanAccept`, `Enqueue`) |
| `recvTimingResp`, `accessAndRespond` | `RecvTimingResp` (`TakeOldest`, `AccessAndRespond`) |
| `sendResponse` | `SendResponseEvent` or `HandleRespRetry`, then `ResponseAccepted`, `ResponseRefused`, `SendRetryReq`, `SendResponseDone` |
| `arbitrate`, `arbitrateRead`, `arbitrateWrite` | `ArbitrateEvent`, then `ReadSent`, `ReadRefused`, `NoReadSent`, `WriteSent`, `WriteRefused`, `NoWriteSent` (each ending in `BankDone` where the loop over banks goes on) |
| `handleReqRetry` | `HandleReqRetry` |

In `SendRetryReq` the upstream may call `recvTimingReqUp` from inside the call,
before the flag is cleared, as `UpBuffer` does. The assertions of
`recvTimingResp` are the guard `Expected`, and the invariant `ResponseExpected`
says that the guard never blocks an answer. Simulated time is abstracted away:
an event that is scheduled may be serviced at any later point. This allows every
order of events the tick counts allow, and more.

### `EventOrder` and `EventQueue`

`EventOrder` is the promise: one line sorted by (when, priority), a new event in
front of its equals. `EventQueue` is the code: bins linked by `nextBin`, events
of a bin linked by `nextInBin`, with the stale links the code leaves behind.
`Line` is the sequence that one meets by following the links (`Follows`), and the
refinement mapping. `LastBefore` is where the search along `nextBin` stops. Both
are written without recursion, so that they can be reasoned about. `Schedule`,
`Deschedule`, `ServiceOne` and `Destroy` are the operations; `HandlerReturns`
ends the handler that `ServiceOne` starts. `MinDelay` is 1 because every handler
of the simulator schedules at `curTick() + 1` or later.

### `DramSim3`

`RequestAccepted` and `RequestRefused` are the two outcomes of `recvTimingReq`;
`Tick` is `tickEvent`; `ReadCallback` and `WriteCallback` are the wrapper's
callbacks into `readComplete` and `writeComplete`; `SendResponseEvent` and
`RecvRespRetry` run `sendResponse`. A failing assertion sets `failed` and stops
the model. The library is a bag of transactions per address which complete in
any order. It may refuse a read only when enough reads are unfinished
(`QueueSize`), and a write at any time, because it acknowledges a write before
the write has left its buffer. `Polite` says whether the arbiter waits for a
retry it is owed.

### `UpBuffer`

`InitObject` is `init`, `SendpktEvent` the tick handler, `SendRetryReq` the
answer to `recvReqRetry`, `RecvTimingResp` the response handler. The handler that
would drain the buffer (`send_data_2cal`) runs on an event that only it
schedules, so it never runs and is not an action. The flags `retryReq` and
`retryResp` are written and never read, and are left out.

### `MemoryPath`

The composition takes the actions of `UpBuffer` (extended) and of `DramArb` and
`DramSim3` (instantiated) and makes every call over a port one joint step: the
callee's state decides the answer that the caller's module leaves free. `Ask` is
`sendTimingReq` of a buffer with `recvTimingReqUp` of the arbiter, `Forward` the
same between arbiter and channel, `Return` and `Deliver` carry a response back,
and `Retry` is `sendRetryReq` with the request that `UpBuffer::sendRetryReq`
sends from inside the call. `PathPackets` has the packets: addresses are the ones
main uses, and of `Pool` packets per port one is always free. The channel of an
address is the constant `ChanOf`; `MCMemoryPath` computes it with `Config` from the
configuration main loads. Answers that never occur have no step; `LibraryHasRoom` and
`NoAssertionTrips` check that the missing ones are in fact impossible.

### `Controller`, `CommandQueue`, `ChannelState`, `BankState`, `Timing`, `Config`

One cycle of `JedecDRAMSystem::ClockTick` is a run of forced steps, in the order
of the code: `ReturnDoneTrans` (callbacks, refresh counter), `FirstCommand`,
`SecondCommand` (HBM only), `PowerUpdate` (self refresh), `ScheduleTransaction`
(which also ends the cycle). Between cycles `AddTransaction` may be called.
Absolute cycle numbers become the cycles that are left, so the state space is
finite; `bus` is the only history variable. `Timing` has the tables of
`timing.cc` as functions of two commands, `BankState` the state machine of a
bank, `ChannelState` the banks of a channel, the activation window and the
refresh generator, `CommandQueue` the choice of a command. `AbruptExit` and
`exit(1)` are the phase `abort`. The settings that select code paths (unified
queue, page policy, refresh policy, second command, queue structure, self
refresh) are a record `config` chosen in `Init` from `Configs`. `Config` has the
address mapping: field widths, their positions by the mapping string, and the
fields of an address.

### `HMC`

`ClockTick` is the sequence `DrainResponses`, `DRAMClockTick`, `DrainRequests` as
the two clocks ask for it (`lag` is the difference of `logic_ps_` and `dram_ps_`).
Both directions of the crossbar share `Cross` and `BuildAgeQueue`. A vault takes a
request when it has room and completes it after one of the `Latencies`, which is
what `Implements` shows of `Controller`.

### `MemoryPromise`

What a memory promises its caller: every accepted transaction is answered once,
in any order. `Controller` and `HMC` both implement it, with the pending maps
and answer queues as the refinement mapping; `DramSim3` has its bag of
transactions for it.

## Runs

Runs that pass:

| Run | Instance | Shows |
|---|---|---|
| `arb` | 2 banks, 2 upstreams, `buf_size` 2, reads that share an address, a write; 769,766 states | types; `Capacity`; every response addressed to its issuer; counters agree with the queues; assertions hold; no read answered twice; no response forgotten; room during a retry; the last bank's requests keep `arbEvent` scheduled |
| `arb_live` | 1 bank, 2 upstreams, a read of its own address each, fair; 3,628 states | every accepted read is answered and delivered, while the other upstream goes on reading |
| `queue` | 3 events, 2 priorities, delays 1..2, limit 3, fair; 39,547 states | links reach exactly the scheduled events; the bins implement the line; every event due before the limit is served |
| `channel` | 2 channels, 4 reads, 1 write, fair; 1,352 states | no assertion fails; records equal the library's transactions; oldest read of an address first; every refusal is followed by a retry |
| `path` | 3 buffers, 2 ports each, `buf_size` 0 (one packet), 2 reads admitted per bank, HBM2 mapping; 115,620 states | a port keeps at most `buf_size + 1` packets and never falls silent while it has room; the three components agree on every read; the library never refuses; no assertion fails; the path stops only for the reasons listed in `RestsOnlyBlocked` |
| `ctrl` | 2 ranks, one bank each, 3 addresses, 3 transactions, three configurations, fair; 545,220 states | no abort; no two bursts on the bus at once; no transaction lost or issued twice; refreshes keep up; the drain counts real writes; a read is refused only by a full queue; writes wait for earlier reads; the promise is kept; reads return |
| `hmc` | 2 links, 4 quadrants, 2 vaults, queues of one packet, 3 transactions, fair; 156,880 states | queues and ages stay in step; every completion finds its response; the promise is kept; every transaction is answered |

Runs that end in a violation, where the code does other than the repository says:

| Run | Property | What the trace shows |
|---|---|---|
| `arb_resched` | `PendingRescheduled` | `has_pending` is overwritten for each bank (`dram_arb.cpp:321`); requests of an earlier bank are left without an event |
| `arb_retry_target` | `RetryGoesToWaiter` | the flag of the loop index is tested, the retry goes to the response's target (`dram_arb.cpp:277`) |
| `channel_stranded` | `ResponseReturned` | `sendResponse` sends one response and does not reschedule (`dramsim3.cpp:43`) |
| `upbuf_refused` | `RefusedRetried` | a refused response is never retried or accepted (`UpBuffer.cpp:59`) |
| `ctrl_drain` | `ReadsReturnAlways` | a full write buffer whose first write waits for a read of its address restarts the drain in every cycle, so the read is never scheduled (`controller.cc:217`, `:232`) |

Other disagreements met while modelling have no run of their own:

- `reschedule` (`eventq.h:118`) inserts an event that may be linked already; nothing
  calls it.
- A refused write gets a retry only when a read response happens to be delivered
  (`dram_arb.cpp:189`); the buffers main creates only read.
- The arbiter sends on a port that owes it a retry (`dram_arb.cpp:343`), and a
  second refusal would schedule `tickEvent` again and fail its assertion
  (`dramsim3.cpp:85`). In the assembled program the library never refuses
  (`LibraryHasRoom`), which is why `channel` and the proofs assume a polite caller.
- The limit of `UpBuffer` is tested with `>` (`UpBuffer.cpp:58`), so one packet more
  than `buf_size` is kept; `TypeOK` states the bound the code has.
- A command for a rank that must stay in self refresh for more than one cycle ends
  in `AbruptExit` (`bankstate.cc:67`): the wake-up asks for `SREF_EXIT`, which that
  state does not know. `NoAbort` names the case; TLC finds it with `tCKESR = 2`.
  Self refresh is off in the configuration main loads.
- Refreshes of single banks are kept `tREFI` apart by `timing.cc:235` but asked for
  every `tREFIb` cycles, so with several banks in a rank they pile up.
  `RefreshKeepsUp` names the case. The wait `tRFCb` is in a table that is not read
  for this command (`timing.cc:225`).
- With `enable_hbm_dual_cmd`, the second command of a cycle is taken out of its queue
  before `controller.cc:86` decides whether to issue it; a column command that comes
  second is dropped and its transaction is never answered. It takes timing with which
  a write and a read of two ranks are ready in one cycle, as that of `HBM2` has (the
  gap `write_to_read_o` is negative). `Lossless` names the case: `Tracked` and the part of
  `WriteAfterRead` about the unified queue are claimed where it cannot happen, and TLC
  finds the loss with `CL = 4`, `CWL = 1`. The buffers main creates only read, so the
  assembled program does not meet it.

### Bounds

- `arb`: two upstreams and two reads of one address are the least with which a
  response could go to the wrong issuer; further reads fill a queue of size 2 so
  that refusals happen; two banks are the least with which one bank's turn can
  disturb another's. In `arb_live` the addresses differ, because with one address
  the answer to one upstream's read serves the other and hides an unfair round
  robin. A packet is sent again once the program has dropped it, so behaviours are
  unbounded in length.
- `queue`: three events give a bin with two events next to a second bin, and an
  insertion before, into and behind it. `RunLimit` and `MaxDelay` bound time.
- `channel`: two channels let a callback be routed wrongly.
- `path`: three buffers are the least with which a full port can block the responses
  of two others in different states; `buf_size` 0 means one packet per port, so that
  every port fills up within the run. `buf_size` 1 has more than seven million
  states and was not completed; there the path also rests with a request forgotten
  in an earlier bank and with a misdirected retry, which `RestsOnlyBlocked` allows.
- `ctrl`: two ranks exercise the rank-to-rank constraints of the bus; three addresses
  give a row conflict in one bank and a second rank; queues of two entries and a
  drain mark of 0 make the drain start; an activation window of one activation is
  what makes the window bind with so few banks. The three configurations select
  between them every value of every setting. `MaxTrans` bounds the transactions.
- `ctrl_drain`: the configuration of main, with small queues.
- `hmc`: queues of one packet make every full-queue branch happen, and clock periods
  of 2 and 3 make the two clocks drift through every phase.

`queue` ends when main does and `path` comes to rest, so these two do not check
for deadlock.

### Fairness

The event queue services every scheduled event (checked as `Served`), and a
handler runs to its end, so events and loop steps are fair. In `DramArb`
handlers of other objects run in between, and what waits for `idle` gets strong
fairness. The peers are assumed to give the answers and retries they owe and not
to refuse the same thing for ever. The last assumption is one about the
environment. `channel_stranded` and `upbuf_refused` show that the present
channels and buffers break it, so `arb_live` is a statement about the arbiter
and not about the assembled program. For the assembled program `path` says what
is true instead: it does come to rest, and `RestsOnlyBlocked` lists the ways.

In `Controller` and `HMC` the steps of `ClockTick` are fair: the caller ticks the
library in every cycle, and a tick runs to its end. The caller itself is not
assumed to add anything.

## Proofs

The proofs about the arbiter hold for every number of banks, packets and
addresses, 1 to 5 upstreams (the size of the flag arrays) and every positive
buffer size (`ArbAssumption`); those about the event line for every set of events,
priorities and delays (`QueueAssumption`); the others for every value of their
constants within the assumptions named in their modules and below.

- `TypeCorrect` (`DramArbProofs`): `TypeOK` is inductive as it stands. It is
  split by groups of variables, so an action has to be examined only for the
  groups it changes. The round-robin indices stay in range because `NextIndex`
  is taken modulo the number of upstreams.
- `AdmissionBounded`, `RetryAccepted` (`DramArbProofs`): `Capacity /\ RetryHasRoom`. `Capacity` needs
  no strengthening of its own: a response moves from one counter to the other,
  and an accepted read found room. `RetryHasRoom` needs `Capacity`: the
  delivery that precedes a retry took one from a load of at most `buf_size`.
- `ResponsesToIssuer` (`DramArbProofs`): `ToIssuer` is not inductive. With `InStep`
  (position by position the two maps name a read and its upstream) it is, since
  a response is built from the heads of both maps.
- `ResponseNeverForgotten` (`DramArbProofs`): `ResponseWakeup` speaks of the states
  between handlers. The inductive invariant adds what holds inside
  `sendResponse`: the loop still comes to an index that is open (`Watched`), and
  the flags of a bank are never all set unless the head's upstream owes a retry
  (`OpenOrOwed`). This is what makes a flag per loop index harmless.
- `LastBankKept` (`DramArbProofs`): `LastBankServed`. The invariant `Served` says the same
  while `sendResponse` runs; a round of `arbitrate` ends with the last bank, whose
  answer is the one that `has_pending` keeps.
- `CountersExact`, `AssertionsHold` (`DramArbProofs`): `Accounting` and
  `ResponseExpected`. The inductive invariant `Balanced` says of every bank that
  input queues, the channel's reads and the records hold distinct packets in
  their own places (`Tidy`) and that their numbers agree per address (`Counts`);
  `Tidy` is what turns moving a packet from a queue to the channel into no change
  of a cardinality.
- `NeverAnsweredTwice` (`DramArbProofs`): `AnsweredOnce`, from `AllOnce`, which adds
  that a record stands under the address of its packet: a packet could otherwise
  be recorded under two addresses and be answered under both.
- `BufferTypes`, `PortsKeepAsking` (`UpBufferProofs`): both invariants are inductive
  once the position of the running loop is part of the statement: a port is also
  looked after when the loop has still to come to it.
- `ChannelTypes`, `AssertionsHold`, `RecordsExact`, `AnsweredInOrder`
  (`DramSim3Proofs`): the inductive invariant `IInv` relates the records per address
  to the transactions in the library (`ReadsOK`, `WritesOK`), says that a tick is
  scheduled only while a retry is owed, and that the response event and a refused
  response exclude each other (`EventsOK`); the last two are what the assertions of
  `schedule` need. They
  assume `Polite` (the arbiter waits for its retry) and `Routed` (a packet is sent
  on the channel its address maps to). `PathRunsChannels` proves that the arbiter
  is such a caller; that the real mapping is `Routed` is part of `PathAssumption`,
  which TLC evaluates on `path` with the configuration main loads.
- `QueueTypes`, `QueueLinks`, `QueueImplements` (`EventQueueProofs`): the links of
  `EventQueue`, for every finite set of events (`LinkAssumption`). The inductive
  invariant says that some sequence without repetitions of exactly the scheduled
  events is followed by the links, is sorted, and has bins that are the runs of equal
  (when, priority) (`Good`, `Rep`). Such a sequence is unique, because each event's
  successor is determined by the links, so `Line` is that sequence; insertion,
  removal and service are each shown to change it as `EventOrder` says. The stale
  `nextBin` of an event below the top is free in the invariant; the proof that
  `serviceOne` and `removeItem` refresh it when the event becomes the top is what
  makes the next bin reachable. `EventLines` has the part of the argument that is
  about sequences and links alone: what `Put` and `Take` do to a line, and that the
  changed links represent the changed line (`PutRep`, `TakeRep`).
- `LineSorted`, `TimeMonotone` (`EventQueueProofs`): what the links lead through stays
  sorted, free of duplicates and never in the past (`Past`), and therefore time does
  not run backwards.
- `PathRunsBuffers`, `PathRunsArbiter`, `PathRunsChannels` (`MemoryPathProofs`): every
  behaviour of the composed path is a behaviour of each of the three modules. Their
  theorems were proved for free peers that keep a protocol; this shows that the
  other two components keep it, so every theorem above holds in the path. It needs
  an invariant of the whole, `PathInv`: the two ends of each port agree on the retries
  owed and on the reads in the channel (`PortsAgree`), and a buffer waits for exactly
  the reads of it that the arbiter holds (`AskedExact`). `MemoryPathSteps` shows that a
  step keeps the first and moves a read in one of five ways (`Moves`); the lemmas
  `Counted...` of `UpBufferProofs` show that each way keeps the count. A buffer finds a
  packet that is nowhere in the path (`FreshFree`) because the arbiter admits at most
  `MaxAsked` reads.
- `PathPeersAgree`, `PathLibraryHasRoom`, `PathNoAssertionTrips`,
  `PathRestsOnlyBlocked` (`MemoryPathProofs`): the four properties of `path`, from
  `PathInv` and the invariants of the parts, for 1 to 5 buffers (the arbiter's flag
  arrays), any number of ports, any `buf_size`, and any limit of the arbiter that is
  not above the library's queue (`PathAssumption`; main has 10 and 32). The library
  has room because what it holds for a channel are reads that the arbiter sent and
  counts, and the read about to be sent is counted as well and not among them.

`QueueFacts` has the facts about sequences that several of these proofs use.

Only model-checked: all liveness properties, `RetryComes` of `DramSim3` among them;
the controller and the cube with their refinements of `MemoryPromise`, whose state
depends on folds over sequences.

## Not modelled

- Ports (`port.*`, `timing.*`): main binds every port once before the first event and
  never unbinds one. What remains is forwarding to the peer, which the joint steps
  of `MemoryPath` are.
- Packets (`packet.h`): containers; the modules keep address, bank, upstream and
  direction.
- Objects and probes (`object.*`, `probe/`): lists of names and listeners; no simulated
  object creates a probe point.
- Old buffer and DRAM stubs (`buffer.*`, `dram.*`) and the `Simulator` class: nothing
  creates the former, the latter is commented out.
- `send_data_2cal` of `UpBuffer`: its event is scheduled by itself only, so it never
  runs.
- The ideal memory system, trace CPU, statistics and thermal model of the library:
  not selected by main, or numerical code and output without a protocol.
- Parsing of configuration files, and the third-party headers (JSON, formatting,
  argument parsing, test framework), which make up most of the lines of the
  repository: general-purpose libraries without a part in the simulated behaviour.
- `MemoryPath` uses the library as the bag of transactions of `DramSim3` and not as
  `Controller`: the product is out of TLC's reach. The two are joined by
  `MemoryPromise` and `RefusesOnlyWhenFull`, both checked of `Controller`.
