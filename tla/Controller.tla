----------------------------- MODULE Controller -----------------------------
(***************************************************************************)
(* The controller of one channel (DRAMsim3-master/src/controller.cc), with *)
(* the loop of dram_system.cc around it.  A cycle of ClockTick is a run of *)
(* forced steps; between cycles the caller may add transactions.  Times    *)
(* are kept as the cycles that are left, so clk++ takes one off each.      *)
(* phase = "abort" stands for AbruptExit and exit(1).                      *)
(***************************************************************************)
EXTENDS CommandQueue, Config, FiniteSets

CONSTANTS
  Geometry,        \* the sizes and the address mapping of the .ini file
  Addrs,           \* addresses of this channel
  Configs,         \* the settings to start from
  TransQueueSize,  \* config.trans_queue_size
  DrainMark,       \* 8: more writes than this are drained when nothing waits
  SrefThreshold,   \* config.sref_threshold
  MaxTrans         \* bound: transactions the caller adds

VARIABLES
  transq,          \* [kind] -> transactions not turned into commands yet
  pending_rd,      \* [addr] -> number of reads in pending_rd_q_
  pending_wr,      \* addresses in pending_wr_q_
  return_queue,    \* answers, with the cycles until they complete
  write_draining,
  phase,           \* the next step of ClockTick
  cmd_issued,      \* the command issued in this cycle, or none
  sent,            \* transactions added
  bus              \* history: [n] -> bursts on the data bus n cycles from now

transVars == <<transq, pending_rd, pending_wr, return_queue>>
vars == <<config, chanVars, refVars, rank_idle_cycles, queueVars, transVars,
          write_draining, phase, cmd_issued, sent, bus>>

Phases == {"idle", "issue", "dual", "power", "schedule", "abort"}
BusCycles == 0 .. Later(read_delay, write_delay)

Trans == [addr : Addrs, is_write : BOOLEAN]

\* Where the address mapping puts an address.
Place ==
  [a \in Addrs |->
     LET m == AddressMapping(Geometry, a) IN
       [bank |-> m["ra"] * BanksOfRank + m["bg"] * BanksPerGroup + m["ba"], row |-> m["ro"]]]

RefreshPolicy == {"SIMULTANEOUS", "RANK_STAGGERED", "BANK_STAGGERED"}

\* The mapping puts every address on a bank and a row of this channel.
ASSUME ControllerAssumption ==
  /\ IsFiniteSet(Addrs)
  /\ \A a \in Addrs : Place[a].bank \in Banks /\ Place[a].row \in Nat
  /\ Configs \subseteq [unified : BOOLEAN, close_page : BOOLEAN, refresh : RefreshPolicy,
                         dual : BOOLEAN, per_rank : BOOLEAN, sref : BOOLEAN]
  /\ TransQueueSize \in Nat

Init ==
  /\ config \in Configs
  /\ ChannelInit
  /\ QueueInit
  /\ transq = [k \in {"unified", "read", "write"} |-> <<>>]
  /\ pending_rd = [a \in Addrs |-> 0]
  /\ pending_wr = {}
  /\ return_queue = <<>>
  /\ write_draining = 0
  /\ phase = "idle"
  /\ cmd_issued = NoCmd
  /\ sent = 0
  /\ bus = [n \in BusCycles |-> 0]

------------------------------------------------------------------------------
(* Transactions.                                                           *)

QueueOf(is_write) ==
  IF config.unified THEN "unified" ELSE IF is_write THEN "write" ELSE "read"

\* Faulty: reads and writes share the room.
WillAcceptTransaction_Shared(t) == Len(transq["read"]) + Len(transq["write"]) < TransQueueSize

WillAcceptTransaction(t) == Len(transq[QueueOf(t.is_write)]) < TransQueueSize

Enqueue(t) == transq' = [transq EXCEPT ![QueueOf(t.is_write)] = Append(@, t)]

\* Faulty: one answer for all the reads of an address.
Return_Once(t, n, left) ==
  return_queue' = Append(return_queue, [addr |-> t.addr, is_write |-> t.is_write, left |-> left])

\* n answers, complete when the cycles are over.
Return(t, n, left) ==
  return_queue' = return_queue \o
    [i \in 1 .. n |-> [addr |-> t.addr, is_write |-> t.is_write, left |-> left]]

\* A write to an address that waits already is merged with it.
AddWrite(t) ==
  /\ IF t.addr \in pending_wr
     THEN UNCHANGED <<pending_wr, transq>>
     ELSE pending_wr' = pending_wr \cup {t.addr} /\ Enqueue(t)
  /\ Return(t, 1, 1)
  /\ UNCHANGED pending_rd

\* Faulty: every read goes to the queue.
AddRead_Again(t) ==
  /\ pending_rd' = [pending_rd EXCEPT ![t.addr] = @ + 1]
  /\ Enqueue(t)
  /\ UNCHANGED <<pending_wr, return_queue>>

\* A read takes the value of a write that waits, or joins the reads that wait.
AddRead(t) ==
  /\ IF t.addr \in pending_wr
     THEN Return(t, 1, 1) /\ UNCHANGED <<pending_rd, transq>>
     ELSE /\ pending_rd' = [pending_rd EXCEPT ![t.addr] = @ + 1]
          /\ IF pending_rd[t.addr] = 0 THEN Enqueue(t) ELSE UNCHANGED transq
          /\ UNCHANGED return_queue
  /\ UNCHANGED pending_wr

AddTransaction(t) ==
  /\ phase = "idle"
  /\ sent < MaxTrans /\ sent' = sent + 1
  /\ WillAcceptTransaction(t)
  /\ IF t.is_write THEN AddWrite(t) ELSE AddRead(t)
  /\ UNCHANGED <<config, chanVars, refVars, rank_idle_cycles, queueVars, write_draining,
                 phase, cmd_issued, bus>>

------------------------------------------------------------------------------
(* ClockTick.                                                              *)

\* The answers that are complete go to the callbacks, and the refresh counter runs.
ReturnDoneTrans ==
  /\ phase = "idle"
  /\ return_queue' = SelectSeq(return_queue, LAMBDA x : x.left > 0)
  /\ RefreshClockTick
  /\ phase' = "issue"
  /\ UNCHANGED <<config, bank, four_aw, rank_is_sref, rank_idle_cycles, queueVars, transq,
                 pending_rd, pending_wr, write_draining, cmd_issued, sent, bus>>

Abort(cmd) ==
  \/ cmd.type = "ABORT"
  \/ Refused(cmd)
  \/ cmd.type \in Reads /\ pending_rd[cmd.addr] = 0
  \/ cmd.type \in Writes /\ cmd.addr \notin pending_wr

\* The cycles in which the data of a command is on the bus.
DataCycles(cmd) ==
  CASE cmd.type \in Reads  -> RL .. RL + T.burst_cycle - 1
    [] cmd.type \in Writes -> WL .. WL + T.burst_cycle - 1
    [] OTHER -> {}

\* A read answers every read of its address that waits.
IssueCommand(cmd, next) ==
  IF Abort(cmd)
  THEN phase' = "abort" /\ UNCHANGED <<chanVars, pending_rd, pending_wr, return_queue, bus>>
  ELSE /\ phase' = next
       /\ CASE cmd.type \in Reads ->
                 /\ Return([addr |-> cmd.addr, is_write |-> FALSE], pending_rd[cmd.addr], read_delay)
                 /\ pending_rd' = [pending_rd EXCEPT ![cmd.addr] = 0]
                 /\ UNCHANGED pending_wr
            [] cmd.type \in Writes ->
                 /\ pending_wr' = pending_wr \ {cmd.addr}
                 /\ UNCHANGED <<pending_rd, return_queue>>
            [] OTHER -> UNCHANGED <<pending_rd, pending_wr, return_queue>>
       /\ UpdateTimingAndStates(cmd)
       /\ bus' = [n \in BusCycles |-> bus[n] + (IF n \in DataCycles(cmd) THEN 1 ELSE 0)]

NoIssue(next) ==
  phase' = next /\ UNCHANGED <<chanVars, pending_rd, pending_wr, return_queue, bus>>

\* A refresh that waits comes first; when it is not ready the queues that it does
\* not stop are served.
FirstCommand ==
  LET waiting == refresh_q # <<>>
      ref == IF waiting THEN GetReadyCommand(Head(refresh_q)) ELSE NoCmd
      stop == IF ref.type \in Refreshes THEN {}
              ELSE IF ~waiting \/ is_in_ref THEN ref_q_indices
              ELSE GetRefQIndices(Head(refresh_q)) IN
    /\ phase = "issue"
    /\ is_in_ref' = IF waiting THEN ref.type \notin Refreshes ELSE is_in_ref
    /\ ref_q_indices' = stop
    /\ \E pick \in {IF Valid(ref) THEN [cmd |-> ref, idx |-> queue_idx, queues |-> queues]
                                   ELSE GetCommandToIssue(stop)} :
         /\ queue_idx' = pick.idx /\ queues' = pick.queues
         /\ cmd_issued' = pick.cmd
         /\ IF Valid(pick.cmd) THEN IssueCommand(pick.cmd, IF config.dual THEN "dual" ELSE "power")
                               ELSE NoIssue("power")
    /\ UNCHANGED <<config, refVars, rank_idle_cycles, rank_q_empty, transq, write_draining,
                   sent>>

\* HBM: a second command of the other class in the same cycle.  It leaves its queue
\* even when it is not issued.
SecondCommand ==
  /\ phase = "dual"
  /\ \E pick \in {GetCommandToIssue(IF is_in_ref THEN ref_q_indices ELSE {})} :
       /\ queue_idx' = pick.idx /\ queues' = pick.queues
       /\ IF Valid(pick.cmd) /\ (pick.cmd.type \in ReadWrite) # (cmd_issued.type \in ReadWrite)
          THEN IssueCommand(pick.cmd, "power")
          ELSE NoIssue("power")
  /\ UNCHANGED <<config, refVars, rank_idle_cycles, is_in_ref, ref_q_indices, rank_q_empty,
                 transq, write_draining, cmd_issued, sent>>

\* Power: ranks without a request enter self refresh, and one with a request leaves it.
SelfRefresh(idle) ==
  LET ask(r) == GetReadyCommand(Cmd(IF rank_is_sref[r] THEN "SREF_EXIT" ELSE "SREF_ENTER",
                                    r * BanksOfRank, -1, -1))
      wants(r) == IF rank_is_sref[r] THEN ~rank_q_empty[r]
                                     ELSE rank_q_empty[r] /\ idle[r] >= SrefThreshold
      ready == {r \in RankIds : wants(r) /\ Valid(ask(r))} IN
    IF config.sref /\ ~Valid(cmd_issued) /\ ready # {}
    THEN IssueCommand(ask(Min(ready)), "schedule")
    ELSE NoIssue("schedule")

PowerUpdate ==
  LET idle == [r \in RankIds |->
                 IF rank_is_sref[r] THEN rank_idle_cycles[r]
                 ELSE IF IsAllBankIdleInRank(r) THEN Min({rank_idle_cycles[r] + 1, SrefThreshold})
                 ELSE 0] IN
    /\ phase = "power"
    /\ rank_idle_cycles' = idle
    /\ SelfRefresh(idle)
    /\ UNCHANGED <<config, refVars, queueVars, transq, write_draining, cmd_issued, sent>>

TransToCommand(t) ==
  LET type == IF t.is_write THEN (IF config.close_page THEN "WRITE_PRECHARGE" ELSE "WRITE")
                            ELSE (IF config.close_page THEN "READ_PRECHARGE" ELSE "READ") IN
    Cmd(type, Place[t.addr].bank, Place[t.addr].row, t.addr)

\* Faulty: one write too many is drained.
Draining_Plus == IF write_draining = 0 THEN Len(transq["write"]) + 1 ELSE write_draining

\* Writes that are drained from now on.
Draining ==
  LET n == Len(transq["write"]) IN
    IF write_draining = 0 /\ ~config.unified /\ (n >= TransQueueSize \/ (n > DrainMark /\ QueueEmpty))
    THEN n ELSE write_draining

\* One cycle passes.
ClockAdvance ==
  /\ bank' = [b \in Banks |-> Cycle(bank[b])]
  /\ four_aw' = [r \in RankIds |-> [i \in DOMAIN four_aw[r] |-> Later(four_aw[r][i] - 1, 0)]]
  /\ return_queue' = [i \in DOMAIN return_queue |-> [return_queue[i] EXCEPT !.left = Later(@ - 1, 0)]]
  /\ bus' = [n \in BusCycles |-> IF n + 1 \in BusCycles THEN bus[n + 1] ELSE 0]

\* The first transaction with a place in a command queue becomes a command, unless
\* it is a write and a read of its address waits: then the draining stops.
ScheduleTransaction ==
  LET k == IF config.unified THEN "unified" ELSE IF Draining > 0 THEN "write" ELSE "read"
      fits == {i \in DOMAIN transq[k] : WillAcceptCommand(Place[transq[k][i].addr].bank)}
      t == transq[k][Min(fits)]
      stops == ~config.unified /\ t.is_write /\ pending_rd[t.addr] > 0 IN
    /\ phase = "schedule"
    /\ IF fits = {} \/ stops
       THEN UNCHANGED <<queues, rank_q_empty, transq>>
       ELSE AddCommand(TransToCommand(t)) /\ transq' = [transq EXCEPT ![k] = RemoveAt(@, Min(fits))]
    /\ write_draining' = IF fits = {} THEN Draining
                         ELSE IF stops THEN 0
                         ELSE IF k = "write" THEN Draining - 1
                         ELSE Draining
    /\ ClockAdvance
    /\ phase' = "idle"
    /\ cmd_issued' = NoCmd
    /\ UNCHANGED <<config, refresh_q, rank_is_sref, refVars, rank_idle_cycles, queue_idx,
                   is_in_ref, ref_q_indices, pending_rd, pending_wr, sent>>

ClockTick == ReturnDoneTrans \/ FirstCommand \/ SecondCommand \/ PowerUpdate \/ ScheduleTransaction

Next == ClockTick \/ \E t \in Trans : AddTransaction(t)

\* The wrapper ticks the library every cycle, so a cycle always goes on.  The steps
\* of ClockTick are those that change phase, and one of them is always possible.
Tick == phase # "abort" /\ phase' \in Phases \ {phase}

Spec == Init /\ [][Next]_vars /\ WF_phase(Tick)

------------------------------------------------------------------------------
(* Properties.                                                             *)

\* Types: banks, queues and counters stay within their sizes.
TypeOK ==
  /\ config \in Configs
  /\ \A b \in Banks : /\ bank[b].state \in {"OPEN", "CLOSED", "SREF"}
                      /\ bank[b].row >= 0 <=> bank[b].state = "OPEN"
                      /\ bank[b].hits \in 0 .. RowHitLimit
  /\ \A q \in QueueIds : Len(queues[q]) <= CmdQueueSize
  /\ \A k \in DOMAIN transq : Len(transq[k]) <= TransQueueSize
  /\ queue_idx \in QueueIds
  /\ write_draining \in Nat
  /\ refreshClk \in 0 .. refresh_interval

\* No AbruptExit and no exit(1): a bank is only given commands its state takes, and
\* a read or a write that is issued is one that waits (bankstate.cc, controller.cc).
\* Not claimed for a rank that has to stay in self refresh for more than a cycle: a
\* command that comes before that ends in AbruptExit, since the wake-up of ClockTick
\* asks the bank for SREF_EXIT, which GetReadyCommand does not know in that state.
NoAbort == phase = "abort" => config.sref /\ T.tCKESR > 1

\* Two bursts are never on the data bus in the same cycle, whatever the banks and
\* ranks of the commands (the tables of timing.cc).
BusFree == \A n \in BusCycles : bus[n] <= 1

\* The transactions and the commands of one kind for an address.
Held(a, is_write) ==
  Cardinality({x \in (DOMAIN transq) \X (1 .. TransQueueSize) :
                 /\ x[2] \in DOMAIN transq[x[1]]
                 /\ transq[x[1]][x[2]] = [addr |-> a, is_write |-> is_write]})
  + Cardinality({x \in QueueIds \X (1 .. CmdQueueSize) :
                   /\ x[2] \in DOMAIN queues[x[1]]
                   /\ queues[x[1]][x[2]].addr = a
                   /\ (queues[x[1]][x[2]].type \in Writes) = is_write})

\* Column commands are never ready in one cycle.  Only then SecondCommand, which takes
\* a command out of its queue before it decides to issue it, loses none.
Apart ==
  \A c, d \in ReadWrite : /\ Ranks > 1 => other_ranks(c, d) > 0
                          /\ \A near \in BOOLEAN : other_banks(c, d, near) > 0
Lossless == config.dual => Apart

\* An address with reads or a write that wait has one transaction or command on its
\* way, and no other address has: none is lost and none is issued twice
\* (AddTransaction, ScheduleTransaction, GetCommandToIssue and IssueCommand).  Not
\* claimed for two commands in a cycle when the times let a write and a read of two
\* ranks be ready in one cycle, as those of HBM2 do: the read is lost.
Tracked ==
  Lossless => \A a \in Addrs : /\ Held(a, FALSE) = (IF pending_rd[a] > 0 THEN 1 ELSE 0)
                               /\ Held(a, TRUE) = (IF a \in pending_wr THEN 1 ELSE 0)

\* A refresh is over before the next one is asked for (refresh.cc), with requests in
\* every queue: the queues it stops give it the banks in time, if tREFI leaves room for
\* the commands on their way (8 cycles do here, 6 do not).  Not claimed for single
\* banks of a rank with several: timing.cc keeps their refreshes tREFI apart, while
\* refresh.cc asks for one every tREFIb cycles.
RefreshKeepsUp ==
  Len(refresh_q) > 1 => config.refresh = "BANK_STAGGERED" /\ BanksOfRank > 1

\* The drain never counts writes that are not there; it would keep the reads out for
\* good (ScheduleTransaction).
DrainBounded == write_draining <= Len(transq["write"])

\* A read is refused only when as many reads wait as the queue holds: what the
\* channels count on (WillAcceptTransaction; DramSim3).
RefusesOnlyWhenFull ==
  \A t \in Trans :
    ~t.is_write /\ ~config.unified /\ ~WillAcceptTransaction(t) =>
      Cardinality({a \in Addrs : pending_rd[a] > 0}) >= TransQueueSize

\* A write is issued only when no read of its address waits: reads that came before
\* it do not see its data (HasRWDependency, "Enforce R->W dependency").  In the queue
\* that reads and writes share this is the order of the commands, so that none may
\* be lost.
WriteAfterRead ==
  [][(config.unified => Lossless) =>
       \A a \in pending_wr \ pending_wr' : pending_rd[a] = 0]_vars

\* Every transaction that is accepted is answered once (MemoryPromise): AddTransaction
\* and IssueCommand lose none and answer none twice.
Waiting == [t \in Trans |-> IF t.is_write THEN 0 ELSE pending_rd[t.addr]]
Due == [t \in Trans |-> Len(SelectSeq(return_queue, LAMBDA x : x.addr = t.addr /\ x.is_write = t.is_write))]
Promise == INSTANCE MemoryPromise WITH waiting <- Waiting, due <- Due
Implements == Promise!Spec

\* A write waits for a read of its address that may itself wait for the writes.
Conflict == \E a \in pending_wr : pending_rd[a] > 0

\* Under steady ticks a read is answered, unless a write of an address that is being
\* read comes after it (the queues, the refreshes and the drain let it through).
ReadsReturn == \A a \in Addrs : pending_rd[a] > 0 ~> (pending_rd[a] = 0 \/ Conflict)

\* Under steady ticks every read is answered: the callback lets the caller know.
ReadsReturnAlways == \A a \in Addrs : pending_rd[a] > 0 ~> pending_rd[a] = 0
==============================================================================
