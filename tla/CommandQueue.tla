---------------------------- MODULE CommandQueue ----------------------------
(***************************************************************************)
(* The command queues of a channel (DRAMsim3-master/src/command_queue.cc), *)
(* one for each bank or one for each rank, served round robin.             *)
(***************************************************************************)
EXTENDS ChannelState

CONSTANT CmdQueueSize  \* config.cmd_queue_size

ASSUME QueueAssumption == CmdQueueSize \in Nat

VARIABLES
  queues,         \* [queue] -> read and write commands
  queue_idx,      \* the queue served last
  is_in_ref,      \* a refresh waits for its banks
  ref_q_indices,  \* the queues it stops
  rank_q_empty    \* [rank] -> no command was ever queued

queueVars == <<queues, queue_idx, is_in_ref, ref_q_indices, rank_q_empty>>

NumQueues == IF config.per_rank THEN Ranks ELSE NumBanks
QueueIds == 0 .. NumQueues - 1
GetQueueIndex(b) == IF config.per_rank THEN RankOf(b) ELSE b

QueueInit ==
  /\ queues = [q \in QueueIds |-> <<>>]
  /\ queue_idx = 0
  /\ is_in_ref = FALSE
  /\ ref_q_indices = {}
  /\ rank_q_empty = [r \in RankIds |-> TRUE]

\* Faulty: one command too many.
WillAcceptCommand_Late(b) == Len(queues[GetQueueIndex(b)]) <= CmdQueueSize

\* Faulty: two places are kept free.
WillAcceptCommand_Early(b) == Len(queues[GetQueueIndex(b)]) + 2 < CmdQueueSize

WillAcceptCommand(b) == Len(queues[GetQueueIndex(b)]) < CmdQueueSize
QueueEmpty == \A q \in QueueIds : queues[q] = <<>>

AddCommand(cmd) ==
  /\ queues' = [queues EXCEPT ![GetQueueIndex(cmd.bank)] = Append(@, cmd)]
  /\ rank_q_empty' = [rank_q_empty EXCEPT ![RankOf(cmd.bank)] = FALSE]

\* The i-th command of the queue may close its bank: no earlier command is for the
\* bank, and no later one for the row that is open, or enough were served.
ArbitratePrecharge(q, i) ==
  LET b == q[i].bank IN
    /\ \A j \in 1 .. i - 1 : q[j].bank # b
    /\ \/ \A j \in i .. Len(q) : ~(q[j].bank = b /\ q[j].row = bank[b].row)
       \/ bank[b].hits >= RowHitLimit

\* Faulty: a write does not wait for the reads before it.
HasRWDependency_No(q, i) == FALSE

\* A read of the same place is before the write.
HasRWDependency(q, i) ==
  \E j \in 1 .. i - 1 : q[j].type \in Reads /\ q[j].addr = q[i].addr

\* The first command that may be issued; ready[i] is what the i-th one needs now.
FirstUsable(q, ready) ==
  LET pass(i) == CASE ready[i].type = "PRECHARGE" -> ArbitratePrecharge(q, i)
                   [] ready[i].type \in Writes    -> ~HasRWDependency(q, i)
                   [] OTHER                       -> Valid(ready[i])
      usable == {i \in DOMAIN q : pass(i)} IN
    IF usable = {} THEN NoCmd ELSE ready[Min(usable)]

GetFirstReadyInQueue(q) == FirstUsable(q, [i \in DOMAIN q |-> GetReadyCommand(q[i])])

\* The queues that a refresh stops.
GetRefQIndices(ref) ==
  IF ref.type = "REFRESH"
  THEN {GetQueueIndex(b) : b \in InRank(RankOf(ref.bank))}
  ELSE {GetQueueIndex(ref.bank)}

\* A read or write command that is given out leaves its queue.
EraseRWCommand(q, cmd) ==
  LET same == {j \in DOMAIN q : q[j].addr = cmd.addr /\ q[j].type = cmd.type} IN
    IF cmd.type \in ReadWrite THEN RemoveAt(q, Min(same)) ELSE q

CommandFrom(q, cmd) ==
  [cmd |-> cmd, idx |-> q, queues |-> [queues EXCEPT ![q] = EraseRWCommand(@, cmd)]]

\* The round of the queues: the command, the queue that gives it, and the queues
\* without it.  Without a command the round ends where it began.
GetCommandToIssue(stopped) ==
  LET at(i) == (queue_idx + i) % NumQueues
      found == {i \in 1 .. NumQueues :
                  at(i) \notin stopped /\ Valid(GetFirstReadyInQueue(queues[at(i)]))}
      q == at(Min(found)) IN
    IF found = {}
    THEN [cmd |-> NoCmd, idx |-> queue_idx, queues |-> queues]
    ELSE CommandFrom(q, GetFirstReadyInQueue(queues[q]))
==============================================================================
