---------------------------- MODULE ChannelState ----------------------------
(***************************************************************************)
(* The banks of one channel, its activation windows and its refreshes      *)
(* (DRAMsim3-master/src/channel_state.cc), and the unit that asks for the  *)
(* refreshes (refresh.cc).  A command is a record; one for a whole rank    *)
(* names the rank's first bank.  Banks are numbered as the library numbers *)
(* its queues: rank by rank, and group by group in a rank.                 *)
(***************************************************************************)
EXTENDS BankState, Sequences, SequencesExt

CONSTANTS
  Ranks,          \* config.ranks
  BanksPerGroup,  \* config.banks_per_group
  ActivateLimit   \* 4: activations in a window of tFAW cycles

\* A refresh is asked for every cycle at most.
ASSUME SizeAssumption ==
  /\ Ranks \in Nat \ {0} /\ BanksPerGroup \in Nat \ {0}
  /\ T.tREFI >= Ranks /\ T.tREFIb >= 1

VARIABLES
  config,            \* the settings that stay the same
  bank,              \* [bank] -> its state
  refresh_q,         \* refreshes asked for
  four_aw,           \* [rank] -> cycles until the last activations are forgotten
  rank_is_sref,      \* [rank]
  rank_idle_cycles,  \* [rank], counted up to the self-refresh threshold
  refreshClk,        \* cycles since the last refresh was asked for
  nextRefresh        \* the bank the next refresh is for

chanVars == <<bank, refresh_q, four_aw, rank_is_sref>>
refVars  == <<refreshClk, nextRefresh>>

BanksOfRank == BankGroups * BanksPerGroup
NumBanks == Ranks * BanksOfRank
Banks == 0 .. NumBanks - 1
RankIds == 0 .. Ranks - 1

RankOf(b) == b \div BanksOfRank
GroupOf(b) == b \div BanksPerGroup
InRank(r) == {b \in Banks : RankOf(b) = r}

Cmd(type, b, row, addr) == [type |-> type, bank |-> b, row |-> row, addr |-> addr]
NoCmd == Cmd("NONE", 0, -1, -1)
Valid(cmd) == cmd.type # "NONE"

ChannelInit ==
  /\ bank = [b \in Banks |-> ClosedBank]
  /\ refresh_q = <<>>
  /\ four_aw = [r \in RankIds |-> <<>>]
  /\ rank_is_sref = [r \in RankIds |-> FALSE]
  /\ rank_idle_cycles = [r \in RankIds |-> 0]
  /\ refreshClk = 0
  /\ nextRefresh = 0

IsAllBankIdleInRank(r) == \A b \in InRank(r) : bank[b].state # "OPEN"

ActivationWindowOk(r) == Len(four_aw[r]) < ActivateLimit \/ Head(four_aw[r]) = 0

\* A command to a rank is ready when all its banks are; a bank that needs another
\* command first (a precharge) comes before.  ready[b] is what bank b can take now.
RankCommand(cmd, ready) ==
  LET other == {b \in DOMAIN ready : ready[b] \notin {"NONE", cmd.type}} IN
    CASE other # {} -> Cmd(ready[Min(other)], Min(other), -1, cmd.addr)
      [] \A b \in DOMAIN ready : ready[b] = cmd.type -> cmd
      [] OTHER -> NoCmd

\* A command to a bank; an activation waits for the window of its rank.
BankCommand(cmd, t) ==
  IF t = "NONE" \/ (t = "ACTIVATE" /\ ~ActivationWindowOk(RankOf(cmd.bank)))
  THEN NoCmd
  ELSE [cmd EXCEPT !.type = t]

GetReadyCommand(cmd) ==
  IF cmd.type \in RankCmds
  THEN RankCommand(cmd, [b \in InRank(RankOf(cmd.bank)) |-> ReadyType(bank[b], cmd.type, cmd.row)])
  ELSE BankCommand(cmd, ReadyType(bank[cmd.bank], cmd.type, cmd.row))

\* The banks that a command changes.
Targets(cmd) == IF cmd.type \in RankCmds THEN InRank(RankOf(cmd.bank)) ELSE {cmd.bank}

\* Cycles between cmd and a command d to bank b.
GapTo(cmd, b, d) ==
  LET c == cmd.type IN
    IF c \in RankCmds THEN (IF b \in Targets(cmd) THEN same_rank(c, d) ELSE 0)
    ELSE IF b = cmd.bank THEN same_bank(c, d)
    ELSE IF RankOf(b) # RankOf(cmd.bank) THEN other_ranks(c, d)
    ELSE other_banks(c, d, GroupOf(b) = GroupOf(cmd.bank))

\* UpdateState of every bank concerned refuses the command: AbruptExit.
Refused(cmd) == \E b \in Targets(cmd) : cmd.type \notin Accepted[bank[b].state]

\* Faulty: the refresh stays in the queue.
RefreshDone_Kept(cmd) == refresh_q

\* The first refresh of the bank, or of the rank, leaves the queue.
RefreshDone(cmd) ==
  LET mine == {i \in DOMAIN refresh_q :
                 IF cmd.type = "REFRESH" THEN RankOf(refresh_q[i].bank) = RankOf(cmd.bank)
                                         ELSE refresh_q[i].bank = cmd.bank} IN
    IF mine = {} THEN refresh_q ELSE RemoveAt(refresh_q, Min(mine))

UpdateActivationTimes(r) ==
  LET kept == IF four_aw[r] # <<>> /\ Head(four_aw[r]) = 0 THEN Tail(four_aw[r]) ELSE four_aw[r] IN
    [four_aw EXCEPT ![r] = Append(kept, T.tFAW)]

\* IssueCommand ends here: the states change first, then the times.
UpdateTimingAndStates(cmd) ==
  LET r == RankOf(cmd.bank) IN
    /\ bank' = [b \in Banks |->
                  UpdateTiming(IF b \in Targets(cmd) THEN UpdateState(bank[b], cmd.type, cmd.row)
                                                     ELSE bank[b],
                               [d \in CommandType |-> GapTo(cmd, b, d)])]
    /\ refresh_q' = IF cmd.type \in Refreshes THEN RefreshDone(cmd) ELSE refresh_q
    /\ rank_is_sref' = [rank_is_sref EXCEPT
                          ![r] = IF cmd.type \in {"SREF_ENTER", "SREF_EXIT"}
                                 THEN cmd.type = "SREF_ENTER" ELSE @]
    /\ four_aw' = IF cmd.type = "ACTIVATE" THEN UpdateActivationTimes(r) ELSE four_aw

------------------------------------------------------------------------------
(* Refresh.                                                                *)

\* Banks are refreshed group by group: bank group first, then bank, then rank.
NextBank(b) ==
  LET r == RankOf(b)
      g == (b % BanksOfRank) \div BanksPerGroup
      k == b % BanksPerGroup
      g1 == (g + 1) % BankGroups
      k1 == IF g1 = 0 THEN (k + 1) % BanksPerGroup ELSE k
      r1 == IF g1 = 0 /\ k1 = 0 THEN (r + 1) % Ranks ELSE r IN
    r1 * BanksOfRank + g1 * BanksPerGroup + k1

NextRank(b) == ((RankOf(b) + 1) % Ranks) * BanksOfRank

\* Faulty: a rank that refreshes itself is asked too.
InsertRefresh_Asleep ==
  /\ refresh_q' = Append(refresh_q, Cmd("REFRESH", nextRefresh, -1, -1))
  /\ nextRefresh' = NextRank(nextRefresh)

\* The simultaneous policy stops after the first rank that does not refresh itself.
InsertRefresh ==
  LET awake == {b \in Banks : b % BanksOfRank = 0 /\ ~rank_is_sref[RankOf(b)]}
      ask(type, b) == Append(refresh_q, Cmd(type, b, -1, -1)) IN
    CASE config.refresh = "SIMULTANEOUS" ->
           /\ refresh_q' = IF awake = {} THEN refresh_q ELSE ask("REFRESH", Min(awake))
           /\ UNCHANGED nextRefresh
      [] config.refresh = "RANK_STAGGERED" ->
           /\ refresh_q' = IF nextRefresh \in awake THEN ask("REFRESH", nextRefresh) ELSE refresh_q
           /\ nextRefresh' = NextRank(nextRefresh)
      [] config.refresh = "BANK_STAGGERED" ->
           /\ refresh_q' = IF rank_is_sref[RankOf(nextRefresh)] THEN refresh_q
                                                 ELSE ask("REFRESH_BANK", nextRefresh)
           /\ nextRefresh' = NextBank(nextRefresh)

refresh_interval ==
  CASE config.refresh = "SIMULTANEOUS"   -> T.tREFI
    [] config.refresh = "BANK_STAGGERED" -> T.tREFIb
    [] OTHER                             -> T.tREFI \div Ranks

RefreshClockTick ==
  IF refreshClk = refresh_interval
  THEN InsertRefresh /\ refreshClk' = 1
  ELSE refreshClk' = refreshClk + 1 /\ UNCHANGED <<refresh_q, nextRefresh>>
==============================================================================
