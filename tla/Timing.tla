------------------------------- MODULE Timing -------------------------------
(***************************************************************************)
(* The commands of the DRAM library and the cycles that must pass between  *)
(* two of them (DRAMsim3-master/src/timing.cc, HBM).  A constraint says    *)
(* how long after command c command d may follow, by where the two banks   *)
(* lie; 0 stands for no constraint, and so does a negative difference.     *)
(***************************************************************************)
EXTENDS Integers, FiniteSetsExt

CONSTANTS
  BankGroups,  \* config.bankgroups
  T            \* the timing parameters of config, by name

\* Every time is a number of cycles.
ASSUME TimingAssumption ==
  /\ BankGroups \in Nat \ {0}
  /\ T.AL \in Nat /\ T.CL \in Nat /\ T.CWL \in Nat /\ T.burst_cycle \in Nat
  /\ T.tCCD_L \in Nat /\ T.tCCD_S \in Nat /\ T.tRTRS \in Nat /\ T.tRTP \in Nat
  /\ T.tRP \in Nat /\ T.tWTR_L \in Nat /\ T.tWTR_S \in Nat /\ T.tWR \in Nat
  /\ T.tRAS \in Nat /\ T.tRRD_L \in Nat /\ T.tRRD_S \in Nat /\ T.tRCDRD \in Nat
  /\ T.tRCDWR \in Nat /\ T.tRFC \in Nat /\ T.tREFI \in Nat /\ T.tREFIb \in Nat
  /\ T.tCKESR \in Nat /\ T.tXS \in Nat /\ T.tFAW \in Nat

\* A write that follows a read in a bank that has to be closed and opened in between
\* finds the read's data gone: so it is in every .ini file of the library.
ASSUME ReopenAssumption == T.CL <= T.AL + T.tRTP + T.tRP + T.tRCDWR + T.CWL

\* The later of two times.
Later(m, n) == IF m >= n THEN m ELSE n

Reads  == {"READ", "READ_PRECHARGE"}
Writes == {"WRITE", "WRITE_PRECHARGE"}
ReadWrite == Reads \cup Writes
RankCmds == {"REFRESH", "SREF_ENTER", "SREF_EXIT"}
Refreshes == {"REFRESH", "REFRESH_BANK"}
CommandType == ReadWrite \cup RankCmds \cup Refreshes \cup {"ACTIVATE", "PRECHARGE"}

RL == T.AL + T.CL
WL == T.AL + T.CWL
read_delay  == RL + T.burst_cycle
write_delay == WL + T.burst_cycle

read_to_precharge  == T.AL + T.tRTP
write_to_precharge == WL + T.burst_cycle + T.tWR
tRC == T.tRAS + T.tRP

\* With a single bank group the short constraints replace the long ones.
Far(near) == ~near \/ BankGroups = 1
ColumnGap(near) == Later(T.burst_cycle, IF Far(near) THEN T.tCCD_S ELSE T.tCCD_L)
WriteToRead(near) == write_delay + (IF Far(near) THEN T.tWTR_S ELSE T.tWTR_L)
ActivateGap(near) == IF Far(near) THEN T.tRRD_S ELSE T.tRRD_L

\* Between column commands of one rank.
DataGap(c, d, near) ==
  CASE c \in Reads  /\ d \in Writes -> RL + T.burst_cycle - WL + T.tRTRS
    [] c \in Writes /\ d \in Reads  -> WriteToRead(near)
    [] OTHER                        -> ColumnGap(near)

Closing == {"ACTIVATE", "REFRESH", "REFRESH_BANK", "SREF_ENTER"}

same_bank(c, d) ==
  CASE c \in {"READ", "WRITE"} /\ d \in ReadWrite -> DataGap(c, d, TRUE)
    [] c = "READ"  /\ d = "PRECHARGE" -> read_to_precharge
    [] c = "WRITE" /\ d = "PRECHARGE" -> write_to_precharge
    [] c = "READ_PRECHARGE" /\ d = "ACTIVATE" -> T.AL + T.burst_cycle + T.tRTP + T.tRP
    [] c = "READ_PRECHARGE" /\ d \in Closing \ {"ACTIVATE"} -> read_to_precharge + T.tRP
    [] c = "WRITE_PRECHARGE" /\ d \in Closing -> write_to_precharge + T.tRP
    [] c = "ACTIVATE" /\ d = "ACTIVATE" -> tRC
    [] c = "ACTIVATE" /\ d \in Reads -> T.tRCDRD
    [] c = "ACTIVATE" /\ d \in Writes -> T.tRCDWR
    [] c = "ACTIVATE" /\ d = "PRECHARGE" -> T.tRAS
    [] c = "PRECHARGE" /\ d \in Closing -> T.tRP
    [] OTHER -> 0

\* Other banks of the rank: near for the same bank group, far for another one.
other_banks(c, d, near) ==
  CASE c \in ReadWrite /\ d \in ReadWrite -> DataGap(c, d, near)
    [] c = "ACTIVATE" /\ d = "ACTIVATE" -> ActivateGap(near)
    [] c = "ACTIVATE" /\ d = "REFRESH_BANK" -> tRC
    [] c = "REFRESH_BANK" /\ d = "ACTIVATE" -> T.tRFC
    [] c = "REFRESH_BANK" /\ d = "REFRESH_BANK" -> T.tREFI
    [] OTHER -> 0

\* Faulty: any command to another rank waits for one burst.
other_ranks_Burst(c, d) ==
  IF c \in ReadWrite /\ d \in ReadWrite THEN T.burst_cycle ELSE 0

other_ranks(c, d) ==
  CASE c \in Reads  /\ d \in Reads  -> T.burst_cycle + T.tRTRS
    [] c \in Reads  /\ d \in Writes -> read_delay + T.burst_cycle + T.tRTRS - write_delay
    [] c \in Writes /\ d \in Reads  -> write_delay + T.burst_cycle + T.tRTRS - read_delay
    [] c \in Writes /\ d \in Writes -> T.burst_cycle
    [] OTHER -> 0

\* Commands to the whole rank.  The code has a row for REFRESH_BANK here too (tRFCb), but
\* UpdateTiming looks a command to one bank up in the other tables only.
same_rank(c, d) ==
  CASE c = "REFRESH" /\ d \in {"ACTIVATE", "REFRESH", "SREF_ENTER"} -> T.tRFC
    [] c = "SREF_ENTER" /\ d = "SREF_EXIT" -> T.tCKESR
    [] c = "SREF_EXIT" /\ d \in Closing -> T.tXS
    [] OTHER -> 0
==============================================================================
