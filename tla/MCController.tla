---------------------------- MODULE MCController ----------------------------
EXTENDS Controller

MCTiming ==
  [AL |-> 0, CL |-> 2, CWL |-> 1, burst_cycle |-> 1, tCCD_L |-> 2, tCCD_S |-> 1, tRTRS |-> 1,
   tRTP |-> 1, tRP |-> 1, tWTR_L |-> 1, tWTR_S |-> 1, tWR |-> 1, tRAS |-> 2, tRRD_L |-> 1,
   tRRD_S |-> 1, tRCDRD |-> 2, tRCDWR |-> 1, tRFC |-> 2, tREFI |-> 8, tREFIb |-> 4, tCKESR |-> 1, tXS |-> 1,
   tFAW |-> 4]

MCGeometry ==
  [bus_width |-> 8, BL |-> 1, channels |-> 1, ranks |-> 2, bankgroups |-> 1, banks_per_group |-> 1,
   rows |-> 2, columns |-> 2, mapping |-> <<"ro", "ra", "bg", "ba", "co", "ch">>]

Hbm == [unified |-> FALSE, close_page |-> FALSE, refresh |-> "RANK_STAGGERED", dual |-> TRUE,
        per_rank |-> FALSE, sref |-> FALSE]
Plain == [unified |-> TRUE, close_page |-> TRUE, refresh |-> "SIMULTANEOUS", dual |-> FALSE,
          per_rank |-> TRUE, sref |-> TRUE]
PerBank == [unified |-> FALSE, close_page |-> TRUE, refresh |-> "BANK_STAGGERED", dual |-> TRUE,
            per_rank |-> FALSE, sref |-> FALSE]
MCConfigs == {Hbm, Plain, PerBank}
MainConfig == {Hbm}
MCAddrs == {0, 2, 4}
==============================================================================
