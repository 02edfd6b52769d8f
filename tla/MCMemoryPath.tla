---------------------------- MODULE MCMemoryPath ----------------------------
(* The memory path with the library configuration of main.cpp, for TLC.    *)
EXTENDS MemoryPath

\* HBM2_4Gb_x128.ini
Hbm2 ==
  [bus_width |-> 128, BL |-> 4, channels |-> 8, ranks |-> 2, bankgroups |-> 4,
   banks_per_group |-> 4, rows |-> 16384, columns |-> 64,
   mapping |-> <<"ro", "ra", "bg", "ba", "co", "ch">>]

Library == INSTANCE Config

MCChanOf == [a \in Addrs |-> Library!GetChannel(Hbm2, a)]
==============================================================================
