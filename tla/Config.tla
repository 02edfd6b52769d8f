------------------------------- MODULE Config -------------------------------
(***************************************************************************)
(* The address mapping of the DRAM library (DRAMsim3-master/src/           *)
(* configuration.cc).  A geometry g is what the .ini file gives: the sizes *)
(* of the parts and the order of the fields, most significant first.       *)
(***************************************************************************)
EXTENDS Integers, Sequences, FiniteSetsExt

Fields == {"ch", "ra", "bg", "ba", "ro", "co"}

\* The power of two below a positive number.
LogBase2(n) == CHOOSE k \in 0 .. n : 2^k <= n /\ n < 2^(k + 1)

ShiftBits(g) == LogBase2((g.bus_width \div 8) * g.BL)

FieldWidths(g) ==
  [ch |-> LogBase2(g.channels), ra |-> LogBase2(g.ranks), bg |-> LogBase2(g.bankgroups),
   ba |-> LogBase2(g.banks_per_group), ro |-> LogBase2(g.rows),
   co |-> LogBase2(g.columns) - LogBase2(g.BL)]

\* The last field of the mapping is the least significant.
FieldPos(g, f) ==
  LET at == CHOOSE i \in 1 .. 6 : g.mapping[i] = f IN
    MapThenSumSet(LAMBDA i : FieldWidths(g)[g.mapping[i]], at + 1 .. 6)

\* The part of the address that field f takes.
FieldOf(g, hex, f) ==
  ((hex \div 2^ShiftBits(g)) \div 2^FieldPos(g, f)) % 2^FieldWidths(g)[f]

AddressMapping(g, hex) == [f \in Fields |-> FieldOf(g, hex, f)]

GetChannel(g, hex) == FieldOf(g, hex, "ch")
==============================================================================
