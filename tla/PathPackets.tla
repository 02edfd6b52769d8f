---------------------------- MODULE PathPackets ----------------------------
(***************************************************************************)
(* The packets that the upstream buffers of main.cpp send: their buffer,   *)
(* port and address, and the channel to which the library maps them.       *)
(***************************************************************************)
EXTENDS UpBuffer, Sequences, FiniteSets, Functions

CONSTANTS
  QueueSize,  \* reads a channel of the library takes without refusing
  ChanOf      \* the channel to which the library maps an address

\* Packet 0 of a port is the one init() sends; the later ones all go to one
\* address, 8 * 64 further on.  main.cpp gives the buffers addresses from 0 in
\* steps of 16384.  Of Pool packets per port one is always free: at most MaxAsked
\* are in the channel and as many in the records or the responses of the arbiter.
Pool    == 2 * MaxAsked + 1
Packets == Buffers \X Ports \X (0 .. Pool)
PktUp   == [p \in Packets |-> p[1]]
PktBank == [p \in Packets |-> p[2]]
PktAddr == [p \in Packets |-> 16384 * p[1] + 64 * p[2] + (IF p[3] = 0 THEN 0 ELSE 512)]
IsWrite == [p \in Packets |-> FALSE]
Addrs   == {PktAddr[p] : p \in Packets}

\* main.cpp numbers its four buffers from 0, and the flag arrays of the arbiter
\* have room for no more; it gives the arbiter room for 10 reads per bank and the
\* library 32 entries; and port b of every buffer is connected to the channel to
\* which the library maps the addresses sent on it.
ASSUME PathAssumption ==
  /\ IsFiniteSet(Buffers) /\ Buffers = 0 .. Cardinality(Buffers) - 1
  /\ Cardinality(Buffers) \in 1 .. 5
  /\ QueueSize \in Nat /\ MaxAsked <= QueueSize
  /\ ChanOf \in [Addrs -> Ports]
  /\ \A p \in Packets : ChanOf[PktAddr[p]] = PktBank[p]
==============================================================================
