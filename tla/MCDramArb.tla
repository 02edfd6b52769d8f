------------------------------ MODULE MCDramArb ------------------------------
(***************************************************************************)
(* Small instances of DramArb.  A packet is given by a row                 *)
(* <<name, address, bank, upstream, is a write>>.                          *)
(***************************************************************************)
EXTENDS DramArb

Column(rows, i) == [p \in {r[1] : r \in rows} |-> (CHOOSE r \in rows : r[1] = p)[i]]

\* One bank, two upstreams reading the same address.
ReadRows == {<<"r1", "A", 0, 0, FALSE>>, <<"r2", "A", 0, 1, FALSE>>}

ReadPackets == {r[1] : r \in ReadRows}
ReadAddr    == Column(ReadRows, 2)
ReadBank    == Column(ReadRows, 3)
ReadUp      == Column(ReadRows, 4)
ReadWrite   == Column(ReadRows, 5)

\* One bank, two upstreams reading different addresses: neither is answered in
\* place of the other.
LiveRows == {<<"r2", "A", 0, 1, FALSE>>, <<"r3", "B", 0, 0, FALSE>>}

LivePackets == {r[1] : r \in LiveRows}
LiveAddr    == Column(LiveRows, 2)
LiveBank    == Column(LiveRows, 3)
LiveUp      == Column(LiveRows, 4)
LiveWrite   == Column(LiveRows, 5)

\* Two banks: both upstreams read one address of bank 1 and one of them another;
\* one of them writes to bank 0.
MixedRows ==
  {<<"r1", "A", 1, 0, FALSE>>, <<"r2", "A", 1, 1, FALSE>>,
   <<"r3", "B", 1, 0, FALSE>>, <<"w1", "A", 0, 1, TRUE>>}

MixedPackets == {r[1] : r \in MixedRows}
MixedAddr    == Column(MixedRows, 2)
MixedBank    == Column(MixedRows, 3)
MixedUp      == Column(MixedRows, 4)
MixedWrite   == Column(MixedRows, 5)

\* Two banks: both upstreams read from bank 0, one of them from bank 1.
TwoBankRows ==
  {<<"r1", "A", 0, 0, FALSE>>, <<"r2", "A", 0, 1, FALSE>>,
   <<"r3", "B", 1, 1, FALSE>>}

TwoBankPackets == {r[1] : r \in TwoBankRows}
TwoBankAddr    == Column(TwoBankRows, 2)
TwoBankBank    == Column(TwoBankRows, 3)
TwoBankUp      == Column(TwoBankRows, 4)
TwoBankWrite   == Column(TwoBankRows, 5)
==============================================================================
