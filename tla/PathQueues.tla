----------------------------- MODULE PathQueues -----------------------------
(***************************************************************************)
(* The queues that the packets of the memory path go through, as the       *)
(* proofs speak of them: the input queues of one bank, the reads in one    *)
(* channel, and how one step changes them.                                 *)
(***************************************************************************)
EXTENDS PathPackets, QueueFacts

\* A response to read pkt for buffer up.
Records == [pkt : Packets, up : Buffers]

\* The reads in the input queues f of a bank and the reads g in the channel.
Waits(f, g) == {p \in Packets : p \in g \/ \E u \in Buffers : p \in Range(f[u])}

\* The queues f2 are f after p was added for u; after the head for u was taken.
Adds(f, u, p, f2) ==
  f2[u] = Append(f[u], p) /\ \A v \in Buffers : v # u => f2[v] = f[v]
Takes(f, u, f2) ==
  f[u] # <<>> /\ f2[u] = Tail(f[u]) /\ \A v \in Buffers : v # u => f2[v] = f[v]
NotQueued(f, p) == \A u \in Buffers : p \notin Range(f[u])

\* Only bank b changes in f.
Only(f, f2, b) == \A c \in Ports : c # b => f2[c] = f[c]

\* The packets of the responses r.
PktsOf(r) == {r[i].pkt : i \in DOMAIN r}

\* The packets of u in U, and the places of the responses to u in r.
Mine(U, u) == {p \in U : p[1] = u}
ToUp(r, u) == {i \in DOMAIN r : r[i].up = u}

\* The reads of u that a bank holds, with input queues f, packets g in the channel
\* and responses r.
Count(f, g, r, u) == Cardinality(Mine(Waits(f, g), u)) + Cardinality(ToUp(r, u))

\* Every buffer waits for the reads of it that the banks hold.
Counted(A, F, G, R) ==
  \A b \in Ports, u \in Buffers : A[u][b] = Count(F[b], G[b], R[b], u)

\* The reads g the arbiter believes in the channel are those in the records q
\* and the responses r of the channel; each is there once.
Carries(g, q, r) ==
  /\ q \in [Addrs -> Seq(Packets)] /\ r \in Seq(Packets) /\ Distinct(r)
  /\ \A a \in Addrs :
       /\ Distinct(q[a])
       /\ \A p \in Range(q[a]) : PktAddr[p] = a /\ p \notin Range(r)
  /\ g = {p \in Packets : p \in Range(q[PktAddr[p]]) \cup Range(r)}

\* The reads of channel c that the library holds, n[a] of them for address a.
HeldBy(n, c) == UNION {{a} \X (1 .. n[a]) : a \in {b \in Addrs : ChanOf[b] = c}}
==============================================================================
