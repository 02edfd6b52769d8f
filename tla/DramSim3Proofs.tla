--------------------------- MODULE DramSim3Proofs ---------------------------
(***************************************************************************)
(* The memory channels of dramsim3.cpp keep their assertions, whatever the *)
(* packets, the channels and the addresses are, as long as the arbiter     *)
(* sends each packet to the channel the library maps its address to, and   *)
(* nothing on a port that owes it a retry.                                 *)
(***************************************************************************)
EXTENDS DramSim3, FiniteSetTheorems, TLAPS

\* The wiring of main.cpp: the arbiter's bank and the library's channel agree.
Routed == \A p \in Packets : ChanOf[PktAddr[p]] = PktChan[p]

------------------------------------------------------------------------------
(* Counting what the library holds.                                        *)

LEMMA HeldElements ==
  ASSUME NEW n, NEW c, NEW x
  PROVE  x \in Held(n, c) <=>
           \E a \in Addrs : ChanOf[a] = c /\ \E i \in 1 .. n[a] : x = <<a, i>>
BY DEF Held

LEMMA HeldAdd ==
  ASSUME NEW n \in [Addrs -> Nat], NEW n2 \in [Addrs -> Nat], NEW a \in Addrs, NEW c,
         n2[a] = n[a] + 1, \A b \in Addrs : b # a => n2[b] = n[b],
         IsFiniteSet(Held(n, c))
  PROVE  /\ IsFiniteSet(Held(n2, c))
         /\ Pending(n2, c) = IF ChanOf[a] = c THEN Pending(n, c) + 1 ELSE Pending(n, c)
<1>0. n[a] \in Nat
  OBVIOUS
<1>1. CASE ChanOf[a] = c
  <2>1. <<a, n[a] + 1>> \notin Held(n, c)
    BY <1>0, HeldElements
  <2>2. Held(n2, c) = Held(n, c) \cup {<<a, n[a] + 1>>}
    <3>1. ASSUME NEW x \in Held(n2, c) PROVE x \in Held(n, c) \cup {<<a, n[a] + 1>>}
      <4>1. PICK b \in Addrs : ChanOf[b] = c /\ \E i \in 1 .. n2[b] : x = <<b, i>>
        BY <3>1, HeldElements
      <4>2. PICK i \in 1 .. n2[b] : x = <<b, i>>
        BY <4>1
      <4>3. i \in 1 .. n[b] \/ (b = a /\ i = n[a] + 1)
        BY <1>0
      <4> QED
        BY <4>1, <4>2, <4>3, HeldElements
    <3>2. ASSUME NEW x \in Held(n, c) PROVE x \in Held(n2, c)
      <4>1. PICK b \in Addrs : ChanOf[b] = c /\ \E i \in 1 .. n[b] : x = <<b, i>>
        BY <3>2, HeldElements
      <4>2. PICK i \in 1 .. n[b] : x = <<b, i>>
        BY <4>1
      <4>3. i \in 1 .. n2[b]
        BY <1>0
      <4> QED
        BY <4>1, <4>2, <4>3, HeldElements
    <3>3. <<a, n[a] + 1>> \in Held(n2, c)
      <4>1. n[a] + 1 \in 1 .. n2[a]
        BY <1>0
      <4> QED
        BY <1>1, <4>1, HeldElements
    <3> QED
      BY <3>1, <3>2, <3>3
  <2> QED
    <3>1. /\ IsFiniteSet(Held(n, c) \cup {<<a, n[a] + 1>>})
          /\ Cardinality(Held(n, c) \cup {<<a, n[a] + 1>>}) = Cardinality(Held(n, c)) + 1
      BY <2>1, FS_AddElement, Zenon
    <3> QED
      BY <1>1, <2>2, <3>1 DEF Pending
<1>2. CASE ChanOf[a] # c
  <2>1. ASSUME NEW x PROVE x \in Held(n2, c) <=> x \in Held(n, c)
    <3>1. ASSUME NEW b \in Addrs, ChanOf[b] = c PROVE n2[b] = n[b]
      BY <1>0, <1>2, <3>1
    <3> QED
      BY <3>1, HeldElements
  <2>2. Held(n2, c) = Held(n, c)
    BY <2>1, ZenonT(30)
  <2> QED
    BY <1>2, <2>2 DEF Pending
<1> QED
  BY <1>1, <1>2

LEMMA HeldRemove ==
  ASSUME NEW n \in [Addrs -> Nat], NEW n2 \in [Addrs -> Nat], NEW a \in Addrs, NEW c,
         n[a] = n2[a] + 1, \A b \in Addrs : b # a => n2[b] = n[b],
         IsFiniteSet(Held(n, c))
  PROVE  /\ IsFiniteSet(Held(n2, c))
         /\ Pending(n, c) = IF ChanOf[a] = c THEN Pending(n2, c) + 1 ELSE Pending(n2, c)
<1>2. \A x : x \in Held(n2, c) => x \in Held(n, c)
  <2>1. ASSUME NEW x \in Held(n2, c) PROVE x \in Held(n, c)
    <3>1. PICK b \in Addrs : ChanOf[b] = c /\ \E i \in 1 .. n2[b] : x = <<b, i>>
      BY <2>1, HeldElements
    <3>2. PICK i \in 1 .. n2[b] : x = <<b, i>>
      BY <3>1
    <3>3. i \in 1 .. n[b]
      OBVIOUS
    <3> QED
      BY <3>1, <3>2, <3>3, HeldElements
  <2> QED
    BY <2>1
<1>3. IsFiniteSet(Held(n2, c))
  BY <1>2, FS_Subset
<1> QED
  BY <1>3, HeldAdd

------------------------------------------------------------------------------
(* The records of one kind of transaction, against the library's.          *)

Queues == [Chans -> [Addrs -> Seq(Packets)]]
Counted(n) == \A c \in Chans : IsFiniteSet(Held(n, c))

LEMMA LenAppend ==
  ASSUME NEW S, NEW s \in Seq(S), NEW e \in S
  PROVE  Append(s, e) \in Seq(S) /\ Append(s, e) # <<>> /\ Len(Append(s, e)) = Len(s) + 1
<1>1. Append(s, e) \in Seq(S) /\ Len(Append(s, e)) = Len(s) + 1 /\ Len(s) \in Nat
  OBVIOUS
<1>2. Append(s, e) # <<>>
  BY <1>1, Len(<<>>) = 0
<1> QED
  BY <1>1, <1>2

LEMMA LenTail ==
  ASSUME NEW S, NEW s \in Seq(S), s # <<>>
  PROVE  Tail(s) \in Seq(S) /\ Len(Tail(s)) = Len(s) - 1
OBVIOUS

\* Of two states of the records, queue q2 has one more at <<d, a>> than q, the
\* counters k2 and n2 too.
OneMore(q, k, n, q2, k2, n2, d, a) ==
  /\ q \in Queues /\ k \in [Chans -> Nat] /\ n \in [Addrs -> Nat]
  /\ q2 \in Queues /\ k2 \in [Chans -> Nat] /\ n2 \in [Addrs -> Nat]
  /\ a \in Addrs /\ d \in Chans /\ ChanOf[a] = d
  /\ Len(q2[d][a]) = Len(q[d][a]) + 1 /\ k2[d] = k[d] + 1 /\ n2[a] = n[a] + 1
  /\ \A c \in Chans, b \in Addrs : ~(c = d /\ b = a) => q2[c][b] = q[c][b]
  /\ \A c \in Chans : c # d => k2[c] = k[c]
  /\ \A b \in Addrs : b # a => n2[b] = n[b]

LEMMA MatchOneMore ==
  ASSUME NEW q, NEW k, NEW n, NEW q2, NEW k2, NEW n2, NEW d, NEW a,
         OneMore(q, k, n, q2, k2, n2, d, a)
  PROVE  /\ Counted(n) /\ Matches(q, k, n) => Counted(n2) /\ Matches(q2, k2, n2)
         /\ Counted(n2) /\ Matches(q2, k2, n2) => Counted(n) /\ Matches(q, k, n)
<1>a. /\ n \in [Addrs -> Nat] /\ n2 \in [Addrs -> Nat] /\ a \in Addrs /\ ChanOf[a] = d
      /\ n2[a] = n[a] + 1 /\ \A b \in Addrs : b # a => n2[b] = n[b]
  BY DEF OneMore
<1>1. ASSUME NEW c \in Chans
      PROVE  /\ IsFiniteSet(Held(n, c)) <=> IsFiniteSet(Held(n2, c))
             /\ IsFiniteSet(Held(n, c)) =>
                  /\ Pending(n, c) \in Nat
                  /\ Pending(n2, c) = IF d = c THEN Pending(n, c) + 1 ELSE Pending(n, c)
  <2>1. ASSUME IsFiniteSet(Held(n, c))
        PROVE  /\ IsFiniteSet(Held(n2, c))
               /\ Pending(n2, c) = IF d = c THEN Pending(n, c) + 1 ELSE Pending(n, c)
    BY <1>a, <2>1, HeldAdd
  <2>2. ASSUME IsFiniteSet(Held(n2, c)) PROVE IsFiniteSet(Held(n, c))
    BY <1>a, <2>2, HeldRemove
  <2>3. ASSUME IsFiniteSet(Held(n, c)) PROVE Pending(n, c) \in Nat
    BY <2>3, FS_CardinalityType DEF Pending
  <2> QED
    BY <2>1, <2>2, <2>3
<1> USE DEF OneMore
<1>2. Counted(n) <=> Counted(n2)
  BY <1>1 DEF Counted
<1>3. ASSUME Counted(n), NEW c \in Chans
      PROVE  k[c] = Pending(n, c) <=> k2[c] = Pending(n2, c)
  <2>1. /\ Pending(n, c) \in Nat /\ k[c] \in Nat
        /\ Pending(n2, c) = IF d = c THEN Pending(n, c) + 1 ELSE Pending(n, c)
        /\ k2[c] = IF d = c THEN k[c] + 1 ELSE k[c]
    BY <1>1, <1>3, SMT, ZenonT(30) DEF Counted
  <2> QED
    BY <2>1
<1>4. ASSUME NEW c \in Chans, NEW b \in Addrs
      PROVE  Len(q[c][b]) = (IF ChanOf[b] = c THEN n[b] ELSE 0)
             <=> Len(q2[c][b]) = (IF ChanOf[b] = c THEN n2[b] ELSE 0)
  <2>1. q[c][b] \in Seq(Packets) /\ Len(q[c][b]) \in Nat
    BY DEF Queues
  <2>2. CASE c = d /\ b = a
    BY <2>1, <2>2, SMT, ZenonT(30)
  <2>3. CASE ~(c = d /\ b = a)
    <3>1. q2[c][b] = q[c][b] /\ (ChanOf[b] = c => n2[b] = n[b])
      BY <2>3
    <3> QED
      BY <3>1
  <2> QED
    BY <2>2, <2>3
<1> QED
  BY <1>2, <1>3, <1>4 DEF Matches

LEMMA PutPoint ==
  ASSUME NEW A, NEW B, NEW S, NEW f \in [A -> [B -> S]], NEW a \in A, NEW b \in B,
         NEW v \in S, NEW g, g = [f EXCEPT ![a][b] = v]
  PROVE  /\ g \in [A -> [B -> S]] /\ g[a][b] = v
         /\ \A c \in A, e \in B : ~(c = a /\ e = b) => g[c][e] = f[c][e]
OBVIOUS

LEMMA SetPoint ==
  ASSUME NEW A, NEW S, NEW f \in [A -> S], NEW a \in A,
         NEW v \in S, NEW g, g = [f EXCEPT ![a] = v]
  PROVE  g \in [A -> S] /\ g[a] = v /\ \A c \in A : c # a => g[c] = f[c]
OBVIOUS

LEMMA Appended ==
  ASSUME NEW q \in Queues, NEW k \in [Chans -> Nat], NEW n \in [Addrs -> Nat],
         NEW a \in Addrs, NEW d \in Chans, ChanOf[a] = d, NEW p \in Packets,
         NEW q2, q2 = [q EXCEPT ![d][a] = Append(@, p)],
         NEW k2, k2 = [k EXCEPT ![d] = @ + 1],
         NEW n2, n2 = [n EXCEPT ![a] = @ + 1]
  PROVE  OneMore(q, k, n, q2, k2, n2, d, a) /\ q2[d][a] = Append(q[d][a], p)
<1>1. q[d][a] \in Seq(Packets) /\ Append(q[d][a], p) \in Seq(Packets)
  BY DEF Queues
<1>2. /\ q2 \in Queues /\ q2[d][a] = Append(q[d][a], p)
      /\ \A c \in Chans, b \in Addrs : ~(c = d /\ b = a) => q2[c][b] = q[c][b]
  BY <1>1, PutPoint DEF Queues
<1>3. Len(q2[d][a]) = Len(q[d][a]) + 1
  <2>1. Len(Append(q[d][a], p)) = Len(q[d][a]) + 1
    BY <1>1, LenAppend, Zenon
  <2> QED
    BY <1>2, <2>1, Zenon
<1>4. /\ k2 \in [Chans -> Nat] /\ k2[d] = k[d] + 1
      /\ \A c \in Chans : c # d => k2[c] = k[c]
  OBVIOUS
<1>5. /\ n2 \in [Addrs -> Nat] /\ n2[a] = n[a] + 1
      /\ \A b \in Addrs : b # a => n2[b] = n[b]
  OBVIOUS
<1> QED
  BY <1>2, <1>3, <1>4, <1>5, Zenon DEF OneMore

LEMMA Predecessor ==
  ASSUME NEW x \in Nat, x # 0
  PROVE  x - 1 \in Nat /\ x = (x - 1) + 1
OBVIOUS

LEMMA Removed ==
  ASSUME NEW q \in Queues, NEW k \in [Chans -> Nat], NEW n \in [Addrs -> Nat],
         NEW a \in Addrs, NEW d \in Chans, ChanOf[a] = d,
         q[d][a] # <<>>, k[d] # 0, n[a] > 0,
         NEW q2, q2 = [q EXCEPT ![d][a] = Tail(@)],
         NEW k2, k2 = [k EXCEPT ![d] = @ - 1],
         NEW n2, n2 = [n EXCEPT ![a] = @ - 1]
  PROVE  OneMore(q2, k2, n2, q, k, n, d, a) /\ q2[d][a] = Tail(q[d][a])
<1>1. /\ q[d][a] \in Seq(Packets) /\ Tail(q[d][a]) \in Seq(Packets)
      /\ Len(q[d][a]) = Len(Tail(q[d][a])) + 1
  <2>1. q[d][a] \in Seq(Packets)
    BY DEF Queues
  <2> QED
    BY <2>1, LenTail
<1>2. /\ q2 \in Queues /\ q2[d][a] = Tail(q[d][a])
      /\ \A c \in Chans, b \in Addrs : ~(c = d /\ b = a) => q[c][b] = q2[c][b]
  BY <1>1, PutPoint DEF Queues
<1>3. Len(q[d][a]) = Len(q2[d][a]) + 1
  BY <1>1, <1>2, Zenon
<1>4. /\ k2 \in [Chans -> Nat] /\ k[d] = k2[d] + 1
      /\ \A c \in Chans : c # d => k[c] = k2[c]
  <2>1. k[d] - 1 \in Nat /\ k[d] = (k[d] - 1) + 1
    BY Predecessor, Zenon
  <2> QED
    BY <2>1, SetPoint, Zenon
<1>5. /\ n2 \in [Addrs -> Nat] /\ n[a] = n2[a] + 1
      /\ \A b \in Addrs : b # a => n[b] = n2[b]
  <2>1. n[a] - 1 \in Nat /\ n[a] = (n[a] - 1) + 1
    OBVIOUS
  <2> QED
    BY <2>1, SetPoint, Zenon
<1> QED
  BY <1>2, <1>3, <1>4, <1>5, Zenon DEF OneMore

\* The records q and k of one kind are right for the transactions n.
Records(q, k, n) ==
  /\ q \in Queues /\ k \in [Chans -> Nat] /\ n \in [Addrs -> Nat]
  /\ Counted(n) /\ Matches(q, k, n)

LEMMA RecordsAdd ==
  ASSUME NEW q, NEW k, NEW n, Records(q, k, n),
         NEW a \in Addrs, NEW d \in Chans, ChanOf[a] = d, NEW p \in Packets,
         NEW q2, q2 = [q EXCEPT ![d][a] = Append(@, p)],
         NEW k2, k2 = [k EXCEPT ![d] = @ + 1],
         NEW n2, n2 = [n EXCEPT ![a] = @ + 1]
  PROVE  Records(q2, k2, n2)
<1>0. /\ q \in Queues /\ k \in [Chans -> Nat] /\ n \in [Addrs -> Nat]
      /\ Counted(n) /\ Matches(q, k, n)
  BY DEF Records
<1>1. OneMore(q, k, n, q2, k2, n2, d, a)
  BY <1>0, Appended, Zenon
<1>2. Counted(n2) /\ Matches(q2, k2, n2)
  BY <1>0, <1>1, MatchOneMore
<1> QED
  BY <1>1, <1>2, Zenon DEF OneMore, Records

LEMMA RecordsFound ==
  ASSUME NEW q, NEW k, NEW n, Records(q, k, n),
         NEW a \in Addrs, NEW d \in Chans, ChanOf[a] = d, n[a] > 0
  PROVE  q[d][a] # <<>> /\ k[d] # 0
<1>0. /\ q \in Queues /\ k \in [Chans -> Nat] /\ n \in [Addrs -> Nat]
      /\ IsFiniteSet(Held(n, d)) /\ k[d] = Pending(n, d) /\ Len(q[d][a]) = n[a]
  BY DEF Records, Counted, Matches
<1>1. q[d][a] # <<>>
  <2>1. q[d][a] \in Seq(Packets)
    BY <1>0 DEF Queues
  <2> QED
    BY <1>0, <2>1
<1>2. <<a, 1>> \in Held(n, d)
  <2>1. 1 \in 1 .. n[a]
    BY <1>0
  <2> QED
    BY <2>1, HeldElements
<1>3. Pending(n, d) # 0
  BY <1>0, <1>2, FS_EmptySet DEF Pending
<1> QED
  BY <1>0, <1>1, <1>3

LEMMA RecordsRemove ==
  ASSUME NEW q, NEW k, NEW n, Records(q, k, n),
         NEW a \in Addrs, NEW d \in Chans, ChanOf[a] = d, n[a] > 0,
         NEW q2, q2 = [q EXCEPT ![d][a] = Tail(@)],
         NEW k2, k2 = [k EXCEPT ![d] = @ - 1],
         NEW n2, n2 = [n EXCEPT ![a] = @ - 1]
  PROVE  Records(q2, k2, n2)
<1>0. /\ q \in Queues /\ k \in [Chans -> Nat] /\ n \in [Addrs -> Nat]
      /\ Counted(n) /\ Matches(q, k, n)
  BY DEF Records
<1>1. q[d][a] # <<>> /\ k[d] # 0
  BY RecordsFound, Zenon
<1>2. OneMore(q2, k2, n2, q, k, n, d, a)
  BY <1>0, <1>1, Removed, Zenon
<1>3. Counted(n2) /\ Matches(q2, k2, n2)
  BY <1>0, <1>2, MatchOneMore
<1> QED
  BY <1>2, <1>3, Zenon DEF OneMore, Records

\* A read is recorded under its own address.
Placed(q) ==
  \A c \in Chans, a \in Addrs : \A i \in 1 .. Len(q[c][a]) : PktAddr[q[c][a][i]] = a

LEMMA PlacedAdd ==
  ASSUME NEW q \in Queues, Placed(q), NEW d \in Chans, NEW p \in Packets,
         NEW a \in Addrs, a = PktAddr[p],
         NEW q2, q2 = [q EXCEPT ![d][a] = Append(@, p)]
  PROVE  Placed(q2)
<1>1. q[d][a] \in Seq(Packets) /\ Append(q[d][a], p) \in Seq(Packets)
  BY DEF Queues
<1>2. \A c \in Chans, b \in Addrs :
        q2[c][b] = IF c = d /\ b = a THEN Append(q[d][a], p) ELSE q[c][b]
  BY <1>1, PutPoint DEF Queues
<1>3. \A i \in 1 .. Len(Append(q[d][a], p)) : PktAddr[Append(q[d][a], p)[i]] = a
  BY <1>1, SMT, ZenonT(30) DEF Placed
<1>4. ASSUME NEW c \in Chans, NEW b \in Addrs, NEW i \in 1 .. Len(q2[c][b])
      PROVE  PktAddr[q2[c][b][i]] = b
  BY <1>2, <1>3 DEF Placed
<1> QED
  BY <1>4, Zenon DEF Placed

LEMMA PlacedRemove ==
  ASSUME NEW q \in Queues, Placed(q), NEW d \in Chans, NEW a \in Addrs, q[d][a] # <<>>,
         NEW q2, q2 = [q EXCEPT ![d][a] = Tail(@)]
  PROVE  Placed(q2)
<1>1. q[d][a] \in Seq(Packets) /\ Tail(q[d][a]) \in Seq(Packets)
  BY LenTail DEF Queues
<1>2. \A c \in Chans, b \in Addrs :
        q2[c][b] = IF c = d /\ b = a THEN Tail(q[d][a]) ELSE q[c][b]
  BY <1>1, PutPoint DEF Queues
<1>3. \A i \in 1 .. Len(Tail(q[d][a])) : PktAddr[Tail(q[d][a])[i]] = a
  BY <1>1, SMT, ZenonT(30) DEF Placed
<1>4. ASSUME NEW c \in Chans, NEW b \in Addrs, NEW i \in 1 .. Len(q2[c][b])
      PROVE  PktAddr[q2[c][b][i]] = b
  BY <1>2, <1>3 DEF Placed
<1> QED
  BY <1>4, Zenon DEF Placed

------------------------------------------------------------------------------
(* The inductive invariant, in three parts that share no variable.         *)

ReadsOK ==
  /\ Records(outstandingReads, nbrOutstandingReads, dramReads)
  /\ Placed(outstandingReads)
WritesOK == Records(outstandingWrites, nbrOutstandingWrites, dramWrites)

FlagType ==
  /\ retryReq \in [Chans -> BOOLEAN] /\ retryResp \in [Chans -> BOOLEAN]
  /\ tickScheduled \in [Chans -> BOOLEAN] /\ respScheduled \in [Chans -> BOOLEAN]
  /\ owed \in [Chans -> BOOLEAN] /\ responseQueue \in [Chans -> Seq(Packets)]
\* A tick is scheduled only for a refused arbiter; the response event and a
\* refused response exclude each other, and each has a response to send.
Event(c) ==
  /\ tickScheduled[c] => owed[c]
  /\ ~(respScheduled[c] /\ retryResp[c])
  /\ respScheduled[c] \/ retryResp[c] => responseQueue[c] # <<>>
EventsOK == FlagType /\ \A c \in Chans : Event(c)

IInv == ReadsOK /\ WritesOK /\ EventsOK /\ failed = FALSE

LEMMA Types == IInv => TypeOK
BY ZenonT(30) DEF IInv, ReadsOK, WritesOK, Records, EventsOK, FlagType, Queues, TypeOK

LEMMA InitHolds == Init => IInv
<1> SUFFICES ASSUME Init PROVE IInv
  OBVIOUS
<1>1. ASSUME NEW c \in Chans, NEW n, n = [a \in Addrs |-> 0]
      PROVE  IsFiniteSet(Held(n, c)) /\ Pending(n, c) = 0
  <2>1. Held(n, c) = {}
    BY <1>1 DEF Held
  <2> QED
    BY <2>1, FS_EmptySet DEF Pending
<1>2. ReadsOK
  BY <1>1 DEF Init, PerChan, PerAddr, ReadsOK, Records, Placed, Counted, Matches, Queues
<1>3. WritesOK
  BY <1>1 DEF Init, PerChan, PerAddr, WritesOK, Records, Counted, Matches, Queues
<1>4. EventsOK
  BY DEF Init, PerChan, EventsOK, FlagType, Event
<1> QED
  BY <1>2, <1>3, <1>4 DEF IInv, Init

LEMMA Frame ==
  /\ ReadsOK /\ UNCHANGED <<readVars, dramReads>> => ReadsOK'
  /\ WritesOK /\ UNCHANGED <<writeVars, dramWrites>> => WritesOK'
  /\ EventsOK /\ UNCHANGED <<respVars, reqVars>> => EventsOK'
<1>1. ReadsOK /\ UNCHANGED <<readVars, dramReads>> => ReadsOK'
  BY DEF ReadsOK, readVars
<1>2. WritesOK /\ UNCHANGED <<writeVars, dramWrites>> => WritesOK'
  BY DEF WritesOK, writeVars
<1>3. EventsOK /\ UNCHANGED <<respVars, reqVars>> => EventsOK'
  BY DEF EventsOK, FlagType, Event, respVars, reqVars
<1> QED
  BY <1>1, <1>2, <1>3

------------------------------------------------------------------------------
(* Each handler keeps it.                                                  *)

LEMMA AcceptedStep ==
  ASSUME ChannelAssumption, Routed, IInv, NEW p \in Packets, RequestAccepted(p)
  PROVE  IInv'
<1> DEFINE d == PktChan[p]  a == PktAddr[p]
<1>1. d \in Chans /\ a \in Addrs /\ ChanOf[a] = d
  BY DEF Routed, ChannelAssumption
<1>2. ReadsOK /\ WritesOK /\ EventsOK /\ EventsOK' /\ failed' = FALSE
  BY Frame DEF IInv, RequestAccepted
<1>3. CASE PktWrite[p]
  <2>1. /\ outstandingWrites' = [outstandingWrites EXCEPT ![d][a] = Append(@, p)]
        /\ nbrOutstandingWrites' = [nbrOutstandingWrites EXCEPT ![d] = @ + 1]
        /\ dramWrites' = [dramWrites EXCEPT ![a] = @ + 1]
        /\ UNCHANGED <<readVars, dramReads>>
    BY <1>3 DEF RequestAccepted, Record, AddTransaction
  <2>2. WritesOK'
    BY <1>1, <1>2, <2>1, RecordsAdd, Zenon DEF WritesOK
  <2> QED
    BY <1>2, <2>1, <2>2, Frame DEF IInv
<1>4. CASE ~PktWrite[p]
  <2>1. /\ outstandingReads' = [outstandingReads EXCEPT ![d][a] = Append(@, p)]
        /\ nbrOutstandingReads' = [nbrOutstandingReads EXCEPT ![d] = @ + 1]
        /\ dramReads' = [dramReads EXCEPT ![a] = @ + 1]
        /\ UNCHANGED <<writeVars, dramWrites>>
    BY <1>4 DEF RequestAccepted, Record, AddTransaction
  <2>2. Records(outstandingReads', nbrOutstandingReads', dramReads')
    BY <1>1, <1>2, <2>1, RecordsAdd, Zenon DEF ReadsOK
  <2>3. Placed(outstandingReads')
    BY <1>1, <1>2, <2>1, PlacedAdd, Zenon DEF ReadsOK, Records
  <2> QED
    BY <1>2, <2>1, <2>2, <2>3, Frame DEF IInv, ReadsOK
<1> QED
  BY <1>3, <1>4

LEMMA RefusedStep ==
  ASSUME Polite, ChannelAssumption, IInv, NEW p \in Packets, RequestRefused(p)
  PROVE  IInv'
<1> DEFINE d == PktChan[p]
<1>1. d \in Chans /\ EventsOK /\ ReadsOK' /\ WritesOK' /\ failed = FALSE
  BY Frame DEF ChannelAssumption, IInv, RequestRefused, dramVars
<1>2. ~tickScheduled[d]
  BY <1>1 DEF RequestRefused, EventsOK, Event
<1>3. /\ tickScheduled' = [tickScheduled EXCEPT ![d] = TRUE]
      /\ retryReq' = [retryReq EXCEPT ![d] = TRUE]
      /\ owed' = [owed EXCEPT ![d] = TRUE]
      /\ failed' = failed
      /\ UNCHANGED <<responseQueue, retryResp, respScheduled>>
  BY <1>2 DEF RequestRefused, respVars
<1>4. FlagType'
  BY <1>1, <1>3, SetPoint, Zenon DEF EventsOK, FlagType
<1>5. ASSUME NEW c \in Chans PROVE Event(c)'
  BY <1>1, <1>3 DEF EventsOK, FlagType, Event
<1> QED
  BY <1>1, <1>3, <1>4, <1>5 DEF IInv, EventsOK

LEMMA TickStep ==
  ASSUME IInv, NEW d \in Chans, Tick(d)
  PROVE  IInv'
<1>1. EventsOK /\ ReadsOK' /\ WritesOK' /\ failed' = FALSE
  BY Frame DEF IInv, Tick, dramVars
<1>2. /\ tickScheduled' = [tickScheduled EXCEPT ![d] = FALSE]
      /\ retryReq' = [retryReq EXCEPT ![d] = FALSE]
      /\ owed' = [owed EXCEPT ![d] = @ /\ ~retryReq[d]]
      /\ UNCHANGED <<responseQueue, retryResp, respScheduled>>
  BY DEF Tick, respVars
<1>3. (owed[d] /\ ~retryReq[d]) \in BOOLEAN
  OBVIOUS
<1>4. FlagType'
  BY <1>1, <1>2, <1>3, SetPoint, Zenon DEF EventsOK, FlagType
<1>5. ASSUME NEW c \in Chans PROVE Event(c)'
  BY <1>1, <1>2 DEF EventsOK, FlagType, Event
<1> QED
  BY <1>1, <1>4, <1>5 DEF IInv, EventsOK

\* The completion finds its records: the assertions of readComplete hold.
LEMMA ReadStep ==
  ASSUME ChannelAssumption, IInv, NEW a \in Addrs, ReadCallback(a)
  PROVE  /\ IInv'
         /\ outstandingReads[ChanOf[a]][a] # <<>>
         /\ AccessAndRespond(ChanOf[a], Head(outstandingReads[ChanOf[a]][a]))
<1> DEFINE d == ChanOf[a]  q == outstandingReads[d][a]
<1>1. d \in Chans /\ ReadsOK /\ EventsOK /\ WritesOK' /\ failed = FALSE /\ dramReads[a] > 0
  BY Frame DEF ChannelAssumption, IInv, ReadCallback
<1>2. q # <<>> /\ nbrOutstandingReads[d] # 0
  BY <1>1, RecordsFound, Zenon DEF ReadsOK
<1>3. /\ outstandingReads' = [outstandingReads EXCEPT ![d][a] = Tail(@)]
      /\ nbrOutstandingReads' = [nbrOutstandingReads EXCEPT ![d] = @ - 1]
      /\ dramReads' = [dramReads EXCEPT ![a] = @ - 1]
      /\ AccessAndRespond(d, Head(q))
      /\ failed' = failed /\ UNCHANGED reqVars
  BY <1>2 DEF ReadCallback, ReadComplete, GetChannel
<1>4. Records(outstandingReads', nbrOutstandingReads', dramReads')
  BY <1>1, <1>3, RecordsRemove, Zenon DEF ReadsOK
<1>5. Placed(outstandingReads')
  BY <1>1, <1>2, <1>3, PlacedRemove, Zenon DEF ReadsOK, Records
<1>6. q \in Seq(Packets) /\ Head(q) \in Packets
  <2>1. q \in Seq(Packets)
    BY <1>1 DEF ReadsOK, Records, Queues
  <2> QED
    BY <1>2, <2>1
<1>7. /\ responseQueue' = [responseQueue EXCEPT ![d] = Append(@, Head(q))]
      /\ respScheduled' = [respScheduled EXCEPT ![d] = @ \/ ~retryResp[d]]
      /\ UNCHANGED <<retryResp, retryReq, tickScheduled, owed>>
  BY <1>3 DEF AccessAndRespond, reqVars
<1>8. /\ responseQueue[d] \in Seq(Packets)
      /\ Append(responseQueue[d], Head(q)) \in Seq(Packets)
      /\ Append(responseQueue[d], Head(q)) # <<>>
  <2>1. responseQueue[d] \in Seq(Packets)
    BY <1>1 DEF EventsOK, FlagType
  <2> QED
    BY <1>6, <2>1, LenAppend, Zenon
<1>9. (respScheduled[d] \/ ~retryResp[d]) \in BOOLEAN
  OBVIOUS
<1>10. FlagType'
  BY <1>1, <1>7, <1>8, <1>9, SetPoint, Zenon DEF EventsOK, FlagType
<1>11. ASSUME NEW c \in Chans PROVE Event(c)'
  <2> HIDE DEF q
  <2>1. CASE c = d
    BY <1>1, <1>7, <1>8, <2>1, SMT, ZenonT(30) DEF EventsOK, FlagType, Event
  <2>2. CASE c # d
    BY <1>1, <1>7, <2>2 DEF EventsOK, FlagType, Event
  <2> QED
    BY <2>1, <2>2
<1> QED
  BY <1>1, <1>2, <1>3, <1>4, <1>5, <1>10, <1>11 DEF IInv, ReadsOK, EventsOK

LEMMA WriteStep ==
  ASSUME ChannelAssumption, IInv, NEW a \in Addrs, WriteCallback(a)
  PROVE  IInv'
<1> DEFINE d == ChanOf[a]
<1>1. /\ d \in Chans /\ WritesOK /\ ReadsOK' /\ EventsOK' /\ failed = FALSE
      /\ dramWrites[a] > 0
  BY Frame DEF ChannelAssumption, IInv, WriteCallback
<1>2. outstandingWrites[d][a] # <<>> /\ nbrOutstandingWrites[d] # 0
  BY <1>1, RecordsFound, Zenon DEF WritesOK
<1>3. /\ outstandingWrites' = [outstandingWrites EXCEPT ![d][a] = Tail(@)]
      /\ nbrOutstandingWrites' = [nbrOutstandingWrites EXCEPT ![d] = @ - 1]
      /\ dramWrites' = [dramWrites EXCEPT ![a] = @ - 1]
      /\ failed' = failed
  BY <1>2 DEF WriteCallback, WriteComplete, GetChannel
<1>4. WritesOK'
  BY <1>1, <1>3, RecordsRemove, Zenon DEF WritesOK
<1> QED
  BY <1>1, <1>3, <1>4 DEF IInv

\* sendResponse runs with a response to send, from the event or from a retry.
LEMMA SendStep ==
  ASSUME IInv, NEW d \in Chans, NEW ok \in BOOLEAN,
         SendResponseEvent(d, ok) \/ RecvRespRetry(d, ok)
  PROVE  /\ IInv' /\ UNCHANGED <<readVars, writeVars, reqVars, dramVars>>
         /\ \/ responseQueue' = responseQueue
            \/ responseQueue' = [responseQueue EXCEPT ![d] = Tail(@)]
<1>1. /\ EventsOK /\ ReadsOK' /\ WritesOK' /\ failed = FALSE
      /\ UNCHANGED <<readVars, writeVars, reqVars, dramVars>>
      /\ respScheduled[d] \/ retryResp[d]
  BY Frame DEF IInv, SendResponseEvent, RecvRespRetry, dramVars
<1>2. responseQueue[d] # <<>> /\ ~(respScheduled[d] /\ retryResp[d])
  BY <1>1 DEF EventsOK, Event
<1>3. /\ SendResponse(d, ok)
      /\ \/ respScheduled' = [respScheduled EXCEPT ![d] = FALSE]
         \/ respScheduled' = respScheduled /\ ~respScheduled[d]
  BY <1>1, <1>2 DEF SendResponseEvent, RecvRespRetry
<1>4. /\ responseQueue' = IF ok THEN [responseQueue EXCEPT ![d] = Tail(@)]
                                ELSE responseQueue
      /\ retryResp' = [retryResp EXCEPT ![d] = ~ok]
      /\ failed' = failed
  BY <1>2, <1>3 DEF SendResponse
<1>5. UNCHANGED <<retryReq, tickScheduled, owed>>
  BY <1>1 DEF reqVars
<1>6. responseQueue[d] \in Seq(Packets) /\ Tail(responseQueue[d]) \in Seq(Packets)
  BY <1>1, <1>2, LenTail DEF EventsOK, FlagType
<1>7. responseQueue' \in [Chans -> Seq(Packets)]
  BY <1>1, <1>4, <1>6, SetPoint DEF EventsOK, FlagType
<1>8. respScheduled' \in [Chans -> BOOLEAN] /\ respScheduled'[d] = FALSE
      /\ \A c \in Chans : c # d => respScheduled'[c] = respScheduled[c]
  BY <1>1, <1>3, Zenon DEF EventsOK, FlagType
<1>9. /\ retryResp' \in [Chans -> BOOLEAN] /\ retryResp'[d] = ~ok
      /\ \A c \in Chans : c # d => retryResp'[c] = retryResp[c]
  BY <1>1, <1>4 DEF EventsOK, FlagType
<1>10. FlagType'
  BY <1>1, <1>5, <1>7, <1>8, <1>9, Zenon DEF EventsOK, FlagType
<1>11. ASSUME NEW c \in Chans PROVE Event(c)'
  <2>1. CASE c = d
    BY <1>1, <1>2, <1>4, <1>5, <1>8, <1>9, <2>1 DEF EventsOK, Event
  <2>2. CASE c # d
    <3>1. responseQueue'[c] = responseQueue[c]
      BY <1>1, <1>4, <2>2 DEF EventsOK, FlagType
    <3> QED
      BY <1>1, <1>5, <1>8, <1>9, <2>2, <3>1 DEF EventsOK, Event
  <2> QED
    BY <2>1, <2>2
<1> QED
  BY <1>1, <1>4, <1>10, <1>11 DEF IInv, EventsOK

LEMMA StepHolds ==
  ASSUME Polite, Routed, IInv, [Next]_vars
  PROVE  IInv'
<1> USE ChannelAssumption
<1>1. ASSUME NEW p \in Packets, RequestAccepted(p) \/ RequestRefused(p) PROVE IInv'
  BY <1>1, AcceptedStep, RefusedStep
<1>2. ASSUME NEW a \in Addrs, ReadCallback(a) \/ WriteCallback(a) PROVE IInv'
  BY <1>2, ReadStep, WriteStep
<1>3. ASSUME NEW c \in Chans, Tick(c) PROVE IInv'
  BY <1>3, TickStep
<1>4. ASSUME NEW c \in Chans, NEW ok \in BOOLEAN,
             SendResponseEvent(c, ok) \/ RecvRespRetry(c, ok)
      PROVE  IInv'
  BY <1>4, SendStep
<1>5. CASE UNCHANGED vars
  BY <1>5, Frame DEF vars, dramVars, IInv
<1> QED
  BY <1>1, <1>2, <1>3, <1>4, <1>5 DEF Next

LEMMA Invariant ==
  ASSUME Polite, Routed
  PROVE  Spec => []IInv
<1>1. IInv /\ [Next]_vars => IInv'
  BY StepHolds
<1> QED
  BY <1>1, InitHolds, PTL DEF Spec

\* The channels' queues, flags and counters keep their types.
THEOREM ChannelTypes ==
  ASSUME Polite, Routed
  PROVE  Spec => []TypeOK
BY Invariant, Types, PTL

\* No assertion of dramsim3.cpp fails: every completion finds its record, and
\* sendResponse always has a response to send.
THEOREM AssertionsHold ==
  ASSUME Polite, Routed
  PROVE  Spec => []NoAssertionFails
<1>1. IInv => NoAssertionFails
  BY DEF IInv, NoAssertionFails
<1> QED
  BY <1>1, Invariant, PTL

\* A channel records exactly what the library holds for it, per address and in
\* nbrOutstandingReads and nbrOutstandingWrites.
THEOREM RecordsExact ==
  ASSUME Polite, Routed
  PROVE  Spec => []RecordsMatch
<1>1. IInv => RecordsMatch
  BY DEF IInv, ReadsOK, WritesOK, Records, RecordsMatch
<1> QED
  BY <1>1, Invariant, PTL

\* readComplete answers the oldest read of its address, so the reads of one
\* address are answered in the order in which they were accepted.
THEOREM AnsweredInOrder ==
  ASSUME Polite, Routed
  PROVE  Spec => OldestFirst
<1> DEFINE Oldest(c, a) ==
      LET new == responseQueue'[c]  q == outstandingReads[c][a] IN
        Len(new) > Len(responseQueue[c]) /\ PktAddr[new[Len(new)]] = a
          => new[Len(new)] = Head(q)
<1>1. ASSUME IInv, [Next]_vars, NEW c \in Chans, NEW a \in Addrs PROVE Oldest(c, a)
  <2>0. responseQueue[c] \in Seq(Packets) /\ Len(responseQueue[c]) \in Nat
    BY <1>1 DEF IInv, EventsOK, FlagType
  <2>1. CASE responseQueue'[c] = responseQueue[c]
    BY <2>0, <2>1
  <2>2. ASSUME NEW b \in Addrs, ReadCallback(b) PROVE Oldest(c, a)
    <3> DEFINE d == ChanOf[b]  s == outstandingReads[d][b]
    <3>1. s # <<>> /\ responseQueue' = [responseQueue EXCEPT ![d] = Append(@, Head(s))]
      BY <1>1, <2>2, ChannelAssumption, ReadStep DEF AccessAndRespond
    <3>2. d \in Chans /\ s \in Seq(Packets) /\ Head(s) \in Packets /\ PktAddr[Head(s)] = b
      <4>1. d \in Chans
        BY ChannelAssumption DEF ChannelAssumption
      <4>2. s \in Seq(Packets)
        BY <1>1, <4>1 DEF IInv, ReadsOK, Records, Queues
      <4>3. \A i \in 1 .. Len(s) : PktAddr[s[i]] = b
        BY <1>1, <4>1, Zenon DEF IInv, ReadsOK, Placed
      <4> HIDE DEF s
      <4> QED
        BY <3>1, <4>1, <4>2, <4>3
    <3>3. CASE c = d
      <4>1. responseQueue'[c] = Append(responseQueue[c], Head(s))
        BY <1>1, <3>1, <3>2, <3>3 DEF IInv, EventsOK, FlagType
      <4>2. responseQueue'[c][Len(responseQueue'[c])] = Head(s)
        <5> HIDE DEF s
        <5> QED
          BY <2>0, <3>2, <4>1, SMT, ZenonT(30)
      <4> QED
        BY <3>2, <3>3, <4>2, SMT, ZenonT(30)
    <3>4. CASE c # d
      BY <1>1, <2>1, <3>1, <3>2, <3>4, SMT, ZenonT(30) DEF IInv, EventsOK, FlagType
    <3> QED
      BY <3>3, <3>4
  <2>3. ASSUME NEW e \in Chans, NEW ok \in BOOLEAN,
               SendResponseEvent(e, ok) \/ RecvRespRetry(e, ok)
        PROVE  Oldest(c, a)
    <3>1. \/ responseQueue' = responseQueue
          \/ responseQueue' = [responseQueue EXCEPT ![e] = Tail(@)]
      BY <1>1, <2>3, SendStep
    <3>2. CASE responseQueue'[c] = Tail(responseQueue[c])
      BY <2>0, <3>2, SMT, ZenonT(30)
    <3> QED
      BY <1>1, <2>1, <3>1, <3>2 DEF IInv, EventsOK, FlagType
  <2>4. CASE \/ \E p \in Packets : RequestAccepted(p) \/ RequestRefused(p)
             \/ \E b \in Addrs : WriteCallback(b)
             \/ \E e \in Chans : Tick(e)
             \/ UNCHANGED vars
    BY <2>1, <2>4 DEF RequestAccepted, RequestRefused, WriteCallback, Tick, vars, respVars
  <2> QED
    BY <1>1, <2>2, <2>3, <2>4 DEF Next
<1>2. IInv /\ [Next]_vars => [\A c \in Chans, a \in Addrs : Oldest(c, a)]_vars
  BY <1>1
<1> QED
  BY <1>2, Invariant, PTL DEF Spec, OldestFirst
==============================================================================
