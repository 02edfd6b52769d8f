----------------------------- MODULE QueueFacts -----------------------------
(***************************************************************************)
(* Facts about queues and about functions updated at one point, which the  *)
(* proofs about the memory path share.                                     *)
(***************************************************************************)
EXTENDS Naturals, Sequences, Functions, TLAPS

(* Updates of two-level queues, flags and counters.                        *)

LEMMA AppendType ==
  ASSUME NEW A, NEW B, NEW S, NEW f \in [A -> [B -> Seq(S)]],
         NEW a \in A, NEW b \in B, NEW v \in S
  PROVE  [f EXCEPT ![a][b] = Append(@, v)] \in [A -> [B -> Seq(S)]]
OBVIOUS

LEMMA TailType ==
  ASSUME NEW A, NEW B, NEW S, NEW f \in [A -> [B -> Seq(S)]],
         NEW a \in A, NEW b \in B, f[a][b] # <<>>
  PROVE  [f EXCEPT ![a][b] = Tail(@)] \in [A -> [B -> Seq(S)]]
OBVIOUS

LEMMA PutType ==
  ASSUME NEW A, NEW B, NEW S, NEW f \in [A -> [B -> S]],
         NEW a \in A, NEW b \in B, NEW v \in S
  PROVE  [f EXCEPT ![a][b] = v] \in [A -> [B -> S]]
OBVIOUS

LEMMA PointAppend ==
  ASSUME NEW A, NEW B, NEW S, NEW f \in [A -> [B -> S]], NEW a \in A, NEW b \in B, NEW v,
         NEW g, g = [f EXCEPT ![a][b] = Append(@, v)]
  PROVE  g[a][b] = Append(f[a][b], v)
OBVIOUS

LEMMA PointElsewhere ==
  ASSUME NEW A, NEW B, NEW S, NEW f \in [A -> [B -> S]], NEW a \in A, NEW b \in B, NEW v,
         NEW g, g = [f EXCEPT ![a][b] = Append(@, v)],
         NEW c \in A, NEW d \in B, ~(c = a /\ d = b)
  PROVE  g[c][d] = f[c][d]
OBVIOUS

LEMMA PutPoint ==
  ASSUME NEW A, NEW B, NEW S, NEW f \in [A -> [B -> S]], NEW a \in A, NEW b \in B,
         NEW v \in S, NEW g, g = [f EXCEPT ![a][b] = v]
  PROVE  /\ g \in [A -> [B -> S]] /\ g[a][b] = v
         /\ \A e \in B : e # b => g[a][e] = f[a][e]
         /\ \A c \in A : c # a => g[c] = f[c]
OBVIOUS

LEMMA SetPoint ==
  ASSUME NEW A, NEW S, NEW f \in [A -> S], NEW a \in A, NEW v, NEW g, g = [f EXCEPT ![a] = v]
  PROVE  g[a] = v /\ \A c \in A : c # a => g[c] = f[c]
OBVIOUS

------------------------------------------------------------------------------
(* The values of a queue.                                                  *)

\* No two positions of s hold the same value.
Distinct(s) == \A i, j \in DOMAIN s : s[i] = s[j] => i = j

LEMMA AppendRange ==
  ASSUME NEW S, NEW s \in Seq(S), NEW e \in S
  PROVE  /\ Range(Append(s, e)) = Range(s) \cup {e}
         /\ Distinct(s) /\ e \notin Range(s) => Distinct(Append(s, e))
<1> DEFINE n == Len(s)  t == Append(s, e)
<1>1. /\ n \in Nat /\ DOMAIN s = 1 .. n /\ DOMAIN t = 1 .. n + 1
      /\ t[n + 1] = e /\ \A i \in 1 .. n : t[i] = s[i]
  OBVIOUS
<1> HIDE DEF n, t
<1>2. \A i \in 1 .. n + 1 : i \in 1 .. n \/ i = n + 1
  BY <1>1
<1>3. \A i \in 1 .. n : i \in 1 .. n + 1
  BY <1>1
<1>4. n + 1 \in 1 .. n + 1
  BY <1>1
<1>5. Range(t) = Range(s) \cup {e}
  BY <1>1, <1>2, <1>3, <1>4, Zenon DEF Range
<1>6. ASSUME Distinct(s), e \notin Range(s), NEW i \in 1 .. n + 1, NEW j \in 1 .. n + 1,
             t[i] = t[j]
      PROVE  i = j
  <2>1. \A m \in 1 .. n : s[m] # e
    BY <1>1, <1>6, Zenon DEF Range
  <2> QED
    BY <1>1, <1>2, <1>6, <2>1, Zenon DEF Distinct
<1> QED
  BY <1>1, <1>5, <1>6, Zenon DEF Distinct, t

LEMMA TailRange ==
  ASSUME NEW S, NEW s \in Seq(S), s # <<>>
  PROVE  /\ Head(s) \in S /\ Tail(s) \in Seq(S)
         /\ Range(s) = Range(Tail(s)) \cup {Head(s)}
         /\ Distinct(s) => Distinct(Tail(s)) /\ Head(s) \notin Range(Tail(s))
<1> DEFINE n == Len(s)  t == Tail(s)
<1>1. /\ n \in Nat \ {0} /\ DOMAIN s = 1 .. n /\ DOMAIN t = 1 .. n - 1
      /\ Head(s) = s[1] /\ \A i \in 1 .. n - 1 : t[i] = s[i + 1]
      /\ Head(s) \in S /\ t \in Seq(S)
  OBVIOUS
<1> HIDE DEF n, t
<1>2. \A i \in 1 .. n - 1 : i + 1 \in 1 .. n /\ i + 1 # 1
  BY <1>1
<1>3. \A i \in 1 .. n : i # 1 => i - 1 \in 1 .. n - 1 /\ (i - 1) + 1 = i
  BY <1>1
<1>4. 1 \in 1 .. n
  BY <1>1
<1>5. \A i, j \in 1 .. n - 1 : i + 1 = j + 1 => i = j
  BY <1>1
<1>6. Range(s) = Range(t) \cup {Head(s)}
  <2>1. ASSUME NEW i \in 1 .. n PROVE s[i] \in Range(t) \/ s[i] = Head(s)
    <3>1. CASE i = 1
      BY <1>1, <3>1
    <3>2. CASE i # 1
      <4>1. i - 1 \in 1 .. n - 1 /\ t[i - 1] = s[i]
        BY <1>1, <1>3, <3>2, Zenon
      <4> QED
        BY <1>1, <4>1, Zenon DEF Range
    <3> QED
      BY <3>1, <3>2
  <2>2. ASSUME NEW i \in 1 .. n - 1 PROVE t[i] \in Range(s)
    BY <1>1, <1>2, Zenon DEF Range
  <2>3. Head(s) \in Range(s)
    BY <1>1, <1>4, Zenon DEF Range
  <2> QED
    BY <1>1, <2>1, <2>2, <2>3, SMT, ZenonT(30) DEF Range
<1>7. ASSUME Distinct(s) PROVE Distinct(t) /\ Head(s) \notin Range(t)
  <2>1. ASSUME NEW i \in 1 .. n - 1, NEW j \in 1 .. n - 1, t[i] = t[j] PROVE i = j
    <3>1. s[i + 1] = s[j + 1] /\ i + 1 \in DOMAIN s /\ j + 1 \in DOMAIN s
      BY <1>1, <1>2, <2>1
    <3>2. i + 1 = j + 1
      BY <1>7, <3>1 DEF Distinct
    <3> QED
      BY <1>5, <3>2
  <2>2. ASSUME NEW i \in 1 .. n - 1, t[i] = Head(s) PROVE FALSE
    <3>1. s[i + 1] = s[1] /\ i + 1 \in DOMAIN s /\ 1 \in DOMAIN s /\ i + 1 # 1
      BY <1>1, <1>2, <1>4, <2>2
    <3> QED
      BY <1>7, <3>1 DEF Distinct
  <2>3. Distinct(t)
    BY <1>1, <2>1 DEF Distinct
  <2>4. Head(s) \notin Range(t)
    BY <1>1, <2>2 DEF Range
  <2> QED
    BY <2>3, <2>4
<1> QED
  BY <1>1, <1>6, <1>7 DEF t
==============================================================================
