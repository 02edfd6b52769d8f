----------------------------- MODULE EventLines -----------------------------
(***************************************************************************)
(* Lines of events and the links that represent them: what inserting an    *)
(* event in front of its equals and unlinking an event do to a line and to *)
(* the links of its bins, for any events, times and priorities.            *)
(***************************************************************************)
EXTENDS Event, Sequences, TLAPS

(* Positions of a line.                                                    *)

At(q, i) == IF i <= Len(q) THEN q[i] ELSE Null

\* A line of different events in the order of (when, priority).
Good(q, w) ==
  /\ q \in Seq(Events)
  /\ \A i, j \in 1 .. Len(q) : q[i] = q[j] => i = j
  /\ \A i, j \in 1 .. Len(q) : i < j => ~Less(w, q[j], q[i])

\* Position i starts a run of equal events; the run that starts at i ends before n.
Bnd(q, w, i) == i = 1 \/ ~Same(w, q[i - 1], q[i])
Run(q, w, i, n) ==
  /\ n <= Len(q) => ~Same(w, q[i], q[n])
  /\ \A k \in i + 1 .. n - 1 : Same(w, q[i], q[k])

\* The links h, nb and ni represent the line q: the bins are the runs.
Rep(q, w, h, nb, ni) ==
  /\ h = At(q, 1)
  /\ \A i \in 1 .. Len(q) :
       ni[q[i]] = IF i < Len(q) /\ Same(w, q[i], q[i + 1]) THEN q[i + 1] ELSE Null
  /\ \A i \in 1 .. Len(q) : Bnd(q, w, i) =>
       \E n \in i + 1 .. Len(q) + 1 : Run(q, w, i, n) /\ nb[q[i]] = At(q, n)

LEMMA OrderFacts ==
  ASSUME NEW w \in [Events -> Nat], NEW a \in Events, NEW b \in Events, NEW c \in Events
  PROVE  /\ Same(w, a, a) /\ (Same(w, a, b) => Same(w, b, a))
         /\ Same(w, a, b) /\ Same(w, b, c) => Same(w, a, c)
         /\ Less(w, a, b) \/ Same(w, a, b) \/ Less(w, b, a)
         /\ Less(w, a, b) => ~Less(w, b, a) /\ ~Same(w, a, b)
         /\ Same(w, a, b) => ~Less(w, a, b)
         /\ Less(w, a, b) /\ ~Less(w, c, b) => Less(w, a, c)
         /\ ~Less(w, b, a) /\ ~Less(w, c, b) => ~Less(w, c, a)
         /\ Same(w, a, b) => (Less(w, a, c) <=> Less(w, b, c))
         /\ Same(w, a, b) => (Less(w, c, a) <=> Less(w, c, b))
         /\ ~Less(w, b, a) /\ ~Less(w, c, b) /\ Same(w, a, c) => Same(w, a, b) /\ Same(w, b, c)
BY QueueAssumption DEF Less, Same

\* What lies between two equal events equals them.
LEMMA Between ==
  ASSUME NEW w \in [Events -> Nat], NEW q, Good(q, w),
         NEW i \in 1 .. Len(q), NEW k \in 1 .. Len(q), NEW j \in 1 .. Len(q),
         i <= k, k <= j, Same(w, q[i], q[j])
  PROVE  Same(w, q[i], q[k]) /\ Same(w, q[k], q[j])
<1>1. q[i] \in Events /\ q[j] \in Events /\ q[k] \in Events
  BY DEF Good
<1>2. (i = k \/ ~Less(w, q[k], q[i])) /\ (k = j \/ ~Less(w, q[j], q[k]))
  BY DEF Good
<1> QED
  BY <1>1, <1>2, OrderFacts

------------------------------------------------------------------------------
(* An event joins the line.                                                *)

Put(q, i, e) ==
  [j \in 1 .. Len(q) + 1 |-> IF j < i THEN q[j] ELSE IF j = i THEN e ELSE q[j - 1]]

\* Position i is the place of e: in front of the first event that is not before it.
Place(q, w, i, e) ==
  /\ i \in 1 .. Len(q) + 1
  /\ \A j \in 1 .. i - 1 : Less(w, q[j], e)
  /\ i <= Len(q) => ~Less(w, q[i], e)

Outside(q, e) == \A j \in 1 .. Len(q) : q[j] # e

\* Line p is line q with e at position i, event by event.
Joined(q, i, e, p) ==
  /\ p \in Seq(Events) /\ Len(p) = Len(q) + 1
  /\ \A j \in 1 .. i - 1 : p[j] = q[j]
  /\ p[i] = e
  /\ \A j \in i .. Len(q) : p[j + 1] = q[j]
  /\ \A j \in i + 1 .. Len(q) + 1 : p[j] = q[j - 1]

LEMMA PutPoints ==
  ASSUME NEW q \in Seq(Events), NEW e \in Events, NEW i \in 1 .. Len(q) + 1
  PROVE  Joined(q, i, e, Put(q, i, e))
<1>0. Len(q) \in Nat
  OBVIOUS
<1>1. Put(q, i, e) \in [1 .. Len(q) + 1 -> Events]
  <2> SUFFICES ASSUME NEW j \in 1 .. Len(q) + 1
               PROVE  (IF j < i THEN q[j] ELSE IF j = i THEN e ELSE q[j - 1]) \in Events
    BY DEF Put
  <2>1. j < i => j \in 1 .. Len(q)
    BY <1>0
  <2>2. j > i => j - 1 \in 1 .. Len(q)
    BY <1>0
  <2> QED
    BY <1>0, <2>1, <2>2
<1>2. Put(q, i, e) \in Seq(Events) /\ Len(Put(q, i, e)) = Len(q) + 1
  BY <1>0, <1>1
<1>3. /\ \A j \in 1 .. i - 1 : Put(q, i, e)[j] = q[j]
      /\ Put(q, i, e)[i] = e
  BY <1>0 DEF Put
<1>4. /\ \A j \in i .. Len(q) : Put(q, i, e)[j + 1] = q[j]
      /\ \A j \in i + 1 .. Len(q) + 1 : Put(q, i, e)[j] = q[j - 1]
  BY <1>0 DEF Put
<1> QED
  BY <1>2, <1>3, <1>4 DEF Joined

LEMMA PutGood ==
  ASSUME NEW w \in [Events -> Nat], NEW q, Good(q, w), NEW e \in Events, NEW i,
         Place(q, w, i, e), Outside(q, e)
  PROVE  Good(Put(q, i, e), w)
<1> DEFINE p == Put(q, i, e)
           old(j) == IF j < i THEN j ELSE j - 1
<1>0. Len(q) \in Nat /\ q \in Seq(Events) /\ i \in 1 .. Len(q) + 1
  BY DEF Good, Place
<1>p. Joined(q, i, e, p)
  BY <1>0, PutPoints
<1> HIDE DEF p
<1>1. p \in Seq(Events) /\ Len(p) = Len(q) + 1 /\ p[i] = e
  BY <1>p DEF Joined
<1>2. ASSUME NEW j \in 1 .. Len(p), j # i
      PROVE  old(j) \in 1 .. Len(q) /\ p[j] = q[old(j)] /\ p[j] # e
  <2>1. /\ old(j) \in 1 .. Len(q)
        /\ \/ j \in 1 .. i - 1 /\ old(j) = j
           \/ j \in i + 1 .. Len(q) + 1 /\ old(j) = j - 1
    BY <1>0, <1>1, <1>2
  <2> HIDE DEF old
  <2>2. p[j] = q[old(j)]
    BY <1>p, <2>1 DEF Joined
  <2> QED
    BY <2>1, <2>2 DEF Outside
<1>3. ASSUME NEW j \in 1 .. Len(q)
      PROVE  /\ j < i => Less(w, q[j], e)
             /\ j >= i => ~Less(w, q[j], e)
  <2>1. CASE j < i
    BY <1>0, <2>1 DEF Place
  <2>2. CASE j >= i
    <3>1. i \in 1 .. Len(q) /\ q[i] \in Events /\ q[j] \in Events /\ ~Less(w, q[i], e)
      BY <1>0, <2>2 DEF Place
    <3>2. i = j \/ ~Less(w, q[j], q[i])
      BY <1>0, <2>2, <3>1 DEF Good
    <3> QED
      BY <2>2, <3>1, <3>2, OrderFacts
  <2> QED
    BY <1>0, <2>1, <2>2
<1>4. ASSUME NEW j \in 1 .. Len(p), NEW k \in 1 .. Len(p), p[j] = p[k] PROVE j = k
  <2>1. CASE j = i \/ k = i
    BY <1>1, <1>2, <1>4, <2>1
  <2>2. CASE j # i /\ k # i
    <3>1. old(j) = old(k)
      BY <1>2, <1>4, <2>2, ZenonT(30) DEF Good
    <3> QED
      BY <1>0, <1>1, <2>2, <3>1, SMT, ZenonT(30)
  <2> QED
    BY <2>1, <2>2
<1>5. ASSUME NEW j \in 1 .. Len(p), NEW k \in 1 .. Len(p), j < k PROVE ~Less(w, p[k], p[j])
  <2>1. CASE j = i
    <3>1. k # i /\ old(k) \in 1 .. Len(q) /\ old(k) >= i /\ p[k] = q[old(k)]
      BY <1>0, <1>1, <1>2, <1>5, <2>1
    <3> QED
      BY <1>1, <1>3, <2>1, <3>1
  <2>2. CASE k = i
    <3>1. j # i /\ old(j) \in 1 .. Len(q) /\ old(j) < i /\ p[j] = q[old(j)]
      BY <1>0, <1>1, <1>2, <1>5, <2>2
    <3>2. Less(w, p[j], e) /\ p[j] \in Events
      BY <1>1, <1>3, <3>1
    <3> QED
      BY <1>1, <2>2, <3>2, OrderFacts
  <2>3. CASE j # i /\ k # i
    <3>1. old(j) \in 1 .. Len(q) /\ old(k) \in 1 .. Len(q) /\ old(j) < old(k)
          /\ p[j] = q[old(j)] /\ p[k] = q[old(k)]
      <4>1. old(j) \in 1 .. Len(q) /\ p[j] = q[old(j)]
        BY <1>2, <2>3
      <4>2. old(k) \in 1 .. Len(q) /\ p[k] = q[old(k)]
        BY <1>2, <2>3
      <4>3. old(j) < old(k)
        BY <1>0, <1>1, <1>5, <2>3, SMT, ZenonT(30)
      <4> QED
        BY <4>1, <4>2, <4>3
    <3> QED
      BY <3>1, ZenonT(30) DEF Good
  <2> QED
    BY <2>1, <2>2, <2>3
<1> QED
  BY <1>1, <1>4, <1>5, SMT, ZenonT(30) DEF Good, p

\* The bin in front of the place of e: it starts at m and its top leads to the place.
Front(q, w, nb, m, i) ==
  /\ m \in 1 .. i - 1 /\ Bnd(q, w, m)
  /\ \A k \in m .. i - 1 : Same(w, q[m], q[k])
  /\ nb[q[m]] = At(q, i)

\* The links insertBefore gives e in front of c.
Linked(e, c, w, nb, nb2, ni2) ==
  IF c = Null \/ Less(w, e, c)
  THEN nb2[e] = c /\ ni2[e] = Null
  ELSE nb2[e] = nb[c] /\ ni2[e] = c

\* Links as EventQueue::insert leaves them: e is the new head, or the top of the
\* bin in front of it leads to it.
Inserted(q, w, i, e, h, nb, ni, h2, nb2, ni2) ==
  /\ Linked(e, At(q, i), w, nb, nb2, ni2)
  /\ \A f \in Events \ {e} : ni2[f] = ni[f]
  /\ \/ i = 1 /\ h2 = e /\ \A f \in Events \ {e} : nb2[f] = nb[f]
     \/ /\ i # 1 /\ h2 = h
        /\ \E m \in 1 .. i - 1 :
             /\ Front(q, w, nb, m, i)
             /\ nb2[q[m]] = e
             /\ \A f \in Events \ {e, q[m]} : nb2[f] = nb[f]

\* A bin ends before the place of an event that comes later than its top.
LEMMA RunsUpTo ==
  ASSUME NEW w \in [Events -> Nat], NEW q, Good(q, w), NEW e \in Events, NEW i,
         Place(q, w, i, e), NEW j \in 1 .. Len(q), j < i,
         NEW n \in j + 1 .. Len(q) + 1, Run(q, w, j, n)
  PROVE  n <= i
<1>0. Len(q) \in Nat /\ q \in Seq(Events) /\ i \in 1 .. Len(q) + 1
  BY DEF Good, Place
<1> SUFFICES ASSUME i < n PROVE FALSE
  BY <1>0
<1>1. i \in j + 1 .. n - 1 /\ i \in 1 .. Len(q) /\ j \in 1 .. i - 1
  BY <1>0
<1>2. Same(w, q[j], q[i]) /\ Less(w, q[j], e) /\ ~Less(w, q[i], e)
  BY <1>1 DEF Run, Place
<1> QED
  BY <1>0, <1>1, <1>2, OrderFacts

\* Only one bin ends at a place.
LEMMA OneFront ==
  ASSUME NEW w \in [Events -> Nat], NEW q, Good(q, w), NEW i \in 2 .. Len(q) + 1,
         NEW m \in 1 .. i - 1, Bnd(q, w, m), \A k \in m .. i - 1 : Same(w, q[m], q[k]),
         NEW j \in 1 .. i - 1, Bnd(q, w, j), \A k \in j .. i - 1 : Same(w, q[j], q[k])
  PROVE  j = m
<1>0. Len(q) \in Nat /\ q \in Seq(Events)
  BY DEF Good
<1>1. ASSUME NEW a \in 1 .. i - 1, NEW b \in 1 .. i - 1, a < b,
             \A k \in a .. i - 1 : Same(w, q[a], q[k])
      PROVE  ~Bnd(q, w, b)
  <2>1. b \in a .. i - 1 /\ b - 1 \in a .. i - 1 /\ b # 1
        /\ a \in 1 .. Len(q) /\ b \in 1 .. Len(q) /\ b - 1 \in 1 .. Len(q)
    BY <1>0, <1>1
  <2>2. q[a] \in Events /\ q[b] \in Events /\ q[b - 1] \in Events
    BY <1>0, <2>1
  <2>3. Same(w, q[a], q[b]) /\ Same(w, q[a], q[b - 1])
    BY <1>1, <2>1
  <2>4. Same(w, q[b - 1], q[b])
    BY <2>2, <2>3, OrderFacts
  <2> QED
    BY <2>1, <2>4 DEF Bnd
<1>2. ~(j < m) /\ ~(m < j)
  BY <1>1
<1> QED
  BY <1>0, <1>2

LEMMA PutRep ==
  ASSUME NEW w \in [Events -> Nat], NEW q, Good(q, w), NEW e \in Events, NEW i,
         Place(q, w, i, e), Outside(q, e),
         NEW h, NEW nb, NEW ni, NEW h2, NEW nb2, NEW ni2,
         Rep(q, w, h, nb, ni), Inserted(q, w, i, e, h, nb, ni, h2, nb2, ni2)
  PROVE  Rep(Put(q, i, e), w, h2, nb2, ni2)
<1> DEFINE p == Put(q, i, e)
<1>0. Len(q) \in Nat /\ q \in Seq(Events) /\ i \in 1 .. Len(q) + 1
  BY DEF Good, Place
<1>p. Joined(q, i, e, p)
  BY <1>0, PutPoints
<1> HIDE DEF p
<1>1. /\ p \in Seq(Events) /\ Len(p) = Len(q) + 1 /\ p[i] = e
      /\ \A j \in 1 .. i - 1 : p[j] = q[j]
      /\ \A j \in i + 1 .. Len(q) + 1 : p[j] = q[j - 1]
  BY <1>p DEF Joined
<1>b. \A j \in i .. Len(q) : p[j + 1] = q[j]
  BY <1>p DEF Joined
<1>g. Len(q) \in Nat /\ i \in Int /\ 1 <= i /\ i <= Len(q) + 1
  BY <1>0
<1>a. Len(p) = Len(q) + 1
  BY <1>1
<1>2. \A n \in i .. Len(q) + 1 : At(p, n + 1) = At(q, n)
  <2> SUFFICES ASSUME NEW n \in i .. Len(q) + 1 PROVE At(p, n + 1) = At(q, n)
    OBVIOUS
  <2>1. CASE n <= Len(q)
    BY <1>0, <1>1, <2>1 DEF At
  <2>2. CASE n = Len(q) + 1
    BY <1>0, <1>1, <2>2 DEF At
  <2> QED
    BY <1>0, <2>1, <2>2
<1>3. \A j \in 1 .. Len(q) : q[j] \in Events /\ q[j] # e
  BY <1>0 DEF Outside
<1>4. i <= Len(q) => Bnd(q, w, i)
  <2> SUFFICES ASSUME i <= Len(q), i # 1 PROVE ~Same(w, q[i - 1], q[i])
    BY DEF Bnd
  <2>1. i - 1 \in 1 .. i - 1 /\ i - 1 \in 1 .. Len(q) /\ i \in 1 .. Len(q)
    BY <1>g
  <2>2. Less(w, q[i - 1], e) /\ ~Less(w, q[i], e)
    BY <2>1 DEF Place
  <2> QED
    BY <1>3, <2>1, <2>2, OrderFacts
<1>5. h2 = At(p, 1)
  <2>1. CASE i = 1
    BY <1>1, <1>0, <2>1 DEF Inserted, At
  <2>2. CASE i # 1
    BY <1>1, <1>0, <2>2 DEF Inserted, At, Rep
  <2> QED
    BY <2>1, <2>2
<1>6. ASSUME NEW j \in 1 .. Len(p)
      PROVE  ni2[p[j]] = IF j < Len(p) /\ Same(w, p[j], p[j + 1]) THEN p[j + 1] ELSE Null
  <2>1. CASE j < i - 1
    <3>0. /\ j \in 1 .. Len(q) /\ j < Len(q) /\ j < Len(p)
          /\ j \in 1 .. i - 1 /\ j + 1 \in 1 .. i - 1
      BY <1>g, <1>a, <2>1
    <3>1. j \in 1 .. Len(q) /\ j < Len(q) /\ p[j] = q[j] /\ p[j + 1] = q[j + 1] /\ j < Len(p)
      BY <1>1, <3>0
    <3>2. ni2[q[j]] = ni[q[j]]
      BY <1>3, <3>1 DEF Inserted
    <3> QED
      BY <3>1, <3>2 DEF Rep
  <2>2. CASE j = i - 1
    <3>1. j \in 1 .. Len(q) /\ p[j] = q[j] /\ p[j + 1] = e /\ j \in 1 .. i - 1 /\ j + 1 = i
      BY <1>0, <1>1, <2>2, SMT, ZenonT(30)
    <3>2. ni2[q[j]] = ni[q[j]] /\ Less(w, q[j], e)
      BY <1>3, <3>1 DEF Inserted, Place
    <3>3. ~Same(w, q[j], e)
      BY <1>3, <3>1, <3>2, OrderFacts
    <3>4. j < Len(q) => ~Same(w, q[j], q[j + 1])
      BY <1>0, <1>4, <2>2, <3>1 DEF Bnd
    <3> QED
      BY <3>1, <3>2, <3>3, <3>4 DEF Rep
  <2>3. CASE j = i
    <3>1. CASE i <= Len(q)
      <4>0. i \in 1 .. Len(q) /\ i \in i .. Len(q) /\ j < Len(p)
        BY <1>g, <1>a, <2>3, <3>1
      <4>1. At(q, i) = q[i] /\ q[i] \in Events /\ q[i] # Null /\ p[j + 1] = q[i] /\ j < Len(p)
            /\ p[j] = e
        BY <1>1, <1>b, <1>3, <2>3, <3>1, <4>0, LinkAssumption DEF At
      <4>2. Less(w, e, q[i]) <=> ~Same(w, e, q[i])
        BY <3>1, <4>1, OrderFacts DEF Place
      <4> QED
        BY <4>1, <4>2 DEF Inserted, Linked
    <3>2. CASE i = Len(q) + 1
      BY <1>0, <1>1, <2>3, <3>2 DEF Inserted, Linked, At
    <3> QED
      BY <1>0, <3>1, <3>2
  <2>4. CASE j > i
    <3>0. j - 1 \in 1 .. Len(q) /\ j \in i + 1 .. Len(q) + 1 /\ (j - 1) + 1 = j
          /\ (j < Len(p) <=> j - 1 < Len(q)) /\ (j < Len(p) => j \in i .. Len(q))
      BY <1>g, <1>a, <2>4
    <3>1. j - 1 \in 1 .. Len(q) /\ p[j] = q[j - 1] /\ (j - 1) + 1 = j
          /\ (j < Len(p) <=> j - 1 < Len(q)) /\ (j < Len(p) => p[j + 1] = q[j])
      BY <1>1, <1>b, <3>0, SMT, ZenonT(30)
    <3>2. ni2[q[j - 1]] = ni[q[j - 1]]
      BY <1>3, <3>1 DEF Inserted
    <3> QED
      BY <3>1, <3>2 DEF Rep
  <2> QED
    BY <1>0, <1>1, <2>1, <2>2, <2>3, <2>4
\* Behind the place the bins are as they were, one position on.
<1>7. ASSUME NEW j \in i .. Len(q), Bnd(q, w, j), nb2[q[j]] = nb[q[j]]
      PROVE  \E n \in (j + 1) + 1 .. Len(p) + 1 :
               Run(p, w, j + 1, n) /\ nb2[p[j + 1]] = At(p, n)
  <2>0. j \in 1 .. Len(q) /\ p[j + 1] = q[j]
    <3>1. j \in 1 .. Len(q)
      BY <1>g
    <3> QED
      BY <1>b, <3>1
  <2>1. PICK n \in j + 1 .. Len(q) + 1 : Run(q, w, j, n) /\ nb[q[j]] = At(q, n)
    BY <1>7, <2>0 DEF Rep
  <2>2. n + 1 \in (j + 1) + 1 .. Len(p) + 1 /\ n \in i .. Len(q) + 1
    BY <1>g, <1>a
  <2>3. ASSUME NEW k \in (j + 1) + 1 .. (n + 1) - 1 PROVE Same(w, p[j + 1], p[k])
    <3>0. k - 1 \in j + 1 .. n - 1 /\ k \in i + 1 .. Len(q) + 1
      <4>1. i \in Int /\ j \in Int /\ n \in Int /\ k \in Int /\ Len(q) \in Int
        BY <1>g
      <4>2. i <= j /\ n <= Len(q) + 1 /\ (j + 1) + 1 <= k /\ k <= (n + 1) - 1
        BY <1>0, <2>2
      <4> QED
        BY <4>1, <4>2
    <3>1. k - 1 \in j + 1 .. n - 1 /\ p[k] = q[k - 1]
      BY <1>1, <3>0
    <3> QED
      BY <2>0, <2>1, <3>1, SMT, ZenonT(30) DEF Run
  <2>4. n + 1 <= Len(p) => ~Same(w, p[j + 1], p[n + 1])
    <3> SUFFICES ASSUME n + 1 <= Len(p) PROVE ~Same(w, p[j + 1], p[n + 1])
      OBVIOUS
    <3>1. n <= Len(q) /\ p[n + 1] = q[n]
      <4>1. n \in i .. Len(q)
        BY <1>g, <1>a, <2>2
      <4> QED
        BY <1>b, <4>1
    <3> QED
      BY <2>0, <2>1, <3>1 DEF Run
  <2>5. Run(p, w, j + 1, n + 1)
    BY <2>3, <2>4 DEF Run
  <2>6. nb2[p[j + 1]] = At(p, n + 1)
    BY <1>2, <1>7, <2>0, <2>1, <2>2
  <2> QED
    BY <2>2, <2>5, <2>6
<1>8. ASSUME NEW j \in i .. Len(q) PROVE nb2[q[j]] = nb[q[j]]
  <2>1. CASE i = 1
    BY <1>0, <1>3, <2>1 DEF Inserted
  <2>2. CASE i # 1
    <3>1. PICK m \in 1 .. i - 1 : \A f \in Events \ {e, q[m]} : nb2[f] = nb[f]
      BY <2>2 DEF Inserted
    <3>2. j \in 1 .. Len(q) /\ m \in 1 .. Len(q) /\ j # m
      BY <1>g
    <3>3. q[j] # q[m]
      BY <3>2 DEF Good
    <3> QED
      BY <1>3, <3>1, <3>2, <3>3
  <2> QED
    BY <2>1, <2>2
<1>9. ASSUME NEW j \in 1 .. Len(p), Bnd(p, w, j)
      PROVE  \E n \in j + 1 .. Len(p) + 1 : Run(p, w, j, n) /\ nb2[p[j]] = At(p, n)
  <2>1. CASE j < i
    <3>0. j \in 1 .. Len(q) /\ p[j] = q[j] /\ i # 1 /\ j \in 1 .. i - 1
      BY <1>0, <1>1, <2>1, SMT, ZenonT(30)
    <3>1. Bnd(q, w, j)
      <4>1. j # 1 => p[j - 1] = q[j - 1]
        BY <1>0, <1>1, <2>1
      <4> QED
        BY <1>9, <3>0, <4>1 DEF Bnd
    <3>2. PICK n \in j + 1 .. Len(q) + 1 : Run(q, w, j, n) /\ nb[q[j]] = At(q, n)
      BY <3>0, <3>1 DEF Rep
    <3>3. n <= i
      BY <2>1, <3>0, <3>2, RunsUpTo
    <3>4. PICK m \in 1 .. i - 1 :
            /\ Front(q, w, nb, m, i)
            /\ nb2[q[m]] = e
            /\ \A f \in Events \ {e, q[m]} : nb2[f] = nb[f]
      BY <3>0 DEF Inserted
    <3>5. m \in 1 .. Len(q)
      BY <1>g
    <3>6. ASSUME NEW k \in j + 1 .. n - 1 PROVE Same(w, p[j], p[k])
      <4>1. k \in 1 .. i - 1
        BY <1>0, <3>0, <3>3
      <4> QED
        BY <1>1, <3>0, <3>2, <4>1, ZenonT(30) DEF Run
    <3>7. CASE n < i
      <4>0. n \in 1 .. Len(q) /\ n <= Len(q) /\ n <= Len(p) /\ n \in 1 .. i - 1
        BY <1>g, <1>a, <3>7
      <4>1. n \in 1 .. Len(q) /\ At(q, n) = q[n] /\ At(p, n) = q[n] /\ p[n] = q[n]
        BY <1>1, <4>0 DEF At
      <4>2. q[n] # At(q, i)
        BY <1>0, <1>3, <3>7, <4>1, LinkAssumption, SMT, ZenonT(30) DEF At, Good
      <4>3. q[j] # q[m]
        BY <3>2, <3>4, <4>1, <4>2 DEF Front
      <4>4. nb2[q[j]] = nb[q[j]]
        BY <1>3, <3>0, <3>4, <4>3
      <4>5. Run(p, w, j, n)
        BY <3>0, <3>2, <3>6, <4>1 DEF Run
      <4>6. n \in j + 1 .. Len(p) + 1
        BY <1>g, <1>a
      <4> QED
        BY <3>0, <3>2, <4>1, <4>4, <4>5, <4>6
    <3>8. CASE n = i
      <4>1. \A k \in j .. i - 1 : Same(w, q[j], q[k])
        <5> SUFFICES ASSUME NEW k \in j .. i - 1 PROVE Same(w, q[j], q[k])
          OBVIOUS
        <5>1. k = j \/ k \in j + 1 .. n - 1
          BY <1>0, <3>8
        <5> QED
          BY <1>3, <3>0, <3>2, <5>1, OrderFacts, SMT, ZenonT(30) DEF Run
      <4>2. i \in 2 .. Len(q) + 1
        BY <1>0, <3>0
      <4>3. j = m
        BY <3>0, <3>1, <3>4, <4>1, <4>2, OneFront, ZenonT(30) DEF Front
      <4>4. Less(w, q[j], e)
        BY <3>0 DEF Place
      <4>5. ~Same(w, p[j], p[n])
        BY <1>1, <1>3, <3>0, <3>8, <4>4, OrderFacts, ZenonT(30)
      <4>6. Run(p, w, j, n) /\ At(p, n) = e
        BY <1>0, <1>1, <3>6, <3>8, <4>5 DEF Run, At
      <4>7. n \in j + 1 .. Len(p) + 1
        BY <1>g, <1>a
      <4> QED
        BY <3>0, <3>4, <4>3, <4>6, <4>7, SMT, ZenonT(30)
    <3> QED
      BY <1>0, <3>3, <3>7, <3>8
  <2>2. CASE j = i
    <3>1. CASE i <= Len(q) /\ ~Less(w, e, q[i])
      <4>a. i \in 1 .. Len(q) /\ i \in i .. Len(q)
        BY <1>0, <3>1
      <4>0. i \in 1 .. Len(q) /\ At(q, i) = q[i] /\ q[i] # Null /\ p[i + 1] = q[i]
        BY <1>b, <1>3, <3>1, <4>a, LinkAssumption DEF At
      <4>1. nb2[e] = nb[q[i]] /\ Same(w, e, q[i])
        BY <1>3, <3>1, <4>0, OrderFacts, SMT, ZenonT(30) DEF Inserted, Linked, Place
      <4>2. PICK n \in i + 1 .. Len(q) + 1 : Run(q, w, i, n) /\ nb[q[i]] = At(q, n)
        BY <1>4, <3>1, <4>0, SMT, ZenonT(30) DEF Rep
      <4>3. n + 1 \in j + 1 .. Len(p) + 1 /\ n \in i .. Len(q) + 1
        BY <1>g, <1>a, <2>2
      <4>4. ASSUME NEW k \in j + 1 .. (n + 1) - 1 PROVE Same(w, p[j], p[k])
        <5>1. CASE k = i + 1
          BY <1>1, <2>2, <4>0, <4>1, <5>1, SMT, ZenonT(30)
        <5>2. CASE k # i + 1
          <6>0. k - 1 \in i + 1 .. n - 1 /\ k - 1 \in 1 .. Len(q) /\ k \in i + 1 .. Len(q) + 1
            BY <1>g, <1>a, <2>2, <4>3, <5>2
          <6>1. k - 1 \in i + 1 .. n - 1 /\ k - 1 \in 1 .. Len(q) /\ p[k] = q[k - 1]
            BY <1>1, <6>0
          <6>2. Same(w, q[i], q[k - 1])
            BY <4>2, <6>1 DEF Run
          <6> QED
            BY <1>1, <1>3, <2>2, <4>0, <4>1, <6>1, <6>2, OrderFacts, ZenonT(30)
        <5> QED
          BY <5>1, <5>2, SMT, ZenonT(30)
      <4>5. n + 1 <= Len(p) => ~Same(w, p[j], p[n + 1])
        <5> SUFFICES ASSUME n + 1 <= Len(p) PROVE ~Same(w, p[j], p[n + 1])
          OBVIOUS
        <5>1. n \in 1 .. Len(q) /\ p[n + 1] = q[n]
          <6>1. n \in i .. Len(q) /\ n \in 1 .. Len(q)
            BY <1>g, <1>a, <4>3
          <6> QED
            BY <1>b, <6>1
        <5>2. ~Same(w, q[i], q[n])
          BY <1>0, <4>2, <5>1 DEF Run
        <5> QED
          BY <1>1, <1>3, <2>2, <4>0, <4>1, <5>1, <5>2, OrderFacts, ZenonT(30)
      <4>6. Run(p, w, j, n + 1)
        BY <4>4, <4>5 DEF Run
      <4> QED
        BY <1>1, <1>2, <2>2, <4>1, <4>2, <4>3, <4>6, SMT, ZenonT(30)
    <3>2. CASE i <= Len(q) /\ Less(w, e, q[i])
      <4>0. i \in 1 .. Len(q) /\ At(q, i) = q[i] /\ p[i + 1] = q[i] /\ At(p, i + 1) = q[i]
        BY <1>0, <1>1, <1>2, <3>2, SMT, ZenonT(30) DEF At
      <4>1. nb2[e] = q[i] /\ ~Same(w, e, q[i])
        BY <1>3, <3>2, <4>0, OrderFacts, SMT, ZenonT(30) DEF Inserted, Linked
      <4>2. Run(p, w, j, i + 1) /\ i + 1 \in j + 1 .. Len(p) + 1
        <5>1. i + 1 \in j + 1 .. Len(p) + 1 /\ j + 1 .. (i + 1) - 1 = {}
          BY <1>g, <1>a, <2>2, <3>2
        <5> QED
          BY <1>1, <2>2, <4>0, <4>1, <5>1 DEF Run
      <4> QED
        BY <1>1, <2>2, <4>0, <4>1, <4>2
    <3>3. CASE i = Len(q) + 1
      <4>1. nb2[e] = Null /\ At(p, i + 1) = Null
        BY <1>0, <1>1, <3>3 DEF Inserted, Linked, At
      <4>2. Run(p, w, j, i + 1) /\ i + 1 \in j + 1 .. Len(p) + 1
        <5>1. /\ i + 1 \in j + 1 .. Len(p) + 1 /\ j + 1 .. (i + 1) - 1 = {}
              /\ ~(i + 1 <= Len(p))
          BY <1>g, <1>a, <2>2, <3>3
        <5> QED
          BY <5>1 DEF Run
      <4> QED
        BY <1>1, <2>2, <4>1, <4>2
    <3> QED
      BY <1>0, <3>1, <3>2, <3>3
  <2>3. CASE j > i
    <3>0. j - 1 \in i .. Len(q) /\ j \in i + 1 .. Len(q) + 1 /\ (j - 1) + 1 = j
      BY <1>g, <1>a, <2>3
    <3>1. j - 1 \in i .. Len(q) /\ p[j] = q[j - 1] /\ (j - 1) + 1 = j
      BY <1>1, <3>0
    <3>2. Bnd(q, w, j - 1)
      <4>1. CASE j - 1 = i
        BY <1>0, <1>4, <3>1, <4>1
      <4>2. CASE j - 1 # i
        <5>0. j - 1 \in i + 1 .. Len(q) + 1 /\ j # 1
          BY <1>g, <1>a, <3>1, <4>2
        <5>1. j - 1 \in i + 1 .. Len(q) + 1 /\ p[j - 1] = q[(j - 1) - 1] /\ j # 1
          BY <1>1, <5>0
        <5> QED
          BY <1>9, <3>1, <5>1 DEF Bnd
      <4> QED
        BY <4>1, <4>2
    <3>3. \E n \in ((j - 1) + 1) + 1 .. Len(p) + 1 :
            Run(p, w, (j - 1) + 1, n) /\ nb2[p[(j - 1) + 1]] = At(p, n)
      BY <1>7, <1>8, <3>1, <3>2
    <3> QED
      BY <3>1, <3>3
  <2> QED
    BY <1>0, <1>1, <2>1, <2>2, <2>3
<1> QED
  BY <1>5, <1>6, <1>9 DEF Rep, p

------------------------------------------------------------------------------
(* An event leaves the line.                                               *)

Take(q, i) == [j \in 1 .. Len(q) - 1 |-> IF j < i THEN q[j] ELSE q[j + 1]]

LEMMA TakePoints ==
  ASSUME NEW q \in Seq(Events), NEW i \in 1 .. Len(q)
  PROVE  /\ Take(q, i) \in Seq(Events) /\ Len(Take(q, i)) = Len(q) - 1
         /\ \A j \in 1 .. i - 1 : Take(q, i)[j] = q[j]
         /\ \A j \in i .. Len(q) - 1 : Take(q, i)[j] = q[j + 1]
<1>0. Len(q) \in Nat /\ Len(q) - 1 \in Nat
  OBVIOUS
<1>1. Take(q, i) \in [1 .. Len(q) - 1 -> Events]
  <2> SUFFICES ASSUME NEW j \in 1 .. Len(q) - 1
               PROVE  (IF j < i THEN q[j] ELSE q[j + 1]) \in Events
    BY DEF Take
  <2>1. j \in 1 .. Len(q) /\ j + 1 \in 1 .. Len(q)
    BY <1>0
  <2> QED
    BY <2>1
<1>2. Take(q, i) \in Seq(Events) /\ Len(Take(q, i)) = Len(q) - 1
  BY <1>0, <1>1
<1>3. ASSUME NEW j \in 1 .. i - 1 PROVE Take(q, i)[j] = q[j]
  <2>1. j \in 1 .. Len(q) - 1 /\ j < i
    BY <1>0
  <2> QED
    BY <2>1 DEF Take
<1>4. ASSUME NEW j \in i .. Len(q) - 1 PROVE Take(q, i)[j] = q[j + 1]
  <2>1. j \in 1 .. Len(q) - 1 /\ ~(j < i)
    BY <1>0
  <2> QED
    BY <2>1 DEF Take
<1> QED
  BY <1>2, <1>3, <1>4

LEMMA TakeGood ==
  ASSUME NEW w, NEW q, Good(q, w), NEW i \in 1 .. Len(q)
  PROVE  Good(Take(q, i), w) /\ Outside(Take(q, i), q[i])
<1> DEFINE r == Take(q, i)
           old(j) == IF j < i THEN j ELSE j + 1
<1>0. Len(q) \in Nat /\ q \in Seq(Events)
  BY DEF Good
<1>1. /\ r \in Seq(Events) /\ Len(r) = Len(q) - 1
      /\ \A j \in 1 .. i - 1 : r[j] = q[j]
      /\ \A j \in i .. Len(q) - 1 : r[j] = q[j + 1]
  BY <1>0, TakePoints, ZenonT(30)
<1> HIDE DEF r
<1>2. ASSUME NEW j \in 1 .. Len(r)
      PROVE  old(j) \in 1 .. Len(q) /\ old(j) # i /\ r[j] = q[old(j)]
  <2>1. /\ old(j) \in 1 .. Len(q) /\ old(j) # i
        /\ \/ j \in 1 .. i - 1 /\ old(j) = j
           \/ j \in i .. Len(q) - 1 /\ old(j) = j + 1
    BY <1>0, <1>1
  <2> HIDE DEF old
  <2> QED
    BY <1>1, <2>1
<1>3. ASSUME NEW j \in 1 .. Len(r), NEW k \in 1 .. Len(r)
      PROVE  (old(j) = old(k) => j = k) /\ (j < k => old(j) < old(k))
  BY <1>0, <1>1
<1> HIDE DEF old
<1>4. ASSUME NEW j \in 1 .. Len(r), NEW k \in 1 .. Len(r), r[j] = r[k] PROVE j = k
  <2>1. q[old(j)] = q[old(k)] /\ old(j) \in 1 .. Len(q) /\ old(k) \in 1 .. Len(q)
    BY <1>2, <1>4
  <2>2. old(j) = old(k)
    BY <2>1 DEF Good
  <2> QED
    BY <1>3, <2>2
<1>5. ASSUME NEW j \in 1 .. Len(r), NEW k \in 1 .. Len(r), j < k
      PROVE  ~Less(w, r[k], r[j])
  <2>1. /\ r[j] = q[old(j)] /\ r[k] = q[old(k)] /\ old(j) \in 1 .. Len(q)
        /\ old(k) \in 1 .. Len(q)
    BY <1>2
  <2>2. old(j) < old(k)
    BY <1>3, <1>5
  <2>3. ~Less(w, q[old(k)], q[old(j)])
    BY <2>1, <2>2 DEF Good
  <2> QED
    BY <2>1, <2>3
<1>6. ASSUME NEW j \in 1 .. Len(r) PROVE r[j] # q[i]
  BY <1>2 DEF Good
<1> QED
  BY <1>1, <1>4, <1>5, <1>6 DEF Good, Outside, r

\* Links as Event::removeItem and the caller leave them when the event at i goes:
\* the top of its bin starts at b, and m is the top of the bin before, if any.
Removed(q, w, i, h, nb, ni, h2, nb2, ni2) ==
  \E b \in 1 .. i, top \in Events \cup {Null} :
    /\ Bnd(q, w, b) /\ \A k \in b .. i : Same(w, q[b], q[k])
    /\ \/ /\ b = i
          /\ top = IF ni[q[i]] = Null THEN nb[q[i]] ELSE ni[q[i]]
          /\ ni2 = ni
       \/ /\ b # i
          /\ top = q[b]
          /\ ni2[q[i - 1]] = ni[q[i]]
          /\ \A f \in Events \ {q[i - 1]} : ni2[f] = ni[f]
    /\ \/ /\ b = 1
          /\ h2 = top
          /\ \A f \in Events : nb2[f] = IF b = i /\ f = ni[q[i]] THEN nb[q[i]] ELSE nb[f]
       \/ /\ b # 1
          /\ h2 = h
          /\ \E m \in 1 .. b - 1 :
               /\ Front(q, w, nb, m, b)
               /\ \A f \in Events :
                    nb2[f] = IF f = q[m] THEN top
                             ELSE IF b = i /\ f = ni[q[i]] THEN nb[q[i]] ELSE nb[f]

LEMMA TakeRep ==
  ASSUME NEW w \in [Events -> Nat], NEW q, Good(q, w), NEW i \in 1 .. Len(q),
         NEW h, NEW nb, NEW ni, NEW h2, NEW nb2, NEW ni2,
         Rep(q, w, h, nb, ni), Removed(q, w, i, h, nb, ni, h2, nb2, ni2)
  PROVE  Rep(Take(q, i), w, h2, nb2, ni2)
<1> DEFINE r == Take(q, i)
<1>0. Len(q) \in Nat /\ q \in Seq(Events)
  BY DEF Good
<1>a. r \in Seq(Events) /\ Len(r) = Len(q) - 1
  BY <1>0, TakePoints
<1>b. /\ \A j \in 1 .. i - 1 : r[j] = q[j]
      /\ \A j \in i .. Len(q) - 1 : r[j] = q[j + 1]
  BY <1>0, TakePoints
<1> HIDE DEF r
<1>g. Len(q) \in Nat /\ i \in Int /\ 1 <= i /\ i <= Len(q)
  BY <1>0
<1>h. Len(r) = Len(q) - 1
  BY <1>a
<1>c. ASSUME NEW n \in i .. Len(q) PROVE At(r, n) = At(q, n + 1)
  <2>1. CASE n \in i .. Len(q) - 1
    <3>1. n <= Len(r) /\ n + 1 <= Len(q)
      BY <1>g, <1>h, <2>1
    <3> QED
      BY <1>b, <2>1, <3>1 DEF At
  <2>2. CASE n = Len(q)
    <3>1. ~(n <= Len(r)) /\ ~(n + 1 <= Len(q))
      BY <1>g, <1>h, <2>2
    <3> QED
      BY <3>1 DEF At
  <2> QED
    BY <1>g, <2>1, <2>2
<1>d. \A j \in 1 .. Len(q) : q[j] \in Events /\ q[j] # Null
  BY <1>0, LinkAssumption
<1>e. \A j, k \in 1 .. Len(q) : q[j] = q[k] => j = k
  BY SMT, ZenonT(30) DEF Good
<1>1. PICK b \in 1 .. i, top \in Events \cup {Null} :
        /\ Bnd(q, w, b) /\ \A k \in b .. i : Same(w, q[b], q[k])
        /\ \/ /\ b = i
              /\ top = IF ni[q[i]] = Null THEN nb[q[i]] ELSE ni[q[i]]
              /\ ni2 = ni
           \/ /\ b # i
              /\ top = q[b]
              /\ ni2[q[i - 1]] = ni[q[i]]
              /\ \A f \in Events \ {q[i - 1]} : ni2[f] = ni[f]
        /\ \/ /\ b = 1
              /\ h2 = top
              /\ \A f \in Events : nb2[f] = IF b = i /\ f = ni[q[i]] THEN nb[q[i]] ELSE nb[f]
           \/ /\ b # 1
              /\ h2 = h
              /\ \E m \in 1 .. b - 1 :
                   /\ Front(q, w, nb, m, b)
                   /\ \A f \in Events :
                        nb2[f] = IF f = q[m] THEN top
                                 ELSE IF b = i /\ f = ni[q[i]] THEN nb[q[i]] ELSE nb[f]
  BY ZenonT(30) DEF Removed
<1>f. b \in 1 .. Len(q) /\ b <= i
  BY <1>g
\* The event is the top of its bin exactly when it starts a run.
<1>2. Bnd(q, w, i) <=> b = i
  <2> SUFFICES ASSUME b # i PROVE ~Bnd(q, w, i)
    BY <1>1
  <2>1. i - 1 \in b .. i /\ i \in b .. i /\ i # 1 /\ i - 1 \in 1 .. Len(q)
    BY <1>g, <1>f
  <2>2. Same(w, q[b], q[i - 1]) /\ Same(w, q[b], q[i])
    BY <1>1, <2>1
  <2>3. q[b] \in Events /\ q[i - 1] \in Events /\ q[i] \in Events
    BY <1>d, <1>f, <2>1
  <2>4. Same(w, q[i - 1], q[i])
    BY <2>2, <2>3, OrderFacts, SMT, ZenonT(30)
  <2> QED
    BY <2>1, <2>4 DEF Bnd
<1>3. ni[q[i]] = IF i < Len(q) /\ Same(w, q[i], q[i + 1]) THEN q[i + 1] ELSE Null
  BY SMT, ZenonT(30) DEF Rep
\* Then what takes its place is the event after it.
<1>4. b = i => top = At(q, i + 1)
  <2> SUFFICES ASSUME b = i PROVE top = At(q, i + 1)
    OBVIOUS
  <2>1. CASE ni[q[i]] # Null
    <3>1. i < Len(q) /\ ni[q[i]] = q[i + 1] /\ i + 1 <= Len(q)
      BY <1>g, <1>3, <2>1, SMT, ZenonT(30)
    <3> QED
      BY <1>1, <2>1, <3>1, SMT, ZenonT(30) DEF At
  <2>2. CASE ni[q[i]] = Null
    <3>1. i < Len(q) => ~Same(w, q[i], q[i + 1])
      <4> SUFFICES ASSUME i < Len(q) PROVE ~Same(w, q[i], q[i + 1])
        OBVIOUS
      <4>1. i + 1 \in 1 .. Len(q)
        BY <1>g
      <4> QED
        BY <1>3, <1>d, <2>2, <4>1
    <3>2. PICK n \in i + 1 .. Len(q) + 1 : Run(q, w, i, n) /\ nb[q[i]] = At(q, n)
      BY <1>2 DEF Rep
    <3>3. ~(i + 1 < n)
      <4> SUFFICES ASSUME i + 1 < n PROVE FALSE
        OBVIOUS
      <4>1. i + 1 \in i + 1 .. n - 1 /\ i < Len(q)
        BY <1>g
      <4> QED
        BY <3>1, <3>2, <4>1 DEF Run
    <3>4. n = i + 1
      BY <1>g, <3>3
    <3> QED
      BY <1>1, <2>2, <3>2, <3>4, SMT, ZenonT(30)
  <2> QED
    BY <2>1, <2>2
\* Which links between bins change.
<1>5. ASSUME NEW j \in 1 .. Len(q), b = i => j # i + 1 \/ ~Same(w, q[i], q[i + 1]),
             j >= b \/ nb[q[j]] # q[b]
      PROVE  nb2[q[j]] = nb[q[j]]
  <2>1. ~(b = i /\ q[j] = ni[q[i]])
    <3> SUFFICES ASSUME b = i, q[j] = ni[q[i]] PROVE FALSE
      OBVIOUS
    <3>1. i < Len(q) /\ Same(w, q[i], q[i + 1]) /\ q[j] = q[i + 1]
      BY <1>3, <1>d
    <3>2. i + 1 \in 1 .. Len(q)
      BY <1>g, <3>1
    <3> QED
      BY <1>5, <1>e, <3>1, <3>2
  <2>2. CASE b = 1
    BY <1>1, <1>d, <2>1, <2>2
  <2>3. CASE b # 1
    <3>1. PICK m \in 1 .. b - 1 :
            /\ Front(q, w, nb, m, b)
            /\ \A f \in Events :
                 nb2[f] = IF f = q[m] THEN top
                          ELSE IF b = i /\ f = ni[q[i]] THEN nb[q[i]] ELSE nb[f]
      BY <1>1, <2>3
    <3>2. m \in 1 .. Len(q) /\ m < b /\ At(q, b) = q[b]
      BY <1>g, <1>f DEF At
    <3>3. q[j] # q[m]
      <4>1. nb[q[m]] = q[b]
        BY <3>1, <3>2 DEF Front
      <4>2. j # m
        BY <1>5, <1>g, <1>f, <3>2, <4>1
      <4> QED
        BY <1>e, <3>2, <4>2, SMT, ZenonT(30)
    <3> QED
      BY <1>d, <2>1, <3>1, <3>3, SMT, ZenonT(30)
  <2> QED
    BY <2>2, <2>3
<1>6. h2 = At(r, 1)
  <2>1. CASE b = 1 /\ i = 1
    <3>1. 1 \in i .. Len(q)
      BY <1>g, <2>1, SMT, ZenonT(30)
    <3> QED
      BY <1>1, <1>4, <1>c, <2>1, <3>1
  <2>2. CASE i # 1
    <3>1. 1 \in 1 .. i - 1 /\ 1 <= Len(r) /\ 1 <= Len(q)
      BY <1>g, <1>h, <2>2
    <3>2. At(r, 1) = q[1] /\ At(q, 1) = q[1]
      BY <1>b, <3>1 DEF At
    <3> QED
      BY <1>1, <2>2, <3>2 DEF Rep
  <2> QED
    BY <1>g, <1>f, <2>1, <2>2
<1>7. ASSUME NEW j \in 1 .. Len(r)
      PROVE  ni2[r[j]] = IF j < Len(r) /\ Same(w, r[j], r[j + 1]) THEN r[j + 1] ELSE Null
  <2>1. CASE j < i - 1
    <3>1. /\ j \in 1 .. Len(q) /\ j \in 1 .. i - 1 /\ j + 1 \in 1 .. i - 1
          /\ j < Len(r) /\ j < Len(q) /\ i - 1 \in 1 .. Len(q) /\ j # i - 1
      BY <1>g, <1>h, <2>1
    <3>2. q[j] # q[i - 1]
      BY <1>e, <3>1, SMT, ZenonT(30)
    <3>3. ni2[q[j]] = ni[q[j]]
      BY <1>1, <1>d, <3>1, <3>2, SMT, ZenonT(30)
    <3>4. r[j] = q[j] /\ r[j + 1] = q[j + 1]
      BY <1>b, <3>1
    <3> QED
      BY <3>1, <3>3, <3>4 DEF Rep
  <2>2. CASE j = i - 1
    <3>1. /\ j \in 1 .. Len(q) /\ j \in 1 .. i - 1 /\ j + 1 = i /\ j < Len(q) /\ i # 1
          /\ (j < Len(r) <=> i < Len(q)) /\ (i < Len(q) => i \in i .. Len(q) - 1)
          /\ (i < Len(q) => i + 1 \in 1 .. Len(q))
      BY <1>g, <1>h, <2>2
    <3>2. r[j] = q[i - 1] /\ (i < Len(q) => r[j + 1] = q[i + 1])
      BY <1>b, <2>2, <3>1
    <3>3. q[i - 1] \in Events /\ q[i] \in Events /\ (i < Len(q) => q[i + 1] \in Events)
      BY <1>d, <2>2, <3>1, SMT, ZenonT(30)
    <3>4. CASE b = i
      <4>1. ~Same(w, q[i - 1], q[i])
        BY <1>2, <3>1, <3>4 DEF Bnd
      <4>2. i < Len(q) => ~Same(w, q[i - 1], q[i + 1])
        <5> SUFFICES ASSUME i < Len(q), Same(w, q[i - 1], q[i + 1]) PROVE FALSE
          OBVIOUS
        <5>1. i - 1 \in 1 .. Len(q) /\ i + 1 \in 1 .. Len(q) /\ i - 1 <= i /\ i <= i + 1
          BY <1>g, <2>2, <3>1
        <5> QED
          BY <4>1, <5>1, Between
      <4>3. ni[q[i - 1]] = Null
        BY <2>2, <3>1, <4>1 DEF Rep
      <4> QED
        BY <1>1, <3>1, <3>2, <3>4, <4>2, <4>3
    <3>5. CASE b # i
      <4>1. Same(w, q[i - 1], q[i])
        BY <1>2, <3>1, <3>5 DEF Bnd
      <4>2. i < Len(q) => (Same(w, q[i - 1], q[i + 1]) <=> Same(w, q[i], q[i + 1]))
        BY <3>3, <4>1, OrderFacts, SMT, ZenonT(30)
      <4>3. ni2[q[i - 1]] = ni[q[i]]
        BY <1>1, <3>5
      <4> QED
        BY <1>3, <3>1, <3>2, <4>2, <4>3
    <3> QED
      BY <3>4, <3>5
  <2>3. CASE j >= i
    <3>1. /\ j \in i .. Len(q) - 1 /\ j + 1 \in 1 .. Len(q)
          /\ (j < Len(r) <=> j + 1 < Len(q)) /\ (j < Len(r) => j + 1 \in i .. Len(q) - 1)
          /\ (i # 1 => i - 1 \in 1 .. Len(q)) /\ j + 1 # i - 1 /\ (b # i => i # 1)
      BY <1>g, <1>h, <1>f, <2>3
    <3>2. r[j] = q[j + 1] /\ (j < Len(r) => r[j + 1] = q[(j + 1) + 1])
      BY <1>b, <3>1
    <3>3. b # i => q[j + 1] # q[i - 1]
      BY <1>e, <3>1, SMT, ZenonT(30)
    <3>4. ni2[q[j + 1]] = ni[q[j + 1]]
      BY <1>1, <1>d, <3>1, <3>3, SMT, ZenonT(30)
    <3> QED
      BY <3>1, <3>2, <3>4 DEF Rep
  <2> QED
    BY <1>g, <1>h, <2>1, <2>2, <2>3
\* Behind the gap a bin is as it was, one position earlier.
<1>8. ASSUME NEW j \in i .. Len(q) - 1, NEW a \in 1 .. Len(q), a = j \/ a = j + 1,
             NEW n \in j + 2 .. Len(q) + 1, Run(q, w, a, n), Same(w, q[a], q[j + 1]),
             nb2[q[j + 1]] = At(q, n)
      PROVE  \E k \in j + 1 .. Len(r) + 1 : Run(r, w, j, k) /\ nb2[r[j]] = At(r, k)
  <2>0. r[j] = q[j + 1] /\ j + 1 \in 1 .. Len(q)
    <3>1. r[j] = q[j + 1]
      BY <1>b
    <3>2. j + 1 \in 1 .. Len(q)
      BY <1>g
    <3> QED
      BY <3>1, <3>2
  <2>1. n - 1 \in j + 1 .. Len(r) + 1 /\ n - 1 \in i .. Len(q) /\ (n - 1) + 1 = n
    BY <1>g, <1>h, SMT, ZenonT(30)
  <2>2. ASSUME NEW k \in j + 1 .. (n - 1) - 1 PROVE Same(w, r[j], r[k])
    <3>1. k \in i .. Len(q) - 1 /\ k + 1 \in a + 1 .. n - 1 /\ k + 1 \in 1 .. Len(q)
      <4>1. a \in Int /\ j \in Int /\ n \in Int /\ k \in Int /\ a <= j + 1
        BY <1>g, <1>8
      <4>2. i <= j /\ n <= Len(q) + 1 /\ j + 1 <= k /\ k <= (n - 1) - 1
        BY <1>g
      <4> QED
        BY <1>g, <4>1, <4>2
    <3>2. r[k] = q[k + 1] /\ Same(w, q[a], q[k + 1])
      BY <1>b, <1>8, <3>1 DEF Run
    <3>3. q[a] \in Events /\ q[j + 1] \in Events /\ q[k + 1] \in Events
      BY <1>d, <2>0, <3>1, ZenonT(30)
    <3> QED
      BY <1>8, <2>0, <3>2, <3>3, OrderFacts, SMT, ZenonT(30)
  <2>3. n - 1 <= Len(r) => ~Same(w, r[j], r[n - 1])
    <3> SUFFICES ASSUME n - 1 <= Len(r) PROVE ~Same(w, r[j], r[n - 1])
      OBVIOUS
    <3>1. n <= Len(q) /\ n \in 1 .. Len(q) /\ n - 1 \in i .. Len(q) - 1
      BY <1>g, <1>h, <2>1
    <3>2. r[n - 1] = q[n] /\ ~Same(w, q[a], q[n])
      BY <1>b, <1>8, <2>1, <3>1 DEF Run
    <3>3. q[a] \in Events /\ q[j + 1] \in Events /\ q[n] \in Events
      BY <1>d, <2>0, <3>1, ZenonT(30)
    <3> QED
      BY <1>8, <2>0, <3>2, <3>3, OrderFacts, SMT, ZenonT(30)
  <2>4. Run(r, w, j, n - 1)
    BY <2>2, <2>3 DEF Run
  <2>5. nb2[r[j]] = At(r, n - 1)
    BY <1>8, <1>c, <2>0, <2>1
  <2> QED
    BY <2>1, <2>4, <2>5, SMT, ZenonT(30)
<1>9. ASSUME NEW j \in 1 .. Len(r), Bnd(r, w, j)
      PROVE  \E n \in j + 1 .. Len(r) + 1 : Run(r, w, j, n) /\ nb2[r[j]] = At(r, n)
  <2>1. CASE j < i
    <3>a. j \in 1 .. Len(q) /\ j \in 1 .. i - 1 /\ (j # 1 => j - 1 \in 1 .. i - 1)
      BY <1>g, <1>h, <2>1
    <3>0. j \in 1 .. Len(q) /\ j \in 1 .. i - 1 /\ r[j] = q[j]
          /\ (j # 1 => j - 1 \in 1 .. i - 1)
      BY <1>b, <3>a
    <3>1. Bnd(q, w, j)
      BY <1>9, <1>b, <3>0 DEF Bnd
    <3>2. PICK n \in j + 1 .. Len(q) + 1 : Run(q, w, j, n) /\ nb[q[j]] = At(q, n)
      BY <3>0, <3>1 DEF Rep
    <3>3. CASE n < i
      <4>1. n \in 1 .. i - 1 /\ n \in 1 .. Len(q) /\ n <= Len(r) /\ n <= Len(q)
            /\ n \in j + 1 .. Len(r) + 1
        BY <1>g, <1>h, <3>a, <3>3
      <4>2. At(q, n) = q[n] /\ At(r, n) = q[n] /\ r[n] = q[n]
        BY <1>b, <4>1 DEF At
      <4>3. ASSUME NEW k \in j + 1 .. n - 1 PROVE Same(w, r[j], r[k])
        <5>1. k \in 1 .. i - 1
          BY <1>g, <3>0, <3>3
        <5> QED
          BY <1>b, <3>0, <3>2, <5>1 DEF Run
      <4>4. Run(r, w, j, n)
        BY <3>0, <3>2, <4>1, <4>2, <4>3, SMT, ZenonT(30) DEF Run
      <4>5. nb2[q[j]] = q[n]
        <5>1. CASE n = b
          <6>1. b # i /\ b # 1
            BY <1>g, <3>a, <3>3, <5>1
          <6>2. \A f \in Events : nb2[f] = nb[f] \/ nb2[f] = top
            BY <1>1, <6>1, SMT, ZenonT(30)
          <6> QED
            BY <1>1, <1>d, <3>0, <3>2, <4>2, <5>1, <6>1, <6>2, ZenonT(30)
        <5>2. CASE n # b
          <6>1. nb[q[j]] # q[b]
            BY <1>e, <1>f, <3>2, <4>1, <4>2, <5>2
          <6>2. j # i + 1
            BY <1>g, <2>1
          <6> QED
            BY <1>5, <3>0, <3>2, <4>2, <6>1, <6>2, SMT, ZenonT(30)
        <5> QED
          BY <5>1, <5>2, SMT, ZenonT(30)
      <4> QED
        BY <3>0, <4>1, <4>2, <4>4, <4>5
    <3>4. CASE n = i
      <4>1. \A k \in j .. i - 1 : Same(w, q[j], q[k])
        <5> SUFFICES ASSUME NEW k \in j .. i - 1 PROVE Same(w, q[j], q[k])
          OBVIOUS
        <5>1. k = j \/ k \in j + 1 .. n - 1
          BY <1>g, <3>4
        <5> QED
          BY <1>d, <3>0, <3>2, <5>1, OrderFacts, ZenonT(30) DEF Run
      <4>2. /\ i # 1 /\ i - 1 \in j .. i - 1 /\ i - 1 \in 1 .. Len(q) /\ i \in 2 .. Len(q) + 1
            /\ i <= Len(q)
        BY <1>g, <3>0
      <4>3. ~Same(w, q[j], q[i]) /\ Same(w, q[j], q[i - 1])
        BY <3>2, <3>4, <4>1, <4>2 DEF Run
      <4>4. ~Same(w, q[i - 1], q[i])
        <5>1. q[j] \in Events /\ q[i] \in Events /\ q[i - 1] \in Events
          BY <1>d, <3>0, <4>2, SMT, ZenonT(30)
        <5> QED
          BY <4>3, <5>1, OrderFacts, SMT, ZenonT(30)
      <4>5. b = i
        BY <1>2, <4>4 DEF Bnd
      <4>6. PICK m \in 1 .. i - 1 : Front(q, w, nb, m, i) /\ nb2[q[m]] = top
        <5>1. ASSUME NEW m \in 1 .. i - 1 PROVE q[m] \in Events
          <6>1. m \in 1 .. Len(q)
            BY <1>g, SMT, ZenonT(30)
          <6> QED
            BY <1>d, <6>1
        <5> QED
          BY <1>1, <4>2, <4>5, <5>1
      <4>7. j = m
        BY <3>0, <3>1, <4>1, <4>2, <4>6, OneFront, SMT, ZenonT(30) DEF Front
      <4>8. i \in i .. Len(q) /\ i \in j + 1 .. Len(r) + 1
            /\ (i <= Len(r) => i \in i .. Len(q) - 1 /\ i + 1 \in 1 .. Len(q) /\ j <= i /\ i <= i + 1)
        BY <1>g, <1>h, <3>a
      <4>9. nb2[r[j]] = At(r, i)
        BY <1>4, <1>c, <3>0, <4>5, <4>6, <4>7, <4>8
      <4>10. i <= Len(r) => ~Same(w, r[j], r[i])
        <5> SUFFICES ASSUME i <= Len(r), Same(w, r[j], r[i]) PROVE FALSE
          OBVIOUS
        <5>1. Same(w, q[j], q[i + 1])
          BY <1>b, <3>0, <4>8
        <5> QED
          BY <3>0, <4>3, <4>8, <5>1, Between, ZenonT(30)
      <4>11. ASSUME NEW k \in j + 1 .. i - 1 PROVE Same(w, r[j], r[k])
        <5>1. k \in 1 .. i - 1 /\ k \in j .. i - 1
          BY <1>g, <3>a
        <5> QED
          BY <1>b, <3>0, <4>1, <5>1, ZenonT(30)
      <4>12. Run(r, w, j, i)
        BY <4>10, <4>11, SMT, ZenonT(30) DEF Run
      <4> QED
        BY <4>8, <4>9, <4>12, SMT, ZenonT(30)
    <3>5. CASE n > i
      <4>1. /\ n - 1 \in j + 1 .. Len(r) + 1 /\ n - 1 \in i .. Len(q) /\ (n - 1) + 1 = n
            /\ n # b /\ j # i + 1
        BY <1>g, <1>h, <1>f, <2>1, <3>0, <3>5, SMT, ZenonT(30)
      <4>2. ASSUME NEW k \in j + 1 .. (n - 1) - 1 PROVE Same(w, r[j], r[k])
        <5>1. CASE k < i
          <6>1. k \in 1 .. i - 1 /\ k \in j + 1 .. n - 1
            BY <1>g, <3>0, <5>1, SMT, ZenonT(30)
          <6> QED
            BY <1>b, <3>0, <3>2, <6>1, ZenonT(30) DEF Run
        <5>2. CASE k >= i
          <6>1. k \in i .. Len(q) - 1 /\ k + 1 \in j + 1 .. n - 1
            BY <1>g, <3>a, <5>2, SMT, ZenonT(30)
          <6> QED
            BY <1>b, <3>0, <3>2, <6>1, ZenonT(30) DEF Run
        <5> QED
          BY <1>g, <3>0, <5>1, <5>2, SMT, ZenonT(30)
      <4>3. n - 1 <= Len(r) => ~Same(w, r[j], r[n - 1])
        <5> SUFFICES ASSUME n - 1 <= Len(r) PROVE ~Same(w, r[j], r[n - 1])
          OBVIOUS
        <5>1. n <= Len(q) /\ n - 1 \in i .. Len(q) - 1
          BY <1>g, <1>h, <4>1
        <5> QED
          BY <1>b, <3>0, <3>2, <4>1, <5>1 DEF Run
      <4>4. Run(r, w, j, n - 1)
        BY <4>2, <4>3 DEF Run
      <4>5. At(q, n) # q[b]
        BY <1>g, <1>d, <1>e, <1>f, <4>1, SMT, ZenonT(30) DEF At
      <4>6. nb2[q[j]] = nb[q[j]]
        BY <1>5, <3>0, <3>2, <4>1, <4>5, SMT, ZenonT(30)
      <4>7. nb2[r[j]] = At(r, n - 1)
        BY <1>c, <3>0, <3>2, <4>1, <4>6, SMT, ZenonT(30)
      <4> QED
        BY <4>1, <4>4, <4>7, SMT, ZenonT(30)
    <3> QED
      BY <1>g, <3>3, <3>4, <3>5
  <2>2. CASE j = i /\ Same(w, q[i], q[i + 1])
    <3>0. j \in i .. Len(q) - 1 /\ i + 1 \in 1 .. Len(q) /\ i < Len(q)
          /\ (i # 1 => i - 1 \in 1 .. i - 1 /\ i - 1 \in 1 .. Len(q))
      BY <1>g, <1>h, <2>2
    <3>1. r[j] = q[i + 1] /\ (i # 1 => r[i - 1] = q[i - 1])
      BY <1>b, <2>2, <3>0, SMT, ZenonT(30)
    <3>2. Bnd(q, w, i)
      <4> SUFFICES ASSUME i # 1, Same(w, q[i - 1], q[i]) PROVE FALSE
        BY DEF Bnd
      <4>1. q[i - 1] \in Events /\ q[i] \in Events /\ q[i + 1] \in Events
        BY <1>d, <3>0
      <4>2. Same(w, q[i - 1], q[i + 1])
        BY <2>2 DEF Same
      <4> QED
        BY <1>9, <2>2, <3>1, <4>2 DEF Bnd
    <3>3. PICK n \in i + 1 .. Len(q) + 1 : Run(q, w, i, n) /\ nb[q[i]] = At(q, n)
      BY <3>2, ZenonT(30) DEF Rep
    <3>4. n # i + 1
      <4> SUFFICES ASSUME n = i + 1 PROVE FALSE
        OBVIOUS
      <4>1. n <= Len(q)
        BY <1>g, <3>0
      <4>2. ~Same(w, q[i], q[n])
        BY <3>3, <4>1 DEF Run
      <4> QED
        BY <2>2, <4>2
    <3>5. n \in j + 2 .. Len(q) + 1
      BY <1>g, <2>2, <3>4
    <3>6. ni[q[i]] = q[i + 1] /\ q[i + 1] \in Events
      BY <1>3, <1>d, <2>2, <3>0
    <3>7. \A m \in 1 .. i - 1 : q[i + 1] # q[m]
      <4> SUFFICES ASSUME NEW m \in 1 .. i - 1 PROVE q[i + 1] # q[m]
        OBVIOUS
      <4>1. m \in 1 .. Len(q) /\ m # i + 1
        BY <1>g, SMT, ZenonT(30)
      <4> QED
        BY <1>e, <3>0, <4>1
    <3>8. nb2[q[i + 1]] = nb[q[i]]
      <4>1. b = i
        BY <1>2, <3>2
      <4> QED
        BY <1>1, <3>6, <3>7, <4>1, SMT, ZenonT(30)
    <3> QED
      BY <1>8, <2>2, <3>0, <3>3, <3>5, <3>8, SMT, ZenonT(30)
  <2>3. CASE j >= i /\ ~(j = i /\ Same(w, q[i], q[i + 1]))
    <3>0. /\ j \in i .. Len(q) - 1 /\ j + 1 \in 1 .. Len(q) /\ j + 1 # 1 /\ (j + 1) - 1 = j
          /\ j + 1 >= b /\ (j > i => j - 1 \in i .. Len(q) - 1 /\ (j - 1) + 1 = j /\ j # 1)
          /\ (j + 1 = i + 1 <=> j = i) /\ j \in Int /\ (j > i \/ j = i)
      BY <1>g, <1>h, <1>f, <2>3
    <3>1. r[j] = q[j + 1] /\ (j > i => r[j - 1] = q[j])
      <4>1. j > i => r[j - 1] = q[(j - 1) + 1]
        BY <1>b, <3>0, SMT, ZenonT(30)
      <4> QED
        BY <1>b, <3>0, <4>1
    <3>2. Bnd(q, w, j + 1)
      BY <1>9, <2>3, <3>0, <3>1, SMT, ZenonT(30) DEF Bnd
    <3>3. PICK n \in (j + 1) + 1 .. Len(q) + 1 : Run(q, w, j + 1, n) /\ nb[q[j + 1]] = At(q, n)
      BY <3>0, <3>2, SMT, ZenonT(30) DEF Rep
    <3>4. nb2[q[j + 1]] = nb[q[j + 1]]
      BY <1>5, <2>3, <3>0
    <3>5. n \in j + 2 .. Len(q) + 1
      BY <3>0, SMT, ZenonT(30)
    <3>6. Same(w, q[j + 1], q[j + 1])
      BY DEF Same
    <3> QED
      BY <1>8, <3>0, <3>3, <3>4, <3>5, <3>6
  <2> QED
    BY <1>g, <1>h, <2>1, <2>2, <2>3
<1> QED
  BY <1>6, <1>7, <1>9 DEF Rep, r

------------------------------------------------------------------------------
(* The place of an event, other times, and the scheduled events.           *)

\* Only the times of the events in the line matter.
LEMMA Transfer ==
  ASSUME NEW w, NEW w2, NEW q, Good(q, w), \A j \in 1 .. Len(q) : w2[q[j]] = w[q[j]],
         NEW h, NEW nb, NEW ni, Rep(q, w, h, nb, ni)
  PROVE  Good(q, w2) /\ Rep(q, w2, h, nb, ni)
<1>0. q \in Seq(Events)
  BY ZenonT(30) DEF Good
<1>9. Len(q) \in Nat
  BY <1>0
<1>1. \A j, k \in 1 .. Len(q) : /\ Less(w2, q[j], q[k]) <=> Less(w, q[j], q[k])
                                /\ Same(w2, q[j], q[k]) <=> Same(w, q[j], q[k])
  BY DEF Less, Same
<1>2. Good(q, w2)
  BY <1>1 DEF Good
<1>3. ASSUME NEW i \in 1 .. Len(q)
      PROVE  ni[q[i]] = IF i < Len(q) /\ Same(w2, q[i], q[i + 1]) THEN q[i + 1] ELSE Null
  <2>1. i < Len(q) => i + 1 \in 1 .. Len(q)
    BY <1>0, <1>9
  <2> QED
    BY <1>1, <2>1 DEF Rep
<1>4. ASSUME NEW i \in 1 .. Len(q), Bnd(q, w2, i)
      PROVE  \E n \in i + 1 .. Len(q) + 1 : Run(q, w2, i, n) /\ nb[q[i]] = At(q, n)
  <2>1. i # 1 => i - 1 \in 1 .. Len(q)
    BY <1>0, <1>9
  <2>2. Bnd(q, w, i)
    BY <1>1, <1>4, <2>1, SMT, ZenonT(30) DEF Bnd
  <2>3. PICK n \in i + 1 .. Len(q) + 1 : Run(q, w, i, n) /\ nb[q[i]] = At(q, n)
    BY <2>2 DEF Rep
  <2>4. n <= Len(q) => n \in 1 .. Len(q)
    BY <1>0, <1>9
  <2>5. \A k \in i + 1 .. n - 1 : k \in 1 .. Len(q)
    BY <1>0, <1>9
  <2>6. Run(q, w2, i, n)
    BY <1>1, <2>3, <2>4, <2>5 DEF Run
  <2> QED
    BY <2>3, <2>6
<1> QED
  BY <1>2, <1>3, <1>4, SMT, ZenonT(30) DEF Rep

\* The links reach exactly the scheduled events.
Reaches(q, s) == \A e \in Events : s[e] <=> \E j \in 1 .. Len(q) : q[j] = e

LEMMA PutReaches ==
  ASSUME NEW q \in Seq(Events), NEW i \in 1 .. Len(q) + 1, NEW e \in Events,
         NEW s \in [Events -> BOOLEAN], Reaches(q, s)
  PROVE  Reaches(Put(q, i, e), [s EXCEPT ![e] = TRUE])
<1> DEFINE p == Put(q, i, e)
<1>0. Len(q) \in Nat
  OBVIOUS
<1>1. /\ Len(p) = Len(q) + 1 /\ p[i] = e
      /\ \A j \in 1 .. i - 1 : p[j] = q[j]
      /\ \A j \in i .. Len(q) : p[j + 1] = q[j]
      /\ \A j \in i + 1 .. Len(q) + 1 : p[j] = q[j - 1]
  BY PutPoints DEF Joined
<1> HIDE DEF p
<1>2. ASSUME NEW f \in Events, NEW j \in 1 .. Len(q), q[j] = f
      PROVE  \E k \in 1 .. Len(p) : p[k] = f
  <2>1. CASE j < i
    <3>1. j \in 1 .. i - 1 /\ j \in 1 .. Len(p)
      BY <1>0, <1>1, <2>1
    <3> QED
      BY <1>1, <1>2, <3>1
  <2>2. CASE j >= i
    <3>1. j \in i .. Len(q) /\ j + 1 \in 1 .. Len(p)
      BY <1>0, <1>1, <2>2
    <3> QED
      BY <1>1, <1>2, <3>1
  <2> QED
    BY <1>0, <2>1, <2>2
<1>3. ASSUME NEW f \in Events, NEW k \in 1 .. Len(p), p[k] = f, f # e
      PROVE  \E j \in 1 .. Len(q) : q[j] = f
  <2>1. k # i
    BY <1>1, <1>3
  <2>2. CASE k < i
    <3>1. k \in 1 .. i - 1 /\ k \in 1 .. Len(q)
      BY <1>0, <1>1, <2>2
    <3> QED
      BY <1>1, <1>3, <3>1
  <2>3. CASE k > i
    <3>1. k \in i + 1 .. Len(q) + 1 /\ k - 1 \in 1 .. Len(q)
      BY <1>0, <1>1, <2>3
    <3> QED
      BY <1>1, <1>3, <3>1
  <2> QED
    BY <1>0, <1>1, <2>1, <2>2, <2>3
<1>4. \E k \in 1 .. Len(p) : p[k] = e
  BY <1>0, <1>1
<1> SUFFICES ASSUME NEW f \in Events
             PROVE  [s EXCEPT ![e] = TRUE][f] <=> \E k \in 1 .. Len(p) : p[k] = f
  BY DEF Reaches, p
<1>5. CASE f = e
  BY <1>4, <1>5
<1>6. CASE f # e
  <2>1. [s EXCEPT ![e] = TRUE][f] = s[f]
    BY <1>6
  <2>2. s[f] <=> \E j \in 1 .. Len(q) : q[j] = f
    BY DEF Reaches
  <2> QED
    BY <1>2, <1>3, <1>6, <2>1, <2>2, Zenon
<1> QED
  BY <1>5, <1>6

LEMMA TakeReaches ==
  ASSUME NEW q \in Seq(Events), NEW i \in 1 .. Len(q), NEW s \in [Events -> BOOLEAN],
         Reaches(q, s), \A j, k \in 1 .. Len(q) : q[j] = q[k] => j = k
  PROVE  Reaches(Take(q, i), [s EXCEPT ![q[i]] = FALSE])
<1> DEFINE r == Take(q, i)
<1>0. Len(q) \in Nat /\ q[i] \in Events
  OBVIOUS
<1>1. /\ Len(r) = Len(q) - 1
      /\ \A j \in 1 .. i - 1 : r[j] = q[j]
      /\ \A j \in i .. Len(q) - 1 : r[j] = q[j + 1]
  BY TakePoints
<1> HIDE DEF r
<1>2. ASSUME NEW f \in Events, f # q[i], NEW j \in 1 .. Len(q), q[j] = f
      PROVE  \E k \in 1 .. Len(r) : r[k] = f
  <2>0. j # i
    BY <1>2
  <2>1. CASE j < i
    <3>1. j \in 1 .. i - 1 /\ j \in 1 .. Len(r)
      BY <1>0, <1>1, <2>1
    <3> QED
      BY <1>1, <1>2, <3>1
  <2>2. CASE j > i
    <3>1. j - 1 \in i .. Len(q) - 1 /\ j - 1 \in 1 .. Len(r) /\ (j - 1) + 1 = j
      BY <1>0, <1>1, <2>2
    <3> QED
      BY <1>1, <1>2, <3>1, ZenonT(30)
  <2> QED
    BY <1>0, <2>0, <2>1, <2>2
<1>3. ASSUME NEW f \in Events, NEW k \in 1 .. Len(r), r[k] = f
      PROVE  f # q[i] /\ \E j \in 1 .. Len(q) : q[j] = f
  <2>1. CASE k < i
    <3>1. k \in 1 .. i - 1 /\ k \in 1 .. Len(q) /\ k # i
      BY <1>0, <1>1, <2>1
    <3> QED
      BY <1>1, <1>3, <3>1
  <2>2. CASE k >= i
    <3>1. k \in i .. Len(q) - 1 /\ k + 1 \in 1 .. Len(q) /\ k + 1 # i
      BY <1>0, <1>1, <2>2
    <3> QED
      BY <1>1, <1>3, <3>1
  <2> QED
    BY <1>0, <1>1, <2>1, <2>2
<1> SUFFICES ASSUME NEW f \in Events
             PROVE  [s EXCEPT ![q[i]] = FALSE][f] <=> \E k \in 1 .. Len(r) : r[k] = f
  BY DEF Reaches, r
<1>5. CASE f = q[i]
  BY <1>0, <1>3, <1>5
<1>6. CASE f # q[i]
  <2>1. [s EXCEPT ![q[i]] = FALSE][f] = s[f]
    BY <1>0, <1>6
  <2>2. s[f] <=> \E j \in 1 .. Len(q) : q[j] = f
    BY DEF Reaches
  <2> QED
    BY <1>2, <1>3, <1>6, <2>1, <2>2, Zenon
<1> QED
  BY <1>5, <1>6

LEMMA TailTake ==
  ASSUME NEW q \in Seq(Events), q # <<>>
  PROVE  Take(q, 1) = Tail(q)
<1>1. Len(q) \in Nat /\ 1 \in 1 .. Len(q)
  OBVIOUS
<1>2. /\ Take(q, 1) \in Seq(Events) /\ Len(Take(q, 1)) = Len(q) - 1
      /\ \A j \in 1 .. Len(q) - 1 : Take(q, 1)[j] = q[j + 1]
  BY <1>1, TakePoints
<1>3. /\ Tail(q) \in Seq(Events) /\ Len(Tail(q)) = Len(q) - 1
      /\ \A j \in 1 .. Len(q) - 1 : Tail(q)[j] = q[j + 1]
  OBVIOUS
<1> QED
  BY <1>1, <1>2, <1>3
==============================================================================
