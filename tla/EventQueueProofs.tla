-------------------------- MODULE EventQueueProofs --------------------------
(***************************************************************************)
(* The linked bins of eventq.cpp implement the line of EventOrder, for any *)
(* events, priorities, delays and run limit: whatever is scheduled,        *)
(* descheduled and serviced, and whatever stale links are left behind.     *)
(***************************************************************************)
EXTENDS EventQueue, EventLines, FiniteSetTheorems, WellFoundedInduction

(* Places in a line.                                                       *)

LEMMA Least ==
  ASSUME NEW T \in SUBSET Nat, T # {}
  PROVE  \E x \in T : \A y \in T : x <= y
<1> DEFINE R == {r \in Nat \X Nat : r[1] < r[2]}
<1>1. IsWellFoundedOn(R, Nat)
  BY NatLessThanWellFounded DEF OpToRel
<1>2. PICK x \in T : \A y \in T : <<y, x>> \notin R
  BY <1>1, WFMin, ZenonT(30)
<1>3. ASSUME NEW y \in T PROVE x <= y
  <2>1. <<y, x>> \notin R /\ x \in Nat /\ y \in Nat
    BY <1>2
  <2> QED
    BY <2>1
<1> QED
  BY <1>3

\* The run that position i is in starts somewhere.
LEMMA RunStart ==
  ASSUME NEW w \in [Events -> Nat], NEW q, Good(q, w), NEW i \in 1 .. Len(q)
  PROVE  \E m \in 1 .. i : Bnd(q, w, m) /\ \A k \in m .. i : Same(w, q[m], q[k])
<1> DEFINE T == {m \in 1 .. i : Same(w, q[m], q[i])}
<1>0. Len(q) \in Nat /\ q \in Seq(Events)
  BY DEF Good
<1>1. T \in SUBSET Nat /\ i \in T
  BY <1>0, OrderFacts
<1>2. PICK m \in T : \A j \in T : m <= j
  BY <1>1, Least, ZenonT(30)
<1>3. m \in 1 .. i /\ m \in 1 .. Len(q) /\ Same(w, q[m], q[i])
  BY <1>0, <1>2
<1>4. ASSUME NEW k \in m .. i PROVE Same(w, q[m], q[k])
  <2>1. k \in 1 .. Len(q) /\ m <= k /\ k <= i
    BY <1>0, <1>3
  <2> QED
    BY <1>3, <2>1, Between
<1>5. Bnd(q, w, m)
  <2> SUFFICES ASSUME m # 1, Same(w, q[m - 1], q[m]) PROVE FALSE
    BY DEF Bnd
  <2>1. m - 1 \in 1 .. i /\ m - 1 \in 1 .. Len(q)
    BY <1>0, <1>3
  <2>2. q[m - 1] \in Events /\ q[m] \in Events /\ q[i] \in Events
    BY <1>0, <1>3, <2>1
  <2>3. Same(w, q[m - 1], q[i])
    BY <1>3, <2>2, OrderFacts
  <2>4. m <= m - 1
    BY <1>2, <2>1, <2>3
  <2> QED
    BY <1>3, <2>4
<1> QED
  BY <1>3, <1>4, <1>5

LEMMA PlaceExists ==
  ASSUME NEW w, NEW q \in Seq(Events), NEW e
  PROVE  \E i \in 1 .. Len(q) + 1 : Place(q, w, i, e)
<1> DEFINE T == {i \in 1 .. Len(q) + 1 : i <= Len(q) => ~Less(w, q[i], e)}
<1>0. Len(q) \in Nat
  OBVIOUS
<1>1. T \in SUBSET Nat /\ Len(q) + 1 \in T
  BY <1>0
<1>2. PICK i \in T : \A j \in T : i <= j
  BY <1>1, Least, ZenonT(30)
<1>3. i \in 1 .. Len(q) + 1 /\ (i <= Len(q) => ~Less(w, q[i], e))
  BY <1>2
<1>4. ASSUME NEW j \in 1 .. i - 1 PROVE Less(w, q[j], e)
  <2>1. j \in 1 .. Len(q) + 1 /\ j <= Len(q) /\ ~(i <= j)
    BY <1>0, <1>3
  <2>2. j \notin T
    BY <1>2, <2>1
  <2> QED
    BY <2>1, <2>2
<1> QED
  BY <1>3, <1>4 DEF Place

------------------------------------------------------------------------------
(* The links determine the line.                                           *)

LEMMA StartsRun ==
  ASSUME NEW w, NEW q, Good(q, w), Rep(q, w, head, nextBin, nextInBin), NEW i \in 1 .. Len(q)
  PROVE  Starts(q, i) <=> Bnd(q, w, i)
<1>1. CASE i = 1
  BY <1>1 DEF Starts, Bnd
<1>2. CASE i # 1
  <2>1. i - 1 \in 1 .. Len(q) /\ i - 1 < Len(q) /\ (i - 1) + 1 = i /\ q[i] \in Events
    BY <1>2 DEF Good
  <2>2. nextInBin[q[i - 1]] = IF Same(w, q[i - 1], q[i]) THEN q[i] ELSE Null
    BY <2>1 DEF Rep
  <2> QED
    BY <1>2, <2>1, <2>2, LinkAssumption DEF Starts, Bnd
<1> QED
  BY <1>1, <1>2

LEMMA RepFollows ==
  ASSUME when \in [Events -> Nat], NEW q, Good(q, when),
         Rep(q, when, head, nextBin, nextInBin)
  PROVE  Follows(q)
<1>0. Len(q) \in Nat /\ q \in Seq(Events)
  BY DEF Good
<1>1. head = At(q, 1)
  BY DEF Rep
<1>2. ASSUME NEW i \in 1 .. Len(q), nextInBin[q[i]] # Null
      PROVE  nextInBin[q[i]] = At(q, i + 1)
  BY <1>0, <1>2 DEF Rep, At
<1>3. ASSUME NEW i \in 1 .. Len(q), nextInBin[q[i]] = Null
      PROVE  \E j \in 1 .. i : TopAt(q, j, i) /\ nextBin[q[j]] = At(q, i + 1)
  <2>1. PICK j \in 1 .. i : /\ Bnd(q, when, j)
                            /\ \A k \in j .. i : Same(when, q[j], q[k])
    BY RunStart
  <2>2. j \in 1 .. Len(q) /\ \A k \in j .. i : k \in 1 .. Len(q)
    BY <1>0
  <2>3. ASSUME NEW k \in j + 1 .. i PROVE ~Starts(q, k)
    <3>1. k \in 1 .. Len(q) /\ k - 1 \in 1 .. Len(q) /\ k # 1
          /\ k \in j .. i /\ k - 1 \in j .. i
      BY <1>0, <2>2
    <3>2. q[k] \in Events /\ q[k - 1] \in Events /\ q[j] \in Events
      BY <1>0, <2>2, <3>1
    <3>3. Same(when, q[k - 1], q[k])
      BY <2>1, <3>1, <3>2, OrderFacts
    <3> QED
      BY <3>1, <3>3, StartsRun DEF Bnd
  <2>4. PICK n \in j + 1 .. Len(q) + 1 : Run(q, when, j, n) /\ nextBin[q[j]] = At(q, n)
    BY <2>1, <2>2 DEF Rep
  <2>5. n = i + 1
    <3>1. i < Len(q) => ~Same(when, q[i], q[i + 1])
      <4> SUFFICES ASSUME i < Len(q) PROVE ~Same(when, q[i], q[i + 1])
        OBVIOUS
      <4>1. i + 1 \in 1 .. Len(q) /\ q[i + 1] \in Events
        BY <1>0
      <4> QED
        BY <1>3, <4>1, LinkAssumption DEF Rep
    <3>2. ~(n <= i)
      <4> SUFFICES ASSUME n <= i PROVE FALSE
        OBVIOUS
      <4>1. n \in j .. i /\ n <= Len(q)
        BY <1>0, <2>2
      <4> QED
        BY <2>1, <2>4, <4>1 DEF Run
    <3>3. ~(n > i + 1)
      <4> SUFFICES ASSUME n > i + 1 PROVE FALSE
        OBVIOUS
      <4>1. i + 1 \in j + 1 .. n - 1 /\ i < Len(q) /\ i + 1 \in 1 .. Len(q) /\ i \in j .. i
        BY <1>0, <2>2
      <4>2. Same(when, q[j], q[i + 1]) /\ Same(when, q[j], q[i])
        BY <2>1, <2>4, <4>1 DEF Run
      <4>3. q[j] \in Events /\ q[i] \in Events /\ q[i + 1] \in Events
        BY <1>0, <2>2, <4>1
      <4> QED
        BY <3>1, <4>1, <4>2, <4>3, OrderFacts
    <3> QED
      BY <1>0, <2>2, <3>2, <3>3
  <2>6. TopAt(q, j, i)
    BY <2>1, <2>2, <2>3, StartsRun DEF TopAt
  <2> QED
    BY <2>4, <2>5, <2>6
<1> QED
  BY <1>1, <1>2, <1>3 DEF Follows, At

\* Two lines that the same links give agree wherever both have an event ...
LEMMA FollowsAgree ==
  ASSUME NEW p \in Seq(Events), NEW q \in Seq(Events), Follows(p), Follows(q)
  PROVE  \A i \in 1 .. Len(p) : i <= Len(q) + 1 => At(p, i) = At(q, i)
<1> DEFINE T == {i \in 1 .. Len(p) : i <= Len(q) + 1 /\ At(p, i) # At(q, i)}
<1>0. Len(p) \in Nat /\ Len(q) \in Nat
  OBVIOUS
<1>1. SUFFICES ASSUME T # {} PROVE FALSE
  OBVIOUS
<1>2. T \in SUBSET Nat
  BY <1>0
<1>3. PICK i \in T : \A j \in T : i <= j
  BY <1>1, <1>2, Least, ZenonT(30)
<1>4. i \in 1 .. Len(p) /\ i <= Len(q) + 1 /\ At(p, i) # At(q, i)
  BY <1>3
<1>5. ASSUME NEW k \in 1 .. i - 1 PROVE k \in 1 .. Len(p) /\ k \in 1 .. Len(q) /\ p[k] = q[k]
  <2>1. k \in 1 .. Len(p) /\ k \in 1 .. Len(q) /\ ~(i <= k)
    BY <1>0, <1>4
  <2>2. k \notin T
    BY <1>3, <2>1
  <2> QED
    BY <1>0, <2>1, <2>2 DEF At
<1>6. i # 1
  BY <1>4 DEF Follows, At
<1>7. i - 1 \in 1 .. Len(p) /\ i - 1 \in 1 .. Len(q) /\ p[i - 1] = q[i - 1] /\ (i - 1) + 1 = i
  BY <1>0, <1>4, <1>5, <1>6
<1>8. CASE nextInBin[p[i - 1]] # Null
  BY <1>4, <1>7, <1>8, SMT, ZenonT(30) DEF Follows, At
<1>9. CASE nextInBin[p[i - 1]] = Null
  <2>1. PICK j \in 1 .. i - 1 : TopAt(p, j, i - 1) /\ nextBin[p[j]] = At(p, i)
    BY <1>7, <1>9 DEF Follows, At
  <2>2. PICK k \in 1 .. i - 1 : TopAt(q, k, i - 1) /\ nextBin[q[k]] = At(q, i)
    BY <1>7, <1>9 DEF Follows, At
  <2>3. ASSUME NEW n \in 1 .. i - 1 PROVE Starts(p, n) <=> Starts(q, n)
    <3>1. CASE n = 1
      BY <3>1 DEF Starts
    <3>2. CASE n # 1
      <4>1. n - 1 \in 1 .. i - 1
        BY <1>0, <1>4, <3>2
      <4> QED
        BY <1>5, <4>1 DEF Starts
    <3> QED
      BY <3>1, <3>2
  <2>4. j = k
    <3>1. ~(j < k)
      <4> SUFFICES ASSUME j < k PROVE FALSE
        OBVIOUS
      <4>1. k \in j + 1 .. i - 1
        BY <1>0, <1>4
      <4> QED
        BY <2>1, <2>2, <2>3, <4>1 DEF TopAt
    <3>2. ~(k < j)
      <4> SUFFICES ASSUME k < j PROVE FALSE
        OBVIOUS
      <4>1. j \in k + 1 .. i - 1
        BY <1>0, <1>4
      <4> QED
        BY <2>1, <2>2, <2>3, <4>1 DEF TopAt
    <3> QED
      BY <1>0, <1>4, <3>1, <3>2
  <2> QED
    BY <1>4, <1>5, <2>1, <2>2, <2>4
<1> QED
  BY <1>8, <1>9

\* ... and end together.
LEMMA FollowsOnce ==
  ASSUME NEW p \in Seq(Events), NEW q \in Seq(Events), Follows(p), Follows(q)
  PROVE  p = q
<1>0. Len(p) \in Nat /\ Len(q) \in Nat
  OBVIOUS
<1>1. ~(Len(q) < Len(p))
  <2> SUFFICES ASSUME Len(q) < Len(p) PROVE FALSE
    OBVIOUS
  <2>1. Len(q) + 1 \in 1 .. Len(p)
    BY <1>0
  <2>2. p[Len(q) + 1] = Null
    BY <1>0, <2>1, FollowsAgree DEF At
  <2> QED
    BY <2>1, <2>2, LinkAssumption
<1>2. ~(Len(p) < Len(q))
  <2> SUFFICES ASSUME Len(p) < Len(q) PROVE FALSE
    OBVIOUS
  <2>1. Len(p) + 1 \in 1 .. Len(q)
    BY <1>0
  <2>2. q[Len(p) + 1] = Null
    BY <1>0, <2>1, FollowsAgree DEF At
  <2> QED
    BY <2>1, <2>2, LinkAssumption
<1>3. Len(p) = Len(q)
  BY <1>0, <1>1, <1>2
<1>4. \A i \in 1 .. Len(p) : p[i] = q[i]
  BY <1>0, <1>3, FollowsAgree DEF At
<1> QED
  BY <1>3, <1>4

LEMMA Short ==
  ASSUME NEW q \in Seq(Events), \A i, j \in 1 .. Len(q) : q[i] = q[j] => i = j
  PROVE  Len(q) <= Cardinality(Events)
<1>0. Len(q) \in Nat /\ IsFiniteSet(Events)
  BY LinkAssumption
<1>1. IsFiniteSet(1 .. Len(q)) /\ Cardinality(1 .. Len(q)) = Len(q)
  <2>1. 1 \in Int /\ Len(q) \in Int /\ (1 > Len(q) \/ 1 <= Len(q))
    BY <1>0
  <2>2. /\ IsFiniteSet(1 .. Len(q))
        /\ Cardinality(1 .. Len(q)) = IF 1 > Len(q) THEN 0 ELSE Len(q) - 1 + 1
    BY <2>1, FS_Interval
  <2> QED
    BY <1>0, <2>2
<1>2. q \in Injection(1 .. Len(q), Events)
  BY DEF Injection, IsInjective
<1>3. Cardinality(1 .. Len(q)) <= Cardinality(Events)
  BY <1>0, <1>2, FS_Injection
<1> QED
  BY <1>1, <1>3

LEMMA LineIs ==
  ASSUME when \in [Events -> Nat], NEW q, Good(q, when),
         Rep(q, when, head, nextBin, nextInBin)
  PROVE  Line = q
<1> DEFINE Lines == UNION {[1 .. n -> Events] : n \in 0 .. Cardinality(Events)}
<1>1. q \in Seq(Events) /\ Follows(q)
  BY RepFollows DEF Good
<1>2. q \in Lines
  <2>1. Len(q) \in 0 .. Cardinality(Events)
    <3>1. Cardinality(Events) \in Nat /\ Len(q) \in Nat
      BY <1>1, LinkAssumption, FS_CardinalityType
    <3> QED
      BY <1>1, <3>1, Short DEF Good
  <2>2. q \in [1 .. Len(q) -> Events]
    BY <1>1
  <2> QED
    BY <2>1, <2>2
<1>3. Lines \subseteq Seq(Events)
  <2> SUFFICES ASSUME NEW n \in 0 .. Cardinality(Events), NEW p \in [1 .. n -> Events]
               PROVE  p \in Seq(Events)
    OBVIOUS
  <2>1. n \in Nat
    BY LinkAssumption, FS_CardinalityType
  <2> QED
    BY <2>1
<1>4. Line = CHOOSE p \in Lines : Follows(p)
  BY <1>1, <1>2, ZenonT(30) DEF Line
<1>5. Line \in Lines /\ Follows(Line)
  BY <1>1, <1>2, <1>4, ZenonT(30)
<1> QED
  BY <1>1, <1>3, <1>5, FollowsOnce

------------------------------------------------------------------------------
(* The search for a place, and the steps.                                  *)

\* The loops of insert and remove stop at the top of the bin in front of the place.
LEMMA Search ==
  ASSUME NEW w \in [Events -> Nat], Good(Line, w),
         Rep(Line, w, head, nextBin, nextInBin), NEW e \in Events, Line # <<>>,
         Less(w, Line[1], e)
  PROVE  \E i \in 2 .. Len(Line) + 1 :
           /\ Place(Line, w, i, e)
           /\ \E m \in 1 .. i - 1 :
                Front(Line, w, nextBin, m, i) /\ LastBefore(e, w) = Line[m]
<1> DEFINE q == Line
           stops == {i \in 1 .. Len(q) :
                       /\ Starts(q, i)
                       /\ nextBin[q[i]] = Null \/ ~Less(w, nextBin[q[i]], e)}
<1>a. LastBefore(e, w) = q[CHOOSE i \in stops : \A j \in stops : i <= j]
  BY DEF LastBefore
<1>b. Good(q, w) /\ Rep(q, w, head, nextBin, nextInBin) /\ Less(w, q[1], e) /\ q # <<>>
  OBVIOUS
<1>c. \A j \in 1 .. Len(q) : Starts(q, j) <=> Bnd(q, w, j)
  BY <1>b, StartsRun
<1> SUFFICES \E i \in 2 .. Len(q) + 1 :
               /\ Place(q, w, i, e)
               /\ \E m \in 1 .. i - 1 :
                    Front(q, w, nextBin, m, i) /\ LastBefore(e, w) = q[m]
  OBVIOUS
<1> HIDE DEF q
<1>0. Len(q) \in Nat /\ q \in Seq(Events)
  BY <1>b DEF Good
<1>1. PICK i \in 1 .. Len(q) + 1 : Place(q, w, i, e)
  BY <1>0, PlaceExists, ZenonT(30)
<1>2. i \in 2 .. Len(q) + 1
  <2>1. 1 <= Len(q)
    BY <1>0, <1>b
  <2>2. i # 1
    BY <1>1, <1>b, <2>1 DEF Place
  <2> QED
    BY <1>0, <2>2
<1>3. i - 1 \in 1 .. Len(q)
  BY <1>0, <1>2
<1>4. PICK m \in 1 .. i - 1 : Bnd(q, w, m) /\ \A k \in m .. i - 1 : Same(w, q[m], q[k])
  BY <1>b, <1>3, RunStart, ZenonT(30)
<1>5. m \in 1 .. Len(q) /\ m < i
  BY <1>0, <1>3
<1>6. nextBin[q[m]] = At(q, i)
  <2>1. PICK n \in m + 1 .. Len(q) + 1 : Run(q, w, m, n) /\ nextBin[q[m]] = At(q, n)
    BY <1>b, <1>4, <1>5 DEF Rep
  <2>2. n <= i
    BY <1>b, <1>1, <1>5, <2>1, RunsUpTo, SMT, ZenonT(30)
  <2>3. ~(n < i)
    <3> SUFFICES ASSUME n < i PROVE FALSE
      OBVIOUS
    <3>1. n \in m .. i - 1 /\ n <= Len(q)
      BY <1>0, <1>5
    <3> QED
      BY <1>4, <2>1, <3>1 DEF Run
  <2>4. n = i
    BY <1>0, <2>2, <2>3
  <2> QED
    BY <2>1, <2>4
<1>7. Front(q, w, nextBin, m, i)
  BY <1>4, <1>6 DEF Front
<1>8. m \in stops
  <2>1. nextBin[q[m]] = Null \/ ~Less(w, nextBin[q[m]], e)
    BY <1>1, <1>6 DEF At, Place
  <2> QED
    BY <1>4, <1>5, <1>c, <2>1
<1>9. ASSUME NEW j \in stops PROVE m <= j
  <2>0. j \in 1 .. Len(q) /\ Bnd(q, w, j)
        /\ (nextBin[q[j]] = Null \/ ~Less(w, nextBin[q[j]], e))
    BY <1>c
  <2> SUFFICES ASSUME j < m PROVE FALSE
    BY <1>5, <2>0
  <2>1. PICK n \in j + 1 .. Len(q) + 1 : Run(q, w, j, n) /\ nextBin[q[j]] = At(q, n)
    BY <1>b, <2>0 DEF Rep
  <2>2. n <= m
    <3> SUFFICES ASSUME m < n PROVE FALSE
      BY <1>0, <1>5
    <3>1. m \in j + 1 .. n - 1 /\ m # 1 /\ m - 1 \in 1 .. Len(q)
          /\ (m - 1 = j \/ m - 1 \in j + 1 .. n - 1)
      BY <1>0, <1>5, <2>0
    <3>2. q[j] \in Events /\ q[m] \in Events /\ q[m - 1] \in Events
      BY <1>0, <1>5, <2>0, <3>1, SMT, ZenonT(30)
    <3>3. Same(w, q[j], q[m]) /\ Same(w, q[j], q[m - 1])
      BY <2>1, <3>1, <3>2, OrderFacts, SMT, ZenonT(30) DEF Run
    <3>4. Same(w, q[m - 1], q[m])
      BY <3>2, <3>3, OrderFacts, SMT, ZenonT(30)
    <3> QED
      BY <1>4, <3>1, <3>4 DEF Bnd
  <2>3. n \in 1 .. i - 1 /\ n <= Len(q) /\ n \in 1 .. Len(q)
    BY <1>0, <1>5, <2>0, <2>2
  <2>4. Less(w, q[n], e) /\ At(q, n) = q[n] /\ q[n] # Null
    BY <1>0, <1>1, <2>3, LinkAssumption DEF Place, At
  <2> QED
    BY <2>0, <2>1, <2>4
<1>10. LastBefore(e, w) = q[m]
  <2> HIDE DEF stops
  <2>1. stops \subseteq Nat
    BY <1>0 DEF stops
  <2>2. \A k \in stops : (\A j \in stops : k <= j) => k = m
    <3> SUFFICES ASSUME NEW k \in stops, \A j \in stops : k <= j PROVE k = m
      OBVIOUS
    <3>1. k <= m /\ m <= k /\ k \in Nat /\ m \in Nat
      BY <1>8, <1>9, <2>1
    <3> QED
      BY <3>1
  <2>3. (CHOOSE k \in stops : \A j \in stops : k <= j) = m
    BY <1>8, <1>9, <2>2, ZenonT(30)
  <2> QED
    BY <1>a, <2>3, ZenonT(30)
<1> QED
  BY <1>1, <1>2, <1>7, <1>10

\* The line of the present state, and of the next one.
LEMMA LineNow ==
  \A q : when \in [Events -> Nat] /\ Good(q, when) /\ Rep(q, when, head, nextBin, nextInBin)
           => Line = q
BY LineIs

LEMMA LineNext ==
  (\A q : when \in [Events -> Nat] /\ Good(q, when) /\ Rep(q, when, head, nextBin, nextInBin)
            => Line = q)'
BY LineNow, PTL

\* The representation invariant.
LinkInv ==
  /\ Good(Line, when)
  /\ Rep(Line, when, head, nextBin, nextInBin)
  /\ Reaches(Line, scheduled)

LEMMA NewLine ==
  ASSUME when' \in [Events -> Nat], NEW p, Good(p, when'),
         Rep(p, when', head', nextBin', nextInBin'), Reaches(p, scheduled')
  PROVE  Line' = p /\ LinkInv'
<1>1. Line' = p
  BY LineNext
<1> QED
  BY <1>1 DEF LinkInv

\* The event is the head, or the head leads to it.
LEMMA HeadFacts ==
  ASSUME TypeOK, LinkInv
  PROVE  /\ Line \in Seq(Events) /\ Len(Line) \in Nat
         /\ head = Null <=> Line = <<>>
         /\ head # Null => 1 \in 1 .. Len(Line) /\ head = Line[1]
<1>1. Line \in Seq(Events) /\ head = At(Line, 1)
  BY DEF LinkInv, Good, Rep
<1>2. Line # <<>> => 1 \in 1 .. Len(Line) /\ Line[1] \in Events
  BY <1>1
<1>3. Line # <<>> => head = Line[1] /\ head # Null
  BY <1>1, <1>2, LinkAssumption DEF At
<1>4. Line = <<>> => head = Null
  BY <1>1 DEF At
<1> QED
  BY <1>1, <1>2, <1>3, <1>4

LEMMA InsertStep ==
  ASSUME TypeOK, LinkInv, NEW e \in Events, ~scheduled[e], when' \in [Events -> Nat],
         \A f \in Events \ {e} : when'[f] = when[f], Insert(e, when')
  PROVE  /\ LinkInv'
         /\ \E i \in 1 .. Len(Line) + 1 :
              Place(Line, when', i, e) /\ Line' = Put(Line, i, e)
<1> DEFINE q == Line
           w == when'
           atHead == head = Null \/ ~Less(w, head, e)
           prev == LastBefore(e, w)
           new == InsertBefore(e, IF atHead THEN head ELSE nextBin[prev], w)
           linked == [nextBin EXCEPT ![e] = new.bin]
<1>1. /\ nextInBin' = [nextInBin EXCEPT ![e] = new.inBin]
      /\ head' = IF atHead THEN e ELSE head
      /\ nextBin' = IF atHead THEN linked ELSE [linked EXCEPT ![prev] = e]
      /\ scheduled' = [scheduled EXCEPT ![e] = TRUE]
  BY DEF Insert
<1>2. /\ q \in Seq(Events) /\ Len(q) \in Nat /\ (head = Null <=> q = <<>>)
      /\ (head # Null => 1 \in 1 .. Len(q) /\ head = q[1])
  BY HeadFacts
<1>3. Outside(q, e)
  BY <1>2 DEF LinkInv, Reaches, Outside
<1>4. \A j \in 1 .. Len(q) : w[q[j]] = when[q[j]]
  BY <1>2, <1>3 DEF Outside
<1>5. Good(q, w) /\ Rep(q, w, head, nextBin, nextInBin)
  BY <1>4, Transfer, ZenonT(30) DEF LinkInv
<1>6. nextBin \in [Events -> Events \cup {Null}] /\ nextInBin \in [Events -> Events \cup {Null}]
  BY DEF TypeOK
<1>7. ASSUME NEW i, Place(q, w, i, e), At(q, i) = IF atHead THEN head ELSE nextBin[prev],
             \/ atHead /\ i = 1
             \/ ~atHead /\ i # 1 /\ \E m \in 1 .. i - 1 :
                                       Front(q, w, nextBin, m, i) /\ prev = q[m]
      PROVE  Inserted(q, w, i, e, head, nextBin, nextInBin, head', nextBin', nextInBin')
  <2>0. i \in 1 .. Len(q) + 1
    BY <1>7 DEF Place
  <2>1. ~atHead => \E m \in 1 .. i - 1 : /\ Front(q, w, nextBin, m, i) /\ prev = q[m]
                                         /\ q[m] \in Events /\ q[m] # e
    <3> SUFFICES ASSUME ~atHead
                 PROVE  \E m \in 1 .. i - 1 : /\ Front(q, w, nextBin, m, i) /\ prev = q[m]
                                              /\ q[m] \in Events /\ q[m] # e
      OBVIOUS
    <3>1. PICK m \in 1 .. i - 1 : Front(q, w, nextBin, m, i) /\ prev = q[m]
      BY <1>7
    <3>2. m \in 1 .. Len(q)
      BY <1>2, <2>0
    <3> QED
      BY <1>2, <1>3, <3>1, <3>2 DEF Outside
  <2> HIDE DEF q, w, prev, atHead
  <2>2. new.bin = IF At(q, i) = Null \/ Less(w, e, At(q, i)) THEN At(q, i) ELSE nextBin[At(q, i)]
    BY <1>7 DEF InsertBefore
  <2>3. new.inBin = IF At(q, i) = Null \/ Less(w, e, At(q, i)) THEN Null ELSE At(q, i)
    BY <1>7 DEF InsertBefore
  <2> HIDE DEF new
  <2>4. nextInBin'[e] = new.inBin /\ \A f \in Events \ {e} : nextInBin'[f] = nextInBin[f]
    BY <1>1, <1>6
  <2>5. /\ nextBin'[e] = new.bin
        /\ atHead => \A f \in Events \ {e} : nextBin'[f] = nextBin[f]
        /\ ~atHead => /\ nextBin'[prev] = e
                      /\ \A f \in Events \ {e, prev} : nextBin'[f] = nextBin[f]
    <3>1. CASE atHead
      BY <1>1, <1>6, <3>1
    <3>2. CASE ~atHead
      <4>1. prev \in Events /\ prev # e
        BY <2>1, <3>2
      <4> QED
        BY <1>1, <1>6, <3>2, <4>1
    <3> QED
      BY <3>1, <3>2
  <2>6. Linked(e, At(q, i), w, nextBin, nextBin', nextInBin')
    BY <2>2, <2>3, <2>4, <2>5 DEF Linked
  <2>7. head' = IF atHead THEN e ELSE head
    BY <1>1
  <2>8. CASE atHead
    BY <1>7, <2>4, <2>5, <2>6, <2>7, <2>8, SMT, ZenonT(30) DEF Inserted
  <2>9. CASE ~atHead
    <3>1. PICK m \in 1 .. i - 1 : Front(q, w, nextBin, m, i) /\ prev = q[m]
      BY <2>1, <2>9, SMT, ZenonT(30)
    <3>2. nextBin'[q[m]] = e /\ \A f \in Events \ {e, q[m]} : nextBin'[f] = nextBin[f]
      BY <2>5, <2>9, <3>1, SMT, ZenonT(30)
    <3> QED
      BY <1>7, <2>4, <2>6, <2>7, <2>9, <3>1, <3>2, SMT, ZenonT(30) DEF Inserted
  <2> QED
    BY <2>8, <2>9
<1>8. \E i : /\ Place(q, w, i, e) /\ At(q, i) = IF atHead THEN head ELSE nextBin[prev]
             /\ \/ atHead /\ i = 1
                \/ ~atHead /\ i # 1 /\ \E m \in 1 .. i - 1 :
                                          Front(q, w, nextBin, m, i) /\ prev = q[m]
  <2>1. CASE atHead
    <3>1. At(q, 1) = head
      BY DEF LinkInv, Rep
    <3>2. 1 <= Len(q) => head = q[1] /\ head # Null
      BY <1>2
    <3>3. Place(q, w, 1, e)
      <4>1. 1 \in 1 .. Len(q) + 1 /\ 1 .. 1 - 1 = {}
        BY <1>2
      <4> QED
        BY <2>1, <3>2, <4>1 DEF Place
    <3> QED
      BY <2>1, <3>1, <3>3
  <2>2. CASE ~atHead
    <3>1. q # <<>> /\ Less(w, q[1], e)
      BY <1>2, <2>2
    <3>2. PICK i \in 2 .. Len(q) + 1 :
            /\ Place(q, w, i, e)
            /\ \E m \in 1 .. i - 1 : Front(q, w, nextBin, m, i) /\ prev = q[m]
      BY <1>5, <3>1, Search
    <3>3. i # 1 /\ At(q, i) = nextBin[prev]
      BY <1>2, <3>2, SMT, ZenonT(30) DEF Front
    <3> QED
      BY <2>2, <3>2, <3>3
  <2> QED
    BY <2>1, <2>2
<1>9. PICK i : Place(q, w, i, e)
               /\ Inserted(q, w, i, e, head, nextBin, nextInBin, head', nextBin', nextInBin')
  BY <1>7, <1>8, SMT, ZenonT(30)
<1> HIDE DEF q, w
<1>10. Good(Put(q, i, e), w)
  BY <1>3, <1>5, <1>9, PutGood, SMT, ZenonT(30) DEF w
<1>11. Rep(Put(q, i, e), w, head', nextBin', nextInBin')
  BY <1>3, <1>5, <1>9, PutRep, SMT, ZenonT(30) DEF w
<1>12. Reaches(Put(q, i, e), scheduled')
  <2>1. i \in 1 .. Len(q) + 1 /\ Reaches(q, scheduled) /\ scheduled \in [Events -> BOOLEAN]
    BY <1>9, SMT, ZenonT(30) DEF Place, LinkInv, TypeOK, q
  <2> QED
    BY <1>1, <1>2, <2>1, PutReaches, ZenonT(30)
<1>13. Line' = Put(q, i, e) /\ LinkInv'
  BY <1>10, <1>11, <1>12, NewLine DEF w
<1> QED
  BY <1>9, <1>13 DEF Place, q, w

\* What removeItem returns for the event at position i of line q, when its bin
\* starts at position b.
Unlinked(q, i, b, r) ==
  /\ \A f \in Events : r.bins[f] = IF b = i /\ f = nextInBin[q[i]]
                                   THEN nextBin[q[i]] ELSE nextBin[f]
  /\ r.bins \in [Events -> Events \cup {Null}]
  /\ r.inBins \in [Events -> Events \cup {Null}]
  /\ r.top \in Events \cup {Null}
  /\ \/ /\ b = i
        /\ r.top = IF nextInBin[q[i]] = Null THEN nextBin[q[i]] ELSE nextInBin[q[i]]
        /\ r.inBins = nextInBin
     \/ /\ b # i
        /\ r.top = q[b]
        /\ r.inBins[q[i - 1]] = nextInBin[q[i]]
        /\ \A f \in Events \ {q[i - 1]} : r.inBins[f] = nextInBin[f]

LEMMA ItemOut ==
  ASSUME TypeOK, LinkInv, NEW i \in 1 .. Len(Line), NEW b \in 1 .. i,
         \A k \in b .. i : Same(when, Line[b], Line[k]),
         NEW r, r = RemoveItem(Line[i], Line[b])
  PROVE  Unlinked(Line, i, b, r)
<1> DEFINE q == Line
<1>1. q \in Seq(Events) /\ Len(q) \in Nat
  BY HeadFacts
<1>2. \A j, k \in 1 .. Len(q) : q[j] = q[k] => j = k
  BY DEF LinkInv, Good
<1>3. /\ nextBin \in [Events -> Events \cup {Null}]
      /\ nextInBin \in [Events -> Events \cup {Null}]
      /\ when \in [Events -> Nat] /\ scheduled \in [Events -> BOOLEAN]
  BY DEF TypeOK
<1>4. r = RemoveItem(q[i], q[b]) /\ \A k \in b .. i : Same(when, q[b], q[k])
  OBVIOUS
<1>5. \A j \in 1 .. Len(q) : scheduled[q[j]]
  BY <1>1 DEF LinkInv, Reaches
<1>6. \A e \in Events : scheduled[e] => \E j \in 1 .. Len(q) : q[j] = e
  BY DEF LinkInv, Reaches
<1>7. \A j \in 1 .. Len(q) :
        nextInBin[q[j]] = IF j < Len(q) /\ Same(when, q[j], q[j + 1]) THEN q[j + 1] ELSE Null
  BY DEF LinkInv, Rep
<1> SUFFICES Unlinked(q, i, b, r)
  OBVIOUS
<1>8. i \in 1 .. Len(q) /\ b \in 1 .. Len(q)
  BY <1>1
<1> HIDE DEF q
<1>9. q[i] \in Events /\ q[b] \in Events
  BY <1>1, <1>8, SMT, ZenonT(30)
<1>10. CASE b = i /\ nextInBin[q[i]] = Null
  <2>1. r = [top |-> nextBin[q[i]], bins |-> nextBin, inBins |-> nextInBin]
    BY <1>4, <1>10, SMT, ZenonT(30) DEF RemoveItem
  <2>2. r.top = nextBin[q[i]] /\ r.bins = nextBin /\ r.inBins = nextInBin
    BY <2>1
  <2>3. \A f \in Events : f # nextInBin[q[i]]
    BY <1>10, LinkAssumption, SMT, ZenonT(30)
  <2> QED
    BY <1>3, <1>9, <1>10, <2>2, <2>3, SMT, ZenonT(30) DEF Unlinked
<1>11. CASE b = i /\ nextInBin[q[i]] # Null
  <2>1. r = [top |-> nextInBin[q[i]], inBins |-> nextInBin,
             bins |-> [nextBin EXCEPT ![nextInBin[q[i]]] = nextBin[q[i]]]]
    BY <1>4, <1>11 DEF RemoveItem
  <2>2. /\ r.top = nextInBin[q[i]] /\ r.inBins = nextInBin
        /\ r.bins = [nextBin EXCEPT ![nextInBin[q[i]]] = nextBin[q[i]]]
    BY <2>1
  <2>3. nextInBin[q[i]] \in Events /\ nextBin[q[i]] \in Events \cup {Null}
    BY <1>3, <1>9, <1>11
  <2>4. r.bins \in [Events -> Events \cup {Null}]
    BY <1>3, <2>2, <2>3, SMT, ZenonT(30)
  <2>5. \A f \in Events : r.bins[f] = IF f = nextInBin[q[i]] THEN nextBin[q[i]] ELSE nextBin[f]
    BY <1>3, <2>2, <2>3, SMT, ZenonT(30)
  <2> QED
    BY <1>3, <1>11, <2>2, <2>3, <2>4, <2>5, SMT, ZenonT(30) DEF Unlinked
<1>12. CASE b # i
  <2>0. /\ i - 1 \in b .. i /\ i \in b .. i /\ i - 1 \in 1 .. Len(q) /\ i - 1 < Len(q)
        /\ (i - 1) + 1 = i
    BY <1>1, <1>8, <1>12
  <2>1. q[b] # q[i]
    BY <1>2, <1>8, <1>12
  <2>2. q[i - 1] \in Events
    BY <1>1, <2>0, SMT, ZenonT(30)
  <2>3. Same(when, q[i - 1], q[i])
    <3>1. Same(when, q[b], q[i - 1]) /\ Same(when, q[b], q[i])
      BY <1>4, <2>0
    <3> QED
      BY <1>3, <1>9, <2>2, <3>1, OrderFacts, SMT, ZenonT(30)
  <2>4. scheduled[q[i - 1]] /\ nextInBin[q[i - 1]] = q[i]
    BY <1>5, <1>7, <2>0, <2>3
  <2>5. ASSUME NEW f \in Events, scheduled[f], nextInBin[f] = q[i] PROVE f = q[i - 1]
    <3>1. PICK j \in 1 .. Len(q) : q[j] = f
      BY <1>6, <2>5
    <3>2. q[i] # Null
      BY <1>9, LinkAssumption
    <3>3. j < Len(q) /\ q[j + 1] = q[i]
      BY <1>7, <2>5, <3>1, <3>2
    <3>4. j + 1 \in 1 .. Len(q)
      BY <1>1, <3>3
    <3>5. j + 1 = i
      BY <1>2, <1>8, <3>3, <3>4
    <3>6. j = i - 1
      BY <3>5
    <3> QED
      BY <3>1, <3>6
  <2>6. (CHOOSE f \in Events : scheduled[f] /\ nextInBin[f] = q[i]) = q[i - 1]
    BY <2>2, <2>4, <2>5, SMT, ZenonT(30)
  <2>7. r = [top |-> q[b], bins |-> nextBin,
             inBins |-> [nextInBin EXCEPT ![q[i - 1]] = nextInBin[q[i]]]]
    BY <1>4, <2>1, <2>6, ZenonT(30) DEF RemoveItem
  <2>8. /\ r.top = q[b] /\ r.bins = nextBin
        /\ r.inBins = [nextInBin EXCEPT ![q[i - 1]] = nextInBin[q[i]]]
    BY <2>7
  <2> QED
    BY <1>3, <1>9, <1>12, <2>2, <2>8, SMT, ZenonT(30) DEF Unlinked
<1> QED
  BY <1>10, <1>11, <1>12

\* Links that represent the line without its event i.
LEMMA TakeStep ==
  ASSUME TypeOK, LinkInv, when' = when, NEW i \in 1 .. Len(Line),
         scheduled' = [scheduled EXCEPT ![Line[i]] = FALSE],
         Removed(Line, when, i, head, nextBin, nextInBin, head', nextBin', nextInBin')
  PROVE  Line' = Take(Line, i) /\ LinkInv'
<1>1. Good(Line, when) /\ Rep(Line, when, head, nextBin, nextInBin) /\ Reaches(Line, scheduled)
  BY DEF LinkInv
<1>2. when \in [Events -> Nat] /\ scheduled \in [Events -> BOOLEAN]
  BY DEF TypeOK
<1>3. Good(Take(Line, i), when')
  BY <1>1, TakeGood
<1>4. Rep(Take(Line, i), when', head', nextBin', nextInBin')
  BY <1>1, <1>2, TakeRep
<1>5. Reaches(Take(Line, i), scheduled')
  BY <1>1, <1>2, TakeReaches, ZenonT(30) DEF Good
<1> QED
  BY <1>2, <1>3, <1>4, <1>5, NewLine, ZenonT(30)

LEMMA RemoveStep ==
  ASSUME TypeOK, LinkInv, when' = when, NEW e \in Events, scheduled[e], Remove(e)
  PROVE  /\ LinkInv'
         /\ \E i \in 1 .. Len(Line) : Line[i] = e /\ Line' = Take(Line, i)
         /\ head' \in Events \cup {Null}
         /\ nextBin' \in [Events -> Events \cup {Null}]
         /\ nextInBin' \in [Events -> Events \cup {Null}]
<1> DEFINE q == Line
           first == Same(when, head, e)
           prev == LastBefore(e, when)
           r == RemoveItem(e, IF first THEN head ELSE nextBin[prev])
<1>0. /\ head' = IF first THEN r.top ELSE head
      /\ nextBin' = IF first THEN r.bins ELSE [r.bins EXCEPT ![prev] = r.top]
      /\ nextInBin' = r.inBins
      /\ scheduled' = [scheduled EXCEPT ![e] = FALSE]
  BY DEF Remove
<1>1. PICK i \in 1 .. Len(q) : q[i] = e
  BY DEF LinkInv, Reaches
<1>2. q \in Seq(Events) /\ Len(q) \in Nat /\ head = q[1] /\ 1 \in 1 .. Len(q) /\ q # <<>>
  BY <1>1, HeadFacts
<1>3. when \in [Events -> Nat] /\ head \in Events \cup {Null}
  BY DEF TypeOK
<1>4. Good(q, when) /\ Rep(q, when, head, nextBin, nextInBin)
  BY SMT, ZenonT(30) DEF LinkInv
\* The bin of e: the first one, or the one the search leads to.
<1>5. \E b \in 1 .. i :
        /\ Bnd(q, when, b) /\ \A k \in b .. i : Same(when, q[b], q[k])
        /\ (IF first THEN head ELSE nextBin[prev]) = q[b]
        /\ \/ first /\ b = 1
           \/ ~first /\ b # 1 /\ \E m \in 1 .. b - 1 :
                                    Front(q, when, nextBin, m, b) /\ prev = q[m]
  <2>1. CASE first
    <3>1. ASSUME NEW k \in 1 .. i PROVE Same(when, q[1], q[k])
      <4>1. k \in 1 .. Len(q) /\ 1 <= k /\ k <= i
        BY <1>2
      <4> QED
        BY <1>1, <1>2, <1>3, <1>4, <2>1, <4>1, Between, SMT, ZenonT(30)
    <3>2. 1 \in 1 .. i /\ Bnd(q, when, 1)
      BY <1>2, SMT, ZenonT(30) DEF Bnd
    <3> QED
      BY <1>2, <2>1, <3>1, <3>2
  <2>2. CASE ~first
    <3>1. q[1] \in Events /\ ~Same(when, q[1], e)
      BY <1>2, <2>2
    <3>2. 1 < i /\ ~Less(when, e, q[1])
      <4>1. i # 1
        BY <1>1, <1>3, <3>1, OrderFacts
      <4>2. 1 < i
        BY <1>2, <4>1, SMT, ZenonT(30)
      <4> QED
        BY <1>1, <1>2, <1>4, <4>2, SMT, ZenonT(30) DEF Good
    <3>3. Less(when, q[1], e)
      BY <1>3, <3>1, <3>2, OrderFacts, SMT, ZenonT(30)
    <3>4. PICK b \in 2 .. Len(q) + 1 :
            /\ Place(q, when, b, e)
            /\ \E m \in 1 .. b - 1 : Front(q, when, nextBin, m, b) /\ prev = q[m]
      BY <1>2, <1>3, <1>4, <3>3, Search, SMT, ZenonT(30)
    <3>5. b <= i
      <4> SUFFICES ASSUME i < b PROVE FALSE
        BY <1>2
      <4>1. i \in 1 .. b - 1
        BY <1>2
      <4>2. Less(when, e, e)
        BY <1>1, <3>4, <4>1 DEF Place
      <4> QED
        BY <1>3, <4>2, OrderFacts
    <3>6. /\ b \in 1 .. i /\ b \in 1 .. Len(q) /\ b # 1 /\ b - 1 \in 1 .. b - 1 /\ b <= Len(q)
          /\ b - 1 \in 1 .. Len(q)
      BY <1>2, <3>5
    <3>7. q[b] \in Events /\ q[b - 1] \in Events
      BY <1>2, <3>6
    <3>8. ~Less(when, q[b], e) /\ Less(when, q[b - 1], e)
      BY <3>4, <3>6 DEF Place
    <3>9. b = i \/ ~Less(when, e, q[b])
      BY <1>1, <1>2, <1>4, <3>5, <3>6, SMT, ZenonT(30) DEF Good
    <3>10. Same(when, q[b], e)
      BY <1>1, <1>3, <3>7, <3>8, <3>9, OrderFacts, SMT, ZenonT(30)
    <3>11. Bnd(q, when, b)
      <4>1. ~Same(when, q[b - 1], q[b])
        BY <1>3, <3>7, <3>8, <3>10, OrderFacts, SMT, ZenonT(30)
      <4> QED
        BY <4>1, SMT, ZenonT(30) DEF Bnd
    <3>12. ASSUME NEW k \in b .. i PROVE Same(when, q[b], q[k])
      <4>1. k \in 1 .. Len(q) /\ b <= k /\ k <= i
        BY <1>2, <3>6, SMT, ZenonT(30)
      <4> QED
        BY <1>1, <1>3, <1>4, <3>6, <3>10, <4>1, Between, SMT, ZenonT(30)
    <3>13. nextBin[prev] = q[b]
      BY <3>4, <3>6, SMT, ZenonT(30) DEF Front, At
    <3> QED
      BY <2>2, <3>4, <3>6, <3>11, <3>12, <3>13, SMT, ZenonT(30)
  <2> QED
    BY <2>1, <2>2
<1>6. PICK b \in 1 .. i :
        /\ Bnd(q, when, b) /\ \A k \in b .. i : Same(when, q[b], q[k])
        /\ (IF first THEN head ELSE nextBin[prev]) = q[b]
        /\ \/ first /\ b = 1
           \/ ~first /\ b # 1 /\ \E m \in 1 .. b - 1 :
                                    Front(q, when, nextBin, m, b) /\ prev = q[m]
  BY <1>5, SMT, ZenonT(30)
<1>7. /\ r = RemoveItem(Line[i], Line[b]) /\ i \in 1 .. Len(Line)
      /\ \A k \in b .. i : Same(when, Line[b], Line[k])
  BY <1>1, <1>6, SMT, ZenonT(30)
<1> HIDE DEF r, first, prev
<1>u. Unlinked(q, i, b, r)
  BY <1>7, ItemOut, SMT, ZenonT(30)
<1>8. /\ \A f \in Events : r.bins[f] = IF b = i /\ f = nextInBin[q[i]]
                                       THEN nextBin[q[i]] ELSE nextBin[f]
      /\ r.bins \in [Events -> Events \cup {Null}]
      /\ r.inBins \in [Events -> Events \cup {Null}]
      /\ r.top \in Events \cup {Null}
      /\ \/ /\ b = i
            /\ r.top = IF nextInBin[q[i]] = Null THEN nextBin[q[i]] ELSE nextInBin[q[i]]
            /\ r.inBins = nextInBin
         \/ /\ b # i
            /\ r.top = q[b]
            /\ r.inBins[q[i - 1]] = nextInBin[q[i]]
            /\ \A f \in Events \ {q[i - 1]} : r.inBins[f] = nextInBin[f]
  BY <1>u, SMT, ZenonT(30) DEF Unlinked
<1>9. /\ head' \in Events \cup {Null}
      /\ nextBin' \in [Events -> Events \cup {Null}]
      /\ nextInBin' \in [Events -> Events \cup {Null}]
  BY <1>0, <1>3, <1>8, ZenonT(30)
<1> HIDE DEF q
<1>10. Removed(q, when, i, head, nextBin, nextInBin, head', nextBin', nextInBin')
  <2>1. /\ \/ /\ b = i
              /\ r.top = IF nextInBin[q[i]] = Null THEN nextBin[q[i]] ELSE nextInBin[q[i]]
              /\ nextInBin' = nextInBin
           \/ /\ b # i
              /\ r.top = q[b]
              /\ nextInBin'[q[i - 1]] = nextInBin[q[i]]
              /\ \A f \in Events \ {q[i - 1]} : nextInBin'[f] = nextInBin[f]
    BY <1>0, <1>8, SMT, ZenonT(30)
  <2>2. CASE first
    <3>1. b = 1 /\ head' = r.top /\ nextBin' = r.bins
      BY <1>0, <1>6, <2>2
    <3> QED
      BY <1>6, <1>8, <2>1, <3>1, SMT, ZenonT(30) DEF Removed
  <2>3. CASE ~first
    <3>1. b # 1 /\ head' = head /\ nextBin' = [r.bins EXCEPT ![prev] = r.top]
      BY <1>0, <1>6, <2>3
    <3>2. PICK m \in 1 .. b - 1 : Front(q, when, nextBin, m, b) /\ prev = q[m]
      BY <1>6, <2>3, SMT, ZenonT(30)
    <3>3. \A f \in Events :
            nextBin'[f] = IF f = q[m] THEN r.top
                          ELSE IF b = i /\ f = nextInBin[q[i]] THEN nextBin[q[i]] ELSE nextBin[f]
      BY <1>8, <3>1, <3>2, SMT, ZenonT(30)
    <3>4. Bnd(q, when, b) /\ \A k \in b .. i : Same(when, q[b], q[k])
      BY <1>6, SMT, ZenonT(30)
    <3>5. r.top \in Events \cup {Null}
      BY <1>8
    <3> QED
      BY <2>1, <3>1, <3>2, <3>3, <3>4, <3>5, ZenonT(60) DEF Removed
  <2> QED
    BY <2>2, <2>3, SMT, ZenonT(30)
<1>11. Line' = Take(q, i) /\ LinkInv'
  BY <1>0, <1>1, <1>10, TakeStep, ZenonT(30) DEF q
<1> QED
  BY <1>1, <1>9, <1>11, SMT, ZenonT(30) DEF q

------------------------------------------------------------------------------
(* Every step.                                                             *)

LEMMA ScheduleOut ==
  ASSUME TypeOK, LinkInv, NEW e \in Events, NEW t \in Due, Schedule(e, t)
  PROVE  TypeOK' /\ LinkInv' /\ Order!Schedule(e, t)
<1>1. when \in [Events -> Nat] /\ curTick \in Nat /\ MinDelay \in Nat /\ MaxDelay \in Nat
  BY QueueAssumption DEF TypeOK
<1>2. t \in Nat
  BY <1>1 DEF Due
<1>3. when' = [when EXCEPT ![e] = t] /\ ~scheduled[e] /\ Insert(e, when')
      /\ pc \in {"init", "handler"} /\ curTick' = curTick /\ pc' = pc
  BY DEF Schedule
<1>4. when' \in [Events -> Nat] /\ \A f \in Events \ {e} : when'[f] = when[f]
  BY <1>1, <1>2, <1>3
<1>5. PICK i \in 1 .. Len(Line) + 1 : Place(Line, when', i, e) /\ Line' = Put(Line, i, e)
  BY <1>3, <1>4, InsertStep, ZenonT(30)
<1>6. LinkInv'
  BY <1>3, <1>4, InsertStep, ZenonT(30)
<1>7. TypeOK'
  <2>1. /\ nextBin \in [Events -> Events \cup {Null}]
        /\ nextInBin \in [Events -> Events \cup {Null}]
        /\ head \in Events \cup {Null} /\ scheduled \in [Events -> BOOLEAN]
    BY DEF TypeOK
  <2> DEFINE atHead == head = Null \/ ~Less(when', head, e)
             prev == LastBefore(e, when')
             c == IF atHead THEN head ELSE nextBin[prev]
  <2>2. c \in Events \cup {Null}
    <3>1. CASE atHead
      BY <2>1, <3>1
    <3>2. CASE ~atHead
      <4>1. Line # <<>> /\ Less(when', Line[1], e) /\ Line \in Seq(Events)
        BY <3>2, HeadFacts
      <4>2. Outside(Line, e)
        BY <1>3, <4>1 DEF LinkInv, Reaches, Outside
      <4>3. \A j \in 1 .. Len(Line) : when'[Line[j]] = when[Line[j]]
        BY <1>4, <4>1, <4>2, SMT, ZenonT(30) DEF Outside
      <4>4. Good(Line, when') /\ Rep(Line, when', head, nextBin, nextInBin)
        BY <4>3, Transfer, ZenonT(30) DEF LinkInv
      <4>5. PICK k \in 2 .. Len(Line) + 1 : \E m \in 1 .. k - 1 : prev = Line[m]
        BY <1>4, <4>1, <4>4, Search
      <4>6. PICK m \in 1 .. k - 1 : prev = Line[m]
        BY <4>5
      <4>7. m \in 1 .. Len(Line)
        BY <4>1
      <4> QED
        BY <2>1, <3>2, <4>1, <4>6, <4>7, SMT, ZenonT(30)
    <3> QED
      BY <3>1, <3>2
  <2> DEFINE new == InsertBefore(e, c, when')
  <2>3. /\ nextInBin' = [nextInBin EXCEPT ![e] = new.inBin]
        /\ head' = IF atHead THEN e ELSE head
        /\ nextBin' = IF atHead THEN [nextBin EXCEPT ![e] = new.bin]
                      ELSE [[nextBin EXCEPT ![e] = new.bin] EXCEPT ![prev] = e]
        /\ scheduled' = [scheduled EXCEPT ![e] = TRUE]
    BY <1>3 DEF Insert
  <2> HIDE DEF c, atHead, prev
  <2>4. new.bin \in Events \cup {Null} /\ new.inBin \in Events \cup {Null}
    BY <2>1, <2>2, SMT, ZenonT(30) DEF InsertBefore
  <2> HIDE DEF new
  <2>5. head' \in Events \cup {Null} /\ scheduled' \in [Events -> BOOLEAN]
    BY <2>1, <2>3
  <2>6. /\ nextBin' \in [Events -> Events \cup {Null}]
        /\ nextInBin' \in [Events -> Events \cup {Null}]
    BY <2>1, <2>3, <2>4, ZenonT(30)
  <2> QED
    BY <1>3, <1>4, <2>5, <2>6 DEF TypeOK
<1>8. Order!Schedule(e, t)
  <2>1. ~Order!Queued(e)
    BY <1>3 DEF LinkInv, Reaches, Order!Queued
  <2>2. t \in Order!Due
    BY SMT, ZenonT(30) DEF Due, Order!Due
  <2>3. /\ \A j \in 1 .. i - 1 : Order!Less(when', Line[j], e)
        /\ i <= Len(Line) => ~Order!Less(when', Line[i], e)
    BY <1>5 DEF Place, Less, Order!Less
  <2>4. Line' = [j \in 1 .. Len(Line) + 1 |->
                   IF j < i THEN Line[j] ELSE IF j = i THEN e ELSE Line[j - 1]]
    BY <1>5 DEF Put
  <2> QED
    BY <1>3, <2>1, <2>2, <2>3, <2>4, ZenonT(30) DEF Order!Schedule
<1> QED
  BY <1>6, <1>7, <1>8

LEMMA DescheduleOut ==
  ASSUME TypeOK, LinkInv, NEW e \in Events, Deschedule(e)
  PROVE  TypeOK' /\ LinkInv' /\ Order!Deschedule(e)
<1>1. /\ pc = "handler" /\ scheduled[e] /\ Remove(e)
      /\ when' = when /\ curTick' = curTick /\ pc' = pc
  BY DEF Deschedule
<1>2. /\ LinkInv'
      /\ \E i \in 1 .. Len(Line) : Line[i] = e /\ Line' = Take(Line, i)
      /\ head' \in Events \cup {Null}
      /\ nextBin' \in [Events -> Events \cup {Null}]
      /\ nextInBin' \in [Events -> Events \cup {Null}]
  BY <1>1, RemoveStep, SMT, ZenonT(30)
<1>3. scheduled' = [scheduled EXCEPT ![e] = FALSE]
  BY <1>1 DEF Remove
<1>4. TypeOK'
  BY <1>1, <1>2, <1>3, SMT, ZenonT(30) DEF TypeOK
<1>5. Order!Deschedule(e)
  BY <1>1, <1>2 DEF Order!Deschedule, Take
<1> QED
  BY <1>2, <1>4, <1>5

LEMMA DestroyOut ==
  ASSUME TypeOK, LinkInv, Destroy
  PROVE  TypeOK' /\ LinkInv' /\ Order!Destroy
<1>1. /\ pc = "loop" /\ head # Null /\ curTick >= RunLimit /\ Remove(head)
      /\ when' = when /\ curTick' = curTick /\ pc' = pc
  BY DEF Destroy
<1>2. /\ Line \in Seq(Events) /\ 1 \in 1 .. Len(Line) /\ head = Line[1] /\ Line # <<>>
      /\ head \in Events
  BY <1>1, HeadFacts DEF TypeOK
<1>3. scheduled[head]
  BY <1>2 DEF LinkInv, Reaches
<1>4. /\ LinkInv'
      /\ \E i \in 1 .. Len(Line) : Line[i] = head /\ Line' = Take(Line, i)
      /\ head' \in Events \cup {Null}
      /\ nextBin' \in [Events -> Events \cup {Null}]
      /\ nextInBin' \in [Events -> Events \cup {Null}]
  BY <1>1, <1>2, <1>3, RemoveStep, SMT, ZenonT(30)
<1>5. scheduled' = [scheduled EXCEPT ![head] = FALSE]
  BY <1>1 DEF Remove
<1>6. TypeOK'
  BY <1>1, <1>2, <1>4, <1>5 DEF TypeOK
<1>7. Line' = Tail(Line)
  <2>1. PICK i \in 1 .. Len(Line) : Line[i] = head /\ Line' = Take(Line, i)
    BY <1>4
  <2>2. i = 1
    BY <1>2, <2>1 DEF LinkInv, Good
  <2> QED
    BY <1>2, <2>1, <2>2, TailTake
<1>8. Order!Destroy
  BY <1>1, <1>2, <1>7 DEF Order!Destroy
<1> QED
  BY <1>4, <1>6, <1>8

LEMMA ServiceOut ==
  ASSUME TypeOK, LinkInv, ServiceOne
  PROVE  TypeOK' /\ LinkInv' /\ Order!ServiceOne
<1>1. /\ pc = "loop" /\ head # Null /\ curTick < RunLimit
      /\ scheduled' = [scheduled EXCEPT ![head] = FALSE]
      /\ IF nextInBin[head] # Null
         THEN nextBin' = [nextBin EXCEPT ![nextInBin[head]] = nextBin[head]]
              /\ head' = nextInBin[head]
         ELSE head' = nextBin[head] /\ nextBin' = nextBin
      /\ curTick' = when[head] /\ pc' = "handler"
      /\ nextInBin' = nextInBin /\ when' = when
  BY DEF ServiceOne
<1>2. /\ Line \in Seq(Events) /\ 1 \in 1 .. Len(Line) /\ head = Line[1] /\ Line # <<>>
      /\ head \in Events
  BY <1>1, HeadFacts DEF TypeOK
<1>3. /\ nextBin \in [Events -> Events \cup {Null}]
      /\ nextInBin \in [Events -> Events \cup {Null}]
  BY DEF TypeOK
<1>4. \A f \in Events : nextBin'[f] = IF f = nextInBin[head] THEN nextBin[head] ELSE nextBin[f]
  <2>1. CASE nextInBin[head] # Null
    BY <1>1, <1>2, <1>3, <2>1
  <2>2. CASE nextInBin[head] = Null
    BY <1>1, <2>2, LinkAssumption
  <2> QED
    BY <2>1, <2>2
<1>5. head' = IF nextInBin[head] = Null THEN nextBin[head] ELSE nextInBin[head]
  BY <1>1
<1>6. head' \in Events \cup {Null} /\ nextBin' \in [Events -> Events \cup {Null}]
  <2>1. nextBin[head] \in Events \cup {Null} /\ nextInBin[head] \in Events \cup {Null}
    BY <1>2, <1>3
  <2> QED
    BY <1>1, <1>3, <2>1
<1>7. Removed(Line, when, 1, head, nextBin, nextInBin, head', nextBin', nextInBin')
  <2>1. 1 \in 1 .. 1 /\ Bnd(Line, when, 1) /\ \A k \in 1 .. 1 : k = 1
    BY DEF Bnd
  <2>2. Same(when, Line[1], Line[1])
    BY DEF Same
  <2>3. \A k \in 1 .. 1 : Same(when, Line[1], Line[k])
    BY <2>1, <2>2
  <2> QED
    BY <1>1, <1>2, <1>4, <1>5, <1>6, <2>1, <2>3, ZenonT(60) DEF Removed
<1>8. Line' = Take(Line, 1) /\ LinkInv'
  BY <1>1, <1>2, <1>7, TakeStep, ZenonT(30)
<1>9. TypeOK'
  BY <1>1, <1>2, <1>6, ZenonT(30) DEF TypeOK
<1>10. Order!ServiceOne
  <2>1. Line' = Tail(Line) /\ Head(Line) = head
    BY <1>2, <1>8, TailTake
  <2> QED
    BY <1>1, <1>2, <2>1 DEF Order!ServiceOne
<1> QED
  BY <1>8, <1>9, <1>10

LEMMA QuietOut ==
  ASSUME TypeOK, LinkInv, UNCHANGED <<links, when, scheduled>>
  PROVE  Line' = Line /\ LinkInv'
<1>1. when' = when /\ head' = head /\ nextBin' = nextBin /\ nextInBin' = nextInBin
      /\ scheduled' = scheduled
  BY DEF links
<1> QED
  BY <1>1, NewLine DEF LinkInv, TypeOK

LEMMA QueueStep ==
  ASSUME TypeOK, LinkInv, [Next]_vars
  PROVE  TypeOK' /\ LinkInv' /\ [Order!Next]_(Order!vars)
<1>1. ASSUME NEW e \in Events, Deschedule(e) PROVE TypeOK' /\ LinkInv' /\ Order!Next
  BY <1>1, DescheduleOut DEF Order!Next
<1>2. ASSUME NEW e \in Events, NEW t \in Due, Schedule(e, t)
      PROVE  TypeOK' /\ LinkInv' /\ Order!Next
  <2>1. t \in Order!Due
    BY DEF Due, Order!Due
  <2> QED
    BY <1>2, <2>1, ScheduleOut DEF Order!Next
<1>3. CASE Start
  <2>1. Line' = Line /\ LinkInv'
    BY <1>3, QuietOut DEF Start
  <2> QED
    BY <1>3, <2>1 DEF Start, links, TypeOK, Order!Next, Order!Start
<1>4. CASE ServiceOne
  BY <1>4, ServiceOut DEF Order!Next
<1>5. CASE HandlerReturns
  <2>1. Line' = Line /\ LinkInv'
    BY <1>5, QuietOut DEF HandlerReturns
  <2> QED
    BY <1>5, <2>1 DEF HandlerReturns, links, TypeOK, Order!Next, Order!HandlerReturns
<1>6. CASE Destroy
  BY <1>6, DestroyOut DEF Order!Next
<1>7. CASE UNCHANGED vars
  <2>1. Line' = Line /\ LinkInv'
    BY <1>7, QuietOut DEF vars
  <2> QED
    BY <1>7, <2>1 DEF vars, links, TypeOK, Order!vars
<1> QED
  BY <1>1, <1>2, <1>3, <1>4, <1>5, <1>6, <1>7, SMT, ZenonT(30) DEF Next

LEMMA QueueStart == Init => TypeOK /\ LinkInv /\ Order!Init
<1> SUFFICES ASSUME Init PROVE TypeOK /\ LinkInv /\ Order!Init
  OBVIOUS
<1>1. TypeOK
  BY DEF Init, TypeOK
<1>2. Good(<<>>, when) /\ Reaches(<<>>, scheduled)
  BY DEF Init, Good, Reaches
<1>3. Rep(<<>>, when, head, nextBin, nextInBin)
  BY DEF Init, Rep, At
<1>4. Line = <<>>
  BY <1>1, <1>2, <1>3, LineIs DEF TypeOK
<1>5. LinkInv
  BY <1>2, <1>3, <1>4 DEF LinkInv
<1> QED
  BY <1>1, <1>4, <1>5 DEF Init, Order!Init

\* No event is scheduled for a time that has passed.
Past == \A e \in Events : scheduled[e] => when[e] >= curTick

LEMMA PastStep ==
  ASSUME TypeOK, LinkInv, Past, [Next]_vars
  PROVE  Past' /\ curTick' >= curTick
<1>0. curTick \in Nat /\ when \in [Events -> Nat] /\ scheduled \in [Events -> BOOLEAN]
  BY DEF TypeOK
<1>1. ASSUME NEW e \in Events, NEW t \in Due, Schedule(e, t)
      PROVE  Past' /\ curTick' >= curTick
  <2>1. /\ when' = [when EXCEPT ![e] = t] /\ scheduled' = [scheduled EXCEPT ![e] = TRUE]
        /\ curTick' = curTick
    BY <1>1 DEF Schedule, Insert
  <2>2. t >= curTick
    BY <1>0, QueueAssumption DEF Due
  <2> QED
    BY <1>0, <2>1, <2>2, SMT, ZenonT(30) DEF Past
<1>2. ASSUME NEW e \in Events, Deschedule(e) PROVE Past' /\ curTick' >= curTick
  <2>1. when' = when /\ scheduled' = [scheduled EXCEPT ![e] = FALSE] /\ curTick' = curTick
    BY <1>2 DEF Deschedule, Remove
  <2> QED
    BY <1>0, <2>1, SMT, ZenonT(30) DEF Past
<1>3. CASE Destroy
  <2>1. when' = when /\ scheduled' = [scheduled EXCEPT ![head] = FALSE] /\ curTick' = curTick
    BY <1>3 DEF Destroy, Remove
  <2>2. \A f \in Events : scheduled'[f] => scheduled[f]
    BY <1>0, <2>1
  <2> QED
    BY <1>0, <2>1, <2>2, SMT, ZenonT(30) DEF Past
<1>4. CASE ServiceOne
  <2>1. /\ head # Null /\ curTick' = when[head] /\ when' = when
        /\ scheduled' = [scheduled EXCEPT ![head] = FALSE]
    BY <1>4 DEF ServiceOne
  <2>2. head = Line[1] /\ 1 \in 1 .. Len(Line) /\ Line \in Seq(Events)
    BY <2>1, HeadFacts
  <2>3. head \in Events /\ scheduled[head]
    <3>1. head \in Events
      BY <2>2
    <3> QED
      BY <2>2, <3>1 DEF LinkInv, Reaches
  <2>4. ASSUME NEW f \in Events, scheduled[f] PROVE when[f] >= when[head]
    <3>1. PICK j \in 1 .. Len(Line) : Line[j] = f
      BY <2>4 DEF LinkInv, Reaches
    <3>2. 1 < j => ~Less(when, Line[j], Line[1])
      BY <2>2, <3>1 DEF LinkInv, Good
    <3>3. CASE j = 1
      BY <1>0, <2>2, <2>3, <3>1, <3>3, SMT, ZenonT(30)
    <3>4. CASE 1 < j
      BY <1>0, <2>2, <2>3, <3>1, <3>2, <3>4, SMT, ZenonT(30) DEF Less
    <3> QED
      BY <3>3, <3>4
  <2>5. \A f \in Events : scheduled'[f] => scheduled[f]
    BY <1>0, <2>1
  <2> QED
    BY <2>1, <2>3, <2>4, <2>5, SMT, ZenonT(30) DEF Past
<1>5. CASE Start \/ HandlerReturns \/ UNCHANGED vars
  <2>1. when' = when /\ scheduled' = scheduled /\ curTick' = curTick
    BY <1>5 DEF Start, HandlerReturns, vars
  <2> QED
    BY <1>0, <2>1 DEF Past
<1> QED
  BY <1>1, <1>2, <1>3, <1>4, <1>5 DEF Next

LEMMA PastStart == Init => Past
BY SMT, ZenonT(30) DEF Init, Past

LEMMA SortedFact == TypeOK /\ LinkInv /\ Past => Order!InOrder /\ Order!Once
<1> SUFFICES ASSUME TypeOK, LinkInv, Past PROVE Order!InOrder /\ Order!Once
  OBVIOUS
<1>1. Line \in Seq(Events)
  BY HeadFacts, SMT, ZenonT(30)
<1>2. ASSUME NEW i \in 1 .. Len(Line), NEW j \in 1 .. Len(Line), i < j
      PROVE  ~Order!Less(when, Line[j], Line[i])
  BY <1>2 DEF LinkInv, Good, Less, Order!Less
<1>3. ASSUME NEW i \in 1 .. Len(Line) PROVE when[Line[i]] >= curTick
  <2>1. Line[i] \in Events
    BY <1>1
  <2>2. scheduled[Line[i]]
    BY <2>1 DEF LinkInv, Reaches
  <2> QED
    BY <2>1, <2>2 DEF Past
<1> QED
  BY <1>2, <1>3 DEF Order!InOrder, Order!Once, LinkInv, Good

\* Following the links gives the scheduled events in the order of (when, priority),
\* each once, and none of them is due in the past.
THEOREM LineSorted == Spec => [](Order!InOrder /\ Order!Once)
<1>1. TypeOK /\ LinkInv /\ Past /\ [Next]_vars => (TypeOK /\ LinkInv /\ Past)'
  BY QueueStep, PastStep
<1> QED
  BY <1>1, QueueStart, PastStart, SortedFact, PTL DEF Spec

\* serviceOne never takes the time of the queue back.
THEOREM TimeMonotone == Spec => [][curTick' >= curTick]_vars
<1>1. TypeOK /\ LinkInv /\ Past /\ [Next]_vars => (TypeOK /\ LinkInv /\ Past)'
  BY QueueStep, PastStep
<1>2. TypeOK /\ LinkInv /\ Past /\ [Next]_vars => [curTick' >= curTick]_vars
  BY PastStep
<1> QED
  BY <1>1, <1>2, QueueStart, PastStart, PTL DEF Spec

\* No link of eventq.h leaves the events and the null pointer, and no event gets
\* a negative time, whatever is scheduled, descheduled and serviced.
THEOREM QueueTypes == Spec => []TypeOK
<1>1. TypeOK /\ LinkInv /\ [Next]_vars => (TypeOK /\ LinkInv)'
  BY QueueStep
<1> QED
  BY <1>1, QueueStart, PTL DEF Spec

LEMMA LinkFact == TypeOK /\ LinkInv => LinksExact
<1> SUFFICES ASSUME TypeOK, LinkInv PROVE LinksExact
  OBVIOUS
<1>1. Line \in Seq(Events) /\ DOMAIN Line = 1 .. Len(Line)
  BY HeadFacts
<1>2. IsInjective(Line)
  BY <1>1 DEF LinkInv, Good, IsInjective
<1>3. Range(Line) = {e \in Events : scheduled[e]}
  <2>1. ASSUME NEW e \in Range(Line) PROVE e \in Events /\ scheduled[e]
    BY <1>1 DEF Range, LinkInv, Reaches
  <2>2. ASSUME NEW e \in Events, scheduled[e] PROVE e \in Range(Line)
    BY <1>1, <2>2 DEF Range, LinkInv, Reaches
  <2> QED
    BY <2>1, <2>2
<1> QED
  BY <1>2, <1>3 DEF LinksExact

\* The bins of eventq.cpp reach every scheduled event exactly once and nothing else,
\* although the links of unscheduled and buried events are never cleared.
THEOREM QueueLinks == Spec => []LinksExact
<1>1. TypeOK /\ LinkInv /\ [Next]_vars => (TypeOK /\ LinkInv)'
  BY QueueStep
<1> QED
  BY <1>1, QueueStart, LinkFact, PTL DEF Spec

\* EventQueue::insert, remove and serviceOne on the linked bins implement the line
\* of EventOrder: sorted by (when, priority), last in first out among equals.
THEOREM QueueImplements == Spec => Implements
<1>1. TypeOK /\ LinkInv /\ [Next]_vars
        => (TypeOK /\ LinkInv)' /\ [Order!Next]_(Order!vars)
  BY QueueStep
<1> QED
  BY <1>1, QueueStart, PTL DEF Spec, Implements, Order!Spec
=============================================================================
