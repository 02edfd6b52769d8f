----------------------------- MODULE EventQueue -----------------------------
(***************************************************************************)
(* The event queue (src/src/event/eventq.h, eventq.cpp) and the loop of    *)
(* main that drives it.  Events with the same (when, priority) form a bin, *)
(* a stack linked by nextInBin; the tops of the bins are linked by nextBin *)
(* in increasing order.  The nextBin of an event below the top is stale.   *)
(***************************************************************************)
EXTENDS Event, Sequences, Functions

VARIABLES
  head,        \* EventQueue::head
  nextBin,     \* Event::nextBin
  nextInBin,   \* Event::nextInBin
  when,        \* Event::_when
  scheduled,   \* Event::_scheduled
  curTick,     \* EventQueue::_curTick
  pc           \* "init": objects start; "loop": main's loop; "handler": process()

links == <<head, nextBin, nextInBin>>
vars == <<links, when, scheduled, curTick, pc>>

Init ==
  /\ head = Null
  /\ nextBin = [e \in Events |-> Null] /\ nextInBin = [e \in Events |-> Null]
  /\ when = [e \in Events |-> 0]
  /\ scheduled = [e \in Events |-> FALSE]
  /\ curTick = 0
  /\ pc = "init"

\* In the line q of events, position i starts a bin: the event before it ends one.
Starts(q, i) == i = 1 \/ nextInBin[q[i - 1]] = Null

\* The event at position j is the top of the bin that position i is in.
TopAt(q, j, i) == Starts(q, j) /\ \A k \in j + 1 .. i : ~Starts(q, k)

\* Following the links from the head gives q: down each bin along nextInBin, and
\* from its end along the nextBin of its top.
Follows(q) ==
  LET at(i) == IF i <= Len(q) THEN q[i] ELSE Null IN
    /\ head = at(1)
    /\ \A i \in 1 .. Len(q) :
         IF nextInBin[q[i]] # Null
         THEN nextInBin[q[i]] = at(i + 1)
         ELSE \E j \in 1 .. i : TopAt(q, j, i) /\ nextBin[q[j]] = at(i + 1)

\* The queue as one line: empty as well when the links never come to an end.
Line ==
  LET Lines == UNION {[1 .. n -> Events] : n \in 0 .. Cardinality(Events)} IN
    IF \E q \in Lines : Follows(q) THEN CHOOSE q \in Lines : Follows(q) ELSE <<>>

\* Where the search along nextBin for the place of e ends: at the first bin top
\* whose successor is not before e.
LastBefore(e, w) ==
  LET stops == {i \in 1 .. Len(Line) :
                  /\ Starts(Line, i)
                  /\ nextBin[Line[i]] = Null \/ ~Less(w, nextBin[Line[i]], e)}
  IN Line[CHOOSE i \in stops : \A j \in stops : i <= j]

\* The links Event::insertBefore gives e: a bin of its own before curr, or the
\* top of curr's bin.
InsertBefore(e, curr, w) ==
  IF curr = Null \/ Less(w, e, curr)
  THEN [bin |-> curr, inBin |-> Null]
  ELSE [bin |-> nextBin[curr], inBin |-> curr]

\* Faulty: an event equal to the head is not put in front of it.
Insert_Behind(e, w) ==
  LET atHead == head = Null \/ Less(w, e, head)
      prev   == LastBefore(e, w)
      new    == InsertBefore(e, IF atHead THEN head ELSE nextBin[prev], w)
      linked == [nextBin EXCEPT ![e] = new.bin]
  IN /\ nextInBin' = [nextInBin EXCEPT ![e] = new.inBin]
     /\ head' = IF atHead THEN e ELSE head
     /\ nextBin' = IF atHead THEN linked ELSE [linked EXCEPT ![prev] = e]
     /\ scheduled' = [scheduled EXCEPT ![e] = TRUE]

\* EventQueue::insert, with the event's time already set in w.
Insert(e, w) ==
  LET atHead == head = Null \/ ~Less(w, head, e)
      prev   == LastBefore(e, w)
      new    == InsertBefore(e, IF atHead THEN head ELSE nextBin[prev], w)
      linked == [nextBin EXCEPT ![e] = new.bin]
  IN /\ nextInBin' = [nextInBin EXCEPT ![e] = new.inBin]
     /\ head' = IF atHead THEN e ELSE head
     /\ nextBin' = IF atHead THEN linked ELSE [linked EXCEPT ![prev] = e]
     /\ scheduled' = [scheduled EXCEPT ![e] = TRUE]

\* Event::removeItem takes e out of the bin with top t: the new top of the bin
\* (or the next bin) and the links it changes.
RemoveItem(e, t) ==
  IF e = t
  THEN IF nextInBin[t] = Null
       THEN [top |-> nextBin[t], bins |-> nextBin, inBins |-> nextInBin]
       ELSE [top |-> nextInBin[t], inBins |-> nextInBin,
             bins |-> [nextBin EXCEPT ![nextInBin[t]] = nextBin[t]]]
  ELSE LET above == CHOOSE f \in Events : scheduled[f] /\ nextInBin[f] = e
       IN [top |-> t, bins |-> nextBin,
           inBins |-> [nextInBin EXCEPT ![above] = nextInBin[e]]]

\* EventQueue::remove; the code throws when it does not find e.
Remove(e) ==
  LET first == Same(when, head, e)
      prev  == LastBefore(e, when)
      r     == RemoveItem(e, IF first THEN head ELSE nextBin[prev])
  IN /\ e \in Range(Line)
     /\ head' = IF first THEN r.top ELSE head
     /\ nextBin' = IF first THEN r.bins ELSE [r.bins EXCEPT ![prev] = r.top]
     /\ nextInBin' = r.inBins
     /\ scheduled' = [scheduled EXCEPT ![e] = FALSE]

------------------------------------------------------------------------------
\* Faulty: the assertion on the time is gone.
Due_Past == curTick - 1 .. curTick + MaxDelay

\* The ticks a caller may choose; schedule asserts when >= curTick.
Due == curTick + (IF pc = "handler" THEN MinDelay ELSE 0) .. curTick + MaxDelay

Schedule(e, t) ==
  /\ pc \in {"init", "handler"} /\ ~scheduled[e]
  /\ when' = [when EXCEPT ![e] = t]
  /\ Insert(e, when')
  /\ UNCHANGED <<curTick, pc>>

Deschedule(e) ==
  /\ pc = "handler" /\ scheduled[e]
  /\ Remove(e)
  /\ UNCHANGED <<when, curTick, pc>>

\* main has initialised the objects and enters its loop.
Start == pc = "init" /\ pc' = "loop" /\ UNCHANGED <<links, when, scheduled, curTick>>

\* Faulty: the next event of the bin does not take over the link to the next bin.
ServiceOne_StaleBin ==
  /\ pc = "loop" /\ head # Null /\ curTick < RunLimit
  /\ scheduled' = [scheduled EXCEPT ![head] = FALSE]
  /\ head' = IF nextInBin[head] # Null THEN nextInBin[head] ELSE nextBin[head]
  /\ curTick' = when[head] /\ pc' = "handler"
  /\ UNCHANGED <<nextBin, nextInBin, when>>

\* Faulty: the loop ends a tick early.
ServiceOne_Early ==
  LET next == nextInBin[head] IN
    /\ pc = "loop" /\ head # Null /\ curTick + 1 < RunLimit
    /\ scheduled' = [scheduled EXCEPT ![head] = FALSE]
    /\ IF next # Null
       THEN nextBin' = [nextBin EXCEPT ![next] = nextBin[head]] /\ head' = next
       ELSE head' = nextBin[head] /\ UNCHANGED nextBin
    /\ curTick' = when[head] /\ pc' = "handler"
    /\ UNCHANGED <<nextInBin, when>>

ServiceOne ==
  LET next == nextInBin[head] IN
    /\ pc = "loop" /\ head # Null /\ curTick < RunLimit
    /\ scheduled' = [scheduled EXCEPT ![head] = FALSE]
    /\ IF next # Null
       THEN nextBin' = [nextBin EXCEPT ![next] = nextBin[head]] /\ head' = next
       ELSE head' = nextBin[head] /\ UNCHANGED nextBin
    /\ curTick' = when[head] /\ pc' = "handler"
    /\ UNCHANGED <<nextInBin, when>>

HandlerReturns ==
  pc = "handler" /\ pc' = "loop" /\ UNCHANGED <<links, when, scheduled, curTick>>

\* After the loop main deletes the queue, which deschedules the first event
\* until none is left.
Destroy ==
  /\ pc = "loop" /\ head # Null /\ curTick >= RunLimit
  /\ Remove(head)
  /\ UNCHANGED <<when, curTick, pc>>

Next ==
  \/ \E e \in Events : Deschedule(e) \/ \E t \in Due : Schedule(e, t)
  \/ Start \/ ServiceOne \/ HandlerReturns \/ Destroy

Spec == Init /\ [][Next]_vars

\* main's loop goes on while events are queued, and a handler returns.
FairSpec == Spec /\ WF_vars(Start) /\ WF_vars(ServiceOne) /\ WF_vars(HandlerReturns)

------------------------------------------------------------------------------
(* Properties.                                                             *)

\* The links and times have the types of eventq.h; no event gets a negative time.
TypeOK ==
  /\ head \in Events \cup {Null}
  /\ nextBin \in [Events -> Events \cup {Null}]
  /\ nextInBin \in [Events -> Events \cup {Null}]
  /\ when \in [Events -> Nat]
  /\ scheduled \in [Events -> BOOLEAN]
  /\ curTick \in Nat
  /\ pc \in {"init", "loop", "handler"}

\* The links reach exactly the events whose flag says scheduled, each once,
\* although links of unscheduled and of buried events are never cleared.
LinksExact == IsInjective(Line) /\ Range(Line) = {e \in Events : scheduled[e]}

\* The linked bins behave as the line of EventOrder: sorted by (when, priority),
\* last in first out among equals.
Order == INSTANCE EventOrder WITH queue <- Line
Implements == Order!Spec

\* A scheduled event due before the limit is processed (or descheduled): with a
\* delay of at least one tick no stream of new events keeps it waiting.
Served ==
  \A e \in Events : scheduled[e] /\ when[e] < RunLimit ~> ~scheduled[e]
==============================================================================
