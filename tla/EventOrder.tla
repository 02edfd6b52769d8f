----------------------------- MODULE EventOrder -----------------------------
(***************************************************************************)
(* What the event queue promises its users: the scheduled events form one  *)
(* line in the order of (when, priority), a newly scheduled event goes in  *)
(* front of its equals, and the main loop takes the first one.  EventQueue *)
(* implements this line with bins of linked events.                        *)
(***************************************************************************)
EXTENDS Event, Sequences

VARIABLES
  queue,      \* the scheduled events, in service order
  when,       \* Event::_when
  curTick,    \* EventQueue::_curTick
  pc          \* "init": objects start; "loop": main's loop; "handler": process()

vars == <<queue, when, curTick, pc>>

Queued(e) == \E i \in 1 .. Len(queue) : queue[i] = e

Init ==
  /\ queue = <<>>
  /\ when = [e \in Events |-> 0]
  /\ curTick = 0
  /\ pc = "init"

\* The ticks the caller may choose: schedule asserts when >= curTick.
Due == curTick + (IF pc = "handler" THEN MinDelay ELSE 0) .. curTick + MaxDelay

Schedule(e, t) ==
  /\ pc \in {"init", "handler"} /\ ~Queued(e) /\ t \in Due
  /\ when' = [when EXCEPT ![e] = t]
  /\ \E i \in 1 .. Len(queue) + 1 :
       /\ \A j \in 1 .. i - 1 : Less(when', queue[j], e)
       /\ i <= Len(queue) => ~Less(when', queue[i], e)
       /\ queue' = [j \in 1 .. Len(queue) + 1 |->
                      IF j < i THEN queue[j] ELSE IF j = i THEN e ELSE queue[j - 1]]
  /\ UNCHANGED <<curTick, pc>>

Deschedule(e) ==
  /\ pc = "handler"
  /\ \E i \in 1 .. Len(queue) :
       /\ queue[i] = e
       /\ queue' = [j \in 1 .. Len(queue) - 1 |-> IF j < i THEN queue[j] ELSE queue[j + 1]]
  /\ UNCHANGED <<when, curTick, pc>>

Start == pc = "init" /\ pc' = "loop" /\ UNCHANGED <<queue, when, curTick>>

ServiceOne ==
  /\ pc = "loop" /\ queue # <<>> /\ curTick < RunLimit
  /\ queue' = Tail(queue)
  /\ curTick' = when[Head(queue)]
  /\ pc' = "handler"
  /\ UNCHANGED when

HandlerReturns == pc = "handler" /\ pc' = "loop" /\ UNCHANGED <<queue, when, curTick>>

\* The destructor of the queue deschedules the first event until none is left.
Destroy ==
  /\ pc = "loop" /\ queue # <<>> /\ curTick >= RunLimit
  /\ queue' = Tail(queue)
  /\ UNCHANGED <<when, curTick, pc>>

Next ==
  \/ \E e \in Events : Deschedule(e) \/ \E t \in Due : Schedule(e, t)
  \/ Start \/ ServiceOne \/ HandlerReturns \/ Destroy

Spec == Init /\ [][Next]_vars

------------------------------------------------------------------------------
\* The line holds events, and time is a natural number.
LineType ==
  /\ queue \in Seq(Events)
  /\ when \in [Events -> Nat]
  /\ curTick \in Nat
  /\ pc \in {"init", "loop", "handler"}

\* The line is in service order and nothing in it is due in the past.
InOrder ==
  /\ \A i, j \in 1 .. Len(queue) : i < j => ~Less(when, queue[j], queue[i])
  /\ \A i \in 1 .. Len(queue) : when[queue[i]] >= curTick

\* An event is in the line at most once.
Once == \A i, j \in 1 .. Len(queue) : queue[i] = queue[j] => i = j

\* Time never runs backwards.
TimeAdvances == [][curTick' >= curTick]_vars
==============================================================================
