------------------------------- MODULE Event -------------------------------
(***************************************************************************)
(* The events of the simulator and their order (src/src/event/eventq.h).   *)
(***************************************************************************)
EXTENDS Integers, FiniteSets

CONSTANTS
  Events,     \* the Event objects
  Pri,        \* Event::_priority
  RunLimit,   \* main's loop ends when curTick reaches it
  MinDelay,   \* the least delay a handler schedules with
  MaxDelay,   \* the largest (bounds the model)
  Null        \* nullptr, where a list of events ends

ASSUME QueueAssumption ==
  /\ Pri \in [Events -> Int]
  /\ RunLimit \in Nat
  /\ MinDelay \in Nat /\ MaxDelay \in Nat

ASSUME LinkAssumption == IsFiniteSet(Events) /\ Null \notin Events

\* operator< and operator== of two events, under the times w
Less(w, e, f) == w[e] < w[f] \/ (w[e] = w[f] /\ Pri[e] < Pri[f])
Same(w, e, f) == w[e] = w[f] /\ Pri[e] = Pri[f]
==============================================================================
