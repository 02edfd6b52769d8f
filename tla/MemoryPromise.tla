---------------------------- MODULE MemoryPromise ----------------------------
(***************************************************************************)
(* What a channel of the DRAM library promises the wrapper: it remembers   *)
(* every transaction it accepted until it has an answer for it, and every  *)
(* answer until a callback delivers it, in any order.                      *)
(***************************************************************************)
EXTENDS Integers

CONSTANT Trans  \* what a transaction says: its address and its kind
VARIABLES
  waiting,  \* [Trans] -> transactions without an answer yet
  due       \* [Trans] -> answers to deliver

None == [t \in Trans |-> 0]

Init == waiting = None /\ due = None

\* Some transactions are accepted at once with their answer.
Accept(t) ==
  \/ waiting' = [waiting EXCEPT ![t] = @ + 1] /\ UNCHANGED due
  \/ due' = [due EXCEPT ![t] = @ + 1] /\ UNCHANGED waiting

\* No transaction is lost and none is answered twice.
Finish ==
  /\ DOMAIN waiting' = Trans /\ DOMAIN due' = Trans
  /\ \A t \in Trans : /\ waiting'[t] \in 0 .. waiting[t]
                      /\ waiting'[t] + due'[t] = waiting[t] + due[t]

Deliver ==
  /\ DOMAIN due' = Trans
  /\ \A t \in Trans : due'[t] \in 0 .. due[t]
  /\ UNCHANGED waiting

Next == Finish \/ Deliver \/ \E t \in Trans : Accept(t)

Spec == Init /\ [][Next]_<<waiting, due>>
==============================================================================
