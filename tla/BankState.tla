------------------------------ MODULE BankState ------------------------------
(***************************************************************************)
(* One bank of the DRAM library (DRAMsim3-master/src/bankstate.cc) as a    *)
(* record.  Times are kept relative to the clock: timing[c] is the number  *)
(* of cycles until command c may be issued, and every cycle takes one off. *)
(* "ABORT" stands for AbruptExit, "NONE" for an invalid command.           *)
(***************************************************************************)
EXTENDS Timing

CONSTANT RowHitLimit  \* 4: accesses to an open row are counted up to here

ASSUME HitsAssumption == RowHitLimit \in Nat

ClosedBank ==
  [state |-> "CLOSED", row |-> -1, hits |-> 0, timing |-> [c \in CommandType |-> 0]]

\* The command bank b needs first, so that command c to the row may follow.
RequiredType(b, c, row) ==
  CASE b.state = "CLOSED" /\ c \in ReadWrite -> "ACTIVATE"
    [] b.state = "CLOSED" /\ c \in Refreshes \cup {"SREF_ENTER"} -> c
    [] b.state = "OPEN" /\ c \in ReadWrite -> IF row = b.row THEN c ELSE "PRECHARGE"
    [] b.state = "OPEN" /\ c \in Refreshes \cup {"SREF_ENTER"} -> "PRECHARGE"
    [] b.state = "SREF" /\ c \in ReadWrite -> "SREF_EXIT"
    [] OTHER -> "ABORT"

\* That command, once its time has come.
InTime(b, t) == IF t = "ABORT" \/ b.timing[t] = 0 THEN t ELSE "NONE"
ReadyType(b, c, row) == InTime(b, RequiredType(b, c, row))

\* The commands that UpdateState accepts in each state.
Accepted ==
  [OPEN   |-> ReadWrite \cup {"PRECHARGE"},
   CLOSED |-> Refreshes \cup {"ACTIVATE", "SREF_ENTER"},
   SREF   |-> {"SREF_EXIT"}]

UpdateState(b, c, row) ==
  CASE c \in {"READ", "WRITE"} -> [b EXCEPT !.hits = Min({@ + 1, RowHitLimit})]
    [] c \in {"READ_PRECHARGE", "WRITE_PRECHARGE", "PRECHARGE"} ->
         [b EXCEPT !.state = "CLOSED", !.row = -1, !.hits = 0]
    [] c = "ACTIVATE"   -> [b EXCEPT !.state = "OPEN", !.row = row]
    [] c = "SREF_ENTER" -> [b EXCEPT !.state = "SREF"]
    [] c = "SREF_EXIT"  -> [b EXCEPT !.state = "CLOSED"]
    [] OTHER -> b

\* gap[d] cycles must pass before command d.
UpdateTiming(b, gap) ==
  [b EXCEPT !.timing = [d \in CommandType |-> Later(@[d], gap[d])]]

\* A cycle passes.
Cycle(b) == [b EXCEPT !.timing = [d \in CommandType |-> Later(@[d] - 1, 0)]]
==============================================================================
