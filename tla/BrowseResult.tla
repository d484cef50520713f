---------------------------- MODULE BrowseResult ----------------------------
(***************************************************************************)
(* What a source hands to the callback of mafw_source_browse, and the      *)
(* outcome of a handler of a source: the browse operation after it (Over   *)
(* when it was freed) and the calls of the callback it made, in order.     *)
(* Objects are the positions of a container's items, from 1; 0 is none.    *)
(***************************************************************************)
EXTENDS Integers, Sequences, SequencesExt, FiniteSets

CONSTANTS
  Session,   \* browse ids, in the order they are given
  Over       \* no operation, or one that was freed

ASSUME SessionAssumption ==
  Cardinality(Session) \in Nat /\ Session = 1 .. Cardinality(Session)

Result(left, i, obj) == [id |-> TRUE, left |-> left, index |-> i, obj |-> obj,
                         err |-> FALSE]
Nothing(i) == Result(0, i, 0)
Failure == [Nothing(0) EXCEPT !.err = TRUE]
\* the browse did not begin: the callback is given no valid browse id
Refusal == [Failure EXCEPT !.id = FALSE]

\* the set of all of them, and of what a browse may be asked for
AnyResult == [id : BOOLEAN, left : Nat, index : Nat, obj : Nat, err : BOOLEAN]
Criteria == [skip : Nat, count : Nat, bad : BOOLEAN]

Outcome(op, says) == [op |-> op, says |-> says]

Least(a, b) == IF a < b THEN a ELSE b
\* the items first .. last without the first skip, at most count; 0 is all
Window(first, last, skip, count) ==
  LET from == first + skip
      to == IF count = 0 THEN last ELSE Least(last, from + count - 1)
  IN  [i \in 1 .. (IF to < from THEN 0 ELSE to - from + 1) |-> from + i - 1]
=============================================================================
