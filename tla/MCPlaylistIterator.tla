------------------------- MODULE MCPlaylistIterator -------------------------
(* PlaylistIterator on two small instances, one of which runs: a shuffled  *)
(* list with signals late, and, with a state of its own, InStep, a longer  *)
(* list that is not shuffled, whose signals are handled one by one and     *)
(* whose items are moved.  The items are interchangeable.                  *)
EXTENDS PlaylistIterator, TLC

CONSTANTS StepLen, StepAllowed   \* MaxLen and Allowed of InStep

VARIABLES
  late,   \* the instance that runs is not InStep
  sitems, ssignals, sphase, sindex, sobjectid, ssize, stold, skept

svars == <<sitems, ssignals, sphase, sindex, sobjectid, ssize, stold, skept>>

InStep == INSTANCE PlaylistIterator WITH
  MaxLen <- StepLen, MaxLag <- 1, Shuffled <- FALSE, Allowed <- StepAllowed,
  items <- sitems, signals <- ssignals, phase <- sphase, index <- sindex,
  objectid <- sobjectid, size <- ssize, told <- stold, kept <- skept

MCInit == Init /\ InStep!Init /\ late \in BOOLEAN

MCNext ==
  /\ UNCHANGED late
  /\ \/ late /\ Next /\ UNCHANGED svars
     \/ ~late /\ InStep!Next /\ UNCHANGED vars

MCSpec == MCInit /\ [][MCNext]_<<late, vars, svars>>

(* When the iterator handles each signal before the next edit              *)
(* (mafw-playlist-iterator.c:145), the renderer was told of its item, with *)
(* moves and refused edits too.                                            *)
ToldInStep == InStep!ToldSettles

ASSUME StepAssumption ==
  StepLen \in Nat /\ StepAllowed \subseteq {"moves", "refused"}

ItemSymmetry == Permutations(Oid)
=============================================================================
