------------------------------ MODULE APlaylist ------------------------------
(***************************************************************************)
(* The array based playlist of the playlist daemon (aplaylist.c).          *)
(*                                                                         *)
(* A playlist keeps its items in visual order (vidx).  While it is         *)
(* shuffled, pidx lists the visual indices in playing order and iidx is    *)
(* the inverse of pidx: pidx[0 .. poolst-1] is the part of the playing     *)
(* order that has been drawn already, pidx[poolst .. len-1] is the pool of *)
(* items not drawn yet.  Playing indices are drawn lazily, when a client   *)
(* asks for the next or the previous item, so a query changes the state.   *)
(*                                                                         *)
(* pls_remove can leave an order that holds an index twice and another not *)
(* at all.  The daemon goes on with it, and so does the model, as long as  *)
(* the indices lead to places of the list.  What lies outside the list in  *)
(* the arrays' memory is not modelled: from the first use of it on every   *)
(* answer is possible, until the order is thrown away.                     *)
(*                                                                         *)
(* A few definitions (ReindexedOnce, DrawFromAll, RedrawAll,               *)
(* PlainNextShort) are wrong versions of the one that follows them;        *)
(* nothing uses them, they are there to replace it and show which property *)
(* notices.                                                                *)
(*                                                                         *)
(* Several clients query and edit one playlist.  One of them, the player,  *)
(* is followed here: walk is what it has been given since its last         *)
(* get_starting, pos its place in it; of a damaged list it is only the     *)
(* item it is at.  The items are distinct: a member of Oid stands for one  *)
(* occurrence of an object id.                                             *)
(***************************************************************************)
EXTENDS Integers, Sequences, TLC

CONSTANTS
  Oid,       \* occurrences of object ids
  NoItem,    \* the answer "there is no such item"
  MaxLen,    \* bound: items in the playlist
  MaxBatch   \* bound: items inserted by one request

ASSUME NoItemAssumption == NoItem \notin Oid
ASSUME BoundAssumption  == MaxLen \in Nat /\ MaxBatch \in Nat

VARIABLES
  len,       \* number of items
  vidx,      \* visual index -> item
  shuffled,
  repeat,
  poolst,    \* first index of the pool; keeps its value while unshuffled
  pidx,      \* playing index -> visual index (empty while unshuffled)
  iidx,      \* visual index -> playing index (empty while unshuffled)
  order,     \* what removals did to it: "kept"; "damaged"; or "lost", when
             \* pidx and iidx are not followed any more and empty
  walk,      \* items given to the player since its last get_starting
  pos,       \* the player's place in walk, 0 when it is on no walk
  said       \* the last step's answer to the player

arrays == <<len, vidx, shuffled, poolst, pidx, iidx, order>>
player == <<walk, pos, said>>
vars   == <<arrays, repeat, player>>

Idx   == 0 .. len - 1
Items == {vidx[i] : i \in Idx}
IndexOf(item) == CHOOSE i \in Idx : vidx[i] = item
RangeOf(s) == {s[i] : i \in DOMAIN s}

Silent == [op |-> "none", item |-> NoItem, wrapped |-> FALSE]
NoWalk == walk' = <<>> /\ pos' = 0 /\ said' = Silent
KeepWalk == said' = Silent /\ UNCHANGED <<walk, pos>>

-----------------------------------------------------------------------------
(* The index arrays.                                                       *)

(* p and q, on 0 .. n-1, are inverse to each other; so each holds every    *)
(* index exactly once, what pls_check() counts with its two histograms.    *)
Mutual(p, q, n) ==
  \A i \in 0 .. n - 1 : /\ p[i] \in 0 .. n - 1 /\ q[p[i]] = i
                        /\ q[i] \in 0 .. n - 1 /\ p[q[i]] = i

WellFormed ==
  shuffled => order # "lost" /\ Mutual(pidx, iidx, len) /\ poolst \in 0 .. len

(* The arrays that are there, and whether those of item i lead to a place. *)
Ordered  == shuffled /\ order # "lost"
Known(i) == order # "lost" /\ (shuffled => iidx[i] \in Idx)

Swapped(p, a, b) == [p EXCEPT ![a] = p[b], ![b] = p[a]]
ReindexedOnce(q, p, a, b) == [q EXCEPT ![p[b]] = a]
Reindexed(q, p, a, b) == [q EXCEPT ![p[b]] = a, ![p[a]] = b]

(* The last i at which p refers to x: the loops that rebuild iidx run      *)
(* upwards and overwrite.  An index that is not referred to from place st  *)
(* on keeps what it had; Stale is what was never written.                  *)
Stale == MaxLen
LastRef(p, n, x) == CHOOSE i \in 0 .. n - 1 :
                      p[i] = x /\ \A j \in 0 .. n - 1 : p[j] = x => j <= i
Rebuilt(p, st, n, old) ==
  [x \in 0 .. n - 1 |->
     IF \E i \in st .. n - 1 : p[i] = x THEN LastRef(p, n, x) ELSE old[x]]

-----------------------------------------------------------------------------
(* Queries.  An outcome is the new index arrays and the answer.            *)

Answer(p, q, st, i, w) ==
  [pidx |-> p, iidx |-> q, poolst |-> st,
   found |-> TRUE, index |-> i, wrapped |-> w]
Nothing(p, q, st) ==
  [pidx |-> p, iidx |-> q, poolst |-> st,
   found |-> FALSE, index |-> 0, wrapped |-> FALSE]

DrawFromAll(p, q, st) ==
  {[pidx |-> Swapped(p, st, r), iidx |-> Reindexed(q, p, st, r),
    poolst |-> st + 1] : r \in Idx}

(* shuffle_elements(1): some item of the pool becomes the last drawn one.  *)
DrawOne(p, q, st) ==
  {[pidx |-> Swapped(p, st, r), iidx |-> Reindexed(q, p, st, r),
    poolst |-> st + 1] : r \in st .. len - 1}

(* Ways to put the places from st on in another order.                     *)
Arrangements(st) ==
  {s \in [Idx -> Idx] : /\ \A i \in Idx : i < st => s[i] = i
                        /\ \A x \in Idx : \E i \in Idx : s[i] = x}

RedrawAll(p, q, st) ==
  {[pidx |-> f, iidx |-> Rebuilt(f, 0, len, q), poolst |-> len] :
     f \in {[i \in Idx |-> p[s[i]]] : s \in Arrangements(0)}}

(* shuffle_elements(len): the whole pool is drawn, in any order.           *)
DrawAll(p, q, st) ==
  {[pidx |-> f, iidx |-> Rebuilt(f, st, len, q), poolst |-> len] :
     f \in {[i \in Idx |-> p[s[i]]] : s \in Arrangements(st)}}

StartingOutcomes ==
  IF ~shuffled THEN {Answer(pidx, iidx, poolst, 0, FALSE)}
  ELSE IF poolst = 0
       THEN {Answer(d.pidx, d.iidx, d.poolst, d.pidx[0], FALSE) :
               d \in DrawOne(pidx, iidx, 0)}
       ELSE {Answer(pidx, iidx, poolst, pidx[0], FALSE)}

LastOutcomes(p, q, st, w) ==
  IF ~shuffled THEN {Answer(p, q, st, len - 1, w)}
  ELSE {Answer(d.pidx, d.iidx, d.poolst, d.pidx[len - 1], w) :
          d \in DrawAll(p, q, st)}

(* An item that is asked about while still in the pool is drawn first.     *)
Drawn(i) ==
  IF iidx[i] >= poolst
  THEN [pidx |-> Swapped(pidx, poolst, iidx[i]),
        iidx |-> Reindexed(iidx, pidx, poolst, iidx[i]), poolst |-> poolst + 1]
  ELSE [pidx |-> pidx, iidx |-> iidx, poolst |-> poolst]

PlainNextShort(i) ==
  IF i < len - 2 THEN Answer(pidx, iidx, poolst, i + 1, FALSE)
  ELSE IF repeat THEN Answer(pidx, iidx, poolst, 0, TRUE)
       ELSE Nothing(pidx, iidx, poolst)
PlainNext(i) ==
  IF i < len - 1 THEN Answer(pidx, iidx, poolst, i + 1, FALSE)
  ELSE IF repeat THEN Answer(pidx, iidx, poolst, 0, TRUE)
       ELSE Nothing(pidx, iidx, poolst)

NextOutcomes(i) ==
  IF ~shuffled THEN {PlainNext(i)}
  ELSE IF iidx[i] + 1 < poolst
  THEN {Answer(pidx, iidx, poolst, pidx[iidx[i] + 1], FALSE)}
  ELSE LET a == Drawn(i) IN
       IF a.poolst < len
       THEN {Answer(d.pidx, d.iidx, d.poolst, d.pidx[d.poolst - 1], FALSE) :
               d \in DrawOne(a.pidx, a.iidx, a.poolst)}
       ELSE IF repeat THEN {Answer(a.pidx, a.iidx, a.poolst, a.pidx[0], TRUE)}
            ELSE {Nothing(a.pidx, a.iidx, a.poolst)}

PlainPrev(i) ==
  IF i > 0 THEN Answer(pidx, iidx, poolst, i - 1, FALSE)
  ELSE IF repeat THEN Answer(pidx, iidx, poolst, len - 1, TRUE)
       ELSE Nothing(pidx, iidx, poolst)

PrevOutcomes(i) ==
  IF ~shuffled THEN {PlainPrev(i)}
  ELSE LET a == Drawn(i) IN
       IF a.iidx[i] > 0
       THEN {Answer(a.pidx, a.iidx, a.poolst, a.pidx[a.iidx[i] - 1], FALSE)}
       ELSE IF repeat THEN LastOutcomes(a.pidx, a.iidx, a.poolst, TRUE)
            ELSE {Nothing(a.pidx, a.iidx, a.poolst)}

(* What is answered once the arrays lead outside: anything.                *)
Astray == {Answer(<<>>, <<>>, 0, i, FALSE) : i \in Idx} \cup {Nothing(<<>>, <<>>, 0)}

Asked(known, outcomes) == IF known THEN outcomes ELSE Astray

-----------------------------------------------------------------------------
Init ==
  /\ len = 0 /\ vidx = <<>> /\ shuffled = FALSE /\ repeat = FALSE
  /\ poolst = 0 /\ pidx = <<>> /\ iidx = <<>> /\ order = "kept"
  /\ walk = <<>> /\ pos = 0 /\ said = Silent

Take(o, known) ==
  /\ pidx' = o.pidx /\ iidx' = o.iidx /\ poolst' = o.poolst
  /\ order' = IF known THEN order ELSE "lost"
  /\ UNCHANGED <<len, vidx, shuffled, repeat>>

Tell(op, o) == said' = [op |-> op, wrapped |-> o.wrapped,
                        item |-> IF o.found THEN vidx[o.index] ELSE NoItem]

\* the player is at the item it was given, and what was before is forgotten
Begins(o) == IF o.found THEN walk' = <<vidx[o.index]>> /\ pos' = 1
                        ELSE UNCHANGED <<walk, pos>>

PlayerStarts ==
  /\ len > 0
  /\ LET known == order # "lost" IN
     \E o \in Asked(known, StartingOutcomes) :
       Take(o, known) /\ Tell("starting", o) /\ Begins(o)

WalksOn(o) ==
  \/ pos < Len(walk) /\ pos' = pos + 1 /\ UNCHANGED walk
  \/ /\ pos = Len(walk) /\ o.found /\ ~o.wrapped
     /\ walk' = Append(walk, vidx[o.index]) /\ pos' = pos + 1
  \/ pos = Len(walk) /\ o.wrapped /\ pos' = 1 /\ UNCHANGED walk
  \/ pos = Len(walk) /\ ~o.found /\ UNCHANGED <<walk, pos>>

PlayerNext ==
  /\ pos > 0
  /\ LET i == IndexOf(walk[pos]) IN
     \E o \in Asked(Known(i), NextOutcomes(i)) :
       /\ Take(o, Known(i)) /\ Tell("next", o)
       /\ IF order = "kept" THEN WalksOn(o) ELSE Begins(o)

WalksBack(o) ==
  \/ pos > 1 /\ pos' = pos - 1 /\ UNCHANGED walk
  \/ pos = 1 /\ o.wrapped /\ walk' = <<>> /\ pos' = 0
  \/ pos = 1 /\ ~o.wrapped /\ UNCHANGED <<walk, pos>>

PlayerPrev ==
  /\ pos > 0
  /\ LET i == IndexOf(walk[pos]) IN
     \E o \in Asked(Known(i), PrevOutcomes(i)) :
       /\ Take(o, Known(i)) /\ Tell("prev", o)
       /\ IF order = "kept" THEN WalksBack(o) ELSE Begins(o)

(* Another client's query.  It changes nothing unless it draws items.      *)
OthersQuery ==
  /\ shuffled /\ len > 0
  /\ \/ LET known == order # "lost" IN
        \E o \in Asked(known, StartingOutcomes
                                \cup LastOutcomes(pidx, iidx, poolst, FALSE)) :
          Take(o, known)
     \/ \E i \in Idx :
          \E o \in Asked(Known(i), NextOutcomes(i) \cup PrevOutcomes(i)) :
            Take(o, Known(i))
  /\ KeepWalk

-----------------------------------------------------------------------------
(* Edits.                                                                  *)

(* pls_inserts: the new items take the visual places idx .. idx+n-1 and    *)
(* enter the pool, whatever was drawn before.                              *)
InsertedOrder(p, m, idx, n) ==
  [i \in 0 .. m + n - 1 |-> IF i >= m THEN idx + (i - m)
                            ELSE IF p[i] >= idx THEN p[i] + n ELSE p[i]]
InsertedInverse(p, q, m, idx, n) ==
  [x \in 0 .. m + n - 1 |->
     IF x < idx THEN q[x]
     ELSE Rebuilt(InsertedOrder(p, m, idx, n), 0, m + n,
                  [y \in 0 .. m + n - 1 |-> IF y < m THEN q[y] ELSE Stale])[x]]

Inserts(idx, oids, n) ==
  /\ n > 0 /\ idx <= len /\ len + n <= MaxLen
  /\ IF Ordered THEN /\ pidx' = InsertedOrder(pidx, len, idx, n)
                     /\ iidx' = InsertedInverse(pidx, iidx, len, idx, n)
                ELSE UNCHANGED <<pidx, iidx>>
  /\ IF shuffled THEN KeepWalk ELSE NoWalk
  /\ vidx' = [k \in 0 .. len + n - 1 |->
                IF k < idx THEN vidx[k]
                ELSE IF k < idx + n THEN oids[k - idx] ELSE vidx[k - n]]
  /\ len' = len + n
  /\ UNCHANGED <<shuffled, repeat, poolst, order>>

(* pls_remove on the playing order: of a drawn item only the drawn part    *)
(* above it moves down, so pidx[poolst-1] keeps its value and, unless the  *)
(* pool is empty, becomes the first element of the pool; a pool item is    *)
(* replaced by the last one.                                               *)
OrderWithout(idx) ==
  LET opx == iidx[idx]
      renumbered == [i \in Idx |-> IF pidx[i] > idx THEN pidx[i] - 1 ELSE pidx[i]]
  IN IF opx < poolst
     THEN [i \in 0 .. len - 2 |-> IF opx <= i /\ i < poolst - 1
                                  THEN renumbered[i + 1] ELSE renumbered[i]]
     ELSE [i \in 0 .. len - 2 |-> IF i = opx THEN renumbered[len - 1]
                                  ELSE renumbered[i]]

(* The removed item leaves the player's walk; without a current item there *)
(* is no walk.                                                             *)
WalkWithout(item) ==
  IF pos = 0 \/ walk[pos] = item THEN NoWalk
  ELSE IF item \notin RangeOf(walk) THEN KeepWalk
  ELSE \E k \in DOMAIN walk :
         /\ walk[k] = item
         /\ walk' = [i \in 1 .. Len(walk) - 1 |-> IF i < k THEN walk[i] ELSE walk[i + 1]]
         /\ pos' = IF k < pos THEN pos - 1 ELSE pos
         /\ said' = Silent

\* of a list whose order is damaged the player only knows where it is
WalkDamaged(item) ==
  IF pos = 0 \/ walk[pos] = item THEN NoWalk
  ELSE walk' = <<walk[pos]>> /\ pos' = 1 /\ said' = Silent

(* The order after the removal leads to places of the list.                *)
Survives(idx) ==
  Known(idx) /\ \A i \in 0 .. len - 2 : OrderWithout(idx)[i] \in 0 .. len - 2

RemovesFromOrder(idx) ==
  /\ IF Survives(idx)
     THEN /\ pidx' = OrderWithout(idx)
          /\ iidx' = Rebuilt(OrderWithout(idx), 0, len - 1, iidx)
          /\ poolst' = IF iidx[idx] < poolst THEN poolst - 1 ELSE poolst
          /\ order' = IF order = "kept" /\ Mutual(pidx', iidx', len - 1)
                      THEN "kept" ELSE "damaged"
     ELSE pidx' = <<>> /\ iidx' = <<>> /\ poolst' = 0 /\ order' = "lost"
  /\ IF order' = "kept" THEN WalkWithout(vidx[idx]) ELSE WalkDamaged(vidx[idx])

Remove(idx) ==
  /\ idx < len
  /\ IF shuffled THEN RemovesFromOrder(idx)
                 ELSE UNCHANGED <<pidx, iidx, poolst, order>> /\ NoWalk
  /\ vidx' = [k \in 0 .. len - 2 |-> IF k < idx THEN vidx[k] ELSE vidx[k + 1]]
  /\ len' = len - 1
  /\ UNCHANGED <<shuffled, repeat>>

(* pls_move rotates the items between the two places; the index arrays     *)
(* stay, so the items trade their playing positions.                       *)
Move(from, to) ==
  /\ from # to /\ from < len /\ to < len
  /\ vidx' = [k \in Idx |->
                IF k = to THEN vidx[from]
                ELSE IF from <= k /\ k < to THEN vidx[k + 1]
                ELSE IF to < k /\ k <= from THEN vidx[k - 1] ELSE vidx[k]]
  /\ NoWalk
  /\ UNCHANGED <<len, shuffled, repeat, poolst, pidx, iidx, order>>

Clear ==
  /\ len' = 0 /\ vidx' = <<>> /\ pidx' = <<>> /\ iidx' = <<>> /\ poolst' = 0
  /\ order' = "kept"
  /\ NoWalk
  /\ UNCHANGED <<shuffled, repeat>>

(* Shuffling a shuffled list keeps its order and puts all of it back into  *)
(* the pool.                                                               *)
Shuffle ==
  /\ IF shuffled THEN UNCHANGED <<pidx, iidx>>
     ELSE pidx' = [i \in Idx |-> i] /\ iidx' = [i \in Idx |-> i]
  /\ shuffled' = TRUE /\ poolst' = 0
  /\ NoWalk
  /\ UNCHANGED <<len, vidx, repeat, order>>

Unshuffle ==
  /\ shuffled /\ shuffled' = FALSE /\ pidx' = <<>> /\ iidx' = <<>>
  /\ order' = "kept"
  /\ NoWalk
  /\ UNCHANGED <<len, vidx, repeat, poolst>>

SetRepeat ==
  /\ repeat' \in BOOLEAN
  /\ KeepWalk
  /\ UNCHANGED arrays

(* pls_save and, when the daemon is started again, pls_load: pidx and      *)
(* poolst are in the file, iidx is computed from pidx.  A list that is     *)
(* lost may not be loaded; then nothing follows.                           *)
Reload ==
  /\ iidx' = IF Ordered THEN Rebuilt(pidx, 0, len, [x \in Idx |-> Stale]) ELSE iidx
  /\ KeepWalk
  /\ UNCHANGED <<len, vidx, shuffled, repeat, poolst, pidx, order>>

InsertsSome ==
  \E n \in 1 .. MaxBatch, idx \in 0 .. len :
    \E oids \in [0 .. n - 1 -> Oid \ Items] :
      /\ \A i, j \in 0 .. n - 1 : oids[i] = oids[j] => i = j
      /\ Inserts(idx, oids, n)

RemovesOne == \E idx \in Idx : Remove(idx)
MovesOne   == \E from, to \in Idx : Move(from, to)

Edit == \/ InsertsSome \/ RemovesOne \/ MovesOne
        \/ Clear \/ Shuffle \/ Unshuffle \/ SetRepeat \/ Reload

Next == PlayerStarts \/ PlayerNext \/ PlayerPrev \/ OthersQuery \/ Edit

Spec == Init /\ [][Next]_vars

(* The items differ by their names only: the run's symmetry.               *)
OidSymmetry == Permutations(Oid)
-----------------------------------------------------------------------------
(* Properties.                                                             *)

(* Types.  The values of pidx and iidx are bounded by WellFormed, or in a  *)
(* damaged order by InPlace.                                               *)
TypeOK ==
  /\ len \in 0 .. MaxLen /\ vidx \in [Idx -> Oid]
  /\ shuffled \in BOOLEAN /\ repeat \in BOOLEAN /\ poolst \in Nat
  /\ pidx \in [(IF Ordered THEN Idx ELSE {}) -> Nat]
  /\ iidx \in [(IF Ordered THEN Idx ELSE {}) -> Nat]
  /\ order \in {"kept", "damaged", "lost"}
  /\ walk \in Seq(Oid) /\ pos \in 0 .. Len(walk)

(* The places a damaged order still leads to.                              *)
InPlace ==
  /\ Ordered => poolst \in 0 .. len /\ \A i \in Idx : pidx[i] \in Idx
  /\ order # "kept" => shuffled /\ RangeOf(walk) \subseteq Items

(* Removing an item that was drawn, while others are still in the pool.    *)
RemovesDrawn ==
  \E idx \in Idx : shuffled /\ iidx[idx] < poolst /\ poolst < len /\ Remove(idx)

(* Every other edit and every query leaves a playing order that holds each *)
(* item once, with its inverse and a pool inside the list: draws, swaps,   *)
(* renumbering and the rebuilt inverse never get out of step.              *)
OrderKept ==
  [][order = "kept" /\ ~RemovesDrawn => order' = "kept" /\ WellFormed']_vars

(* A client that walks through the playlist is given no item twice before  *)
(* the list wraps, whatever others ask, insert or remove meanwhile; unless *)
(* a removal damaged the order, which OrderKept allows to one kind only,   *)
(* and from then on until the list is cleared or unshuffled.               *)
NoRepeat ==
  order = "kept" => \A i, j \in DOMAIN walk : walk[i] = walk[j] => i = j

(* Going back and forth retraces the items in the order they were given in *)
(* the first time, although the order is drawn at random; with the same    *)
(* exception.                                                              *)
Retrace ==
  [][order = "kept" =>
       /\ said'.op = "next" /\ pos > 0 /\ pos < Len(walk) => said'.item = walk[pos + 1]
       /\ said'.op = "prev" /\ pos > 1 => said'.item = walk[pos - 1]]_vars

(* get_next only says there is no next item, or starts again from the      *)
(* first one, when the walk has been through every item of the list: none  *)
(* is skipped, nor one inserted during the walk.  In a damaged order one   *)
(* is: the index that was lost is never given.                             *)
NoneSkipped ==
  [][order = "kept" /\ said'.op = "next" /\ (said'.wrapped \/ said'.item = NoItem)
       => RangeOf(walk) = Items /\ (said'.wrapped => said'.item = walk[1])]_vars

(* What was given to the player is the beginning of the playing order, all *)
(* of it drawn.                                                            *)
WalkFollowsOrder ==
  order = "kept" =>
    /\ shuffled => Len(walk) <= poolst
    /\ \A k \in DOMAIN walk :
         k <= len /\ walk[k] = vidx[IF shuffled THEN pidx[k - 1] ELSE k - 1]
=============================================================================
