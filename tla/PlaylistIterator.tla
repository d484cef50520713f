--------------------------- MODULE PlaylistIterator ---------------------------
(***************************************************************************)
(* The renderer's place in a playlist (mafw-playlist-iterator.c), and the  *)
(* daemon that keeps the playlist (playlist-wrapper.c).                    *)
(*                                                                         *)
(* The iterator has the index and the object id of the current item and a  *)
(* size of its own, which it corrects by the daemon's signals.  A signal   *)
(* is handled some time after the edit it is about.  What the iterator     *)
(* asks while it handles one is answered at once, ahead of the signals     *)
(* that are still on their way: the index and the size are from one state  *)
(* of the playlist, the item from a later one.                             *)
(*                                                                         *)
(* KeepPlace, ShiftedByOne and ResetSilently are wrong versions of the one *)
(* that follows them; nothing uses them, they are there to replace it and  *)
(* show which property notices.                                            *)
(*                                                                         *)
(* Indices start at 0.  A member of Oid is one occurrence of an object id. *)
(* Other clients make the edits.  Errors of the connection are left out.   *)
(***************************************************************************)
EXTENDS Integers, Sequences

CONSTANTS
  Oid,       \* occurrences of object ids
  NoOid,     \* no object id (NULL)
  MaxLen,    \* bound: items in the playlist
  MaxLag,    \* bound: signals on their way
  Shuffled,  \* the playlist is shuffled, at times
  Allowed    \* what else may happen, see Kinds

(* Items are moved; edits are refused; the renderer moves the iterator     *)
(* while signals are on their way; the list is edited while the iterator   *)
(* is being initialised.                                                   *)
Kinds == {"moves", "refused", "commands", "early"}

ASSUME NoOidAssumption   == NoOid \notin Oid
ASSUME BoundAssumption   == MaxLen \in Nat /\ MaxLag \in Nat
ASSUME AllowedAssumption == Shuffled \in BOOLEAN /\ Allowed \subseteq Kinds

VARIABLES
  items,     \* the daemon's playlist
  signals,   \* its signals on their way to the renderer
  phase,     \* the iterator: "off", "starting" (asks for the size), "on"
  index,     \* current_index, -1 for none
  objectid,  \* current_objectid
  size,      \* size, -1 for unknown
  told,      \* the item the renderer was last told to be the current one
  kept       \* history: the current item when no signal was on its way,
             \* NoOid once it was removed or the renderer moved on

iterator == <<phase, index, objectid, size, told>>
vars == <<items, signals, phase, index, objectid, size, told, kept>>

Idx   == 0 .. Len(items) - 1
RangeOf(s) == {s[i] : i \in DOMAIN s}
ItemAt(i) == IF i \in Idx THEN items[i + 1] ELSE NoOid

Contents(from, nremove, nreplace) ==
  [kind |-> "contents", from |-> from, nremove |-> nremove, nreplace |-> nreplace]
Moved(from, to) == [kind |-> "moved", from |-> from, to |-> to]

(* Nothing is on its way: what the iterator has is compared then.          *)
Settled == phase = "on" /\ signals = <<>>

Watched == kept' = IF phase' = "on" /\ signals' = <<>> THEN objectid'
                   ELSE IF kept \in RangeOf(items') THEN kept ELSE NoOid

-----------------------------------------------------------------------------
(* The daemon's handlers.                                                  *)

Send(s) == /\ Len(signals) < MaxLag /\ signals' = Append(signals, s)
           /\ (phase = "starting" => "early" \in Allowed)
           /\ UNCHANGED iterator /\ Watched

Insert ==
  \E at \in 0 .. Len(items), n \in 1 .. MaxLen - Len(items) :
    \E new \in [1 .. n -> Oid \ RangeOf(items)] :
      /\ \A i, j \in 1 .. n : new[i] = new[j] => i = j
      /\ items' = SubSeq(items, 1, at) \o new \o SubSeq(items, at + 1, Len(items))
      /\ Send(Contents(at, 0, n))

(* The signal is sent also when pls_inserts refuses the index.  How far    *)
(* the iterator's size may get ahead is bounded.                           *)
RefusedInsert ==
  /\ "refused" \in Allowed /\ size <= MaxLen /\ UNCHANGED items
  /\ Send(Contents(Len(items) + 1, 0, 1))

Remove ==
  \E at \in Idx :
    /\ items' = SubSeq(items, 1, at) \o SubSeq(items, at + 2, Len(items))
    /\ Send(Contents(at, 1, 0))

Clear == items' = <<>> /\ Send(Contents(0, Len(items), 0))

(* Moving an item to where it is succeeds with any index.                  *)
Move ==
  /\ "moves" \in Allowed
  /\ \E from, to \in 0 .. MaxLen :
       /\ from = to \/ {from, to} \subseteq Idx
       /\ items' = [k \in 1 .. Len(items) |->
                      IF k = to + 1 THEN items[from + 1]
                      ELSE IF from < k /\ k <= to THEN items[k + 1]
                      ELSE IF to + 1 < k /\ k <= from + 1 THEN items[k - 1] ELSE items[k]]
       /\ Send(Moved(from, to))

(* Answers to get_starting_index, get_last_index, get_next and get_prev:   *)
(* the indices they may give, none when there is no such item.  Shuffled,  *)
(* any item may come next; at either end the list may repeat.              *)
StartingIndex == IF Shuffled THEN Idx ELSE Idx \cap {0}
LastIndex     == IF Shuffled THEN Idx ELSE Idx \cap {Len(items) - 1}
NextIndex == IF index \notin Idx THEN {}
             ELSE IF Shuffled THEN IF Idx = {index} THEN Idx ELSE Idx \ {index}
             ELSE IF index + 1 \in Idx THEN {index + 1} ELSE {0}
PrevIndex == IF index \notin Idx THEN {}
             ELSE IF Shuffled THEN IF Idx = {index} THEN Idx ELSE Idx \ {index}
             ELSE IF index - 1 \in Idx THEN {index - 1} ELSE {Len(items) - 1}
NextMayEnd == index \notin Idx \/ Shuffled \/ index + 1 \notin Idx
PrevMayEnd == index \notin Idx \/ Shuffled \/ index - 1 \notin Idx

-----------------------------------------------------------------------------
(* The iterator.                                                           *)

SetData(i) == index' = i /\ objectid' = ItemAt(i)
Keep       == UNCHANGED <<index, objectid>>

(* reset and move_to_last; on an empty list there is no current item.      *)
MoveTo(answers) ==
  \/ \E i \in answers : SetData(i)
  \/ answers = {} /\ index' = -1 /\ objectid' = NoOid

MoveToNext == (\E i \in NextIndex : SetData(i)) \/ (NextMayEnd /\ Keep)
MoveToPrev == (\E i \in PrevIndex : SetData(i)) \/ (PrevMayEnd /\ Keep)

(* get_size: a size of -1 is asked for again.                              *)
KnownSize(s) == IF s = -1 THEN Len(items) ELSE s

(* The item is asked for even if it is beyond the end of a list that       *)
(* became shorter; the answer is then no object id, and no error.          *)
MoveToIndex(i, s) ==
  /\ size' = KnownSize(s)
  /\ IF i \in 0 .. KnownSize(s) - 1 THEN SetData(i) ELSE Keep

(* The C code compares the signed index with unsigned numbers, so that -1  *)
(* comes after all of them.                                                *)
Precedes(i, from) == i < 0 \/ from < i

Resized(s) == size + s.nreplace - s.nremove

KeepPlace(s) ==
  /\ size' = KnownSize(Resized(s))
  /\ IF size' = 0 THEN index' = -1 /\ objectid' = NoOid ELSE SetData(index)
CurrentRemoved(s) ==
  LET known == KnownSize(Resized(s)) IN
  IF known = 0 THEN size' = 0 /\ index' = -1 /\ objectid' = NoOid
  ELSE IF known > 0 /\ index >= known THEN MoveToIndex(known - 1, known)
  ELSE size' = known /\ SetData(index)

ShiftedByOne(s) == index + 1
Shifted(s) == index + s.nreplace

ResetSilently(s) == MoveTo(StartingIndex) /\ size' = Resized(s) /\ UNCHANGED told
FirstInserted(s) == MoveTo(StartingIndex) /\ size' = Resized(s) /\ told' = objectid'

ContentsChanged(s) ==
  \/ /\ s.nremove > 0 /\ index \in s.from .. s.from + s.nremove - 1
     /\ CurrentRemoved(s) /\ told' = objectid'
  \/ /\ s.nremove > 0 /\ index \notin s.from .. s.from + s.nremove - 1
     /\ IF Precedes(index, s.from)
        THEN MoveToIndex(IF index < s.nremove THEN 0 ELSE index - s.nremove, Resized(s))
        ELSE size' = Resized(s) /\ Keep
     /\ UNCHANGED told
  \/ s.nremove = 0 /\ index = -1 /\ FirstInserted(s)
  \/ /\ s.nremove = 0 /\ index # -1
     /\ IF index >= s.from THEN MoveToIndex(Shifted(s), Resized(s))
        ELSE size' = Resized(s) /\ Keep
     /\ UNCHANGED told

PushedTowardHead(s) == s.from < index /\ index <= s.to
PushedTowardTail(s) == s.to <= index /\ index < s.from

ItemMoved(s) ==
  /\ \/ index = s.from /\ MoveToIndex(s.to, size)
     \/ PushedTowardHead(s) /\ MoveToPrev /\ UNCHANGED size
     \/ PushedTowardTail(s) /\ MoveToNext /\ UNCHANGED size
     \/ /\ index # s.from /\ ~PushedTowardHead(s) /\ ~PushedTowardTail(s)
        /\ Keep /\ UNCHANGED size
  /\ UNCHANGED told

HandleSignal ==
  /\ signals # <<>> /\ phase # "starting"
  /\ signals' = Tail(signals)
  /\ IF phase = "off" THEN UNCHANGED iterator
     ELSE /\ UNCHANGED phase
          /\ \/ Head(signals).kind = "contents" /\ ContentsChanged(Head(signals))
             \/ Head(signals).kind = "moved" /\ ItemMoved(Head(signals))
  /\ UNCHANGED items /\ Watched

(* initialize: two questions, then the signals are connected.  The main    *)
(* loop does not run in between.                                           *)
AskStarting ==
  /\ phase = "off" /\ (signals # <<>> => "early" \in Allowed)
  /\ MoveTo(StartingIndex) /\ phase' = "starting"
  /\ UNCHANGED <<items, signals, size, told, kept>>
AskSize ==
  /\ phase = "starting" /\ phase' = "on" /\ size' = Len(items) /\ told' = objectid
  /\ UNCHANGED <<items, signals, index, objectid>> /\ Watched

Invalidate ==
  /\ phase = "on" /\ phase' = "off"
  /\ index' = -1 /\ objectid' = NoOid /\ size' = -1 /\ told' = NoOid
  /\ kept' = NoOid
  /\ UNCHANGED <<items, signals>>

(* The renderer moves the iterator and takes its item.                     *)
RendererMoves ==
  /\ phase = "on" /\ (signals # <<>> => "commands" \in Allowed)
  /\ \/ (MoveTo(StartingIndex) \/ MoveTo(LastIndex)) /\ UNCHANGED size
     \/ (MoveToNext \/ MoveToPrev) /\ UNCHANGED size
     \/ \E i \in 0 .. MaxLen : MoveToIndex(i, size)
  /\ told' = objectid'
  /\ kept' = IF signals = <<>> THEN objectid' ELSE NoOid
  /\ UNCHANGED <<items, signals, phase>>

-----------------------------------------------------------------------------
Init ==
  /\ items = <<>> /\ signals = <<>> /\ phase = "off"
  /\ index = -1 /\ objectid = NoOid /\ size = -1 /\ told = NoOid /\ kept = NoOid

Edit == Insert \/ RefusedInsert \/ Remove \/ Clear \/ Move

Next == Edit \/ HandleSignal \/ AskStarting \/ AskSize \/ Invalidate \/ RendererMoves

Spec == Init /\ [][Next]_vars
-----------------------------------------------------------------------------
(* Properties.                                                             *)

(* Types.                                                                  *)
TypeOK ==
  /\ items \in Seq(Oid) /\ Len(items) <= MaxLen /\ Len(signals) <= MaxLag
  /\ phase \in {"off", "starting", "on"}
  /\ index \in -1 .. MaxLen - 1 /\ size \in -1 .. MaxLen
  /\ {objectid, told, kept} \subseteq Oid \cup {NoOid}

(* Once the signals were handled the iterator's own size is the size of    *)
(* the playlist.                                                           *)
SizeSettles == Settled => size = Len(items)

(* ... its index is the place of the item it has, and only an empty list   *)
(* has no current item.                                                    *)
PlaceSettles ==
  Settled => IF items = <<>> THEN index = -1 /\ objectid = NoOid
             ELSE index \in Idx /\ objectid = ItemAt(index)

(* ... the renderer was told of the item, also if other items were current *)
(* for a moment, because they were asked for too late.                     *)
ToldSettles == Settled => told = objectid

(* An item that is not removed stays the current item, wherever edits have *)
(* pushed it, unless the renderer itself moves on.                         *)
ItemStays ==
  [][HandleSignal /\ phase = "on" /\ signals' = <<>> => kept \in {NoOid, objectid'}]_vars
=============================================================================
