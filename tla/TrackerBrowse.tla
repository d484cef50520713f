---------------------------- MODULE TrackerBrowse ----------------------------
(***************************************************************************)
(* Browsing the tracker source (mafw-tracker-source-browse.c).  browse()   *)
(* asks tracker (external) and returns; the answers build up a list of     *)
(* ids that idles hand to the callback one by one.  What is asked, and in  *)
(* how many steps, depends on the category:                                *)
(*   "items"      one query: songs, videos, albums, one artist's songs ... *)
(*   "all"        "/" recursively: the songs, then the videos              *)
(*   "branches"   "/" or "/music": the metadata of each branch, one by one *)
(*   "playlists"  one query, then the durations tracker does not know      *)
(*   "entries"    a playlist file, parsed by browse() itself               *)
(* An operation is a struct _browse_closure.  SaysNothing is a wrong       *)
(* version of EmitIdle.                                                    *)
(***************************************************************************)
EXTENDS BrowseResult

CONSTANT MaxItems   \* bound: items of a container

Category == {"items", "all", "branches", "playlists", "entries"}
Unlimited == 2 * MaxItems + 1   \* G_MAXINT: what count 0 asks for
Branches == {1, 2}
ASSUME ItemsAssumption == MaxItems \in Nat /\ Branches \subseteq 0 .. MaxItems

\* the first half of the items are songs, the others videos
Songs(stock) == (stock + 1) \div 2

Emits(c) == [c EXCEPT !.st = "emit", !.index = 0]

(* A playlist's entries, those in the window asked for: in the order of    *)
(* the file if some are local files, which tracker knows about, else the   *)
(* other way round, for the list is then reversed once more.               *)
EntriesStart(c, stock, parses, local) ==
  LET w == Window(1, stock, c.skip, c.count) IN
  IF ~parses THEN Outcome([c EXCEPT !.st = "stuck"], <<Refusal>>)
  ELSE Outcome(IF local /\ w # <<>> THEN [c EXCEPT !.st = "lookup", !.ids = w]
               ELSE Emits([c EXCEPT !.ids = Reverse(w)]), <<>>)

\* parses, local: what the playlist file turns out to be
TrackerStart(what, req, stock, parses, local) ==
  LET c == [what |-> what, skip |-> req.skip,
            count |-> IF req.count = 0 THEN Unlimited ELSE req.count,
            st |-> "query", ids |-> <<>>, index |-> 0, cancelled |-> FALSE,
            awaited |-> IF what = "branches" THEN Branches ELSE {}]
  IN  IF what = "entries" THEN EntriesStart(c, stock, parses, local)
      ELSE Outcome(c, <<>>)

\* _emit_browse_error: the closure is never freed
Erred(c) == Outcome([c EXCEPT !.st = "stuck"],
                    IF c.cancelled THEN <<>> ELSE <<Failure>>)

QuerySteps(c, stock) ==
  LET ids == Window(1, stock, c.skip, c.count) IN
  {Erred(c), Outcome(Emits([c EXCEPT !.ids = ids]), <<>>)}
  \cup (IF c.what = "playlists"   \* and durations are requested
        THEN {Outcome([c EXCEPT !.st = "durations", !.ids = ids], <<>>)}
        ELSE {})

\* _browse_enqueue_videos_cb; an error leaves the songs out
SongsSteps(c, stock) ==
  LET ids == Window(1, Songs(stock), c.skip, c.count)
      rest == c.count - Len(ids)
  IN  {Outcome([c EXCEPT !.st = "videos"], <<>>),
       Outcome(IF rest = 0 THEN Emits([c EXCEPT !.ids = ids])
               ELSE [c EXCEPT !.st = "videos", !.ids = ids, !.count = rest],
               <<>>)}

VideosSteps(c, stock) ==
  {Erred(c),
   Outcome(Emits([c EXCEPT !.ids = @ \o Window(Songs(stock) + 1, stock, c.skip,
                                               c.count)]), <<>>)}

\* _consolidate_metadata_cb: a branch answers, or fails and is left out
Consolidated(c, b, ok) ==
  LET ids == IF ok THEN <<b>> \o c.ids ELSE c.ids IN
  Outcome(IF c.awaited = {b} THEN Emits([c EXCEPT !.ids = ids])
          ELSE [c EXCEPT !.ids = ids, !.awaited = @ \ {b}], <<>>)
BranchSteps(c) == {Consolidated(c, b, ok) : b \in c.awaited, ok \in BOOLEAN}

\* index stands for current_id while the durations are completed: of each
\* playlist it is known, or asked for by a browse of its entries
DurationSteps(c) ==
  LET next == [c EXCEPT !.index = @ + 1] IN
  IF c.st = "asking" THEN {Outcome([next EXCEPT !.st = "durations"], <<>>)}
  ELSE {Outcome(IF next.index >= Len(c.ids) THEN Emits(c) ELSE next, <<>>)}
       \cup (IF c.index < Len(c.ids)
             THEN {Outcome([c EXCEPT !.st = "asking"], <<>>)} ELSE {})

SaysNothing(c) ==
  IF c.cancelled \/ c.ids = <<>> THEN Outcome(Over, <<>>)
  ELSE Outcome(IF Len(c.ids) = 1 THEN Over
               ELSE [c EXCEPT !.ids = Tail(@), !.index = @ + 1],
               <<Result(Len(c.ids) - 1, c.index, Head(c.ids))>>)

(* One result per idle; a cancelled operation is freed without one.        *)
EmitIdle(c) ==
  IF c.cancelled THEN Outcome(Over, <<>>)
  ELSE IF c.ids = <<>> THEN Outcome(Over, <<Nothing(0)>>)
  ELSE Outcome(IF Len(c.ids) = 1 THEN Over
               ELSE [c EXCEPT !.ids = Tail(@), !.index = @ + 1],
               <<Result(Len(c.ids) - 1, c.index, Head(c.ids))>>)

TrackerSteps(c, stock) ==
  CASE c.st = "query" /\ c.what = "branches" -> BranchSteps(c)
    [] c.st = "query" /\ c.what = "all" -> SongsSteps(c, stock)
    [] c.st = "query" -> QuerySteps(c, stock)
    [] c.st = "videos" -> VideosSteps(c, stock)
    [] c.st = "lookup" -> {Outcome(Emits(c), <<>>)}
    [] c.st \in {"durations", "asking"} -> DurationSteps(c)
    [] c.st = "emit" -> {EmitIdle(c)}
    [] c.st = "stuck" -> {}

\* only a flag: what was asked of tracker is still waited for
TrackerCancel(c) == Outcome([c EXCEPT !.cancelled = TRUE], <<>>)
=============================================================================
